----------------------- MODULE ThreeDsCollectionProofs -----------------------
(***************************************************************************)
(* For any timeout, lifetime, number of signals and of webhook deliveries, *)
(* any difference of the two clocks and every case of the contract: a      *)
(* request to the operator is settled by its own cause, an abort yields no *)
(* result, a result was read under the fence, and a replayed or delayed    *)
(* delivery passes only for what was received after the operator's         *)
(* confirmation, unless the controller's clock is behind the database's.   *)
(***************************************************************************)
EXTENDS ThreeDsCollection, SequenceTheorems, TLAPS

-----------------------------------------------------------------------------
(* The operator's requests.                                                *)

\* A signal for the active request was clicked for it: while it was active, and on the
\* button it asks for.
SignalsWereClicked ==
    \A s \in wire : s.type \in Types /\ s.n = op.active => s.type \in req[s.n].clicked

\* An abort of a request and the loss of the browser are remembered.
AbortsRemembered ==
    /\ op.gone => op.aborted
    /\ \A n \in 1..Len(req) : req[n].status = "aborted" => op.aborted

TransportTypes ==
    /\ now \in 0..MaxTime
    /\ req \in Seq(Request)
    /\ op \in [active : 0..Len(req), closed : BOOLEAN, aborted : BOOLEAN, gone : BOOLEAN]
    /\ \A n \in 1..Len(req) : req[n].status = "active" <=> op.active = n
    /\ panel \in 0..Len(req)
    /\ wire \in SUBSET Signal
    /\ \A s \in wire : s.n \in 1..Len(req)

Transport == TransportTypes /\ SignalsWereClicked /\ SettledByOwnCause

-----------------------------------------------------------------------------
(* The collection.                                                         *)

ReadNames == {"payment", "event", "inbox", "receipts", "snapshot", "state"}

World == [paid : BOOLEAN, pending : 0..1, inbox : Statuses, processedAt : 0..MaxTime,
          receipts : 0..MaxDeliveries, lastReceipt : 0..MaxTime, effects : 0..MaxDeliveries]

WorldTypes ==
    /\ world \in World
    /\ world.processedAt <= now /\ world.lastReceipt <= now
    /\ fence \in BOOLEAN

Lags  == -MaxLag..MaxLag
Dates == -MaxLag..(MaxTime + MaxLag)
Collection ==
    [case : Cases, pc : Nat, toRead : SUBSET ReadNames, seen : Seen, evidence : Evidence,
     before : Seen, failed : BOOLEAN, asked : Nat, checkpointAt : Dates, lag : Lags, mark : Seen,
     unfenced : BOOLEAN, result : {"none", "refused", "failed", "passed"}]

RunTypes ==
    /\ run \in Collection
    /\ run.pc \in 1..Len(Script[run.case])
    /\ run.toRead \subseteq Reads(Stage)
    /\ run.asked <= Len(req)
    /\ Stage \in {"witness", "checkpoint"} => run.asked = Len(req) /\ run.asked # 0
    /\ Stage = "checkpoint" => run.seen = Unseen

\* A delayed delivery is asked for only if no effect was read before.
NoEffectRead ==
    run.case = "delayed" =>
        /\ Stage \in {"before", "askCheckpoint"} => run.evidence.effects = 0
        /\ Stage \in {"checkpoint", "after", "judgeDelayed"} => run.mark.effects = 0

\* While the reads after the checkpoint are made and judged: what they may show as new
\* came after it, unless the controller's clock is behind.
SinceCheckpoint ==
    Stage \in {"after", "judgeReplay", "judgeDelayed"} /\ run.lag <= 0 =>
        /\ run.mark.receipts <= world.receipts /\ run.mark.processedAt <= run.checkpointAt
        /\ world.lastReceipt > run.checkpointAt => world.receipts > run.mark.receipts
        /\ run.seen.lastReceipt > run.checkpointAt => run.seen.receipts > run.mark.receipts

\* What a passing judgement has established, if nothing failed.
ReplayWasFresh(r) == r.lag <= 0 => r.seen.receipts > r.mark.receipts
DelayWasFresh(r) ==
    /\ r.mark.effects = 0
    /\ r.lag <= 0 => r.before.receipts > r.mark.receipts /\ r.before.processedAt > r.mark.processedAt
Judged ==
    ~run.failed =>
        /\ run.case = "replay" /\ Stage \in {"outcome", "return"} => ReplayWasFresh(run)
        /\ run.case = "delayed" /\ run.pc > 15 => DelayWasFresh(run)
        /\ run.case = "delayed" /\ Stage = "return" => run.evidence.effects = 1

\* The last look at the fence covers every read before it.
ReadUnderFence ==
    /\ fence => ~run.unfenced
    /\ Stage = "return" => ~run.unfenced

Collected ==
    IF Running THEN RunTypes /\ AbortsRemembered /\ NoEffectRead /\ SinceCheckpoint /\ Judged /\ ReadUnderFence
    ELSE /\ RunTypes /\ AbortYieldsNoResult /\ ResultReadUnderFence
         /\ PassedReplayIsFresh /\ PassedDelayedWasDelayed

Inv == Transport /\ WorldTypes /\ Collected

-----------------------------------------------------------------------------
(* The scripts of the six kinds of case, stage by stage.                   *)

Stages == {"start", "hooks", "payment", "events", "delivery", "snapshot", "observed", "askWitness",
           "witness", "tryDelayed", "tryReplay", "before", "askCheckpoint", "checkpoint", "after",
           "judgeDelayed", "judgeReplay", "judgePost", "further", "outcome", "return"}

Opening   == <<"start", "hooks">>
Opened    == <<"start", "hooks", "payment", "events", "delivery", "snapshot", "observed">>
Asking    == <<"askWitness", "witness">>
Witnessed == <<"start", "hooks", "payment", "events", "delivery", "snapshot", "observed",
               "askWitness", "witness">>
Delaying  == <<"tryDelayed", "before", "askCheckpoint", "checkpoint", "after", "judgeDelayed">>
Replaying == <<"tryReplay", "before", "askCheckpoint", "checkpoint", "after", "judgeReplay">>
Again     == <<"tryDelayed", "before", "askCheckpoint", "checkpoint", "after", "judgeDelayed",
               "payment", "events", "delivery", "snapshot", "observed">>
Posting   == <<"judgePost">>
Delays    == <<"tryDelayed", "before", "askCheckpoint", "checkpoint", "after", "judgeDelayed",
               "payment", "events", "delivery", "snapshot", "observed", "judgePost">>
Delayed   == <<"start", "hooks", "payment", "events", "delivery", "snapshot", "observed",
               "askWitness", "witness",
               "tryDelayed", "before", "askCheckpoint", "checkpoint", "after", "judgeDelayed",
               "payment", "events", "delivery", "snapshot", "observed", "judgePost">>
Replayed  == <<"start", "hooks", "payment", "events", "delivery", "snapshot", "observed",
               "askWitness", "witness",
               "tryReplay", "before", "askCheckpoint", "checkpoint", "after", "judgeReplay">>
Furthest  == <<"further">>
Denied    == <<"start", "hooks", "payment", "events", "delivery", "snapshot", "observed", "further">>
Ending    == <<"outcome", "return">>

FrictionlessScript == <<"start", "hooks", "payment", "events", "delivery", "snapshot", "observed",
                        "outcome", "return">>
ForeignScript == <<"start", "hooks", "payment", "events", "delivery", "snapshot", "observed", "further",
                   "outcome", "return">>
ChallengeScript == <<"start", "hooks", "payment", "events", "delivery", "snapshot", "observed",
                     "askWitness", "witness", "outcome", "return">>
ReplayScript == <<"start", "hooks", "payment", "events", "delivery", "snapshot", "observed",
                  "askWitness", "witness",
                  "tryReplay", "before", "askCheckpoint", "checkpoint", "after", "judgeReplay",
                  "outcome", "return">>
DelayedScript == <<"start", "hooks", "payment", "events", "delivery", "snapshot", "observed",
                   "askWitness", "witness",
                   "tryDelayed", "before", "askCheckpoint", "checkpoint", "after", "judgeDelayed",
                   "payment", "events", "delivery", "snapshot", "observed", "judgePost",
                   "outcome", "return">>

LEMMA Concatenated ==
    ASSUME NEW S, NEW a \in Seq(S), NEW b \in Seq(S), NEW c \in Seq(S), Len(c) = Len(a) + Len(b),
           \A i \in 1..Len(a) : c[i] = a[i], \A i \in 1..Len(b) : c[Len(a) + i] = b[i]
    PROVE  a \o b = c
<1>1. a \o b \in Seq(S) /\ Len(a \o b) = Len(a) + Len(b)
  BY ConcatProperties
<1>2. \A i \in 1..(Len(a) + Len(b)) : (a \o b)[i] = c[i]
  <2> TAKE i \in 1..(Len(a) + Len(b))
  <2>0. (a \o b)[i] = IF i <= Len(a) THEN a[i] ELSE b[i - Len(a)]
    BY ConcatProperties
  <2>1. CASE i <= Len(a)
    BY <2>0, <2>1
  <2>2. CASE i > Len(a)
    <3>1. PICK j \in 1..Len(b) : i = Len(a) + j
      <4>1. i - Len(a) \in 1..Len(b) /\ i = Len(a) + (i - Len(a))
        BY <2>2
      <4> QED BY <4>1
    <3>2. i - Len(a) = j
      BY <3>1
    <3> QED BY <2>0, <2>2, <3>1, <3>2
  <2> QED BY <2>1, <2>2
<1> QED BY <1>1, <1>2, SeqEqual

LEMMA Lengths ==
    /\ Opening \in Seq(Stages) /\ Len(Opening) = 2
    /\ Observation \in Seq(Stages) /\ Len(Observation) = 5
    /\ Opened \in Seq(Stages) /\ Len(Opened) = 7
    /\ Asking \in Seq(Stages) /\ Len(Asking) = 2
    /\ Witnessed \in Seq(Stages) /\ Len(Witnessed) = 9
    /\ Delaying \in Seq(Stages) /\ Len(Delaying) = 6
    /\ Replaying \in Seq(Stages) /\ Len(Replaying) = 6
    /\ Again \in Seq(Stages) /\ Len(Again) = 11
    /\ Posting \in Seq(Stages) /\ Len(Posting) = 1
    /\ Delays \in Seq(Stages) /\ Len(Delays) = 12
    /\ Delayed \in Seq(Stages) /\ Len(Delayed) = 21
    /\ Replayed \in Seq(Stages) /\ Len(Replayed) = 15
    /\ Furthest \in Seq(Stages) /\ Len(Furthest) = 1
    /\ Denied \in Seq(Stages) /\ Len(Denied) = 8
    /\ Ending \in Seq(Stages) /\ Len(Ending) = 2
    /\ FrictionlessScript \in Seq(Stages) /\ Len(FrictionlessScript) = 9
    /\ ForeignScript \in Seq(Stages) /\ Len(ForeignScript) = 10
    /\ ChallengeScript \in Seq(Stages) /\ Len(ChallengeScript) = 11
    /\ ReplayScript \in Seq(Stages) /\ Len(ReplayScript) = 17
    /\ DelayedScript \in Seq(Stages) /\ Len(DelayedScript) = 23
  BY DEF Stages, Opening, Observation, Opened, Asking, Witnessed, Delaying, Replaying, Again, Posting,
         Delays, Delayed, Replayed, Furthest, Denied, Ending, FrictionlessScript, ForeignScript,
         ChallengeScript, ReplayScript, DelayedScript

LEMMA Parts ==
    /\ Opening \o Observation = Opened
    /\ Opened \o Asking = Witnessed
    /\ Delaying \o Observation = Again
    /\ Again \o Posting = Delays
    /\ Witnessed \o Delays = Delayed
    /\ Witnessed \o Replaying = Replayed
    /\ Opened \o Furthest = Denied
    /\ Opened \o Ending = FrictionlessScript
    /\ Denied \o Ending = ForeignScript
    /\ Witnessed \o Ending = ChallengeScript
    /\ Replayed \o Ending = ReplayScript
    /\ Delayed \o Ending = DelayedScript
<1>1. Opening \o Observation = Opened
  <2>1. /\ \A i \in 1..2 : Opened[i] = Opening[i]
        /\ \A i \in 1..5 : Opened[2 + i] = Observation[i]
    BY DEF Opening, Observation, Opened
  <2>2. /\ Opening \in Seq(Stages) /\ Observation \in Seq(Stages) /\ Opened \in Seq(Stages)
        /\ Len(Opening) = 2 /\ Len(Observation) = 5 /\ Len(Opened) = Len(Opening) + Len(Observation)
    BY Lengths
  <2>3. /\ \A i \in 1..Len(Opening) : Opened[i] = Opening[i]
        /\ \A i \in 1..Len(Observation) : Opened[Len(Opening) + i] = Observation[i]
    BY <2>1, <2>2
  <2> QED BY <2>2, <2>3, Concatenated, Zenon
<1>2. Opened \o Asking = Witnessed
  <2>1. /\ \A i \in 1..7 : Witnessed[i] = Opened[i]
        /\ \A i \in 1..2 : Witnessed[7 + i] = Asking[i]
    BY DEF Opened, Asking, Witnessed
  <2>2. /\ Opened \in Seq(Stages) /\ Asking \in Seq(Stages) /\ Witnessed \in Seq(Stages)
        /\ Len(Opened) = 7 /\ Len(Asking) = 2 /\ Len(Witnessed) = Len(Opened) + Len(Asking)
    BY Lengths
  <2>3. /\ \A i \in 1..Len(Opened) : Witnessed[i] = Opened[i]
        /\ \A i \in 1..Len(Asking) : Witnessed[Len(Opened) + i] = Asking[i]
    BY <2>1, <2>2
  <2> QED BY <2>2, <2>3, Concatenated, Zenon
<1>3. Delaying \o Observation = Again
  <2>1. /\ \A i \in 1..6 : Again[i] = Delaying[i]
        /\ \A i \in 1..5 : Again[6 + i] = Observation[i]
    BY DEF Delaying, Observation, Again
  <2>2. /\ Delaying \in Seq(Stages) /\ Observation \in Seq(Stages) /\ Again \in Seq(Stages)
        /\ Len(Delaying) = 6 /\ Len(Observation) = 5 /\ Len(Again) = Len(Delaying) + Len(Observation)
    BY Lengths
  <2>3. /\ \A i \in 1..Len(Delaying) : Again[i] = Delaying[i]
        /\ \A i \in 1..Len(Observation) : Again[Len(Delaying) + i] = Observation[i]
    BY <2>1, <2>2
  <2> QED BY <2>2, <2>3, Concatenated, Zenon
<1>4. Again \o Posting = Delays
  <2>1. /\ \A i \in 1..11 : Delays[i] = Again[i]
        /\ \A i \in 1..1 : Delays[11 + i] = Posting[i]
    BY DEF Again, Posting, Delays
  <2>2. /\ Again \in Seq(Stages) /\ Posting \in Seq(Stages) /\ Delays \in Seq(Stages)
        /\ Len(Again) = 11 /\ Len(Posting) = 1 /\ Len(Delays) = Len(Again) + Len(Posting)
    BY Lengths
  <2>3. /\ \A i \in 1..Len(Again) : Delays[i] = Again[i]
        /\ \A i \in 1..Len(Posting) : Delays[Len(Again) + i] = Posting[i]
    BY <2>1, <2>2
  <2> QED BY <2>2, <2>3, Concatenated, Zenon
<1>5. Witnessed \o Delays = Delayed
  <2>1. /\ \A i \in 1..9 : Delayed[i] = Witnessed[i]
        /\ \A i \in 1..12 : Delayed[9 + i] = Delays[i]
    BY DEF Witnessed, Delays, Delayed
  <2>2. /\ Witnessed \in Seq(Stages) /\ Delays \in Seq(Stages) /\ Delayed \in Seq(Stages)
        /\ Len(Witnessed) = 9 /\ Len(Delays) = 12 /\ Len(Delayed) = Len(Witnessed) + Len(Delays)
    BY Lengths
  <2>3. /\ \A i \in 1..Len(Witnessed) : Delayed[i] = Witnessed[i]
        /\ \A i \in 1..Len(Delays) : Delayed[Len(Witnessed) + i] = Delays[i]
    BY <2>1, <2>2
  <2> QED BY <2>2, <2>3, Concatenated, Zenon
<1>6. Witnessed \o Replaying = Replayed
  <2>1. /\ \A i \in 1..9 : Replayed[i] = Witnessed[i]
        /\ \A i \in 1..6 : Replayed[9 + i] = Replaying[i]
    BY DEF Witnessed, Replaying, Replayed
  <2>2. /\ Witnessed \in Seq(Stages) /\ Replaying \in Seq(Stages) /\ Replayed \in Seq(Stages)
        /\ Len(Witnessed) = 9 /\ Len(Replaying) = 6 /\ Len(Replayed) = Len(Witnessed) + Len(Replaying)
    BY Lengths
  <2>3. /\ \A i \in 1..Len(Witnessed) : Replayed[i] = Witnessed[i]
        /\ \A i \in 1..Len(Replaying) : Replayed[Len(Witnessed) + i] = Replaying[i]
    BY <2>1, <2>2
  <2> QED BY <2>2, <2>3, Concatenated, Zenon
<1>7. Opened \o Furthest = Denied
  <2>1. /\ \A i \in 1..7 : Denied[i] = Opened[i]
        /\ \A i \in 1..1 : Denied[7 + i] = Furthest[i]
    BY DEF Opened, Furthest, Denied
  <2>2. /\ Opened \in Seq(Stages) /\ Furthest \in Seq(Stages) /\ Denied \in Seq(Stages)
        /\ Len(Opened) = 7 /\ Len(Furthest) = 1 /\ Len(Denied) = Len(Opened) + Len(Furthest)
    BY Lengths
  <2>3. /\ \A i \in 1..Len(Opened) : Denied[i] = Opened[i]
        /\ \A i \in 1..Len(Furthest) : Denied[Len(Opened) + i] = Furthest[i]
    BY <2>1, <2>2
  <2> QED BY <2>2, <2>3, Concatenated, Zenon
<1>8. Opened \o Ending = FrictionlessScript
  <2>1. /\ \A i \in 1..7 : FrictionlessScript[i] = Opened[i]
        /\ \A i \in 1..2 : FrictionlessScript[7 + i] = Ending[i]
    BY DEF Opened, Ending, FrictionlessScript
  <2>2. /\ Opened \in Seq(Stages) /\ Ending \in Seq(Stages) /\ FrictionlessScript \in Seq(Stages)
        /\ Len(Opened) = 7 /\ Len(Ending) = 2 /\ Len(FrictionlessScript) = Len(Opened) + Len(Ending)
    BY Lengths
  <2>3. /\ \A i \in 1..Len(Opened) : FrictionlessScript[i] = Opened[i]
        /\ \A i \in 1..Len(Ending) : FrictionlessScript[Len(Opened) + i] = Ending[i]
    BY <2>1, <2>2
  <2> QED BY <2>2, <2>3, Concatenated, Zenon
<1>9. Denied \o Ending = ForeignScript
  <2>1. /\ \A i \in 1..8 : ForeignScript[i] = Denied[i]
        /\ \A i \in 1..2 : ForeignScript[8 + i] = Ending[i]
    BY DEF Denied, Ending, ForeignScript
  <2>2. /\ Denied \in Seq(Stages) /\ Ending \in Seq(Stages) /\ ForeignScript \in Seq(Stages)
        /\ Len(Denied) = 8 /\ Len(Ending) = 2 /\ Len(ForeignScript) = Len(Denied) + Len(Ending)
    BY Lengths
  <2>3. /\ \A i \in 1..Len(Denied) : ForeignScript[i] = Denied[i]
        /\ \A i \in 1..Len(Ending) : ForeignScript[Len(Denied) + i] = Ending[i]
    BY <2>1, <2>2
  <2> QED BY <2>2, <2>3, Concatenated, Zenon
<1>10. Witnessed \o Ending = ChallengeScript
  <2>1. /\ \A i \in 1..9 : ChallengeScript[i] = Witnessed[i]
        /\ \A i \in 1..2 : ChallengeScript[9 + i] = Ending[i]
    BY DEF Witnessed, Ending, ChallengeScript
  <2>2. /\ Witnessed \in Seq(Stages) /\ Ending \in Seq(Stages) /\ ChallengeScript \in Seq(Stages)
        /\ Len(Witnessed) = 9 /\ Len(Ending) = 2 /\ Len(ChallengeScript) = Len(Witnessed) + Len(Ending)
    BY Lengths
  <2>3. /\ \A i \in 1..Len(Witnessed) : ChallengeScript[i] = Witnessed[i]
        /\ \A i \in 1..Len(Ending) : ChallengeScript[Len(Witnessed) + i] = Ending[i]
    BY <2>1, <2>2
  <2> QED BY <2>2, <2>3, Concatenated, Zenon
<1>11. Replayed \o Ending = ReplayScript
  <2>1. /\ \A i \in 1..15 : ReplayScript[i] = Replayed[i]
        /\ \A i \in 1..2 : ReplayScript[15 + i] = Ending[i]
    BY DEF Replayed, Ending, ReplayScript
  <2>2. /\ Replayed \in Seq(Stages) /\ Ending \in Seq(Stages) /\ ReplayScript \in Seq(Stages)
        /\ Len(Replayed) = 15 /\ Len(Ending) = 2 /\ Len(ReplayScript) = Len(Replayed) + Len(Ending)
    BY Lengths
  <2>3. /\ \A i \in 1..Len(Replayed) : ReplayScript[i] = Replayed[i]
        /\ \A i \in 1..Len(Ending) : ReplayScript[Len(Replayed) + i] = Ending[i]
    BY <2>1, <2>2
  <2> QED BY <2>2, <2>3, Concatenated, Zenon
<1>12. Delayed \o Ending = DelayedScript
  <2>1. /\ \A i \in 1..21 : DelayedScript[i] = Delayed[i]
        /\ \A i \in 1..2 : DelayedScript[21 + i] = Ending[i]
    BY DEF Delayed, Ending, DelayedScript
  <2>2. /\ Delayed \in Seq(Stages) /\ Ending \in Seq(Stages) /\ DelayedScript \in Seq(Stages)
        /\ Len(Delayed) = 21 /\ Len(Ending) = 2 /\ Len(DelayedScript) = Len(Delayed) + Len(Ending)
    BY Lengths
  <2>3. /\ \A i \in 1..Len(Delayed) : DelayedScript[i] = Delayed[i]
        /\ \A i \in 1..Len(Ending) : DelayedScript[Len(Delayed) + i] = Ending[i]
    BY <2>1, <2>2
  <2> QED BY <2>2, <2>3, Concatenated, Zenon
<1> QED BY <1>1, <1>2, <1>3, <1>4, <1>5, <1>6, <1>7, <1>8, <1>9, <1>10, <1>11, <1>12

LEMMA Scripts ==
    /\ Script["success"] = ChallengeScript
    /\ Script["frictionless"] = FrictionlessScript
    /\ Script["declined"] = ChallengeScript
    /\ Script["foreign"] = ForeignScript
    /\ Script["delayed"] = DelayedScript
    /\ Script["replay"] = ReplayScript
<1> USE DEF Opening, Asking, Delaying, Replaying, Posting, Furthest, Ending
<1>0. /\ Opened \o <<>> = Opened /\ Witnessed \o <<>> = Witnessed
      /\ Delayed \o <<>> = Delayed /\ Replayed \o <<>> = Replayed
  BY Lengths, ConcatEmptySeq
<1>1. ScriptOf("success") = ChallengeScript
  BY <1>0, Parts DEF ScriptOf, Contract
<1>2. ScriptOf("frictionless") = FrictionlessScript
  BY <1>0, Parts DEF ScriptOf, Contract
<1>3. ScriptOf("declined") = ChallengeScript
  BY <1>0, Parts DEF ScriptOf, Contract
<1>4. ScriptOf("foreign") = ForeignScript
  BY <1>0, Parts DEF ScriptOf, Contract
<1>5. ScriptOf("delayed") = DelayedScript
  BY <1>0, Parts DEF ScriptOf, Contract
<1>6. ScriptOf("replay") = ReplayScript
  BY <1>0, Parts DEF ScriptOf, Contract
<1>7. /\ DOMAIN Contract = {"success", "frictionless", "declined", "foreign", "delayed", "replay"}
      /\ \A c \in DOMAIN Contract : Script[c] = ScriptOf(c)
  BY DEF Contract, Script
<1> QED BY <1>1, <1>2, <1>3, <1>4, <1>5, <1>6, <1>7

\* Where the stages stand in a script s of n stages of a case c.
Ordered(c, s, n) ==
    /\ s[1] = "start" /\ s[n - 1] = "outcome" /\ s[n] = "return"
    /\ \A i \in 1..n : /\ s[i] = "return" <=> i = n
                       /\ s[i] = "outcome" <=> i = n - 1
    /\ \A i \in 2..n : /\ s[i] = "witness" => s[i - 1] = "askWitness"
                       /\ s[i] = "checkpoint" => s[i - 1] = "askCheckpoint"
                       /\ s[i] = "after" => s[i - 1] = "checkpoint"
                       /\ s[i] \in {"judgeReplay", "judgeDelayed"} => s[i - 1] = "after"
                       /\ s[i] = "askCheckpoint" => s[i - 1] = "before"
                       /\ s[i] = "before" => s[i - 1] = IF c = "delayed" THEN "tryDelayed" ELSE "tryReplay"
    /\ \A i \in 1..n : s[i] = "askWitness" => s[i + 2] \in {"tryDelayed", "tryReplay", "outcome"}
    /\ \A i \in 1..n :
         s[i] \in {"askWitness", "witness", "askCheckpoint", "checkpoint", "after", "judgeReplay"} =>
           i < n - 1 /\ (c = "delayed" => i < 15)
    /\ \A i \in 1..n : s[i] = "judgeDelayed" => c = "delayed"
    /\ c = "replay" => s[n - 2] = "judgeReplay"
    /\ c = "delayed" => s[15] = "judgeDelayed" /\ n = 23

LEMMA ScriptOrder ==
    ASSUME NEW c \in Cases
    PROVE  /\ Script[c] \in Seq(Stages) /\ Len(Script[c]) \in Nat /\ Len(Script[c]) > 8
           /\ Ordered(c, Script[c], Len(Script[c]))
<1>1. c \in {"success", "frictionless", "declined", "foreign", "delayed", "replay"}
  BY CollectionAssumption DEF Contract
<1>2. CASE c = "frictionless"
  <2>1. Script[c] = FrictionlessScript /\ FrictionlessScript \in Seq(Stages) /\ Len(Script[c]) = 9
    BY <1>2, Scripts, Lengths
  <2>2. Ordered(c, FrictionlessScript, 9)
    BY <1>2 DEF Ordered, FrictionlessScript
  <2> QED BY <2>1, <2>2
<1>3. CASE c = "foreign"
  <2>1. Script[c] = ForeignScript /\ ForeignScript \in Seq(Stages) /\ Len(Script[c]) = 10
    BY <1>3, Scripts, Lengths
  <2>2. Ordered(c, ForeignScript, 10)
    BY <1>3 DEF Ordered, ForeignScript
  <2> QED BY <2>1, <2>2
<1>4. CASE c \in {"success", "declined"}
  <2>1. Script[c] = ChallengeScript /\ ChallengeScript \in Seq(Stages) /\ Len(Script[c]) = 11
    BY <1>4, Scripts, Lengths
  <2>2. Ordered(c, ChallengeScript, 11)
    BY <1>4 DEF Ordered, ChallengeScript
  <2> QED BY <2>1, <2>2
<1>5. CASE c = "replay"
  <2>1. Script[c] = ReplayScript /\ ReplayScript \in Seq(Stages) /\ Len(Script[c]) = 17
    BY <1>5, Scripts, Lengths
  <2>2. Ordered(c, ReplayScript, 17)
    BY <1>5 DEF Ordered, ReplayScript
  <2> QED BY <2>1, <2>2
<1>6. CASE c = "delayed"
  <2>1. Script[c] = DelayedScript /\ DelayedScript \in Seq(Stages) /\ Len(Script[c]) = 23
    BY <1>6, Scripts, Lengths
  <2>2. Ordered(c, DelayedScript, 23)
    BY <1>6 DEF Ordered, DelayedScript
  <2> QED BY <2>1, <2>2
<1> QED BY <1>1, <1>2, <1>3, <1>4, <1>5, <1>6

-----------------------------------------------------------------------------
(* The transport.                                                          *)

\* A request settled as status keeps its kind and publication.
LEMMA Finished ==
    ASSUME TransportTypes, NEW status \in Settled, NEW expires \in Nat
    PROVE  /\ FinishPending(status, expires) \in Seq(Request)
           /\ Len(FinishPending(status, expires)) = Len(req)
           /\ \A n \in 1..Len(req) :
                LET q == FinishPending(status, expires)[n]
                IN  /\ q \in Request /\ q.kind = req[n].kind /\ q.publish = req[n].publish
                    /\ n # op.active => q = req[n]
                    /\ n = op.active => /\ q.status = status
                                        /\ q.clicked = req[n].clicked \cap Causes(status, req[n].kind)
<1> DEFINE f == FinishPending(status, expires)
<1>0. /\ req \in Seq(Request) /\ Len(req) \in Nat /\ op.active \in 0..Len(req)
      /\ \A n \in 1..Len(req) : req[n] \in Request
  BY DEF TransportTypes
<1>1. CASE op.active = 0
  BY <1>0, <1>1 DEF FinishPending
<1>2. CASE op.active # 0
  <2> DEFINE a == op.active
             q == [req[a] EXCEPT !.status = status, !.expires = expires, !.at = 0,
                                 !.clicked = req[a].clicked \cap Causes(status, req[a].kind)]
  <2>1. a \in 1..Len(req) /\ req[a] \in Request
    BY <1>0, <1>2
  <2>2. f = [req EXCEPT ![a] = q]
    BY <1>2 DEF FinishPending
  <2>3. /\ q.kind = req[a].kind /\ q.publish = req[a].publish /\ q.status = status
        /\ q.clicked = req[a].clicked \cap Causes(status, req[a].kind)
    BY <2>1 DEF Request
  <2>4. q \in Request
    BY <2>1 DEF Request, Settled
  <2> HIDE DEF q, a
  <2>5. f \in Seq(Request) /\ Len(f) = Len(req)
    BY <1>0, <2>1, <2>2, <2>4
  <2>6. \A n \in 1..Len(req) : f[n] = IF n = a THEN q ELSE req[n]
    BY <1>0, <2>1, <2>2
  <2> HIDE DEF f
  <2>7. \A n \in 1..Len(req) :
            /\ f[n] \in Request /\ f[n].kind = req[n].kind /\ f[n].publish = req[n].publish
            /\ n # a => f[n] = req[n]
            /\ n = a => /\ f[n].status = status
                        /\ f[n].clicked = req[n].clicked \cap Causes(status, req[n].kind)
    BY <1>0, <2>3, <2>4, <2>6
  <2> QED BY <2>5, <2>7 DEF f, a
<1> QED BY <1>1, <1>2

\* Every way of settling the active request that has its cause.
LEMMA Settles ==
    ASSUME Transport, NEW status \in Settled \ {"failed"}, NEW expires \in Nat,
           req' = FinishPending(status, expires),
           op' \in [active : {0}, closed : BOOLEAN, aborted : BOOLEAN, gone : BOOLEAN],
           panel' \in 0..Len(req), wire' \in SUBSET Signal, \A s \in wire' : s.n \in 1..Len(req),
           now' = now,
           op.active # 0 /\ status = "answered" => Confirms[req[op.active].kind] \in req[op.active].clicked,
           op.active # 0 /\ status = "aborted" => "abort" \in req[op.active].clicked
    PROVE  /\ Transport' /\ Len(req') = Len(req)
           /\ \A n \in 1..Len(req) : req'[n].status = "aborted" =>
                req[n].status = "aborted" \/ status = "aborted"
<1>0. /\ TransportTypes /\ SettledByOwnCause /\ Len(req) \in Nat /\ DOMAIN req = 1..Len(req)
      /\ \A n \in 1..Len(req) : req[n].kind \in Kinds
  <2>1. TransportTypes /\ SettledByOwnCause
    BY DEF Transport
  <2>2. req \in Seq(Request) /\ Len(req) \in Nat /\ DOMAIN req = 1..Len(req)
    BY <2>1 DEF TransportTypes
  <2>3. \A n \in 1..Len(req) : req[n] \in Request
    BY <2>2
  <2> QED BY <2>1, <2>2, <2>3 DEF Request
<1>1. /\ req' \in Seq(Request) /\ Len(req') = Len(req) /\ DOMAIN req' = 1..Len(req)
      /\ \A n \in 1..Len(req) :
            /\ req'[n] \in Request /\ req'[n].kind = req[n].kind /\ req'[n].publish = req[n].publish
            /\ n # op.active => req'[n] = req[n]
            /\ n = op.active => /\ req'[n].status = status
                                /\ req'[n].clicked = req[n].clicked \cap Causes(status, req[n].kind)
  BY <1>0, Finished
<1>2. TransportTypes'
  <2>1. op'.active = 0 /\ op' \in [active : 0..Len(req), closed : BOOLEAN, aborted : BOOLEAN, gone : BOOLEAN]
    BY <1>0
  <2>2. \A n \in 1..Len(req) : req'[n].status # "active"
    BY <1>0, <1>1 DEF TransportTypes, Settled
  <2> QED BY <1>0, <1>1, <2>1, <2>2 DEF TransportTypes
<1>3. SignalsWereClicked'
  BY <1>0 DEF SignalsWereClicked, Signal
<1>4. SettledByOwnCause'
  <2> SUFFICES ASSUME NEW n \in 1..Len(req)
               PROVE  /\ req'[n].status = "answered" => Confirms[req'[n].kind] \in req'[n].clicked
                      /\ req'[n].status = "aborted" => "abort" \in req'[n].clicked
                      /\ req'[n].status = "failed" => req'[n].publish = "failed"
    BY <1>1 DEF SettledByOwnCause
  <2>1. CASE n # op.active
    BY <1>0, <1>1, <2>1 DEF SettledByOwnCause
  <2>2. CASE n = op.active
    BY <1>0, <1>1, <2>2 DEF Causes
  <2> QED BY <2>1, <2>2
<1>5. \A n \in 1..Len(req) : req'[n].status = "aborted" => req[n].status = "aborted" \/ status = "aborted"
  BY <1>1
<1> QED BY <1>1, <1>2, <1>3, <1>4, <1>5 DEF Transport

\* What a typed transport says of each request.
LEMMA RequestsTyped ==
    ASSUME TransportTypes
    PROVE  /\ req \in Seq(Request) /\ Len(req) \in Nat /\ DOMAIN req = 1..Len(req)
           /\ \A n \in 1..Len(req) : req[n] \in Request /\ req[n].kind \in Kinds
           /\ op.active \in 0..Len(req)
<1>1. req \in Seq(Request) /\ Len(req) \in Nat /\ DOMAIN req = 1..Len(req) /\ op.active \in 0..Len(req)
  BY DEF TransportTypes
<1>2. \A n \in 1..Len(req) : req[n] \in Request
  BY <1>1
<1> QED BY <1>1, <1>2 DEF Request

\* Signals of clicks that a request n with the record q remembers, if it is active.
ClickedOn(n, q) == {s \in Signal : s.n = n /\ (op.active = n => s.type \in q.clicked)}

\* A step that writes no more of request n than its publication, its use or a click on it.
LEMMA Touches ==
    ASSUME Transport, NEW n \in 1..Len(req), NEW q \in Request, req' = [req EXCEPT ![n] = q],
           q.kind = req[n].kind, q.status = req[n].status, req[n].clicked \subseteq q.clicked,
           q.status = "failed" => q.publish = "failed",
           op' = op, panel' \in 0..Len(req), now' = now,
           wire' \in SUBSET Signal, \A s \in wire' : s.n \in 1..Len(req),
           wire' \subseteq wire \cup ClickedOn(n, q)
    PROVE  /\ Transport' /\ Len(req') = Len(req)
           /\ \A m \in 1..Len(req) : req'[m].status = req[m].status
<1>0. /\ TransportTypes /\ SettledByOwnCause /\ SignalsWereClicked /\ Len(req) \in Nat
      /\ \A m \in 1..Len(req) : req[m] \in Request
      /\ req \in Seq(Request) /\ DOMAIN req = 1..Len(req)
  BY RequestsTyped DEF Transport
<1>1. req' \in Seq(Request) /\ Len(req') = Len(req) /\ DOMAIN req' = 1..Len(req)
  BY <1>0
<1>2. \A m \in 1..Len(req) : req'[m] = IF m = n THEN q ELSE req[m]
  BY <1>0
<1>3. \A m \in 1..Len(req) : /\ req'[m].status = req[m].status /\ req'[m].kind = req[m].kind
                             /\ req[m].clicked \subseteq req'[m].clicked
  BY <1>0, <1>2
<1>4. TransportTypes'
  BY <1>0, <1>1, <1>3 DEF TransportTypes
<1>5. SignalsWereClicked'
  <2> SUFFICES ASSUME NEW s \in wire', s.type \in Types, s.n = op.active
               PROVE  s.type \in req'[s.n].clicked
    BY DEF SignalsWereClicked
  <2>1. CASE s \in wire
    <3>1. s.n \in 1..Len(req) /\ s.type \in req[s.n].clicked
      BY <1>0, <2>1 DEF SignalsWereClicked, TransportTypes
    <3> QED BY <1>3, <3>1
  <2>2. CASE s \notin wire
    BY <1>2, <2>2 DEF ClickedOn
  <2> QED BY <2>1, <2>2
<1>6. SettledByOwnCause'
  <2> SUFFICES ASSUME NEW m \in 1..Len(req)
               PROVE  /\ req'[m].status = "answered" => Confirms[req'[m].kind] \in req'[m].clicked
                      /\ req'[m].status = "aborted" => "abort" \in req'[m].clicked
                      /\ req'[m].status = "failed" => req'[m].publish = "failed"
    BY <1>1 DEF SettledByOwnCause
  <2>1. /\ req[m].status = "answered" => Confirms[req[m].kind] \in req[m].clicked
        /\ req[m].status = "aborted" => "abort" \in req[m].clicked
        /\ req[m].status = "failed" => req[m].publish = "failed"
    BY <1>0 DEF SettledByOwnCause
  <2> QED BY <1>2, <1>3, <2>1
<1> QED BY <1>1, <1>3, <1>4, <1>5, <1>6 DEF Transport

LEMMA IssueKeeps ==
    ASSUME Transport, NEW kind \in Kinds, Issue(kind)
    PROVE  /\ Transport' /\ Len(req') = Len(req) + 1
           /\ AbortsRemembered => AbortsRemembered'
<1> DEFINE q == [kind |-> kind, at |-> now, status |-> "active",
                 publish |-> "sent", clicked |-> {}, expires |-> 0, used |-> FALSE]
<1>0. /\ TransportTypes /\ SettledByOwnCause /\ SignalsWereClicked /\ Len(req) \in Nat
      /\ req \in Seq(Request) /\ DOMAIN req = 1..Len(req)
  BY RequestsTyped DEF Transport
<1>1. q \in Request
  BY <1>0 DEF TransportTypes, Request
<1>2. /\ req' = Append(req, q) /\ op' = [op EXCEPT !.active = Len(req) + 1] /\ op.active = 0
      /\ now' = now /\ panel' = panel /\ wire' = wire /\ q.status = "active"
  BY DEF Issue, MayIssue
<1> HIDE DEF q
<1>3. /\ req' \in Seq(Request) /\ Len(req') = Len(req) + 1 /\ DOMAIN req' = 1..(Len(req) + 1)
      /\ \A n \in 1..(Len(req) + 1) : req'[n] = IF n = Len(req) + 1 THEN q ELSE req[n]
  BY <1>0, <1>1, <1>2
<1>4. /\ op' \in [active : 0..(Len(req) + 1), closed : BOOLEAN, aborted : BOOLEAN, gone : BOOLEAN]
      /\ op'.active = Len(req) + 1 /\ op'.aborted = op.aborted /\ op'.gone = op.gone
  BY <1>0, <1>2 DEF TransportTypes
<1>5. TransportTypes'
  <2>1. \A n \in 1..(Len(req) + 1) : req'[n].status = "active" <=> op'.active = n
    BY <1>0, <1>2, <1>3, <1>4 DEF TransportTypes
  <2>2. panel' \in 0..(Len(req) + 1) /\ \A s \in wire' : s.n \in 1..(Len(req) + 1)
    BY <1>0, <1>2 DEF TransportTypes
  <2> QED BY <1>0, <1>2, <1>3, <1>4, <2>1, <2>2 DEF TransportTypes
<1>6. SignalsWereClicked'
  BY <1>0, <1>2, <1>4 DEF SignalsWereClicked, TransportTypes
<1>7. SettledByOwnCause'
  BY <1>0, <1>2, <1>3 DEF SettledByOwnCause
<1>8. AbortsRemembered => AbortsRemembered'
  BY <1>0, <1>2, <1>3, <1>4 DEF AbortsRemembered
<1> QED BY <1>3, <1>5, <1>6, <1>7, <1>8 DEF Transport

LEMMA CloseKeeps ==
    ASSUME Transport, Close
    PROVE  /\ Transport' /\ Len(req') = Len(req) /\ now' = now /\ op'.gone = op.gone
           /\ AbortsRemembered => \A n \in 1..Len(req) : req'[n].status = "aborted" => op.aborted
<1>0. TransportTypes /\ Len(req) \in Nat
  BY RequestsTyped DEF Transport
<1>1. /\ req' = FinishPending("closed", 0) /\ "closed" \in Settled \ {"failed"} /\ now' = now
      /\ op' = [op EXCEPT !.active = 0, !.closed = TRUE, !.aborted = TRUE]
      /\ panel' \in 0..Len(req) /\ wire' = {}
  BY <1>0 DEF Close, Settled
<1>2. /\ op' \in [active : {0}, closed : BOOLEAN, aborted : BOOLEAN, gone : BOOLEAN]
      /\ op'.gone = op.gone
  BY <1>0, <1>1 DEF TransportTypes
<1>3. /\ Transport' /\ Len(req') = Len(req)
      /\ \A n \in 1..Len(req) : req'[n].status = "aborted" => req[n].status = "aborted"
  BY <1>1, <1>2, Settles
<1> QED BY <1>1, <1>2, <1>3 DEF AbortsRemembered

LEMMA PresentKeeps ==
    ASSUME Transport, NEW n \in DOMAIN req, Present(n)
    PROVE  /\ Transport' /\ Len(req') = Len(req) /\ op' = op /\ now' = now
           /\ \A m \in 1..Len(req) : req'[m].status = req[m].status
<1> DEFINE q == [req[n] EXCEPT !.publish = "shown"]
<1>0. /\ TransportTypes /\ SettledByOwnCause /\ n \in 1..Len(req) /\ req[n] \in Request
      /\ DOMAIN req = 1..Len(req)
  BY RequestsTyped DEF Transport
<1>1. /\ q \in Request /\ q.kind = req[n].kind /\ q.status = req[n].status
      /\ q.clicked = req[n].clicked
  BY <1>0 DEF Request
<1>2. req[n].status # "failed"
  BY <1>0 DEF Present, SettledByOwnCause
<1>3. /\ req' = [req EXCEPT ![n] = q] /\ op' = op /\ panel' = n /\ now' = now /\ wire' = wire
  BY DEF Present
<1> HIDE DEF q
<1>4. panel' \in 0..Len(req) /\ wire' \in SUBSET Signal /\ \A s \in wire' : s.n \in 1..Len(req)
  BY <1>0, <1>3 DEF TransportTypes
<1> QED BY <1>0, <1>1, <1>2, <1>3, <1>4, Touches

LEMMA PublishFailsKeeps ==
    ASSUME Transport, NEW n \in DOMAIN req, PublishFails(n)
    PROVE  /\ Transport' /\ Len(req') = Len(req) /\ now' = now
           /\ op'.aborted = op.aborted /\ op'.gone = op.gone
           /\ \A m \in 1..Len(req) : req'[m].status = "aborted" => req[m].status = "aborted"
<1>0. /\ TransportTypes /\ SettledByOwnCause /\ SignalsWereClicked /\ n \in 1..Len(req)
      /\ req[n] \in Request /\ req \in Seq(Request) /\ DOMAIN req = 1..Len(req) /\ Len(req) \in Nat
      /\ \A m \in 1..Len(req) : req[m] \in Request
  BY RequestsTyped DEF Transport
<1>1. panel' \in 0..Len(req) /\ now' = now /\ wire' = wire
  BY <1>0 DEF PublishFails, TransportTypes
<1>2. CASE op.active # n
  <2> DEFINE q == [req[n] EXCEPT !.publish = "failed"]
  <2>1. /\ q \in Request /\ q.kind = req[n].kind /\ q.status = req[n].status
        /\ q.clicked = req[n].clicked /\ q.publish = "failed"
    BY <1>0 DEF Request
  <2>2. req' = [req EXCEPT ![n] = q] /\ op' = op
    BY <1>2 DEF PublishFails, FailsRequest
  <2> HIDE DEF q
  <2>3. wire' \in SUBSET Signal /\ \A s \in wire' : s.n \in 1..Len(req)
    BY <1>0, <1>1 DEF TransportTypes
  <2>4. /\ Transport' /\ Len(req') = Len(req)
        /\ \A m \in 1..Len(req) : req'[m].status = req[m].status
    BY <1>0, <1>1, <2>1, <2>2, <2>3, Touches
  <2> QED BY <1>1, <2>2, <2>4
<1>3. CASE op.active = n
  <2> DEFINE f == FinishPending("failed", 0)
             q == [f[n] EXCEPT !.publish = "failed"]
  <2>0. op.active # 0
    BY <1>0, <1>3
  <2>1. /\ f \in Seq(Request) /\ Len(f) = Len(req) /\ f[n] \in Request /\ f[n].status = "failed"
        /\ \A m \in 1..Len(req) : m # n => f[m] = req[m]
    <3>1. "failed" \in Settled /\ 0 \in Nat
      BY DEF Settled
    <3> QED BY <1>0, <1>3, <3>1, Finished
  <2>2. req' = [f EXCEPT ![n].publish = "failed"] /\ op' = [op EXCEPT !.active = 0]
    BY <1>3 DEF PublishFails, FailsRequest
  <2> HIDE DEF f
  <2>3. q \in Request /\ q.status = "failed" /\ q.publish = "failed"
    BY <2>1 DEF Request
  <2>4. req' = [f EXCEPT ![n] = q]
    BY <2>2
  <2> HIDE DEF q
  <2>5. /\ req' \in Seq(Request) /\ Len(req') = Len(req) /\ DOMAIN req' = 1..Len(req)
        /\ \A m \in 1..Len(req) : req'[m] = IF m = n THEN q ELSE req[m]
    BY <1>0, <2>1, <2>3, <2>4
  <2>6. /\ op' \in [active : 0..Len(req), closed : BOOLEAN, aborted : BOOLEAN, gone : BOOLEAN]
        /\ op'.active = 0 /\ op'.aborted = op.aborted /\ op'.gone = op.gone
    <3>1. op \in [active : 0..Len(req), closed : BOOLEAN, aborted : BOOLEAN, gone : BOOLEAN]
      BY <1>0 DEF TransportTypes
    <3>2. 0 \in 0..Len(req) /\ op' = [op EXCEPT !.active = 0]
      BY <1>0, <2>2
    <3> QED BY <3>1, <3>2
  <2>7. TransportTypes'
    <3>1. \A m \in 1..Len(req) : req'[m].status = "active" <=> op'.active = m
      BY <1>0, <1>3, <2>3, <2>5, <2>6 DEF TransportTypes
    <3> QED BY <1>0, <1>1, <2>5, <2>6, <3>1 DEF TransportTypes
  <2>8. SignalsWereClicked'
    BY <1>0, <1>1, <2>6 DEF SignalsWereClicked, TransportTypes
  <2>9. SettledByOwnCause'
    BY <1>0, <2>3, <2>5 DEF SettledByOwnCause
  <2> QED BY <1>1, <2>3, <2>5, <2>6, <2>7, <2>8, <2>9 DEF Transport
<1> QED BY <1>2, <1>3

LEMMA TimesOutKeeps ==
    ASSUME Transport, RequestTimesOut
    PROVE  /\ Transport' /\ Len(req') = Len(req) /\ now' = now
           /\ op'.aborted = op.aborted /\ op'.gone = op.gone
           /\ \A m \in 1..Len(req) : req'[m].status = "aborted" => req[m].status = "aborted"
<1>0. TransportTypes
  BY DEF Transport
<1>1. /\ req' = FinishPending("timeout", 0) /\ "timeout" \in Settled \ {"failed"} /\ now' = now
      /\ op' = [op EXCEPT !.active = 0] /\ panel' = panel /\ wire' = wire
  BY DEF RequestTimesOut, Settled
<1>2. /\ op' \in [active : {0}, closed : BOOLEAN, aborted : BOOLEAN, gone : BOOLEAN]
      /\ op'.gone = op.gone /\ op'.aborted = op.aborted
      /\ panel' \in 0..Len(req) /\ wire' \in SUBSET Signal /\ \A s \in wire' : s.n \in 1..Len(req)
  BY <1>0, <1>1 DEF TransportTypes
<1> QED BY <1>1, <1>2, Settles

LEMMA ClickKeeps ==
    ASSUME Transport, NEW type \in Types, Click(type)
    PROVE  /\ Transport' /\ Len(req') = Len(req) /\ op' = op /\ now' = now
           /\ \A m \in 1..Len(req) : req'[m].status = req[m].status
<1> DEFINE n == panel
           q == [req[n] EXCEPT !.clicked = req[n].clicked \cup {type}]
           s == [n |-> panel, type |-> type]
<1>0. /\ TransportTypes /\ SettledByOwnCause /\ n \in 1..Len(req) /\ req[n] \in Request
      /\ DOMAIN req = 1..Len(req) /\ req \in Seq(Request)
  BY RequestsTyped DEF Transport, Click, TransportTypes
<1>1. /\ op' = op /\ panel' = panel /\ now' = now /\ wire' = wire \cup {s}
      /\ req' = IF op.active = n THEN [req EXCEPT ![n].clicked = @ \cup {type}] ELSE req
  BY DEF Click
<1>2. /\ q \in Request /\ q.kind = req[n].kind /\ q.status = req[n].status
      /\ q.clicked = req[n].clicked \cup {type} /\ q.publish = req[n].publish
  BY <1>0 DEF Request
<1>3. s \in Signal /\ s.n = n /\ s.type = type
  BY <1>0 DEF Signal
<1>4. req[n].status = "failed" => req[n].publish = "failed"
  BY <1>0 DEF SettledByOwnCause
<1>5. req = [req EXCEPT ![n] = req[n]]
  BY <1>0
<1>6. req' = [req EXCEPT ![n] = IF op.active = n THEN q ELSE req[n]]
  BY <1>1, <1>5
<1>7. panel' \in 0..Len(req) /\ wire' \in SUBSET Signal /\ \A x \in wire' : x.n \in 1..Len(req)
  BY <1>0, <1>1, <1>3 DEF TransportTypes
<1>8. PICK k : k = n
  OBVIOUS
<1>9. PICK p : p = IF op.active = n THEN q ELSE req[n]
  OBVIOUS
<1> HIDE DEF n, q, s
<1>10. /\ k \in 1..Len(req) /\ p \in Request /\ req' = [req EXCEPT ![k] = p]
       /\ p.kind = req[k].kind /\ p.status = req[k].status /\ req[k].clicked \subseteq p.clicked
       /\ p.status = "failed" => p.publish = "failed"
  BY <1>0, <1>2, <1>4, <1>6, <1>8, <1>9
<1>11. wire' \subseteq wire \cup ClickedOn(k, p) /\ op' = op /\ now' = now
  BY <1>1, <1>2, <1>3, <1>8, <1>9 DEF ClickedOn
<1> QED BY <1>7, <1>10, <1>11, Touches

LEMMA AcceptSignalKeeps ==
    ASSUME Transport, NEW s \in wire, AcceptSignal(s)
    PROVE  /\ Transport' /\ Len(req') = Len(req) /\ now' = now /\ op'.gone = op.gone
           /\ op.aborted => op'.aborted
           /\ \A m \in 1..Len(req) : req'[m].status = "aborted" => req[m].status = "aborted" \/ op'.aborted
<1>0. /\ TransportTypes /\ SignalsWereClicked /\ SettledByOwnCause /\ now \in Nat /\ TTL \in Nat
      /\ s \in Signal /\ s.n \in 1..Len(req) /\ panel' = panel /\ now' = now
      /\ op \in [active : 0..Len(req), closed : BOOLEAN, aborted : BOOLEAN, gone : BOOLEAN]
      /\ Len(req) \in Nat /\ panel \in 0..Len(req)
      /\ s.type \in Types
  BY TransportAssumption, RequestsTyped DEF Transport, TransportTypes, AcceptSignal
<1>1. CASE ~Accepts(s)
  <2>1. op' = op /\ req' = req /\ wire' = wire \ {s}
    BY <1>1 DEF AcceptSignal
  <2>2. TransportTypes'
    BY <1>0, <2>1 DEF TransportTypes
  <2>3. SignalsWereClicked' /\ SettledByOwnCause'
    BY <1>0, <2>1 DEF SignalsWereClicked, SettledByOwnCause
  <2> QED BY <1>0, <2>1, <2>2, <2>3 DEF Transport
<1>2. CASE Accepts(s)
  <2> DEFINE status == IF s.type = "abort" THEN "aborted" ELSE "answered"
             expires == IF s.type = "abort" THEN 0 ELSE now + TTL
  <2>1. /\ req' = FinishPending(status, expires)
        /\ op' = [op EXCEPT !.active = 0, !.aborted = @ \/ s.type = "abort"]
        /\ wire' = (wire \ {s}) \cup {[n |-> s.n, type |-> "accepted"]}
    BY <1>2 DEF AcceptSignal
  <2>2. status \in Settled \ {"failed"} /\ expires \in Nat
    BY <1>0 DEF Settled
  <2>3. /\ s.n = op.active /\ op.active # 0 /\ s.type \in req[op.active].clicked
        /\ s.type # "abort" => s.type = Confirms[req[op.active].kind]
    BY <1>0, <1>2 DEF Accepts, ParseOperatorSignal, SignalsWereClicked
  <2>4. /\ op' \in [active : {0}, closed : BOOLEAN, aborted : BOOLEAN, gone : BOOLEAN]
        /\ op'.gone = op.gone
        /\ op.aborted => op'.aborted
        /\ s.type = "abort" => op'.aborted
    BY <1>0, <2>1
  <2>5. wire' \in SUBSET Signal /\ \A x \in wire' : x.n \in 1..Len(req)
    BY <1>0, <2>1 DEF TransportTypes, Signal
  <2>6. /\ status = "answered" => Confirms[req[op.active].kind] \in req[op.active].clicked
        /\ status = "aborted" => "abort" \in req[op.active].clicked
        /\ status = "aborted" => s.type = "abort"
    BY <2>3
  <2>7. PICK st : st = status
    OBVIOUS
  <2>8. PICK ex : ex = expires
    OBVIOUS
  <2> HIDE DEF status, expires
  <2>9. /\ st \in Settled \ {"failed"} /\ ex \in Nat /\ req' = FinishPending(st, ex)
        /\ st = "answered" => Confirms[req[op.active].kind] \in req[op.active].clicked
        /\ st = "aborted" => "abort" \in req[op.active].clicked
        /\ st = "aborted" => s.type = "abort"
    BY <2>1, <2>2, <2>6, <2>7, <2>8
  <2>10. /\ Transport' /\ Len(req') = Len(req)
         /\ \A m \in 1..Len(req) : req'[m].status = "aborted" => req[m].status = "aborted" \/ st = "aborted"
    BY <1>0, <2>4, <2>5, <2>9, Settles
  <2> QED BY <1>0, <2>4, <2>9, <2>10
<1> QED BY <1>1, <1>2

LEMMA DisconnectKeeps ==
    ASSUME Transport, Disconnect
    PROVE  /\ Transport' /\ Len(req') = Len(req) /\ now' = now /\ op'.aborted
<1>0. TransportTypes /\ Len(req) \in Nat
  BY RequestsTyped DEF Transport
<1>1. /\ req' = FinishPending("closed", 0) /\ "closed" \in Settled \ {"failed"} /\ now' = now
      /\ op' = [active |-> 0, closed |-> TRUE, aborted |-> TRUE, gone |-> TRUE]
      /\ panel' \in 0..Len(req) /\ wire' = {}
  BY <1>0 DEF Disconnect, Settled
<1>2. op' \in [active : {0}, closed : BOOLEAN, aborted : BOOLEAN, gone : BOOLEAN] /\ op'.aborted
  BY <1>1
<1> QED BY <1>1, <1>2, Settles

LEMMA TransportStepKeeps ==
    ASSUME Transport, AbortsRemembered, TransportStep
    PROVE  Transport' /\ AbortsRemembered' /\ Len(req') = Len(req) /\ now' = now
<1>1. CASE \E n \in DOMAIN req : Present(n)
  BY <1>1, PresentKeeps DEF AbortsRemembered
<1>2. CASE \E n \in DOMAIN req : PublishFails(n)
  BY <1>2, PublishFailsKeeps DEF AbortsRemembered
<1>3. CASE RequestTimesOut
  BY <1>3, TimesOutKeeps DEF AbortsRemembered
<1>4. CASE \E type \in Types : Click(type)
  BY <1>4, ClickKeeps DEF AbortsRemembered
<1>5. CASE \E s \in wire : AcceptSignal(s)
  BY <1>5, AcceptSignalKeeps DEF AbortsRemembered
<1>6. CASE \E s \in wire : PageCleared(s)
  <2>0. TransportTypes /\ SignalsWereClicked /\ SettledByOwnCause /\ Len(req) \in Nat
    BY RequestsTyped DEF Transport
  <2>1. PICK s \in wire : wire' = wire \ {s} /\ panel' = 0 /\ now' = now /\ op' = op /\ req' = req
    BY <1>6 DEF PageCleared
  <2>2. TransportTypes'
    BY <2>0, <2>1 DEF TransportTypes
  <2>3. SignalsWereClicked' /\ SettledByOwnCause' /\ AbortsRemembered'
    BY <2>0, <2>1 DEF SignalsWereClicked, SettledByOwnCause, AbortsRemembered
  <2> QED BY <2>1, <2>2, <2>3 DEF Transport
<1>7. CASE Disconnect
  BY <1>7, DisconnectKeeps DEF AbortsRemembered
<1> QED BY <1>1, <1>2, <1>3, <1>4, <1>5, <1>6, <1>7 DEF TransportStep

\* The verification of a capability marks its request as used.
LEMMA UseKeeps ==
    ASSUME Transport, NEW k \in 1..Len(req), req' = [req EXCEPT ![k].used = TRUE],
           op' = op, panel' = panel, wire' = wire, now' = now
    PROVE  /\ Transport' /\ Len(req') = Len(req)
           /\ AbortsRemembered => AbortsRemembered'
<1> DEFINE q == [req[k] EXCEPT !.used = TRUE]
<1>0. /\ TransportTypes /\ SettledByOwnCause /\ req[k] \in Request /\ DOMAIN req = 1..Len(req)
  BY RequestsTyped DEF Transport
<1>1. /\ q \in Request /\ q.kind = req[k].kind /\ q.status = req[k].status
      /\ q.clicked = req[k].clicked /\ q.publish = req[k].publish
  BY <1>0 DEF Request
<1>2. q.status = "failed" => q.publish = "failed"
  BY <1>0, <1>1 DEF SettledByOwnCause
<1>3. req' = [req EXCEPT ![k] = q]
  OBVIOUS
<1> HIDE DEF q
<1>4. panel' \in 0..Len(req) /\ wire' \in SUBSET Signal /\ \A s \in wire' : s.n \in 1..Len(req)
  BY <1>0 DEF TransportTypes
<1>5. /\ Transport' /\ Len(req') = Len(req)
      /\ \A m \in 1..Len(req) : req'[m].status = req[m].status
  BY <1>1, <1>2, <1>3, <1>4, Touches
<1> QED BY <1>5 DEF AbortsRemembered

-----------------------------------------------------------------------------
(* The moves of the collection.                                            *)

LEMMA Unmoved ==
    ASSUME Transport, UNCHANGED transportVars
    PROVE  Transport' /\ (AbortsRemembered => AbortsRemembered') /\ Len(req') = Len(req) /\ now' = now
BY DEF Transport, transportVars, TransportTypes, SignalsWereClicked, SettledByOwnCause, AbortsRemembered

LEMMA ReadsTyped == \A s : Reads(s) \in SUBSET ReadNames
BY DEF Reads, ReadNames

LEMMA UnseenTyped == Unseen \in Seen /\ 0 \in 0..MaxTime /\ 0 \in Dates /\ 0 \in Lags
BY TransportAssumption, CollectionAssumption DEF Unseen, Seen, Statuses, Dates, Lags

LEMMA EvidenceTyped ==
    ASSUME NEW c, NEW e \in Seen
    PROVE  EvidenceOf(c, e) \in Evidence /\ EvidenceOf(c, e).effects = e.effects
<1> DEFINE asked == IF Contract[c].webhook = "delayed" THEN e ELSE Unseen
<1>1. asked \in Seen
  BY UnseenTyped
<1>2. EvidenceOf(c, e) = [paid |-> e.paid, processed |-> Processed(e), effects |-> e.effects,
                          pending |-> asked.pending, inbox |-> asked.inbox,
                          receipts |-> asked.receipts, at |-> asked.at]
  BY DEF EvidenceOf
<1>3. Processed(e) \in BOOLEAN
  BY DEF Processed, Seen
<1> HIDE DEF asked
<1> QED BY <1>1, <1>2, <1>3 DEF Evidence, Seen

LEMMA NoEvidenceTyped == NoEvidence \in Evidence
BY UnseenTyped, EvidenceTyped DEF NoEvidence

\* Where a collection stands while it runs.
LEMMA Standing ==
    ASSUME Inv
    PROVE  /\ run \in Collection /\ run.case \in Cases /\ run.pc \in 1..Len(Script[run.case])
           /\ Len(Script[run.case]) \in Nat /\ Len(Script[run.case]) > 8
           /\ Ordered(run.case, Script[run.case], Len(Script[run.case]))
           /\ RunTypes /\ Transport /\ WorldTypes /\ Len(req) \in Nat
           /\ Running => AbortsRemembered /\ NoEffectRead /\ SinceCheckpoint /\ Judged /\ ReadUnderFence
<1>1. RunTypes /\ Transport /\ WorldTypes
  BY DEF Inv, Collected
<1>2. run \in Collection /\ run.case \in Cases /\ run.pc \in 1..Len(Script[run.case])
  BY <1>1 DEF RunTypes, Collection
<1>3. Len(req) \in Nat
  BY <1>1, RequestsTyped DEF Transport
<1> QED BY <1>1, <1>2, <1>3, ScriptOrder DEF Inv, Collected

LEMMA AdvancedTyped ==
    ASSUME NEW r \in Collection, NEW n \in Nat, n = Len(Script[r.case]), r.pc \in 1..n, r.pc # n
    PROVE  /\ Advanced(r) \in Collection /\ Advanced(r).pc = r.pc + 1 /\ Advanced(r).pc \in 1..n
           /\ Advanced(r).toRead = Reads(Script[r.case][r.pc + 1])
           /\ Advanced(r).case = r.case /\ Advanced(r).seen = r.seen /\ Advanced(r).evidence = r.evidence
           /\ Advanced(r).failed = r.failed /\ Advanced(r).asked = r.asked /\ Advanced(r).mark = r.mark
           /\ Advanced(r).checkpointAt = r.checkpointAt /\ Advanced(r).unfenced = r.unfenced
           /\ Advanced(r).result = r.result /\ Advanced(r).before = r.before /\ Advanced(r).lag = r.lag
<1> DEFINE x == Reads(Script[r.case][r.pc + 1])
           k == r.pc + 1
<1>1. x \in SUBSET ReadNames
  BY ReadsTyped
<1>2. k \in 1..n /\ k \in Nat
  OBVIOUS
<1>3. Advanced(r) = [r EXCEPT !.pc = k, !.toRead = x]
  BY DEF Advanced, Collection
<1> HIDE DEF x, k
<1>4. [r EXCEPT !.pc = k, !.toRead = x] \in Collection
  BY <1>1, <1>2 DEF Collection
<1>5. /\ Advanced(r).pc = k /\ Advanced(r).toRead = x
      /\ Advanced(r).case = r.case /\ Advanced(r).seen = r.seen /\ Advanced(r).evidence = r.evidence
      /\ Advanced(r).failed = r.failed /\ Advanced(r).asked = r.asked /\ Advanced(r).mark = r.mark
      /\ Advanced(r).checkpointAt = r.checkpointAt /\ Advanced(r).unfenced = r.unfenced
      /\ Advanced(r).result = r.result /\ Advanced(r).before = r.before /\ Advanced(r).lag = r.lag
  BY <1>3 DEF Collection
<1> QED BY <1>2, <1>3, <1>4, <1>5 DEF x, k

LEMMA WorldSame ==
    ASSUME WorldTypes, UNCHANGED <<world, fence, now>>
    PROVE  WorldTypes'
BY DEF WorldTypes, World

\* A stage that is over, other than those around a request to the operator and the
\* reads after a checkpoint: what the collection r must have made of it.
LEMMA Advances ==
    ASSUME Inv, Running, NEW r \in Collection, run' = Advanced(r), UNCHANGED <<world, fence, now>>,
           Transport', AbortsRemembered', Len(req') = Len(req),
           r.case = run.case, r.pc = run.pc, r.asked = run.asked, r.result = "none", r.mark = run.mark,
           r.lag = run.lag, ~r.failed => ~run.failed,
           Stage \notin {"askWitness", "askCheckpoint", "checkpoint", "after", "return"},
           Stage = "tryDelayed" => r.evidence.effects = 0,
           Stage = "before" => r.evidence = run.evidence,
           Stage = "judgeReplay" /\ ~r.failed => ReplayWasFresh(r),
           Stage = "judgeDelayed" /\ ~r.failed => DelayWasFresh(r),
           Stage # "judgeDelayed" => r.before = run.before,
           Stage = "outcome" => /\ r.seen = run.seen /\ ~r.unfenced
                                /\ ~r.failed /\ r.case = "delayed" => r.evidence.effects = 1,
           fence => ~r.unfenced
    PROVE  Inv'
<1> DEFINE c == run.case
           n == Len(Script[run.case])
<1>0. /\ run.pc \in 1..n /\ n \in Nat /\ n > 8 /\ Ordered(c, Script[c], n) /\ c \in Cases
      /\ RunTypes /\ NoEffectRead /\ Judged /\ WorldTypes /\ Len(req) \in Nat
  BY Standing
<1>1. run.pc # n /\ Stage = Script[c][run.pc]
  BY <1>0 DEF Stage, Ordered
<1>2. /\ run' \in Collection /\ run'.pc = run.pc + 1 /\ run'.pc \in 1..n /\ run'.case = c
      /\ run'.toRead = Reads(Script[c][run.pc + 1])
      /\ run'.seen = r.seen /\ run'.evidence = r.evidence /\ run'.failed = r.failed
      /\ run'.asked = run.asked /\ run'.mark = run.mark /\ run'.lag = run.lag /\ run'.before = r.before
      /\ run'.unfenced = r.unfenced /\ run'.result = "none"
  BY <1>0, <1>1, AdvancedTyped
<1>3. Stage' = Script[c][run.pc + 1] /\ Running'
  BY <1>2 DEF Stage, Running
<1> HIDE DEF n, c
<1>4. Stage' \notin {"witness", "checkpoint", "after", "judgeReplay", "judgeDelayed"}
  BY <1>0, <1>1, <1>2, <1>3 DEF Ordered
<1>5. RunTypes'
  <2>1. run'.pc \in 1..Len(Script[run'.case])
    BY <1>2 DEF n, c
  <2>2. run'.toRead \subseteq Reads(Stage')
    BY <1>2, <1>3
  <2>3. run'.asked <= Len(req')
    BY <1>0, <1>2 DEF RunTypes
  <2> QED BY <1>2, <1>4, <2>1, <2>2, <2>3 DEF RunTypes
<1>6. SinceCheckpoint' /\ NoEffectRead'
  <2>1. ASSUME c = "delayed", Stage' \in {"before", "askCheckpoint"}
        PROVE  r.evidence.effects = 0
    <3>1. Stage \in {"tryDelayed", "before"}
      BY <1>0, <1>1, <1>2, <1>3, <2>1 DEF Ordered
    <3> QED BY <1>0, <2>1, <3>1 DEF NoEffectRead, c
  <2> QED BY <1>2, <1>4, <2>1 DEF SinceCheckpoint, NoEffectRead
<1>7. Judged'
  <2> SUFFICES ASSUME ~r.failed
               PROVE  /\ c = "replay" /\ Stage' \in {"outcome", "return"} => ReplayWasFresh(run')
                      /\ c = "delayed" /\ run'.pc > 15 => DelayWasFresh(run')
                      /\ c = "delayed" /\ Stage' = "return" => r.evidence.effects = 1
    BY <1>2 DEF Judged
  <2>1. ASSUME c = "replay", Stage' \in {"outcome", "return"}
        PROVE  ReplayWasFresh(run')
    <3>1. Stage \in {"judgeReplay", "outcome"}
      BY <1>0, <1>1, <1>2, <1>3, <2>1 DEF Ordered
    <3>2. ReplayWasFresh(r)
      <4>1. CASE Stage = "judgeReplay"
        BY <4>1
      <4>2. CASE Stage = "outcome"
        BY <1>0, <2>1, <4>2 DEF Judged, ReplayWasFresh, c
      <4> QED BY <3>1, <4>1, <4>2
    <3> QED BY <1>2, <3>2 DEF ReplayWasFresh
  <2>2. ASSUME c = "delayed", run'.pc > 15
        PROVE  DelayWasFresh(run')
    <3>1. run.pc > 15 \/ Stage = "judgeDelayed"
      BY <1>0, <1>1, <1>2, <2>2 DEF Ordered
    <3>2. DelayWasFresh(r)
      <4>1. CASE Stage = "judgeDelayed"
        BY <4>1
      <4>2. CASE Stage # "judgeDelayed"
        BY <1>0, <2>2, <3>1, <4>2 DEF Judged, DelayWasFresh, c
      <4> QED BY <4>1, <4>2
    <3> QED BY <1>2, <3>2 DEF DelayWasFresh
  <2>3. ASSUME c = "delayed", Stage' = "return"
        PROVE  r.evidence.effects = 1
    <3>1. Stage = "outcome"
      BY <1>0, <1>1, <1>2, <1>3, <2>3 DEF Ordered
    <3> QED BY <2>3, <3>1 DEF c
  <2> QED BY <2>1, <2>2, <2>3
<1>8. ReadUnderFence'
  <2>1. ASSUME Stage' = "return"
        PROVE  Stage = "outcome"
    <3>1. /\ \A i \in 1..n : Script[c][i] = "return" <=> i = n
          /\ Script[c][n - 1] = "outcome"
      BY <1>0 DEF Ordered
    <3>2. run'.pc = n
      BY <1>2, <1>3, <2>1, <3>1
    <3>3. run.pc = n - 1
      BY <1>0, <1>2, <3>2
    <3> QED BY <1>1, <3>1, <3>3
  <2> QED BY <1>2, <2>1 DEF ReadUnderFence
<1>9. WorldTypes'
  BY <1>0, WorldSame
<1> QED BY <1>3, <1>5, <1>6, <1>7, <1>8, <1>9 DEF Inv, Collected

\* The collection ends without a result.
LEMMA Ends ==
    ASSUME Inv, Running, Continue(Refuse)
    PROVE  Inv'
<1>0. /\ run \in Collection /\ RunTypes /\ Transport /\ WorldTypes /\ Len(req) \in Nat
  BY Standing
<1>1. /\ Refuse \in Collection /\ Refuse.result = "refused" /\ Refuse.pc = run.pc
      /\ Refuse.case = run.case /\ Refuse.toRead = {} /\ Refuse.asked = run.asked
      /\ Refuse.seen = Unseen
  BY <1>0, UnseenTyped, NoEvidenceTyped DEF Refuse, Forget, Collection
<1>2. run' = Refuse /\ Close /\ UNCHANGED <<world, fence>>
  BY <1>1 DEF Continue
<1>3. Transport' /\ Len(req') = Len(req) /\ now' = now
  BY <1>0, <1>2, CloseKeeps
<1>4. Stage' = Stage
  BY <1>1, <1>2 DEF Stage
<1>5. RunTypes'
  BY <1>0, <1>1, <1>2, <1>3, <1>4 DEF RunTypes
<1>6. WorldTypes'
  BY <1>0, <1>2, <1>3, WorldSame
<1> QED BY <1>1, <1>2, <1>3, <1>5, <1>6
        DEF Inv, Collected, Running, AbortYieldsNoResult, ResultReadUnderFence, Returned,
            PassedReplayIsFresh, PassedDelayedWasDelayed

\* A refusal, which a try block turns into a failure.
LEMMA Refuses ==
    ASSUME Inv, Running, Continue(Refused)
    PROVE  Inv'
<1>1. CASE ~Caught
  BY <1>1, Ends DEF Refused
<1>2. CASE Caught
  <2> DEFINE n == Len(Script[run.case])
             q == [Forget(run) EXCEPT !.failed = TRUE, !.pc = n - 1]
  <2>0. /\ run \in Collection /\ RunTypes /\ Transport /\ WorldTypes /\ Len(req) \in Nat
        /\ n \in Nat /\ n > 8 /\ Ordered(run.case, Script[run.case], n)
        /\ AbortsRemembered /\ ReadUnderFence
    BY Standing
  <2>1. /\ q \in Collection /\ q.result = "none" /\ q.pc = n - 1 /\ q.failed = TRUE
        /\ q.case = run.case /\ q.toRead = {} /\ q.asked = run.asked /\ q.unfenced = run.unfenced
    <3> DEFINE k == n - 1
               f == Forget(run)
    <3>1. f \in Collection /\ f.result = "none" /\ f.case = run.case /\ f.toRead = {}
          /\ f.asked = run.asked /\ f.unfenced = run.unfenced
      BY <2>0, UnseenTyped, NoEvidenceTyped DEF Forget, Collection, Running
    <3>2. k \in Nat
      BY <2>0
    <3> HIDE DEF k, f
    <3>3. q = [f EXCEPT !.failed = TRUE, !.pc = k]
      BY DEF f, k
    <3>4. [f EXCEPT !.failed = TRUE, !.pc = k] \in Collection
      BY <3>1, <3>2 DEF Collection
    <3> QED BY <3>1, <3>3, <3>4 DEF Collection, k
  <2>2. run' = q /\ UNCHANGED transportVars /\ UNCHANGED <<world, fence>>
    BY <1>2, <2>1 DEF Continue, Refused
  <2> HIDE DEF q, n
  <2>3. Transport' /\ Len(req') = Len(req) /\ now' = now /\ AbortsRemembered'
    BY <2>0, <2>2, Unmoved
  <2>4. Stage' = "outcome" /\ Running'
    BY <2>0, <2>1, <2>2 DEF Stage, Running, Ordered
  <2>5. RunTypes'
    <3>1. run'.pc \in 1..Len(Script[run'.case])
      BY <2>0, <2>1, <2>2 DEF n
    <3> QED BY <2>0, <2>1, <2>2, <2>3, <2>4, <3>1 DEF RunTypes
  <2>6. WorldTypes'
    BY <2>0, <2>2, <2>3, WorldSame
  <2>7. NoEffectRead' /\ SinceCheckpoint' /\ Judged' /\ ReadUnderFence'
    BY <2>0, <2>1, <2>2, <2>4 DEF NoEffectRead, SinceCheckpoint, Judged, ReadUnderFence
  <2> QED BY <2>3, <2>4, <2>5, <2>6, <2>7 DEF Inv, Collected
<1> QED BY <1>1, <1>2

\* The stages around a request to the operator and the reads after a checkpoint.
LEMMA AdvancesAround ==
    ASSUME Inv, Running, Stage \in {"askWitness", "witness", "askCheckpoint", "checkpoint", "after"},
           run' \in Collection, run'.pc = run.pc + 1, run'.case = run.case, run'.result = "none",
           run'.toRead = Reads(Script[run.case][run.pc + 1]),
           Transport', AbortsRemembered', WorldTypes', run'.asked <= Len(req'),
           Stage \in {"askWitness", "askCheckpoint"} => run'.asked = Len(req') /\ run'.asked # 0,
           Stage = "askCheckpoint" => run'.seen = Unseen,
           Stage \in {"askCheckpoint", "checkpoint", "after"} /\ run.case = "delayed" => run'.mark.effects = 0,
           Stage \in {"checkpoint", "after"} => SinceCheckpoint',
           fence' => ~run'.unfenced
    PROVE  Inv'
<1> DEFINE c == run.case
           n == Len(Script[run.case])
<1>0. /\ run.pc \in 1..n /\ n \in Nat /\ n > 8 /\ Ordered(c, Script[c], n) /\ c \in Cases
  BY Standing
<1>1. Stage = Script[c][run.pc] /\ Stage' = Script[c][run.pc + 1] /\ Running'
  BY DEF Stage, Running
<1>2. run.pc + 1 \in 1..n /\ run'.case = c /\ run'.pc = run.pc + 1 /\ run.pc + 1 < n
  <2>1. run.pc < n - 1
    BY <1>0, <1>1 DEF Ordered
  <2> HIDE DEF n
  <2> QED BY <1>0, <2>1
<1>3. RunTypes'
  <2>1. run'.pc \in 1..Len(Script[run'.case])
    BY <1>2
  <2> HIDE DEF c, n
  <2>2. /\ Stage' = "witness" => Stage = "askWitness"
        /\ Stage' = "checkpoint" => Stage = "askCheckpoint"
    BY <1>0, <1>1, <1>2 DEF Ordered
  <2> QED BY <1>1, <2>1, <2>2 DEF RunTypes, c
<1> HIDE DEF c, n
<1>4. SinceCheckpoint' /\ NoEffectRead'
  <2>1. /\ Stage' \in {"after", "judgeReplay", "judgeDelayed"} => Stage \in {"checkpoint", "after"}
        /\ Stage' = "checkpoint" => Stage = "askCheckpoint"
        /\ Stage' \notin {"before", "askCheckpoint"}
    BY <1>0, <1>1, <1>2 DEF Ordered
  <2> QED BY <1>2, <2>1 DEF SinceCheckpoint, NoEffectRead, c
<1>5. Judged'
  <2>1. Stage' # "return" /\ (c = "delayed" => run'.pc <= 15)
    BY <1>0, <1>1, <1>2 DEF Ordered
  <2>2. ASSUME c = "replay", Stage' = "outcome"
        PROVE  FALSE
    <3>1. run.pc = n - 2
      BY <1>0, <1>1, <1>2, <2>2 DEF Ordered
    <3> QED BY <1>0, <1>1, <2>2, <3>1 DEF Ordered
  <2> QED BY <1>2, <2>1, <2>2 DEF Judged
<1>6. ReadUnderFence'
  <2>1. Stage' # "return"
    BY <1>0, <1>1, <1>2 DEF Ordered
  <2> QED BY <2>1 DEF ReadUnderFence
<1> QED BY <1>1, <1>3, <1>4, <1>5, <1>6 DEF Inv, Collected

\* A stage that is over by a step that leaves the transport alone.
LEMMA Proceeds ==
    ASSUME Inv, Running, NEW r \in Collection, Continue(Advanced(r)),
           r.case = run.case, r.pc = run.pc, r.asked = run.asked, r.result = "none", r.mark = run.mark,
           r.lag = run.lag, ~r.failed => ~run.failed,
           Stage \notin {"askWitness", "askCheckpoint", "checkpoint", "after", "return"},
           Stage = "tryDelayed" => r.evidence.effects = 0,
           Stage = "before" => r.evidence = run.evidence,
           Stage = "judgeReplay" /\ ~r.failed => ReplayWasFresh(r),
           Stage = "judgeDelayed" /\ ~r.failed => DelayWasFresh(r),
           Stage # "judgeDelayed" => r.before = run.before,
           Stage = "outcome" => /\ r.seen = run.seen /\ ~r.unfenced
                                /\ ~r.failed /\ r.case = "delayed" => r.evidence.effects = 1,
           fence => ~r.unfenced
    PROVE  Inv'
<1>1. Advanced(r).result = "none"
  BY DEF Advanced, Collection
<1>2. run' = Advanced(r) /\ UNCHANGED transportVars /\ UNCHANGED <<world, fence>>
  BY <1>1 DEF Continue
<1>3. Transport' /\ AbortsRemembered' /\ Len(req') = Len(req) /\ now' = now
  BY <1>2, Standing, Unmoved
<1> QED BY <1>2, <1>3, Advances

\* A step that leaves the collection alone.
LEMMA Aside ==
    ASSUME Inv, Running, run' = run, Transport', AbortsRemembered', Len(req') = Len(req), WorldTypes',
           SinceCheckpoint', fence' => fence
    PROVE  Inv'
<1>1. RunTypes /\ NoEffectRead /\ Judged /\ ReadUnderFence
  BY Standing
<1>2. Stage' = Stage /\ Running'
  BY DEF Stage, Running
<1>3. RunTypes'
  BY <1>1, <1>2 DEF RunTypes
<1>4. NoEffectRead' /\ Judged' /\ ReadUnderFence'
  BY <1>1, <1>2 DEF NoEffectRead, Judged, ReplayWasFresh, DelayWasFresh, ReadUnderFence
<1> QED BY <1>2, <1>3, <1>4 DEF Inv, Collected

-----------------------------------------------------------------------------
(* The stages.                                                             *)

LEMMA StartKeeps == ASSUME Inv, Start \/ Hooks PROVE Inv'
<1>0. Running /\ Stage \in {"start", "hooks"}
  BY DEF Start, Hooks, At
<1>1. run \in Collection /\ ReadUnderFence
  BY <1>0, Standing
<1>2. CASE Continue(Refused)
  BY <1>0, <1>2, Refuses
<1>3. CASE Continue(Advanced(run))
  <2>1. run.result = "none" /\ fence => ~run.unfenced
    BY <1>0, <1>1 DEF Running, ReadUnderFence
  <2> QED BY <1>0, <1>1, <1>3, <2>1, Proceeds DEF Running
<1> QED BY <1>2, <1>3 DEF Start, Hooks

LEMMA ObservedKeeps == ASSUME Inv, Observed PROVE Inv'
<1> DEFINE r == [run EXCEPT !.evidence = EvidenceOf(run.case, run.seen), !.seen = Unseen]
<1>0. Running /\ Stage = "observed" /\ run.result = "none"
  BY DEF Observed, At, Running
<1>1. run \in Collection /\ ReadUnderFence
  BY <1>0, Standing
<1>2. CASE Continue(Refused)
  BY <1>0, <1>2, Refuses
<1>3. CASE fence /\ Continue(Advanced(r))
  <2>1. EvidenceOf(run.case, run.seen) \in Evidence
    BY <1>1, EvidenceTyped DEF Collection
  <2>2. /\ r \in Collection /\ r.case = run.case /\ r.pc = run.pc /\ r.asked = run.asked
        /\ r.result = "none" /\ r.mark = run.mark /\ r.failed = run.failed /\ r.unfenced = run.unfenced
        /\ r.lag = run.lag /\ r.before = run.before
    BY <1>0, <1>1, <2>1, UnseenTyped DEF Collection
  <2>3. fence => ~r.unfenced
    BY <1>1, <2>2 DEF ReadUnderFence
  <2>4. PICK q : q = r
    OBVIOUS
  <2> HIDE DEF r
  <2> QED BY <1>0, <1>3, <2>2, <2>3, <2>4, Proceeds
<1> QED BY <1>2, <1>3 DEF Observed

LEMMA TryDeliveryKeeps == ASSUME Inv, TryDelivery PROVE Inv'
<1>0. Running /\ Stage \in {"tryDelayed", "tryReplay"} /\ run.result = "none"
  BY DEF TryDelivery, At, Running
<1>1. run \in Collection /\ ReadUnderFence
  BY <1>0, Standing
<1>2. CASE Continue(Refused)
  BY <1>0, <1>2, Refuses
<1>3. CASE /\ Stage = "tryDelayed" => DelayInput(run.evidence)
           /\ Continue(Advanced(run))
  <2>1. fence => ~run.unfenced
    BY <1>1 DEF ReadUnderFence
  <2>2. Stage = "tryDelayed" => run.evidence.effects = 0
    BY <1>3 DEF DelayInput
  <2> QED BY <1>0, <1>1, <1>3, <2>1, <2>2, Proceeds
<1> QED BY <1>2, <1>3 DEF TryDelivery

LEMMA JudgeReplayKeeps == ASSUME Inv, JudgeReplay PROVE Inv'
<1>0. Running /\ Stage = "judgeReplay" /\ run.result = "none"
  BY DEF JudgeReplay, At, Running
<1>1. run \in Collection /\ ReadUnderFence /\ SinceCheckpoint
  BY <1>0, Standing
<1>2. CASE Continue(Refused)
  BY <1>0, <1>2, Refuses
<1>3. CASE Fresh(run.before, run.seen, run.checkpointAt) /\ Continue(Advanced(run))
  <2>1. fence => ~run.unfenced
    BY <1>1 DEF ReadUnderFence
  <2>2. ReplayWasFresh(run)
    BY <1>0, <1>1, <1>3 DEF SinceCheckpoint, Fresh, ReplayWasFresh
  <2> QED BY <1>0, <1>1, <1>3, <2>1, <2>2, Proceeds
<1> QED BY <1>2, <1>3 DEF JudgeReplay

LEMMA JudgeDelayedKeeps == ASSUME Inv, JudgeDelayed PROVE Inv'
<1> DEFINE kept == [run.seen EXCEPT !.pending = 0, !.inbox = "none", !.lastReceipt = 0]
           r == [run EXCEPT !.before = kept, !.seen = Unseen]
<1>0. Running /\ Stage = "judgeDelayed" /\ run.result = "none"
  BY DEF JudgeDelayed, At, Running
<1>1. run \in Collection /\ ReadUnderFence /\ SinceCheckpoint /\ NoEffectRead
  BY <1>0, Standing
<1>2. CASE Continue(Refused)
  BY <1>0, <1>2, Refuses
<1>3. CASE /\ ProcessedAfter(run.seen, run.checkpointAt)
           /\ Fresh(run.before, run.seen, run.checkpointAt)
           /\ Continue(Advanced(r))
  <2>1. /\ kept \in Seen /\ kept.receipts = run.seen.receipts
        /\ kept.processedAt = run.seen.processedAt
    BY <1>1, UnseenTyped DEF Collection, Seen, Statuses, Unseen
  <2> HIDE DEF kept
  <2>2. /\ r \in Collection /\ r.case = run.case /\ r.pc = run.pc /\ r.asked = run.asked
        /\ r.result = "none" /\ r.mark = run.mark /\ r.failed = run.failed /\ r.unfenced = run.unfenced
        /\ r.lag = run.lag /\ r.before = kept
    BY <1>0, <1>1, <2>1, UnseenTyped DEF Collection
  <2>3. fence => ~r.unfenced
    BY <1>1, <2>2 DEF ReadUnderFence
  <2>4. /\ run.seen.processedAt \in Int /\ run.checkpointAt \in Int /\ run.mark.processedAt \in Int
        /\ run.case = "delayed"
    <3>1. Stage = Script[run.case][run.pc] /\ run.pc \in 1..Len(Script[run.case])
          /\ Ordered(run.case, Script[run.case], Len(Script[run.case]))
      BY Standing DEF Stage
    <3>2. run.case = "delayed"
      BY <1>0, <3>1 DEF Ordered
    <3> QED BY <1>1, <3>2 DEF Collection, Seen, Dates
  <2> HIDE DEF r
  <2>5. DelayWasFresh(r)
    <3>1. r.mark.effects = 0
      BY <1>0, <1>1, <2>2, <2>4 DEF NoEffectRead
    <3>2. ASSUME run.lag <= 0
          PROVE  run.seen.receipts > run.mark.receipts /\ run.seen.processedAt > run.mark.processedAt
      BY <1>0, <1>1, <1>3, <2>4, <3>2 DEF SinceCheckpoint, Fresh, ProcessedAfter
    <3> QED BY <2>1, <2>2, <3>1, <3>2 DEF DelayWasFresh
  <2>6. PICK q : q = r
    OBVIOUS
  <2> QED BY <1>0, <1>3, <2>2, <2>3, <2>5, <2>6, Proceeds
<1> QED BY <1>2, <1>3 DEF JudgeDelayed

\* JudgePost, Further and Outcome add a failure or not.
LEMMA VerdictKeeps ==
    ASSUME Inv, Running, Stage \in {"judgePost", "further", "outcome"}, NEW bad \in BOOLEAN, NEW late \in BOOLEAN,
           Continue(Advanced([run EXCEPT !.failed = bad, !.unfenced = late])),
           ~bad => ~run.failed, fence => ~late, Stage = "outcome" => ~late,
           Stage = "outcome" /\ run.case = "delayed" /\ ~bad => run.evidence.effects = 1
    PROVE  Inv'
<1> DEFINE r == [run EXCEPT !.failed = bad, !.unfenced = late]
<1>1. run \in Collection /\ run.result = "none"
  BY Standing DEF Running
<1>2. /\ r \in Collection /\ r.case = run.case /\ r.pc = run.pc /\ r.asked = run.asked
      /\ r.result = "none" /\ r.mark = run.mark /\ r.failed = bad /\ r.unfenced = late
      /\ r.seen = run.seen /\ r.evidence = run.evidence /\ r.lag = run.lag /\ r.before = run.before
  BY <1>1 DEF Collection
<1>3. PICK q : q = r
  OBVIOUS
<1> HIDE DEF r
<1>4. Continue(Advanced(q))
  BY <1>3 DEF r
<1> QED BY <1>2, <1>3, <1>4, Proceeds

LEMMA JudgePostKeeps == ASSUME Inv, JudgePost PROVE Inv'
<1>0. Running /\ Stage = "judgePost"
  BY DEF JudgePost, At
<1>1. run \in Collection /\ ReadUnderFence
  BY <1>0, Standing
<1>2. PICK bad \in BOOLEAN : /\ Continue(Advanced([run EXCEPT !.failed = bad]))
                             /\ ~bad => ~run.failed
  BY <1>1 DEF JudgePost, Collection
<1>3. [run EXCEPT !.failed = bad] = [run EXCEPT !.failed = bad, !.unfenced = run.unfenced]
  BY <1>1 DEF Collection
<1>4. PICK late \in BOOLEAN : late = run.unfenced
  BY <1>1 DEF Collection
<1>5. fence => ~late
  BY <1>1, <1>4 DEF ReadUnderFence
<1> QED BY <1>0, <1>2, <1>3, <1>4, <1>5, VerdictKeeps

LEMMA OutcomeKeeps == ASSUME Inv, Outcome PROVE Inv'
<1>0. Running /\ Stage = "outcome"
  BY DEF Outcome, At
<1>1. run \in Collection /\ ReadUnderFence
  BY <1>0, Standing
<1>2. CASE Continue(Refuse)
  BY <1>0, <1>2, Ends
<1>3. CASE fence /\ Continue(Advanced([run EXCEPT !.failed = @ \/ ~OutcomeOk]))
  <2>1. PICK bad \in BOOLEAN : bad = (run.failed \/ ~OutcomeOk)
    BY <1>1 DEF Collection
  <2>2. [run EXCEPT !.failed = @ \/ ~OutcomeOk] = [run EXCEPT !.failed = bad, !.unfenced = run.unfenced]
    BY <1>1, <2>1 DEF Collection
  <2>3. PICK late \in BOOLEAN : late = run.unfenced
    BY <1>1 DEF Collection
  <2>4. ~late
    BY <1>1, <1>3, <2>3 DEF ReadUnderFence
  <2>5. run.case = "delayed" /\ ~bad => run.evidence.effects = 1
    <3>1. Contract["delayed"].paid
      BY DEF Contract
    <3>2. ~bad => OutcomeOk
      BY <2>1
    <3> QED BY <3>1, <3>2 DEF OutcomeOk, PaidState, OneEffect
  <2> QED BY <1>0, <1>3, <2>1, <2>2, <2>3, <2>4, <2>5, VerdictKeeps
<1> QED BY <1>2, <1>3 DEF Outcome

LEMMA FurtherKeeps == ASSUME Inv, Further PROVE Inv'
<1>0. Running /\ Stage = "further"
  BY DEF Further, At
<1>1. run \in Collection /\ ReadUnderFence /\ WorldTypes
  BY <1>0, Standing
<1>2. PICK verified \in BOOLEAN :
        Continue(Advanced([run EXCEPT !.failed = @ \/ ~verified, !.unfenced = @ \/ ~fence]))
  BY DEF Further
<1>3. PICK bad \in BOOLEAN : bad = (run.failed \/ ~verified)
  BY <1>1 DEF Collection
<1>4. PICK late \in BOOLEAN : late = (run.unfenced \/ ~fence)
  BY <1>1 DEF Collection, WorldTypes, World
<1>5. fence => ~late
  BY <1>1, <1>4 DEF ReadUnderFence
<1>6. [run EXCEPT !.failed = @ \/ ~verified, !.unfenced = @ \/ ~fence]
        = [run EXCEPT !.failed = bad, !.unfenced = late]
  BY <1>1, <1>3, <1>4 DEF Collection
<1> QED BY <1>0, <1>2, <1>3, <1>4, <1>5, <1>6, VerdictKeeps

\* runCollect returns a result only to a collection that nobody aborted.
LEMMA ReturnKeeps == ASSUME Inv, Return PROVE Inv'
<1> DEFINE result == IF run.failed THEN "failed" ELSE "passed"
           q == [run EXCEPT !.result = result]
<1>0. Running /\ Stage = "return"
  BY DEF Return, At
<1>1. /\ run \in Collection /\ RunTypes /\ Transport /\ WorldTypes /\ Len(req) \in Nat
      /\ AbortsRemembered /\ Judged /\ ReadUnderFence
  BY <1>0, Standing
<1>2. CASE Continue(Refuse)
  BY <1>0, <1>2, Ends
<1>3. CASE ~op.aborted /\ Continue(q)
  <2>1. /\ q \in Collection /\ q.result = result /\ result \in {"failed", "passed"}
        /\ result = "passed" => ~run.failed
        /\ q.pc = run.pc /\ q.case = run.case /\ q.toRead = run.toRead /\ q.asked = run.asked
        /\ q.seen = run.seen /\ q.mark = run.mark /\ q.evidence = run.evidence /\ q.unfenced = run.unfenced
        /\ q.lag = run.lag /\ q.before = run.before
    BY <1>1 DEF Collection
  <2> HIDE DEF q, result
  <2>2. run' = q /\ Close /\ UNCHANGED <<world, fence>>
    BY <1>3, <2>1 DEF Continue
  <2>3. /\ Transport' /\ Len(req') = Len(req) /\ now' = now /\ op'.gone = op.gone
        /\ \A n \in 1..Len(req) : req'[n].status # "aborted"
    BY <1>1, <1>3, <2>2, CloseKeeps
  <2>4. DOMAIN req' = 1..Len(req)
    BY <2>3 DEF Transport, TransportTypes
  <2>5. Stage' = Stage /\ ~Running'
    BY <2>1, <2>2 DEF Stage, Running
  <2>6. RunTypes'
    BY <1>1, <2>1, <2>2, <2>3, <2>5 DEF RunTypes
  <2>7. WorldTypes'
    BY <1>1, <2>2, <2>3, WorldSame
  <2>8. AbortYieldsNoResult'
    BY <1>1, <1>3, <2>3, <2>4 DEF AbortYieldsNoResult, AbortsRemembered
  <2>9. ResultReadUnderFence'
    BY <1>0, <1>1, <2>1, <2>2 DEF ResultReadUnderFence, ReadUnderFence
  <2>10. PassedReplayIsFresh' /\ PassedDelayedWasDelayed'
    <3>1. ASSUME result = "passed", run.case = "replay"
          PROVE  ReplayWasFresh(run)
      BY <1>0, <1>1, <2>1, <3>1 DEF Judged
    <3>2. ASSUME result = "passed", run.case = "delayed"
          PROVE  DelayWasFresh(run) /\ run.evidence.effects = 1
      <4>1. run.pc > 15
        <5>1. /\ Ordered(run.case, Script[run.case], Len(Script[run.case]))
              /\ run.pc \in 1..Len(Script[run.case]) /\ Stage = Script[run.case][run.pc]
          BY Standing DEF Stage
        <5>2. Len(Script[run.case]) = 23
          BY <3>2, <5>1 DEF Ordered
        <5>3. run.pc = Len(Script[run.case])
          BY <1>0, <5>1 DEF Ordered
        <5> QED BY <5>2, <5>3
      <4> QED BY <1>0, <1>1, <2>1, <3>2, <4>1 DEF Judged
    <3> QED BY <2>1, <2>2, <3>1, <3>2
           DEF PassedReplayIsFresh, PassedDelayedWasDelayed, ReplayWasFresh, DelayWasFresh
  <2> QED BY <2>3, <2>5, <2>6, <2>7, <2>8, <2>9, <2>10 DEF Inv, Collected
<1> QED BY <1>2, <1>3 DEF Return

\* What one read adds to what was seen.
LEMMA SawTyped ==
    ASSUME WorldTypes, TransportTypes, NEW e \in Seen, NEW x \in ReadNames
    PROVE  Saw(x, e) \in Seen
<1>1. now \in 0..MaxTime
  BY DEF TransportTypes
<1>2. CASE x = "payment"
  BY <1>2 DEF WorldTypes, World, Saw, Seen
<1>3. CASE x = "event"
  BY <1>3 DEF WorldTypes, World, Saw, Seen
<1>4. CASE x = "inbox"
  BY <1>4 DEF WorldTypes, World, Saw, Seen
<1>5. CASE x = "receipts"
  BY <1>5 DEF WorldTypes, World, Saw, Seen
<1>6. CASE x = "snapshot"
  BY <1>1, <1>6 DEF WorldTypes, World, Saw, Seen
<1>7. CASE x = "state"
  BY <1>1, <1>7 DEF WorldTypes, World, Saw, Seen
<1> QED BY <1>2, <1>3, <1>4, <1>5, <1>6, <1>7 DEF ReadNames

\* The reads before and after a checkpoint.
LEMMA SawState ==
    ASSUME WorldTypes, NEW e \in Seen, NEW x \in {"event", "state"}
    PROVE  \/ /\ Saw(x, e).receipts = e.receipts /\ Saw(x, e).lastReceipt = e.lastReceipt
              /\ Saw(x, e).processedAt = e.processedAt
           \/ /\ Saw(x, e).receipts = world.receipts /\ Saw(x, e).lastReceipt = world.lastReceipt
              /\ Saw(x, e).processedAt = world.processedAt
<1>1. CASE x = "event"
  BY <1>1 DEF Saw, Seen
<1>2. CASE x = "state"
  BY <1>2 DEF Saw, Seen
<1> QED BY <1>1, <1>2

LEMMA ReadOneKeeps == ASSUME Inv, NEW x \in run.toRead, ReadOne(x) PROVE Inv'
<1> DEFINE seen == Saw(x, run.seen)
           left == run.toRead \ {x}
           late == run.unfenced \/ ~fence
           next == [run EXCEPT !.seen = seen, !.toRead = left, !.unfenced = late]
<1>0. Running
  BY DEF ReadOne
<1>1. /\ run \in Collection /\ RunTypes /\ Transport /\ WorldTypes /\ Len(req) \in Nat
      /\ AbortsRemembered /\ NoEffectRead /\ SinceCheckpoint /\ Judged /\ ReadUnderFence
      /\ run.pc \in 1..Len(Script[run.case]) /\ Len(Script[run.case]) \in Nat
      /\ Ordered(run.case, Script[run.case], Len(Script[run.case]))
  BY <1>0, Standing
<1>2. x \in ReadNames /\ x \in Reads(Stage)
  BY <1>1 DEF RunTypes, Collection
<1>3. /\ Stage \in {"payment", "events", "delivery", "snapshot", "before", "after"}
      /\ Stage = "after" => x \in {"event", "state"}
  BY <1>2 DEF Reads
<1>4. seen \in Seen /\ run.seen \in Seen
  BY <1>1, <1>2, SawTyped DEF Transport, Collection
<1>5. left \in SUBSET ReadNames /\ late \in BOOLEAN /\ (fence => ~late)
  BY <1>1 DEF Collection, WorldTypes, World, ReadUnderFence
<1>6. Continue(Refused) \/ Continue(IF next.toRead = {} THEN Advanced(next) ELSE next)
  BY <1>1 DEF ReadOne, Collection
<1>7. Stage = "after" /\ run.lag <= 0 =>
        (seen.lastReceipt > run.checkpointAt => seen.receipts > run.mark.receipts)
  BY <1>1, <1>3, <1>4, SawState DEF SinceCheckpoint
<1>8. PICK q : q = next
  OBVIOUS
<1>9. PICK sn : sn = seen
  OBVIOUS
<1> HIDE DEF seen, left, late
<1>10. /\ q \in Collection /\ q.case = run.case /\ q.pc = run.pc /\ q.asked = run.asked
       /\ q.result = "none" /\ q.mark = run.mark /\ q.failed = run.failed /\ q.toRead = left
       /\ q.seen = seen /\ q.checkpointAt = run.checkpointAt /\ q.unfenced = late
       /\ q.evidence = run.evidence /\ q.lag = run.lag /\ q.before = run.before
  BY <1>0, <1>1, <1>4, <1>5, <1>8 DEF Collection, Running
<1> HIDE DEF next
<1>11. CASE Continue(Refused)
  BY <1>0, <1>11, Refuses
<1>12. CASE Continue(Advanced(q)) /\ Stage # "after"
  BY <1>0, <1>3, <1>5, <1>10, <1>12, Proceeds
<1>13. CASE Continue(Advanced(q)) /\ Stage = "after"
  <2>1. run.pc # Len(Script[run.case])
    BY <1>1, <1>13 DEF Ordered, Stage
  <2>2. /\ Advanced(q) \in Collection /\ Advanced(q).pc = run.pc + 1 /\ Advanced(q).case = run.case
        /\ Advanced(q).result = "none" /\ Advanced(q).toRead = Reads(Script[run.case][run.pc + 1])
        /\ Advanced(q).asked = run.asked /\ Advanced(q).seen = seen /\ Advanced(q).mark = run.mark
        /\ Advanced(q).checkpointAt = run.checkpointAt /\ Advanced(q).unfenced = late
        /\ Advanced(q).lag = run.lag
    BY <1>1, <1>10, <2>1, AdvancedTyped
  <2>3. run' = Advanced(q) /\ UNCHANGED transportVars /\ UNCHANGED <<world, fence>>
    BY <1>13, <2>2 DEF Continue
  <2>4. Transport' /\ AbortsRemembered' /\ Len(req') = Len(req) /\ now' = now
    BY <1>1, <2>3, Unmoved
  <2>5. WorldTypes'
    BY <1>1, <2>3, <2>4, WorldSame
  <2>6. run'.asked <= Len(req')
    BY <1>1, <2>2, <2>3, <2>4 DEF RunTypes
  <2>7. SinceCheckpoint'
    BY <1>1, <1>7, <1>13, <2>2, <2>3, <2>4 DEF SinceCheckpoint
  <2>8. run.case = "delayed" => run'.mark.effects = 0
    BY <1>1, <1>13, <2>2, <2>3 DEF NoEffectRead
  <2> QED BY <1>0, <1>5, <1>13, <2>2, <2>3, <2>4, <2>5, <2>6, <2>7, <2>8, AdvancesAround
<1>14. CASE Continue(q)
  <2>1. run' = q /\ UNCHANGED transportVars /\ UNCHANGED <<world, fence>>
    BY <1>10, <1>14 DEF Continue
  <2>2. Transport' /\ AbortsRemembered' /\ Len(req') = Len(req) /\ now' = now
    BY <1>1, <2>1, Unmoved
  <2>3. WorldTypes'
    BY <1>1, <2>1, <2>2, WorldSame
  <2>4. Stage' = Stage /\ Running'
    BY <1>10, <2>1 DEF Stage, Running
  <2>5. RunTypes'
    <3>1. left \subseteq Reads(Stage)
      BY <1>1 DEF RunTypes, left
    <3> QED BY <1>1, <1>3, <1>10, <2>1, <2>2, <2>4, <3>1 DEF RunTypes
  <2>6. SinceCheckpoint' /\ NoEffectRead'
    <3>1. Stage \notin {"judgeReplay", "judgeDelayed"}
      BY <1>3
    <3>2. SinceCheckpoint'
      BY <1>1, <1>7, <1>10, <2>1, <2>2, <2>4, <3>1 DEF SinceCheckpoint
    <3>3. NoEffectRead'
      BY <1>1, <1>10, <2>1, <2>4 DEF NoEffectRead
    <3> QED BY <3>2, <3>3
  <2>7. Judged'
    BY <1>1, <1>3, <1>10, <2>1, <2>4 DEF Judged, DelayWasFresh
  <2>8. ReadUnderFence'
    BY <1>3, <1>5, <1>10, <2>1, <2>4 DEF ReadUnderFence
  <2> QED BY <2>2, <2>3, <2>4, <2>5, <2>6, <2>7, <2>8 DEF Inv, Collected
<1> QED BY <1>6, <1>8, <1>11, <1>12, <1>13, <1>14

LEMMA AskWitnessKeeps == ASSUME Inv, AskWitness PROVE Inv'
<1> DEFINE n == Len(Script[run.case])
<1>0. Running /\ Stage = "askWitness" /\ run.result = "none"
  BY DEF AskWitness, At, Running
<1>1. /\ run \in Collection /\ RunTypes /\ Transport /\ WorldTypes /\ Len(req) \in Nat
      /\ AbortsRemembered /\ Judged /\ ReadUnderFence /\ run.pc \in 1..n /\ n \in Nat
      /\ Ordered(run.case, Script[run.case], n)
  BY <1>0, Standing
<1>2. CASE Continue(Refused)
  BY <1>0, <1>2, Refuses
<1>3. CASE /\ Issue("challenge") /\ UNCHANGED <<world, fence>>
           /\ run' = [Advanced(run) EXCEPT !.asked = Len(req) + 1]
  <2>1. run.pc # n
    BY <1>0, <1>1 DEF Ordered, Stage
  <2>2. /\ Advanced(run) \in Collection /\ Advanced(run).pc = run.pc + 1 /\ Advanced(run).case = run.case
        /\ Advanced(run).result = "none" /\ Advanced(run).toRead = Reads(Script[run.case][run.pc + 1])
        /\ Advanced(run).unfenced = run.unfenced
    BY <1>0, <1>1, <2>1, AdvancedTyped
  <2>3. /\ run' \in Collection /\ run'.pc = run.pc + 1 /\ run'.case = run.case
        /\ run'.result = "none" /\ run'.toRead = Reads(Script[run.case][run.pc + 1])
        /\ run'.unfenced = run.unfenced /\ run'.asked = Len(req) + 1
    <3> DEFINE r == Advanced(run)
    <3>1. r \in Collection /\ r.pc = run.pc + 1 /\ r.case = run.case /\ r.result = "none"
          /\ r.toRead = Reads(Script[run.case][run.pc + 1]) /\ r.unfenced = run.unfenced
      BY <2>2
    <3>2. run' = [r EXCEPT !.asked = Len(req) + 1] /\ Len(req) + 1 \in Nat
      BY <1>1, <1>3
    <3> HIDE DEF r
    <3>3. run' \in Collection
      BY <3>1, <3>2 DEF Collection
    <3>4. /\ run'.pc = r.pc /\ run'.case = r.case /\ run'.result = r.result /\ run'.toRead = r.toRead
          /\ run'.unfenced = r.unfenced /\ run'.asked = Len(req) + 1
      BY <3>1, <3>2 DEF Collection
    <3> QED BY <3>1, <3>3, <3>4
  <2>4. Transport' /\ AbortsRemembered' /\ Len(req') = Len(req) + 1 /\ now' = now
    BY <1>1, <1>3, IssueKeeps DEF Kinds, Issue
  <2>5. WorldTypes'
    BY <1>1, <1>3, <2>4, WorldSame
  <2>6. fence' => ~run'.unfenced
    BY <1>1, <1>3, <2>3 DEF ReadUnderFence
  <2> QED BY <1>0, <1>1, <2>3, <2>4, <2>5, <2>6, AdvancesAround
<1>4. CASE /\ run' = [run EXCEPT !.failed = TRUE, !.pc = @ + 2,
                                 !.toRead = Reads(Script[run.case][run.pc + 2])]
           /\ UNCHANGED <<transportVars, world, fence>>
  <2>1. Reads(Script[run.case][run.pc + 2]) \in SUBSET ReadNames
    BY ReadsTyped
  <2>2. /\ run' \in Collection /\ run'.pc = run.pc + 2 /\ run'.case = run.case /\ run'.failed = TRUE
        /\ run'.result = "none" /\ run'.toRead = Reads(Script[run.case][run.pc + 2])
        /\ run'.unfenced = run.unfenced /\ run'.asked = run.asked
    <3> DEFINE reads == Reads(Script[run.case][run.pc + 2])
               k == run.pc + 2
    <3>1. run' = [run EXCEPT !.failed = TRUE, !.pc = k, !.toRead = reads] /\ k \in Nat
      BY <1>1, <1>4
    <3> HIDE DEF reads, k
    <3>2. /\ run' \in Collection /\ run'.pc = k /\ run'.case = run.case /\ run'.failed = TRUE
          /\ run'.result = "none" /\ run'.toRead = reads
          /\ run'.unfenced = run.unfenced /\ run'.asked = run.asked
      BY <1>0, <1>1, <2>1, <3>1 DEF Collection, reads
    <3> QED BY <3>2 DEF reads, k
  <2>3. run'.pc \in 1..Len(Script[run'.case]) /\ Stage' \in {"tryDelayed", "tryReplay", "outcome"}
    <3>1. Script[run.case][run.pc] = "askWitness"
      BY <1>0 DEF Stage
    <3>2. Script[run.case][run.pc + 2] \in {"tryDelayed", "tryReplay", "outcome"}
      BY <1>1, <3>1 DEF Ordered
    <3>3. run.pc < Len(Script[run.case]) - 1
      BY <1>1, <3>1 DEF Ordered
    <3>4. run.pc + 2 \in 1..Len(Script[run.case])
      BY <1>1, <3>3
    <3> QED BY <2>2, <3>2, <3>4 DEF Stage
  <2>4. Transport' /\ AbortsRemembered' /\ Len(req') = Len(req) /\ now' = now
    BY <1>1, <1>4, Unmoved
  <2>5. WorldTypes'
    BY <1>1, <1>4, <2>4, WorldSame
  <2>6. RunTypes'
    <3>1. run'.toRead = Reads(Stage')
      BY <2>2 DEF Stage
    <3> QED BY <1>1, <2>2, <2>3, <2>4, <3>1 DEF RunTypes
  <2>7. NoEffectRead' /\ SinceCheckpoint' /\ Judged' /\ ReadUnderFence' /\ Running'
    BY <1>1, <1>4, <2>2, <2>3 DEF NoEffectRead, SinceCheckpoint, Judged, ReadUnderFence, Running
  <2> QED BY <2>4, <2>5, <2>6, <2>7 DEF Inv, Collected
<1> QED BY <1>2, <1>3, <1>4 DEF AskWitness

LEMMA AskCheckpointKeeps == ASSUME Inv, AskCheckpoint PROVE Inv'
<1> DEFINE n == Len(Script[run.case])
           kept == [Unseen EXCEPT !.receipts = run.seen.receipts, !.effects = run.seen.effects]
           ev == IF Contract[run.case].webhook = "delayed" THEN NoEvidence ELSE Advanced(run).evidence
<1>0. Running /\ Stage = "askCheckpoint" /\ run.result = "none"
  BY DEF AskCheckpoint, At, Running
<1>1. /\ run \in Collection /\ RunTypes /\ Transport /\ WorldTypes /\ Len(req) \in Nat
      /\ AbortsRemembered /\ NoEffectRead /\ ReadUnderFence /\ run.pc \in 1..n /\ n \in Nat
      /\ Ordered(run.case, Script[run.case], n)
  BY <1>0, Standing
<1>2. CASE Continue(Refused)
  BY <1>0, <1>2, Refuses
<1>3. CASE /\ BeforeOk /\ Issue("checkpoint") /\ UNCHANGED <<world, fence>>
           /\ run' = [Advanced(run) EXCEPT !.asked = Len(req) + 1, !.seen = Unseen,
                         !.before = kept, !.mark = kept, !.evidence = ev]
  <2>1. run.pc # n
    BY <1>0, <1>1 DEF Ordered, Stage
  <2>2. /\ Advanced(run) \in Collection /\ Advanced(run).pc = run.pc + 1 /\ Advanced(run).case = run.case
        /\ Advanced(run).result = "none" /\ Advanced(run).toRead = Reads(Script[run.case][run.pc + 1])
        /\ Advanced(run).unfenced = run.unfenced
    BY <1>0, <1>1, <2>1, AdvancedTyped
  <2>3. /\ run' \in Collection /\ run'.pc = run.pc + 1 /\ run'.case = run.case
        /\ run'.result = "none" /\ run'.toRead = Reads(Script[run.case][run.pc + 1])
        /\ run'.unfenced = run.unfenced /\ run'.asked = Len(req) + 1 /\ run'.seen = Unseen
        /\ run'.mark = kept
    <3> DEFINE adv == Advanced(run)
               k == Len(req) + 1
    <3>0. run.seen \in Seen /\ Advanced(run).evidence \in Evidence
      BY <1>1, <2>2 DEF Collection
    <3>1. k \in Nat /\ kept \in Seen /\ ev \in Evidence /\ Unseen \in Seen
      <4>1. kept \in Seen /\ Unseen \in Seen
        BY <3>0, UnseenTyped DEF Seen
      <4>2. ev \in Evidence
        BY <3>0, NoEvidenceTyped
      <4> HIDE DEF kept, ev
      <4> QED BY <1>1, <4>1, <4>2
    <3>2. /\ run' = [adv EXCEPT !.asked = k, !.seen = Unseen, !.before = kept, !.mark = kept, !.evidence = ev]
          /\ adv \in Collection
      BY <1>3, <2>2
    <3> HIDE DEF adv, k, kept, ev
    <3>3. /\ run' \in Collection /\ run'.pc = adv.pc /\ run'.case = adv.case /\ run'.result = adv.result
          /\ run'.toRead = adv.toRead /\ run'.unfenced = adv.unfenced /\ run'.asked = k /\ run'.seen = Unseen
          /\ run'.mark = kept
      BY <3>1, <3>2 DEF Collection
    <3> QED BY <2>2, <3>3 DEF adv, k
  <2>4. Transport' /\ AbortsRemembered' /\ Len(req') = Len(req) + 1 /\ now' = now
    BY <1>1, <1>3, IssueKeeps DEF Kinds, Issue
  <2>5. WorldTypes'
    BY <1>1, <1>3, <2>4, WorldSame
  <2>6. fence' => ~run'.unfenced
    BY <1>1, <1>3, <2>3 DEF ReadUnderFence
  <2>7. run.case = "delayed" => run'.mark.effects = 0
    <3>1. ASSUME run.case = "delayed"
          PROVE  run.seen.effects = 0
      <4>1. Contract["delayed"].webhook = "delayed"
        BY DEF Contract
      <4>2. StillDelayed(run.evidence, run.seen)
        BY <1>3, <3>1, <4>1 DEF BeforeOk
      <4>3. run.evidence.effects = 0
        BY <1>0, <1>1, <3>1 DEF NoEffectRead
      <4> QED BY <4>2, <4>3 DEF StillDelayed, SameSnapshot
    <3>2. kept.effects = run.seen.effects
      BY DEF Unseen
    <3> QED BY <2>3, <3>1, <3>2
  <2> QED BY <1>0, <1>1, <2>3, <2>4, <2>5, <2>6, <2>7, AdvancesAround
<1> QED BY <1>2, <1>3 DEF AskCheckpoint

LEMMA WitnessKeeps == ASSUME Inv, Witness PROVE Inv'
<1> DEFINE n == Len(Script[run.case])
           r == [run EXCEPT !.failed = run.failed \/ ~Verifies(run.asked, "challenge")]
<1>0. Running /\ Stage = "witness" /\ run.result = "none"
  BY DEF Witness, At, Running
<1>1. /\ run \in Collection /\ RunTypes /\ Transport /\ WorldTypes /\ Len(req) \in Nat
      /\ AbortsRemembered /\ ReadUnderFence /\ run.pc \in 1..n /\ n \in Nat
      /\ Ordered(run.case, Script[run.case], n)
  BY <1>0, Standing
<1>2. CASE Continue(Refused)
  BY <1>0, <1>2, Refuses
<1>3. CASE /\ run' = Advanced(r) /\ UseCapability
           /\ UNCHANGED <<now, op, panel, wire, world, fence>>
  <2>1. run.pc # n
    BY <1>0, <1>1 DEF Ordered, Stage
  <2>2. /\ r \in Collection /\ r.case = run.case /\ r.pc = run.pc /\ r.asked = run.asked
        /\ r.result = "none" /\ r.unfenced = run.unfenced
    BY <1>0, <1>1 DEF Collection
  <2>3. PICK q : q = r
    OBVIOUS
  <2> HIDE DEF r
  <2>4. /\ run' \in Collection /\ run'.pc = run.pc + 1 /\ run'.case = run.case
        /\ run'.result = "none" /\ run'.toRead = Reads(Script[run.case][run.pc + 1])
        /\ run'.unfenced = run.unfenced /\ run'.asked = run.asked
    BY <1>1, <1>3, <2>1, <2>2, <2>3, AdvancedTyped
  <2>5. PICK k \in 1..Len(req) : k = run.asked
    BY <1>0, <1>1 DEF RunTypes
  <2>6. Transport' /\ AbortsRemembered' /\ Len(req') = Len(req) /\ now' = now
    BY <1>1, <1>3, <2>5, UseKeeps DEF UseCapability
  <2>7. WorldTypes'
    BY <1>1, <1>3, WorldSame
  <2>8. (fence' => ~run'.unfenced) /\ run'.asked <= Len(req')
    BY <1>1, <1>3, <2>4, <2>6 DEF ReadUnderFence, RunTypes
  <2> QED BY <1>0, <2>4, <2>6, <2>7, <2>8, AdvancesAround
<1> QED BY <1>2, <1>3 DEF Witness

LEMMA CheckpointKeeps == ASSUME Inv, Checkpoint PROVE Inv'
<1> DEFINE n == Len(Script[run.case])
           mark == [run.mark EXCEPT !.receipts = world.receipts, !.processedAt = world.processedAt]
<1>0. Running /\ Stage = "checkpoint" /\ run.result = "none"
  BY DEF Checkpoint, At, Running
<1>1. /\ run \in Collection /\ RunTypes /\ Transport /\ WorldTypes /\ Len(req) \in Nat
      /\ AbortsRemembered /\ NoEffectRead /\ ReadUnderFence /\ run.pc \in 1..n /\ n \in Nat
      /\ Ordered(run.case, Script[run.case], n) /\ now \in 0..MaxTime
  BY <1>0, Standing DEF Transport, TransportTypes
<1>2. CASE Continue(Refused)
  BY <1>0, <1>2, Refuses
<1>3. ASSUME NEW lag \in -MaxLag..MaxLag, UseCapability, UNCHANGED <<now, op, panel, wire, world, fence>>,
             run' = [Advanced(run) EXCEPT !.checkpointAt = now - lag, !.lag = lag,
                       !.mark = [@ EXCEPT !.receipts = world.receipts, !.processedAt = world.processedAt]]
      PROVE  Inv'
  <2>1. run.pc # n
    BY <1>0, <1>1 DEF Ordered, Stage
  <2>2. /\ Advanced(run) \in Collection /\ Advanced(run).pc = run.pc + 1 /\ Advanced(run).case = run.case
        /\ Advanced(run).result = "none" /\ Advanced(run).toRead = Reads(Script[run.case][run.pc + 1])
        /\ Advanced(run).unfenced = run.unfenced /\ Advanced(run).asked = run.asked
        /\ Advanced(run).seen = run.seen /\ Advanced(run).mark = run.mark
    BY <1>0, <1>1, <2>1, AdvancedTyped
  <2>3. /\ mark \in Seen /\ mark.receipts = world.receipts /\ mark.processedAt = world.processedAt
        /\ mark.effects = run.mark.effects
    BY <1>1 DEF Seen, WorldTypes, World, Collection
  <2>4. /\ run' \in Collection /\ run'.pc = run.pc + 1 /\ run'.case = run.case
        /\ run'.result = "none" /\ run'.toRead = Reads(Script[run.case][run.pc + 1])
        /\ run'.unfenced = run.unfenced /\ run'.asked = run.asked /\ run'.lag = lag
        /\ run'.checkpointAt = now - lag /\ run'.mark = mark /\ run'.seen = run.seen
    <3> DEFINE adv == Advanced(run)
               at  == now - lag
    <3>1. at \in Dates /\ lag \in Lags
      BY <1>1, <1>3, TransportAssumption, CollectionAssumption DEF Dates, Lags
    <3>2. run' = [adv EXCEPT !.checkpointAt = at, !.lag = lag, !.mark = mark] /\ adv \in Collection
      BY <1>3, <2>2 DEF Collection
    <3> HIDE DEF adv, at, mark
    <3>3. /\ run' \in Collection /\ run'.pc = adv.pc /\ run'.case = adv.case /\ run'.result = adv.result
          /\ run'.toRead = adv.toRead /\ run'.unfenced = adv.unfenced /\ run'.asked = adv.asked
          /\ run'.lag = lag /\ run'.checkpointAt = at /\ run'.mark = mark /\ run'.seen = adv.seen
      BY <2>3, <3>1, <3>2 DEF Collection
    <3> QED BY <2>2, <3>3 DEF adv, at
  <2> HIDE DEF mark
  <2>5. PICK k \in 1..Len(req) : k = run.asked
    BY <1>0, <1>1 DEF RunTypes
  <2>6. Transport' /\ AbortsRemembered' /\ Len(req') = Len(req) /\ now' = now
    BY <1>1, <1>3, <2>5, UseKeeps DEF UseCapability
  <2>7. WorldTypes'
    BY <1>1, <1>3, WorldSame
  <2>8. (fence' => ~run'.unfenced) /\ run'.asked <= Len(req')
    BY <1>1, <1>3, <2>4, <2>6 DEF ReadUnderFence, RunTypes
  <2>9. SinceCheckpoint'
    <3>1. run.seen.lastReceipt = 0
      BY <1>0, <1>1 DEF RunTypes, Unseen
    <3>2. /\ run'.seen = run.seen /\ run'.checkpointAt = now - lag /\ run'.mark = mark /\ run'.lag = lag
          /\ world' = world
      BY <1>3, <2>4
    <3>3. /\ now \in Nat /\ lag \in Int /\ world.receipts \in Nat
          /\ world.lastReceipt \in Nat /\ world.processedAt \in Nat
      BY <1>1, <1>3, CollectionAssumption DEF WorldTypes, World
    <3>4. ASSUME lag <= 0
          PROVE  now - lag >= now /\ world.lastReceipt <= now - lag /\ world.processedAt <= now - lag
      BY <1>1, <3>3, <3>4 DEF WorldTypes
    <3> QED BY <2>3, <3>1, <3>2, <3>3, <3>4 DEF SinceCheckpoint
  <2>10. run.case = "delayed" => run'.mark.effects = 0
    BY <1>0, <1>1, <2>3, <2>4 DEF NoEffectRead
  <2> QED BY <1>0, <2>4, <2>6, <2>7, <2>8, <2>9, <2>10, AdvancesAround
<1> QED BY <1>2, <1>3 DEF Checkpoint

-----------------------------------------------------------------------------
(* Stripe, the application and the store.                                  *)

\* A step of Stripe or of the application.
LEMMA WorldMoves ==
    ASSUME Inv, Running, UNCHANGED <<transportVars, fence, run>>, world' \in World,
           world'.processedAt <= now, world'.lastReceipt <= now,
           \/ world'.receipts = world.receipts /\ world'.lastReceipt = world.lastReceipt
           \/ world'.receipts = world.receipts + 1
    PROVE  Inv'
<1>1. /\ Transport /\ WorldTypes /\ AbortsRemembered /\ SinceCheckpoint /\ run \in Collection
  BY Standing
<1>2. Transport' /\ AbortsRemembered' /\ Len(req') = Len(req) /\ now' = now
  BY <1>1, Unmoved
<1>3. world.receipts \in Nat /\ run.mark.receipts \in Nat
  BY <1>1 DEF WorldTypes, World, Collection, Seen
<1>4. WorldTypes'
  BY <1>1, <1>2 DEF WorldTypes
<1>5. SinceCheckpoint'
  BY <1>1, <1>2, <1>3 DEF SinceCheckpoint, Stage
<1> QED BY <1>2, <1>4, <1>5, Aside

LEMMA PayKeeps == ASSUME Inv, Pay PROVE Inv'
<1>1. world \in World /\ WorldTypes /\ 1 \in 0..1
  BY Standing DEF Pay, WorldTypes
<1>2. /\ world' \in World /\ world'.receipts = world.receipts
      /\ world'.processedAt = world.processedAt /\ world'.lastReceipt = world.lastReceipt
  BY <1>1 DEF Pay, World
<1> QED BY <1>1, <1>2, WorldMoves DEF Pay, WorldTypes

LEMMA DeliverKeeps == ASSUME Inv, Deliver PROVE Inv'
<1> DEFINE k == world.receipts + 1
<1>1. world \in World /\ WorldTypes /\ now \in 0..MaxTime /\ now <= now
  BY Standing DEF Deliver, WorldTypes, Transport, TransportTypes
<1>2. k \in 0..MaxDeliveries
  BY <1>1, CollectionAssumption DEF Deliver, World
<1>3. world' = [world EXCEPT !.receipts = k, !.lastReceipt = now]
  BY <1>1 DEF Deliver
<1> HIDE DEF k
<1>4. /\ world' \in World /\ world'.receipts = k
      /\ world'.processedAt = world.processedAt /\ world'.lastReceipt = now
  BY <1>1, <1>2, <1>3 DEF World
<1> QED BY <1>1, <1>4, WorldMoves DEF Deliver, WorldTypes, k

LEMMA SettleKeeps == ASSUME Inv, Settle PROVE Inv'
<1> DEFINE k == world.effects + 1
<1>1. world \in World /\ WorldTypes
  BY Standing DEF Settle, WorldTypes
<1>2. k \in 0..MaxDeliveries
  BY <1>1, CollectionAssumption DEF Settle, World
<1>3. world' = [world EXCEPT !.effects = k]
  BY <1>1 DEF Settle
<1> HIDE DEF k
<1>4. /\ world' \in World /\ world'.receipts = world.receipts
      /\ world'.processedAt = world.processedAt /\ world'.lastReceipt = world.lastReceipt
  BY <1>1, <1>2, <1>3 DEF World
<1> QED BY <1>1, <1>4, WorldMoves DEF Settle, WorldTypes

LEMMA MarkInboxKeeps == ASSUME Inv, MarkInbox PROVE Inv'
<1>1. world \in World /\ WorldTypes /\ now \in 0..MaxTime /\ now <= now
  BY Standing DEF MarkInbox, WorldTypes, Transport, TransportTypes
<1>2. "unprocessed" \in Statuses /\ "processed" \in Statuses
  BY DEF Statuses
<1>3. \/ world' = [world EXCEPT !.inbox = "unprocessed"]
      \/ world' = [world EXCEPT !.inbox = "processed", !.processedAt = now]
  BY DEF MarkInbox
<1>4. /\ world' \in World /\ world'.receipts = world.receipts
      /\ world'.processedAt \in {world.processedAt, now} /\ world'.lastReceipt = world.lastReceipt
  BY <1>1, <1>2, <1>3 DEF World
<1> QED BY <1>1, <1>4, WorldMoves DEF MarkInbox, WorldTypes

LEMMA AcknowledgeKeeps == ASSUME Inv, Acknowledge PROVE Inv'
<1>1. world \in World /\ WorldTypes /\ 0 \in 0..1
  BY Standing DEF Acknowledge, WorldTypes
<1>2. /\ world' \in World /\ world'.receipts = world.receipts
      /\ world'.processedAt = world.processedAt /\ world'.lastReceipt = world.lastReceipt
  BY <1>1 DEF Acknowledge, World
<1> QED BY <1>1, <1>2, WorldMoves DEF Acknowledge, WorldTypes

LEMMA LoseFenceKeeps == ASSUME Inv, LoseFence PROVE Inv'
<1>0. Running /\ UNCHANGED transportVars /\ fence' = FALSE /\ run' = run /\ world' = world
  BY DEF LoseFence
<1>1. Transport /\ WorldTypes /\ AbortsRemembered /\ SinceCheckpoint
  BY <1>0, Standing
<1>2. Transport' /\ AbortsRemembered' /\ Len(req') = Len(req) /\ now' = now
  BY <1>0, <1>1, Unmoved
<1>3. WorldTypes' /\ SinceCheckpoint'
  BY <1>0, <1>1, <1>2 DEF WorldTypes, World, SinceCheckpoint, Stage
<1> QED BY <1>0, <1>2, <1>3, Aside

LEMMA TransportMoves ==
    ASSUME Inv, Running, TransportStep, UNCHANGED <<world, fence, run>>
    PROVE  Inv'
<1>1. Transport /\ WorldTypes /\ AbortsRemembered /\ SinceCheckpoint
  BY Standing
<1>2. Transport' /\ AbortsRemembered' /\ Len(req') = Len(req) /\ now' = now
  BY <1>1, TransportStepKeeps
<1>3. WorldTypes' /\ SinceCheckpoint'
  BY <1>1, <1>2 DEF WorldTypes, World, SinceCheckpoint, Stage
<1> QED BY <1>2, <1>3, Aside

LEMMA TickKeeps ==
    ASSUME Inv, Running, Tick, UNCHANGED <<world, fence, run>>
    PROVE  Inv'
<1>1. /\ Transport /\ WorldTypes /\ AbortsRemembered /\ SinceCheckpoint /\ TransportTypes
      /\ run \in Collection
  BY Standing DEF Transport
<1>2. now \in Nat /\ now' = now + 1 /\ now' \in 0..MaxTime /\ UNCHANGED <<op, req, panel, wire>>
  BY <1>1, TransportAssumption DEF Tick, TransportTypes
<1>3. TransportTypes' /\ SignalsWereClicked' /\ SettledByOwnCause' /\ AbortsRemembered'
  BY <1>1, <1>2 DEF TransportTypes, Transport, SignalsWereClicked, SettledByOwnCause, AbortsRemembered
<1>4. world.processedAt \in Nat /\ world.lastReceipt \in Nat
  BY <1>1 DEF WorldTypes, World, Collection
<1>5. WorldTypes'
  BY <1>1, <1>2, <1>4 DEF WorldTypes, World
<1>6. SinceCheckpoint'
  BY <1>1, <1>2, <1>4 DEF SinceCheckpoint, Stage
<1> QED BY <1>2, <1>3, <1>5, <1>6, Aside DEF Transport

-----------------------------------------------------------------------------
(* The theorems.                                                           *)

LEMMA InvInit == Init => Inv
<1> SUFFICES ASSUME Init PROVE Inv
  OBVIOUS
<1>1. PICK c \in Cases :
        run = [case |-> c, pc |-> 1, toRead |-> {}, seen |-> Unseen, evidence |-> NoEvidence,
               before |-> Unseen, failed |-> FALSE, asked |-> 0, checkpointAt |-> 0,
               lag |-> 0, mark |-> Unseen, unfenced |-> FALSE, result |-> "none"]
  BY DEF Init
<1>2. /\ now = 0 /\ req = <<>> /\ panel = 0 /\ wire = {}
      /\ op = [active |-> 0, closed |-> FALSE, aborted |-> FALSE, gone |-> FALSE]
  BY DEF Init, TransportInit
<1>3. req \in Seq(Request) /\ Len(req) = 0 /\ DOMAIN req = {}
  BY <1>2
<1>4. Transport /\ AbortsRemembered
  <2>1. TransportTypes
    BY <1>2, <1>3, TransportAssumption DEF TransportTypes
  <2> QED BY <1>2, <1>3, <2>1 DEF Transport, SignalsWereClicked, SettledByOwnCause, AbortsRemembered
<1>5. WorldTypes
  BY <1>2, TransportAssumption, CollectionAssumption DEF Init, WorldTypes, World, Statuses
<1>6. run \in Collection
  BY <1>1, UnseenTyped, NoEvidenceTyped DEF Collection
<1>7. Ordered(c, Script[c], Len(Script[c])) /\ Len(Script[c]) \in Nat /\ Len(Script[c]) > 8
  BY ScriptOrder
<1>8. Stage = "start" /\ run.pc \in 1..Len(Script[run.case]) /\ Running
  BY <1>1, <1>7 DEF Stage, Ordered, Running
<1>9. RunTypes
  BY <1>1, <1>3, <1>6, <1>8 DEF RunTypes
<1>10. NoEffectRead /\ SinceCheckpoint /\ ReadUnderFence
  BY <1>1, <1>8 DEF NoEffectRead, SinceCheckpoint, ReadUnderFence
<1>11. Judged
  BY <1>1, <1>8 DEF Judged
<1> QED BY <1>4, <1>5, <1>8, <1>9, <1>10, <1>11 DEF Inv, Collected

LEMMA InvNext == Inv /\ [Next]_vars => Inv'
<1> SUFFICES ASSUME Inv, [Next]_vars PROVE Inv'
  OBVIOUS
<1>1. CASE CollectionStep
  BY <1>1, StartKeeps, ReadOneKeeps, ObservedKeeps, AskWitnessKeeps, WitnessKeeps, TryDeliveryKeeps,
     AskCheckpointKeeps, CheckpointKeeps, JudgeReplayKeeps, JudgeDelayedKeeps, JudgePostKeeps,
     FurtherKeeps, OutcomeKeeps, ReturnKeeps DEF CollectionStep
<1>2. CASE Running /\ TransportStep /\ UNCHANGED <<world, fence, run>>
  BY <1>2, TransportMoves
<1>3. CASE Running /\ Tick /\ UNCHANGED <<world, fence, run>>
  BY <1>3, TickKeeps
<1>4. CASE Pay \/ Deliver \/ Settle \/ MarkInbox \/ Acknowledge \/ LoseFence
  BY <1>4, PayKeeps, DeliverKeeps, SettleKeeps, MarkInboxKeeps, AcknowledgeKeeps, LoseFenceKeeps
<1>5. CASE UNCHANGED vars
  <2>1. UNCHANGED transportVars /\ UNCHANGED <<world, fence, run>>
    BY <1>5 DEF vars
  <2>2. UNCHANGED <<now, op, req, panel, wire>>
    BY <2>1 DEF transportVars
  <2>3. Transport' /\ WorldTypes'
    BY <2>1, <2>2, Standing, Unmoved, WorldSame
  <2>4. Collected' <=> Collected
    BY <2>1, <2>2 DEF Collected, Running, RunTypes, AbortsRemembered, NoEffectRead, SinceCheckpoint, Judged,
       ReplayWasFresh, DelayWasFresh, ReadUnderFence, Stage, AbortYieldsNoResult, ResultReadUnderFence, Returned, PassedReplayIsFresh,
       PassedDelayedWasDelayed
  <2> QED BY <2>3, <2>4 DEF Inv
<1> QED BY <1>1, <1>2, <1>3, <1>4, <1>5 DEF Next

\* The inductive invariant holds of every collection.
THEOREM Invariance == Spec => []Inv
<1>1. Init => Inv
  BY InvInit
<1>2. Inv /\ [Next]_vars => Inv'
  BY InvNext
<1> QED BY <1>1, <1>2, PTL DEF Spec

\* Every variable keeps its type: the reads under way are those of the stage, and the
\* request a stage waits for is the last one issued.
THEOREM TypeCorrect == Spec => []TypeOK
<1>1. Inv => TypeOK
  <2> SUFFICES ASSUME Inv PROVE TypeOK
    OBVIOUS
  <2>1. /\ run \in Collection /\ RunTypes /\ WorldTypes /\ TransportTypes /\ Script[run.case] \in Seq(Stages)
    BY Standing, ScriptOrder DEF Transport
  <2>2. TransportTypeOK
    BY <2>1, RequestsTyped DEF TransportTypes, TransportTypeOK
  <2>3. DOMAIN Script[run.case] = 1..Len(Script[run.case])
    BY <2>1
  <2>4. world.receipts \in 0..MaxDeliveries /\ world.effects \in 0..MaxDeliveries /\ fence \in BOOLEAN
    BY <2>1 DEF WorldTypes, World
  <2>5. /\ run.seen \in Seen /\ run.before \in Seen /\ run.mark \in Seen /\ run.evidence \in Evidence
        /\ run.case \in Cases /\ run.asked \in Nat /\ run.lag \in -MaxLag..MaxLag
        /\ run.checkpointAt \in -MaxLag..(MaxTime + MaxLag)
        /\ run.result \in {"none", "refused", "failed", "passed"}
    BY <2>1 DEF Collection, Lags, Dates
  <2>6. Len(req) \in Nat
    BY <2>1, RequestsTyped
  <2> QED BY <2>1, <2>2, <2>3, <2>4, <2>5, <2>6 DEF TypeOK, RunTypes
<1> QED BY <1>1, Invariance, PTL

\* A request to the operator is settled by its own button or its own publication, however
\* late the signals and failures of earlier requests arrive (transport.mjs).
THEOREM OwnCause == Spec => []SettledByOwnCause
<1>1. Inv => SettledByOwnCause
  BY DEF Inv, Transport
<1> QED BY <1>1, Invariance, PTL

\* An aborted collection, or one whose browser was lost, returns no result
\* (run-collect.mjs).
THEOREM AbortNoResult == Spec => []AbortYieldsNoResult
<1>1. Inv => AbortYieldsNoResult
  BY DEF Inv, Collected, Running, AbortYieldsNoResult, Returned
<1> QED BY <1>1, Invariance, PTL

\* A returned result rests on no read made after the fence was lost (three-ds.mjs,
\* observations.mjs).
THEOREM UnderFence == Spec => []ResultReadUnderFence
<1>1. Inv => ResultReadUnderFence
  BY DEF Inv, Collected, Running, ResultReadUnderFence, Returned
<1> QED BY <1>1, Invariance, PTL

\* A replay passes only by a delivery that came after the confirmation of the operator
\* was verified, whatever the clocks differ by as long as the controller's is not behind
\* the database's (financial.mjs requestResendCheckpoint, resendWebhookDelivery).
THEOREM FreshReplay == Spec => []PassedReplayIsFresh
<1>1. Inv => PassedReplayIsFresh
  BY DEF Inv, Collected, Running, PassedReplayIsFresh
<1> QED BY <1>1, Invariance, PTL

\* A delayed delivery passes only if no effect was read before the operator was asked and
\* exactly one in the end; and, as long as the controller's clock is not behind, only if
\* a delivery arrived and the row was marked processed after the confirmation was
\* verified (financial.mjs verifyDelayedWebhookDelivery, three-ds.mjs).
THEOREM WasDelayed == Spec => []PassedDelayedWasDelayed
<1>1. Inv => PassedDelayedWasDelayed
  BY DEF Inv, Collected, Running, PassedDelayedWasDelayed
<1> QED BY <1>1, Invariance, PTL

=============================================================================
