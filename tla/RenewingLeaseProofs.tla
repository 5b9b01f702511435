------------------------ MODULE RenewingLeaseProofs ------------------------
(***************************************************************************)
(* Supervised work is covered by its lease, for every duration, interval   *)
(* and lag, and outlasts it by no more than the lag.                       *)
(***************************************************************************)
EXTENDS RenewingLease, TLAPS

Timer == Int \cup {None}

Types ==
    /\ state \in {"confirming", "working"} \cup Settled
    /\ deadline \in Timer /\ renewal \in Timer /\ wait \in Timer
    /\ request \in Request \cup {None}
    /\ remaining \in Int

\* A request is answered with what was left of the lease then.  What its age has
\* not used up of the answer is still there.
AnswerWithinLease ==
    request # None /\ request.answer # None =>
        /\ request.answer <= TTL + FirstTTL
        /\ request.answer > request.age => held /\ request.answer - request.age <= remaining

\* The confirmation is the only request before the work begins, and work has
\* never more time than a renewal gives.
Phases ==
    /\ remaining <= TTL + FirstTTL
    /\ state = "confirming" => request # None /\ request.kind = "assertFence"
    /\ state = "working" => deadline # None /\ deadline <= TTL

Covered == Types /\ AnswerWithinLease /\ Phases /\ WorkIsCovered

\* The request is made with the full lease ahead of it.
LEMMA CoveredInit == Init => Covered
<1> SUFFICES ASSUME Init PROVE Covered
  OBVIOUS
<1>1. request \in Request /\ request # None /\ request.kind = "assertFence" /\ request.answer = None
  BY RenewalAssumption DEF Init, Request
<1>2. Types
  BY <1>1, RenewalAssumption DEF Init, Types, Timer, Settled
<1>3. AnswerWithinLease /\ Phases /\ WorkIsCovered
  BY <1>1, RenewalAssumption DEF Init, AnswerWithinLease, Phases, WorkIsCovered
<1> QED BY <1>2, <1>3 DEF Covered

\* The store's steps: an answer tells no more than is left, a renewal only adds to
\* what a deadline counts on, and nobody takes over before the lease is out.
LEMMA CoveredStore == Covered /\ (Serve \/ TakenOver \/ FallsSilent) => Covered'
<1> SUFFICES ASSUME Covered, Serve \/ TakenOver \/ FallsSilent PROVE Covered'
  OBVIOUS
<1> USE RenewalAssumption DEF Covered, Types, AnswerWithinLease, Phases, WorkIsCovered, Timer,
                              Request, Settled
<1>1. CASE Serve
  <2>1. request \in Request /\ request.answer = None /\ request' \in Request
    BY <1>1 DEF Serve, Live
  <2>2. remaining' \in Int /\ remaining' <= TTL + FirstTTL
    BY <1>1 DEF Serve
  <2>3. request'.age = request.age /\ request'.kind = request.kind
    BY <1>1, <2>1 DEF Serve
  <2>4. request'.answer = (IF Live THEN remaining' ELSE 0)
    BY <1>1, <2>1 DEF Serve
  <2>5. AnswerWithinLease'
    BY <1>1, <2>1, <2>2, <2>3, <2>4 DEF Serve, Live
  <2>6. Types' /\ Phases'
    BY <1>1, <2>1, <2>2, <2>3 DEF Serve
  <2>7. WorkIsCovered'
    BY <1>1 DEF Serve, Live
  <2> QED BY <2>5, <2>6, <2>7
<1>2. CASE TakenOver
  BY <1>2 DEF TakenOver
<1>3. CASE FallsSilent
  BY <1>3 DEF FallsSilent
<1> QED BY <1>1, <1>2, <1>3

\* The call's steps: a deadline is set from an answer and the age of its request.
LEMMA CoveredCall ==
    Covered /\ (FenceConfirmed \/ Renewed \/ Timers \/ WorkReturns) => Covered'
<1> SUFFICES ASSUME Covered, FenceConfirmed \/ Renewed \/ Timers \/ WorkReturns
             PROVE Covered'
  OBVIOUS
<1> USE RenewalAssumption DEF Covered, Types, AnswerWithinLease, Phases, WorkIsCovered, Timer,
                              Request, Settled
<1>1. CASE FenceConfirmed
  BY <1>1 DEF FenceConfirmed, Confirmed, NewDeadline, Supervise, Settle, ClearTimers, store
<1>2. CASE Renewed
  BY <1>2 DEF Renewed, Confirmed, NewDeadline, Supervise, Fail, Settle, ClearTimers, store
<1>3. CASE Timers
  BY <1>3 DEF Timers, RenewalTimer, RenewalWaitTimer, DeadlineTimer, Fail, Settle, ClearTimers,
              store
<1>4. CASE WorkReturns
  BY <1>4 DEF WorkReturns, Settle, ClearTimers, store
<1> QED BY <1>1, <1>2, <1>3, <1>4

\* Time wears down the lease, the deadline and the answer in the air alike.
LEMMA CoveredTick == Covered /\ Tick => Covered'
<1> SUFFICES ASSUME Covered, Tick PROVE Covered'
  OBVIOUS
<1> USE RenewalAssumption DEF Covered, Types, AnswerWithinLease, Phases, WorkIsCovered, Timer,
                              Request, Settled, Tick, Later
<1>1. request' \in Request \cup {None} /\ (request' = None <=> request = None)
  OBVIOUS
<1>2. ASSUME request # None
      PROVE  /\ request'.kind = request.kind /\ request'.answer = request.answer
             /\ request'.age = IF request.age < MaxAge THEN request.age + 1 ELSE request.age
  BY <1>2
<1>3. AnswerWithinLease'
  BY <1>1, <1>2 DEF MaxAge
<1>4. Types' /\ Phases'
  BY <1>1, <1>2 DEF MaxAge
<1>5. WorkIsCovered'
  BY DEF MaxAge
<1> QED BY <1>3, <1>4, <1>5

LEMMA CoveredNext == Covered /\ [Next]_vars => Covered'
<1> SUFFICES ASSUME Covered, [Next]_vars PROVE Covered'
  OBVIOUS
<1>1. CASE Next
  BY <1>1, CoveredStore, CoveredCall, CoveredTick DEF Next
<1>2. CASE UNCHANGED vars
  BY <1>2 DEF vars, store, Covered, Types, AnswerWithinLease, Phases, WorkIsCovered
<1> QED BY <1>1, <1>2

\* Work that has not been aborted is covered by its lease, however long the answers
\* of the store took and however late they came.
THEOREM WorkCovered == Spec => []WorkIsCovered
<1>1. Init => Covered
  BY CoveredInit
<1>2. Covered /\ [Next]_vars => Covered'
  BY CoveredNext
<1>3. Covered => WorkIsCovered
  BY DEF Covered
<1> QED BY <1>1, <1>2, <1>3, PTL DEF Spec

\* A call settles with its timers cleared, and no answer or tick arms one again.
LEMMA QuietStep == SettledCallIsQuiet /\ [Next]_vars => SettledCallIsQuiet'
<1> SUFFICES ASSUME SettledCallIsQuiet, [Next]_vars PROVE SettledCallIsQuiet'
  OBVIOUS
<1> USE DEF SettledCallIsQuiet
<1>0. "working" \notin Settled /\ "confirming" \notin Settled
  BY DEF Settled
<1>1. CASE Serve \/ TakenOver \/ FallsSilent \/ UNCHANGED vars
  BY <1>1 DEF Serve, TakenOver, FallsSilent, vars
<1>2. CASE FenceConfirmed
  BY <1>0, <1>2 DEF FenceConfirmed, Settle, ClearTimers
<1>3. CASE Renewed
  BY <1>0, <1>3 DEF Renewed, Fail, Settle, ClearTimers
<1>4. CASE Timers
  BY <1>0, <1>4 DEF Timers, RenewalTimer, RenewalWaitTimer, DeadlineTimer, Fail, Settle, ClearTimers
<1>5. CASE WorkReturns
  BY <1>5 DEF WorkReturns, Settle, ClearTimers
<1>6. CASE Tick
  BY <1>6 DEF Tick, Later
<1> QED BY <1>1, <1>2, <1>3, <1>4, <1>5, <1>6 DEF Next

\* Whatever comes after the end of a call finds no timer armed and arms none.
THEOREM SettledQuiet == Spec => []SettledCallIsQuiet
<1>1. Init => SettledCallIsQuiet
  BY DEF Init, SettledCallIsQuiet
<1>2. SettledCallIsQuiet /\ [Next]_vars => SettledCallIsQuiet'
  BY QuietStep
<1> QED BY <1>1, <1>2, PTL DEF Spec

(***************************************************************************)
(* The safety half of UncoveredWorkEnds                                    *)
(***************************************************************************)

\* Supervised work has its deadline armed, and either the next renewal or the wait
\* for the one in the air, which is over before the deadline is.
Watched ==
    state = "working" =>
        /\ deadline # None /\ deadline >= -MaxLag
        /\ \/ /\ renewal # None /\ wait = None
              /\ -MaxLag <= renewal /\ renewal <= Interval
           \/ /\ wait # None /\ renewal = None
              /\ -MaxLag <= wait /\ wait <= Interval /\ wait <= deadline

\* Work goes on past the end of its lease for no longer than a timer may be late.
OutlastsByLag == state = "working" => remaining >= -MaxLag

LEMMA WatchedStep == Covered /\ Watched /\ [Next]_vars => Watched'
<1> SUFFICES ASSUME Covered, Watched, [Next]_vars PROVE Watched'
  OBVIOUS
<1> USE RenewalAssumption DEF Watched
<1>1. /\ deadline \in Timer /\ renewal \in Timer /\ wait \in Timer
      /\ request \in Request \cup {None}
      /\ "working" \notin Settled /\ "confirming" \notin Settled
  BY DEF Covered, Types, Settled
<1>2. CASE Serve \/ TakenOver \/ FallsSilent \/ UNCHANGED vars
  BY <1>2 DEF Serve, TakenOver, FallsSilent, vars
<1>3. ASSUME Confirmed, Supervise, request # None, request.answer # None PROVE Watched'
  <2>1. request.answer \in Int /\ request.age \in Nat
    BY <1>1, <1>3 DEF Request
  <2>2. NewDeadline \in Int /\ NewDeadline > 0
    BY <1>3, <2>1 DEF Confirmed, NewDeadline
  <2>3. deadline' = NewDeadline /\ renewal' = Interval /\ wait' = None
    BY <1>3 DEF Supervise
  <2>4. NewDeadline # None /\ Interval # None
    BY <2>2
  <2> QED
    BY <2>2, <2>3, <2>4
<1>4. ASSUME NEW how \in Settled, Settle(how) PROVE Watched'
  BY <1>1, <1>4 DEF Settle
<1>5. CASE FenceConfirmed
  <2>1. request # None
    BY <1>5 DEF FenceConfirmed, Covered, Phases
  <2> QED
    BY <1>3, <1>4, <1>5, <2>1 DEF FenceConfirmed, Settled
<1>6. CASE Renewed
  BY <1>1, <1>3, <1>4, <1>6 DEF Renewed, Fail, Settled
<1>7. CASE Timers
  <2>1. Fail => Watched'
    BY <1>4 DEF Fail, Settled
  <2>2. CASE /\ state = "working" /\ deadline > 0 /\ UNCHANGED <<state, deadline>>
             /\ renewal' = None
             /\ wait' = IF Interval < deadline THEN Interval ELSE deadline
    <3>1. deadline \in Int
      BY <1>1, <2>2 DEF Timer
    <3>2. wait' \in Int /\ wait' > 0 /\ wait' <= Interval /\ wait' <= deadline
      BY <2>2, <3>1
    <3>3. wait' # None
      BY <3>2
    <3> QED
      BY <2>2, <3>1, <3>2, <3>3
  <2> QED
    BY <1>7, <2>1, <2>2 DEF Timers, RenewalTimer, RenewalWaitTimer, DeadlineTimer
<1>8. CASE WorkReturns
  BY <1>4, <1>8 DEF WorkReturns, Settled
<1>9. CASE Tick
  <2> SUFFICES ASSUME state' = "working" PROVE Watched'
    OBVIOUS
  <2>1. state = "working" /\ TimersKept
    BY <1>9 DEF Tick
  <2>2. \A t \in {deadline, renewal, wait} : t # None => Later(t) \in Int /\ Later(t) = t - 1 /\ t > -MaxLag
    BY <1>1, <2>1 DEF TimersKept, Later, Timer
  <2>3. \A t \in {deadline, renewal, wait} : t # None => Later(t) # None /\ t \in Int
    BY <1>1, <2>2 DEF Timer
  <2>4. deadline' = Later(deadline) /\ renewal' = Later(renewal) /\ wait' = Later(wait)
        /\ Later(None) = None
    BY <1>9 DEF Tick, Later
  <2>5. deadline' # None /\ deadline' >= -MaxLag
    BY <2>1, <2>2, <2>3, <2>4
  <2>6. CASE renewal # None /\ wait = None
    BY <2>1, <2>2, <2>3, <2>4, <2>5, <2>6
  <2>7. CASE wait # None /\ renewal = None
    BY <2>1, <2>2, <2>3, <2>4, <2>5, <2>7
  <2> QED
    BY <2>1, <2>6, <2>7
<1> QED
  BY <1>2, <1>5, <1>6, <1>7, <1>8, <1>9 DEF Next

(* Every supervised call of withRenewingLease has timers armed that end it or  *)
(* renew its lease: its deadline, and the next renewal or the end of the wait  *)
(* for one, neither of them more than an interval away.                        *)
THEOREM WorkWatched == Spec => []Watched
<1>1. Init => Covered /\ Watched
  BY CoveredInit DEF Init, Watched
<1>2. Covered /\ Watched /\ [Next]_vars => Covered' /\ Watched'
  BY CoveredNext, WatchedStep
<1> QED BY <1>1, <1>2, PTL DEF Spec

(* Work whose lease ran out is aborted, at the latest, when the timer that     *)
(* ends it is as late as a timer may be, whatever the store answered and       *)
(* however long its answers took.                                              *)
THEOREM WorkOutlastsByLag == Spec => []OutlastsByLag
<1>1. Covered /\ Watched => OutlastsByLag
  BY RenewalAssumption DEF Covered, Types, Timer, WorkIsCovered, Watched, OutlastsByLag
<1>2. Spec => []Covered
  BY CoveredInit, CoveredNext, PTL DEF Spec
<1> QED BY <1>1, <1>2, WorkWatched, PTL

=============================================================================
