---------------------------- MODULE RenewingLease ----------------------------
(***************************************************************************)
(* withRenewingLease of src/attempts/lock.mjs: work done under a lease     *)
(* that is renewed at an interval, and aborted when the lease can no       *)
(* longer be counted on.                                                   *)
(*                                                                         *)
(* All times are what is left, so there is no clock: a timer that is due   *)
(* stands at 0, and fires at most MaxLag later.  The store is seen from    *)
(* the outside.  A request reaches it, and its answer comes back, at any   *)
(* later moment or never, also after the call has settled.                 *)
(***************************************************************************)
EXTENDS Integers

CONSTANTS
    TTL,       \* ttlSeconds of the renewals
    Interval,  \* intervalMs
    FirstTTL,  \* the lease was granted for at most this long
    MaxLag,    \* how late a timer may fire
    None       \* no timer, no request, no answer yet

Request == [kind : {"assertFence", "renew"}, age : Nat, answer : Int \cup {None}]

ASSUME RenewalAssumption ==
    /\ TTL \in Nat /\ Interval \in Nat /\ FirstTTL \in Nat /\ MaxLag \in Nat
    /\ 1 <= Interval /\ Interval < TTL
    /\ None \notin Int \cup Request

VARIABLES
    state,      \* of the call
    deadline,   \* what is left until deadlineTimer
    renewal,    \* what is left until renewalTimer
    wait,       \* what is left until renewalWaitTimer
    request,    \* the request in the air: its age, and the store's answer
    remaining,  \* what is left of the lease in the store
    held,       \* whether the store still has it as this owner's
    silent      \* the store answers nobody any more

store == <<remaining, held, silent>>
vars == <<state, deadline, renewal, wait, request, store>>

Settled == {"returned", "aborted", "refused"}

(***************************************************************************)
(* The store                                                               *)
(***************************************************************************)

Live == held /\ remaining > 0

\* assertFence tells what is left of the lease, renew starts it again; both
\* refuse, with nothing left, when it is gone.
Serve ==
    /\ request # None /\ request.answer = None /\ ~silent
    /\ remaining' = IF Live /\ request.kind = "renew" THEN TTL ELSE remaining
    /\ request' = [request EXCEPT !.answer = IF Live THEN remaining' ELSE 0]
    /\ UNCHANGED <<state, deadline, renewal, wait, held, silent>>

\* Somebody else is granted the resources of a lease that ran out.
TakenOver ==
    /\ held /\ remaining <= 0
    /\ held' = FALSE
    /\ UNCHANGED <<state, deadline, renewal, wait, request, remaining, silent>>

FallsSilent ==
    /\ ~silent /\ silent' = TRUE
    /\ UNCHANGED <<state, deadline, renewal, wait, request, remaining, held>>

(***************************************************************************)
(* The call                                                                *)
(***************************************************************************)

ClearTimers == deadline' = None /\ renewal' = None /\ wait' = None

\* The call is over and its timers are cleared.
Settle(how) == state' = how /\ ClearTimers /\ UNCHANGED store

\* Mutant: the signal is given and the call goes on waiting for the work.
SignalOnly == state' = "signalled" /\ ClearTimers /\ UNCHANGED store

\* fail: the signal is given and the call rejects.
Fail == Settle("aborted")

\* Mutant: counts from the arrival of the answer.
DeadlineFromArrival == request.answer

\* setDeadline counts from the moment the request was made.
NewDeadline == request.answer - request.age

\* It accepts no lease that is over, nor one longer than what is asked for.
Confirmed == 0 < request.answer /\ request.answer <= TTL /\ NewDeadline > 0

Supervise ==
    /\ deadline' = NewDeadline
    /\ renewal' = Interval /\ wait' = None
    /\ UNCHANGED store

FenceConfirmed ==
    /\ state = "confirming" /\ request.answer # None
    /\ request' = None
    /\ \/ Confirmed /\ state' = "working" /\ Supervise
       \/ ~Confirmed /\ Settle("refused")

\* Mutant: an answer that comes after the call has settled is taken up.
RenewedAnyway ==
    /\ state # "confirming" /\ request # None /\ request.answer # None
    /\ request' = None
    /\ \/ Confirmed /\ Supervise /\ UNCHANGED state
       \/ ~Confirmed /\ Fail

\* The answer to renew; nobody waits for it once the call has settled.
Renewed ==
    /\ state # "confirming" /\ request # None /\ request.answer # None
    /\ request' = None
    /\ \/ state = "working" /\ Confirmed /\ Supervise /\ UNCHANGED state
       \/ state = "working" /\ ~Confirmed /\ Fail
       \/ state \in Settled /\ UNCHANGED <<state, deadline, renewal, wait, store>>

RenewalTimer ==
    /\ state = "working" /\ renewal # None /\ renewal <= 0
    /\ \/ /\ deadline > 0
          /\ request' = [kind |-> "renew", age |-> 0, answer |-> None]
          /\ renewal' = None
          /\ wait' = IF Interval < deadline THEN Interval ELSE deadline
          /\ UNCHANGED <<state, deadline, store>>
       \/ deadline <= 0 /\ Fail /\ UNCHANGED request

RenewalWaitTimer ==
    /\ state = "working" /\ wait # None /\ wait <= 0
    /\ Fail /\ UNCHANGED request

DeadlineTimer ==
    /\ state = "working" /\ deadline <= 0
    /\ Fail /\ UNCHANGED request

WorkReturns == state = "working" /\ Settle("returned") /\ UNCHANGED request

(***************************************************************************)
(* Time                                                                    *)
(***************************************************************************)

Later(t) == IF t = None THEN None ELSE t - 1

\* No timer is later than MaxLag.
TimersKept == \A t \in {deadline, renewal, wait} : t # None => t > -MaxLag

\* An age beyond every lease tells nothing more, nor does time after the end of
\* the lease that no timer can reach.
MaxAge == TTL + FirstTTL

Tick ==
    /\ TimersKept
    /\ deadline' = Later(deadline) /\ renewal' = Later(renewal) /\ wait' = Later(wait)
    /\ request' = IF request # None /\ request.age < MaxAge
                  THEN [request EXCEPT !.age = @ + 1] ELSE request
    /\ remaining' = IF remaining > -MaxAge THEN remaining - 1 ELSE remaining
    /\ UNCHANGED <<state, held, silent>>

Init ==
    /\ state = "confirming"
    /\ deadline = None /\ renewal = None /\ wait = None
    /\ request = [kind |-> "assertFence", age |-> 0, answer |-> None]
    /\ remaining \in 0 .. FirstTTL
    /\ held = TRUE /\ silent = FALSE

Timers == RenewalTimer \/ RenewalWaitTimer \/ DeadlineTimer

Next ==
    \/ Serve \/ TakenOver \/ FallsSilent
    \/ FenceConfirmed \/ Renewed \/ Timers \/ WorkReturns
    \/ Tick

\* Time passes and due timers fire.  Nothing is promised of the store's answers
\* or of the work.
Fairness == WF_vars(Tick) /\ WF_vars(Timers)

Spec == Init /\ [][Next]_vars /\ Fairness

(***************************************************************************)
(* Properties                                                              *)
(***************************************************************************)

\* Work that has not been aborted is covered by the lease in the store: its
\* deadline lies within the lease however long the answers took, so until then
\* nobody else is granted its resources.
WorkIsCovered ==
    state = "working" => deadline <= remaining /\ (deadline > 0 => held)

\* A settled call is quiet: an answer or a timer that comes after it arms nothing
\* that would renew the lease again or abort anything.
SettledCallIsQuiet ==
    state \in Settled => deadline = None /\ renewal = None /\ wait = None

\* Nothing is supervised for ever under a store that has stopped answering or a
\* lease that somebody else has taken: the call settles, also when the work never
\* returns.
UncoveredWorkEnds == state = "working" /\ (silent \/ ~held) ~> state \in Settled
=============================================================================
