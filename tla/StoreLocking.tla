---------------------------- MODULE StoreLocking ----------------------------
(***************************************************************************)
(* The advisory locks of the attempt store's transactions                  *)
(* (src/attempts/store.mjs over src/attempts/postgres-store.mjs).          *)
(*                                                                         *)
(* AttemptStore takes every operation for one atomic step.  Here is what   *)
(* stands behind that: each operation is a transaction that takes locks    *)
(* one at a time, in the order of the code, keeps them until it commits or *)
(* rolls back, and may refuse between any two of them.  A transaction that *)
(* waits for a lock can do nothing else; Postgres ends a cycle of waiting  *)
(* transactions by rolling one of them back.                               *)
(***************************************************************************)
EXTENDS Naturals, Sequences, FiniteSets, Relation

CONSTANTS
    Txns,      \* transactions in flight
    Ops,       \* the operations they may run
    Attempts,  \* attempt ids
    Admitted,  \* the attempts that have a row at the start
    Key,       \* the fixture key of each attempt
    Project,   \* its Supabase project
    Account,   \* its Stripe account
    None       \* nobody

Operations == {"prepare", "reconcileReservation", "fixtureMutationWithReservation", "renew",
               "transition", "beginStripeIntent", "reconcileStripeIntent", "handoff", "cleanup"}

ASSUME OpsAssumption == Ops \subseteq Operations /\ Admitted \subseteq Attempts

(* A resource lock is named by the type of the resource and its id.         *)
ASSUME ResourceAssumption ==
    /\ {Account[a] : a \in Attempts} \cap {Project[a] : a \in Attempts} = {}
    /\ None \notin Attempts

VARIABLES
    job,       \* the operation and the attempt of each transaction
    admitted,  \* attempts with a row
    owner,     \* the attempt in each row of standalone_resource_locks
    held,      \* the locks each transaction has
    taken,     \* how many locks of its program it has been through
    blocked,   \* whether it waits for the next one
    ended      \* transactions that committed or rolled back

vars == <<job, admitted, owner, held, taken, blocked, ended>>

Resources == {Account[a] : a \in Attempts} \cup {Project[a] : a \in Attempts}

ResourcesOf(a) == {Account[a], Project[a]}

(***************************************************************************)
(* The locks of each operation, in order.  A lock is a tuple of its kind   *)
(* and what it is about; taking a lock one already has is no wait.         *)
(***************************************************************************)

\* lockResourceLocks: the Stripe account sorts before the Supabase project.
ResourceLocks(a) == << <<"resource", Account[a]>>, <<"resource", Project[a]>> >>

\* What every fenced operation takes first.
FencedLocks(a) ==
    << <<"attempt", a>> >> \o ResourceLocks(a) \o << <<"lease", Key[a]>> >>

Retention(a) == <<"retention", Project[a], Account[a]>>

\* What a prior owner, if there is one, adds to an admission: its lease while the
\* lock rows are read, and then its reservation, receipt and row.
PriorLease(p) == IF p = None THEN <<>> ELSE << <<"lease", Key[p]>> >>

PriorRows(p) ==
    IF p = None THEN <<>> ELSE << <<"reservationOf", p>>, <<"receipt", p>>, <<"row", p>> >>

\* The owners a new admission finds in its two lock rows, in that order.
TakeoverLocks(a) ==
    LET onAccount == owner[Account[a]]
        onProject == owner[Project[a]]
    IN  PriorLease(onAccount) \o PriorLease(onProject)
            \o PriorRows(onAccount) \o PriorRows(onProject)

\* Mutant: the Stripe account is locked by nobody.
PrepareLocksProjectOnly(a) ==
    << <<"attempt", a>>, Retention(a), <<"resource", Project[a]>>, <<"lease", Key[a]>> >>
        \o IF a \in admitted
           THEN << <<"reservationOf", a>>, <<"receipt", a>> >>
           ELSE TakeoverLocks(a) \o << <<"row", a>>, <<"reservationOf", a>> >>

PrepareLocks(a) ==
    << <<"attempt", a>>, Retention(a) >> \o ResourceLocks(a) \o << <<"lease", Key[a]>> >>
        \o IF a \in admitted
           THEN << <<"reservationOf", a>>, <<"receipt", a>> >>
           ELSE TakeoverLocks(a) \o << <<"row", a>>, <<"reservationOf", a>> >>

\* Mutant: the reservation is read under its own lock before the attempt's.
ReconcileReservationFirst(a) ==
    << <<"reservation", a>> >> \o FencedLocks(a) \o << Retention(a), <<"receipt", a>> >>

\* getRetentionReservation takes the attempt before the reservation.
ReconcileReservationLocks(a) ==
    << <<"attempt", a>>, <<"reservation", a>> >> \o FencedLocks(a)
        \o << Retention(a), <<"receipt", a>> >>

\* Every writer claims the same case and the same fixture id: the contended case.
FixtureLocks(a) ==
    FencedLocks(a)
        \o << Retention(a), <<"attempt", a>>, <<"reservation", a>>, <<"receipt", a>>,
              <<"caseClaim", a>>, <<"resourceClaim">>, <<"reservationClaim", a>> >>

\* renew takes what assertFence, fixtureMutation and the reads of intents take,
\* and transition what resumeRecheck takes.
LockProgram(op, a) ==
    CASE op = "prepare" -> PrepareLocks(a)
      [] op = "reconcileReservation" -> ReconcileReservationLocks(a)
      [] op = "fixtureMutationWithReservation" -> FixtureLocks(a)
      [] op = "renew" -> FencedLocks(a)
      [] op = "transition" -> FencedLocks(a) \o << <<"row", a>> >>
      [] op = "beginStripeIntent" ->
            FencedLocks(a) \o << <<"intentOperation", a>>, <<"intentAttempt", a>>,
                                 <<"idempotency", Account[a]>> >>
      [] op = "reconcileStripeIntent" ->
            FencedLocks(a) \o << <<"intent", a>>, <<"stripeReceipt", a>> >>
      [] op = "handoff" ->
            FencedLocks(a) \o << <<"intentAttempt", a>>, <<"cleanupReceipt", a>>,
                                 <<"reservationOf", a>>, <<"receipt", a>>, <<"row", a>> >>
      [] op = "cleanup" ->
            FencedLocks(a) \o << <<"reservationOf", a>>, <<"cleanupReceipt", a>>, <<"row", a>> >>

Program(t) == LockProgram(job[t].op, job[t].attempt)

(***************************************************************************)
(* Waiting                                                                 *)
(***************************************************************************)

Active(t) == t \notin ended

\* The lock the transaction asks for next.
Wanted(t) == Program(t)[taken[t] + 1]

AllTaken(t) == taken[t] = Len(Program(t))

HeldByOther(t, l) == \E u \in Txns \ {t} : l \in held[u]

\* Who waits for whom.
WaitsFor ==
    [p \in Txns \X Txns |->
        /\ blocked[p[1]] /\ p[1] # p[2]
        /\ Wanted(p[1]) \in held[p[2]]]

Deadlocked(t) == TransitiveClosure(WaitsFor, Txns)[t, t]

(***************************************************************************)
(* Steps                                                                   *)
(***************************************************************************)

Take(t) ==
    /\ Active(t) /\ ~AllTaken(t)
    /\ ~HeldByOther(t, Wanted(t))
    /\ held' = [held EXCEPT ![t] = @ \cup {Wanted(t)}]
    /\ taken' = [taken EXCEPT ![t] = @ + 1]
    /\ blocked' = [blocked EXCEPT ![t] = FALSE]
    /\ UNCHANGED <<job, admitted, owner, ended>>

Block(t) ==
    /\ Active(t) /\ ~AllTaken(t) /\ ~blocked[t]
    /\ HeldByOther(t, Wanted(t))
    /\ blocked' = [blocked EXCEPT ![t] = TRUE]
    /\ UNCHANGED <<job, admitted, owner, held, taken, ended>>

\* The transaction ends and its locks are released.
Release(t) ==
    /\ held' = [held EXCEPT ![t] = {}]
    /\ taken' = [taken EXCEPT ![t] = 0]
    /\ blocked' = [blocked EXCEPT ![t] = FALSE]
    /\ ended' = ended \cup {t}
    /\ UNCHANGED job

\* A check fails between two locks.
Refuse(t) ==
    /\ Active(t) /\ ~blocked[t]
    /\ Release(t)
    /\ UNCHANGED <<admitted, owner>>

\* Postgres picks a victim.
DeadlockVictim(t) ==
    /\ blocked[t] /\ Deadlocked(t)
    /\ Release(t)
    /\ UNCHANGED <<admitted, owner>>

OwnsResources(a) == \A r \in ResourcesOf(a) : owner[r] = a

OwnedBy(a, who) == [r \in Resources |-> IF r \in ResourcesOf(a) THEN who ELSE owner[r]]

\* prepare of a new attempt writes its row and both lock rows.
CommitAdmission(t) ==
    LET a == job[t].attempt IN
    /\ Active(t) /\ AllTaken(t)
    /\ job[t].op = "prepare" /\ a \notin admitted
    /\ admitted' = admitted \cup {a}
    /\ owner' = OwnedBy(a, a)
    /\ Release(t)

CommitCleanup(t) ==
    LET a == job[t].attempt IN
    /\ Active(t) /\ AllTaken(t)
    /\ job[t].op = "cleanup" /\ OwnsResources(a)
    /\ owner' = OwnedBy(a, None)
    /\ Release(t)
    /\ UNCHANGED admitted

\* Every other commit, a replayed prepare included, leaves the owners as they are.
CommitInPlace(t) ==
    /\ Active(t) /\ AllTaken(t)
    /\ job[t].op # "cleanup"
    /\ job[t].op = "prepare" => job[t].attempt \in admitted
    /\ Release(t)
    /\ UNCHANGED <<admitted, owner>>

\* Locks are owned by admitted attempts that need them.
PossibleOwners(r) == {a \in Admitted : r \in ResourcesOf(a)} \cup {None}

Init ==
    /\ job \in [Txns -> [op : Ops, attempt : Attempts]]
    /\ \A t \in Txns : job[t].op = "prepare" \/ job[t].attempt \in Admitted
    /\ admitted = Admitted
    /\ owner \in [Resources -> Admitted \cup {None}]
    /\ \A r \in Resources : owner[r] \in PossibleOwners(r)
    /\ held = [t \in Txns |-> {}]
    /\ taken = [t \in Txns |-> 0]
    /\ blocked = [t \in Txns |-> FALSE]
    /\ ended = {}

Next ==
    \E t \in Txns :
        \/ Take(t) \/ Block(t) \/ Refuse(t) \/ DeadlockVictim(t)
        \/ CommitAdmission(t) \/ CommitCleanup(t) \/ CommitInPlace(t)

Spec == Init /\ [][Next]_vars

(***************************************************************************)
(* Properties                                                              *)
(***************************************************************************)

NotPreparing == {t \in Txns : job[t].op # "prepare"}

\* Each transaction of the set waits for another one of it.
Circle(C) == C # {} /\ \A t \in C : \E u \in C : WaitsFor[<<t, u>>]

\* The order of the locks is sound for every operation but admission: a circle of
\* waiting transactions always has a prepare in it.  The others, fixture writes
\* and the settlement of reservations among them, never wait for each other in a
\* circle.
EveryDeadlockHasPrepare == \A C \in SUBSET NotPreparing : ~Circle(C)

\* Everything a fenced operation decides on it reads while it has both.
HoldsResources(t) == \A r \in ResourcesOf(job[t].attempt) : <<"resource", r>> \in held[t]

\* A takeover rewrites the row of a prior owner without that attempt's lock.  It
\* is safe: while it does, no transaction of the prior owner has both of its
\* resource locks, so none acts on a row it read before the takeover.
TakeoverExcludesPriorOwner ==
    \A t, u \in Txns :
        /\ job[t].op = "prepare" /\ <<"row", job[u].attempt>> \in held[t]
        /\ job[u].attempt # job[t].attempt
        => ~HoldsResources(u)
=============================================================================
