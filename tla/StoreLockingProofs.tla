------------------------- MODULE StoreLockingProofs -------------------------
(***************************************************************************)
(* For any number of transactions, attempts, projects and accounts: a      *)
(* takeover and a transaction of the attempt it displaces exclude each     *)
(* other, every circle of waiting transactions has a prepare in it, and    *)
(* what a transaction reads of owners and rows stays so until it ends.     *)
(***************************************************************************)
EXTENDS StoreLocking, WellFoundedInduction, TLAPS

(***************************************************************************)
(* The order of the locks                                                  *)
(*                                                                         *)
(* Of the locks of an operation other than prepare some are about its own  *)
(* attempt only: whoever has one of them has the lock of the attempt.  The *)
(* others are taken in the order of their levels, each level once.         *)
(***************************************************************************)

PrivateKinds ==
    {"reservation", "receipt", "caseClaim", "reservationClaim", "row", "intentOperation",
     "intentAttempt", "intent", "stripeReceipt", "cleanupReceipt", "reservationOf"}

SharedKinds == {"resource", "lease", "retention", "resourceClaim", "idempotency"}

IsPrivate(l, a) == l[1] \in PrivateKinds /\ l[2] = a

IsShared(l) == l[1] \in SharedKinds

Accounts == {Account[a] : a \in Attempts}

Level(l) ==
    IF l[1] = "resource" THEN (IF l[2] \in Accounts THEN 1 ELSE 2)
    ELSE IF l[1] = "lease" THEN 3
    ELSE IF l[1] = "retention" THEN 4
    ELSE 5

\* A program in order: the attempt first, then its levels upwards.
Ordered(P, a) ==
    /\ Len(P) \in Nat /\ Len(P) > 0
    /\ P[1] = <<"attempt", a>>
    /\ \A i \in 1 .. Len(P) : P[i] = <<"attempt", a>> \/ IsPrivate(P[i], a) \/ IsShared(P[i])
    /\ \A i, j \in 1 .. Len(P) :
          i < j /\ IsShared(P[i]) /\ IsShared(P[j]) => Level(P[i]) < Level(P[j])

\* The four locks every fenced operation starts with.
LEMMA FencedShape ==
    ASSUME NEW a \in Attempts
    PROVE  /\ Len(FencedLocks(a)) = 4
           /\ FencedLocks(a)[1] = <<"attempt", a>>
           /\ FencedLocks(a)[2] = <<"resource", Account[a]>>
           /\ FencedLocks(a)[3] = <<"resource", Project[a]>>
           /\ FencedLocks(a)[4] = <<"lease", Key[a]>>
BY DEF FencedLocks, ResourceLocks

\* Accounts sort before projects.
LEMMA ResourceLevels ==
    ASSUME NEW a \in Attempts
    PROVE  /\ Level(<<"resource", Account[a]>>) = 1
           /\ Level(<<"resource", Project[a]>>) = 2
           /\ Level(<<"lease", Key[a]>>) = 3
           /\ Level(Retention(a)) = 4
           /\ Level(<<"resourceClaim">>) = 5
           /\ Level(<<"idempotency", Account[a]>>) = 5
BY ResourceAssumption DEF Level, Accounts, Retention

LEMMA FixtureOrdered == ASSUME NEW a \in Attempts PROVE Ordered(FixtureLocks(a), a)
<1> DEFINE P == FixtureLocks(a)
<1>1. /\ Len(P) = 11
      /\ P[1] = <<"attempt", a>>
      /\ P[2] = <<"resource", Account[a]>>
      /\ P[3] = <<"resource", Project[a]>>
      /\ P[4] = <<"lease", Key[a]>>
      /\ P[5] = Retention(a)
      /\ P[6] = <<"attempt", a>>
      /\ P[7] = <<"reservation", a>>
      /\ P[8] = <<"receipt", a>>
      /\ P[9] = <<"caseClaim", a>>
      /\ P[10] = <<"resourceClaim">>
      /\ P[11] = <<"reservationClaim", a>>
  BY DEF FixtureLocks, FencedLocks, ResourceLocks
<1> HIDE DEF P
<1>2. \A i \in 1 .. 11 : i = 1 \/ i = 2 \/ i = 3 \/ i = 4 \/ i = 5 \/ i = 6 \/ i = 7 \/ i = 8
                            \/ i = 9 \/ i = 10 \/ i = 11
  OBVIOUS
<1>3. \A i \in 1 .. 11 : P[i] = <<"attempt", a>> \/ IsPrivate(P[i], a) \/ IsShared(P[i])
  BY <1>1, <1>2 DEF IsPrivate, IsShared, PrivateKinds, SharedKinds, Retention
<1>4. \A i \in 1 .. 11 : IsShared(P[i]) =>
          \/ i = 2 /\ Level(P[i]) = 1
          \/ i = 3 /\ Level(P[i]) = 2
          \/ i = 4 /\ Level(P[i]) = 3
          \/ i = 5 /\ Level(P[i]) = 4
          \/ i = 10 /\ Level(P[i]) = 5
  <2>1. /\ Level(P[2]) = 1 /\ Level(P[3]) = 2 /\ Level(P[4]) = 3 /\ Level(P[5]) = 4
        /\ Level(P[10]) = 5
    BY <1>1, ResourceLevels
  <2>2. \A i \in {1, 6, 7, 8, 9, 11} : ~IsShared(P[i])
    BY <1>1 DEF IsShared, SharedKinds
  <2> QED
    BY <1>2, <2>1, <2>2
<1>5. \A i, j \in 1 .. 11 :
          i < j /\ IsShared(P[i]) /\ IsShared(P[j]) => Level(P[i]) < Level(P[j])
  BY <1>4
<1> QED
  BY <1>1, <1>3, <1>5 DEF Ordered, P

LEMMA ReconcileOrdered == ASSUME NEW a \in Attempts PROVE Ordered(ReconcileReservationLocks(a), a)
<1> DEFINE P == ReconcileReservationLocks(a)
<1>1. /\ Len(P) = 8
      /\ P[1] = <<"attempt", a>>
      /\ P[2] = <<"reservation", a>>
      /\ P[3] = <<"attempt", a>>
      /\ P[4] = <<"resource", Account[a]>>
      /\ P[5] = <<"resource", Project[a]>>
      /\ P[6] = <<"lease", Key[a]>>
      /\ P[7] = Retention(a)
      /\ P[8] = <<"receipt", a>>
  BY DEF ReconcileReservationLocks, FencedLocks, ResourceLocks
<1> HIDE DEF P
<1>2. \A i \in 1 .. 8 : i = 1 \/ i = 2 \/ i = 3 \/ i = 4 \/ i = 5 \/ i = 6 \/ i = 7 \/ i = 8
  OBVIOUS
<1>3. \A i \in 1 .. 8 : P[i] = <<"attempt", a>> \/ IsPrivate(P[i], a) \/ IsShared(P[i])
  BY <1>1, <1>2 DEF IsPrivate, IsShared, PrivateKinds, SharedKinds, Retention
<1>4. \A i \in 1 .. 8 : IsShared(P[i]) =>
          \/ i = 4 /\ Level(P[i]) = 1
          \/ i = 5 /\ Level(P[i]) = 2
          \/ i = 6 /\ Level(P[i]) = 3
          \/ i = 7 /\ Level(P[i]) = 4
  <2>1. Level(P[4]) = 1 /\ Level(P[5]) = 2 /\ Level(P[6]) = 3 /\ Level(P[7]) = 4
    BY <1>1, ResourceLevels
  <2>2. \A i \in {1, 2, 3, 8} : ~IsShared(P[i])
    BY <1>1 DEF IsShared, SharedKinds
  <2> QED
    BY <1>2, <2>1, <2>2
<1>5. \A i, j \in 1 .. 8 :
          i < j /\ IsShared(P[i]) /\ IsShared(P[j]) => Level(P[i]) < Level(P[j])
  BY <1>4
<1> QED
  BY <1>1, <1>3, <1>5 DEF Ordered, P

\* The other operations go on with private locks, and one ends with another.
LEMMA FencedThenOrdered ==
    ASSUME NEW a \in Attempts, NEW T, Len(T) \in Nat, Len(FencedLocks(a) \o T) = 4 + Len(T),
           \A i \in 1 .. 4 : (FencedLocks(a) \o T)[i] = FencedLocks(a)[i],
           \A i \in 1 .. Len(T) : (FencedLocks(a) \o T)[4 + i] = T[i],
           \A i \in 1 .. Len(T) :
               IsPrivate(T[i], a) \/ (i = Len(T) /\ T[i] = <<"idempotency", Account[a]>>)
    PROVE  Ordered(FencedLocks(a) \o T, a)
<1> DEFINE P == FencedLocks(a) \o T
<1>1. /\ Len(P) = 4 + Len(T)
      /\ P[1] = <<"attempt", a>>
      /\ P[2] = <<"resource", Account[a]>>
      /\ P[3] = <<"resource", Project[a]>>
      /\ P[4] = <<"lease", Key[a]>>
      /\ \A i \in 5 .. 4 + Len(T) :
            IsPrivate(P[i], a) \/ (i = 4 + Len(T) /\ P[i] = <<"idempotency", Account[a]>>)
  <2> HIDE DEF P
  <2>1. \A i \in 5 .. 4 + Len(T) : i - 4 \in 1 .. Len(T) /\ i = 4 + (i - 4)
    OBVIOUS
  <2>2. \A i \in 5 .. 4 + Len(T) : P[i] = T[i - 4]
    BY <2>1 DEF P
  <2>3. \A i \in 5 .. 4 + Len(T) :
          IsPrivate(P[i], a) \/ (i = 4 + Len(T) /\ P[i] = <<"idempotency", Account[a]>>)
    BY <2>1, <2>2
  <2>4. 1 \in 1 .. 4 /\ 2 \in 1 .. 4 /\ 3 \in 1 .. 4 /\ 4 \in 1 .. 4
    OBVIOUS
  <2> QED
    BY <2>3, <2>4, FencedShape DEF P
<1> HIDE DEF P
<1>2. \A i \in 1 .. 4 + Len(T) : i = 1 \/ i = 2 \/ i = 3 \/ i = 4 \/ i \in 5 .. 4 + Len(T)
  OBVIOUS
<1>3. \A i \in 5 .. 4 + Len(T) : IsShared(P[i]) => i = 4 + Len(T) /\ Level(P[i]) = 5
  <2> SUFFICES ASSUME NEW i \in 5 .. 4 + Len(T), IsShared(P[i])
               PROVE  i = 4 + Len(T) /\ Level(P[i]) = 5
    OBVIOUS
  <2>1. ~IsPrivate(P[i], a)
    BY DEF IsShared, IsPrivate, SharedKinds, PrivateKinds
  <2> QED
    BY <1>1, <2>1, ResourceLevels
<1>4. \A i \in 1 .. Len(P) : P[i] = <<"attempt", a>> \/ IsPrivate(P[i], a) \/ IsShared(P[i])
  <2>1. IsShared(P[2]) /\ IsShared(P[3]) /\ IsShared(P[4])
    BY <1>1 DEF IsShared, SharedKinds
  <2>2. IsShared(<<"idempotency", Account[a]>>)
    BY DEF IsShared, SharedKinds
  <2> QED
    BY <1>1, <1>2, <2>1, <2>2
<1>5. ASSUME NEW i \in 1 .. 4 + Len(T), IsShared(P[i])
      PROVE  \/ i = 2 /\ Level(P[i]) = 1
             \/ i = 3 /\ Level(P[i]) = 2
             \/ i = 4 /\ Level(P[i]) = 3
             \/ i = 4 + Len(T) /\ i > 4 /\ Level(P[i]) = 5
  <2>1. Level(P[2]) = 1 /\ Level(P[3]) = 2 /\ Level(P[4]) = 3
    BY <1>1, ResourceLevels
  <2>2. ~IsShared(P[1])
    BY <1>1 DEF IsShared, SharedKinds
  <2>3. CASE i \in 5 .. 4 + Len(T)
    BY <1>3, <1>5, <2>3
  <2>4. CASE i = 1 \/ i = 2 \/ i = 3 \/ i = 4
    BY <1>5, <2>1, <2>2, <2>4
  <2> QED
    BY <1>2, <2>3, <2>4
<1>6. \A i, j \in 1 .. 4 + Len(T) :
          i < j /\ IsShared(P[i]) /\ IsShared(P[j]) => Level(P[i]) < Level(P[j])
  BY <1>5
<1>7. Len(P) \in Nat /\ Len(P) > 0
  BY <1>1
<1> QED
  BY <1>1, <1>4, <1>6, <1>7 DEF Ordered, P

\* Every operation but prepare takes its locks in order.
LEMMA ProgramsOrdered ==
    ASSUME NEW a \in Attempts, NEW op \in Operations, op # "prepare"
    PROVE  Ordered(LockProgram(op, a), a)
<1> USE DEF IsPrivate, PrivateKinds
<1>1. CASE op = "reconcileReservation"
  BY <1>1, ReconcileOrdered DEF LockProgram
<1>2. CASE op = "fixtureMutationWithReservation"
  BY <1>2, FixtureOrdered DEF LockProgram
<1>3. CASE op = "renew"
  <2> DEFINE P == FencedLocks(a)
  <2>1. \A i \in 1 .. 4 : i = 1 \/ i = 2 \/ i = 3 \/ i = 4
    OBVIOUS
  <2>2. /\ Len(P) = 4 /\ P[1] = <<"attempt", a>>
        /\ IsShared(P[2]) /\ IsShared(P[3]) /\ IsShared(P[4]) /\ ~IsShared(P[1])
    BY FencedShape DEF IsShared, SharedKinds
  <2>3. Level(P[2]) = 1 /\ Level(P[3]) = 2 /\ Level(P[4]) = 3
    BY FencedShape, ResourceLevels
  <2> HIDE DEF P
  <2>4. \A i, j \in 1 .. 4 :
            i < j /\ IsShared(P[i]) /\ IsShared(P[j]) => Level(P[i]) < Level(P[j])
    BY <2>1, <2>2, <2>3
  <2>5. Ordered(P, a)
    BY <2>1, <2>2, <2>4 DEF Ordered
  <2> QED
    BY <1>3, <2>5 DEF LockProgram, P
<1>4. CASE op = "transition"
  <2> DEFINE T == << <<"row", a>> >>
             P == FencedLocks(a) \o T
  <2>1. /\ Len(T) = 1 /\ Len(P) = 5
        /\ P[1] = FencedLocks(a)[1] /\ P[2] = FencedLocks(a)[2]
        /\ P[3] = FencedLocks(a)[3] /\ P[4] = FencedLocks(a)[4]
        /\ P[5] = T[1]
    BY DEF FencedLocks, ResourceLocks
  <2>2. T[1] = <<"row", a>>
    OBVIOUS
  <2> HIDE DEF T
  <2>3. /\ \A i \in 1 .. 4 : i = 1 \/ i = 2 \/ i = 3 \/ i = 4
        /\ \A i \in 1 .. 1 : i = 1
    OBVIOUS
  <2>4. /\ Len(T) \in Nat /\ Len(P) = 4 + Len(T)
        /\ \A i \in 1 .. 4 : P[i] = FencedLocks(a)[i]
        /\ \A i \in 1 .. Len(T) : P[4 + i] = T[i]
    BY <2>1, <2>3
  <2>5. \A i \in 1 .. Len(T) :
            IsPrivate(T[i], a) \/ (i = Len(T) /\ T[i] = <<"idempotency", Account[a]>>)
    BY <2>1, <2>2, <2>3
  <2> HIDE DEF IsPrivate
  <2>6. Ordered(P, a)
    BY <2>4, <2>5, FencedThenOrdered, Zenon
  <2> QED
    BY <1>4, <2>6 DEF LockProgram, T
<1>5. CASE op = "beginStripeIntent"
  <2> DEFINE T == << <<"intentOperation", a>>, <<"intentAttempt", a>>, <<"idempotency", Account[a]>> >>
             P == FencedLocks(a) \o T
  <2>1. /\ Len(T) = 3 /\ Len(P) = 7
        /\ P[1] = FencedLocks(a)[1] /\ P[2] = FencedLocks(a)[2]
        /\ P[3] = FencedLocks(a)[3] /\ P[4] = FencedLocks(a)[4]
        /\ P[5] = T[1] /\ P[6] = T[2] /\ P[7] = T[3]
    BY DEF FencedLocks, ResourceLocks
  <2>2. /\ T[1] = <<"intentOperation", a>>
        /\ T[2] = <<"intentAttempt", a>>
        /\ T[3] = <<"idempotency", Account[a]>>
    OBVIOUS
  <2> HIDE DEF T
  <2>3. /\ \A i \in 1 .. 4 : i = 1 \/ i = 2 \/ i = 3 \/ i = 4
        /\ \A i \in 1 .. 3 : i = 1 \/ i = 2 \/ i = 3
    OBVIOUS
  <2>4. /\ Len(T) \in Nat /\ Len(P) = 4 + Len(T)
        /\ \A i \in 1 .. 4 : P[i] = FencedLocks(a)[i]
        /\ \A i \in 1 .. Len(T) : P[4 + i] = T[i]
    BY <2>1, <2>3
  <2>5. \A i \in 1 .. Len(T) :
            IsPrivate(T[i], a) \/ (i = Len(T) /\ T[i] = <<"idempotency", Account[a]>>)
    BY <2>1, <2>2, <2>3
  <2> HIDE DEF IsPrivate
  <2>6. Ordered(P, a)
    BY <2>4, <2>5, FencedThenOrdered, Zenon
  <2> QED
    BY <1>5, <2>6 DEF LockProgram, T
<1>6. CASE op = "reconcileStripeIntent"
  <2> DEFINE T == << <<"intent", a>>, <<"stripeReceipt", a>> >>
             P == FencedLocks(a) \o T
  <2>1. /\ Len(T) = 2 /\ Len(P) = 6
        /\ P[1] = FencedLocks(a)[1] /\ P[2] = FencedLocks(a)[2]
        /\ P[3] = FencedLocks(a)[3] /\ P[4] = FencedLocks(a)[4]
        /\ P[5] = T[1] /\ P[6] = T[2]
    BY DEF FencedLocks, ResourceLocks
  <2>2. /\ T[1] = <<"intent", a>>
        /\ T[2] = <<"stripeReceipt", a>>
    OBVIOUS
  <2> HIDE DEF T
  <2>3. /\ \A i \in 1 .. 4 : i = 1 \/ i = 2 \/ i = 3 \/ i = 4
        /\ \A i \in 1 .. 2 : i = 1 \/ i = 2
    OBVIOUS
  <2>4. /\ Len(T) \in Nat /\ Len(P) = 4 + Len(T)
        /\ \A i \in 1 .. 4 : P[i] = FencedLocks(a)[i]
        /\ \A i \in 1 .. Len(T) : P[4 + i] = T[i]
    BY <2>1, <2>3
  <2>5. \A i \in 1 .. Len(T) :
            IsPrivate(T[i], a) \/ (i = Len(T) /\ T[i] = <<"idempotency", Account[a]>>)
    BY <2>1, <2>2, <2>3
  <2> HIDE DEF IsPrivate
  <2>6. Ordered(P, a)
    BY <2>4, <2>5, FencedThenOrdered, Zenon
  <2> QED
    BY <1>6, <2>6 DEF LockProgram, T
<1>7. CASE op = "handoff"
  <2> DEFINE T == << <<"intentAttempt", a>>, <<"cleanupReceipt", a>>, <<"reservationOf", a>>,
                   <<"receipt", a>>, <<"row", a>> >>
             P == FencedLocks(a) \o T
  <2>1. /\ Len(T) = 5 /\ Len(P) = 9
        /\ P[1] = FencedLocks(a)[1] /\ P[2] = FencedLocks(a)[2]
        /\ P[3] = FencedLocks(a)[3] /\ P[4] = FencedLocks(a)[4]
        /\ P[5] = T[1] /\ P[6] = T[2] /\ P[7] = T[3] /\ P[8] = T[4] /\ P[9] = T[5]
    BY DEF FencedLocks, ResourceLocks
  <2>2. /\ T[1] = <<"intentAttempt", a>>
        /\ T[2] = <<"cleanupReceipt", a>>
        /\ T[3] = <<"reservationOf", a>>
        /\ T[4] = <<"receipt", a>>
        /\ T[5] = <<"row", a>>
    OBVIOUS
  <2> HIDE DEF T
  <2>3. /\ \A i \in 1 .. 4 : i = 1 \/ i = 2 \/ i = 3 \/ i = 4
        /\ \A i \in 1 .. 5 : i = 1 \/ i = 2 \/ i = 3 \/ i = 4 \/ i = 5
    OBVIOUS
  <2>4. /\ Len(T) \in Nat /\ Len(P) = 4 + Len(T)
        /\ \A i \in 1 .. 4 : P[i] = FencedLocks(a)[i]
        /\ \A i \in 1 .. Len(T) : P[4 + i] = T[i]
    <3>1. P[4 + 1] = T[1] /\ P[4 + 2] = T[2] /\ P[4 + 3] = T[3] /\ P[4 + 4] = T[4] /\ P[4 + 5] = T[5]
      BY <2>1
    <3> HIDE DEF P
    <3>2. Len(T) \in Nat /\ Len(P) = 4 + Len(T)
      BY <2>1
    <3>3. \A i \in 1 .. 4 : P[i] = FencedLocks(a)[i]
      BY <2>1, <2>3
    <3>4. \A i \in 1 .. Len(T) : P[4 + i] = T[i]
      BY <2>1, <2>3, <3>1
    <3> QED
      BY <3>2, <3>3, <3>4
  <2>5. \A i \in 1 .. Len(T) :
            IsPrivate(T[i], a) \/ (i = Len(T) /\ T[i] = <<"idempotency", Account[a]>>)
    BY <2>1, <2>2, <2>3
  <2> HIDE DEF IsPrivate
  <2>6. Ordered(P, a)
    BY <2>4, <2>5, FencedThenOrdered, Zenon
  <2> QED
    BY <1>7, <2>6 DEF LockProgram, T
<1>8. CASE op = "cleanup"
  <2> DEFINE T == << <<"reservationOf", a>>, <<"cleanupReceipt", a>>, <<"row", a>> >>
             P == FencedLocks(a) \o T
  <2>1. /\ Len(T) = 3 /\ Len(P) = 7
        /\ P[1] = FencedLocks(a)[1] /\ P[2] = FencedLocks(a)[2]
        /\ P[3] = FencedLocks(a)[3] /\ P[4] = FencedLocks(a)[4]
        /\ P[5] = T[1] /\ P[6] = T[2] /\ P[7] = T[3]
    BY DEF FencedLocks, ResourceLocks
  <2>2. /\ T[1] = <<"reservationOf", a>>
        /\ T[2] = <<"cleanupReceipt", a>>
        /\ T[3] = <<"row", a>>
    OBVIOUS
  <2> HIDE DEF T
  <2>3. /\ \A i \in 1 .. 4 : i = 1 \/ i = 2 \/ i = 3 \/ i = 4
        /\ \A i \in 1 .. 3 : i = 1 \/ i = 2 \/ i = 3
    OBVIOUS
  <2>4. /\ Len(T) \in Nat /\ Len(P) = 4 + Len(T)
        /\ \A i \in 1 .. 4 : P[i] = FencedLocks(a)[i]
        /\ \A i \in 1 .. Len(T) : P[4 + i] = T[i]
    BY <2>1, <2>3
  <2>5. \A i \in 1 .. Len(T) :
            IsPrivate(T[i], a) \/ (i = Len(T) /\ T[i] = <<"idempotency", Account[a]>>)
    BY <2>1, <2>2, <2>3
  <2> HIDE DEF IsPrivate
  <2>6. Ordered(P, a)
    BY <2>4, <2>5, FencedThenOrdered, Zenon
  <2> QED
    BY <1>8, <2>6 DEF LockProgram, T
<1> QED
  BY <1>1, <1>2, <1>3, <1>4, <1>5, <1>6, <1>7, <1>8 DEF Operations

(***************************************************************************)
(* What transactions hold                                                  *)
(***************************************************************************)

\* A transaction has the locks of its program up to where it is, no lock is held
\* twice, and one that waits has a lock left to take.
Queued ==
    /\ job \in [Txns -> [op : Ops, attempt : Attempts]]
    /\ held = [t \in Txns |-> held[t]]
    /\ taken \in [Txns -> Nat]
    /\ blocked \in [Txns -> BOOLEAN]
    /\ \A t, u \in Txns : t # u => held[t] \cap held[u] = {}
    /\ \A t \in NotPreparing :
          /\ taken[t] <= Len(Program(t))
          /\ held[t] = {Program(t)[i] : i \in 1 .. taken[t]}
          /\ blocked[t] => taken[t] < Len(Program(t))

\* The program of an operation other than prepare depends on nothing that changes.
LEMMA LockProgramFixed ==
    ASSUME NEW CONSTANT op \in Operations, op # "prepare", NEW CONSTANT a
    PROVE  LockProgram(op, a)' = LockProgram(op, a)
<1> USE DEF LockProgram, FencedLocks, ResourceLocks, Retention
<1>1. CASE op = "reconcileReservation"
  BY <1>1 DEF ReconcileReservationLocks
<1>2. CASE op = "fixtureMutationWithReservation"
  BY <1>2 DEF FixtureLocks
<1>3. CASE op = "renew"
  BY <1>3
<1>4. CASE op = "transition"
  BY <1>4
<1>5. CASE op = "beginStripeIntent"
  BY <1>5
<1>6. CASE op = "reconcileStripeIntent"
  BY <1>6
<1>7. CASE op = "handoff"
  BY <1>7
<1>8. CASE op = "cleanup"
  BY <1>8
<1> QED
  BY <1>1, <1>2, <1>3, <1>4, <1>5, <1>6, <1>7, <1>8 DEF Operations

LEMMA ProgramFixed ==
    ASSUME Queued, job' = job, NEW t \in NotPreparing
    PROVE  /\ t \in Txns /\ job[t].attempt \in Attempts
           /\ Program(t)' = Program(t)
           /\ Ordered(Program(t), job[t].attempt)
<1>1. /\ t \in Txns /\ job[t].op \in Operations /\ job[t].op # "prepare"
      /\ job[t].attempt \in Attempts
  BY OpsAssumption DEF Queued, NotPreparing
<1> PICK op, a : op = job[t].op /\ a = job[t].attempt
  OBVIOUS
<1>2. Program(t) = LockProgram(op, a) /\ Program(t)' = LockProgram(op, a)'
  BY DEF Program
<1>3. Ordered(LockProgram(op, a), a)
  BY <1>1, ProgramsOrdered
<1>4. LockProgram(op, a)' = LockProgram(op, a)
  BY <1>1, LockProgramFixed
<1> QED
  BY <1>1, <1>2, <1>3, <1>4

LEMMA QueuedInit == Init => Queued
<1> SUFFICES ASSUME Init PROVE Queued
  OBVIOUS
<1>1. \A t \in NotPreparing : t \in Txns /\ Ordered(Program(t), job[t].attempt)
  <2> TAKE t \in NotPreparing
  <2>1. /\ t \in Txns /\ job[t].op \in Operations /\ job[t].op # "prepare"
        /\ job[t].attempt \in Attempts
    BY OpsAssumption DEF Init, NotPreparing
  <2> QED
    BY <2>1, ProgramsOrdered DEF Program
<1>2. \A t \in NotPreparing : Len(Program(t)) \in Nat /\ 0 <= Len(Program(t))
  BY <1>1 DEF Ordered
<1>3. \A t \in NotPreparing : held[t] = {} /\ {Program(t)[i] : i \in 1 .. 0} = {}
  BY <1>1 DEF Init
<1> QED
  BY <1>1, <1>2, <1>3 DEF Init, Queued

\* Taking the next lock extends what a transaction holds by one position.
LEMMA QueuedTake ==
    ASSUME Queued, NEW t \in Txns, Take(t)
    PROVE  Queued'
<1> PICK l : l = Wanted(t)
  OBVIOUS
<1>1. /\ job' = job /\ blocked' = [blocked EXCEPT ![t] = FALSE]
      /\ held' = [held EXCEPT ![t] = held[t] \cup {l}]
      /\ taken' = [taken EXCEPT ![t] = taken[t] + 1]
      /\ ~HeldByOther(t, l) /\ taken[t] # Len(Program(t))
  BY DEF Take, AllTaken
<1>2. /\ held'[t] = held[t] \cup {l} /\ taken'[t] = taken[t] + 1 /\ blocked'[t] = FALSE
      /\ \A u \in Txns : u # t =>
            held'[u] = held[u] /\ taken'[u] = taken[u] /\ blocked'[u] = blocked[u]
      /\ held' = [u \in Txns |-> held'[u]]
      /\ taken' \in [Txns -> Nat] /\ blocked' \in [Txns -> BOOLEAN]
  <2>1. held = [u \in Txns |-> held[u]] /\ taken \in [Txns -> Nat] /\ blocked \in [Txns -> BOOLEAN]
    BY DEF Queued
  <2>2. /\ held'[t] = held[t] \cup {l} /\ \A u \in Txns : u # t => held'[u] = held[u]
        /\ held' = [u \in Txns |-> held'[u]]
    <3>1. held' = [held EXCEPT ![t] = held[t] \cup {l}]
      BY <1>1
    <3> QED
      BY <2>1, <3>1
  <2>3. /\ taken'[t] = taken[t] + 1 /\ \A u \in Txns : u # t => taken'[u] = taken[u]
        /\ taken' \in [Txns -> Nat]
    <3>1. taken' = [taken EXCEPT ![t] = taken[t] + 1] /\ taken[t] + 1 \in Nat
      BY <1>1, <2>1
    <3> QED
      BY <2>1, <3>1
  <2>4. /\ blocked'[t] = FALSE /\ \A u \in Txns : u # t => blocked'[u] = blocked[u]
        /\ blocked' \in [Txns -> BOOLEAN]
    BY <1>1, <2>1
  <2> QED
    BY <2>2, <2>3, <2>4
<1>3. \A u, v \in Txns : u # v => held'[u] \cap held'[v] = {}
  <2>1. \A u \in Txns : u # t => l \notin held[u]
    BY <1>1 DEF HeldByOther
  <2> QED
    BY <1>2, <2>1 DEF Queued
<1>4. ASSUME NEW u \in NotPreparing'
      PROVE  /\ taken'[u] <= Len(Program(u)')
             /\ held'[u] = {Program(u)'[i] : i \in 1 .. taken'[u]}
             /\ blocked'[u] => taken'[u] < Len(Program(u)')
  <2>1. u \in NotPreparing /\ u \in Txns
    BY <1>1 DEF NotPreparing
  <2> DEFINE P == Program(u)
  <2>2. Program(u)' = P /\ Len(P) \in Nat
    BY <1>1, <2>1, ProgramFixed DEF Ordered
  <2>3. /\ taken[u] \in Nat /\ taken[u] <= Len(P) /\ held[u] = {P[i] : i \in 1 .. taken[u]}
        /\ blocked[u] => taken[u] < Len(P)
    BY <2>1 DEF Queued
  <2>0. P = Program(u)
    OBVIOUS
  <2> HIDE DEF P
  <2>4. CASE u # t
    BY <1>2, <2>1, <2>2, <2>3, <2>4
  <2>5. CASE u = t
    <3>1. taken[u] < Len(P) /\ l = P[taken[u] + 1]
      BY <1>1, <2>0, <2>2, <2>3, <2>5 DEF Wanted
    <3>2. 1 .. taken[u] + 1 = (1 .. taken[u]) \cup {taken[u] + 1}
      BY <2>3
    <3>3. {P[i] : i \in 1 .. taken[u] + 1} = {P[i] : i \in 1 .. taken[u]} \cup {l}
      BY <3>1, <3>2
    <3>4. held'[u] = {P[i] : i \in 1 .. taken'[u]}
      BY <1>2, <2>3, <2>5, <3>3
    <3> QED
      BY <1>2, <2>2, <2>3, <2>5, <3>1, <3>4
  <2> QED
    BY <2>4, <2>5
<1> QED
  BY <1>1, <1>2, <1>3, <1>4 DEF Queued

LEMMA QueuedBlock ==
    ASSUME Queued, NEW t \in Txns, Block(t)
    PROVE  Queued'
<1>1. UNCHANGED <<job, held, taken>> /\ blocked' = [blocked EXCEPT ![t] = TRUE] /\ ~AllTaken(t)
  BY DEF Block
<1>2. ASSUME NEW u \in NotPreparing'
      PROVE  /\ taken'[u] <= Len(Program(u)')
             /\ held'[u] = {Program(u)'[i] : i \in 1 .. taken'[u]}
             /\ blocked'[u] => taken'[u] < Len(Program(u)')
  <2>1. u \in NotPreparing /\ u \in Txns
    BY <1>1 DEF NotPreparing
  <2> DEFINE P == Program(u)
  <2>2. Program(u)' = P /\ Len(P) \in Nat
    BY <1>1, <2>1, ProgramFixed DEF Ordered
  <2>3. /\ taken[u] \in Nat /\ taken[u] <= Len(P) /\ held[u] = {P[i] : i \in 1 .. taken[u]}
        /\ blocked[u] => taken[u] < Len(P)
    BY <2>1 DEF Queued
  <2>0. P = Program(u)
    OBVIOUS
  <2> HIDE DEF P
  <2>4. u = t => taken[u] # Len(P)
    BY <1>1, <2>0 DEF AllTaken
  <2>5. CASE u = t
    <3>1. taken[u] < Len(P)
      BY <2>2, <2>3, <2>4, <2>5
    <3> QED
      BY <1>1, <2>2, <2>3, <3>1
  <2>6. CASE u # t
    <3>1. blocked'[u] = blocked[u]
      BY <1>1, <2>1, <2>6 DEF Queued
    <3> QED
      BY <1>1, <2>2, <2>3, <3>1
  <2> QED
    BY <2>5, <2>6
<1> QED
  BY <1>1, <1>2 DEF Queued

LEMMA QueuedRelease ==
    ASSUME Queued, NEW t \in Txns, Release(t)
    PROVE  Queued'
<1>1. /\ job' = job /\ blocked' = [blocked EXCEPT ![t] = FALSE]
      /\ held' = [held EXCEPT ![t] = {}] /\ taken' = [taken EXCEPT ![t] = 0]
  BY DEF Release
<1>2. /\ held'[t] = {} /\ taken'[t] = 0 /\ blocked'[t] = FALSE
      /\ \A u \in Txns : u # t =>
            held'[u] = held[u] /\ taken'[u] = taken[u] /\ blocked'[u] = blocked[u]
      /\ held' = [u \in Txns |-> held'[u]]
      /\ taken' \in [Txns -> Nat] /\ blocked' \in [Txns -> BOOLEAN]
  BY <1>1 DEF Queued
<1>3. ASSUME NEW u \in NotPreparing'
      PROVE  /\ taken'[u] <= Len(Program(u)')
             /\ held'[u] = {Program(u)'[i] : i \in 1 .. taken'[u]}
             /\ blocked'[u] => taken'[u] < Len(Program(u)')
  <2>1. u \in NotPreparing /\ u \in Txns
    BY <1>1 DEF NotPreparing
  <2> DEFINE P == Program(u)
  <2>2. Program(u)' = P /\ Len(P) \in Nat
    BY <1>1, <2>1, ProgramFixed DEF Ordered
  <2>3. /\ taken[u] \in Nat /\ taken[u] <= Len(P) /\ held[u] = {P[i] : i \in 1 .. taken[u]}
        /\ blocked[u] => taken[u] < Len(P)
    BY <2>1 DEF Queued
  <2>0. P = Program(u)
    OBVIOUS
  <2> HIDE DEF P
  <2>4. CASE u # t
    BY <1>2, <2>1, <2>2, <2>3, <2>4
  <2>5. CASE u = t
    <3>1. {P[i] : i \in 1 .. 0} = {}
      OBVIOUS
    <3> QED
      BY <1>2, <2>2, <2>5, <3>1
  <2> QED
    BY <2>4, <2>5
<1>4. \A u, v \in Txns : u # v => held'[u] \cap held'[v] = {}
  BY <1>2 DEF Queued
<1> QED
  BY <1>1, <1>2, <1>3, <1>4 DEF Queued

LEMMA QueuedNext == ASSUME Queued, [Next]_vars PROVE Queued'
<1>1. CASE UNCHANGED vars
  <2>1. UNCHANGED <<job, held, taken, blocked>>
    BY <1>1 DEF vars
  <2>2. ASSUME NEW u \in NotPreparing'
        PROVE  /\ taken'[u] <= Len(Program(u)')
               /\ held'[u] = {Program(u)'[i] : i \in 1 .. taken'[u]}
               /\ blocked'[u] => taken'[u] < Len(Program(u)')
    <3>1. u \in NotPreparing
      BY <2>1 DEF NotPreparing
    <3> PICK P : P = Program(u)
      OBVIOUS
    <3>2. Program(u)' = P
      BY <2>1, <3>1, ProgramFixed
    <3>3. /\ taken[u] <= Len(P) /\ held[u] = {P[i] : i \in 1 .. taken[u]}
          /\ blocked[u] => taken[u] < Len(P)
      BY <3>1 DEF Queued
    <3>4. taken'[u] = taken[u] /\ held'[u] = held[u] /\ blocked'[u] = blocked[u]
      BY <2>1
    <3>5. taken'[u] <= Len(Program(u)') /\ (blocked'[u] => taken'[u] < Len(Program(u)'))
      BY <3>2, <3>3, <3>4
    <3>6. held'[u] = {Program(u)'[i] : i \in 1 .. taken'[u]}
      BY <3>2, <3>3, <3>4
    <3> QED
      BY <3>5, <3>6
  <2> QED
    BY <2>1, <2>2 DEF Queued
<1>2. ASSUME NEW t \in Txns,
             Refuse(t) \/ DeadlockVictim(t) \/ CommitAdmission(t) \/ CommitCleanup(t) \/ CommitInPlace(t)
      PROVE  Release(t)
  BY <1>2 DEF Refuse, DeadlockVictim, CommitAdmission, CommitCleanup, CommitInPlace
<1> QED
  BY <1>1, <1>2, QueuedTake, QueuedBlock, QueuedRelease DEF Next
LEMMA AlwaysQueued == Spec => []Queued
<1>1. Init => Queued
  BY QueuedInit
<1>2. Queued /\ [Next]_vars => Queued'
  BY QueuedNext
<1> QED
  BY <1>1, <1>2, PTL DEF Spec

(***************************************************************************)
(* Circles                                                                 *)
(*                                                                         *)
(* A transaction that has its attempt waits for a shared lock: whoever had *)
(* a private one of its attempt would have the attempt as well.  Whom it   *)
(* waits for has passed the level of that lock, and can itself wait only   *)
(* for a higher one.                                                       *)
(***************************************************************************)

\* How far up a waiting transaction is.
Depth(t) == IF taken[t] = 0 THEN 0 ELSE Level(Wanted(t))

LEMMA WaitsMeans ==
    ASSUME NEW x \in Txns, NEW y \in Txns, WaitsFor[<<x, y>>]
    PROVE  blocked[x] /\ x # y /\ Wanted(x) \in held[y]
BY DEF WaitsFor

LEMMA WaitsShared ==
    ASSUME Queued, NEW x \in NotPreparing, NEW y \in NotPreparing, WaitsFor[<<x, y>>]
    PROVE  /\ taken[y] > 0
           /\ taken[x] # 0 => IsShared(Wanted(x))
<1> DEFINE P == Program(x)
           Q == Program(y)
           a == job[x].attempt
           b == job[y].attempt
           l == Wanted(x)
<1>1. /\ x \in Txns /\ y \in Txns /\ taken[x] \in Nat /\ taken[y] \in Nat
      /\ held[x] = {P[i] : i \in 1 .. taken[x]} /\ held[y] = {Q[i] : i \in 1 .. taken[y]}
      /\ taken[y] <= Len(Q) /\ (blocked[x] => taken[x] < Len(P))
  BY DEF Queued, NotPreparing
<1>2. blocked[x] /\ x # y /\ l \in held[y] /\ held[x] \cap held[y] = {}
  BY <1>1, WaitsMeans DEF Queued
<1>3. Ordered(P, a) /\ Ordered(Q, b)
  <2>1. /\ job[x].op \in Operations /\ job[x].op # "prepare" /\ a \in Attempts
        /\ job[y].op \in Operations /\ job[y].op # "prepare" /\ b \in Attempts
    BY OpsAssumption DEF Queued, NotPreparing
  <2> QED
    BY <2>1, ProgramsOrdered DEF Program
<1>4. l = P[taken[x] + 1] /\ taken[x] + 1 \in 1 .. Len(P)
  BY <1>1, <1>2, <1>3 DEF Wanted, Ordered
<1> HIDE DEF P, Q, a, b, l
<1>5. PICK j \in 1 .. taken[y] : l = Q[j]
  BY <1>1, <1>2
<1>6. taken[y] > 0 /\ j \in 1 .. Len(Q) /\ 1 \in 1 .. taken[y]
  BY <1>1, <1>3, <1>5 DEF Ordered
<1>7. ASSUME taken[x] # 0 PROVE IsShared(l)
  <2>1. 1 \in 1 .. taken[x]
    BY <1>1, <1>7
  <2>2. <<"attempt", a>> \in held[x] /\ <<"attempt", b>> \in held[y]
    BY <1>1, <1>3, <1>6, <2>1 DEF Ordered
  <2>3. a # b /\ l # <<"attempt", a>>
    BY <1>2, <2>2
  <2>4. IsPrivate(l, a) \/ IsShared(l)
    BY <1>3, <1>4, <2>3 DEF Ordered
  <2>5. l = <<"attempt", b>> \/ IsPrivate(l, b) \/ IsShared(l)
    BY <1>3, <1>5, <1>6 DEF Ordered
  <2>6. ~(IsPrivate(l, a) /\ l = <<"attempt", b>>)
    BY DEF IsPrivate, PrivateKinds
  <2>7. ~(IsPrivate(l, a) /\ IsPrivate(l, b))
    BY <2>3 DEF IsPrivate
  <2> QED
    BY <2>4, <2>5, <2>6, <2>7
<1> QED
  BY <1>6, <1>7 DEF l

LEMMA DepthType ==
    ASSUME NEW t PROVE Depth(t) \in 0 .. 5
BY DEF Depth, Level

LEMMA DepthRises ==
    ASSUME Queued, NEW x \in NotPreparing, NEW y \in NotPreparing, NEW z \in NotPreparing,
           WaitsFor[<<x, y>>], WaitsFor[<<y, z>>]
    PROVE  Depth(x) < Depth(y)
<1> DEFINE Q == Program(y)
<1>1. /\ taken[y] > 0 /\ taken[y] \in Nat /\ taken[y] # 0
      /\ taken[x] # 0 => IsShared(Wanted(x))
      /\ IsShared(Wanted(y))
  <2>1. taken[y] \in Nat
    BY DEF Queued, NotPreparing
  <2> QED
    BY <2>1, WaitsShared
<1>2. /\ Wanted(x) \in held[y] /\ blocked[y]
  BY WaitsMeans DEF NotPreparing
<1>3. held[y] = {Q[i] : i \in 1 .. taken[y]} /\ taken[y] < Len(Q)
  BY <1>2 DEF Queued
<1>4. Ordered(Q, job[y].attempt)
  <2>1. job[y].op \in Operations /\ job[y].op # "prepare" /\ job[y].attempt \in Attempts
    BY OpsAssumption DEF Queued, NotPreparing
  <2> QED
    BY <2>1, ProgramsOrdered DEF Program
<1>5. Depth(y) = Level(Wanted(y)) /\ Wanted(y) = Q[taken[y] + 1]
  BY <1>1 DEF Depth, Wanted
<1>6. Level(Wanted(y)) > 0
  BY DEF Level
<1> HIDE DEF Q
<1>7. CASE taken[x] = 0
  BY <1>5, <1>6, <1>7 DEF Depth
<1>8. CASE taken[x] # 0
  <2> PICK j \in 1 .. taken[y] : Wanted(x) = Q[j]
    BY <1>2, <1>3
  <2>1. j \in 1 .. Len(Q) /\ taken[y] + 1 \in 1 .. Len(Q) /\ j < taken[y] + 1
    BY <1>1, <1>3, <1>4 DEF Ordered
  <2>2. IsShared(Q[j]) /\ IsShared(Q[taken[y] + 1])
    BY <1>1, <1>5, <1>8
  <2>3. Level(Q[j]) < Level(Q[taken[y] + 1])
    BY <1>4, <2>1, <2>2 DEF Ordered
  <2>4. Depth(x) = Level(Q[j])
    BY <1>8 DEF Depth
  <2> QED
    BY <1>5, <2>3, <2>4
<1> QED
  BY <1>7, <1>8

\* A set of depths has a largest one.
LEMMA Deepest ==
    ASSUME NEW C, C # {}, NEW d, \A t \in C : d[t] \in 0 .. 5
    PROVE  \E t \in C : \A u \in C : d[u] <= d[t]
<1> DEFINE T == {5 - d[t] : t \in C}
<1>1. T \subseteq Nat /\ T # {}
  OBVIOUS
<1>2. PICK m \in T : \A n \in T : ~(<<n, m>> \in OpToRel(<, Nat))
  <2> HIDE DEF T
  <2> QED
    BY <1>1, NatLessThanWellFounded, WFMin, Zenon
<1>3. PICK t \in C : m = 5 - d[t]
  OBVIOUS
<1>4. ASSUME NEW u \in C PROVE d[u] <= d[t]
  <2>1. 5 - d[u] \in T /\ 5 - d[u] \in Nat /\ m \in Nat
    BY <1>1
  <2>2. ~(5 - d[u] < m)
    BY <1>2, <2>1 DEF OpToRel
  <2> QED
    BY <1>3, <2>2
<1> QED
  BY <1>4

LEMMA NoCircle == Queued => EveryDeadlockHasPrepare
<1> SUFFICES ASSUME Queued, NEW C \in SUBSET NotPreparing, Circle(C)
             PROVE  FALSE
  BY DEF EveryDeadlockHasPrepare
<1> DEFINE d == [t \in C |-> Depth(t)]
<1>1. \A t \in C : d[t] = Depth(t) /\ d[t] \in 0 .. 5
  BY DepthType
<1> HIDE DEF d
<1>2. PICK t \in C : \A u \in C : d[u] <= d[t]
  BY <1>1, Deepest DEF Circle
<1>3. PICK u \in C : WaitsFor[<<t, u>>]
  BY Zenon DEF Circle
<1>4. PICK v \in C : WaitsFor[<<u, v>>]
  BY Zenon DEF Circle
<1>5. t \in NotPreparing /\ u \in NotPreparing /\ v \in NotPreparing
  OBVIOUS
<1>6. Depth(t) < Depth(u)
  BY <1>3, <1>4, <1>5, DepthRises, Zenon
<1> QED
  BY <1>1, <1>2, <1>6

(* Whatever the transactions in flight, and however their attempts share     *)
(* accounts, projects and fixture keys: no set of transactions without a     *)
(* prepare waits in a circle.  The advisory locks of src/attempts/store.mjs  *)
(* are ordered for every operation but admission.                            *)
THEOREM DeadlocksHavePrepare == Spec => []EveryDeadlockHasPrepare
BY AlwaysQueued, NoCircle, PTL

(***************************************************************************)
(* Admissions                                                              *)
(***************************************************************************)

\* A prepare starts with the same five locks whatever it finds, and the only rows
\* it locks besides its own are those of the owners of its account and project.
LEMMA PrepareShape ==
    ASSUME NEW a \in Attempts
    PROVE  /\ Len(PrepareLocks(a)) \in Nat /\ Len(PrepareLocks(a)) >= 7
           /\ PrepareLocks(a)[1] = <<"attempt", a>>
           /\ PrepareLocks(a)[2] = Retention(a)
           /\ PrepareLocks(a)[3] = <<"resource", Account[a]>>
           /\ PrepareLocks(a)[4] = <<"resource", Project[a]>>
           /\ PrepareLocks(a)[5] = <<"lease", Key[a]>>
           /\ \A n \in 6 .. Len(PrepareLocks(a)) : \A p :
                 PrepareLocks(a)[n] = <<"row", p>> /\ p # a
                 => p \in {owner[Account[a]], owner[Project[a]]} \ {None}
<1> DEFINE c == owner[Account[a]]
           q == owner[Project[a]]
           P == PrepareLocks(a)
<1>1. CASE a \in admitted
  <2>1. /\ Len(P) = 7 /\ P[1] = <<"attempt", a>> /\ P[2] = Retention(a)
        /\ P[3] = <<"resource", Account[a]>> /\ P[4] = <<"resource", Project[a]>>
        /\ P[5] = <<"lease", Key[a]>> /\ P[6] = <<"reservationOf", a>> /\ P[7] = <<"receipt", a>>
    BY <1>1 DEF PrepareLocks, ResourceLocks
  <2> HIDE DEF P
  <2>2. \A n \in 6 .. 7 : n = 6 \/ n = 7
    OBVIOUS
  <2> QED
    BY <2>1, <2>2 DEF P
<1>2. CASE a \notin admitted /\ c = None /\ q = None
  <2>1. /\ Len(P) = 7 /\ P[1] = <<"attempt", a>> /\ P[2] = Retention(a)
        /\ P[3] = <<"resource", Account[a]>> /\ P[4] = <<"resource", Project[a]>>
        /\ P[5] = <<"lease", Key[a]>> /\ P[6] = <<"row", a>> /\ P[7] = <<"reservationOf", a>>
    BY <1>2 DEF PrepareLocks, ResourceLocks, TakeoverLocks, PriorLease, PriorRows
  <2> HIDE DEF P
  <2>2. \A n \in 6 .. 7 : n = 6 \/ n = 7
    OBVIOUS
  <2> QED
    BY <2>1, <2>2 DEF P
<1>3. CASE a \notin admitted /\ c # None /\ q = None
  <2>1. /\ Len(P) = 11 /\ P[1] = <<"attempt", a>> /\ P[2] = Retention(a)
        /\ P[3] = <<"resource", Account[a]>> /\ P[4] = <<"resource", Project[a]>>
        /\ P[5] = <<"lease", Key[a]>>
        /\ P[6] = <<"lease", Key[c]>>
        /\ P[7] = <<"reservationOf", c>> /\ P[8] = <<"receipt", c>> /\ P[9] = <<"row", c>>
        /\ P[10] = <<"row", a>> /\ P[11] = <<"reservationOf", a>>
    BY <1>3 DEF PrepareLocks, ResourceLocks, TakeoverLocks, PriorLease, PriorRows
  <2> HIDE DEF P, c
  <2>2. \A n \in 6 .. 11 : n = 6 \/ n = 7 \/ n = 8 \/ n = 9 \/ n = 10 \/ n = 11
    OBVIOUS
  <2>3. \A n \in 6 .. 11 : \A p : P[n] = <<"row", p>> /\ p # a => p = c
    BY <2>1, <2>2
  <2> QED
    BY <1>3, <2>1, <2>3 DEF P, c
<1>4. CASE a \notin admitted /\ c = None /\ q # None
  <2>1. /\ Len(P) = 11 /\ P[1] = <<"attempt", a>> /\ P[2] = Retention(a)
        /\ P[3] = <<"resource", Account[a]>> /\ P[4] = <<"resource", Project[a]>>
        /\ P[5] = <<"lease", Key[a]>>
        /\ P[6] = <<"lease", Key[q]>>
        /\ P[7] = <<"reservationOf", q>> /\ P[8] = <<"receipt", q>> /\ P[9] = <<"row", q>>
        /\ P[10] = <<"row", a>> /\ P[11] = <<"reservationOf", a>>
    BY <1>4 DEF PrepareLocks, ResourceLocks, TakeoverLocks, PriorLease, PriorRows
  <2> HIDE DEF P, q
  <2>2. \A n \in 6 .. 11 : n = 6 \/ n = 7 \/ n = 8 \/ n = 9 \/ n = 10 \/ n = 11
    OBVIOUS
  <2>3. \A n \in 6 .. 11 : \A p : P[n] = <<"row", p>> /\ p # a => p = q
    BY <2>1, <2>2
  <2> QED
    BY <1>4, <2>1, <2>3 DEF P, q
<1>5. CASE a \notin admitted /\ c # None /\ q # None
  <2>1. /\ Len(P) = 15 /\ P[1] = <<"attempt", a>> /\ P[2] = Retention(a)
        /\ P[3] = <<"resource", Account[a]>> /\ P[4] = <<"resource", Project[a]>>
        /\ P[5] = <<"lease", Key[a]>>
        /\ P[6] = <<"lease", Key[c]>> /\ P[7] = <<"lease", Key[q]>>
        /\ P[8] = <<"reservationOf", c>> /\ P[9] = <<"receipt", c>> /\ P[10] = <<"row", c>>
        /\ P[11] = <<"reservationOf", q>> /\ P[12] = <<"receipt", q>> /\ P[13] = <<"row", q>>
        /\ P[14] = <<"row", a>> /\ P[15] = <<"reservationOf", a>>
    BY <1>5 DEF PrepareLocks, ResourceLocks, TakeoverLocks, PriorLease, PriorRows
  <2> HIDE DEF P, c, q
  <2>2. \A n \in 6 .. 15 : \/ n = 6 \/ n = 7 \/ n = 8 \/ n = 9 \/ n = 10
                           \/ n = 11 \/ n = 12 \/ n = 13 \/ n = 14 \/ n = 15
    OBVIOUS
  <2>3. \A n \in 6 .. 15 : \A p : P[n] = <<"row", p>> /\ p # a => p = c \/ p = q
    BY <2>1, <2>2
  <2> QED
    BY <1>5, <2>1, <2>3 DEF P, c, q
<1> QED
  BY <1>1, <1>2, <1>3, <1>4, <1>5

\* What a prepare has by how far it is: its attempt, its account, its project; and
\* for the row of another attempt a resource that attempt needs.
Admission(t) ==
    LET a == job[t].attempt IN
    /\ taken[t] <= Len(Program(t))
    /\ taken[t] >= 1 => <<"attempt", a>> \in held[t]
    /\ taken[t] >= 3 => <<"resource", Account[a]>> \in held[t]
    /\ taken[t] >= 4 => <<"resource", Project[a]>> \in held[t]
    /\ \A p \in Attempts : <<"row", p>> \in held[t] /\ p # a =>
          \E r \in ResourcesOf(p) : <<"resource", r>> \in held[t]

\* A lock row has no owner, or an attempt that needs the resource.
Owned == \A r \in Resources : owner[r] # None => owner[r] \in Attempts /\ r \in ResourcesOf(owner[r])

Admissions ==
    /\ Queued
    /\ owner = [r \in Resources |-> owner[r]]
    /\ Owned
    /\ \A t \in Txns : job[t].op = "prepare" => Admission(t)

LEMMA ResourcesHere ==
    ASSUME NEW a \in Attempts
    PROVE  Account[a] \in Resources /\ Project[a] \in Resources /\ ResourcesOf(a) \subseteq Resources
BY DEF Resources, ResourcesOf

\* The program of a prepare depends on its own row and its own two lock rows.
LEMMA PrepareFixed ==
    ASSUME NEW CONSTANT a, (a \in admitted)' = (a \in admitted),
           owner'[Account[a]] = owner[Account[a]], owner'[Project[a]] = owner[Project[a]]
    PROVE  PrepareLocks(a)' = PrepareLocks(a)
<1>1. TakeoverLocks(a)' = TakeoverLocks(a)
  BY DEF TakeoverLocks, PriorLease, PriorRows
<1>2. ResourceLocks(a)' = ResourceLocks(a) /\ Retention(a)' = Retention(a)
  BY DEF ResourceLocks, Retention
<1> QED
  BY <1>1, <1>2 DEF PrepareLocks

LEMMA PrepareProgram ==
    ASSUME Queued, NEW t \in Txns, job[t].op = "prepare"
    PROVE  job[t].attempt \in Attempts /\ Program(t) = PrepareLocks(job[t].attempt)
BY DEF Queued, Program, LockProgram

LEMMA AdmissionsInit == Init => Admissions
<1> SUFFICES ASSUME Init PROVE Admissions
  OBVIOUS
<1>1. Queued
  BY QueuedInit
<1>2. owner = [r \in Resources |-> owner[r]]
  BY DEF Init
<1>3. Owned
  BY OpsAssumption DEF Init, Owned, PossibleOwners
<1>4. ASSUME NEW t \in Txns, job[t].op = "prepare" PROVE Admission(t)
  <2> PICK P : P = Program(t)
    OBVIOUS
  <2>1. Len(P) \in Nat
    BY <1>1, <1>4, PrepareProgram, PrepareShape
  <2>2. taken[t] = 0 /\ held[t] = {}
    BY DEF Init
  <2> QED
    BY <2>1, <2>2 DEF Admission
<1> QED
  BY <1>1, <1>2, <1>3, <1>4 DEF Admissions

\* Taking the next lock.
LEMMA AdmissionTake ==
    ASSUME Admissions, NEW t \in Txns, Take(t), job[t].op = "prepare"
    PROVE  Admission(t)'
<1> PICK a, l, P, n : a = job[t].attempt /\ l = Wanted(t) /\ P = PrepareLocks(a) /\ n = taken[t]
  OBVIOUS
<1>1. a \in Attempts /\ Program(t) = P /\ n \in Nat /\ held = [u \in Txns |-> held[u]]
      /\ taken \in [Txns -> Nat]
  BY PrepareProgram DEF Admissions, Queued
<1>2. /\ job' = job /\ admitted' = admitted /\ owner' = owner
      /\ held' = [held EXCEPT ![t] = held[t] \cup {l}]
      /\ taken' = [taken EXCEPT ![t] = n + 1]
      /\ n # Len(P) /\ l = P[n + 1]
  BY <1>1 DEF Take, AllTaken, Wanted
<1>3. held'[t] = held[t] \cup {l} /\ taken'[t] = n + 1
  BY <1>1, <1>2
<1>4. Program(t)' = P
  <2>1. PrepareLocks(a)' = P
    BY <1>2, PrepareFixed
  <2>2. Program(t)' = PrepareLocks(a)'
    BY <1>2 DEF Program, LockProgram
  <2> QED
    BY <2>1, <2>2
<1>5. /\ n <= Len(P)
      /\ n >= 1 => <<"attempt", a>> \in held[t]
      /\ n >= 3 => <<"resource", Account[a]>> \in held[t]
      /\ n >= 4 => <<"resource", Project[a]>> \in held[t]
      /\ \A p \in Attempts : <<"row", p>> \in held[t] /\ p # a =>
            \E r \in ResourcesOf(p) : <<"resource", r>> \in held[t]
  BY <1>1 DEF Admissions, Admission
<1>6. /\ Len(P) \in Nat /\ Len(P) >= 7
      /\ P[1] = <<"attempt", a>> /\ P[2] = Retention(a) /\ P[5] = <<"lease", Key[a]>>
      /\ P[3] = <<"resource", Account[a]>> /\ P[4] = <<"resource", Project[a]>>
      /\ \A i \in 6 .. Len(P) : \A p : P[i] = <<"row", p>> /\ p # a
                                => p \in {owner[Account[a]], owner[Project[a]]} \ {None}
  <2> DEFINE Q == PrepareLocks(a)
  <2>1. a \in Attempts /\ Q = P
    BY <1>1
  <2>2. /\ Len(Q) \in Nat /\ Len(Q) >= 7
        /\ Q[1] = <<"attempt", a>> /\ Q[2] = Retention(a) /\ Q[5] = <<"lease", Key[a]>>
        /\ Q[3] = <<"resource", Account[a]>> /\ Q[4] = <<"resource", Project[a]>>
    BY <2>1, PrepareShape
  <2>3. \A i \in 6 .. Len(Q) : \A p : Q[i] = <<"row", p>> /\ p # a
                                => p \in {owner[Account[a]], owner[Project[a]]} \ {None}
    BY <2>1, PrepareShape
  <2> HIDE DEF Q
  <2> QED
    BY <2>1, <2>2, <2>3
<1>7. n + 1 <= Len(P)
  BY <1>1, <1>2, <1>5, <1>6
<1>8. /\ n + 1 >= 1 => <<"attempt", a>> \in held'[t]
      /\ n + 1 >= 3 => <<"resource", Account[a]>> \in held'[t]
      /\ n + 1 >= 4 => <<"resource", Project[a]>> \in held'[t]
  <2>1. (n + 1 >= 1 => n = 0 \/ n >= 1) /\ (n + 1 >= 3 => n = 2 \/ n >= 3)
        /\ (n + 1 >= 4 => n = 3 \/ n >= 4)
    BY <1>1
  <2>2. (n = 0 => l = P[1]) /\ (n = 2 => l = P[3]) /\ (n = 3 => l = P[4])
    BY <1>2
  <2> QED
    BY <1>3, <1>5, <1>6, <2>1, <2>2
<1>9. ASSUME NEW p \in Attempts, <<"row", p>> \in held'[t], p # a
      PROVE  \E r \in ResourcesOf(p) : <<"resource", r>> \in held'[t]
  <2>1. CASE <<"row", p>> \in held[t]
    BY <1>3, <1>5, <1>9, <2>1
  <2>2. CASE l = <<"row", p>>
    <3>1. P[n + 1] = <<"row", p>> /\ n + 1 \in 1 .. Len(P)
      BY <1>1, <1>2, <1>6, <1>7, <2>2
    <3>2. n + 1 \in 6 .. Len(P)
      <4>1. \A i \in 1 .. Len(P) : i = 1 \/ i = 2 \/ i = 3 \/ i = 4 \/ i = 5 \/ i \in 6 .. Len(P)
        BY <1>6
      <4>2. \A i \in {1, 2, 3, 4, 5} : P[i] # <<"row", p>>
        BY <1>6 DEF Retention
      <4> QED
        BY <3>1, <4>1, <4>2
    <3>3. p \in {owner[Account[a]], owner[Project[a]]} \ {None}
      BY <1>6, <1>9, <3>1, <3>2
    <3>4. PICK r \in {Account[a], Project[a]} : owner[r] = p /\ p # None
      BY <3>3
    <3>5. r \in ResourcesOf(p)
      BY <1>1, <3>4, ResourcesHere DEF Admissions, Owned
    <3>6. n >= 3 /\ n >= 4
      BY <1>1, <3>2
    <3>7. <<"resource", r>> \in held[t]
      BY <1>5, <3>4, <3>6
    <3> QED
      BY <1>3, <3>5, <3>7
  <2> QED
    BY <1>3, <1>9, <2>1, <2>2
<1>10. job'[t].attempt = a
  BY <1>2
<1> QED
  BY <1>3, <1>4, <1>7, <1>8, <1>9, <1>10 DEF Admission

\* A step of another transaction that leaves the program long enough.
LEMMA AdmissionStays ==
    ASSUME Admissions, NEW t \in Txns, job[t].op = "prepare", job' = job,
           held'[t] = held[t], taken'[t] = taken[t], taken[t] <= Len(Program(t)')
    PROVE  Admission(t)'
<1>1. Admission(t)
  BY DEF Admissions
<1> PICK n : n = Len(Program(t)')
  OBVIOUS
<1>2. taken'[t] <= n
  OBVIOUS
<1> QED
  BY <1>1, <1>2 DEF Admission

LEMMA LongPrograms == \A a \in Attempts : Len(PrepareLocks(a)) \in Nat /\ Len(PrepareLocks(a)) >= 7
BY PrepareShape

LEMMA LongProgramsNext ==
    \A a \in Attempts : Len(PrepareLocks(a)') \in Nat /\ Len(PrepareLocks(a)') >= 7
<1>1. (\A a \in Attempts : Len(PrepareLocks(a)) \in Nat /\ Len(PrepareLocks(a)) >= 7)'
  BY LongPrograms, PTL
<1> QED
  BY <1>1

\* Whoever moves the owners has the attempt's two resources; an admission has its
\* attempt too.
LEMMA MoverHolds ==
    ASSUME Admissions, NEW u \in Txns, CommitAdmission(u) \/ CommitCleanup(u)
    PROVE  /\ job[u].attempt \in Attempts
           /\ \A r \in ResourcesOf(job[u].attempt) : <<"resource", r>> \in held[u]
           /\ CommitAdmission(u) => <<"attempt", job[u].attempt>> \in held[u]
<1> PICK b : b = job[u].attempt
  OBVIOUS
<1>1. b \in Attempts /\ taken[u] \in Nat /\ taken[u] = Len(Program(u))
  BY DEF Admissions, Queued, CommitAdmission, CommitCleanup, AllTaken
<1>2. CASE CommitAdmission(u)
  <2>1. job[u].op = "prepare"
    BY <1>2 DEF CommitAdmission
  <2>2. Len(Program(u)) >= 7
    BY <1>1, <2>1, PrepareProgram, LongPrograms DEF Admissions
  <2>3. Admission(u) /\ taken[u] >= 1 /\ taken[u] >= 3 /\ taken[u] >= 4
    BY <1>1, <2>1, <2>2 DEF Admissions
  <2> QED
    BY <1>1, <2>3 DEF Admission, ResourcesOf
<1>3. CASE CommitCleanup(u)
  <2>1. job[u].op = "cleanup" /\ u \in NotPreparing
    BY <1>3 DEF CommitCleanup, NotPreparing
  <2> PICK P : P = Program(u)
    OBVIOUS
  <2>2. P = FencedLocks(b) \o << <<"reservationOf", b>>, <<"cleanupReceipt", b>>, <<"row", b>> >>
    BY <2>1 DEF Program, LockProgram
  <2>3. Len(P) = 7 /\ P[2] = <<"resource", Account[b]>> /\ P[3] = <<"resource", Project[b]>>
    BY <2>2 DEF FencedLocks, ResourceLocks
  <2>4. held[u] = {P[i] : i \in 1 .. 7}
    <3>1. held[u] = {Program(u)[i] : i \in 1 .. taken[u]}
      BY <2>1 DEF Admissions, Queued
    <3>2. taken[u] = 7
      BY <1>1, <2>3
    <3> QED
      BY <3>1, <3>2
  <2>5. <<"resource", Account[b]>> \in held[u] /\ <<"resource", Project[b]>> \in held[u]
    BY <2>3, <2>4
  <2>6. ~CommitAdmission(u)
    BY <2>1 DEF CommitAdmission
  <2> QED
    BY <1>1, <2>5, <2>6 DEF ResourcesOf
<1> QED
  BY <1>2, <1>3

\* A prepare that has its attempt and its resources keeps the program it started:
\* nobody else can admit the attempt or move the owners of its resources.
LEMMA ProgramStays ==
    ASSUME Admissions, NEW t \in Txns, job[t].op = "prepare", taken[t] >= 4,
           NEW u \in Txns, u # t, CommitAdmission(u) \/ CommitCleanup(u)
    PROVE  Program(t)' = Program(t)
<1> PICK a, b : a = job[t].attempt /\ b = job[u].attempt
  OBVIOUS
<1>1. a \in Attempts /\ b \in Attempts /\ job' = job /\ owner = [r \in Resources |-> owner[r]]
  BY DEF Admissions, Queued, CommitAdmission, CommitCleanup, Release
<1>2. taken[t] \in Nat
  BY DEF Admissions, Queued
<1>3. taken[t] >= 1 /\ taken[t] >= 3
  BY <1>2
<1>4. /\ <<"attempt", a>> \in held[t]
      /\ <<"resource", Account[a]>> \in held[t] /\ <<"resource", Project[a]>> \in held[t]
  BY <1>3 DEF Admissions, Admission
<1>5. held[t] \cap held[u] = {}
  BY DEF Admissions, Queued
<1>6. Account[a] \notin ResourcesOf(b) /\ Project[a] \notin ResourcesOf(b)
  BY <1>4, <1>5, MoverHolds
<1>7. owner'[Account[a]] = owner[Account[a]] /\ owner'[Project[a]] = owner[Project[a]]
  <2>1. owner' = OwnedBy(b, b) \/ owner' = OwnedBy(b, None)
    BY DEF CommitAdmission, CommitCleanup
  <2> QED
    BY <1>1, <1>6, <2>1, ResourcesHere DEF OwnedBy
<1>8. (a \in admitted)' = (a \in admitted)
  <2>1. CASE CommitAdmission(u)
    <3>1. a # b /\ admitted' = admitted \cup {b}
      BY <1>4, <1>5, <2>1, MoverHolds DEF CommitAdmission
    <3> QED
      BY <3>1
  <2>2. CASE CommitCleanup(u)
    BY <2>2 DEF CommitCleanup
  <2> QED
    BY <2>1, <2>2
<1>9. PrepareLocks(a)' = PrepareLocks(a)
  BY <1>7, <1>8, PrepareFixed
<1>10. Program(t)' = PrepareLocks(a)' /\ Program(t) = PrepareLocks(a)
  BY <1>1 DEF Program, LockProgram
<1> QED
  BY <1>9, <1>10

\* A step that leaves rows and owners alone leaves every program alone.
LEMMA ProgramQuiet ==
    ASSUME Admissions, NEW t \in Txns, job[t].op = "prepare", UNCHANGED <<job, admitted, owner>>
    PROVE  Program(t)' = Program(t)
<1> PICK a : a = job[t].attempt
  OBVIOUS
<1>1. PrepareLocks(a)' = PrepareLocks(a)
  BY PrepareFixed
<1>2. Program(t)' = PrepareLocks(a)' /\ Program(t) = PrepareLocks(a)
  BY DEF Program, LockProgram
<1> QED
  BY <1>1, <1>2

\* Owners stay among the attempts that need the resource.
LEMMA OwnedMoves ==
    ASSUME Admissions, NEW b \in Attempts, NEW who \in {b, None}, owner' = OwnedBy(b, who)
    PROVE  owner' = [r \in Resources |-> owner'[r]] /\ Owned'
<1>1. \A r \in Resources : owner'[r] = IF r \in ResourcesOf(b) THEN who ELSE owner[r]
  BY DEF OwnedBy
<1>2. owner' = [r \in Resources |-> owner'[r]]
  BY DEF OwnedBy
<1>3. ASSUME NEW r \in Resources, owner'[r] # None
      PROVE  owner'[r] \in Attempts /\ r \in ResourcesOf(owner'[r])
  <2>1. owner[r] # None => owner[r] \in Attempts /\ r \in ResourcesOf(owner[r])
    BY DEF Admissions, Owned
  <2>2. CASE r \in ResourcesOf(b)
    BY <1>1, <1>3, <2>2
  <2>3. CASE r \notin ResourcesOf(b)
    BY <1>1, <1>3, <2>1, <2>3
  <2> QED
    BY <2>2, <2>3
<1>4. Owned' = \A r \in Resources : owner'[r] # None
                    => owner'[r] \in Attempts /\ r \in ResourcesOf(owner'[r])
  BY DEF Owned, Resources, ResourcesOf
<1> QED
  BY <1>2, <1>3, <1>4

LEMMA OwnedNext ==
    ASSUME Admissions, [Next]_vars
    PROVE  owner' = [r \in Resources |-> owner'[r]] /\ Owned'
<1>1. CASE owner' = owner
  BY <1>1 DEF Admissions, Owned, Resources, ResourcesOf
<1>2. ASSUME NEW t \in Txns, CommitAdmission(t) \/ CommitCleanup(t)
      PROVE  owner' = [r \in Resources |-> owner'[r]] /\ Owned'
  <2> PICK b : b = job[t].attempt
    OBVIOUS
  <2>1. b \in Attempts /\ (owner' = OwnedBy(b, b) \/ owner' = OwnedBy(b, None))
    BY <1>2 DEF CommitAdmission, CommitCleanup, Admissions, Queued
  <2> QED
    BY <2>1, OwnedMoves
<1>3. ASSUME NEW t \in Txns,
             Take(t) \/ Block(t) \/ Refuse(t) \/ DeadlockVictim(t) \/ CommitInPlace(t)
      PROVE  owner' = owner
  BY <1>3 DEF Take, Block, Refuse, DeadlockVictim, CommitInPlace
<1>4. UNCHANGED vars => owner' = owner
  BY DEF vars
<1> QED
  BY <1>1, <1>2, <1>3, <1>4 DEF Next

\* What the step of one transaction leaves of another.
LEMMA OthersStay ==
    ASSUME Admissions, NEW t \in Txns, NEW u \in Txns, u # t,
           Take(u) \/ Block(u) \/ Release(u)
    PROVE  job' = job /\ held'[t] = held[t] /\ taken'[t] = taken[t]
<1>1. job' = job
  BY DEF Take, Block, Release
<1>2. held = [v \in Txns |-> held[v]] /\ taken \in [Txns -> Nat]
  BY DEF Admissions, Queued
<1>3. CASE Take(u)
  <2>1. /\ held' = [held EXCEPT ![u] = @ \cup {Wanted(u)}]
        /\ taken' = [taken EXCEPT ![u] = @ + 1]
    BY <1>3 DEF Take
  <2> QED
    BY <1>1, <1>2, <2>1
<1>4. CASE Block(u)
  BY <1>1, <1>4 DEF Block
<1>5. CASE Release(u)
  <2>1. held' = [held EXCEPT ![u] = {}] /\ taken' = [taken EXCEPT ![u] = 0]
    BY <1>5 DEF Release
  <2> QED
    BY <1>1, <1>2, <2>1
<1> QED
  BY <1>3, <1>4, <1>5

LEMMA AdmissionStep ==
    ASSUME Admissions, NEW t \in Txns, job[t].op = "prepare", NEW u \in Txns,
           \/ Take(u) \/ Block(u) \/ Refuse(u) \/ DeadlockVictim(u)
           \/ CommitAdmission(u) \/ CommitCleanup(u) \/ CommitInPlace(u)
    PROVE  Admission(t)'
<1> PICK m : m = Len(Program(t))
  OBVIOUS
<1>1. taken[t] \in Nat /\ taken[t] <= m /\ m \in Nat /\ job[t].attempt \in Attempts
  BY PrepareProgram, LongPrograms DEF Admissions, Admission, Queued
<1>2. CASE u # t /\ (CommitAdmission(u) \/ CommitCleanup(u))
  <2>1. Release(u)
    BY <1>2 DEF CommitAdmission, CommitCleanup
  <2>2. job' = job /\ held'[t] = held[t] /\ taken'[t] = taken[t]
    BY <1>2, <2>1, OthersStay
  <2>3. CASE taken[t] >= 4
    BY <1>1, <1>2, <2>2, <2>3, ProgramStays, AdmissionStays
  <2>4. CASE ~(taken[t] >= 4)
    <3>1. Program(t)' = PrepareLocks(job[t].attempt)'
      BY <2>2 DEF Program, LockProgram
    <3> PICK n : n = Len(Program(t)')
      OBVIOUS
    <3>2. n \in Nat /\ n >= 7
      <4> PICK a \in Attempts : a = job[t].attempt
        BY <1>1
      <4>1. Program(t)' = PrepareLocks(a)'
        BY <2>2 DEF Program, LockProgram
      <4> QED
        BY <4>1, LongProgramsNext
    <3>3. taken[t] <= n
      BY <1>1, <2>4, <3>2
    <3> QED
      BY <2>2, <3>3, AdmissionStays
  <2> QED
    BY <2>3, <2>4
<1>3. CASE /\ u # t
           /\ Take(u) \/ Block(u) \/ Refuse(u) \/ DeadlockVictim(u) \/ CommitInPlace(u)
  <2>1. /\ Take(u) \/ Block(u) \/ Release(u)
        /\ UNCHANGED <<job, admitted, owner>>
    BY <1>3 DEF Take, Block, Refuse, DeadlockVictim, CommitInPlace, Release
  <2>2. held'[t] = held[t] /\ taken'[t] = taken[t]
    BY <1>3, <2>1, OthersStay
  <2> QED
    BY <1>1, <2>1, <2>2, ProgramQuiet, AdmissionStays
<1>4. CASE u = t /\ Take(u)
  BY <1>4, AdmissionTake
<1>5. CASE u = t /\ Block(u)
  <2>1. UNCHANGED <<job, admitted, owner>> /\ held'[t] = held[t] /\ taken'[t] = taken[t]
    BY <1>5 DEF Block
  <2> QED
    BY <1>1, <2>1, ProgramQuiet, AdmissionStays
<1>6. CASE u = t /\ ~Take(u) /\ ~Block(u)
  <2>1. Release(t)
    BY <1>6 DEF Refuse, DeadlockVictim, CommitAdmission, CommitCleanup, CommitInPlace
  <2>2. held'[t] = {} /\ taken'[t] = 0 /\ job' = job
    BY <2>1 DEF Release, Admissions, Queued
  <2> PICK a \in Attempts : a = job[t].attempt
    BY <1>1
  <2> PICK n : n = Len(Program(t)')
    OBVIOUS
  <2>3. Program(t)' = PrepareLocks(a)'
    BY <2>2 DEF Program, LockProgram
  <2>4. n \in Nat
    BY <2>3, LongProgramsNext
  <2> QED
    BY <2>2, <2>4 DEF Admission
<1> QED
  BY <1>2, <1>3, <1>4, <1>5, <1>6

LEMMA AdmissionsNext == ASSUME Admissions, [Next]_vars PROVE Admissions'
<1>1. Queued'
  BY QueuedNext DEF Admissions
<1>2. owner' = [r \in Resources |-> owner'[r]] /\ Owned'
  BY OwnedNext
<1>3. job' = job
  BY DEF Next, vars, Take, Block, Refuse, DeadlockVictim, CommitAdmission, CommitCleanup,
         CommitInPlace, Release
<1>4. ASSUME NEW t \in Txns, job[t].op = "prepare" PROVE Admission(t)'
  <2>1. CASE UNCHANGED vars
    <3>1. UNCHANGED <<job, admitted, owner, held, taken>>
      BY <2>1 DEF vars
    <3>2. taken[t] <= Len(Program(t)) /\ Program(t)' = Program(t)
      BY <1>4, <3>1, ProgramQuiet DEF Admissions, Admission
    <3>3. taken[t] <= Len(Program(t)')
      BY <3>2
    <3> QED
      BY <1>4, <3>1, <3>3, AdmissionStays
  <2>2. CASE Next
    BY <1>4, <2>2, AdmissionStep DEF Next
  <2> QED
    BY <2>1, <2>2
<1>5. owner' = [r \in Resources' |-> owner'[r]]
  BY <1>2 DEF Resources
<1> QED
  BY <1>1, <1>2, <1>3, <1>4, <1>5 DEF Admissions

LEMMA AlwaysAdmissions == Spec => []Admissions
<1>1. Init => Admissions
  BY AdmissionsInit
<1>2. Admissions /\ [Next]_vars => Admissions'
  BY AdmissionsNext
<1> QED
  BY <1>1, <1>2, PTL DEF Spec

LEMMA RowsExclude == Admissions => TakeoverExcludesPriorOwner
<1> SUFFICES ASSUME Admissions, NEW t \in Txns, NEW u \in Txns, job[t].op = "prepare",
                    <<"row", job[u].attempt>> \in held[t], job[u].attempt # job[t].attempt,
                    HoldsResources(u)
             PROVE  FALSE
  BY DEF TakeoverExcludesPriorOwner
<1>1. job[u].attempt \in Attempts /\ u # t
  BY DEF Admissions, Queued
<1>2. PICK r \in ResourcesOf(job[u].attempt) : <<"resource", r>> \in held[t]
  BY <1>1 DEF Admissions, Admission
<1>3. <<"resource", r>> \in held[u]
  BY DEF HoldsResources
<1>4. held[t] \cap held[u] = {}
  BY <1>1 DEF Admissions, Queued
<1> QED
  BY <1>2, <1>3, <1>4

(* Whatever the transactions in flight and however attempts share accounts   *)
(* and projects: while an admission has the row of an attempt it displaces   *)
(* (src/attempts/store.mjs, prepare), no transaction of that attempt has the *)
(* locks of both its resources, so none acts on a row read before.           *)
THEOREM TakeoverExcludes == Spec => []TakeoverExcludesPriorOwner
BY AlwaysAdmissions, RowsExclude, PTL

(***************************************************************************)
(* What is read under the locks                                            *)
(***************************************************************************)

\* While a transaction goes on, the owners of the resources it has locked stay as
\* they are, and so does whether an attempt it has locked has a row.
ReadsStay ==
    \A t \in Txns :
        t \notin ended' =>
            /\ \A r \in Resources : <<"resource", r>> \in held[t] => owner'[r] = owner[r]
            /\ \A a \in Attempts :
                  <<"attempt", a>> \in held[t] => (a \in admitted' <=> a \in admitted)

ReadsStayUntilCommit == [][ReadsStay]_vars

\* Nobody but the transaction that has it moves the owner of a locked resource or
\* admits a locked attempt.
LEMMA MoverIsHolder ==
    ASSUME Admissions, NEW u \in Txns, CommitAdmission(u) \/ CommitCleanup(u),
           NEW t \in Txns, t \notin ended'
    PROVE  /\ \A r \in Resources : <<"resource", r>> \in held[t] => owner'[r] = owner[r]
           /\ \A a \in Attempts :
                 <<"attempt", a>> \in held[t] => (a \in admitted' <=> a \in admitted)
<1> PICK b : b = job[u].attempt
  OBVIOUS
<1>1. u # t /\ b \in Attempts
  BY DEF Admissions, Queued, CommitAdmission, CommitCleanup, Release
<1>2. held[t] \cap held[u] = {}
  BY <1>1 DEF Admissions, Queued
<1>3. ASSUME NEW r \in Resources, <<"resource", r>> \in held[t]
      PROVE  owner'[r] = owner[r]
  <2>1. r \notin ResourcesOf(b)
    BY <1>2, <1>3, MoverHolds
  <2>2. owner' = OwnedBy(b, b) \/ owner' = OwnedBy(b, None)
    BY DEF CommitAdmission, CommitCleanup
  <2> QED
    BY <2>1, <2>2 DEF OwnedBy
<1>4. ASSUME NEW a \in Attempts, <<"attempt", a>> \in held[t]
      PROVE  a \in admitted' <=> a \in admitted
  <2>1. CASE CommitAdmission(u)
    <3>1. a # b /\ admitted' = admitted \cup {b}
      BY <1>2, <1>4, <2>1, MoverHolds DEF CommitAdmission
    <3> QED
      BY <3>1
  <2>2. CASE CommitCleanup(u)
    BY <2>2 DEF CommitCleanup
  <2> QED
    BY <2>1, <2>2
<1> QED
  BY <1>3, <1>4

LEMMA ReadsStayNext == ASSUME Admissions, [Next]_vars PROVE ReadsStay
<1>1. CASE UNCHANGED <<admitted, owner>>
  BY <1>1 DEF ReadsStay
<1>2. ASSUME NEW u \in Txns, CommitAdmission(u) \/ CommitCleanup(u) PROVE ReadsStay
  BY <1>2, MoverIsHolder DEF ReadsStay
<1>3. ASSUME NEW u \in Txns,
             Take(u) \/ Block(u) \/ Refuse(u) \/ DeadlockVictim(u) \/ CommitInPlace(u)
      PROVE  UNCHANGED <<admitted, owner>>
  BY <1>3 DEF Take, Block, Refuse, DeadlockVictim, CommitInPlace
<1>4. UNCHANGED vars => UNCHANGED <<admitted, owner>>
  BY DEF vars
<1> QED
  BY <1>1, <1>2, <1>3, <1>4 DEF Next

(* Whatever transactions are in flight: what one reads under its locks, the   *)
(* owners of its resources (assertResourceOwner, and the prior owners that    *)
(* prepare displaces) and whether its attempt has a row, is still so when it  *)
(* commits.  For these two tables the steps of AttemptStore, which read and   *)
(* write at once, stand for transactions that interleave.                     *)
THEOREM ReadsStayed == Spec => ReadsStayUntilCommit
<1>1. Admissions /\ [Next]_vars => ReadsStay
  BY ReadsStayNext
<1> QED
  BY <1>1, AlwaysAdmissions, PTL DEF Spec, ReadsStayUntilCommit

=============================================================================
