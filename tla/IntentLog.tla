------------------------------ MODULE IntentLog ------------------------------
(***************************************************************************)
(* What the intents of an attempt promise to whoever takes it over: an     *)
(* operation is logged before it has an effect, it is logged once, it is   *)
(* settled only when its effect is there, and the log is closed only when  *)
(* every logged operation is settled.  Nothing has an effect afterwards.   *)
(***************************************************************************)
CONSTANT Operations

VARIABLES logged, effected, settled, closed

vars == <<logged, effected, settled, closed>>

Init ==
    /\ logged = {} /\ effected = {} /\ settled = {}
    /\ closed = FALSE

Log(o) ==
    /\ ~closed /\ o \notin logged
    /\ logged' = logged \cup {o}
    /\ UNCHANGED <<effected, settled, closed>>

Effect(o) ==
    /\ ~closed /\ o \in logged
    /\ effected' = effected \cup {o}
    /\ UNCHANGED <<logged, settled, closed>>

Settle(o) ==
    /\ ~closed /\ o \in effected
    /\ settled' = settled \cup {o}
    /\ UNCHANGED <<logged, effected, closed>>

Close ==
    /\ ~closed /\ logged = settled
    /\ closed' = TRUE
    /\ UNCHANGED <<logged, effected, settled>>

Next == Close \/ \E o \in Operations : Log(o) \/ Effect(o) \/ Settle(o)

Spec == Init /\ [][Next]_vars

=============================================================================
