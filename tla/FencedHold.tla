----------------------------- MODULE FencedHold -----------------------------
(***************************************************************************)
(* What the attempt store promises about the resources it guards, without  *)
(* lease rows, locks, clocks and quotas.  An attempt gets the hold on all  *)
(* it needs at once, and once in its life; it acts only while it has the   *)
(* hold, under the fence it was last granted; and whoever is in the way of *)
(* another's admission loses its hold as a whole, for good, and only when  *)
(* its run is over and no operation of it is in doubt.                     *)
(***************************************************************************)
EXTENDS Naturals

CONSTANTS Attempts, Resources, Runs, Operations, None

VARIABLES
    hold,     \* the fence and the run each attempt has its hold under
    issued,   \* the last fence drawn
    needs,    \* the resources of each attempt, none before it is admitted
    pending,  \* the operations each attempt has begun and not resolved
    acts,     \* which attempt has acted under which fence
    ended     \* runs that are over

vars == <<hold, issued, needs, pending, acts, ended>>

Init ==
    /\ hold = [a \in Attempts |-> None]
    /\ issued = 0
    /\ needs = [a \in Attempts |-> {}]
    /\ pending = [a \in Attempts |-> {}]
    /\ acts = {} /\ ended = {}

Holds(a, f) == hold[a] # None /\ hold[a].fence = f

\* The attempts whose hold is in the way of one on R.
InTheWay(R) == {b \in Attempts : hold[b] # None /\ needs[b] \cap R # {}}

Admit(a, run, R) ==
    /\ issued' = issued + 1
    /\ needs[a] = {} /\ R # {}
    /\ \A b \in InTheWay(R) : hold[b].run \in ended /\ pending[b] = {}
    /\ hold' = [b \in Attempts |->
          IF b = a THEN [fence |-> issued + 1, run |-> run]
          ELSE IF b \in InTheWay(R) THEN None ELSE hold[b]]
    /\ needs' = [needs EXCEPT ![a] = R]
    /\ UNCHANGED <<pending, acts, ended>>

\* Another run continues the attempt of one that is over, under a new fence.
HandOver(a, run) ==
    /\ issued' = issued + 1
    /\ hold[a] # None /\ hold[a].run \in ended
    /\ hold' = [hold EXCEPT ![a] = [fence |-> issued + 1, run |-> run]]
    /\ UNCHANGED <<needs, pending, acts, ended>>

Begin(a, f, op) ==
    /\ Holds(a, f) /\ op \notin pending[a]
    /\ pending' = [pending EXCEPT ![a] = @ \cup {op}]
    /\ acts' = acts \cup {<<a, f>>}
    /\ UNCHANGED <<hold, issued, needs, ended>>

Resolve(a, f, op) ==
    /\ Holds(a, f) /\ op \in pending[a]
    /\ pending' = [pending EXCEPT ![a] = @ \ {op}]
    /\ acts' = acts \cup {<<a, f>>}
    /\ UNCHANGED <<hold, issued, needs, ended>>

Act(a, f) ==
    /\ Holds(a, f)
    /\ acts' = acts \cup {<<a, f>>}
    /\ UNCHANGED <<hold, issued, needs, pending, ended>>

\* The attempt gives its hold up, as its last act and with nothing in doubt.
LetGo(a, f) ==
    /\ Holds(a, f) /\ pending[a] = {}
    /\ hold' = [hold EXCEPT ![a] = None]
    /\ acts' = acts \cup {<<a, f>>}
    /\ UNCHANGED <<issued, needs, pending, ended>>

RunEnds(run) ==
    /\ run \notin ended
    /\ ended' = ended \cup {run}
    /\ UNCHANGED <<hold, issued, needs, pending, acts>>

Next ==
    \/ \E a \in Attempts, run \in Runs, R \in SUBSET Resources : Admit(a, run, R)
    \/ \E a \in Attempts, run \in Runs : HandOver(a, run)
    \/ \E a \in Attempts, f \in 1 .. issued :
          \/ \E op \in Operations : Begin(a, f, op) \/ Resolve(a, f, op)
          \/ Act(a, f) \/ LetGo(a, f)
    \/ \E run \in Runs : RunEnds(run)

Spec == Init /\ [][Next]_vars

=============================================================================
