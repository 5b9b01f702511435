-------------------------- MODULE RunnerSupervisor --------------------------
(***************************************************************************)
(* runner/supervisor-internal.mjs: one call of runSupervisedRunner presents *)
(* a one-use activation challenge, waits for a GitHub run that attests it, *)
(* builds two networks, an egress proxy, a nested display and the one-job  *)
(* runner with the Docker CLI, waits for the runner and tears everything   *)
(* down.  Every call of the same process shares two module variables,      *)
(* activeDisplay and cleanupUnverified.                                    *)
(*                                                                         *)
(* The Docker daemon is a process of its own: a CLI that is killed by an   *)
(* abort, by its timeout or by the death of the supervisor may leave its   *)
(* command with the daemon, which carries it out at any later time.        *)
(***************************************************************************)
EXTENDS Naturals, FiniteSets, Sequences

CONSTANTS
    Calls,         \* calls of runSupervisedRunner, each with a fresh label
    Runs,          \* workflow runs an operator can dispatch and select
    Dispatched,    \* the call whose challenge a run was dispatched with and attests
    TTL,           \* ACTIVATION_CHALLENGE_TTL_MS in ticks
    Timeout,       \* timeoutMs of every call in ticks
    MaxAge,        \* bound of a call's age in ticks
    MaxCrashes,    \* bound of supervisor deaths
    MaxStrays,     \* bound of foreign containers joining a network
    NoCall, NoRun  \* model values for "none"

ASSUME SupervisorAssumption ==
    /\ IsFiniteSet(Calls) /\ NoCall \notin Calls /\ NoRun \notin Runs
    /\ Dispatched \in [Runs -> Calls]
    /\ TTL \in Nat \ {0} /\ Timeout \in Nat \ {0}
    /\ MaxAge \in Nat /\ MaxCrashes \in Nat /\ MaxStrays \in Nat

VARIABLES
    proc,      \* module variables of the running process, and its incarnation
    call,      \* per call: stage, challenge, selected run, abort flag, ...
    docker,    \* what the daemon holds: resources, running ones, peers
    inflight,  \* commands of killed CLIs the daemon may still carry out
    display,   \* the call whose Xephyr serves :99
    stray      \* whether a stranger joined a call's network, and before the last look

vars == <<proc, call, docker, inflight, display, stray>>

Networks   == {"internal", "external"}
Containers == {"proxy", "runner"}

-----------------------------------------------------------------------------
(* The order of the work.                                                  *)

Activation == <<"present", "select", "lookup", "verify", "prepare">>
Building   == <<"stale", "netInternal", "netExternal",
                "proxyCreate", "proxyConnect", "proxyInspect", "proxyStart", "proxyWait",
                "proxyOnInternal", "proxyOnExternal", "startDisplay", "probeDisplay",
                "beforeOnInternal", "beforeOnExternal", "token",
                "runnerCreate", "runnerInspect", "runnerOnInternal", "runnerOnExternal",
                "runnerStart", "runnerWait">>
Teardown   == <<"lsContainers", "rmContainers", "lsNetworks", "rmNetworks",
                "stopDisplay", "rmTemp">>
Script     == Activation \o Building \o Teardown

In(phase, s) == \E i \in DOMAIN phase : phase[i] = s
StageNo(s)   == CHOOSE i \in DOMAIN Script : Script[i] = s
After(s)     == Script[StageNo(s) + 1]

Ended(c)  == call[c].stage \in {"done", "lost"}
Active(c) == call[c].stage # "idle" /\ ~Ended(c)

-----------------------------------------------------------------------------
(* runner/activation.mjs: the challenge can be consumed once, and only     *)
(* while it is younger than its lifetime.                                  *)

Usable(c) == ~call[c].consumed /\ call[c].age < TTL

\* Mutant: any attested run is taken.
AnyRunMatches(c) == call[c].run \in Runs

\* What the hosted job of a run wrote and attested: the commitment, label and
\* candidate it was dispatched with (the call they belong to), run and attempt.
AttestedManifest(r) == [challenge |-> Dispatched[r], run |-> r]

\* The same manifest, rebuilt from the local challenge and the selected run.
ExpectedManifest(c) == [challenge |-> c, run |-> call[c].run]

\* gh verifies the attestation of exactly the rebuilt manifest.
AttestationMatches(c) == AttestedManifest(call[c].run) = ExpectedManifest(c)

-----------------------------------------------------------------------------
(* What the Docker daemon does with a command.                             *)

Members(d, c, n) == {m \in Containers \cup {"stray"} : <<c, n, m>> \in d.peers}

\* The daemon's precondition: the objects the command names still exist.
Feasible(d, c, s) ==
    CASE s \in {"netInternal", "netExternal"} -> TRUE
      [] s = "proxyCreate"  -> <<c, "internal">> \in d.res
      [] s = "proxyConnect" -> {<<c, "external">>, <<c, "proxy">>} \subseteq d.res
      [] s = "proxyStart"   -> <<c, "proxy">> \in d.res
      [] s = "runnerCreate" -> <<c, "internal">> \in d.res
      [] s = "runnerStart"  -> <<c, "runner">> \in d.res
      [] OTHER              -> FALSE

\* Its effect.
Execute(d, c, s) ==
    CASE s = "netInternal"  -> [d EXCEPT !.res = @ \cup {<<c, "internal">>}]
      [] s = "netExternal"  -> [d EXCEPT !.res = @ \cup {<<c, "external">>}]
      [] s = "proxyCreate"  -> [d EXCEPT !.res = @ \cup {<<c, "proxy">>},
                                         !.peers = @ \cup {<<c, "internal", "proxy">>}]
      [] s = "proxyConnect" -> [d EXCEPT !.peers = @ \cup {<<c, "external", "proxy">>}]
      [] s = "proxyStart"   -> [d EXCEPT !.up = @ \cup {<<c, "proxy">>}]
      [] s = "runnerCreate" -> [d EXCEPT !.res = @ \cup {<<c, "runner">>},
                                         !.peers = @ \cup {<<c, "internal", "runner">>}]
      [] s = "runnerStart"  -> [d EXCEPT !.up = @ \cup {<<c, "runner">>}]

Mutating == {"netInternal", "netExternal", "proxyCreate", "proxyConnect",
             "proxyStart", "runnerCreate", "runnerStart"}

\* Mutant: a removed container is still counted as running.
RemoveLeavesRunning(d, c, gone) ==
    [res   |-> d.res \ {<<c, r>> : r \in gone},
     up    |-> d.up,
     peers |-> {p \in d.peers : ~(p[1] = c /\ (p[3] \in gone \/ p[2] \in gone))}]

\* docker container rm --force: the containers leave their networks too.
RemoveFrom(d, c, gone) ==
    [res   |-> d.res \ {<<c, r>> : r \in gone},
     up    |-> d.up \ {<<c, r>> : r \in gone},
     peers |-> {p \in d.peers : ~(p[1] = c /\ (p[3] \in gone \/ p[2] \in gone))}]

-----------------------------------------------------------------------------
(* What each command that reads must find before the next one is sent.     *)

\* Mutant: the check for leftovers is skipped.
StaleResourcesIgnored == TRUE

\* assertNoStaleRunnerResources: no container or network carries the run
\* label, whoever created it.
NoStaleResources == docker.res = {}

\* Mutant: additional members are tolerated.
PeersInclude(c, n, expected) == expected \subseteq Members(docker, c, n)

\* verifyNetwork: exactly the expected members.
PeersAre(c, n, expected) == Members(docker, c, n) = expected

\* verifyProxy: attached to both networks and nothing else, (not) running.  What else
\* the inspections refuse (image, capabilities, mounts, environment, policy) depends
\* on the daemon alone and is one of the failures of StepFails.
ProxyVerified(c, running) ==
    /\ {n \in Networks : <<c, n, "proxy">> \in docker.peers} = Networks
    /\ (<<c, "proxy">> \in docker.up) = running

\* verifyRunner: attached to the internal network only, not running yet.
RunnerVerified(c) ==
    /\ {n \in Networks : <<c, n, "runner">> \in docker.peers} = {"internal"}
    /\ <<c, "runner">> \notin docker.up

\* Mutant: any server on :99 will do.
SomeDisplayAnswers(c) == display # NoCall

\* xset -q with the one-run cookie: only the Xephyr of this call accepts it.
DisplayAnswers(c) == display = c

\* A created network is inspected before the next command is sent.
Verified(c, s) ==
    CASE s = "stale"            -> NoStaleResources
      [] s = "netExternal"      -> PeersAre(c, "internal", {})
      [] s = "proxyCreate"      -> PeersAre(c, "external", {})
      [] s = "proxyInspect"     -> ProxyVerified(c, FALSE)
      [] s = "proxyWait"        -> ProxyVerified(c, TRUE)
      [] s \in {"proxyOnInternal", "beforeOnInternal"} -> PeersAre(c, "internal", {"proxy"})
      [] s \in {"proxyOnExternal", "beforeOnExternal", "runnerOnExternal"}
                                -> PeersAre(c, "external", {"proxy"})
      [] s = "probeDisplay"     -> DisplayAnswers(c)
      [] s = "runnerInspect"    -> RunnerVerified(c)
      [] s = "runnerOnInternal" -> PeersAre(c, "internal", {"proxy", "runner"})
      [] s = "runnerWait"       -> <<c, "runner">> \notin docker.up
      [] OTHER                  -> TRUE

-----------------------------------------------------------------------------
(* Entering.                                                               *)

IdleCall == [stage |-> "idle", age |-> 0, consumed |-> FALSE, run |-> NoRun,
             aborted |-> FALSE, token |-> FALSE, shown |-> FALSE, listed |-> {}, failed |-> FALSE, life |-> 0]

\* The local variables of a call go with it; its challenge is destroyed.
Over(k, how) == [IdleCall EXCEPT !.stage = how, !.consumed = TRUE, !.run = k.run, !.life = k.life]

Init ==
    /\ proc = [active |-> FALSE, unverified |-> FALSE, life |-> 0]
    /\ call = [c \in Calls |-> IdleCall]
    /\ docker = [res |-> {}, up |-> {}, peers |-> {}]
    /\ inflight = {}
    /\ display = NoCall
    /\ stray = [c \in Calls |-> "none"]

\* Refused while another call holds the display or a teardown is unverified;
\* otherwise the challenge is made and both timers are armed, in one go.
MayEnter == ~proc.unverified /\ ~proc.active

Enter(c) ==
    /\ call[c].stage = "idle"
    /\ MayEnter
    /\ proc' = [proc EXCEPT !.active = TRUE]
    /\ call' = [call EXCEPT ![c] = [@ EXCEPT !.stage = "present", !.life = proc.life]]
    /\ UNCHANGED <<docker, inflight, display, stray>>

Advance(c) == call' = [call EXCEPT ![c].stage = After(@)]

-----------------------------------------------------------------------------
(* Activation: present, select, look up, verify and consume.               *)

PresentActivation(c) ==
    /\ call[c].stage = "present" /\ ~call[c].aborted /\ Usable(c)
    /\ Advance(c)
    /\ UNCHANGED <<proc, docker, inflight, display, stray>>

\* The operator's selection is untrusted: any run.
SelectRun(c, r) ==
    /\ call[c].stage = "select" /\ ~call[c].aborted /\ Usable(c)
    /\ call' = [call EXCEPT ![c] = [@ EXCEPT !.stage = "lookup", !.run = r]]
    /\ UNCHANGED <<proc, docker, inflight, display, stray>>

ReadSelectedRun(c) ==
    /\ call[c].stage = "lookup" /\ ~call[c].aborted /\ Usable(c)
    /\ Advance(c)
    /\ UNCHANGED <<proc, docker, inflight, display, stray>>

VerifyAndConsume(c) ==
    /\ call[c].stage = "verify" /\ ~call[c].aborted /\ Usable(c)
    /\ AttestationMatches(c)
    /\ call' = [call EXCEPT ![c] = [@ EXCEPT !.stage = "prepare", !.consumed = TRUE]]
    /\ UNCHANGED <<proc, docker, inflight, display, stray>>

\* The parent's Xauthority is checked and the temporary directory made.
Prepare(c) ==
    /\ call[c].stage = "prepare" /\ ~call[c].aborted
    /\ Advance(c)
    /\ UNCHANGED <<proc, docker, inflight, display, stray>>

\* Any refusal before Docker: the challenge is destroyed and the display
\* released; a temporary directory that cannot be removed latches.
ActivationRefused(c) ==
    /\ In(Activation, call[c].stage)
    /\ \E tempLeft \in IF call[c].stage = "prepare" THEN BOOLEAN ELSE {FALSE} :
          proc' = [proc EXCEPT !.active = FALSE, !.unverified = @ \/ tempLeft]
    /\ call' = [call EXCEPT ![c] = Over(@, "done")]
    /\ UNCHANGED <<docker, inflight, display, stray>>

-----------------------------------------------------------------------------
(* Building and running.                                                   *)

Unsignalled == {"startDisplay", "token"}   \* calls that are not given the signal
CliStages   == {s \in {Building[i] : i \in DOMAIN Building} : s \notin Unsignalled}

\* The finally block clears the timers, the token and the challenge first.
ToTeardown(c) ==
    call' = [call EXCEPT ![c] = [@ EXCEPT !.stage = "lsContainers", !.age = 0,
                                 !.aborted = FALSE, !.token = FALSE, !.consumed = TRUE]]

\* One command is sent, carried out, answered and its answer verified.
DockerStep(c) ==
    LET s == call[c].stage
    IN  /\ s \in CliStages /\ ~call[c].aborted
        /\ Verified(c, s)
        /\ s \in Mutating => Feasible(docker, c, s)
        /\ docker' = IF s \in Mutating THEN Execute(docker, c, s) ELSE docker
        /\ IF s = "runnerWait" THEN ToTeardown(c)
           ELSE call' = [call EXCEPT ![c] = [@ EXCEPT !.stage = After(s),
                                             !.token = call[c].token /\ s # "runnerCreate"]]
        /\ UNCHANGED <<proc, inflight, display, stray>>

\* Xephyr is spawned without the signal; it serves :99 unless an orphan does.
StartDisplay(c) ==
    /\ call[c].stage = "startDisplay"
    /\ display' = IF display = NoCall THEN c ELSE display
    /\ call' = [call EXCEPT ![c] = [@ EXCEPT !.stage = After(call[c].stage), !.shown = TRUE]]
    /\ UNCHANGED <<proc, docker, inflight, stray>>

\* getRegistrationToken is not given the signal either.
ReceiveToken(c) ==
    /\ call[c].stage = "token"
    /\ call' = [call EXCEPT ![c] = [@ EXCEPT !.stage = After(call[c].stage), !.token = TRUE]]
    /\ UNCHANGED <<proc, docker, inflight, display, stray>>

\* A command, an inspection, the display or the token callback fails: the
\* finally block starts.  Nothing was handed to the daemon.
StepFails(c) ==
    /\ In(Building, call[c].stage)
    /\ ToTeardown(c)
    /\ UNCHANGED <<proc, docker, inflight, display, stray>>

\* The abort or the command's own timeout kills the CLI while its command
\* is with the daemon.
CliKilled(c) ==
    /\ call[c].stage \in Mutating
    /\ ToTeardown(c)
    /\ inflight' = inflight \cup {<<c, call[c].stage>>}
    /\ UNCHANGED <<proc, docker, display, stray>>

\* The daemon carries a left-over command out, or drops it.
DaemonCatchesUp(k) ==
    /\ k \in inflight
    /\ inflight' = inflight \ {k}
    /\ docker' = IF Feasible(docker, k[1], k[2]) THEN Execute(docker, k[1], k[2]) ELSE docker
    /\ UNCHANGED <<proc, call, display, stray>>

-----------------------------------------------------------------------------
(* Teardown: none of it is given the signal.                               *)

Owned(c, kinds) == {r \in kinds : <<c, r>> \in docker.res}

List(c, kinds) ==
    /\ \/ call' = [call EXCEPT ![c] = [@ EXCEPT !.stage = After(call[c].stage),
                                               !.listed = Owned(c, kinds)]]
       \/ call' = [call EXCEPT ![c] = [@ EXCEPT !.stage = After(call[c].stage),
                                               !.listed = {}, !.failed = TRUE]]
    /\ UNCHANGED <<proc, docker, inflight, display, stray>>

ListContainers(c) == call[c].stage = "lsContainers" /\ List(c, Containers)
ListNetworks(c)   == call[c].stage = "lsNetworks" /\ List(c, Networks)

\* Every listed resource whose inspection confirms its identity is removed by
\* one command; a failure may leave any of them behind.
Remove(c, removable) ==
    /\ \E gone \in SUBSET removable, answered \in BOOLEAN :
          /\ docker' = RemoveFrom(docker, c, gone)
          /\ answered => gone = call[c].listed
          /\ call' = [call EXCEPT ![c] = [@ EXCEPT !.stage = After(call[c].stage), !.listed = {},
                                                  !.failed = call[c].failed \/ ~answered]]
    /\ UNCHANGED <<proc, inflight, display, stray>>

RemoveContainers(c) ==
    /\ call[c].stage = "rmContainers"
    /\ Remove(c, call[c].listed)

\* Docker refuses to remove a network that still has members.
RemoveNetworks(c) ==
    /\ call[c].stage = "rmNetworks"
    /\ Remove(c, {n \in call[c].listed : Members(docker, c, n) = {}})

StopDisplay(c) ==
    /\ call[c].stage = "stopDisplay"
    /\ \/ /\ display' = IF display = c THEN NoCall ELSE display
          /\ Advance(c)
       \/ /\ call[c].shown
          /\ UNCHANGED display
          /\ call' = [call EXCEPT ![c] = [@ EXCEPT !.stage = "rmTemp", !.failed = TRUE]]
    /\ UNCHANGED <<proc, docker, inflight, stray>>

\* Mutant: only a directory that stays latches.
FinishForgetsFailures(c) ==
    /\ call[c].stage = "rmTemp"
    /\ \E tempLeft \in BOOLEAN :
          proc' = [proc EXCEPT !.active = FALSE, !.unverified = @ \/ tempLeft]
    /\ call' = [call EXCEPT ![c] = Over(@, "done")]
    /\ UNCHANGED <<docker, inflight, display, stray>>

\* The directory goes, the display is released and a failed teardown latches.
FinishTeardown(c) ==
    /\ call[c].stage = "rmTemp"
    /\ \E tempLeft \in BOOLEAN :
          proc' = [proc EXCEPT !.active = FALSE,
                               !.unverified = @ \/ call[c].failed \/ tempLeft]
    /\ call' = [call EXCEPT ![c] = Over(@, "done")]
    /\ UNCHANGED <<docker, inflight, display, stray>>

-----------------------------------------------------------------------------
(* Timers, cancellation and the death of the supervisor.                   *)

Armed(c) == Active(c) /\ ~In(Teardown, call[c].stage)

\* Mutant: consuming the challenge disarms both timers.
TimerDueUntilConsumed(c) ==
    Armed(c) /\ ~call[c].consumed /\ (call[c].age >= Timeout \/ call[c].age >= TTL)

\* Both timers stay armed until the teardown: consuming the challenge does
\* not disarm the challenge's.
TimerDue(c) == Armed(c) /\ (call[c].age >= Timeout \/ call[c].age >= TTL)

Abort(c) ==
    /\ Armed(c) /\ ~call[c].aborted
    /\ call' = [call EXCEPT ![c].aborted = TRUE]
    /\ UNCHANGED <<proc, docker, inflight, display, stray>>

TimerFires(c) == TimerDue(c) /\ Abort(c)
Cancel(c)     == Abort(c)

\* The process dies: its module variables are lost, and what its current
\* command asked of the daemon is not.
Crash ==
    /\ proc.life < MaxCrashes
    /\ proc' = [active |-> FALSE, unverified |-> FALSE, life |-> proc.life + 1]
    /\ inflight' = inflight \cup
         {<<c, call[c].stage>> : c \in {d \in Calls : call[d].stage \in Mutating}}
    /\ call' = [c \in Calls |-> IF Active(c) THEN Over(call[c], "lost") ELSE call[c]]
    /\ UNCHANGED <<docker, display, stray>>

-----------------------------------------------------------------------------
(* The surroundings: the runner, the display, foreign containers.  *)

RunnerExits(c) ==
    /\ <<c, "runner">> \in docker.up
    /\ docker' = [docker EXCEPT !.up = @ \ {<<c, "runner">>}]
    /\ UNCHANGED <<proc, call, inflight, display, stray>>

DisplayExits ==
    /\ display # NoCall
    /\ display' = NoCall
    /\ UNCHANGED <<proc, call, docker, inflight, stray>>

\* An inspection of the internal network is still to come.
LooksAgain(c) == StageNo(call[c].stage) <= StageNo("runnerOnInternal")

StrayJoins(c, n) ==
    /\ stray[c] = "none" /\ Cardinality({d \in Calls : stray[d] # "none"}) < MaxStrays
    /\ Active(c) /\ <<c, n>> \in docker.res
    /\ docker' = [docker EXCEPT !.peers = @ \cup {<<c, n, "stray">>}]
    /\ stray' = [stray EXCEPT ![c] = IF LooksAgain(c) THEN "early" ELSE "late"]
    /\ UNCHANGED <<proc, call, inflight, display>>

Tick(c) ==
    /\ Armed(c) /\ call[c].age < MaxAge
    /\ call' = [call EXCEPT ![c].age = @ + 1]
    /\ UNCHANGED <<proc, docker, inflight, display, stray>>

Next ==
    \/ \E c \in Calls :
         \/ Enter(c) \/ PresentActivation(c) \/ \E r \in Runs : SelectRun(c, r)
         \/ ReadSelectedRun(c) \/ VerifyAndConsume(c) \/ Prepare(c) \/ ActivationRefused(c)
         \/ DockerStep(c) \/ StartDisplay(c) \/ ReceiveToken(c) \/ StepFails(c) \/ CliKilled(c)
         \/ ListContainers(c) \/ RemoveContainers(c) \/ ListNetworks(c) \/ RemoveNetworks(c)
         \/ StopDisplay(c) \/ FinishTeardown(c)
         \/ Tick(c) \/ TimerFires(c) \/ Cancel(c)
         \/ RunnerExits(c)
         \/ \E n \in Networks : StrayJoins(c, n)
    \/ \E k \in inflight : DaemonCatchesUp(k)
    \/ Crash \/ DisplayExits

\* What the scheduler owes a call: time passes and due timers fire, an abort
\* reaches what the call waits for, spawning and the token callback answer,
\* and the teardown, whose commands have timeouts of their own, goes on.
AbortLands(c) == call[c].aborted /\ (StepFails(c) \/ CliKilled(c) \/ ActivationRefused(c))
TeardownStep(c) ==
    \/ ListContainers(c) \/ RemoveContainers(c) \/ ListNetworks(c) \/ RemoveNetworks(c)
    \/ StopDisplay(c) \/ FinishTeardown(c)

Fairness == \A c \in Calls :
    /\ WF_vars(Tick(c)) /\ WF_vars(TimerFires(c)) /\ WF_vars(AbortLands(c))
    /\ WF_vars(StartDisplay(c)) /\ WF_vars(ReceiveToken(c)) /\ WF_vars(TeardownStep(c))

Spec == Init /\ [][Next]_vars /\ Fairness

-----------------------------------------------------------------------------
(* Properties.                                                             *)

Stages == {"idle", "done", "lost"} \cup {Script[i] : i \in DOMAIN Script}

\* The variables have their types.
TypeOK ==
    /\ proc \in [active : BOOLEAN, unverified : BOOLEAN, life : 0..MaxCrashes]
    /\ call \in [Calls -> [stage : Stages, age : 0..MaxAge, consumed : BOOLEAN,
                           run : Runs \cup {NoRun}, aborted : BOOLEAN, token : BOOLEAN,
                           shown : BOOLEAN, listed : SUBSET (Networks \cup Containers),
                           failed : BOOLEAN, life : 0..MaxCrashes]]
    /\ docker.res \subseteq Calls \X (Networks \cup Containers)
    /\ docker.up \subseteq docker.res
    /\ docker.peers \subseteq Calls \X Networks \X (Containers \cup {"stray"})
    /\ inflight \subseteq Calls \X Mutating
    /\ display \in Calls \cup {NoCall}
    /\ stray \in [Calls -> {"none", "early", "late"}]

RunnerUp(c) == <<c, "runner">> \in docker.up

\* Two runners never run at once, not even when a supervisor died with one
\* running or a killed CLI left its start command with the daemon: the stale
\* resource check of the next call sees every container that can still start.
OneRunnerAtATime == \A c, d \in Calls : RunnerUp(c) /\ RunnerUp(d) => c = d

\* A runner that outlives its call has latched the supervisor: as long as the
\* process lives no other call can start (runner_cleanup_unverified).
OrphanRunnerLatches ==
    \A c \in Calls :
        (RunnerUp(c) /\ call[c].stage = "done" /\ call[c].life = proc.life) => proc.unverified

\* Docker resources and registration tokens exist only for a call whose own
\* challenge the selected run was dispatched with: a run the operator picked
\* by mistake, or one that served an earlier call, activates nothing.
OnlyAttestedCallsBuild ==
    \A c \in Calls :
        (call[c].token \/ \E r \in Networks \cup Containers : <<c, r>> \in docker.res)
          => call[c].consumed /\ call[c].run \in Runs /\ Dispatched[call[c].run] = c

\* A stranger on the runner's network that was there at the last inspection
\* of the network keeps the runner from starting.
RunnerStartsAmongKnownPeers ==
    \A c \in Calls :
        (RunnerUp(c) /\ <<c, "internal", "stray">> \in docker.peers)
          => stray[c] = "late"

\* The display a running runner reaches through the mounted socket is never
\* another call's: a Xephyr left behind by a dead supervisor keeps :99 but
\* does not accept the new cookie.
RunnerSeesOwnDisplay == \A c \in Calls : RunnerUp(c) => display \in {c, NoCall}

\* Every call that was entered ends: the timers bound a runner that never
\* exits and an operator who never selects a run.  The caller's token callback,
\* which is given no signal, must answer or fail for that.
EveryCallEnds == \A c \in Calls : (call[c].stage # "idle") ~> Ended(c)

=============================================================================
