----------------------- MODULE RunnerSupervisorProofs -----------------------
(***************************************************************************)
(* For any number of calls, runs, crashes and strangers, and whatever the  *)
(* Docker daemon still carries out after the CLI of a command was killed:  *)
(* no two runners at a time, a runner that outlives its call latches its   *)
(* supervisor, only an attested run builds anything, no runner starts      *)
(* beside a stranger that an inspection could see or on another call's     *)
(* display.                                                                *)
(***************************************************************************)
EXTENDS RunnerSupervisor, SequenceTheorems, TLAPS

-----------------------------------------------------------------------------
(* Groups of stages.                                                       *)

Unattested   == {"idle", "present", "select", "lookup", "verify"}
BuildStages  == {"stale", "netInternal", "netExternal", "proxyCreate", "proxyConnect", "proxyInspect",
                 "proxyStart", "proxyWait", "proxyOnInternal", "proxyOnExternal", "startDisplay",
                 "probeDisplay", "beforeOnInternal", "beforeOnExternal", "token", "runnerCreate",
                 "runnerInspect", "runnerOnInternal", "runnerOnExternal", "runnerStart", "runnerWait"}
CleanStages  == BuildStages \ {"stale"}
Probed       == {"beforeOnInternal", "beforeOnExternal", "token", "runnerCreate", "runnerInspect",
                 "runnerOnInternal", "runnerOnExternal", "runnerStart", "runnerWait"}
Inspected    == {"runnerOnExternal", "runnerStart", "runnerWait"}
Removed      == {"lsNetworks", "rmNetworks", "stopDisplay", "rmTemp"}
EndStages    == {"lsContainers", "rmContainers"} \cup Removed
Gone         == {"done", "lost"}

-----------------------------------------------------------------------------
(* The inductive invariant.                                                *)

Kinds == Networks \cup Containers

CallRecord == [stage : Stages, age : 0..MaxAge, consumed : BOOLEAN, run : Runs \cup {NoRun},
               aborted : BOOLEAN, token : BOOLEAN, shown : BOOLEAN, listed : SUBSET Kinds,
               failed : BOOLEAN, life : 0..MaxCrashes]
Process == [active : BOOLEAN, unverified : BOOLEAN, life : 0..MaxCrashes]
Daemon  == [res : SUBSET (Calls \X Kinds), up : SUBSET (Calls \X Kinds),
            peers : SUBSET (Calls \X Networks \X (Containers \cup {"stray"}))]

Types ==
    /\ proc \in Process
    /\ call \in [Calls -> CallRecord]
    /\ docker \in Daemon /\ docker.up \subseteq docker.res
    /\ inflight \in SUBSET (Calls \X Mutating)
    /\ display \in Calls \cup {NoCall}
    /\ stray \in [Calls -> {"none", "early", "late"}]

\* One call at a time holds the display of a supervisor, and none is of the future.
Exclusive ==
    /\ \A c \in Calls : call[c].life <= proc.life
    /\ \A c \in Calls : Active(c) => proc.active
    /\ \A c, d \in Calls : Active(c) /\ Active(d) => c = d

Attested(c) == call[c].consumed /\ call[c].run \in Runs /\ Dispatched[call[c].run] = c

\* Nothing of a call is built, asked for or torn down before its run is attested.
AttestedFirst ==
    \A c \in Calls :
        /\ call[c].stage \in Unattested => ~call[c].consumed
        /\ call[c].stage \in {"lookup", "verify"} => call[c].run \in Runs
        /\ call[c].stage \in {"prepare"} \cup BuildStages \cup EndStages => Attested(c)
        /\ call[c].token => Attested(c)
        /\ \A r \in Kinds : <<c, r>> \in docker.res => Attested(c)
        /\ \A s \in Mutating : <<c, s>> \in inflight => Attested(c)

\* A call leaves the daemon at most one command, when its building is over.
OneLeftOver ==
    \A c \in Calls, s, t \in Mutating :
        <<c, s>> \in inflight =>
            /\ call[c].stage \in EndStages \cup Gone
            /\ (<<c, t>> \in inflight => s = t)

\* The runner of a call runs, or will if the daemon carries out the command left to it.
Startable(c) ==
    RunnerUp(c) \/ (<<c, "runner">> \in docker.res /\ <<c, "runnerStart">> \in inflight)

\* A runner that may run has a call that waits for it, will remove it, or has failed to.
Answers(k) ==
    \/ k.stage \in {"runnerWait", "lsContainers", "lost"}
    \/ k.stage = "rmContainers" /\ ("runner" \in k.listed \/ k.failed)
    \/ k.stage \in Removed /\ k.failed
    \/ k.stage = "done" /\ (k.life = proc.life => proc.unverified)
Accounted == \A c \in Calls : Startable(c) => Answers(call[c])

\* A call has a runner container, or will have one by the command it left to the daemon.
Housed(c) ==
    \/ <<c, "runner">> \in docker.res
    \/ <<c, "internal">> \in docker.res /\ <<c, "runnerCreate">> \in inflight

\* At most one call is housed, and while a call builds no other is.
OneHoused ==
    /\ \A c, d \in Calls : Housed(c) /\ Housed(d) => c = d
    /\ \A c, d \in Calls : call[c].stage \in CleanStages /\ Housed(d) => c = d

\* The display is probed before the runner exists and never another call's since.
OwnDisplay ==
    \A c \in Calls :
        call[c].stage \in Probed \/ Startable(c) => display \in {c, NoCall}

\* A stranger that came before the last look at the runner's network stops the call.
Strangers ==
    \A c \in Calls :
        /\ \A n \in Networks : <<c, n, "stray">> \in docker.peers => stray[c] # "none"
        /\ stray[c] = "early" /\ <<c, "internal", "stray">> \in docker.peers =>
             /\ call[c].stage \notin Inspected
             /\ ~RunnerUp(c) /\ <<c, "runnerStart">> \notin inflight

Inv == Types /\ Exclusive /\ AttestedFirst /\ OneLeftOver /\ Accounted /\ OneHoused /\ OwnDisplay /\ Strangers

-----------------------------------------------------------------------------
(* The order of the stages.                                                *)

ScriptStages == {"present", "select", "lookup", "verify", "prepare"} \cup BuildStages \cup EndStages

UpToBuilding ==
    <<"present", "select", "lookup", "verify", "prepare",
      "stale", "netInternal", "netExternal", "proxyCreate", "proxyConnect", "proxyInspect",
      "proxyStart", "proxyWait", "proxyOnInternal", "proxyOnExternal", "startDisplay",
      "probeDisplay", "beforeOnInternal", "beforeOnExternal", "token", "runnerCreate",
      "runnerInspect", "runnerOnInternal", "runnerOnExternal", "runnerStart", "runnerWait">>
WholeScript ==
    <<"present", "select", "lookup", "verify", "prepare",
      "stale", "netInternal", "netExternal", "proxyCreate", "proxyConnect", "proxyInspect",
      "proxyStart", "proxyWait", "proxyOnInternal", "proxyOnExternal", "startDisplay",
      "probeDisplay", "beforeOnInternal", "beforeOnExternal", "token", "runnerCreate",
      "runnerInspect", "runnerOnInternal", "runnerOnExternal", "runnerStart", "runnerWait",
      "lsContainers", "rmContainers", "lsNetworks", "rmNetworks", "stopDisplay", "rmTemp">>

LEMMA Concatenated ==
    ASSUME NEW S, NEW a \in Seq(S), NEW b \in Seq(S), NEW c \in Seq(S), Len(c) = Len(a) + Len(b),
           \A i \in 1..Len(a) : c[i] = a[i], \A i \in 1..Len(b) : c[Len(a) + i] = b[i]
    PROVE  a \o b = c
<1>1. a \o b \in Seq(S) /\ Len(a \o b) = Len(a) + Len(b)
  BY ConcatProperties
<1>2. \A i \in 1..(Len(a) + Len(b)) : (a \o b)[i] = c[i]
  <2> TAKE i \in 1..(Len(a) + Len(b))
  <2>0. (a \o b)[i] = IF i <= Len(a) THEN a[i] ELSE b[i - Len(a)]
    BY ConcatProperties
  <2>1. CASE i <= Len(a)
    BY <2>0, <2>1
  <2>2. CASE i > Len(a)
    <3>1. PICK j \in 1..Len(b) : i = Len(a) + j
      <4>1. i - Len(a) \in 1..Len(b) /\ i = Len(a) + (i - Len(a))
        BY <2>2
      <4> QED BY <4>1
    <3>2. i - Len(a) = j
      BY <3>1
    <3> QED BY <2>0, <2>2, <3>1, <3>2
  <2> QED BY <2>1, <2>2
<1> QED BY <1>1, <1>2, SeqEqual

LEMMA ScriptIs == Script = WholeScript
<1>0. /\ Activation \in Seq(ScriptStages) /\ Len(Activation) = 5
      /\ Building \in Seq(ScriptStages) /\ Len(Building) = 21
      /\ Teardown \in Seq(ScriptStages) /\ Len(Teardown) = 6
      /\ UpToBuilding \in Seq(ScriptStages) /\ Len(UpToBuilding) = 26
      /\ WholeScript \in Seq(ScriptStages) /\ Len(WholeScript) = 32
  BY DEF Activation, Building, Teardown, UpToBuilding, WholeScript, ScriptStages, BuildStages,
     EndStages, Removed
<1>1. Activation \o Building = UpToBuilding
  <2>1. /\ \A i \in 1..5 : UpToBuilding[i] = Activation[i]
        /\ \A i \in 1..21 : UpToBuilding[5 + i] = Building[i]
    BY DEF Activation, Building, UpToBuilding
  <2>2. /\ Activation \in Seq(ScriptStages) /\ Building \in Seq(ScriptStages)
        /\ UpToBuilding \in Seq(ScriptStages) /\ Len(UpToBuilding) = Len(Activation) + Len(Building)
    BY <1>0
  <2>3. /\ \A i \in 1..Len(Activation) : UpToBuilding[i] = Activation[i]
        /\ \A i \in 1..Len(Building) : UpToBuilding[Len(Activation) + i] = Building[i]
    BY <1>0, <2>1
  <2> QED BY <2>2, <2>3, Concatenated, Zenon
<1>2. UpToBuilding \o Teardown = WholeScript
  <2>1. /\ \A i \in 1..26 : WholeScript[i] = UpToBuilding[i]
        /\ \A i \in 1..6 : WholeScript[26 + i] = Teardown[i]
    BY DEF Teardown, WholeScript, UpToBuilding
  <2>2. /\ UpToBuilding \in Seq(ScriptStages) /\ Teardown \in Seq(ScriptStages)
        /\ WholeScript \in Seq(ScriptStages) /\ Len(WholeScript) = Len(UpToBuilding) + Len(Teardown)
    BY <1>0
  <2>3. /\ \A i \in 1..Len(UpToBuilding) : WholeScript[i] = UpToBuilding[i]
        /\ \A i \in 1..Len(Teardown) : WholeScript[Len(UpToBuilding) + i] = Teardown[i]
    BY <1>0, <2>1
  <2> QED BY <2>2, <2>3, Concatenated, Zenon
<1> QED BY <1>1, <1>2 DEF Script

\* The place of every stage.
LEMMA Places ==
    /\ DOMAIN Script = 1..32
    /\ \A i \in 1..32 : Script[i] \in ScriptStages /\ StageNo(Script[i]) = i
<1>1. DOMAIN Script = 1..32
  BY ScriptIs DEF WholeScript
<1>2. \A i, j \in 1..32 : Script[i] = Script[j] => i = j
  <2>1. \A i, j \in 1..32 : WholeScript[i] = WholeScript[j] => i = j
    BY SMTT(60) DEF WholeScript
  <2> QED BY <2>1, ScriptIs
<1>3. \A i \in 1..32 : StageNo(Script[i]) = i
  BY <1>1, <1>2 DEF StageNo
<1>4. \A i \in 1..32 : Script[i] \in ScriptStages
  BY ScriptIs DEF WholeScript, ScriptStages, BuildStages, EndStages, Removed
<1> QED BY <1>1, <1>3, <1>4

LEMMA PhaseStages ==
    /\ \A s : In(Activation, s) <=> s \in {"present", "select", "lookup", "verify", "prepare"}
    /\ \A s : In(Building, s) <=> s \in BuildStages
    /\ \A s : In(Teardown, s) <=> s \in EndStages
    /\ CliStages = BuildStages \ {"startDisplay", "token"}
    /\ Stages = {"idle", "done", "lost"} \cup ScriptStages
<1>1. \A s : In(Activation, s) <=> s \in {"present", "select", "lookup", "verify", "prepare"}
  BY DEF In, Activation
<1>2. \A s : In(Building, s) <=> s \in BuildStages
  BY DEF In, Building, BuildStages
<1>3. \A s : In(Teardown, s) <=> s \in EndStages
  BY DEF In, Teardown, EndStages, Removed
<1>4. CliStages = BuildStages \ {"startDisplay", "token"}
  <2>1. \A s : s \in CliStages <=> In(Building, s) /\ s \notin Unsignalled
    BY DEF CliStages, In
  <2> QED BY <1>2, <2>1 DEF Unsignalled
<1>5. {Script[i] : i \in DOMAIN Script} = ScriptStages
  <2>1. \A s \in ScriptStages : \E i \in 1..32 : WholeScript[i] = s
    BY DEF WholeScript, ScriptStages, BuildStages, EndStages, Removed
  <2> QED BY <2>1, Places, ScriptIs
<1> QED BY <1>1, <1>2, <1>3, <1>4, <1>5 DEF Stages

\* What follows each stage.
LEMMA Succession ==
    /\ After("present") = "select" /\ After("select") = "lookup" /\ After("lookup") = "verify"
    /\ After("verify") = "prepare" /\ After("prepare") = "stale"
    /\ \A s \in BuildStages \ {"runnerWait"} :
         /\ After(s) \in CleanStages
         /\ After(s) \in Probed => s \in Probed \cup {"probeDisplay"}
         /\ After(s) \in Inspected => s \in Inspected \cup {"runnerOnInternal"}
         /\ After(s) = "runnerWait" <=> s = "runnerStart"
    /\ After("lsContainers") = "rmContainers" /\ After("rmContainers") = "lsNetworks"
    /\ After("lsNetworks") = "rmNetworks" /\ After("rmNetworks") = "stopDisplay"
    /\ After("stopDisplay") = "rmTemp"
<1>1. \A i \in 1..31 : After(WholeScript[i]) = WholeScript[i + 1]
  <2> TAKE i \in 1..31
  <2>1. i \in 1..32 /\ StageNo(Script[i]) = i
    BY Places
  <2> QED BY <2>1, ScriptIs DEF After
<1>2. /\ After("present") = "select" /\ After("select") = "lookup" /\ After("lookup") = "verify"
      /\ After("verify") = "prepare" /\ After("prepare") = "stale"
  <2>1. /\ After(WholeScript[1]) = WholeScript[2] /\ After(WholeScript[2]) = WholeScript[3]
        /\ After(WholeScript[3]) = WholeScript[4] /\ After(WholeScript[4]) = WholeScript[5]
        /\ After(WholeScript[5]) = WholeScript[6]
    BY <1>1
  <2> QED BY <2>1 DEF WholeScript
<1>3. /\ After("lsContainers") = "rmContainers" /\ After("rmContainers") = "lsNetworks"
      /\ After("lsNetworks") = "rmNetworks" /\ After("rmNetworks") = "stopDisplay"
      /\ After("stopDisplay") = "rmTemp"
  <2>1. /\ After(WholeScript[27]) = WholeScript[28] /\ After(WholeScript[28]) = WholeScript[29]
        /\ After(WholeScript[29]) = WholeScript[30] /\ After(WholeScript[30]) = WholeScript[31]
        /\ After(WholeScript[31]) = WholeScript[32]
    BY <1>1
  <2> QED BY <2>1 DEF WholeScript
<1>4. ASSUME NEW s \in BuildStages \ {"runnerWait"}
      PROVE  /\ After(s) \in CleanStages
             /\ After(s) \in Probed => s \in Probed \cup {"probeDisplay"}
             /\ After(s) \in Inspected => s \in Inspected \cup {"runnerOnInternal"}
             /\ After(s) = "runnerWait" <=> s = "runnerStart"
  <2>1. PICK i \in 6..25 : s = WholeScript[i]
    BY DEF BuildStages, WholeScript
  <2>2. i \in 1..31
    BY <2>1
  <2>3. After(s) = WholeScript[i + 1]
    BY <1>1, <2>1, <2>2
  <2>4. /\ WholeScript[i + 1] \in CleanStages
        /\ WholeScript[i + 1] \in Probed => WholeScript[i] \in Probed \cup {"probeDisplay"}
        /\ WholeScript[i + 1] \in Inspected => WholeScript[i] \in Inspected \cup {"runnerOnInternal"}
        /\ WholeScript[i + 1] = "runnerWait" <=> WholeScript[i] = "runnerStart"
    BY SMTT(60) DEF WholeScript, CleanStages, BuildStages, Probed, Inspected
  <2> QED BY <2>1, <2>3, <2>4
<1> QED BY <1>2, <1>3, <1>4

\* The inspections still to come.
LEMMA LooksLeft ==
    ASSUME NEW c \in Calls, call[c].stage \in ScriptStages, LooksAgain(c)
    PROVE  call[c].stage \notin Inspected \cup EndStages
<1>1. \A i \in 1..32 : WholeScript[i] \in Inspected \cup EndStages => i > 23
  BY SMTT(60) DEF WholeScript, Inspected, EndStages, Removed
<1>2. WholeScript[23] = "runnerOnInternal"
  BY DEF WholeScript
<1>3. StageNo("runnerOnInternal") = 23
  <2>1. StageNo(Script[23]) = 23
    BY Places
  <2> QED BY <1>2, <2>1, ScriptIs
<1>4. PICK i \in 1..32 : call[c].stage = Script[i]
  <2>1. call[c].stage \in Stages
    BY PhaseStages
  <2>2. \A s \in ScriptStages : s \notin {"idle", "done", "lost"}
    BY DEF ScriptStages, BuildStages, EndStages, Removed
  <2> QED BY <2>1, <2>2, Places DEF Stages
<1>5. StageNo(call[c].stage) = i
  BY <1>4, Places
<1> QED BY <1>1, <1>3, <1>4, <1>5, ScriptIs DEF LooksAgain

-----------------------------------------------------------------------------
(* Steps that build nothing.                                               *)

\* A runner that may run is one that is there, and so is its call's house.
LEMMA Present ==
    ASSUME Types, NEW c \in Calls, Startable(c)
    PROVE  <<c, "runner">> \in docker.res /\ Housed(c)
BY DEF Types, Startable, RunnerUp, Housed

\* The stages of a call that is neither idle nor over.
LEMMA ActiveStages ==
    ASSUME Types, NEW c \in Calls
    PROVE  /\ call[c] \in CallRecord /\ call[c].stage \in Stages
           /\ Active(c) <=> call[c].stage \in ScriptStages
           /\ Active(c) <=> call[c].stage \notin {"idle", "done", "lost"}
<1>1. call[c] \in CallRecord /\ call[c].stage \in Stages
  BY DEF Types, CallRecord
<1>2. Stages = {"idle", "done", "lost"} \cup ScriptStages
  BY PhaseStages
<1>3. \A s \in ScriptStages : s \notin {"idle", "done", "lost"}
  BY DEF ScriptStages, BuildStages, EndStages, Removed
<1> QED BY <1>1, <1>2, <1>3 DEF Active, Ended

\* What call c's record k may be after a step under which the daemon's holdings and
\* the commands left to it can only shrink.
Keeps(c, k) ==
    /\ k.stage \in Unattested => ~k.consumed
    /\ k.stage \in {"lookup", "verify"} => k.run \in Runs
    /\ k.token \/ k.stage \in {"prepare"} \cup BuildStages \cup EndStages =>
         k.consumed /\ k.run \in Runs /\ Dispatched[k.run] = c
    /\ Attested(c) => k.consumed /\ k.run = call[c].run
    /\ call[c].stage \in EndStages \cup Gone => k.stage \in EndStages \cup Gone
    /\ k.stage \in CleanStages => call[c].stage \in CleanStages \/ docker.res = {}
    /\ k.stage \in Probed => call[c].stage \in Probed \/ display = c
    /\ k.stage \in Inspected => call[c].stage \in Inspected \/ <<c, "internal", "stray">> \notin docker.peers

Shrinks ==
    /\ docker' \in Daemon /\ docker'.up \subseteq docker'.res
    /\ docker'.res \subseteq docker.res /\ docker'.up \subseteq docker.up
    /\ docker'.peers \subseteq docker.peers /\ inflight' \subseteq inflight

LEMMA Moves ==
    ASSUME Inv, NEW c \in Calls, NEW k \in CallRecord, call' = [call EXCEPT ![c] = k],
           Keeps(c, k), Shrinks, stray' = stray,
           proc' \in Process, proc'.life = proc.life, proc.unverified => proc'.unverified,
           k.life <= proc.life,
           k.stage \notin {"idle", "done", "lost"} => proc'.active /\ (Active(c) \/ ~proc.active),
           ~proc'.active => Active(c) \/ ~proc.active,
           Startable(c)' => Answers(k)',
           \/ display' \in {display, NoCall}
           \/ display' = c /\ call[c].stage \in CleanStages,
           k.stage \in Probed => display' \in {display, NoCall}
    PROVE  Inv'
<1>0. Types /\ Exclusive /\ AttestedFirst /\ OneLeftOver /\ Accounted /\ OneHoused /\ OwnDisplay /\ Strangers
  BY DEF Inv
<1>1. /\ call'[c] = k /\ call' \in [Calls -> CallRecord]
      /\ \A d \in Calls : d # c => call'[d] = call[d]
  BY <1>0 DEF Types
<1>2. Types'
  BY <1>0, <1>1 DEF Types, Shrinks
<1>3. \A d \in Calls : /\ (d # c => (Active(d)' <=> Active(d)))
                       /\ (Active(c)' <=> k.stage \notin {"idle", "done", "lost"})
  BY <1>1 DEF Active, Ended
<1>4. Exclusive'
  <2>1. \A d \in Calls : call'[d].life <= proc'.life
    BY <1>0, <1>1 DEF Exclusive
  <2>2. \A d \in Calls : Active(d)' => proc'.active
    BY <1>0, <1>3 DEF Exclusive
  <2>3. \A d, e \in Calls : Active(d)' /\ Active(e)' => d = e
    BY <1>0, <1>3 DEF Exclusive
  <2> QED BY <2>1, <2>2, <2>3 DEF Exclusive
<1>5. \A d \in Calls : /\ (Startable(d)' => Startable(d))
                       /\ (Housed(d)' => Housed(d))
  BY DEF Startable, RunnerUp, Housed, Shrinks
<1>6. AttestedFirst'
  <2> SUFFICES ASSUME NEW d \in Calls
               PROVE  /\ call'[d].stage \in Unattested => ~call'[d].consumed
                      /\ call'[d].stage \in {"lookup", "verify"} => call'[d].run \in Runs
                      /\ call'[d].stage \in {"prepare"} \cup BuildStages \cup EndStages => Attested(d)'
                      /\ call'[d].token => Attested(d)'
                      /\ \A r \in Kinds : <<d, r>> \in docker'.res => Attested(d)'
                      /\ \A s \in Mutating : <<d, s>> \in inflight' => Attested(d)'
    BY DEF AttestedFirst
  <2>1. CASE d # c
    BY <1>0, <1>1, <2>1 DEF AttestedFirst, Attested, Shrinks
  <2>2. CASE d = c
    <3>1. Attested(c) => Attested(c)'
      BY <1>1 DEF Keeps, Attested
    <3>2. k.token \/ k.stage \in {"prepare"} \cup BuildStages \cup EndStages => Attested(c)'
      BY <1>1 DEF Keeps, Attested
    <3>3. /\ \A r \in Kinds : <<c, r>> \in docker'.res => Attested(c)
          /\ \A s \in Mutating : <<c, s>> \in inflight' => Attested(c)
      BY <1>0 DEF AttestedFirst, Shrinks
    <3>4. /\ k.stage \in Unattested => ~k.consumed
          /\ k.stage \in {"lookup", "verify"} => k.run \in Runs
      BY DEF Keeps
    <3> QED BY <1>1, <2>2, <3>1, <3>2, <3>3, <3>4
  <2> QED BY <2>1, <2>2
<1>7. OneLeftOver'
  <2>1. call[c].stage \in EndStages \cup Gone => k.stage \in EndStages \cup Gone
    BY DEF Keeps
  <2> QED BY <1>0, <1>1, <2>1 DEF OneLeftOver, Shrinks
<1>8. Accounted'
  <2> SUFFICES ASSUME NEW d \in Calls, Startable(d)'
               PROVE  Answers(call[d])'
    BY DEF Accounted
  <2>1. CASE d = c
    BY <1>1, <2>1 DEF Answers
  <2>2. CASE d # c
    <3>1. Answers(call[d]) /\ call'[d] = call[d]
      BY <1>0, <1>1, <1>5, <2>2 DEF Accounted
    <3> QED BY <3>1 DEF Answers
  <2> QED BY <2>1, <2>2
<1>9. OneHoused'
  <2>1. ASSUME NEW d \in Calls, NEW e \in Calls, call'[d].stage \in CleanStages, Housed(e)'
        PROVE  d = e
    <3>1. CASE d # c
      BY <1>0, <1>1, <1>5, <2>1, <3>1 DEF OneHoused
    <3>2. CASE d = c
      <4>1. call[c].stage \in CleanStages \/ docker.res = {}
        BY <1>1, <2>1, <3>2 DEF Keeps
      <4>2. docker.res # {}
        BY <1>5, <2>1 DEF Housed
      <4> QED BY <1>0, <1>5, <2>1, <3>2, <4>1, <4>2 DEF OneHoused
    <3> QED BY <3>1, <3>2
  <2>2. \A d, e \in Calls : Housed(d)' /\ Housed(e)' => d = e
    BY <1>0, <1>5 DEF OneHoused
  <2> QED BY <2>1, <2>2 DEF OneHoused
<1>10. OwnDisplay'
  <2> SUFFICES ASSUME NEW d \in Calls, call'[d].stage \in Probed \/ Startable(d)'
               PROVE  display' \in {d, NoCall}
    BY DEF OwnDisplay
  <2>1. CASE display' = c /\ call[c].stage \in CleanStages /\ k.stage \notin Probed
    <3>1. Startable(d)' => d = c
      BY <1>0, <1>5, <2>1, Present DEF OneHoused
    <3>2. call'[d].stage \in Probed => d = c
      <4>1. ASSUME call'[d].stage \in Probed, d # c
            PROVE  FALSE
        <5>1. call[d].stage \notin {"idle", "done", "lost"}
          BY <1>1, <4>1 DEF Probed
        <5>2. call[c].stage \notin {"idle", "done", "lost"}
          BY <2>1 DEF CleanStages, BuildStages
        <5> QED BY <1>0, <4>1, <5>1, <5>2, ActiveStages DEF Exclusive
      <4> QED BY <4>1
    <3> QED BY <2>1, <3>1, <3>2
  <2>2. CASE display' \in {display, NoCall}
    <3>1. call[d].stage \in Probed \/ Startable(d) \/ display = d
      <4>1. CASE d = c
        BY <1>1, <1>5, <4>1 DEF Keeps
      <4>2. CASE d # c
        BY <1>1, <1>5, <4>2
      <4> QED BY <4>1, <4>2
    <3> QED BY <1>0, <2>2, <3>1 DEF OwnDisplay
  <2> QED BY <2>1, <2>2
<1>11. Strangers'
  <2> SUFFICES ASSUME NEW d \in Calls
               PROVE  /\ \A n \in Networks : <<d, n, "stray">> \in docker'.peers => stray'[d] # "none"
                      /\ stray'[d] = "early" /\ <<d, "internal", "stray">> \in docker'.peers =>
                           /\ call'[d].stage \notin Inspected
                           /\ ~RunnerUp(d)' /\ <<d, "runnerStart">> \notin inflight'
    BY DEF Strangers
  <2>1. \A n \in Networks : <<d, n, "stray">> \in docker'.peers => stray'[d] # "none"
    BY <1>0 DEF Strangers, Shrinks
  <2>2. ASSUME stray'[d] = "early", <<d, "internal", "stray">> \in docker'.peers
        PROVE  /\ call'[d].stage \notin Inspected
               /\ ~RunnerUp(d)' /\ <<d, "runnerStart">> \notin inflight'
    <3>1. /\ <<d, "internal", "stray">> \in docker.peers /\ call[d].stage \notin Inspected
          /\ ~RunnerUp(d) /\ <<d, "runnerStart">> \notin inflight
      BY <1>0, <2>2 DEF Strangers, Shrinks
    <3>2. call'[d].stage \notin Inspected
      <4>1. CASE d = c
        BY <1>1, <3>1, <4>1 DEF Keeps
      <4>2. CASE d # c
        BY <1>1, <3>1, <4>2
      <4> QED BY <4>1, <4>2
    <3> QED BY <3>1, <3>2 DEF RunnerUp, Shrinks
  <2> QED BY <2>1, <2>2
<1> QED BY <1>2, <1>4, <1>6, <1>7, <1>8, <1>9, <1>10, <1>11 DEF Inv
\* A call's record stays as good as it is.
LEMMA KeepsSame ==
    ASSUME Inv, NEW c \in Calls
    PROVE  Keeps(c, call[c])
BY DEF Inv, AttestedFirst, Attested, Keeps

\* The daemon loses something, or the display goes.
LEMMA Fades ==
    ASSUME Inv, NEW c \in Calls, UNCHANGED <<proc, call, stray>>, Shrinks,
           display' \in {display, NoCall}
    PROVE  Inv'
<1>0. Types /\ Exclusive /\ Accounted
  BY DEF Inv
<1>1. call[c] \in CallRecord
  BY <1>0, ActiveStages
<1>2. call' = [call EXCEPT ![c] = call[c]]
  BY <1>0 DEF Types
<1>3. Startable(c)' => Answers(call[c])'
  <2>1. Startable(c)' => Startable(c)
    BY DEF Startable, RunnerUp, Shrinks
  <2>2. Answers(call[c]) => Answers(call[c])'
    BY DEF Answers
  <2> QED BY <1>0, <2>1, <2>2 DEF Accounted
<1>4. /\ call[c].life <= proc.life
      /\ call[c].stage \notin {"idle", "done", "lost"} => proc.active /\ Active(c)
  BY <1>0, ActiveStages DEF Exclusive
<1>5. Keeps(c, call[c])
  BY KeepsSame
<1>6. proc' = proc /\ proc \in Process /\ stray' = stray
  BY <1>0 DEF Types
<1>7. PICK k \in CallRecord : k = call[c]
  BY <1>1
<1>8. Answers(k)' <=> Answers(call[c])'
  <2>1. k' = k /\ call[c]' = k
    BY <1>7
  <2> QED BY <2>1 DEF Answers
<1> QED BY <1>2, <1>3, <1>4, <1>5, <1>6, <1>7, <1>8, Moves

\* An active call moves and nothing else does.
LEMMA Still ==
    ASSUME Inv, NEW c \in Calls, NEW k \in CallRecord, call' = [call EXCEPT ![c] = k],
           Keeps(c, k), UNCHANGED <<proc, docker, inflight, display, stray>>,
           Active(c), k.life = call[c].life, Startable(c) => Answers(k)
    PROVE  Inv'
<1>0. Types /\ Exclusive
  BY DEF Inv
<1>1. Shrinks /\ proc' = proc /\ proc \in Process /\ stray' = stray /\ display' = display
  BY <1>0 DEF Types, Shrinks
<1>2. proc.active /\ k.life <= proc.life
  BY <1>0 DEF Exclusive
<1>3. Startable(c)' => Answers(k)'
  BY DEF Startable, RunnerUp, Answers
<1> QED BY <1>1, <1>2, <1>3, Moves

\* Before its runner is started a call has left the daemon nothing to start.
LEMMA NotYet ==
    ASSUME Inv, NEW c \in Calls,
           call[c].stage \in Unattested \cup {"prepare"} \cup (BuildStages \ {"runnerWait"})
    PROVE  ~Startable(c) /\ \A s \in Mutating : <<c, s>> \notin inflight
<1>1. call[c].stage \notin EndStages \cup Gone \cup {"runnerWait"}
  BY DEF Unattested, BuildStages, EndStages, Removed, Gone
<1>2. ~Answers(call[c])
  BY <1>1 DEF Answers, EndStages, Gone
<1> QED BY <1>1, <1>2 DEF Inv, Accounted, OneLeftOver

-----------------------------------------------------------------------------
(* Entering and activating.                                                *)

LEMMA EnterKeeps ==
    ASSUME Inv, NEW c \in Calls, Enter(c)
    PROVE  Inv'
<1>0. Types /\ Exclusive /\ AttestedFirst /\ call[c] \in CallRecord /\ proc \in Process
  BY ActiveStages DEF Inv, Types
<1> DEFINE k == [call[c] EXCEPT !.stage = "present", !.life = proc.life]
<1>1. /\ k \in CallRecord /\ k.stage = "present" /\ k.life = proc.life /\ k.consumed = call[c].consumed
      /\ k.run = call[c].run /\ k.token = call[c].token
  <2>1. "present" \in Stages
    BY PhaseStages DEF ScriptStages
  <2>2. proc.life \in 0..MaxCrashes
    BY <1>0 DEF Process
  <2> HIDE DEF Stages
  <2> QED BY <1>0, <2>1, <2>2 DEF CallRecord
<1>2. call' = [call EXCEPT ![c] = k]
  BY DEF Enter
<1> HIDE DEF k
<1>3. ~call[c].consumed /\ call[c].stage = "idle" /\ (call[c].token => Attested(c))
  BY <1>0 DEF AttestedFirst, Enter, Unattested
<1>4. Keeps(c, k)
  BY <1>1, <1>3 DEF Keeps, Attested, CleanStages, BuildStages, EndStages, Removed, Gone, Probed,
     Inspected
<1>5. ~Startable(c)
  BY <1>3, NotYet DEF Unattested
<1>6. /\ proc' \in Process /\ proc'.life = proc.life /\ proc'.unverified = proc.unverified /\ proc'.active
      /\ ~proc.active
  BY <1>0 DEF Enter, MayEnter, Process
<1>7. Shrinks /\ stray' = stray /\ display' = display /\ ~Startable(c)'
  BY <1>0, <1>5 DEF Enter, Types, Shrinks, Startable, RunnerUp
<1>8. k.life <= proc.life
  BY <1>1, <1>0, SupervisorAssumption DEF Process
<1> QED BY <1>1, <1>2, <1>4, <1>6, <1>7, <1>8, Moves

\* The steps of the activation that succeed.
LEMMA ActivationKeeps ==
    ASSUME Inv, NEW c \in Calls,
           \/ PresentActivation(c) \/ \E r \in Runs : SelectRun(c, r)
           \/ ReadSelectedRun(c) \/ VerifyAndConsume(c) \/ Prepare(c)
    PROVE  Inv'
<1>0. AttestedFirst /\ call[c] \in CallRecord
  BY ActiveStages DEF Inv
<1>1. /\ UNCHANGED <<proc, docker, inflight, display, stray>>
      /\ call[c].stage \in {"present", "select", "lookup", "verify", "prepare"}
  BY DEF PresentActivation, SelectRun, ReadSelectedRun, VerifyAndConsume, Prepare
<1>2. Active(c) /\ ~Startable(c)
  <2>1. call[c].stage \in Unattested \cup {"prepare"} /\ call[c].stage \notin {"idle", "done", "lost"}
    BY <1>1 DEF Unattested
  <2> QED BY <2>1, NotYet DEF Active, Ended
<1>3. \A s \in {"select", "lookup", "verify", "prepare", "stale"} : s \in Stages
  BY PhaseStages DEF ScriptStages, BuildStages
<1>4. call[c].token => Attested(c)
  BY <1>0 DEF AttestedFirst
<1>5. CASE PresentActivation(c)
  <2> DEFINE k == [call[c] EXCEPT !.stage = "select"]
  <2>1. /\ k \in CallRecord /\ k.stage = "select" /\ k.life = call[c].life
        /\ k.consumed = call[c].consumed /\ k.run = call[c].run /\ k.token = call[c].token
    <3> HIDE DEF Stages
    <3> QED BY <1>0, <1>3 DEF CallRecord
  <2>2. call' = [call EXCEPT ![c] = k] /\ call[c].stage = "present"
    BY <1>5, Succession DEF PresentActivation, Advance
  <2> HIDE DEF k
  <2>3. ~call[c].consumed
    BY <1>0, <2>2 DEF AttestedFirst, Unattested
  <2>4. Keeps(c, k)
    BY <1>4, <2>1, <2>2, <2>3 DEF Keeps, Attested, CleanStages, BuildStages, EndStages, Removed,
       Gone, Probed, Inspected
  <2> QED BY <1>1, <1>2, <2>1, <2>2, <2>4, Still
<1>6. ASSUME NEW r \in Runs, SelectRun(c, r)
      PROVE  Inv'
  <2> DEFINE k == [call[c] EXCEPT !.stage = "lookup", !.run = r]
  <2>1. /\ k \in CallRecord /\ k.stage = "lookup" /\ k.life = call[c].life
        /\ k.consumed = call[c].consumed /\ k.run = r /\ k.token = call[c].token
    <3> HIDE DEF Stages
    <3> QED BY <1>0, <1>3 DEF CallRecord
  <2>2. call' = [call EXCEPT ![c] = k] /\ call[c].stage = "select"
    BY <1>6 DEF SelectRun
  <2> HIDE DEF k
  <2>3. ~call[c].consumed
    BY <1>0, <2>2 DEF AttestedFirst, Unattested
  <2>4. Keeps(c, k)
    BY <1>4, <2>1, <2>2, <2>3 DEF Keeps, Attested, CleanStages, BuildStages, EndStages, Removed,
       Gone, Probed, Inspected
  <2> QED BY <1>1, <1>2, <2>1, <2>2, <2>4, Still
<1>7. CASE ReadSelectedRun(c)
  <2> DEFINE k == [call[c] EXCEPT !.stage = "verify"]
  <2>1. /\ k \in CallRecord /\ k.stage = "verify" /\ k.life = call[c].life
        /\ k.consumed = call[c].consumed /\ k.run = call[c].run /\ k.token = call[c].token
    <3> HIDE DEF Stages
    <3> QED BY <1>0, <1>3 DEF CallRecord
  <2>2. call' = [call EXCEPT ![c] = k] /\ call[c].stage = "lookup"
    BY <1>7, Succession DEF ReadSelectedRun, Advance
  <2> HIDE DEF k
  <2>3. ~call[c].consumed /\ call[c].run \in Runs
    BY <1>0, <2>2 DEF AttestedFirst, Unattested
  <2>4. Keeps(c, k)
    BY <1>4, <2>1, <2>2, <2>3 DEF Keeps, Attested, CleanStages, BuildStages, EndStages, Removed,
       Gone, Probed, Inspected
  <2> QED BY <1>1, <1>2, <2>1, <2>2, <2>4, Still
<1>8. CASE VerifyAndConsume(c)
  <2> DEFINE k == [call[c] EXCEPT !.stage = "prepare", !.consumed = TRUE]
  <2>1. /\ k \in CallRecord /\ k.stage = "prepare" /\ k.life = call[c].life
        /\ k.consumed /\ k.run = call[c].run /\ k.token = call[c].token
    <3> HIDE DEF Stages
    <3> QED BY <1>0, <1>3 DEF CallRecord
  <2>2. call' = [call EXCEPT ![c] = k] /\ call[c].stage = "verify"
    BY <1>8 DEF VerifyAndConsume
  <2> HIDE DEF k
  <2>3. ~call[c].consumed /\ call[c].run \in Runs /\ Dispatched[call[c].run] = c
    BY <1>0, <1>8, <2>2 DEF AttestedFirst, Unattested, VerifyAndConsume, AttestationMatches,
       AttestedManifest, ExpectedManifest
  <2>4. Keeps(c, k)
    BY <2>1, <2>2, <2>3 DEF Keeps, Attested, Unattested, CleanStages, BuildStages, EndStages,
       Removed, Gone, Probed, Inspected
  <2> QED BY <1>1, <1>2, <2>1, <2>2, <2>4, Still
<1>9. CASE Prepare(c)
  <2> DEFINE k == [call[c] EXCEPT !.stage = "stale"]
  <2>1. /\ k \in CallRecord /\ k.stage = "stale" /\ k.life = call[c].life
        /\ k.consumed = call[c].consumed /\ k.run = call[c].run /\ k.token = call[c].token
    <3> HIDE DEF Stages
    <3> QED BY <1>0, <1>3 DEF CallRecord
  <2>2. call' = [call EXCEPT ![c] = k] /\ call[c].stage = "prepare"
    BY <1>9, Succession DEF Prepare, Advance
  <2> HIDE DEF k
  <2>3. Attested(c)
    BY <1>0, <2>2 DEF AttestedFirst
  <2>4. Keeps(c, k)
    BY <2>1, <2>2, <2>3 DEF Keeps, Attested, Unattested, CleanStages, BuildStages, EndStages,
       Removed, Gone, Probed, Inspected
  <2> QED BY <1>1, <1>2, <2>1, <2>2, <2>4, Still
<1> QED BY <1>5, <1>6, <1>7, <1>8, <1>9

\* A call that is over keeps the run it served and its incarnation.
LEMMA OverRecord ==
    ASSUME NEW k \in CallRecord, NEW how \in {"done", "lost"}
    PROVE  /\ Over(k, how) \in CallRecord /\ Over(k, how).stage = how /\ Over(k, how).consumed
           /\ Over(k, how).run = k.run /\ Over(k, how).life = k.life /\ ~Over(k, how).token
<1>1. how \in Stages /\ "idle" \in Stages
  BY PhaseStages
<1>2. 0 \in 0..MaxAge /\ 0 \in 0..MaxCrashes
  BY SupervisorAssumption
<1>3. IdleCall \in CallRecord
  <2> HIDE DEF Stages
  <2> QED BY <1>1, <1>2 DEF IdleCall, CallRecord
<1> HIDE DEF Stages
<1> QED BY <1>1, <1>2, <1>3 DEF Over, IdleCall, CallRecord

LEMMA ActivationRefusedKeeps ==
    ASSUME Inv, NEW c \in Calls, ActivationRefused(c)
    PROVE  Inv'
<1>0. Types /\ Exclusive /\ AttestedFirst /\ call[c] \in CallRecord /\ proc \in Process
  BY ActiveStages DEF Inv, Types
<1>1. call[c].stage \in {"present", "select", "lookup", "verify", "prepare"}
  BY PhaseStages DEF ActivationRefused
<1>2. Active(c) /\ ~Startable(c)
  <2>1. call[c].stage \in Unattested \cup {"prepare"} /\ call[c].stage \notin {"idle", "done", "lost"}
    BY <1>1 DEF Unattested
  <2> QED BY <2>1, NotYet DEF Active, Ended
<1>3. PICK k \in CallRecord : k = Over(call[c], "done")
  BY <1>0, OverRecord
<1>4. k.stage = "done" /\ k.consumed /\ k.run = call[c].run /\ k.life = call[c].life /\ ~k.token
  BY <1>0, <1>3, OverRecord
<1>5. call' = [call EXCEPT ![c] = k]
  BY <1>3 DEF ActivationRefused
<1>6. Keeps(c, k)
  BY <1>4 DEF Keeps, Attested, Unattested, CleanStages, BuildStages, EndStages, Removed, Gone,
     Probed, Inspected
<1>7. proc' \in Process /\ proc'.life = proc.life /\ (proc.unverified => proc'.unverified)
  <2>1. PICK t \in BOOLEAN : proc' = [proc EXCEPT !.active = FALSE, !.unverified = @ \/ t]
    BY DEF ActivationRefused
  <2> QED BY <1>0, <2>1 DEF Process
<1>8. Shrinks /\ stray' = stray /\ display' = display /\ ~Startable(c)'
  BY <1>0, <1>2 DEF ActivationRefused, Types, Shrinks, Startable, RunnerUp
<1>9. k.life <= proc.life
  BY <1>0, <1>4 DEF Exclusive
<1>10. k.stage \notin {"idle"} \cup Probed /\ k.stage \in {"idle", "done", "lost"}
  BY <1>4 DEF Probed
<1> QED BY <1>2, <1>5, <1>6, <1>7, <1>8, <1>9, <1>10, Moves

-----------------------------------------------------------------------------
(* Building.                                                               *)

\* The teardown begins with the challenge consumed and the token gone.
TornRecord(k) == [k EXCEPT !.stage = "lsContainers", !.age = 0, !.aborted = FALSE,
                           !.token = FALSE, !.consumed = TRUE]

LEMMA Torn ==
    ASSUME NEW k \in CallRecord
    PROVE  /\ TornRecord(k) \in CallRecord /\ TornRecord(k).stage = "lsContainers"
           /\ TornRecord(k).consumed /\ TornRecord(k).run = k.run /\ TornRecord(k).life = k.life
           /\ ~TornRecord(k).token
<1>1. "lsContainers" \in Stages
  BY PhaseStages DEF ScriptStages, EndStages
<1>2. 0 \in 0..MaxAge
  BY SupervisorAssumption
<1> HIDE DEF Stages
<1> QED BY <1>1, <1>2 DEF TornRecord, CallRecord

\* Whatever ends the building while the daemon is left nothing.
LEMMA TearDownKeeps ==
    ASSUME Inv, NEW c \in Calls, call[c].stage \in BuildStages, ToTeardown(c),
           UNCHANGED <<proc, docker, inflight, display, stray>>
    PROVE  Inv'
<1>0. AttestedFirst /\ call[c] \in CallRecord
  BY ActiveStages DEF Inv
<1>1. PICK k \in CallRecord : k = TornRecord(call[c])
  BY <1>0, Torn
<1>2. /\ k.stage = "lsContainers" /\ k.consumed /\ k.run = call[c].run /\ k.life = call[c].life
      /\ ~k.token
  BY <1>0, <1>1, Torn
<1>3. call' = [call EXCEPT ![c] = k]
  BY <1>1 DEF ToTeardown, TornRecord
<1>4. Attested(c) /\ Active(c)
  <2>1. call[c].stage \notin {"idle", "done", "lost"}
    BY DEF BuildStages
  <2> QED BY <1>0, <2>1 DEF AttestedFirst, Active, Ended
<1>5. Keeps(c, k)
  BY <1>2, <1>4 DEF Keeps, Attested, Unattested, CleanStages, BuildStages, EndStages, Removed,
     Gone, Probed, Inspected
<1>6. Answers(k)
  BY <1>2 DEF Answers
<1> QED BY <1>2, <1>3, <1>4, <1>5, <1>6, Still

LEMMA StepFailsKeeps ==
    ASSUME Inv, NEW c \in Calls, StepFails(c)
    PROVE  Inv'
BY TearDownKeeps, PhaseStages DEF StepFails

\* The next stage of a call that builds.
LEMMA Onward ==
    ASSUME Inv, NEW c \in Calls, call[c].stage \in BuildStages \ {"runnerWait"},
           NEW k \in CallRecord, k.stage = After(call[c].stage), k.consumed = call[c].consumed,
           k.run = call[c].run, k.life = call[c].life
    PROVE  /\ k.stage \in CleanStages /\ Attested(c) /\ Active(c) /\ ~Startable(c)
           /\ k.consumed /\ k.run \in Runs /\ Dispatched[k.run] = c
           /\ k.stage \in Probed => call[c].stage \in Probed \cup {"probeDisplay"}
           /\ k.stage \in Inspected => call[c].stage \in Inspected \cup {"runnerOnInternal"}
           /\ k.stage \notin Unattested \cup EndStages \cup Gone \cup {"lookup", "verify", "prepare"}
           /\ call[c].stage \notin EndStages \cup Gone
           /\ call[c].stage \notin CleanStages => call[c].stage = "stale"
<1>1. /\ k.stage \in CleanStages
      /\ k.stage \in Probed => call[c].stage \in Probed \cup {"probeDisplay"}
      /\ k.stage \in Inspected => call[c].stage \in Inspected \cup {"runnerOnInternal"}
  BY Succession
<1>2. Attested(c)
  BY DEF Inv, AttestedFirst
<1>3. ~Startable(c)
  BY NotYet
<1>4. k.stage \notin Unattested \cup EndStages \cup Gone \cup {"lookup", "verify", "prepare"}
  BY <1>1 DEF CleanStages, BuildStages, Unattested, EndStages, Removed, Gone
<1>5. call[c].stage \notin EndStages \cup Gone \cup {"idle", "done", "lost"}
  BY DEF BuildStages, EndStages, Removed, Gone
<1>6. call[c].stage \notin CleanStages => call[c].stage = "stale"
  BY DEF CleanStages
<1> QED BY <1>1, <1>2, <1>3, <1>4, <1>5, <1>6 DEF Attested, Active, Ended

LEMMA OnwardKeeps ==
    ASSUME Inv, NEW c \in Calls, call[c].stage \in BuildStages \ {"runnerWait"},
           NEW k \in CallRecord, k.stage = After(call[c].stage), k.consumed = call[c].consumed,
           k.run = call[c].run, k.life = call[c].life,
           call[c].stage = "stale" => docker.res = {},
           call[c].stage = "probeDisplay" => display = c,
           call[c].stage = "runnerOnInternal" => <<c, "internal", "stray">> \notin docker.peers
    PROVE  Keeps(c, k)
<1>1. /\ k.stage \in CleanStages /\ Attested(c)
      /\ k.consumed /\ k.run \in Runs /\ Dispatched[k.run] = c
      /\ k.stage \in Probed => call[c].stage \in Probed \cup {"probeDisplay"}
      /\ k.stage \in Inspected => call[c].stage \in Inspected \cup {"runnerOnInternal"}
      /\ k.stage \notin Unattested \cup EndStages \cup Gone \cup {"lookup", "verify", "prepare"}
      /\ call[c].stage \notin EndStages \cup Gone
      /\ call[c].stage \notin CleanStages => call[c].stage = "stale"
  BY Onward
<1> QED BY <1>1 DEF Keeps, Attested

\* A stage of a building call leads to a stage.
LEMMA AfterBuilding ==
    ASSUME NEW s \in BuildStages \ {"runnerWait"}
    PROVE  After(s) \in Stages
<1>1. After(s) \in CleanStages
  BY Succession
<1>2. CleanStages \subseteq ScriptStages
  BY DEF CleanStages, ScriptStages
<1> QED BY <1>1, <1>2, PhaseStages

LEMMA StartDisplayKeeps ==
    ASSUME Inv, NEW c \in Calls, StartDisplay(c)
    PROVE  Inv'
<1>0. Types /\ Exclusive /\ call[c] \in CallRecord /\ proc \in Process
  BY ActiveStages DEF Inv, Types
<1>1. call[c].stage \in BuildStages \ {"runnerWait"} /\ call[c].stage = "startDisplay"
  BY DEF StartDisplay, BuildStages
<1>t. PICK t \in Stages : t = After(call[c].stage)
  BY <1>1, AfterBuilding
<1> DEFINE k == [call[c] EXCEPT !.stage = t, !.shown = TRUE]
<1>2. /\ k \in CallRecord /\ k.stage = After(call[c].stage) /\ k.consumed = call[c].consumed
      /\ k.run = call[c].run /\ k.life = call[c].life
  <2>1. k.stage = t
    BY <1>0 DEF CallRecord
  <2>2. /\ k \in CallRecord /\ k.consumed = call[c].consumed
        /\ k.run = call[c].run /\ k.life = call[c].life
    BY <1>0 DEF CallRecord
  <2> QED BY <2>1, <2>2, <1>t
<1>3. call' = [call EXCEPT ![c] = k]
  BY <1>t DEF StartDisplay
<1> HIDE DEF k
<1>4. Keeps(c, k) /\ Active(c) /\ ~Startable(c) /\ k.stage \in CleanStages
  BY <1>1, <1>2, OnwardKeeps, Onward
<1>5. k.stage \notin Probed /\ call[c].stage \in CleanStages
  <2>1. k.stage \in Probed => call[c].stage \in Probed \cup {"probeDisplay"}
    BY <1>1, <1>2, Onward
  <2> QED BY <1>1, <2>1 DEF Probed, CleanStages
<1>6. Shrinks /\ stray' = stray /\ proc' = proc /\ ~Startable(c)' /\ display' \in {display, c}
  BY <1>0, <1>4 DEF StartDisplay, Types, Shrinks, Startable, RunnerUp
<1>7. proc.active /\ k.life <= proc.life
  BY <1>0, <1>2, <1>4 DEF Exclusive
<1> QED BY <1>0, <1>2, <1>3, <1>4, <1>5, <1>6, <1>7, Moves

LEMMA ReceiveTokenKeeps ==
    ASSUME Inv, NEW c \in Calls, ReceiveToken(c)
    PROVE  Inv'
<1>0. call[c] \in CallRecord
  BY ActiveStages DEF Inv
<1>1. call[c].stage \in BuildStages \ {"runnerWait"} /\ call[c].stage = "token"
  BY DEF ReceiveToken, BuildStages
<1>t. PICK t \in Stages : t = After(call[c].stage)
  BY <1>1, AfterBuilding
<1> DEFINE k == [call[c] EXCEPT !.stage = t, !.token = TRUE]
<1>2. /\ k \in CallRecord /\ k.stage = After(call[c].stage) /\ k.consumed = call[c].consumed
      /\ k.run = call[c].run /\ k.life = call[c].life
  <2>1. k.stage = t
    BY <1>0 DEF CallRecord
  <2>2. /\ k \in CallRecord /\ k.consumed = call[c].consumed
        /\ k.run = call[c].run /\ k.life = call[c].life
    BY <1>0 DEF CallRecord
  <2> QED BY <2>1, <2>2, <1>t
<1>3. call' = [call EXCEPT ![c] = k]
  BY <1>t DEF ReceiveToken
<1> HIDE DEF k
<1>4. Keeps(c, k) /\ Active(c) /\ ~Startable(c)
  BY <1>1, <1>2, OnwardKeeps, Onward
<1> QED BY <1>2, <1>3, <1>4, Still DEF ReceiveToken

\* A command that only looks, or the end of the runner.
LEMMA LookingKeeps ==
    ASSUME Inv, NEW c \in Calls, DockerStep(c), call[c].stage \notin Mutating
    PROVE  Inv'
<1>0. call[c] \in CallRecord
  BY ActiveStages DEF Inv
<1>1. /\ call[c].stage \in BuildStages /\ Verified(c, call[c].stage)
      /\ UNCHANGED <<proc, docker, inflight, display, stray>>
  BY PhaseStages DEF DockerStep
<1>2. CASE call[c].stage = "runnerWait"
  BY <1>1, <1>2, TearDownKeeps DEF DockerStep
<1>3. CASE call[c].stage # "runnerWait"
  <2>t. PICK t \in Stages : t = After(call[c].stage)
    BY <1>1, <1>3, AfterBuilding
  <2>o. PICK o \in BOOLEAN : o = (call[c].token /\ call[c].stage # "runnerCreate")
    OBVIOUS
  <2> DEFINE k == [call[c] EXCEPT !.stage = t, !.token = o]
  <2>1. /\ k \in CallRecord /\ k.stage = After(call[c].stage) /\ k.consumed = call[c].consumed
        /\ k.run = call[c].run /\ k.life = call[c].life
    <3>1. k.stage = t
      BY <1>0 DEF CallRecord
    <3>2. /\ k \in CallRecord /\ k.consumed = call[c].consumed
          /\ k.run = call[c].run /\ k.life = call[c].life
      BY <1>0 DEF CallRecord
    <3> QED BY <3>1, <3>2, <2>t
  <2>2. call' = [call EXCEPT ![c] = k]
    BY <1>3, <2>t, <2>o DEF DockerStep
  <2> HIDE DEF k
  <2>3. /\ call[c].stage = "stale" => docker.res = {}
        /\ call[c].stage = "probeDisplay" => display = c
    BY <1>1 DEF Verified, NoStaleResources, DisplayAnswers
  <2>4. call[c].stage = "runnerOnInternal" => <<c, "internal", "stray">> \notin docker.peers
    <3>1. call[c].stage = "runnerOnInternal" => Members(docker, c, "internal") = {"proxy", "runner"}
      BY <1>1 DEF Verified, PeersAre
    <3> QED BY <3>1 DEF Members
  <2>5. Keeps(c, k) /\ Active(c) /\ ~Startable(c)
    BY <1>1, <1>3, <2>1, <2>3, <2>4, OnwardKeeps, Onward
  <2> QED BY <1>1, <2>1, <2>2, <2>5, Still
<1> QED BY <1>2, <1>3

-----------------------------------------------------------------------------
(* Tearing down.                                                           *)

\* The next stage of a call that is torn down.
LEMMA TearingOnward ==
    ASSUME Inv, NEW c \in Calls, call[c].stage \in EndStages \ {"rmTemp"},
           NEW k \in CallRecord, k.stage = After(call[c].stage), k.consumed = call[c].consumed,
           k.run = call[c].run, k.token = call[c].token
    PROVE  k.stage \in EndStages /\ Active(c) /\ Keeps(c, k)
<1>1. k.stage \in EndStages
  BY Succession DEF EndStages, Removed
<1>2. Attested(c)
  BY DEF Inv, AttestedFirst
<1>3. call[c].stage \notin {"idle", "done", "lost"}
  BY DEF EndStages, Removed
<1>4. k.stage \notin Unattested \cup CleanStages \cup Probed \cup Inspected
  BY <1>1 DEF EndStages, Removed, Unattested, CleanStages, BuildStages, Probed, Inspected
<1>5. k.stage \notin {"lookup", "verify"}
  BY <1>4 DEF Unattested
<1> QED BY <1>1, <1>2, <1>3, <1>4, <1>5 DEF Keeps, Attested, Active, Ended

LEMMA ListKeeps ==
    ASSUME Inv, NEW c \in Calls, ListContainers(c) \/ ListNetworks(c)
    PROVE  Inv'
<1>0. Types /\ Accounted /\ call[c] \in CallRecord
  BY ActiveStages DEF Inv
<1>1. PICK kinds \in SUBSET Kinds :
        /\ List(c, kinds)
        /\ \/ call[c].stage = "lsContainers" /\ kinds = Containers
           \/ call[c].stage = "lsNetworks"
  BY DEF ListContainers, ListNetworks, Kinds
<1>2. PICK t \in Stages : t = After(call[c].stage)
  <2>1. After(call[c].stage) \in {"rmContainers", "rmNetworks"}
    BY <1>1, Succession
  <2> QED BY <2>1, PhaseStages DEF ScriptStages, EndStages, Removed
<1>3. PICK l \in SUBSET Kinds, f \in BOOLEAN :
        /\ call' = [call EXCEPT ![c] = [call[c] EXCEPT !.stage = t, !.listed = l, !.failed = f]]
        /\ (l = Owned(c, kinds) /\ f = call[c].failed) \/ f
  <2>1. CASE call' = [call EXCEPT ![c] = [call[c] EXCEPT !.stage = t, !.listed = Owned(c, kinds)]]
    <3>1. [call[c] EXCEPT !.stage = t, !.listed = Owned(c, kinds)]
            = [call[c] EXCEPT !.stage = t, !.listed = Owned(c, kinds), !.failed = call[c].failed]
      BY <1>0 DEF CallRecord
    <3>2. Owned(c, kinds) \in SUBSET Kinds /\ call[c].failed \in BOOLEAN
      BY <1>0, <1>1 DEF Owned, CallRecord
    <3> QED BY <2>1, <3>1, <3>2
  <2>2. CASE call' = [call EXCEPT ![c] = [call[c] EXCEPT !.stage = t, !.listed = {}, !.failed = TRUE]]
    BY <2>2
  <2> QED BY <1>1, <1>2, <2>1, <2>2 DEF List
<1> DEFINE k == [call[c] EXCEPT !.stage = t, !.listed = l, !.failed = f]
<1>4. /\ k \in CallRecord /\ k.stage = t /\ k.consumed = call[c].consumed /\ k.run = call[c].run
      /\ k.token = call[c].token /\ k.life = call[c].life /\ k.listed = l /\ k.failed = f
  BY <1>0 DEF CallRecord
<1>5. call' = [call EXCEPT ![c] = k]
  BY <1>3
<1> HIDE DEF k
<1>6. Keeps(c, k) /\ Active(c)
  <2>1. call[c].stage \in EndStages \ {"rmTemp"}
    BY <1>1 DEF EndStages, Removed
  <2> QED BY <1>2, <1>4, <2>1, TearingOnward
<1>7. ASSUME Startable(c) PROVE Answers(k)
  <2>1. CASE call[c].stage = "lsContainers"
    <3>1. <<c, "runner">> \in docker.res
      BY <1>0, <1>7, Present
    <3>2. kinds = Containers
      BY <1>1, <2>1
    <3>3. "runner" \in Owned(c, kinds)
      BY <3>1, <3>2 DEF Owned, Containers
    <3>4. k.stage = "rmContainers"
      BY <1>2, <1>4, <2>1, Succession
    <3> QED BY <1>3, <1>4, <3>3, <3>4 DEF Answers
  <2>2. CASE call[c].stage = "lsNetworks"
    <3>1. Answers(call[c])
      BY <1>0, <1>7 DEF Accounted
    <3>2. call[c].failed
      BY <2>2, <3>1 DEF Answers
    <3>3. k.stage \in Removed
      BY <1>2, <1>4, <2>2, Succession DEF Removed
    <3> QED BY <1>3, <1>4, <3>2, <3>3 DEF Answers
  <2> QED BY <1>1, <2>1, <2>2
<1>8. UNCHANGED <<proc, docker, inflight, display, stray>>
  BY <1>1 DEF List
<1> QED BY <1>4, <1>5, <1>6, <1>7, <1>8, Still

\* What a removal leaves.
LEMMA Removal ==
    ASSUME Types, NEW c \in Calls, NEW gone \in SUBSET Kinds, docker' = RemoveFrom(docker, c, gone),
           inflight' = inflight
    PROVE  Shrinks /\ ("runner" \in gone => ~Startable(c)')
<1> DEFINE res   == docker.res \ {<<c, r>> : r \in gone}
           up    == docker.up \ {<<c, r>> : r \in gone}
           peers == {p \in docker.peers : ~(p[1] = c /\ (p[3] \in gone \/ p[2] \in gone))}
<1>1. docker'.res = res /\ docker'.up = up /\ docker'.peers = peers
  BY DEF RemoveFrom
<1>2. docker' \in Daemon
  <2>1. docker' = [res |-> res, up |-> up, peers |-> peers]
    BY DEF RemoveFrom
  <2>2. /\ res \in SUBSET (Calls \X Kinds) /\ up \in SUBSET (Calls \X Kinds)
        /\ peers \in SUBSET (Calls \X Networks \X (Containers \cup {"stray"}))
    BY DEF Types, Daemon
  <2> HIDE DEF res, up, peers
  <2> QED BY <2>1, <2>2 DEF Daemon
<1>3. res \subseteq docker.res /\ up \subseteq docker.up /\ peers \subseteq docker.peers /\ up \subseteq res
  BY DEF Types
<1>4. "runner" \in gone => <<c, "runner">> \notin res /\ <<c, "runner">> \notin up
  OBVIOUS
<1> HIDE DEF res, up, peers
<1> QED BY <1>1, <1>2, <1>3, <1>4 DEF Shrinks, Startable, RunnerUp

LEMMA RemoveKeeps ==
    ASSUME Inv, NEW c \in Calls, RemoveContainers(c) \/ RemoveNetworks(c)
    PROVE  Inv'
<1>0. Types /\ Exclusive /\ Accounted /\ call[c] \in CallRecord /\ proc \in Process
  BY ActiveStages DEF Inv, Types
<1>1. /\ call[c].stage \in {"rmContainers", "rmNetworks"}
      /\ \E removable \in SUBSET call[c].listed : Remove(c, removable)
  BY DEF RemoveContainers, RemoveNetworks
<1>2. PICK gone \in SUBSET call[c].listed, answered \in BOOLEAN :
        /\ docker' = RemoveFrom(docker, c, gone)
        /\ answered => gone = call[c].listed
        /\ call' = [call EXCEPT ![c] = [call[c] EXCEPT !.stage = After(call[c].stage), !.listed = {},
                                                       !.failed = call[c].failed \/ ~answered]]
  BY <1>1 DEF Remove
<1>3. PICK t \in Stages : t = After(call[c].stage)
  <2>1. After(call[c].stage) \in {"lsNetworks", "stopDisplay"}
    BY <1>1, Succession
  <2> QED BY <2>1, PhaseStages DEF ScriptStages, EndStages, Removed
<1>4. PICK f \in BOOLEAN : f = (call[c].failed \/ ~answered)
  OBVIOUS
<1> DEFINE moved == [call[c] EXCEPT !.stage = t, !.listed = {}, !.failed = f]
<1>m. PICK k \in CallRecord : k = moved
  BY <1>0 DEF CallRecord
<1>5. /\ k \in CallRecord /\ k.stage = t /\ k.consumed = call[c].consumed /\ k.run = call[c].run
      /\ k.token = call[c].token /\ k.life = call[c].life /\ k.failed = f
  BY <1>0, <1>m DEF CallRecord
<1>6. call' = [call EXCEPT ![c] = k]
  BY <1>m, <1>2, <1>3, <1>4
<1> HIDE DEF moved
<1>7. Keeps(c, k) /\ Active(c) /\ k.stage \in EndStages
  <2>1. call[c].stage \in EndStages \ {"rmTemp"}
    BY <1>1 DEF EndStages, Removed
  <2> QED BY <1>3, <1>5, <2>1, TearingOnward
<1>8. UNCHANGED <<proc, inflight, display, stray>>
  BY <1>1 DEF Remove
<1>9. Shrinks /\ ("runner" \in gone => ~Startable(c)')
  <2>1. gone \in SUBSET Kinds
    BY <1>0 DEF CallRecord
  <2> QED BY <1>0, <1>2, <1>8, <2>1, Removal
<1>10. ASSUME Startable(c)' PROVE Answers(k)'
  <2>1. Startable(c)
    BY <1>9, <1>10 DEF Shrinks, Startable, RunnerUp
  <2>2. Answers(call[c])
    BY <1>0, <2>1 DEF Accounted
  <2>3. k.failed
    <3>1. CASE call[c].stage = "rmContainers"
      <4>1. "runner" \in call[c].listed \/ call[c].failed
        BY <2>2, <3>1 DEF Answers, Removed
      <4> QED BY <1>2, <1>4, <1>5, <1>9, <1>10, <4>1
    <3>2. CASE call[c].stage = "rmNetworks"
      BY <1>4, <1>5, <2>2, <3>2 DEF Answers
    <3> QED BY <1>1, <3>1, <3>2
  <2>4. k.stage \in Removed
    BY <1>1, <1>3, <1>5, Succession DEF Removed
  <2> QED BY <2>3, <2>4 DEF Answers
<1>11. proc.active /\ k.life <= proc.life
  BY <1>0, <1>5, <1>7 DEF Exclusive
<1> QED BY <1>0, <1>5, <1>6, <1>7, <1>8, <1>9, <1>10, <1>11, Moves

LEMMA StopDisplayKeeps ==
    ASSUME Inv, NEW c \in Calls, StopDisplay(c)
    PROVE  Inv'
<1>0. Types /\ Exclusive /\ Accounted /\ call[c] \in CallRecord /\ proc \in Process
  BY ActiveStages DEF Inv, Types
<1>1. call[c].stage = "stopDisplay" /\ "rmTemp" \in Stages
  BY PhaseStages DEF StopDisplay, ScriptStages, EndStages, Removed
<1>2. PICK f \in BOOLEAN :
        /\ call' = [call EXCEPT ![c] = [call[c] EXCEPT !.stage = "rmTemp", !.failed = f]]
        /\ call[c].failed => f
  <2>1. CASE Advance(c)
    <3>1. [call[c] EXCEPT !.stage = "rmTemp"]
            = [call[c] EXCEPT !.stage = "rmTemp", !.failed = call[c].failed]
      BY <1>0 DEF CallRecord
    <3>2. call' = [call EXCEPT ![c] = [call[c] EXCEPT !.stage = "rmTemp"]]
      BY <1>1, <2>1, Succession DEF Advance
    <3>3. call[c].failed \in BOOLEAN
      BY <1>0 DEF CallRecord
    <3> QED BY <3>1, <3>2, <3>3
  <2>2. CASE call' = [call EXCEPT ![c] = [call[c] EXCEPT !.stage = "rmTemp", !.failed = TRUE]]
    BY <2>2
  <2> QED BY <2>1, <2>2 DEF StopDisplay
<1> DEFINE moved == [call[c] EXCEPT !.stage = "rmTemp", !.failed = f]
<1>m. PICK k \in CallRecord : k = moved
  <2> HIDE DEF Stages
  <2> QED BY <1>0, <1>1 DEF CallRecord
<1>3. /\ k \in CallRecord /\ k.stage = "rmTemp" /\ k.consumed = call[c].consumed /\ k.run = call[c].run
      /\ k.token = call[c].token /\ k.life = call[c].life /\ k.failed = f
  <2> HIDE DEF Stages
  <2> QED BY <1>0, <1>1, <1>m DEF CallRecord
<1>4. call' = [call EXCEPT ![c] = k]
  BY <1>2, <1>m
<1> HIDE DEF moved
<1>5. Keeps(c, k) /\ Active(c)
  <2>1. call[c].stage \in EndStages \ {"rmTemp"} /\ k.stage = After(call[c].stage)
    BY <1>1, <1>3, Succession DEF EndStages, Removed
  <2> QED BY <1>3, <2>1, TearingOnward
<1>6. Startable(c) => Answers(k)
  <2>1. Startable(c) => call[c].failed
    BY <1>0, <1>1 DEF Accounted, Answers
  <2> QED BY <1>2, <1>3, <2>1 DEF Answers, Removed
<1>7. UNCHANGED <<proc, docker, inflight, stray>> /\ display' \in {display, NoCall}
  BY DEF StopDisplay
<1>8. Shrinks /\ (Startable(c)' => Answers(k)')
  BY <1>0, <1>6, <1>7 DEF Types, Shrinks, Startable, RunnerUp, Answers
<1>9. proc.active /\ k.life <= proc.life
  BY <1>0, <1>3, <1>5 DEF Exclusive
<1> QED BY <1>0, <1>3, <1>4, <1>5, <1>7, <1>8, <1>9, Moves

LEMMA FinishTeardownKeeps ==
    ASSUME Inv, NEW c \in Calls, FinishTeardown(c)
    PROVE  Inv'
<1>0. Types /\ Exclusive /\ Accounted /\ call[c] \in CallRecord /\ proc \in Process
  BY ActiveStages DEF Inv, Types
<1>1. call[c].stage = "rmTemp"
  BY DEF FinishTeardown
<1>2. Active(c) /\ (Startable(c) => call[c].failed)
  BY <1>0, <1>1 DEF Active, Ended, Accounted, Answers
<1>3. PICK k \in CallRecord : k = Over(call[c], "done")
  BY <1>0, OverRecord
<1>4. k.stage = "done" /\ k.consumed /\ k.run = call[c].run /\ k.life = call[c].life /\ ~k.token
  BY <1>0, <1>3, OverRecord
<1>5. call' = [call EXCEPT ![c] = k]
  BY <1>3 DEF FinishTeardown
<1>6. Keeps(c, k)
  BY <1>4 DEF Keeps, Attested, Unattested, CleanStages, BuildStages, EndStages, Removed, Gone,
     Probed, Inspected
<1>7. /\ proc' \in Process /\ proc'.life = proc.life
      /\ proc.unverified \/ call[c].failed => proc'.unverified
  <2>1. PICK t \in BOOLEAN :
          proc' = [proc EXCEPT !.active = FALSE, !.unverified = proc.unverified \/ call[c].failed \/ t]
    BY DEF FinishTeardown
  <2>2. PICK u \in BOOLEAN : u = (proc.unverified \/ call[c].failed \/ t)
    OBVIOUS
  <2>3. proc' = [proc EXCEPT !.active = FALSE, !.unverified = u]
    BY <2>1, <2>2
  <2> QED BY <1>0, <2>2, <2>3 DEF Process
<1>8. Shrinks /\ stray' = stray /\ display' = display /\ (Startable(c)' => Startable(c))
  BY <1>0 DEF FinishTeardown, Types, Shrinks, Startable, RunnerUp
<1>9. k.life <= proc.life
  BY <1>0, <1>4 DEF Exclusive
<1>10. Startable(c)' => Answers(k)'
  BY <1>2, <1>4, <1>7, <1>8 DEF Answers
<1>11. k.stage \notin Probed /\ k.stage \in {"idle", "done", "lost"}
  BY <1>4 DEF Probed
<1> QED BY <1>2, <1>5, <1>6, <1>7, <1>8, <1>9, <1>10, <1>11, Moves

-----------------------------------------------------------------------------
(* Timers and what exits by itself.                                        *)

LEMMA ClockKeeps ==
    ASSUME Inv, NEW c \in Calls, Abort(c) \/ Tick(c)
    PROVE  Inv'
<1>0. Accounted /\ call[c] \in CallRecord /\ Keeps(c, call[c])
  BY ActiveStages, KeepsSame DEF Inv
<1>1. Active(c) /\ UNCHANGED <<proc, docker, inflight, display, stray>>
  BY DEF Abort, Tick, Armed
<1>2. PICK k \in CallRecord :
        /\ call' = [call EXCEPT ![c] = k]
        /\ k.stage = call[c].stage /\ k.consumed = call[c].consumed /\ k.run = call[c].run
        /\ k.token = call[c].token /\ k.life = call[c].life /\ k.listed = call[c].listed
        /\ k.failed = call[c].failed
  <2>1. CASE Abort(c)
    <3> DEFINE q == [call[c] EXCEPT !.aborted = TRUE]
    <3>1. /\ q \in CallRecord
          /\ q.stage = call[c].stage /\ q.consumed = call[c].consumed /\ q.run = call[c].run
          /\ q.token = call[c].token /\ q.life = call[c].life /\ q.listed = call[c].listed
          /\ q.failed = call[c].failed
      <4> HIDE DEF Stages
      <4> QED BY <1>0 DEF CallRecord
    <3>2. call' = [call EXCEPT ![c] = q]
      BY <2>1 DEF Abort
    <3> HIDE DEF q
    <3> QED BY <3>1, <3>2
  <2>2. CASE Tick(c)
    <3>1. call[c].age + 1 \in 0..MaxAge
      <4>1. call[c].age \in 0..MaxAge /\ call[c].age < MaxAge
        BY <1>0, <2>2 DEF CallRecord, Tick
      <4> QED BY <4>1, SupervisorAssumption
    <3>2. PICK a \in 0..MaxAge : a = call[c].age + 1
      BY <3>1
    <3> DEFINE q == [call[c] EXCEPT !.age = a]
    <3>3. /\ q \in CallRecord
          /\ q.stage = call[c].stage /\ q.consumed = call[c].consumed /\ q.run = call[c].run
          /\ q.token = call[c].token /\ q.life = call[c].life /\ q.listed = call[c].listed
          /\ q.failed = call[c].failed
      <4> HIDE DEF Stages
      <4> QED BY <1>0 DEF CallRecord
    <3>4. call' = [call EXCEPT ![c] = q]
      BY <2>2, <3>2 DEF Tick
    <3> HIDE DEF q
    <3> QED BY <3>3, <3>4
  <2> QED BY <2>1, <2>2
<1>3. Keeps(c, k)
  BY <1>0, <1>2 DEF Keeps
<1>4. Startable(c) => Answers(k)
  BY <1>0, <1>2 DEF Accounted, Answers
<1> QED BY <1>1, <1>2, <1>3, <1>4, Still

LEMMA ExitKeeps ==
    ASSUME Inv, DisplayExits \/ \E c \in Calls : RunnerExits(c)
    PROVE  Inv'
<1>0. Types
  BY DEF Inv
<1>1. CASE DisplayExits
  <2>1. display \in Calls
    BY <1>0, <1>1 DEF DisplayExits, Types
  <2>2. Shrinks /\ UNCHANGED <<proc, call, stray>> /\ display' = NoCall
    BY <1>0, <1>1 DEF DisplayExits, Types, Shrinks
  <2> QED BY <2>1, <2>2, Fades
<1>2. ASSUME NEW c \in Calls, RunnerExits(c)
      PROVE  Inv'
  <2>1. UNCHANGED <<proc, call, stray>> /\ inflight' = inflight /\ display' = display
    BY <1>2 DEF RunnerExits
  <2>2. PICK u \in SUBSET (Calls \X Kinds) : u = docker.up \ {<<c, "runner">>}
    BY <1>0 DEF Types, Daemon
  <2>3. docker' = [docker EXCEPT !.up = u]
    BY <1>2, <2>2 DEF RunnerExits
  <2>4. /\ docker' \in Daemon /\ docker'.res = docker.res /\ docker'.up = u
        /\ docker'.peers = docker.peers
    BY <1>0, <2>3 DEF Types, Daemon
  <2>5. docker'.up \subseteq docker.up /\ docker.up \subseteq docker.res
    BY <1>0, <2>2, <2>4 DEF Types
  <2>6. Shrinks
    BY <2>1, <2>4, <2>5 DEF Shrinks
  <2> QED BY <2>1, <2>6, Fades
<1> QED BY <1>1, <1>2

-----------------------------------------------------------------------------
(* What the daemon carries out.                                            *)

LEMMA Execution ==
    ASSUME docker \in Daemon, docker.up \subseteq docker.res, NEW c \in Calls, NEW s \in Mutating,
           Feasible(docker, c, s), docker' = Execute(docker, c, s)
    PROVE  /\ docker' \in Daemon /\ docker'.up \subseteq docker'.res
           /\ \A d \in Calls, r \in Kinds :
                <<d, r>> \in docker'.res => <<d, r>> \in docker.res \/ d = c
           /\ <<c, "runner">> \in docker'.res =>
                \/ <<c, "runner">> \in docker.res
                \/ s = "runnerCreate" /\ <<c, "internal">> \in docker.res
           /\ \A d \in Calls : RunnerUp(d)' =>
                \/ RunnerUp(d)
                \/ d = c /\ s = "runnerStart" /\ <<c, "runner">> \in docker.res
           /\ \A d \in Calls, n \in Networks :
                <<d, n, "stray">> \in docker'.peers => <<d, n, "stray">> \in docker.peers
<1> DEFINE Rs == SUBSET ({c} \X Kinds)
           Us == SUBSET ({c} \X Containers)
           Ps == SUBSET ({c} \X Networks \X Containers)
           Adds(r, u, p) ==
             /\ docker' = [res |-> docker.res \cup r, up |-> docker.up \cup u, peers |-> docker.peers \cup p]
             /\ u \subseteq docker.res
             /\ <<c, "runner">> \in r => s = "runnerCreate" /\ <<c, "internal">> \in docker.res
             /\ <<c, "runner">> \in u => s = "runnerStart"
<1>1. \E r \in Rs, u \in Us, p \in Ps : Adds(r, u, p)
  <2>0. docker = [res |-> docker.res, up |-> docker.up, peers |-> docker.peers]
    BY DEF Daemon
  <2>z. {} \in Rs /\ {} \in Us /\ {} \in Ps
    OBVIOUS
  <2>1. CASE s = "netInternal"
    <3>1. {<<c, "internal">>} \in Rs /\ {} \in Us /\ {} \in Ps
      BY DEF Kinds, Networks
    <3>2. docker' = [res |-> docker.res \cup {<<c, "internal">>}, up |-> docker.up \cup {},
                     peers |-> docker.peers \cup {}]
      BY <2>0, <2>1 DEF Execute, Daemon
    <3>3. Adds({<<c, "internal">>}, {}, {})
      BY <2>1, <3>2
    <3> HIDE DEF Adds, Rs, Us, Ps
    <3> QED BY <2>z, <3>1, <3>3
  <2>2. CASE s = "netExternal"
    <3>1. {<<c, "external">>} \in Rs /\ {} \in Us /\ {} \in Ps
      BY DEF Kinds, Networks
    <3>2. docker' = [res |-> docker.res \cup {<<c, "external">>}, up |-> docker.up \cup {},
                     peers |-> docker.peers \cup {}]
      BY <2>0, <2>2 DEF Execute, Daemon
    <3>3. Adds({<<c, "external">>}, {}, {})
      BY <2>2, <3>2
    <3> HIDE DEF Adds, Rs, Us, Ps
    <3> QED BY <2>z, <3>1, <3>3
  <2>3. CASE s = "proxyCreate"
    <3>1. {<<c, "proxy">>} \in Rs /\ {} \in Us /\ {<<c, "internal", "proxy">>} \in Ps
      BY DEF Kinds, Networks, Containers
    <3>2. docker' = [res |-> docker.res \cup {<<c, "proxy">>}, up |-> docker.up \cup {},
                     peers |-> docker.peers \cup {<<c, "internal", "proxy">>}]
      BY <2>0, <2>3 DEF Execute, Daemon
    <3>3. Adds({<<c, "proxy">>}, {}, {<<c, "internal", "proxy">>})
      BY <2>3, <3>2
    <3> HIDE DEF Adds, Rs, Us, Ps
    <3> QED BY <2>z, <3>1, <3>3
  <2>4. CASE s = "proxyConnect"
    <3>1. {} \in Rs /\ {} \in Us /\ {<<c, "external", "proxy">>} \in Ps
      BY DEF Networks, Containers
    <3>2. docker' = [res |-> docker.res \cup {}, up |-> docker.up \cup {},
                     peers |-> docker.peers \cup {<<c, "external", "proxy">>}]
      BY <2>0, <2>4 DEF Execute, Daemon
    <3>3. Adds({}, {}, {<<c, "external", "proxy">>})
      BY <2>4, <3>2
    <3> HIDE DEF Adds, Rs, Us, Ps
    <3> QED BY <2>z, <3>1, <3>3
  <2>5. CASE s = "proxyStart"
    <3>0. <<c, "proxy">> \in docker.res
      BY <2>5 DEF Feasible
    <3>1. {} \in Rs /\ {<<c, "proxy">>} \in Us /\ {} \in Ps
      BY DEF Containers
    <3>2. docker' = [res |-> docker.res \cup {}, up |-> docker.up \cup {<<c, "proxy">>},
                     peers |-> docker.peers \cup {}]
      BY <2>0, <2>5 DEF Execute, Daemon
    <3>3. Adds({}, {<<c, "proxy">>}, {})
      BY <2>5, <3>0, <3>2
    <3> HIDE DEF Adds, Rs, Us, Ps
    <3> QED BY <2>z, <3>1, <3>3
  <2>6. CASE s = "runnerCreate"
    <3>0. <<c, "internal">> \in docker.res
      BY <2>6 DEF Feasible
    <3>1. {<<c, "runner">>} \in Rs /\ {} \in Us /\ {<<c, "internal", "runner">>} \in Ps
      BY DEF Kinds, Networks, Containers
    <3>2. docker' = [res |-> docker.res \cup {<<c, "runner">>}, up |-> docker.up \cup {},
                     peers |-> docker.peers \cup {<<c, "internal", "runner">>}]
      BY <2>0, <2>6 DEF Execute, Daemon
    <3>3. Adds({<<c, "runner">>}, {}, {<<c, "internal", "runner">>})
      BY <2>6, <3>0, <3>2
    <3> HIDE DEF Adds, Rs, Us, Ps
    <3> QED BY <2>z, <3>1, <3>3
  <2>7. CASE s = "runnerStart"
    <3>0. <<c, "runner">> \in docker.res
      BY <2>7 DEF Feasible
    <3>1. {} \in Rs /\ {<<c, "runner">>} \in Us /\ {} \in Ps
      BY DEF Containers
    <3>2. docker' = [res |-> docker.res \cup {}, up |-> docker.up \cup {<<c, "runner">>},
                     peers |-> docker.peers \cup {}]
      BY <2>0, <2>7 DEF Execute, Daemon
    <3>3. Adds({}, {<<c, "runner">>}, {})
      BY <2>7, <3>0, <3>2
    <3> HIDE DEF Adds, Rs, Us, Ps
    <3> QED BY <2>z, <3>1, <3>3
  <2> QED BY <2>1, <2>2, <2>3, <2>4, <2>5, <2>6, <2>7 DEF Mutating
<1>p. PICK r \in Rs, u \in Us, p \in Ps : Adds(r, u, p)
  BY <1>1
<1>2. /\ docker'.res = docker.res \cup r /\ docker'.up = docker.up \cup u
      /\ docker'.peers = docker.peers \cup p
  BY <1>p
<1>3. docker' \in Daemon
  <2>1. /\ docker.res \cup r \in SUBSET (Calls \X Kinds) /\ docker.up \cup u \in SUBSET (Calls \X Kinds)
        /\ docker.peers \cup p \in SUBSET (Calls \X Networks \X (Containers \cup {"stray"}))
    BY DEF Daemon, Kinds
  <2> QED BY <1>p, <2>1 DEF Daemon
<1>4. docker'.up \subseteq docker'.res
  BY <1>p, <1>2
<1>5. \A d \in Calls, k \in Kinds : <<d, k>> \in docker'.res => <<d, k>> \in docker.res \/ d = c
  BY <1>2
<1>6. \A d \in Calls : <<d, "runner">> \in u => d = c
  OBVIOUS
<1>7. \A d \in Calls, n \in Networks : <<d, n, "stray">> \notin p
  BY DEF Containers
<1> QED BY <1>p, <1>2, <1>3, <1>4, <1>5, <1>6, <1>7 DEF RunnerUp

\* A command of a building call that changes what the daemon holds.
LEMMA MutatingKeeps ==
    ASSUME Inv, NEW c \in Calls, DockerStep(c), call[c].stage \in Mutating
    PROVE  Inv'
<1>0. /\ Types /\ Exclusive /\ AttestedFirst /\ OneLeftOver /\ Accounted
      /\ OneHoused /\ OwnDisplay /\ Strangers /\ call[c] \in CallRecord
  BY ActiveStages DEF Inv
<1>1. PICK s \in Mutating : s = call[c].stage
  OBVIOUS
<1>2. /\ s \in BuildStages \ {"runnerWait", "stale", "probeDisplay", "runnerOnInternal"}
      /\ s \in CleanStages /\ (s = "runnerStart" => s \in Probed \cap Inspected)
  BY DEF Mutating, BuildStages, CleanStages, Probed, Inspected
<1>3. PICK t \in Stages, o \in BOOLEAN :
        t = After(s) /\ o = (call[c].token /\ s # "runnerCreate")
  BY <1>2, AfterBuilding
<1> DEFINE moved == [call[c] EXCEPT !.stage = t, !.token = o]
<1>4. PICK k \in CallRecord : k = moved
  BY <1>0 DEF CallRecord
<1>5. /\ k.stage = t /\ k.consumed = call[c].consumed /\ k.run = call[c].run
      /\ k.life = call[c].life
  BY <1>0, <1>4 DEF CallRecord
<1>6. call' = [call EXCEPT ![c] = k]
  BY <1>1, <1>2, <1>3, <1>4 DEF DockerStep
<1> HIDE DEF moved
<1>7. /\ call'[c] = k /\ call' \in [Calls -> CallRecord]
      /\ \A d \in Calls : d # c => call'[d] = call[d]
  BY <1>0, <1>6 DEF Types
<1>8. /\ UNCHANGED <<proc, inflight, display, stray>>
      /\ Feasible(docker, c, s) /\ docker' = Execute(docker, c, s)
  BY <1>1 DEF DockerStep
<1>9. /\ docker' \in Daemon /\ docker'.up \subseteq docker'.res
      /\ \A d \in Calls, r \in Kinds :
           <<d, r>> \in docker'.res => <<d, r>> \in docker.res \/ d = c
      /\ \A d \in Calls : RunnerUp(d)' => RunnerUp(d) \/ (d = c /\ s = "runnerStart")
      /\ \A d \in Calls, n \in Networks :
           <<d, n, "stray">> \in docker'.peers => <<d, n, "stray">> \in docker.peers
  BY <1>0, <1>8, Execution DEF Types
<1>10. /\ k.stage \in CleanStages /\ Attested(c) /\ Active(c) /\ ~Startable(c)
       /\ k.stage \in Probed => s \in Probed
       /\ k.stage \in Inspected => s \in Inspected
       /\ k.stage \notin Unattested \cup EndStages \cup Gone \cup {"lookup", "verify", "prepare"}
       /\ Attested(c)'
  <2>1. call[c].stage \in BuildStages \ {"runnerWait"} /\ k.stage = After(call[c].stage)
    BY <1>1, <1>2, <1>3, <1>5
  <2>2. /\ k.stage \in CleanStages /\ Attested(c) /\ Active(c) /\ ~Startable(c)
        /\ k.stage \in Probed => call[c].stage \in Probed \cup {"probeDisplay"}
        /\ k.stage \in Inspected => call[c].stage \in Inspected \cup {"runnerOnInternal"}
        /\ k.stage \notin Unattested \cup EndStages \cup Gone \cup {"lookup", "verify", "prepare"}
    BY <1>5, <2>1, Onward
  <2>3. Attested(c)'
    BY <1>5, <1>7, <2>2 DEF Attested
  <2> QED BY <1>1, <1>2, <2>2, <2>3
<1>11. \A q \in Mutating : <<c, q>> \notin inflight
  BY <1>1, <1>2, NotYet
<1>12. \A d \in Calls : d # c => (Startable(d)' => Startable(d)) /\ (Housed(d)' => Housed(d))
  BY <1>8, <1>9 DEF Startable, Housed, Kinds, Networks, Containers
<1>13. Startable(c)' => s = "runnerStart"
  <2>1. "runnerStart" \in Mutating
    BY DEF Mutating
  <2> QED BY <1>8, <1>9, <1>10, <1>11, <2>1 DEF Startable
<1>14. \A d \in Calls : Housed(d)' => d = c
  BY <1>0, <1>1, <1>2, <1>12 DEF OneHoused
<1>15. Types'
  BY <1>0, <1>7, <1>8, <1>9 DEF Types
<1>16. \A d \in Calls : Active(d)' <=> Active(d)
  <2>1. k.stage \notin {"idle", "done", "lost"}
    BY <1>10 DEF Unattested, Gone
  <2> QED BY <1>7, <1>10, <2>1 DEF Active, Ended
<1>17. Exclusive'
  BY <1>0, <1>5, <1>7, <1>8, <1>16 DEF Exclusive
<1>18. AttestedFirst'
  <2> SUFFICES ASSUME NEW d \in Calls
               PROVE  /\ call'[d].stage \in Unattested => ~call'[d].consumed
                      /\ call'[d].stage \in {"lookup", "verify"} => call'[d].run \in Runs
                      /\ call'[d].stage \in {"prepare"} \cup BuildStages \cup EndStages => Attested(d)'
                      /\ call'[d].token => Attested(d)'
                      /\ \A r \in Kinds : <<d, r>> \in docker'.res => Attested(d)'
                      /\ \A q \in Mutating : <<d, q>> \in inflight' => Attested(d)'
    BY DEF AttestedFirst
  <2>1. CASE d # c
    BY <1>0, <1>7, <1>8, <1>9, <2>1 DEF AttestedFirst, Attested
  <2>2. CASE d = c
    BY <1>7, <1>10, <2>2
  <2> QED BY <2>1, <2>2
<1>19. OneLeftOver'
  BY <1>0, <1>7, <1>8, <1>11 DEF OneLeftOver
<1>20. Accounted'
  <2> SUFFICES ASSUME NEW d \in Calls, Startable(d)'
               PROVE  Answers(call[d])'
    BY DEF Accounted
  <2>1. CASE d # c
    <3>1. Answers(call[d]) /\ call'[d] = call[d]
      BY <1>0, <1>7, <1>12, <2>1 DEF Accounted
    <3> QED BY <1>8, <3>1 DEF Answers
  <2>2. CASE d = c
    <3>1. s = "runnerStart"
      BY <1>13, <2>2
    <3>2. call'[c].stage = "runnerWait"
      BY <1>2, <1>3, <1>5, <1>7, <3>1, Succession
    <3> QED BY <2>2, <3>2 DEF Answers
  <2> QED BY <2>1, <2>2
<1>21. OneHoused'
  <2>1. ASSUME NEW d \in Calls, call'[d].stage \in CleanStages
        PROVE  d = c
    <3>1. CASE d # c
      <4>1. call[d].stage \notin {"idle", "done", "lost"}
        BY <1>7, <2>1, <3>1 DEF CleanStages, BuildStages
      <4> QED BY <1>0, <1>10, <4>1 DEF Exclusive, Active, Ended
    <3> QED BY <3>1
  <2> QED BY <1>14, <2>1 DEF OneHoused
<1>22. OwnDisplay'
  <2> SUFFICES ASSUME NEW d \in Calls, call'[d].stage \in Probed \/ Startable(d)'
               PROVE  display \in {d, NoCall}
    BY <1>8 DEF OwnDisplay
  <2>1. call[d].stage \in Probed \/ Startable(d)
    BY <1>1, <1>2, <1>7, <1>10, <1>12, <1>13
  <2> QED BY <1>0, <2>1 DEF OwnDisplay
<1>23. Strangers'
  <2> SUFFICES ASSUME NEW d \in Calls
               PROVE  /\ \A n \in Networks : <<d, n, "stray">> \in docker'.peers => stray'[d] # "none"
                      /\ stray'[d] = "early" /\ <<d, "internal", "stray">> \in docker'.peers =>
                           /\ call'[d].stage \notin Inspected
                           /\ ~RunnerUp(d)' /\ <<d, "runnerStart">> \notin inflight'
    BY DEF Strangers
  <2>1. \A n \in Networks : <<d, n, "stray">> \in docker'.peers => stray'[d] # "none"
    BY <1>0, <1>8, <1>9 DEF Strangers
  <2>2. ASSUME stray'[d] = "early", <<d, "internal", "stray">> \in docker'.peers
        PROVE  /\ call'[d].stage \notin Inspected
               /\ ~RunnerUp(d)' /\ <<d, "runnerStart">> \notin inflight'
    <3>1. /\ <<d, "internal", "stray">> \in docker.peers /\ call[d].stage \notin Inspected
          /\ ~RunnerUp(d) /\ <<d, "runnerStart">> \notin inflight
      BY <1>0, <1>8, <1>9, <2>2 DEF Strangers, Networks
    <3> QED BY <1>1, <1>2, <1>7, <1>8, <1>9, <1>10, <3>1
  <2> QED BY <2>1, <2>2
<1> QED BY <1>15, <1>17, <1>18, <1>19, <1>20, <1>21, <1>22, <1>23 DEF Inv

\* A left-over command is carried out: its call is over or being torn down.
LEMMA DaemonCatchesUpKeeps ==
    ASSUME Inv, NEW m \in inflight, DaemonCatchesUp(m)
    PROVE  Inv'
<1>0. Types /\ Exclusive /\ AttestedFirst /\ OneLeftOver /\ Accounted /\ OneHoused /\ OwnDisplay /\ Strangers
  BY DEF Inv
<1>1. PICK c \in Calls, s \in Mutating : m = <<c, s>>
  BY <1>0 DEF Types
<1>2. UNCHANGED <<proc, call, display, stray>> /\ inflight' = inflight \ {<<c, s>>} /\ <<c, s>> \in inflight
  BY <1>1 DEF DaemonCatchesUp
<1>3. CASE ~Feasible(docker, c, s)
  <2>1. docker' = docker
    BY <1>1, <1>3 DEF DaemonCatchesUp
  <2>2. Shrinks
    BY <1>0, <1>2, <2>1 DEF Types, Shrinks
  <2> QED BY <1>2, <2>2, Fades
<1>4. CASE Feasible(docker, c, s)
  <2>1. docker' = Execute(docker, c, s)
    BY <1>1, <1>4 DEF DaemonCatchesUp
  <2>2. /\ docker' \in Daemon /\ docker'.up \subseteq docker'.res
        /\ \A d \in Calls, r \in Kinds :
             <<d, r>> \in docker'.res => <<d, r>> \in docker.res \/ d = c
        /\ <<c, "runner">> \in docker'.res =>
             \/ <<c, "runner">> \in docker.res
             \/ s = "runnerCreate" /\ <<c, "internal">> \in docker.res
        /\ \A d \in Calls : RunnerUp(d)' =>
             \/ RunnerUp(d)
             \/ d = c /\ s = "runnerStart" /\ <<c, "runner">> \in docker.res
        /\ \A d \in Calls, n \in Networks :
             <<d, n, "stray">> \in docker'.peers => <<d, n, "stray">> \in docker.peers
    BY <1>0, <1>4, <2>1, Execution DEF Types
  <2>3. \A q \in Mutating : <<c, q>> \notin inflight'
    BY <1>0, <1>2 DEF OneLeftOver
  <2>4. "runnerStart" \in Mutating /\ "runnerCreate" \in Mutating
    BY DEF Mutating
  <2>5. \A d \in Calls : (Startable(d)' => Startable(d)) /\ (Housed(d)' => Housed(d))
    <3>1. ASSUME NEW d \in Calls, d # c
          PROVE  (Startable(d)' => Startable(d)) /\ (Housed(d)' => Housed(d))
      BY <1>2, <2>2, <3>1 DEF Startable, Housed, Kinds, Networks, Containers
    <3>2. Startable(c)' => Startable(c)
      BY <1>2, <2>2, <2>3, <2>4 DEF Startable
    <3>3. Housed(c)' => Housed(c)
      BY <1>2, <2>2, <2>3, <2>4 DEF Housed
    <3> QED BY <3>1, <3>2, <3>3
  <2>6. Types'
    BY <1>0, <1>2, <2>2 DEF Types
  <2>7. Exclusive'
    BY <1>0, <1>2 DEF Exclusive, Active, Ended
  <2>8. AttestedFirst'
    <3>1. Attested(c)
      BY <1>0, <1>2 DEF AttestedFirst
    <3> QED BY <1>0, <1>2, <2>2, <3>1 DEF AttestedFirst, Attested
  <2>9. OneLeftOver'
    BY <1>0, <1>2 DEF OneLeftOver
  <2>10. Accounted'
    <3>1. \A d \in Calls : Startable(d)' => Answers(call[d])
      BY <1>0, <2>5 DEF Accounted
    <3> QED BY <1>2, <3>1 DEF Accounted, Answers
  <2>11. OneHoused'
    BY <1>0, <1>2, <2>5 DEF OneHoused
  <2>12. OwnDisplay'
    BY <1>0, <1>2, <2>5 DEF OwnDisplay
  <2>13. Strangers'
    <3> SUFFICES ASSUME NEW d \in Calls
                 PROVE  /\ \A n \in Networks : <<d, n, "stray">> \in docker'.peers => stray[d] # "none"
                        /\ stray[d] = "early" /\ <<d, "internal", "stray">> \in docker'.peers =>
                             /\ call[d].stage \notin Inspected
                             /\ ~RunnerUp(d)' /\ <<d, "runnerStart">> \notin inflight'
      BY <1>2 DEF Strangers
    <3>1. \A n \in Networks : <<d, n, "stray">> \in docker'.peers => stray[d] # "none"
      BY <1>0, <2>2 DEF Strangers
    <3>2. ASSUME stray[d] = "early", <<d, "internal", "stray">> \in docker'.peers
          PROVE  /\ call[d].stage \notin Inspected
                 /\ ~RunnerUp(d)' /\ <<d, "runnerStart">> \notin inflight'
      <4>1. /\ <<d, "internal", "stray">> \in docker.peers /\ call[d].stage \notin Inspected
            /\ ~RunnerUp(d) /\ <<d, "runnerStart">> \notin inflight
        BY <1>0, <2>2, <3>2 DEF Strangers, Networks
      <4> QED BY <1>2, <2>2, <4>1
    <3> QED BY <3>1, <3>2
  <2> QED BY <2>6, <2>7, <2>8, <2>9, <2>10, <2>11, <2>12, <2>13 DEF Inv
<1> QED BY <1>3, <1>4

-----------------------------------------------------------------------------
(* Killed command lines, crashes and strangers.                            *)

LEMMA CliKilledKeeps ==
    ASSUME Inv, NEW c \in Calls, CliKilled(c)
    PROVE  Inv'
<1>0. /\ Types /\ Exclusive /\ AttestedFirst /\ OneLeftOver /\ Accounted
      /\ OneHoused /\ OwnDisplay /\ Strangers /\ call[c] \in CallRecord
  BY ActiveStages DEF Inv
<1>1. PICK s \in Mutating : s = call[c].stage
  BY DEF CliKilled
<1>2. /\ s \in BuildStages \ {"runnerWait"} /\ s \in CleanStages /\ s \notin {"idle", "done", "lost"}
      /\ (s = "runnerStart" => s \in Probed \cap Inspected)
  BY DEF Mutating, BuildStages, CleanStages, Probed, Inspected
<1>3. PICK k \in CallRecord : k = TornRecord(call[c])
  BY <1>0, Torn
<1>4. k.stage = "lsContainers" /\ k.consumed /\ k.run = call[c].run /\ k.life = call[c].life
  BY <1>0, <1>3, Torn
<1>5. call' = [call EXCEPT ![c] = k]
  BY <1>3 DEF CliKilled, ToTeardown, TornRecord
<1>6. /\ call'[c] = k /\ call' \in [Calls -> CallRecord]
      /\ \A d \in Calls : d # c => call'[d] = call[d]
  BY <1>0, <1>5 DEF Types
<1>7. UNCHANGED <<proc, docker, display, stray>> /\ inflight' = inflight \cup {<<c, s>>}
  BY <1>1 DEF CliKilled
<1>8. Attested(c) /\ Active(c) /\ Attested(c)'
  BY <1>0, <1>1, <1>2, <1>4, <1>6 DEF AttestedFirst, Attested, Active, Ended
<1>9. \A q \in Mutating : <<c, q>> \notin inflight
  BY <1>1, <1>2, NotYet
<1>10. \A d \in Calls : d # c => (Startable(d)' => Startable(d)) /\ (Housed(d)' => Housed(d))
  BY <1>7 DEF Startable, RunnerUp, Housed
<1>11. \A d \in Calls : Housed(d)' => d = c
  BY <1>0, <1>1, <1>2, <1>10 DEF OneHoused
<1>12. Types'
  BY <1>0, <1>6, <1>7 DEF Types
<1>13. Exclusive'
  <2>1. \A d \in Calls : Active(d)' => Active(d)
    BY <1>6, <1>8 DEF Active, Ended
  <2> QED BY <1>0, <1>4, <1>6, <1>7, <2>1 DEF Exclusive
<1>14. /\ k.stage \in EndStages
       /\ k.stage \notin Unattested \cup CleanStages \cup Probed \cup Inspected \cup {"lookup", "verify"}
  BY <1>4 DEF EndStages, Unattested, CleanStages, BuildStages, Probed, Inspected
<1>15. AttestedFirst'
  <2> SUFFICES ASSUME NEW d \in Calls
               PROVE  /\ call'[d].stage \in Unattested => ~call'[d].consumed
                      /\ call'[d].stage \in {"lookup", "verify"} => call'[d].run \in Runs
                      /\ call'[d].stage \in {"prepare"} \cup BuildStages \cup EndStages => Attested(d)'
                      /\ call'[d].token => Attested(d)'
                      /\ \A r \in Kinds : <<d, r>> \in docker'.res => Attested(d)'
                      /\ \A q \in Mutating : <<d, q>> \in inflight' => Attested(d)'
    BY DEF AttestedFirst
  <2>1. CASE d # c
    BY <1>0, <1>6, <1>7, <2>1 DEF AttestedFirst, Attested
  <2>2. CASE d = c
    BY <1>6, <1>8, <1>14, <2>2
  <2> QED BY <2>1, <2>2
<1>16. OneLeftOver'
  <2>1. ASSUME NEW d \in Calls, NEW q \in Mutating, NEW r \in Mutating, <<d, q>> \in inflight'
        PROVE  /\ call'[d].stage \in EndStages \cup Gone
               /\ <<d, r>> \in inflight' => q = r
    <3>1. CASE d = c
      BY <1>6, <1>7, <1>9, <1>14, <2>1, <3>1
    <3>2. CASE d # c
      BY <1>0, <1>6, <1>7, <2>1, <3>2 DEF OneLeftOver
    <3> QED BY <3>1, <3>2
  <2> QED BY <2>1 DEF OneLeftOver
<1>17. Accounted'
  <2> SUFFICES ASSUME NEW d \in Calls, Startable(d)'
               PROVE  Answers(call[d])'
    BY DEF Accounted
  <2>1. CASE d # c
    <3>1. Answers(call[d]) /\ call'[d] = call[d]
      BY <1>0, <1>6, <1>10, <2>1 DEF Accounted
    <3> QED BY <1>7, <3>1 DEF Answers
  <2>2. CASE d = c
    BY <1>4, <1>6, <2>2 DEF Answers
  <2> QED BY <2>1, <2>2
<1>18. OneHoused'
  <2>1. ASSUME NEW d \in Calls, call'[d].stage \in CleanStages
        PROVE  d = c
    <3>1. CASE d # c
      <4>1. call[d].stage \notin {"idle", "done", "lost"}
        BY <1>6, <2>1, <3>1 DEF CleanStages, BuildStages
      <4> QED BY <1>0, <1>8, <4>1 DEF Exclusive, Active, Ended
    <3> QED BY <3>1
  <2> QED BY <1>11, <2>1 DEF OneHoused
<1>19. OwnDisplay'
  <2> SUFFICES ASSUME NEW d \in Calls, call'[d].stage \in Probed \/ Startable(d)'
               PROVE  display \in {d, NoCall}
    BY <1>7 DEF OwnDisplay
  <2>1. call[d].stage \in Probed \/ Startable(d)
    <3>1. CASE d # c
      BY <1>6, <1>10, <3>1
    <3>2. CASE d = c
      BY <1>1, <1>2, <1>6, <1>7, <1>14, <3>2 DEF Startable, RunnerUp
    <3> QED BY <3>1, <3>2
  <2> QED BY <1>0, <2>1 DEF OwnDisplay
<1>20. Strangers'
  <2> SUFFICES ASSUME NEW d \in Calls
               PROVE  /\ \A n \in Networks : <<d, n, "stray">> \in docker.peers => stray[d] # "none"
                      /\ stray[d] = "early" /\ <<d, "internal", "stray">> \in docker.peers =>
                           /\ call'[d].stage \notin Inspected
                           /\ ~RunnerUp(d) /\ <<d, "runnerStart">> \notin inflight'
    BY <1>7 DEF Strangers, RunnerUp
  <2>1. ASSUME stray[d] = "early", <<d, "internal", "stray">> \in docker.peers
        PROVE  /\ call'[d].stage \notin Inspected
               /\ ~RunnerUp(d) /\ <<d, "runnerStart">> \notin inflight'
    <3>1. /\ call[d].stage \notin Inspected
          /\ ~RunnerUp(d) /\ <<d, "runnerStart">> \notin inflight
      BY <1>0, <2>1 DEF Strangers
    <3> QED BY <1>1, <1>2, <1>6, <1>7, <1>14, <3>1
  <2> QED BY <1>0, <2>1 DEF Strangers
<1> QED BY <1>12, <1>13, <1>15, <1>16, <1>17, <1>18, <1>19, <1>20 DEF Inv

LEMMA CrashKeeps ==
    ASSUME Inv, Crash
    PROVE  Inv'
<1>0. Types /\ Exclusive /\ AttestedFirst /\ OneLeftOver /\ Accounted /\ OneHoused /\ OwnDisplay /\ Strangers
  BY DEF Inv
<1>1. /\ proc' \in Process /\ proc'.life = proc.life + 1 /\ proc.life \in Nat
      /\ ~proc'.active
  <2>1. proc.life \in 0..MaxCrashes /\ proc.life < MaxCrashes
    BY <1>0 DEF Types, Process, Crash
  <2>2. proc.life + 1 \in 0..MaxCrashes /\ proc.life \in Nat
    BY <2>1, SupervisorAssumption
  <2>3. PICK l \in 0..MaxCrashes : l = proc.life + 1
    BY <2>2
  <2>4. proc' = [active |-> FALSE, unverified |-> FALSE, life |-> l]
    BY <2>3 DEF Crash
  <2> QED BY <2>2, <2>3, <2>4 DEF Process
<1>2. UNCHANGED <<docker, display, stray>>
  BY DEF Crash
<1>3. ASSUME NEW d \in Calls
      PROVE  /\ call'[d] \in CallRecord /\ call'[d].life = call[d].life
             /\ Active(d) => /\ call'[d].stage = "lost" /\ call'[d].consumed
                             /\ call'[d].run = call[d].run /\ ~call'[d].token
             /\ ~Active(d) => call'[d] = call[d]
             /\ call'[d].stage \in {"idle", "done", "lost"}
  <2>1. call[d] \in CallRecord
    BY <1>0, ActiveStages
  <2>2. call'[d] = IF Active(d) THEN Over(call[d], "lost") ELSE call[d]
    BY DEF Crash
  <2>3. ~Active(d) => call[d].stage \in {"idle", "done", "lost"}
    BY DEF Active, Ended
  <2> QED BY <2>1, <2>2, <2>3, OverRecord
<1>4. \A d \in Calls, s \in Mutating :
        <<d, s>> \in inflight' => <<d, s>> \in inflight \/ call[d].stage = s
  BY DEF Crash
<1>5. \A s \in Mutating : /\ s \in BuildStages /\ s \in CleanStages /\ s \notin {"idle", "done", "lost"}
                          /\ s \notin EndStages \cup Gone \cup {"runnerWait"}
                          /\ (s = "runnerStart" => s \in Probed \cap Inspected)
  BY DEF Mutating, BuildStages, CleanStages, Probed, Inspected, EndStages, Removed, Gone
<1>6. "runnerStart" \in Mutating /\ "runnerCreate" \in Mutating
  BY DEF Mutating
<1>7. \A d \in Calls : ~Active(d)'
  BY <1>3 DEF Active, Ended
<1>8. \A d \in Calls : call'[d].stage \notin ({"lookup", "verify", "prepare"} \cup BuildStages \cup EndStages
                                              \cup CleanStages \cup Probed \cup Inspected)
  BY <1>3 DEF CleanStages, BuildStages, Probed, Inspected, EndStages, Removed
<1>9. ASSUME NEW d \in Calls, call[d].stage \in Mutating
      PROVE  Active(d) /\ Attested(d) /\ (\A s \in Mutating : <<d, s>> \notin inflight)
  <2>1. Active(d)
    BY <1>5, <1>9 DEF Active, Ended
  <2>2. Attested(d)
    BY <1>0, <1>5, <1>9 DEF AttestedFirst
  <2>3. \A s \in Mutating : <<d, s>> \notin inflight
    BY <1>0, <1>5, <1>9 DEF OneLeftOver
  <2> QED BY <2>1, <2>2, <2>3
<1>10. ASSUME NEW d \in Calls
       PROVE  /\ Startable(d)' => Startable(d) \/ call[d].stage = "runnerStart"
              /\ Housed(d)' => Housed(d) \/ call[d].stage = "runnerCreate"
  BY <1>2, <1>4, <1>6 DEF Startable, RunnerUp, Housed
<1>11. Types'
  <2>1. call' \in [Calls -> CallRecord]
    BY <1>3 DEF Crash
  <2>2. inflight' \in SUBSET (Calls \X Mutating)
    BY <1>0 DEF Types, Crash
  <2> QED BY <1>0, <1>1, <1>2, <2>1, <2>2 DEF Types
<1>12. Exclusive'
  <2>1. ASSUME NEW d \in Calls PROVE call'[d].life <= proc'.life
    <3>1. call[d].life \in 0..MaxCrashes /\ call[d].life <= proc.life
      BY <1>0, ActiveStages DEF Exclusive, CallRecord
    <3>2. call'[d].life = call[d].life
      BY <1>3
    <3> QED BY <1>1, <3>1, <3>2, SupervisorAssumption
  <2> QED BY <1>7, <2>1 DEF Exclusive
<1>13. \A d \in Calls : Attested(d) => Attested(d)'
  BY <1>3 DEF Attested
<1>14. AttestedFirst'
  <2> SUFFICES ASSUME NEW d \in Calls
               PROVE  /\ call'[d].stage \in Unattested => ~call'[d].consumed
                      /\ call'[d].stage \in {"lookup", "verify"} => call'[d].run \in Runs
                      /\ call'[d].stage \in {"prepare"} \cup BuildStages \cup EndStages => Attested(d)'
                      /\ call'[d].token => Attested(d)'
                      /\ \A r \in Kinds : <<d, r>> \in docker'.res => Attested(d)'
                      /\ \A q \in Mutating : <<d, q>> \in inflight' => Attested(d)'
    BY DEF AttestedFirst
  <2>1. call'[d].stage \in Unattested => ~call'[d].consumed
    BY <1>0, <1>3 DEF AttestedFirst, Unattested
  <2>2. call'[d].token => Attested(d)'
    BY <1>0, <1>3, <1>13 DEF AttestedFirst
  <2>3. \A r \in Kinds : <<d, r>> \in docker'.res => Attested(d)'
    BY <1>0, <1>2, <1>13 DEF AttestedFirst
  <2>4. \A q \in Mutating : <<d, q>> \in inflight' => Attested(d)'
    BY <1>0, <1>4, <1>9, <1>13 DEF AttestedFirst
  <2> QED BY <1>8, <2>1, <2>2, <2>3, <2>4
<1>15. OneLeftOver'
  <2>1. ASSUME NEW d \in Calls, NEW s \in Mutating, NEW t \in Mutating, <<d, s>> \in inflight'
        PROVE  /\ call'[d].stage \in EndStages \cup Gone
               /\ <<d, t>> \in inflight' => s = t
    <3>1. CASE <<d, s>> \in inflight
      <4>1. call[d].stage \in EndStages \cup Gone /\ (<<d, t>> \in inflight => s = t)
        BY <1>0, <3>1 DEF OneLeftOver
      <4>2. call[d].stage \notin Mutating
        BY <1>9, <3>1
      <4>3. call'[d].stage \in Gone
        BY <1>3, <4>1 DEF EndStages, Removed, Gone
      <4> QED BY <1>4, <4>1, <4>2, <4>3
    <3>2. CASE <<d, s>> \notin inflight
      <4>1. call[d].stage = s
        BY <1>4, <2>1, <3>2
      <4>2. call'[d].stage \in Gone
        BY <1>3, <1>9, <4>1 DEF Gone
      <4> QED BY <1>4, <1>9, <4>1, <4>2
    <3> QED BY <3>1, <3>2
  <2> QED BY <2>1 DEF OneLeftOver
<1>16. Accounted'
  <2> SUFFICES ASSUME NEW d \in Calls, Startable(d)'
               PROVE  Answers(call[d])'
    BY DEF Accounted
  <2>1. CASE Active(d)
    BY <1>3, <2>1 DEF Answers
  <2>2. CASE ~Active(d)
    <3>1. call'[d] = call[d] /\ call[d].stage \in {"idle", "done", "lost"}
      BY <1>3, <2>2
    <3>2. Startable(d)
      BY <1>5, <1>6, <1>10, <3>1
    <3>3. Answers(call[d])
      BY <1>0, <3>2 DEF Accounted
    <3>4. call[d].stage \in {"done", "lost"}
      BY <3>1, <3>3 DEF Answers, Removed
    <3>5. call'[d].life # proc'.life
      <4>1. call[d].life \in 0..MaxCrashes /\ call[d].life <= proc.life
        BY <1>0, ActiveStages DEF Exclusive, CallRecord
      <4> QED BY <1>1, <3>1, <4>1, SupervisorAssumption
    <3> QED BY <3>1, <3>4, <3>5 DEF Answers
  <2> QED BY <2>1, <2>2
<1>17. OneHoused'
  <2>1. ASSUME NEW d \in Calls, NEW e \in Calls, Housed(d)', Housed(e)'
        PROVE  d = e
    <3>1. CASE Housed(d) /\ Housed(e)
      BY <1>0, <3>1 DEF OneHoused
    <3>2. CASE call[d].stage = "runnerCreate" /\ Housed(e)
      BY <1>0, <1>5, <1>6, <3>2 DEF OneHoused
    <3>3. CASE Housed(d) /\ call[e].stage = "runnerCreate"
      BY <1>0, <1>5, <1>6, <3>3 DEF OneHoused
    <3>4. CASE call[d].stage = "runnerCreate" /\ call[e].stage = "runnerCreate"
      BY <1>0, <1>6, <1>9, <3>4 DEF Exclusive
    <3> QED BY <1>10, <2>1, <3>1, <3>2, <3>3, <3>4
  <2> QED BY <1>8, <2>1 DEF OneHoused
<1>18. OwnDisplay'
  <2>1. ASSUME NEW d \in Calls, Startable(d)'
        PROVE  display \in {d, NoCall}
    BY <1>0, <1>5, <1>6, <1>10, <2>1 DEF OwnDisplay
  <2> QED BY <1>2, <1>8, <2>1 DEF OwnDisplay
<1>19. Strangers'
  <2> SUFFICES ASSUME NEW d \in Calls
               PROVE  /\ \A n \in Networks : <<d, n, "stray">> \in docker.peers => stray[d] # "none"
                      /\ stray[d] = "early" /\ <<d, "internal", "stray">> \in docker.peers =>
                           /\ call'[d].stage \notin Inspected
                           /\ ~RunnerUp(d) /\ <<d, "runnerStart">> \notin inflight'
    BY <1>2 DEF Strangers, RunnerUp
  <2>1. ASSUME stray[d] = "early", <<d, "internal", "stray">> \in docker.peers
        PROVE  ~RunnerUp(d) /\ <<d, "runnerStart">> \notin inflight'
    <3>1. /\ call[d].stage \notin Inspected
          /\ ~RunnerUp(d) /\ <<d, "runnerStart">> \notin inflight
      BY <1>0, <2>1 DEF Strangers
    <3> QED BY <1>4, <1>5, <1>6, <3>1
  <2> QED BY <1>0, <1>8, <2>1 DEF Strangers
<1> QED BY <1>11, <1>12, <1>14, <1>15, <1>16, <1>17, <1>18, <1>19 DEF Inv

LEMMA StrayJoinsKeeps ==
    ASSUME Inv, NEW c \in Calls, NEW n \in Networks, StrayJoins(c, n)
    PROVE  Inv'
<1>0. Types /\ Exclusive /\ AttestedFirst /\ OneLeftOver /\ Accounted /\ OneHoused /\ OwnDisplay /\ Strangers
  BY DEF Inv
<1>1. UNCHANGED <<proc, call, inflight, display>> /\ Active(c)
  BY DEF StrayJoins
<1>2. /\ docker' \in Daemon /\ docker'.res = docker.res /\ docker'.up = docker.up
      /\ docker'.peers = docker.peers \cup {<<c, n, "stray">>}
  <2>1. PICK p \in SUBSET (Calls \X Networks \X (Containers \cup {"stray"})) :
          p = docker.peers \cup {<<c, n, "stray">>}
    <3>1. docker.peers \in SUBSET (Calls \X Networks \X (Containers \cup {"stray"}))
      BY <1>0 DEF Types, Daemon
    <3>2. <<c, n, "stray">> \in Calls \X Networks \X (Containers \cup {"stray"})
      OBVIOUS
    <3> QED BY <3>1, <3>2
  <2>2. docker' = [docker EXCEPT !.peers = p]
    BY <2>1 DEF StrayJoins
  <2> QED BY <1>0, <2>1, <2>2 DEF Types, Daemon
<1>3. PICK w \in {"early", "late"} :
        stray' = [stray EXCEPT ![c] = w] /\ (w = "early" => LooksAgain(c))
  BY DEF StrayJoins
<1>4. stray' \in [Calls -> {"none", "early", "late"}] /\ stray'[c] = w
      /\ \A d \in Calls : d # c => stray'[d] = stray[d]
  BY <1>0, <1>3 DEF Types
<1>5. Types'
  BY <1>0, <1>1, <1>2, <1>4 DEF Types
<1>6. \A d \in Calls :
        (Startable(d)' <=> Startable(d)) /\ (Housed(d)' <=> Housed(d)) /\ (RunnerUp(d)' <=> RunnerUp(d))
  BY <1>1, <1>2 DEF Startable, RunnerUp, Housed
<1>7. Exclusive'
  BY <1>0, <1>1 DEF Exclusive, Active, Ended
<1>8. AttestedFirst'
  BY <1>0, <1>1, <1>2 DEF AttestedFirst, Attested
<1>9. OneLeftOver'
  BY <1>0, <1>1 DEF OneLeftOver
<1>10. Accounted'
  <2>1. \A d \in Calls : Startable(d)' => Answers(call[d])
    BY <1>0, <1>6 DEF Accounted
  <2> QED BY <1>1, <2>1 DEF Accounted, Answers
<1>11. OneHoused'
  BY <1>0, <1>1, <1>6 DEF OneHoused
<1>12. OwnDisplay'
  BY <1>0, <1>1, <1>6 DEF OwnDisplay
<1>13. Strangers'
  <2> SUFFICES ASSUME NEW d \in Calls
               PROVE  /\ \A m \in Networks : <<d, m, "stray">> \in docker'.peers => stray'[d] # "none"
                      /\ stray'[d] = "early" /\ <<d, "internal", "stray">> \in docker'.peers =>
                           /\ call[d].stage \notin Inspected
                           /\ ~RunnerUp(d) /\ <<d, "runnerStart">> \notin inflight
    BY <1>1, <1>6 DEF Strangers
  <2>1. CASE d # c
    BY <1>0, <1>2, <1>4, <2>1 DEF Strangers
  <2>2. CASE d = c
    <3>1. ASSUME w = "early"
          PROVE  call[c].stage \notin Inspected /\ ~RunnerUp(c) /\ <<c, "runnerStart">> \notin inflight
      <4>1. call[c].stage \notin Inspected \cup EndStages
        BY <1>0, <1>1, <1>3, <3>1, ActiveStages, LooksLeft
      <4>2. call[c].stage \notin Gone
        BY <1>1 DEF Active, Ended, Gone
      <4>3. ~Startable(c)
        <5>1. ~Answers(call[c])
          BY <4>1, <4>2 DEF Answers, Inspected, EndStages, Gone
        <5> QED BY <1>0, <5>1 DEF Accounted
      <4>4. <<c, "runnerStart">> \notin inflight
        BY <1>0, <4>1, <4>2 DEF OneLeftOver, Mutating
      <4> QED BY <4>1, <4>3, <4>4 DEF Startable
    <3> QED BY <1>4, <2>2, <3>1
  <2> QED BY <2>1, <2>2
<1> QED BY <1>5, <1>7, <1>8, <1>9, <1>10, <1>11, <1>12, <1>13 DEF Inv

-----------------------------------------------------------------------------
(* The invariant of the supervisor.                                        *)

LEMMA InvInit ==
    ASSUME Init
    PROVE  Inv
<1>1. 0 \in 0..MaxAge /\ 0 \in 0..MaxCrashes
  BY SupervisorAssumption
<1>2. IdleCall \in CallRecord
  <2>1. "idle" \in Stages
    BY PhaseStages
  <2> HIDE DEF Stages
  <2> QED BY <1>1, <2>1 DEF IdleCall, CallRecord
<1>3. \A c \in Calls : /\ call[c] = IdleCall /\ call[c].stage = "idle" /\ ~call[c].consumed
                       /\ ~call[c].token /\ call[c].life = 0
  BY DEF Init, IdleCall
<1>4. docker.res = {} /\ docker.up = {} /\ docker.peers = {} /\ inflight = {} /\ proc.life = 0
  BY DEF Init
<1>5. Types
  BY <1>1, <1>2 DEF Init, Types, Process, Daemon
<1>6. \A c \in Calls : ~Active(c) /\ ~Startable(c) /\ ~Housed(c)
  BY <1>3, <1>4 DEF Active, Startable, RunnerUp, Housed
<1>7. "idle" \notin {"lookup", "verify", "prepare"} \cup BuildStages \cup EndStages \cup Probed \cup CleanStages
  BY DEF BuildStages, EndStages, Removed, Probed, CleanStages
<1>8. Exclusive
  BY <1>3, <1>4, <1>6 DEF Exclusive
<1>9. AttestedFirst
  BY <1>3, <1>4, <1>7 DEF AttestedFirst
<1>10. OneLeftOver /\ Accounted /\ OneHoused /\ OwnDisplay /\ Strangers
  BY <1>3, <1>4, <1>6, <1>7 DEF OneLeftOver, Accounted, OneHoused, OwnDisplay, Strangers
<1> QED BY <1>5, <1>8, <1>9, <1>10 DEF Inv

LEMMA InvNext ==
    ASSUME Inv, [Next]_vars
    PROVE  Inv'
<1>1. CASE UNCHANGED vars
  BY <1>1 DEF vars, Inv, Types, Exclusive, AttestedFirst, OneLeftOver, Accounted, OneHoused, OwnDisplay,
     Strangers, Active, Ended, Attested, Answers, Startable, RunnerUp, Housed
<1>2. ASSUME NEW c \in Calls,
             \/ Enter(c) \/ PresentActivation(c) \/ \E r \in Runs : SelectRun(c, r)
             \/ ReadSelectedRun(c) \/ VerifyAndConsume(c) \/ Prepare(c) \/ ActivationRefused(c)
      PROVE  Inv'
  BY <1>2, EnterKeeps, ActivationKeeps, ActivationRefusedKeeps
<1>3. ASSUME NEW c \in Calls,
             DockerStep(c) \/ StartDisplay(c) \/ ReceiveToken(c) \/ StepFails(c) \/ CliKilled(c)
      PROVE  Inv'
  BY <1>3, LookingKeeps, MutatingKeeps, StartDisplayKeeps, ReceiveTokenKeeps, StepFailsKeeps, CliKilledKeeps
<1>4. ASSUME NEW c \in Calls,
             \/ ListContainers(c) \/ RemoveContainers(c) \/ ListNetworks(c) \/ RemoveNetworks(c)
             \/ StopDisplay(c) \/ FinishTeardown(c)
      PROVE  Inv'
  BY <1>4, ListKeeps, RemoveKeeps, StopDisplayKeeps, FinishTeardownKeeps
<1>5. ASSUME NEW c \in Calls, Tick(c) \/ TimerFires(c) \/ Cancel(c)
      PROVE  Inv'
  BY <1>5, ClockKeeps DEF TimerFires, Cancel
<1>6. ASSUME NEW c \in Calls, RunnerExits(c) \/ \E n \in Networks : StrayJoins(c, n)
      PROVE  Inv'
  BY <1>6, ExitKeeps, StrayJoinsKeeps
<1>7. ASSUME NEW k \in inflight, DaemonCatchesUp(k)
      PROVE  Inv'
  BY <1>7, DaemonCatchesUpKeeps
<1>8. CASE Crash \/ DisplayExits
  BY <1>8, CrashKeeps, ExitKeeps
<1> QED BY <1>1, <1>2, <1>3, <1>4, <1>5, <1>6, <1>7, <1>8 DEF Next

\* The invariant holds in every reachable state.
THEOREM Invariance == Spec => []Inv
<1>1. Init => Inv
  BY InvInit
<1>2. Inv /\ [Next]_vars => Inv'
  BY InvNext
<1> QED BY <1>1, <1>2, PTL DEF Spec

\* The variables of a supervisor, its calls and the daemon keep their types.
THEOREM TypeCorrect == Spec => []TypeOK
<1>1. Inv => TypeOK
  BY DEF Inv, Types, TypeOK, Process, Daemon, CallRecord, Kinds
<1> QED BY <1>1, Invariance, PTL

\* Two runners never run at once, whatever crashes, is killed or comes late: a
\* runner runs only for a housed call, and one call at most is housed because
\* every call starts building on a daemon that holds nothing, and what is left
\* over can build a runner only in the network of its own call.
THEOREM OneRunner == Spec => []OneRunnerAtATime
<1>1. Inv => OneRunnerAtATime
  <2> SUFFICES ASSUME Inv, NEW c \in Calls, NEW d \in Calls, RunnerUp(c), RunnerUp(d)
               PROVE  c = d
    BY DEF OneRunnerAtATime
  <2>1. Startable(c) /\ Startable(d)
    BY DEF Startable
  <2>2. Housed(c) /\ Housed(d)
    BY <2>1, Present DEF Inv
  <2> QED BY <2>2 DEF Inv, OneHoused
<1> QED BY <1>1, Invariance, PTL

\* A runner that outlives its call, also one started by a command left to the
\* daemon, has latched the supervisor of that call.
THEOREM OrphanLatches == Spec => []OrphanRunnerLatches
<1>1. Inv => OrphanRunnerLatches
  <2> SUFFICES ASSUME Inv, NEW c \in Calls, RunnerUp(c), call[c].stage = "done",
                      call[c].life = proc.life
               PROVE  proc.unverified
    BY DEF OrphanRunnerLatches
  <2>1. Answers(call[c])
    BY DEF Inv, Accounted, Startable
  <2> QED BY <2>1 DEF Answers, Removed
<1> QED BY <1>1, Invariance, PTL

\* What the daemon holds for a call, and its registration token, exist only
\* after the run the operator selected attested that call's own challenge.
THEOREM AttestedBuilds == Spec => []OnlyAttestedCallsBuild
<1>1. Inv => OnlyAttestedCallsBuild
  BY DEF Inv, AttestedFirst, Attested, OnlyAttestedCallsBuild, Kinds
<1> QED BY <1>1, Invariance, PTL

\* A running runner shares its network with a stranger only if the stranger
\* came after the last inspection.
THEOREM KnownPeers == Spec => []RunnerStartsAmongKnownPeers
<1>1. Inv => RunnerStartsAmongKnownPeers
  <2> SUFFICES ASSUME Inv, NEW c \in Calls, RunnerUp(c), <<c, "internal", "stray">> \in docker.peers
               PROVE  stray[c] = "late"
    BY DEF RunnerStartsAmongKnownPeers
  <2>1. stray[c] # "none" /\ stray[c] # "early"
    BY DEF Inv, Strangers, Networks
  <2>2. stray[c] \in {"none", "early", "late"}
    BY DEF Inv, Types
  <2> QED BY <2>1, <2>2
<1> QED BY <1>1, Invariance, PTL

\* A running runner never reaches the display of another call.
THEOREM OwnDisplayOnly == Spec => []RunnerSeesOwnDisplay
<1>1. Inv => RunnerSeesOwnDisplay
  BY DEF Inv, OwnDisplay, Startable, RunnerSeesOwnDisplay
<1> QED BY <1>1, Invariance, PTL


=============================================================================
