---------------------- MODULE LocalAuthorizationProofs ----------------------
(***************************************************************************)
(* For any number of challenges, candidates, hosted runs and concurrent    *)
(* verifications, and any lifetime, skew and clock error: a challenge      *)
(* yields at most one receipt, and a receipt rests on a young subject that *)
(* a hosted run composed for it at the commit main still had.              *)
(***************************************************************************)
EXTENDS LocalAuthorization, TLAPS

-----------------------------------------------------------------------------
(* The order of the stages.                                                *)

\* The hosted workflow's steps follow each other as they are listed.
LEMMA HostedOrder ==
    /\ NextIn(HostedScript, "authorize") = "resolve"
    /\ NextIn(HostedScript, "resolve") = "latest"
    /\ NextIn(HostedScript, "latest") = "jobs"
    /\ NextIn(HostedScript, "jobs") = "reread"
    /\ NextIn(HostedScript, "reread") = "resolveAgain"
    /\ NextIn(HostedScript, "resolveAgain") = "write"
    /\ NextIn(HostedScript, "write") = "attest"
<1>1. ASSUME NEW n \in 1..9, NEW s, HostedScript[n] = s, \A i \in 1..9 : HostedScript[i] = s => i = n
      PROVE  NextIn(HostedScript, s) = HostedScript[1 + n]
  <2>1. DOMAIN HostedScript = 1..9
    BY DEF HostedScript
  <2>2. (CHOOSE i \in DOMAIN HostedScript : HostedScript[i] = s) = n
    BY <1>1, <2>1
  <2> QED BY <2>2 DEF NextIn
<1> QED BY <1>1 DEF HostedScript

\* So do the station's checks.
LEMMA VerifyOrder ==
    /\ NextIn(VerifyScript, "run") = "branch"
    /\ NextIn(VerifyScript, "branch") = "runAgain"
    /\ NextIn(VerifyScript, "runAgain") = "gh"
    /\ NextIn(VerifyScript, "gh") = "rm"
    /\ NextIn(VerifyScript, "rm") = "run2"
    /\ NextIn(VerifyScript, "run2") = "branch2"
    /\ NextIn(VerifyScript, "branch2") = "runAgain2"
    /\ NextIn(VerifyScript, "runAgain2") = "consume"
<1>1. ASSUME NEW n \in 1..10, NEW s, VerifyScript[n] = s, \A i \in 1..10 : VerifyScript[i] = s => i = n
      PROVE  NextIn(VerifyScript, s) = VerifyScript[1 + n]
  <2>1. DOMAIN VerifyScript = 1..10
    BY DEF VerifyScript
  <2>2. (CHOOSE i \in DOMAIN VerifyScript : VerifyScript[i] = s) = n
    BY <1>1, <2>1
  <2> QED BY <2>2 DEF NextIn
<1> QED BY <1>1 DEF VerifyScript

-----------------------------------------------------------------------------
(* The inductive invariant.                                                *)

HostedStages == {"idle", "authorize", "resolve", "latest", "jobs", "reread", "resolveAgain",
                 "write", "attest", "upload", "completed", "failed"}
Checking == {"run", "branch", "runAgain", "gh", "rm", "run2", "branch2", "runAgain2", "consume",
             "settle"}

Manifest ==
    [exec : Challenges, cand : Candidates, base : Nat, ci : Nat, run : HostedRuns, attempt : Nat,
     sha : Commits, release : {ReleaseOf[s] : s \in Commits}, issued : Nat]

RunRecord ==
    [stage : HostedStages, attempt : Nat, sha : Commits, exec : Challenges \cup {None},
     cand : Candidates \cup {None}, seen : [base : Nat] \cup {None}, ci : Nat, held : BOOLEAN,
     issued : Nat]

VerRecord ==
    [stage : Checking \cup {"idle", "over"}, chal : Challenges \cup {None},
     manifest : Manifest \cup {None}, signed : Nat,
     outcome : {"none", "pending", "refused", "receipt"},
     atGh : [main : Commits, attempt : Nat] \cup {None}, at : Nat]

Types ==
    /\ github \in [main : Commits, base : Nat, head : [Candidates -> BOOLEAN],
                   ci : [Candidates -> [n : Nat \ {0},
                           status : {"queued", "in_progress", "completed", "cancelled"}]],
                   passed : SUBSET (Candidates \X Nat), moves : 0..MaxMoves]
    /\ github.base <= github.moves
    /\ \A k \in Candidates : github.ci[k].n <= github.moves + 1
    /\ run \in [HostedRuns -> RunRecord]
    /\ attested \in SUBSET [manifest : Manifest, signed : Nat]
    /\ chal \in [Challenges -> [status : {"none", "usable", "consumed", "destroyed"}, created : Nat]]
    /\ \A c \in Challenges : chal[c].created <= clock
    /\ ver \in [Verifications -> VerRecord]
    /\ clock \in 0..MaxTime /\ drift \in Drifts \cup {0}

\* Main has not gone back behind m's commit, nor its run behind m's attempt.
Behind(m) == m.attempt <= run[m.run].attempt /\ m.sha <= github.main

\* What a hosted run knows: its challenge was made before it was dispatched, and
\* what it read of the candidate can only have been overtaken.
RunInv(r) ==
    /\ run[r].stage = "idle" => run[r].attempt = 0
    /\ run[r].stage # "idle" =>
         /\ run[r].exec \in Challenges /\ run[r].cand \in Candidates
         /\ chal[run[r].exec].status # "none" /\ run[r].sha <= github.main
    /\ run[r].stage \notin {"idle", "authorize", "resolve", "failed"} => run[r].seen \in [base : Nat]
    /\ run[r].stage \in {"jobs", "reread"} =>
         run[r].ci <= github.ci[run[r].cand].n /\ run[r].seen.base <= github.base
    /\ run[r].stage = "reread" /\ ~run[r].held =>
         run[r].ci < github.ci[run[r].cand].n \/ run[r].seen.base < github.base
    /\ run[r].stage \in {"resolveAgain", "write", "attest", "upload", "completed"} => run[r].held
    /\ run[r].stage = "attest" => chal[run[r].exec].created <= run[r].issued

\* What an attested subject says was so.
SubjectInv(m) ==
    Behind(m) /\ chal[m.exec].status # "none" /\ chal[m.exec].created <= m.issued

Consumer(v) == ver[v].stage = "settle" \/ ver[v].outcome = "receipt"
Past(v, stages) == ver[v].stage \in stages \cup {"settle"} \/ ver[v].outcome = "receipt"

\* What a verification has established by the stage it is at.
VerInv(v) ==
    LET m == ver[v].manifest
    IN  /\ ver[v].stage \in Checking \/ ver[v].outcome = "receipt" =>
             /\ ver[v].chal \in Challenges /\ m \in Manifest /\ Behind(m)
             /\ MatchesChallenge(ver[v].chal, m) /\ m.release = StationRelease
        /\ Past(v, {"rm", "run2", "branch2", "runAgain2", "consume"}) =>
             /\ m \in {a.manifest : a \in attested}
             /\ ver[v].atGh \in [main : Commits, attempt : Nat]
             /\ m.sha <= ver[v].atGh.main /\ ver[v].atGh.main <= github.main
             /\ m.attempt <= ver[v].atGh.attempt /\ ver[v].atGh.attempt <= run[m.run].attempt
        /\ Past(v, {"branch2", "runAgain2", "consume"}) => ver[v].atGh.attempt = m.attempt
        /\ Past(v, {"runAgain2", "consume"}) => ver[v].atGh.main = m.sha
        /\ Consumer(v) => chal[ver[v].chal].status = "consumed" /\ ver[v].at - m.issued < TTL

OneConsumer ==
    \A v, w \in Verifications : Consumer(v) /\ Consumer(w) /\ ver[v].chal = ver[w].chal => v = w

Inv ==
    /\ Types
    /\ \A r \in HostedRuns : RunInv(r)
    /\ \A a \in attested : SubjectInv(a.manifest)
    /\ \A v \in Verifications : VerInv(v)
    /\ OneConsumer

-----------------------------------------------------------------------------
(* What a step leaves alone.                                               *)

\* GitHub's history only grows, a challenge keeps its age, and a consumed one stays so.
Grows ==
    /\ github.main <= github'.main /\ github.base <= github'.base
    /\ \A k \in Candidates : github.ci[k].n <= github'.ci[k].n
    /\ \A r \in HostedRuns : run[r].attempt <= run'[r].attempt
    /\ attested \subseteq attested'
    /\ \A c \in Challenges : chal[c].status # "none" =>
          chal'[c].status # "none" /\ chal'[c].created = chal[c].created
    /\ \A c \in Challenges : chal[c].status = "consumed" => chal'[c].status = "consumed"

\* A run that takes no step is only overtaken.
LEMMA RunKept ==
    ASSUME Inv, Types', Grows, NEW r \in HostedRuns, run'[r] = run[r]
    PROVE  RunInv(r)'
<1> USE AuthorizationAssumption DEF Commits
<1>1. RunInv(r) /\ run[r] \in RunRecord
  BY DEF Inv, Types
<1>2. github.main \in Nat /\ github'.main \in Nat /\ github.base \in Nat /\ github'.base \in Nat
  BY DEF Inv, Types
<1>3. \A k \in Candidates : github.ci[k].n \in Nat /\ github'.ci[k].n \in Nat
  BY DEF Inv, Types
<1>4. run[r].sha \in Commits /\ run[r].ci \in Nat /\ run[r].issued \in Nat
  BY <1>1 DEF RunRecord
<1>5. run[r].sha \in Nat
  BY <1>4
<1>6. run[r].stage # "idle" => run'[r].sha <= github'.main
  BY <1>1, <1>2, <1>5 DEF RunInv, Grows
<1>7. run[r].stage \in {"jobs", "reread"} =>
        /\ run[r].cand \in Candidates /\ run[r].seen.base \in Nat
        /\ run[r].ci <= github'.ci[run[r].cand].n /\ run[r].seen.base <= github'.base
  <2> SUFFICES ASSUME run[r].stage \in {"jobs", "reread"}
               PROVE  /\ run[r].cand \in Candidates /\ run[r].seen.base \in Nat
                      /\ run[r].ci <= github'.ci[run[r].cand].n /\ run[r].seen.base <= github'.base
    OBVIOUS
  <2>1. run[r].cand \in Candidates /\ run[r].seen.base \in Nat
    BY <1>1 DEF RunInv
  <2>2. run[r].ci <= github.ci[run[r].cand].n /\ run[r].seen.base <= github.base
    BY <1>1 DEF RunInv
  <2>3. github.ci[run[r].cand].n <= github'.ci[run[r].cand].n /\ github.base <= github'.base
    BY <2>1 DEF Grows
  <2> QED BY <1>2, <1>3, <1>4, <2>1, <2>2, <2>3
<1>8. run[r].stage = "reread" /\ ~run[r].held =>
         run[r].ci < github'.ci[run[r].cand].n \/ run[r].seen.base < github'.base
  BY <1>1, <1>2, <1>3, <1>4, <1>7 DEF RunInv, Grows
<1>9. run[r].stage # "idle" =>
        /\ run[r].exec \in Challenges /\ run[r].cand \in Candidates
        /\ chal'[run[r].exec].status # "none" /\ chal'[run[r].exec].created = chal[run[r].exec].created
  BY <1>1 DEF RunInv, Grows
<1>10. ASSUME run[r].stage = "attest" PROVE chal'[run[r].exec].created <= run[r].issued
  <2>1. chal[run[r].exec].created <= run[r].issued
    BY <1>1, <1>10 DEF RunInv
  <2>2. run[r].exec \in Challenges /\ chal[run[r].exec].created \in Nat
    BY <1>9, <1>10 DEF Inv, Types
  <2> QED BY <1>4, <1>9, <1>10, <2>1, <2>2
<1> QED BY <1>1, <1>6, <1>7, <1>8, <1>9, <1>10 DEF RunInv

\* What an attested subject says stays true.
LEMMA SubjectKept ==
    ASSUME Inv, Types', Grows, NEW a \in attested
    PROVE  SubjectInv(a.manifest)'
<1> USE AuthorizationAssumption DEF Commits
<1>1. SubjectInv(a.manifest) /\ a.manifest \in Manifest
  BY DEF Inv, Types
<1>2. /\ github.main \in Nat /\ github'.main \in Nat
      /\ \A r \in HostedRuns : run[r].attempt \in Nat /\ run'[r].attempt \in Nat
  <2>1. \A r \in HostedRuns : run[r] \in RunRecord /\ run'[r] \in RunRecord
    BY DEF Inv, Types
  <2>2. \A x \in RunRecord : x.attempt \in Nat
    BY DEF RunRecord
  <2>3. github.main \in Nat /\ github'.main \in Nat
    BY DEF Inv, Types
  <2> QED BY <2>1, <2>2, <2>3
<1> DEFINE m == a.manifest
<1>3. /\ m.sha \in Nat /\ m.attempt \in Nat /\ m.run \in HostedRuns /\ m.exec \in Challenges
  BY <1>1 DEF Manifest
<1>4. Behind(m)'
  BY <1>1, <1>2, <1>3 DEF SubjectInv, Behind, Grows
<1>5. chal'[m.exec].status # "none" /\ chal'[m.exec].created <= m.issued
  BY <1>1, <1>3 DEF SubjectInv, Grows
<1> QED BY <1>4, <1>5 DEF SubjectInv

\* So does what a verification has established that takes no step.
LEMMA VerKept ==
    ASSUME Inv, Types', Grows, NEW v \in Verifications, ver'[v] = ver[v]
    PROVE  VerInv(v)'
<1> USE AuthorizationAssumption DEF Commits
<1>1. VerInv(v) /\ ver[v] \in VerRecord
  BY DEF Inv, Types
<1>2. /\ github.main \in Nat /\ github'.main \in Nat
      /\ \A r \in HostedRuns : run[r].attempt \in Nat /\ run'[r].attempt \in Nat
  <2>1. \A r \in HostedRuns : run[r] \in RunRecord /\ run'[r] \in RunRecord
    BY DEF Inv, Types
  <2>2. \A x \in RunRecord : x.attempt \in Nat
    BY DEF RunRecord
  <2>3. github.main \in Nat /\ github'.main \in Nat
    BY DEF Inv, Types
  <2> QED BY <2>1, <2>2, <2>3
<1>3. ASSUME NEW m \in Manifest, Behind(m) PROVE Behind(m)'
  BY <1>2, <1>3 DEF Behind, Manifest, Grows
<1>4. ver[v].atGh \in [main : Commits, attempt : Nat] =>
        /\ ver[v].atGh.main <= github.main => ver[v].atGh.main <= github'.main
        /\ \A r \in HostedRuns : ver[v].atGh.attempt <= run[r].attempt => ver[v].atGh.attempt <= run'[r].attempt
  BY <1>2 DEF Grows
<1>5. {a.manifest : a \in attested} \subseteq {a.manifest : a \in attested'}
  BY DEF Grows
<1>6. Past(v, {"rm", "run2", "branch2", "runAgain2", "consume"}) =>
        ver[v].stage \in Checking \/ ver[v].outcome = "receipt"
  BY DEF Past, Checking
<1>7. Consumer(v) => Past(v, {"rm", "run2", "branch2", "runAgain2", "consume"})
  BY DEF Consumer, Past
<1>8. ver[v].manifest \in Manifest => ver[v].manifest.run \in HostedRuns
  BY DEF Manifest
<1> QED BY <1>1, <1>3, <1>4, <1>5, <1>6, <1>7, <1>8 DEF VerInv, Past, Consumer, MatchesChallenge, Grows

\* Nobody consumes a challenge of another.
LEMMA ConsumersKept ==
    ASSUME OneConsumer, \A v \in Verifications : Consumer(v)' => Consumer(v) /\ ver'[v].chal = ver[v].chal
    PROVE  OneConsumer'
BY DEF OneConsumer

\* The invariant from its parts: those who took a step, and the rest.
LEMMA Assemble ==
    ASSUME Inv, Types', Grows, OneConsumer',
           \A r \in HostedRuns : run'[r] = run[r] \/ RunInv(r)',
           \A a \in attested' : a \in attested \/ SubjectInv(a.manifest)',
           \A v \in Verifications : ver'[v] = ver[v] \/ VerInv(v)'
    PROVE  Inv'
<1>1. \A r \in HostedRuns : RunInv(r)'
  BY RunKept
<1>2. \A a \in attested' : SubjectInv(a.manifest)'
  BY SubjectKept
<1>3. \A v \in Verifications : VerInv(v)'
  BY VerKept
<1> QED BY <1>1, <1>2, <1>3 DEF Inv

-----------------------------------------------------------------------------
(* GitHub and the clocks.                                                  *)

\* Whatever moves on GitHub, and however the wall clock is set, the invariant holds.
LEMMA InvGithub ==
    ASSUME Inv, UNCHANGED <<run, attested, chal, ver>>, Types',
           github.main <= github'.main, github.base <= github'.base,
           \A k \in Candidates : github.ci[k].n <= github'.ci[k].n
    PROVE  Inv'
<1>1. \A x \in RunRecord : x.attempt \in Nat
  BY DEF RunRecord
<1>2. Grows
  BY <1>1 DEF Grows, Inv, Types
<1>3. OneConsumer'
  BY DEF Inv, OneConsumer, Consumer
<1> QED BY <1>2, <1>3, Assemble

\* One more move of GitHub, within the bound.
LEMMA InvMoves ==
    ASSUME Inv, NEW g, Moves(g), GithubOnly,
           g \in [main : Commits, base : Nat, head : [Candidates -> BOOLEAN],
                  ci : [Candidates -> [n : Nat \ {0},
                          status : {"queued", "in_progress", "completed", "cancelled"}]],
                  passed : SUBSET (Candidates \X Nat), moves : 0..MaxMoves],
           g.moves = github.moves, github.main <= g.main,
           g.base \in {github.base, github.base + 1},
           \A k \in Candidates : g.ci[k].n \in {github.ci[k].n, github.ci[k].n + 1}
    PROVE  Inv'
<1> USE AuthorizationAssumption
<1>1. /\ github.moves \in Nat /\ github.moves + 1 \in 0..MaxMoves
      /\ github.base \in Nat /\ github.base <= github.moves
      /\ \A k \in Candidates : github.ci[k].n \in Nat /\ github.ci[k].n <= github.moves + 1
  BY DEF Moves, Inv, Types
<1>2. /\ github' = [g EXCEPT !.moves = github.moves + 1] /\ UNCHANGED <<run, attested, chal, ver, clock, drift>>
  BY DEF Moves, GithubOnly
<1>3. /\ github'.moves = github.moves + 1 /\ github'.base = g.base /\ github'.main = g.main
      /\ github'.ci = g.ci
      /\ github' \in [main : Commits, base : Nat, head : [Candidates -> BOOLEAN],
                  ci : [Candidates -> [n : Nat \ {0},
                          status : {"queued", "in_progress", "completed", "cancelled"}]],
                  passed : SUBSET (Candidates \X Nat), moves : 0..MaxMoves]
  BY <1>1, <1>2
<1>4. github'.base <= github'.moves /\ github.base <= github'.base
  BY <1>1, <1>3
<1>5. \A k \in Candidates : github'.ci[k].n <= github'.moves + 1 /\ github.ci[k].n <= github'.ci[k].n
  BY <1>1, <1>3
<1>6. Types'
  BY <1>2, <1>3, <1>4, <1>5 DEF Inv, Types
<1> QED BY <1>2, <1>3, <1>4, <1>5, <1>6, InvGithub

\* The moves of the control repository, of the candidate's pull request and its CI.
LEMMA InvGithubSteps ==
    ASSUME Inv, MainAdvances \/ BaseMoves \/ (\E k \in Moving : HeadMoves(k) \/ CiReruns(k) \/ CiAdvances(k))
    PROVE  Inv'
<1> DEFINE G == [main : Commits, base : Nat, head : [Candidates -> BOOLEAN],
                 ci : [Candidates -> [n : Nat \ {0},
                         status : {"queued", "in_progress", "completed", "cancelled"}]],
                 passed : SUBSET (Candidates \X Nat), moves : 0..MaxMoves]
<1>0. github \in G
  BY DEF Inv, Types
<1>1. CASE MainAdvances
  <2> DEFINE g == [github EXCEPT !.main = @ + 1]
  <2>1. Moves(g) /\ GithubOnly /\ github.main < MaxMain
    BY <1>1 DEF MainAdvances
  <2>2. g \in G /\ g.moves = github.moves /\ g.base = github.base /\ g.ci = github.ci /\ github.main <= g.main
    <3>1. github.main + 1 \in Commits /\ github.main <= github.main + 1
      BY <1>0, <2>1, AuthorizationAssumption DEF Commits
    <3> QED BY <1>0, <3>1
  <2> QED BY <2>1, <2>2, InvMoves
<1>2. CASE BaseMoves
  <2> DEFINE g == [github EXCEPT !.base = @ + 1]
  <2>1. Moves(g) /\ GithubOnly
    BY <1>2 DEF BaseMoves
  <2>2. g \in G /\ g.moves = github.moves /\ g.main = github.main /\ g.base = github.base + 1 /\ g.ci = github.ci
    BY <1>0
  <2>3. github.main <= g.main
    BY <1>0, <2>2, AuthorizationAssumption DEF Commits
  <2> QED BY <2>1, <2>2, <2>3, InvMoves
<1>3. CASE \E k \in Moving : HeadMoves(k)
  <2>1. PICK k \in Candidates : HeadMoves(k)
    BY <1>3, AuthorizationAssumption
  <2> DEFINE g == [github EXCEPT !.head[k] = ~@]
  <2>2. Moves(g) /\ GithubOnly
    BY <2>1 DEF HeadMoves
  <2>3. g \in G /\ g.moves = github.moves /\ g.main = github.main /\ g.base = github.base /\ g.ci = github.ci
    BY <1>0
  <2>4. github.main <= g.main
    BY <1>0, <2>3, AuthorizationAssumption DEF Commits
  <2> QED BY <2>2, <2>3, <2>4, InvMoves
<1>4. CASE \E k \in Moving : CiReruns(k)
  <2>1. PICK k \in Candidates : CiReruns(k)
    BY <1>4, AuthorizationAssumption
  <2> DEFINE g == [github EXCEPT !.ci[k] = [n |-> @.n + 1, status |-> "queued"]]
  <2>2. Moves(g) /\ GithubOnly
    BY <2>1 DEF CiReruns
  <2>3. /\ g \in G /\ g.moves = github.moves /\ g.main = github.main /\ g.base = github.base
        /\ g.ci = [github.ci EXCEPT ![k] = [n |-> github.ci[k].n + 1, status |-> "queued"]]
    <3>1. [github.ci EXCEPT ![k] = [n |-> github.ci[k].n + 1, status |-> "queued"]]
            \in [Candidates -> [n : Nat \ {0}, status : {"queued", "in_progress", "completed", "cancelled"}]]
      BY <1>0
    <3>2. g = [github EXCEPT !.ci = [github.ci EXCEPT ![k] = [n |-> github.ci[k].n + 1, status |-> "queued"]]]
      BY <1>0
    <3> QED BY <1>0, <3>1, <3>2
  <2>4. github.main <= g.main
    BY <1>0, <2>3, AuthorizationAssumption DEF Commits
  <2>5. \A j \in Candidates : g.ci[j].n \in {github.ci[j].n, github.ci[j].n + 1}
    BY <1>0, <2>3
  <2> QED BY <2>2, <2>3, <2>4, <2>5, InvMoves
<1>5. CASE \E k \in Moving : CiAdvances(k)
  <2>1. PICK k \in Candidates : CiAdvances(k)
    BY <1>5, AuthorizationAssumption
  <2>2. PICK status \in {"in_progress", "completed", "cancelled"}, p \in SUBSET (Candidates \X Nat) :
          github' = [github EXCEPT !.ci[k].status = status, !.passed = p]
    <3>1. github.passed \in SUBSET (Candidates \X Nat) /\ <<k, github.ci[k].n>> \in Candidates \X Nat
      BY <1>0
    <3>2. github.passed \cup {<<k, github.ci[k].n>>} \in SUBSET (Candidates \X Nat)
      BY <3>1
    <3>3. \A h \in {"in_progress", "completed"} :
            [github EXCEPT !.ci[k].status = h] = [github EXCEPT !.ci[k].status = h, !.passed = github.passed]
      BY <1>0
    <3> QED BY <2>1, <3>1, <3>2, <3>3 DEF CiAdvances
  <2>3. /\ github' \in G /\ github'.moves = github.moves /\ github'.main = github.main
        /\ github'.base = github.base /\ \A j \in Candidates : github'.ci[j].n = github.ci[j].n
    <3> DEFINE ci == [github.ci EXCEPT ![k] = [@ EXCEPT !.status = status]]
    <3>1. ci \in [Candidates -> [n : Nat \ {0}, status : {"queued", "in_progress", "completed", "cancelled"}]]
          /\ \A j \in Candidates : ci[j].n = github.ci[j].n
      BY <1>0
    <3>2. github' = [github EXCEPT !.ci = ci, !.passed = p]
      BY <1>0, <2>2
    <3> HIDE DEF ci
    <3> QED BY <1>0, <3>1, <3>2
  <2>4. UNCHANGED <<run, attested, chal, ver, clock, drift>>
    BY <2>1 DEF CiAdvances, GithubOnly
  <2>5. Types'
    BY <2>3, <2>4 DEF Inv, Types
  <2>6. github.main <= github'.main /\ github.base <= github'.base
        /\ \A j \in Candidates : github.ci[j].n <= github'.ci[j].n
    BY <1>0, <2>3, AuthorizationAssumption DEF Commits
  <2> QED BY <2>4, <2>5, <2>6, InvGithub
<1> QED BY <1>1, <1>2, <1>3, <1>4, <1>5

\* Time passes, and the station's wall clock is set.
LEMMA InvClocks == ASSUME Inv, Tick \/ \E d \in Drifts : SetWallClock(d) PROVE Inv'
<1>1. UNCHANGED <<github, run, attested, chal, ver>>
  BY DEF Tick, SetWallClock
<1>2. clock' \in 0..MaxTime /\ clock <= clock' /\ drift' \in Drifts \cup {0}
  BY AuthorizationAssumption DEF Tick, SetWallClock, Inv, Types
<1>3. \A c \in Challenges : chal'[c].created <= clock'
  BY <1>1, <1>2 DEF Inv, Types
<1>4. Types'
  BY <1>1, <1>2, <1>3 DEF Inv, Types
<1>5. /\ github.main <= github'.main /\ github.base <= github'.base
      /\ \A k \in Candidates : github.ci[k].n <= github'.ci[k].n
  BY <1>1, AuthorizationAssumption DEF Inv, Types, Commits
<1> QED BY <1>1, <1>4, <1>5, InvGithub

-----------------------------------------------------------------------------
(* The hosted workflow.                                                    *)

\* One run takes a step, with what it says afterwards.
LEMMA InvHosted ==
    ASSUME Inv, NEW r \in HostedRuns, NEW q \in RunRecord, run' = [run EXCEPT ![r] = q],
           run[r].attempt <= q.attempt, RunInv(r)',
           UNCHANGED <<chal, ver, clock, drift>>, github' = github \/ Moves(github),
           attested' \in SUBSET [manifest : Manifest, signed : Nat], attested \subseteq attested',
           \A a \in attested' : a \in attested \/ SubjectInv(a.manifest)'
    PROVE  Inv'
<1>1. /\ github' \in [main : Commits, base : Nat, head : [Candidates -> BOOLEAN],
                  ci : [Candidates -> [n : Nat \ {0},
                          status : {"queued", "in_progress", "completed", "cancelled"}]],
                  passed : SUBSET (Candidates \X Nat), moves : 0..MaxMoves]
      /\ github'.base = github.base /\ github'.main = github.main /\ github'.ci = github.ci
      /\ github.moves <= github'.moves
  <2>1. CASE github' = github
    BY <2>1 DEF Inv, Types
  <2>2. CASE Moves(github)
    <3>1. github' = [github EXCEPT !.moves = github.moves + 1] /\ github.moves < MaxMoves
      BY <2>2 DEF Moves
    <3>2. github.moves \in 0..MaxMoves /\ github.moves + 1 \in 0..MaxMoves
      BY <3>1, AuthorizationAssumption DEF Inv, Types
    <3>3. github \in [main : Commits, base : Nat, head : [Candidates -> BOOLEAN],
                  ci : [Candidates -> [n : Nat \ {0},
                          status : {"queued", "in_progress", "completed", "cancelled"}]],
                  passed : SUBSET (Candidates \X Nat), moves : 0..MaxMoves]
      BY DEF Inv, Types
    <3>4. github.moves <= github.moves + 1
      BY <3>2, AuthorizationAssumption
    <3> QED BY <3>1, <3>2, <3>3, <3>4
  <2> QED BY <2>1, <2>2
<1>2. /\ github'.base <= github'.moves
      /\ \A k \in Candidates : github'.ci[k].n <= github'.moves + 1
  BY <1>1 DEF Inv, Types
<1>3. run \in [HostedRuns -> RunRecord] /\ run' \in [HostedRuns -> RunRecord]
  BY DEF Inv, Types
<1>4. Types'
  BY <1>1, <1>2, <1>3 DEF Inv, Types
<1>5. \A x \in RunRecord : x.attempt \in Nat
  BY DEF RunRecord
<1>6. \A s \in HostedRuns : run[s].attempt <= run'[s].attempt
  BY <1>3, <1>5
<1>7. /\ github.main <= github'.main /\ github.base <= github'.base
      /\ \A k \in Candidates : github.ci[k].n <= github'.ci[k].n
  BY <1>1, AuthorizationAssumption DEF Inv, Types, Commits
<1>8. Grows
  BY <1>6, <1>7 DEF Grows
<1>9. OneConsumer'
  BY DEF Inv, OneConsumer, Consumer
<1>10. \A s \in HostedRuns : run'[s] = run[s] \/ RunInv(s)'
  BY <1>3
<1> QED BY <1>4, <1>8, <1>9, <1>10, Assemble

\* The run of a step, its record and where it goes next.
LEMMA HostedStep ==
    ASSUME Inv, NEW r \in HostedRuns, NEW s \in HostedStages, NEW q \in RunRecord,
           Hosted(r, s, q), NextIn(HostedScript, s) \in HostedStages, q.attempt = run[r].attempt,
           run'[r] = [q EXCEPT !.stage = NextIn(HostedScript, s)] => RunInv(r)'
    PROVE  Inv'
<1> DEFINE p == [q EXCEPT !.stage = NextIn(HostedScript, s)]
<1>1. run' = [run EXCEPT ![r] = p] /\ UNCHANGED <<github, attested, chal, ver, clock, drift>>
  BY DEF Hosted
<1>2. p \in RunRecord /\ p.attempt = q.attempt
  BY DEF RunRecord
<1>3. run \in [HostedRuns -> RunRecord] /\ run[r].attempt \in Nat
  BY DEF Inv, Types, RunRecord
<1>4. run'[r] = p
  BY <1>1, <1>3
<1>5. attested \in SUBSET [manifest : Manifest, signed : Nat]
  BY DEF Inv, Types
<1>6. RunInv(r)'
  BY <1>4
<1>7. /\ attested' \in SUBSET [manifest : Manifest, signed : Nat] /\ attested \subseteq attested'
      /\ \A a \in attested' : a \in attested \/ SubjectInv(a.manifest)'
  BY <1>1, <1>5
<1>8. run[r].attempt <= p.attempt
  BY <1>2, <1>3
<1>9. UNCHANGED <<chal, ver, clock, drift>> /\ (github' = github \/ Moves(github))
  BY <1>1
<1> HIDE DEF p
<1> QED BY <1>1, <1>2, <1>6, <1>7, <1>8, <1>9, InvHosted

\* The steps of a hosted run up to the manifest: what they read can be overtaken, but
\* an overtaken read is seen when the newest attempt is read again.
LEMMA InvReads ==
    ASSUME Inv, NEW r \in HostedRuns,
           \/ Authorize(r) \/ ResolveCandidate(r) \/ ReadLatest(r) \/ ReadJobs(r)
           \/ RereadLatest(r) \/ ResolveAgain(r) \/ WriteManifest(r)
    PROVE  Inv'
<1>1. run[r] \in RunRecord /\ RunInv(r)
  BY DEF Inv, Types
<1>2. \A f \in RunRecord, s \in HostedStages :
        [f EXCEPT !.stage = s] \in RunRecord /\ [f EXCEPT !.stage = s].stage = s
        /\ [f EXCEPT !.stage = s].attempt = f.attempt /\ [f EXCEPT !.stage = s].sha = f.sha
        /\ [f EXCEPT !.stage = s].exec = f.exec /\ [f EXCEPT !.stage = s].cand = f.cand
        /\ [f EXCEPT !.stage = s].seen = f.seen /\ [f EXCEPT !.stage = s].ci = f.ci
        /\ [f EXCEPT !.stage = s].held = f.held /\ [f EXCEPT !.stage = s].issued = f.issued
  BY DEF RunRecord
<1>3. /\ github.base \in Nat /\ clock \in Nat
      /\ \A k \in Candidates : github.ci[k].n \in Nat
      /\ \A c \in Challenges : chal[c].created \in Nat /\ chal[c].created <= clock
  BY AuthorizationAssumption DEF Inv, Types
<1>4. CASE Authorize(r)
  <2>1. Hosted(r, "authorize", run[r]) /\ run[r].stage = "authorize" /\ UNCHANGED <<github, chal>>
    BY <1>4 DEF Authorize, Hosted
  <2>2. ASSUME run'[r] = [run[r] EXCEPT !.stage = "resolve"] PROVE RunInv(r)'
    BY <1>1, <1>2, <2>1, <2>2 DEF RunInv, HostedStages
  <2> QED BY <1>1, <2>1, <2>2, HostedStep, HostedOrder DEF HostedStages
<1>5. CASE ResolveCandidate(r)
  <2> DEFINE q == [run[r] EXCEPT !.seen = [base |-> github.base]]
  <2>1. Hosted(r, "resolve", q) /\ run[r].stage = "resolve" /\ UNCHANGED <<github, chal>>
    BY <1>5 DEF ResolveCandidate, Hosted
  <2>2. /\ q \in RunRecord /\ q.attempt = run[r].attempt /\ q.sha = run[r].sha /\ q.exec = run[r].exec
        /\ q.cand = run[r].cand /\ q.seen = [base |-> github.base] /\ q.held = run[r].held
    BY <1>1, <1>3 DEF RunRecord
  <2> HIDE DEF q
  <2>3. ASSUME run'[r] = [q EXCEPT !.stage = "latest"] PROVE RunInv(r)'
    <3>1. /\ run'[r].stage = "latest" /\ run'[r].sha = run[r].sha /\ run'[r].exec = run[r].exec
          /\ run'[r].cand = run[r].cand /\ run'[r].seen = [base |-> github.base]
      BY <1>2, <2>2, <2>3 DEF HostedStages
    <3> QED BY <1>1, <1>3, <2>1, <3>1 DEF RunInv
  <2> QED BY <2>1, <2>2, <2>3, HostedStep, HostedOrder DEF HostedStages
<1>6. CASE ReadLatest(r)
  <2> DEFINE q == [run[r] EXCEPT !.ci = github.ci[run[r].cand].n]
  <2>1. /\ Hosted(r, "latest", q) /\ run[r].stage = "latest" /\ UNCHANGED <<github, chal>>
        /\ github.base = run[r].seen.base /\ run[r].cand \in Candidates
    BY <1>1, <1>6 DEF ReadLatest, LatestAttempt, Hosted, RunInv
  <2>2. /\ q \in RunRecord /\ q.attempt = run[r].attempt /\ q.sha = run[r].sha /\ q.exec = run[r].exec
        /\ q.cand = run[r].cand /\ q.seen = run[r].seen /\ q.ci = github.ci[run[r].cand].n
        /\ q.held = run[r].held
    BY <1>1, <1>3, <2>1 DEF RunRecord
  <2> HIDE DEF q
  <2>3. ASSUME run'[r] = [q EXCEPT !.stage = "jobs"] PROVE RunInv(r)'
    <3>1. /\ run'[r].stage = "jobs" /\ run'[r].sha = run[r].sha /\ run'[r].exec = run[r].exec
          /\ run'[r].cand = run[r].cand /\ run'[r].seen = run[r].seen /\ run'[r].ci = github.ci[run[r].cand].n
      BY <1>2, <2>2, <2>3 DEF HostedStages
    <3> QED BY <1>1, <1>3, <2>1, <3>1 DEF RunInv
  <2> QED BY <2>1, <2>2, <2>3, HostedStep, HostedOrder DEF HostedStages
<1>7. CASE ReadJobs(r)
  <2> DEFINE h == github.ci[run[r].cand].n = run[r].ci /\ github.base = run[r].seen.base
             q == [run[r] EXCEPT !.held = h]
  <2>1. Hosted(r, "jobs", q) /\ run[r].stage = "jobs" /\ UNCHANGED <<github, chal>>
    BY <1>7 DEF ReadJobs, Hosted
  <2>2. h \in BOOLEAN /\ run[r].ci \in Nat /\ run[r].cand \in Candidates /\ run[r].seen.base \in Nat
    BY <1>1, <2>1 DEF RunRecord, RunInv
  <2>3. ~h => run[r].ci < github.ci[run[r].cand].n \/ run[r].seen.base < github.base
    BY <1>1, <1>3, <2>1, <2>2 DEF RunInv
  <2> HIDE DEF h
  <2>4. /\ q \in RunRecord /\ q.attempt = run[r].attempt /\ q.sha = run[r].sha /\ q.exec = run[r].exec
        /\ q.cand = run[r].cand /\ q.seen = run[r].seen /\ q.ci = run[r].ci /\ q.held = h
    BY <1>1, <2>2 DEF RunRecord
  <2> HIDE DEF q
  <2>5. ASSUME run'[r] = [q EXCEPT !.stage = "reread"] PROVE RunInv(r)'
    <3>1. /\ run'[r].stage = "reread" /\ run'[r].sha = run[r].sha /\ run'[r].exec = run[r].exec
          /\ run'[r].cand = run[r].cand /\ run'[r].seen = run[r].seen /\ run'[r].ci = run[r].ci
          /\ run'[r].held = h
      BY <1>2, <2>4, <2>5 DEF HostedStages
    <3> QED BY <1>1, <1>3, <2>1, <2>3, <3>1 DEF RunInv
  <2> QED BY <2>1, <2>4, <2>5, HostedStep, HostedOrder DEF HostedStages
<1>8. CASE RereadLatest(r)
  <2>1. /\ Hosted(r, "reread", run[r]) /\ run[r].stage = "reread" /\ UNCHANGED <<github, chal>>
        /\ github.base = run[r].seen.base /\ github.ci[run[r].cand].n = run[r].ci
    BY <1>8 DEF RereadLatest, SameAttempt, LatestAttempt, Hosted
  <2>2. run[r].held
    BY <1>1, <1>3, <2>1 DEF RunInv
  <2>3. ASSUME run'[r] = [run[r] EXCEPT !.stage = "resolveAgain"] PROVE RunInv(r)'
    BY <1>1, <1>2, <2>1, <2>2, <2>3 DEF RunInv, HostedStages
  <2> QED BY <1>1, <2>1, <2>3, HostedStep, HostedOrder DEF HostedStages
<1>9. CASE ResolveAgain(r)
  <2>1. Hosted(r, "resolveAgain", run[r]) /\ run[r].stage = "resolveAgain" /\ UNCHANGED <<github, chal>>
    BY <1>9 DEF ResolveAgain, Hosted
  <2>2. ASSUME run'[r] = [run[r] EXCEPT !.stage = "write"] PROVE RunInv(r)'
    BY <1>1, <1>2, <2>1, <2>2 DEF RunInv, HostedStages
  <2> QED BY <1>1, <2>1, <2>2, HostedStep, HostedOrder DEF HostedStages
<1>10. CASE WriteManifest(r)
  <2> DEFINE q == [run[r] EXCEPT !.issued = clock]
  <2>1. Hosted(r, "write", q) /\ run[r].stage = "write" /\ UNCHANGED <<github, chal>>
    BY <1>10 DEF WriteManifest, Hosted
  <2>2. /\ q \in RunRecord /\ q.attempt = run[r].attempt /\ q.sha = run[r].sha /\ q.exec = run[r].exec
        /\ q.cand = run[r].cand /\ q.seen = run[r].seen /\ q.held = run[r].held /\ q.issued = clock
    BY <1>1, <1>3 DEF RunRecord
  <2> HIDE DEF q
  <2>3. ASSUME run'[r] = [q EXCEPT !.stage = "attest"] PROVE RunInv(r)'
    <3>1. /\ run'[r].stage = "attest" /\ run'[r].sha = run[r].sha /\ run'[r].exec = run[r].exec
          /\ run'[r].cand = run[r].cand /\ run'[r].seen = run[r].seen /\ run'[r].held = run[r].held
          /\ run'[r].issued = clock
      BY <1>2, <2>2, <2>3 DEF HostedStages
    <3> QED BY <1>1, <1>3, <2>1, <3>1 DEF RunInv
  <2> QED BY <2>1, <2>2, <2>3, HostedStep, HostedOrder DEF HostedStages
<1> QED BY <1>4, <1>5, <1>6, <1>7, <1>8, <1>9, <1>10

\* The other steps of a run: its dispatch, the signature over its manifest, its end and
\* its next attempt, which begins with nothing read.
LEMMA InvRuns ==
    ASSUME Inv, NEW r \in HostedRuns,
           \/ \E c \in Challenges, k \in Candidates : Dispatch(r, c, k)
           \/ AttestActivation(r) \/ UploadSubject(r) \/ HostedFails(r) \/ RerunWorkflow(r)
    PROVE  Inv'
<1>1. /\ run[r] \in RunRecord /\ RunInv(r) /\ run \in [HostedRuns -> RunRecord]
      /\ attested \in SUBSET [manifest : Manifest, signed : Nat]
  BY DEF Inv, Types
<1>2. run[r].attempt \in Nat /\ run[r].sha \in Commits /\ run[r].ci \in Nat /\ run[r].issued \in Nat
  BY <1>1 DEF RunRecord
<1>3. github.main \in Commits /\ github.main <= github.main /\ clock \in Nat
  BY AuthorizationAssumption DEF Inv, Types, Commits
<1>4. ASSUME NEW s \in {"authorize", "failed"}, NEW n \in Nat, NEW sha \in Commits,
             NEW c \in Challenges, NEW k \in Candidates,
             run' = [run EXCEPT ![r] = [IdleRun EXCEPT !.stage = s, !.attempt = n, !.sha = sha,
                                                       !.exec = c, !.cand = k]],
             UNCHANGED <<attested, chal, ver, clock, drift>>, github' = github \/ Moves(github),
             run[r].attempt <= n, chal[c].status # "none", sha <= github.main
      PROVE  Inv'
  <2> DEFINE q == [IdleRun EXCEPT !.stage = s, !.attempt = n, !.sha = sha, !.exec = c, !.cand = k]
  <2>1. /\ q \in RunRecord /\ q.stage = s /\ q.attempt = n /\ q.sha = sha /\ q.exec = c /\ q.cand = k
        /\ q.stage \in {"authorize", "failed"}
    BY <1>4 DEF IdleRun, RunRecord, HostedStages
  <2>2. run'[r] = q /\ chal' = chal /\ github'.main = github.main
    BY <1>1, <1>4 DEF Moves, Inv, Types
  <2> HIDE DEF q
  <2>3. RunInv(r)'
    BY <1>4, <2>1, <2>2 DEF RunInv
  <2>4. /\ attested' \in SUBSET [manifest : Manifest, signed : Nat] /\ attested \subseteq attested'
        /\ \A a \in attested' : a \in attested \/ SubjectInv(a.manifest)'
    BY <1>1, <1>4
  <2>5. run' = [run EXCEPT ![r] = q] /\ run[r].attempt <= q.attempt
    BY <1>4, <2>1 DEF q
  <2> QED BY <1>4, <2>1, <2>3, <2>4, <2>5, InvHosted
<1>5. CASE \E c \in Challenges, k \in Candidates : Dispatch(r, c, k)
  <2>1. PICK c \in Challenges, k \in Candidates : Dispatch(r, c, k)
    BY <1>5
  <2>2. PICK sha \in Commits : sha = github.main
    BY <1>3
  <2>3. run[r].attempt = 0 /\ chal[c].status # "none"
    BY <2>1, <1>1 DEF Dispatch, RunInv
  <2>4. PICK n \in Nat : n = 1 /\ run[r].attempt <= n
    BY <2>3
  <2>5. /\ run' = [run EXCEPT ![r] = [IdleRun EXCEPT !.stage = "authorize", !.attempt = n, !.sha = sha,
                                                    !.exec = c, !.cand = k]]
        /\ UNCHANGED <<github, attested, chal, ver, clock, drift>> /\ sha <= github.main
    BY <1>3, <2>1, <2>2, <2>4 DEF Dispatch
  <2> QED BY <1>4, <2>3, <2>4, <2>5
<1>6. CASE RerunWorkflow(r) \/ HostedFails(r)
  <2>1. run[r].stage # "idle"
    BY <1>6 DEF RerunWorkflow, HostedFails
  <2>2. PICK sha \in Commits, c \in Challenges, k \in Candidates :
          /\ sha = run[r].sha /\ c = run[r].exec /\ k = run[r].cand
          /\ chal[c].status # "none" /\ sha <= github.main
    BY <1>1, <1>2, <2>1 DEF RunInv
  <2>3. CASE RerunWorkflow(r)
    <3>1. PICK n \in Nat : n = run[r].attempt + 1 /\ run[r].attempt <= n
      BY <1>2
    <3>2. /\ run' = [run EXCEPT ![r] = [IdleRun EXCEPT !.stage = "authorize", !.attempt = n, !.sha = sha,
                                                    !.exec = c, !.cand = k]]
          /\ UNCHANGED <<attested, chal, ver, clock, drift>> /\ Moves(github)
      BY <2>2, <2>3, <3>1 DEF RerunWorkflow
    <3> QED BY <1>4, <2>2, <3>1, <3>2
  <2>4. CASE HostedFails(r)
    <3>1. PICK n \in Nat : n = run[r].attempt /\ run[r].attempt <= n
      BY <1>2
    <3>2. /\ run' = [run EXCEPT ![r] = [IdleRun EXCEPT !.stage = "failed", !.attempt = n, !.sha = sha,
                                                    !.exec = c, !.cand = k]]
          /\ UNCHANGED <<attested, chal, ver, clock, drift>> /\ github' = github
      BY <2>2, <2>4, <3>1 DEF HostedFails
    <3> QED BY <1>4, <2>2, <3>1, <3>2
  <2> QED BY <1>6, <2>3, <2>4
<1>7. ASSUME NEW s \in {"upload", "completed"}, run' = [run EXCEPT ![r].stage = s],
             run[r].stage \in {"attest", "upload"}, UNCHANGED <<github, chal>>
      PROVE  /\ RunInv(r)'
             /\ \E q \in RunRecord : run' = [run EXCEPT ![r] = q] /\ run[r].attempt <= q.attempt
  <2> DEFINE q == [run[r] EXCEPT !.stage = s]
  <2>1. /\ q \in RunRecord /\ q.stage = s /\ q.attempt = run[r].attempt /\ q.sha = run[r].sha
        /\ q.exec = run[r].exec /\ q.cand = run[r].cand /\ q.seen = run[r].seen /\ q.held = run[r].held
    BY <1>1, <1>7 DEF RunRecord, HostedStages
  <2>2. run' = [run EXCEPT ![r] = q] /\ run'[r] = q /\ run[r].attempt <= q.attempt
    BY <1>1, <1>2, <1>7, <2>1
  <2> HIDE DEF q
  <2>3. RunInv(r)'
    BY <1>1, <1>7, <2>1, <2>2 DEF RunInv
  <2> QED BY <2>1, <2>2, <2>3
<1>8. CASE UploadSubject(r)
  <2>1. /\ run' = [run EXCEPT ![r].stage = "completed"] /\ run[r].stage = "upload"
        /\ UNCHANGED <<github, attested, chal, ver, clock, drift>>
    BY <1>8 DEF UploadSubject
  <2>2. RunInv(r)' /\ \E q \in RunRecord : run' = [run EXCEPT ![r] = q] /\ run[r].attempt <= q.attempt
    <3>1. PICK s \in {"upload", "completed"} : s = "completed"
      OBVIOUS
    <3> QED BY <1>7, <2>1, <3>1
  <2>3. PICK q \in RunRecord : run' = [run EXCEPT ![r] = q] /\ run[r].attempt <= q.attempt
    BY <2>2
  <2>4. /\ attested' \in SUBSET [manifest : Manifest, signed : Nat] /\ attested \subseteq attested'
        /\ \A a \in attested' : a \in attested \/ SubjectInv(a.manifest)'
    BY <1>1, <2>1
  <2> QED BY <2>1, <2>2, <2>3, <2>4, InvHosted
<1>9. CASE AttestActivation(r)
  <2>1. /\ run' = [run EXCEPT ![r].stage = "upload"] /\ run[r].stage = "attest"
        /\ UNCHANGED <<github, chal, ver, clock, drift>>
        /\ attested' = attested \cup {[manifest |-> ManifestOf(r), signed |-> clock]}
    BY <1>9 DEF AttestActivation
  <2>2. RunInv(r)' /\ \E q \in RunRecord : run' = [run EXCEPT ![r] = q] /\ run[r].attempt <= q.attempt
    <3>1. PICK s \in {"upload", "completed"} : s = "upload"
      OBVIOUS
    <3> QED BY <1>7, <2>1, <3>1
  <2>3. PICK q \in RunRecord : run' = [run EXCEPT ![r] = q] /\ run[r].attempt <= q.attempt
    BY <2>2
  <2>4. /\ run[r].exec \in Challenges /\ run[r].cand \in Candidates /\ run[r].seen.base \in Nat
        /\ chal[run[r].exec].status # "none" /\ run[r].sha <= github.main
        /\ chal[run[r].exec].created <= run[r].issued
    BY <1>1, <2>1 DEF RunInv
  <2>5. PICK m \in Manifest :
          /\ m = ManifestOf(r) /\ m.exec = run[r].exec /\ m.issued = run[r].issued
          /\ m.sha = run[r].sha /\ m.run = r /\ m.attempt = run[r].attempt
    <3>1. ReleaseOf[run[r].sha] \in {ReleaseOf[s] : s \in Commits}
      BY <1>2
    <3>2. ManifestOf(r) \in Manifest
      BY <1>2, <2>4, <3>1 DEF ManifestOf, Manifest
    <3> QED BY <3>2 DEF ManifestOf
  <2>6. run'[r].attempt = run[r].attempt
    BY <1>1, <2>1 DEF RunRecord
  <2>7. SubjectInv(m)'
    BY <1>2, <2>1, <2>4, <2>5, <2>6 DEF SubjectInv, Behind
  <2>8. /\ attested' \in SUBSET [manifest : Manifest, signed : Nat] /\ attested \subseteq attested'
        /\ \A a \in attested' : a \in attested \/ SubjectInv(a.manifest)'
    BY <1>1, <1>3, <2>1, <2>5, <2>7
  <2> QED BY <2>1, <2>2, <2>3, <2>8, InvHosted
<1> QED BY <1>5, <1>6, <1>8, <1>9

-----------------------------------------------------------------------------
(* The station.                                                            *)

\* A challenge is made once, and its age is fixed then.
LEMMA InvChallenges ==
    ASSUME Inv, NEW c \in Challenges, CreateChallenge(c) \/ Destroy(c)
    PROVE  Inv'
<1> DEFINE C == [status : {"none", "usable", "consumed", "destroyed"}, created : Nat]
<1>1. UNCHANGED <<github, run, attested, ver, clock, drift>>
  BY DEF CreateChallenge, Destroy
<1>2. chal \in [Challenges -> C] /\ clock \in Nat /\ clock <= clock /\ \A d \in Challenges : chal[d].created <= clock
  BY AuthorizationAssumption DEF Inv, Types
<1>3. PICK q \in C : /\ chal' = [chal EXCEPT ![c] = q] /\ q.created <= clock /\ q.status # "none"
                     /\ chal[c].status # "consumed"
                     /\ chal[c].status # "none" => q.created = chal[c].created
  <2>1. CASE CreateChallenge(c)
    <3> DEFINE q == [status |-> "usable", created |-> clock]
    <3>1. q \in C /\ chal' = [chal EXCEPT ![c] = q] /\ q.created <= clock /\ q.status # "none"
          /\ chal[c].status = "none"
      BY <1>2, <2>1 DEF CreateChallenge
    <3> QED BY <3>1
  <2>2. CASE Destroy(c)
    <3> DEFINE q == [chal[c] EXCEPT !.status = "destroyed"]
    <3>1. chal[c] \in C /\ chal' = [chal EXCEPT ![c] = q] /\ chal[c].status = "usable"
      BY <1>2, <2>2 DEF Destroy
    <3>2. q \in C /\ q.created = chal[c].created /\ q.status # "none"
      BY <3>1
    <3> QED BY <1>2, <3>1, <3>2
  <2> QED BY <2>1, <2>2
<1>4. /\ chal' \in [Challenges -> C] /\ chal'[c] = q
      /\ \A d \in Challenges : d # c => chal'[d] = chal[d]
  BY <1>2, <1>3
<1>5. \A d \in Challenges : chal'[d].created <= clock
  BY <1>2, <1>3, <1>4
<1>6. Types'
  BY <1>1, <1>4, <1>5 DEF Inv, Types
<1>7. \A x \in RunRecord : x.attempt <= x.attempt
  BY DEF RunRecord
<1>8. /\ github.main <= github'.main /\ github.base <= github'.base
      /\ \A k \in Candidates : github.ci[k].n <= github'.ci[k].n
      /\ \A r \in HostedRuns : run[r].attempt <= run'[r].attempt
  BY <1>1, <1>7, AuthorizationAssumption DEF Inv, Types, Commits
<1>9. \A d \in Challenges :
        /\ chal[d].status # "none" => chal'[d].status # "none" /\ chal'[d].created = chal[d].created
        /\ chal[d].status = "consumed" => chal'[d].status = "consumed"
  BY <1>3, <1>4
<1>10. Grows
  BY <1>1, <1>8, <1>9 DEF Grows
<1>11. OneConsumer'
  BY <1>1 DEF Inv, OneConsumer, Consumer
<1> QED BY <1>1, <1>6, <1>10, <1>11, Assemble

\* One verification takes a step, and the challenges stay or one of them is consumed.
LEMMA InvVerification ==
    ASSUME Inv, NEW v \in Verifications, NEW q \in VerRecord, ver' = [ver EXCEPT ![v] = q],
           UNCHANGED <<github, run, attested, clock, drift>>, VerInv(v)', OneConsumer',
           chal' = chal \/ (\E c \in Challenges : chal[c].status = "usable"
                              /\ chal' = [chal EXCEPT ![c].status = "consumed"])
    PROVE  Inv'
<1> DEFINE C == [status : {"none", "usable", "consumed", "destroyed"}, created : Nat]
<1>1. ver' \in [Verifications -> VerRecord] /\ \A w \in Verifications : w # v => ver'[w] = ver[w]
  BY DEF Inv, Types
<1>2. chal \in [Challenges -> C]
  BY DEF Inv, Types
<1>3. /\ chal' \in [Challenges -> C]
      /\ \A d \in Challenges :
           /\ chal'[d].created = chal[d].created
           /\ chal[d].status # "none" => chal'[d].status # "none"
           /\ chal[d].status = "consumed" => chal'[d].status = "consumed"
  <2>1. CASE chal' = chal
    BY <1>2, <2>1
  <2>2. CASE chal' # chal
    <3>1. PICK c \in Challenges : chal[c].status = "usable" /\ chal' = [chal EXCEPT ![c].status = "consumed"]
      BY <2>2
    <3> QED BY <1>2, <3>1
  <2> QED BY <2>1, <2>2
<1>4. Types'
  BY <1>1, <1>3 DEF Inv, Types
<1>5. \A x \in RunRecord : x.attempt <= x.attempt
  BY DEF RunRecord
<1>6. /\ github.main <= github'.main /\ github.base <= github'.base
      /\ \A k \in Candidates : github.ci[k].n <= github'.ci[k].n
      /\ \A r \in HostedRuns : run[r].attempt <= run'[r].attempt
  BY <1>5, AuthorizationAssumption DEF Inv, Types, Commits
<1>7. Grows
  BY <1>3, <1>6 DEF Grows
<1> QED BY <1>1, <1>4, <1>7, Assemble

\* A check succeeds and its call, which nobody has given up, goes on to the next.
LEMMA InvVerify ==
    ASSUME Inv, NEW v \in Verifications, NEW s \in Checking, NEW q \in VerRecord,
           Verify(v, s, q), NEW n \in Checking \ {"settle"}, NextIn(VerifyScript, s) = n,
           q.outcome = "pending",
           ver'[v] = [q EXCEPT !.stage = n] => VerInv(v)'
    PROVE  Inv'
<1> DEFINE p == [q EXCEPT !.stage = n]
<1>1. ver' = [ver EXCEPT ![v] = p] /\ UNCHANGED <<github, run, attested, chal, clock, drift>>
  BY DEF Verify
<1>2. p \in VerRecord /\ p.stage = n /\ p.outcome = "pending"
  BY DEF VerRecord
<1>3. ver \in [Verifications -> VerRecord]
  BY DEF Inv, Types
<1>4. ver'[v] = p /\ \A w \in Verifications : w # v => ver'[w] = ver[w]
  BY <1>1, <1>3
<1>5. VerInv(v)'
  BY <1>4
<1> HIDE DEF p
<1>6. \A w \in Verifications : Consumer(w)' => Consumer(w) /\ ver'[w].chal = ver[w].chal
  BY <1>2, <1>4 DEF Consumer
<1>7. OneConsumer'
  BY <1>6, ConsumersKept DEF Inv
<1> QED BY <1>1, <1>2, <1>5, <1>7, InvVerification

\* The checks that change nothing but the stage.  The run and the branch are read again
\* after the attestation was verified: neither can have moved before it and back.
LEMMA InvContext ==
    ASSUME Inv, NEW v \in Verifications, ContextBefore(v) \/ RemoveDirectory(v) \/ ContextAfter(v)
    PROVE  Inv'
<1>1. ver[v] \in VerRecord /\ VerInv(v)
  BY DEF Inv, Types
<1>2. ver[v].outcome = "pending"
  BY DEF ContextBefore, ContextAfter, RemoveDirectory, ReadRun, ReadBranch, Fresh
<1>3. UNCHANGED <<github, run, attested, chal>>
  BY DEF ContextBefore, ContextAfter, RemoveDirectory, ReadRun, ReadBranch, Verify
<1>4. PICK s \in Checking, n \in Checking :
        /\ <<s, n>> \in {<<"run", "branch">>, <<"branch", "runAgain">>, <<"runAgain", "gh">>,
                         <<"rm", "run2">>, <<"run2", "branch2">>, <<"branch2", "runAgain2">>,
                         <<"runAgain2", "consume">>}
        /\ Verify(v, s, ver[v]) /\ ver[v].stage = s /\ NextIn(VerifyScript, s) = n
        /\ s = "run2" => RunCurrent(v)
        /\ s = "branch2" => BranchCurrent(v)
  BY VerifyOrder DEF ContextBefore, ContextAfter, RemoveDirectory, ReadRun, ReadBranch, Verify, Checking
<1>5. ASSUME ver'[v] = [ver[v] EXCEPT !.stage = n] PROVE VerInv(v)'
  <2>1. /\ ver'[v].stage = n /\ ver'[v].chal = ver[v].chal /\ ver'[v].manifest = ver[v].manifest
        /\ ver'[v].outcome = "pending" /\ ver'[v].atGh = ver[v].atGh
    BY <1>1, <1>2, <1>5 DEF VerRecord
  <2> DEFINE m == ver[v].manifest
  <2>2. /\ ver[v].chal \in Challenges /\ m \in Manifest /\ Behind(m)
        /\ MatchesChallenge(ver[v].chal, m) /\ m.release = StationRelease
    BY <1>1, <1>4 DEF VerInv
  <2>3. m.sha \in Nat /\ m.attempt \in Nat /\ m.run \in HostedRuns
    BY <2>2, AuthorizationAssumption DEF Manifest, Commits
  <2>4. n \in {"run2", "branch2", "runAgain2", "consume"} =>
             /\ m \in {a.manifest : a \in attested}
             /\ ver[v].atGh \in [main : Commits, attempt : Nat]
             /\ m.sha <= ver[v].atGh.main /\ ver[v].atGh.main <= github.main
             /\ m.attempt <= ver[v].atGh.attempt /\ ver[v].atGh.attempt <= run[m.run].attempt
    BY <1>1, <1>4 DEF VerInv, Past
  <2>5. n \in {"branch2", "runAgain2", "consume"} => ver[v].atGh.attempt = m.attempt
    <3>1. CASE s = "run2"
      BY <1>4, <2>3, <2>4, <3>1 DEF RunCurrent
    <3>2. CASE s # "run2"
      BY <1>1, <1>4, <3>2 DEF VerInv, Past
    <3> QED BY <3>1, <3>2
  <2>6. n \in {"runAgain2", "consume"} => ver[v].atGh.main = m.sha
    <3>1. CASE s = "branch2"
      BY <1>4, <2>3, <2>4, <3>1, AuthorizationAssumption DEF BranchCurrent, Commits
    <3>2. CASE s # "branch2"
      BY <1>1, <1>4, <3>2 DEF VerInv, Past
    <3> QED BY <3>1, <3>2
  <2>7. n \notin {"rm", "settle"}
    BY <1>4
  <2> QED BY <1>3, <2>1, <2>2, <2>4, <2>5, <2>6, <2>7 DEF VerInv, Past, Consumer, Behind, MatchesChallenge
<1>6. n \in Checking \ {"settle"}
  BY <1>4
<1> QED BY <1>1, <1>2, <1>4, <1>5, <1>6, InvVerify

\* The attestation is verified: the subject is one that GitHub attested, and main and
\* the run are at or after what it names.
LEMMA InvGhVerify ==
    ASSUME Inv, NEW v \in Verifications, GhVerify(v)
    PROVE  Inv'
<1>1. /\ ver[v] \in VerRecord /\ VerInv(v) /\ attested \in SUBSET [manifest : Manifest, signed : Nat]
      /\ github.main \in Commits /\ run \in [HostedRuns -> RunRecord]
  BY DEF Inv, Types
<1>2. ver[v].outcome = "pending" /\ ver[v].stage = "gh"
  BY DEF GhVerify, Fresh
<1> DEFINE m == ver[v].manifest
<1>3. PICK a \in attested :
        /\ a.manifest = m
        /\ Verify(v, "gh", [ver[v] EXCEPT !.signed = a.signed,
                              !.atGh = [main |-> github.main, attempt |-> run[m.run].attempt]])
  BY DEF GhVerify, SignaturesOf
<1>4. /\ ver[v].chal \in Challenges /\ m \in Manifest /\ Behind(m)
      /\ MatchesChallenge(ver[v].chal, m) /\ m.release = StationRelease
  BY <1>1, <1>2 DEF VerInv, Checking
<1>5. m.run \in HostedRuns /\ run[m.run].attempt \in Nat
  <2>1. m.run \in HostedRuns
    BY <1>4 DEF Manifest
  <2> QED BY <1>1, <2>1 DEF RunRecord
<1> DEFINE at == [main |-> github.main, attempt |-> run[m.run].attempt]
           q == [ver[v] EXCEPT !.signed = a.signed, !.atGh = at]
<1>6. at \in [main : Commits, attempt : Nat] /\ at.main = github.main /\ at.attempt = run[m.run].attempt
  BY <1>1, <1>5
<1>7. UNCHANGED <<github, run, attested, chal>> /\ Verify(v, "gh", q)
  BY <1>3 DEF Verify
<1> HIDE DEF at
<1>8. /\ q \in VerRecord /\ q.outcome = "pending" /\ q.chal = ver[v].chal /\ q.manifest = m /\ q.atGh = at
  BY <1>1, <1>2, <1>6 DEF VerRecord
<1> HIDE DEF q
<1>9. ASSUME ver'[v] = [q EXCEPT !.stage = "rm"] PROVE VerInv(v)'
  <2>1. /\ ver'[v].stage = "rm" /\ ver'[v].chal = ver[v].chal /\ ver'[v].manifest = m
        /\ ver'[v].outcome = "pending" /\ ver'[v].atGh = at
    BY <1>8, <1>9 DEF VerRecord
  <2>2. m.sha <= at.main /\ at.main <= github.main /\ m.attempt <= at.attempt /\ at.attempt <= run[m.run].attempt
    BY <1>1, <1>4, <1>5, <1>6, AuthorizationAssumption DEF Behind, Commits
  <2>3. m \in {b.manifest : b \in attested}
    BY <1>3
  <2> QED BY <1>4, <1>6, <1>7, <2>1, <2>2, <2>3 DEF VerInv, Past, Consumer, Behind, MatchesChallenge
<1> QED BY <1>7, <1>8, <1>9, VerifyOrder, InvVerify DEF Checking

\* A verification begins with a genuine manifest or an edited one; either names a commit
\* and an attempt that there were.
LEMMA InvStart ==
    ASSUME Inv, NEW v \in Verifications, NEW c \in Challenges, NEW m \in Presentable, StartVerify(v, c, m)
    PROVE  Inv'
<1>1. /\ ver \in [Verifications -> VerRecord]
      /\ \A a \in attested : a.manifest \in Manifest /\ Behind(a.manifest)
  BY DEF Inv, Types, SubjectInv
<1>2. m \in Manifest /\ Behind(m)
  <2>1. CASE m \in {a.manifest : a \in attested}
    BY <1>1, <2>1
  <2>2. CASE m \notin {a.manifest : a \in attested}
    <3>1. PICK a \in attested, d \in Challenges, k \in Candidates :
            m = Edited(a.manifest, d, k)
      BY <2>2 DEF Presentable
    <3>2. PICK g \in Manifest : g = a.manifest /\ Behind(g)
      BY <1>1
    <3>3. m \in Manifest /\ m.sha = g.sha /\ m.attempt = g.attempt /\ m.run = g.run
      BY <3>1, <3>2 DEF Manifest, Edited
    <3> QED BY <3>2, <3>3 DEF Behind
  <2> QED BY <2>1, <2>2
<1> DEFINE q == [IdleVer EXCEPT !.stage = "run", !.chal = c, !.manifest = m, !.outcome = "pending"]
<1>3. /\ ver' = [ver EXCEPT ![v] = q] /\ UNCHANGED <<github, run, attested, chal, clock, drift>>
      /\ MatchesChallenge(c, m) /\ m.release = StationRelease
  BY DEF StartVerify, PoliciesAllow
<1>4. /\ q \in VerRecord /\ q.stage = "run" /\ q.chal = c /\ q.manifest = m /\ q.outcome = "pending"
  BY <1>2 DEF IdleVer, VerRecord, Checking
<1> HIDE DEF q
<1>5. ver'[v] = q /\ \A w \in Verifications : w # v => ver'[w] = ver[w]
  BY <1>1, <1>3
<1>6. Behind(m)'
  BY <1>2, <1>3 DEF Behind
<1>7. VerInv(v)'
  BY <1>2, <1>3, <1>4, <1>5, <1>6 DEF VerInv, Past, Consumer, MatchesChallenge
<1>8. OneConsumer'
  <2>1. \A w \in Verifications : Consumer(w)' => Consumer(w) /\ ver'[w].chal = ver[w].chal
    BY <1>4, <1>5 DEF Consumer
  <2> QED BY <2>1, ConsumersKept DEF Inv
<1> QED BY <1>3, <1>4, <1>7, <1>8, InvVerification

\* The consumption: a usable challenge has no consumer yet, and it is no older than the
\* manifest that names it.
LEMMA InvConsume ==
    ASSUME Inv, NEW v \in Verifications, Consume(v)
    PROVE  Inv'
<1>1. ver \in [Verifications -> VerRecord] /\ ver[v] \in VerRecord /\ VerInv(v) /\ clock \in Nat
  BY AuthorizationAssumption DEF Inv, Types
<1> DEFINE m == ver[v].manifest
<1>2. /\ ver[v].stage = "consume" /\ ver[v].outcome = "pending" /\ chal[ver[v].chal].status = "usable"
      /\ clock - chal[ver[v].chal].created < TTL
      /\ chal' = [chal EXCEPT ![ver[v].chal].status = "consumed"]
      /\ ver' = [ver EXCEPT ![v].stage = "settle", ![v].at = clock]
      /\ UNCHANGED <<github, run, attested, clock, drift>>
  BY DEF Consume, Fresh, AssertUsable
<1>3. /\ ver[v].chal \in Challenges /\ m \in Manifest /\ Behind(m)
      /\ MatchesChallenge(ver[v].chal, m) /\ m.release = StationRelease
      /\ m \in {a.manifest : a \in attested}
      /\ ver[v].atGh \in [main : Commits, attempt : Nat]
      /\ ver[v].atGh.main <= github.main /\ ver[v].atGh.attempt <= run[m.run].attempt
      /\ m.sha <= ver[v].atGh.main /\ m.attempt <= ver[v].atGh.attempt
      /\ ver[v].atGh.main = m.sha /\ ver[v].atGh.attempt = m.attempt
  BY <1>1, <1>2 DEF VerInv, Past, Checking
<1>4. clock - m.issued < TTL
  <2>1. m.exec = ver[v].chal /\ m.issued \in Nat
    BY <1>3 DEF MatchesChallenge, Manifest
  <2>2. chal[ver[v].chal].created \in Nat /\ chal[ver[v].chal].created <= m.issued
    BY <1>3, <2>1 DEF Inv, Types, SubjectInv
  <2> QED BY <1>1, <1>2, <2>1, <2>2, AuthorizationAssumption
<1> DEFINE q == [ver[v] EXCEPT !.stage = "settle", !.at = clock]
<1>5. ver' = [ver EXCEPT ![v] = q] /\ ver'[v] = q /\ \A w \in Verifications : w # v => ver'[w] = ver[w]
  BY <1>1, <1>2
<1>6. /\ q \in VerRecord /\ q.stage = "settle" /\ q.chal = ver[v].chal /\ q.manifest = m
      /\ q.outcome = "pending" /\ q.atGh = ver[v].atGh /\ q.at = clock
  BY <1>1, <1>2 DEF VerRecord, Checking
<1> HIDE DEF q
<1>7. chal'[ver[v].chal].status = "consumed"
  BY <1>2, <1>3 DEF Inv, Types
<1>8. VerInv(v)'
  BY <1>2, <1>3, <1>4, <1>5, <1>6, <1>7 DEF VerInv, Past, Consumer, Behind, MatchesChallenge
<1>9. \A w \in Verifications : Consumer(w) => chal[ver[w].chal].status = "consumed"
  BY DEF Inv, VerInv
<1>10. OneConsumer'
  <2>1. \A w \in Verifications : w # v => (Consumer(w)' <=> Consumer(w)) /\ ver'[w].chal = ver[w].chal
    BY <1>5 DEF Consumer
  <2>2. \A w \in Verifications : w # v /\ Consumer(w)' => ver'[w].chal # ver'[v].chal
    BY <1>2, <1>5, <1>6, <1>9, <2>1
  <2> QED BY <2>1, <2>2 DEF Inv, OneConsumer
<1>11. \E c \in Challenges : chal[c].status = "usable" /\ chal' = [chal EXCEPT ![c].status = "consumed"]
  BY <1>2, <1>3
<1> QED BY <1>2, <1>5, <1>6, <1>8, <1>10, <1>11, InvVerification

\* The ends of a verification, and an abort, which the work behind it outlives.
LEMMA InvEnds ==
    ASSUME Inv, NEW v \in Verifications, Settle(v) \/ AbortVerify(v) \/ VerifyRefused(v)
    PROVE  Inv'
<1>1. ver \in [Verifications -> VerRecord] /\ ver[v] \in VerRecord /\ VerInv(v)
  BY DEF Inv, Types
<1>2. UNCHANGED <<github, run, attested, chal, clock, drift>>
  BY DEF Settle, AbortVerify, VerifyRefused
<1>3. ASSUME NEW q \in VerRecord, ver' = [ver EXCEPT ![v] = q],
             q.outcome = "receipt" => Consumer(v), q.stage = "settle" => Consumer(v),
             q.stage \in Checking => q.stage = ver[v].stage,
             (q.stage \in Checking \/ q.outcome = "receipt") =>
                /\ q.chal = ver[v].chal /\ q.manifest = ver[v].manifest
                /\ q.atGh = ver[v].atGh /\ q.at = ver[v].at
      PROVE  Inv'
  <2>1. ver'[v] = q /\ \A w \in Verifications : w # v => ver'[w] = ver[w]
    BY <1>1, <1>3
  <2>2. VerInv(v)'
    BY <1>1, <1>2, <1>3, <2>1 DEF VerInv, Past, Consumer, Checking, Behind, MatchesChallenge
  <2>3. OneConsumer'
    <3>1. \A w \in Verifications : Consumer(w)' => Consumer(w) /\ ver'[w].chal = ver[w].chal
      BY <1>3, <2>1 DEF Consumer, Checking
    <3> QED BY <3>1, ConsumersKept DEF Inv
  <2> QED BY <1>2, <1>3, <2>2, <2>3, InvVerification
<1>4. CASE Settle(v)
  <2> DEFINE o == IF ver[v].outcome = "pending" THEN "receipt" ELSE ver[v].outcome
             q == [ver[v] EXCEPT !.stage = "over", !.outcome = o]
  <2>1. ver' = [ver EXCEPT ![v] = q] /\ ver[v].stage = "settle"
    BY <1>1, <1>4 DEF Settle
  <2>2. /\ q \in VerRecord /\ q.stage = "over" /\ q.chal = ver[v].chal /\ q.manifest = ver[v].manifest
        /\ q.atGh = ver[v].atGh /\ q.at = ver[v].at
    BY <1>1 DEF VerRecord
  <2> HIDE DEF q
  <2> QED BY <1>3, <2>1, <2>2 DEF Consumer, Checking
<1>5. CASE AbortVerify(v)
  <2> DEFINE q == [ver[v] EXCEPT !.outcome = "refused"]
  <2>1. ver' = [ver EXCEPT ![v] = q]
    BY <1>1, <1>5 DEF AbortVerify
  <2>2. /\ q \in VerRecord /\ q.stage = ver[v].stage /\ q.chal = ver[v].chal /\ q.outcome = "refused"
        /\ q.manifest = ver[v].manifest /\ q.atGh = ver[v].atGh /\ q.at = ver[v].at
    BY <1>1 DEF VerRecord
  <2> HIDE DEF q
  <2> QED BY <1>3, <2>1, <2>2 DEF Consumer
<1>6. CASE VerifyRefused(v)
  <2> DEFINE q == [IdleVer EXCEPT !.stage = "over", !.outcome = "refused"]
  <2>1. ver' = [ver EXCEPT ![v] = q]
    BY <1>6 DEF VerifyRefused
  <2>2. q \in VerRecord /\ q.stage = "over" /\ q.outcome = "refused"
    BY DEF IdleVer, VerRecord
  <2> HIDE DEF q
  <2> QED BY <1>3, <2>1, <2>2 DEF Checking
<1> QED BY <1>4, <1>5, <1>6

-----------------------------------------------------------------------------
(* The theorems.                                                           *)

\* Initially nothing has been dispatched, attested or verified.
LEMMA InvInit == Init => Inv
<1> SUFFICES ASSUME Init PROVE Inv
  OBVIOUS
<1> USE AuthorizationAssumption DEF Init
<1>1. /\ github \in [main : Commits, base : Nat, head : [Candidates -> BOOLEAN],
                   ci : [Candidates -> [n : Nat \ {0},
                           status : {"queued", "in_progress", "completed", "cancelled"}]],
                   passed : SUBSET (Candidates \X Nat), moves : 0..MaxMoves]
      /\ github.base <= github.moves
      /\ \A k \in Candidates : github.ci[k].n <= github.moves + 1
  <2>1. {<<k, 1>> : k \in Candidates} \in SUBSET (Candidates \X Nat)
    OBVIOUS
  <2>2. [k \in Candidates |-> [n |-> 1, status |-> "completed"]]
          \in [Candidates -> [n : Nat \ {0}, status : {"queued", "in_progress", "completed", "cancelled"}]]
    OBVIOUS
  <2>3. 0 \in Commits /\ 0 \in 0..MaxMoves
    BY DEF Commits
  <2> QED BY <2>1, <2>2, <2>3
<1>2. IdleRun \in RunRecord /\ IdleRun.stage = "idle" /\ IdleRun.attempt = 0
  BY DEF IdleRun, RunRecord, HostedStages, Commits
<1>3. IdleVer \in VerRecord /\ IdleVer.stage = "idle" /\ IdleVer.outcome = "none"
  BY DEF IdleVer, VerRecord
<1>4. Types
  BY <1>1, <1>2, <1>3 DEF Types
<1>5. \A r \in HostedRuns : RunInv(r)
  BY <1>2 DEF RunInv
<1>6. \A v \in Verifications : VerInv(v) /\ ~Consumer(v)
  BY <1>3 DEF VerInv, Consumer, Past, Checking
<1> QED BY <1>4, <1>5, <1>6 DEF Inv, OneConsumer

\* Every step keeps the invariant.
LEMMA InvNext == Inv /\ [Next]_vars => Inv'
<1> SUFFICES ASSUME Inv, [Next]_vars PROVE Inv'
  OBVIOUS
<1>1. CASE MainAdvances \/ BaseMoves \/ \E k \in Moving : HeadMoves(k) \/ CiReruns(k) \/ CiAdvances(k)
  BY <1>1, InvGithubSteps
<1>2. CASE \E r \in HostedRuns :
             \/ \E c \in Challenges, k \in Candidates : Dispatch(r, c, k)
             \/ Authorize(r) \/ ResolveCandidate(r) \/ ReadLatest(r) \/ ReadJobs(r)
             \/ RereadLatest(r) \/ ResolveAgain(r) \/ WriteManifest(r) \/ AttestActivation(r) \/ UploadSubject(r)
             \/ HostedFails(r) \/ RerunWorkflow(r)
  BY <1>2, InvReads, InvRuns
<1>3. CASE \E c \in Challenges : CreateChallenge(c) \/ Destroy(c)
  BY <1>3, InvChallenges
<1>4. CASE \E v \in Verifications :
             \/ \E c \in Challenges, m \in Presentable : StartVerify(v, c, m)
             \/ ContextBefore(v) \/ GhVerify(v) \/ RemoveDirectory(v) \/ ContextAfter(v)
             \/ Consume(v) \/ Settle(v) \/ AbortVerify(v) \/ VerifyRefused(v)
  BY <1>4, InvStart, InvContext, InvGhVerify, InvConsume, InvEnds
<1>5. CASE Tick \/ \E d \in Drifts : SetWallClock(d)
  BY <1>5, InvClocks
<1>6. CASE UNCHANGED vars
  BY <1>6 DEF vars, Inv, Types, RunInv, SubjectInv, Behind, VerInv, Past, Consumer, OneConsumer,
              MatchesChallenge
<1> QED BY <1>1, <1>2, <1>3, <1>4, <1>5, <1>6 DEF Next

\* The invariant holds in every state the specification reaches.
THEOREM Invariance == Spec => []Inv
BY InvInit, InvNext, PTL DEF Spec

\* The variables have their types, and GitHub's counters stay within the moves made.
THEOREM TypeCorrect == Spec => []TypeOK
<1>1. Inv => TypeOK
  <2> SUFFICES ASSUME Inv PROVE TypeOK
    OBVIOUS
  <2> USE AuthorizationAssumption DEF Inv, Types
  <2>1. github.base \in 0..MaxMoves /\ \A k \in Candidates : github.ci[k].n \in 1..(MaxMoves + 1)
    OBVIOUS
  <2>2. \A c \in Challenges : chal[c].created \in 0..clock
    OBVIOUS
  <2>3. \A v \in Verifications : ver[v].outcome \in {"none", "pending", "refused", "receipt"}
    BY DEF VerRecord
  <2> QED BY <2>1, <2>2, <2>3 DEF TypeOK
<1> QED BY <1>1, Invariance, PTL

\* challenge.mjs consume and verifyLocalAuthorization: however many calls verify one
\* challenge at once, at most one of them returns a receipt.
THEOREM AtMostOneReceipt == Spec => []OneReceiptPerChallenge
<1>1. Inv => OneReceiptPerChallenge
  BY DEF Inv, OneConsumer, Consumer, Receipts, OneReceiptPerChallenge
<1> QED BY <1>1, Invariance, PTL

\* readAuthorizationContext on both sides of the attestation: when it was verified, main
\* and the run were what the manifest of the receipt names.
THEOREM CurrentControl == Spec => []ReceiptAtCurrentControl
<1>1. Inv => ReceiptAtCurrentControl
  <2> SUFFICES ASSUME Inv, NEW v \in Verifications, Receipts(v)
               PROVE  ver[v].atGh = [main |-> ver[v].manifest.sha, attempt |-> ver[v].manifest.attempt]
    BY DEF ReceiptAtCurrentControl
  <2>1. /\ ver[v].atGh \in [main : Commits, attempt : Nat]
        /\ ver[v].atGh.main = ver[v].manifest.sha /\ ver[v].atGh.attempt = ver[v].manifest.attempt
    BY DEF Inv, VerInv, Past, Receipts
  <2> QED BY <2>1
<1> QED BY <1>1, Invariance, PTL

\* The challenge's monotonic age bounds the manifest's true age: setting the station's
\* wall clock gains nothing.
THEOREM YoungReceipt == Spec => []ReceiptIsYoung
<1>1. Inv => ReceiptIsYoung
  BY DEF Inv, VerInv, Consumer, Receipts, ReceiptIsYoung
<1> QED BY <1>1, Invariance, PTL

\* A receipt rests on a subject that was attested for its own challenge and candidate,
\* under the station's release.
THEOREM OwnDispatch == Spec => []ReceiptForOwnDispatch
<1>1. Inv => ReceiptForOwnDispatch
  <2> SUFFICES ASSUME Inv, NEW v \in Verifications, Receipts(v)
               PROVE  \E a \in attested :
                        /\ a.manifest = ver[v].manifest
                        /\ a.manifest.exec = ver[v].chal /\ a.manifest.cand = Presents[ver[v].chal]
                        /\ a.manifest.release = StationRelease
    BY DEF ReceiptForOwnDispatch
  <2>1. /\ ver[v].manifest \in {a.manifest : a \in attested}
        /\ MatchesChallenge(ver[v].chal, ver[v].manifest) /\ ver[v].manifest.release = StationRelease
    BY DEF Inv, VerInv, Past, Receipts
  <2> QED BY <2>1 DEF MatchesChallenge
<1> QED BY <1>1, Invariance, PTL

\* reader.mjs reads the newest CI attempt twice: when its jobs were read it was the newest
\* one, at the base of the manifest.
THEOREM PrerequisitesTogether == Spec => []PrerequisitesHeldTogether
<1>1. Inv => PrerequisitesHeldTogether
  BY DEF Inv, RunInv, PrerequisitesHeldTogether
<1> QED BY <1>1, Invariance, PTL

\* A challenge is consumed by a call that is still awaited, and by no other step.
THEOREM AbortStopsConsumption == Spec => AbortedCallNeverConsumes
<1> DEFINE A == \A c \in Challenges : (chal[c].status = "usable" /\ chal'[c].status = "consumed") =>
                  \E v \in Verifications : ver[v].chal = c /\ ver[v].outcome = "pending"
                                             /\ ver[v].stage # "settle" /\ ver'[v].stage = "settle"
<1>1. Inv /\ [Next]_vars => [A]_vars
  <2> SUFFICES ASSUME Inv, Next, NEW c \in Challenges, chal[c].status = "usable", chal'[c].status = "consumed"
               PROVE  \E v \in Verifications : ver[v].chal = c /\ ver[v].outcome = "pending"
                                                 /\ ver[v].stage # "settle" /\ ver'[v].stage = "settle"
    OBVIOUS
  <2>1. chal' # chal
    OBVIOUS
  <2>2. /\ chal \in [Challenges -> [status : {"none", "usable", "consumed", "destroyed"}, created : Nat]]
        /\ ver \in [Verifications -> VerRecord]
    BY DEF Inv, Types
  <2>3. CASE \E d \in Challenges : CreateChallenge(d) \/ Destroy(d)
    BY <2>2, <2>3 DEF CreateChallenge, Destroy
  <2>4. CASE \E v \in Verifications : Consume(v)
    <3>1. PICK v \in Verifications : Consume(v)
      BY <2>4
    <3>2. c = ver[v].chal
      BY <2>2, <3>1 DEF Consume
    <3>3. ver[v].outcome = "pending" /\ ver[v].stage = "consume"
      BY <3>1 DEF Consume, Fresh
    <3>4. ver'[v].stage = "settle"
      BY <2>2, <3>1 DEF Consume, VerRecord
    <3> QED BY <3>2, <3>3, <3>4
  <2>5. (\E d \in Challenges : CreateChallenge(d) \/ Destroy(d)) \/ \E v \in Verifications : Consume(v)
    BY <2>1 DEF Next, MainAdvances, BaseMoves, HeadMoves, CiReruns, CiAdvances, GithubOnly, Dispatch,
         Authorize, ResolveCandidate, ReadLatest, ReadJobs, RereadLatest, ResolveAgain, WriteManifest,
         AttestActivation, UploadSubject, HostedFails, RerunWorkflow, Hosted, StartVerify, ContextBefore,
         ContextAfter, ReadRun, ReadBranch, GhVerify, RemoveDirectory, Verify, Settle, AbortVerify,
         VerifyRefused, Tick, SetWallClock
  <2> QED BY <2>3, <2>4, <2>5
<1> QED BY <1>1, Invariance, PTL DEF Spec, AbortedCallNeverConsumes

=============================================================================
