------------------------- MODULE LocalAuthorization -------------------------
(***************************************************************************)
(* Authorization of a local collection.  The station makes a one-use       *)
(* challenge; an operator dispatches the hosted workflow with it; the      *)
(* workflow reads the candidate and its CI, composes a manifest and has    *)
(* GitHub attest it; the station verifies manifest, attestation and the    *)
(* state of the control repository, and consumes the challenge.            *)
(*                                                                         *)
(* GitHub goes on moving all the while: commits on main, new heads and     *)
(* bases of the candidate's pull request, new CI attempts, reruns of the   *)
(* workflow.  Every read is one request, so two reads of one handler may   *)
(* see different states.  The station's wall clock may be set at any time; *)
(* its monotonic clock may not.                                            *)
(***************************************************************************)
EXTENDS Integers, FiniteSets, Sequences

CONSTANTS
    Challenges,      \* challenges made by the station
    Candidates,      \* candidate commits (with their suite)
    Moving,          \* bound: the candidates whose pull request and CI change
    Presents,        \* the candidate each challenge was made for
    HostedRuns,      \* runs of authorize-local-collector.yml
    Verifications,   \* calls of verifyLocalAuthorization
    Reviewed,        \* control commits of policy/local-collector-trust.json
    ReleaseOf,       \* the release each control commit pins for the suite
    StationRelease,  \* the release the station's own policy pins
    TTL,             \* CHALLENGE_TTL_MS and MAX_WINDOW_MS in ticks
    Skew,            \* the tolerated minute, in ticks
    Drifts,          \* errors the station's wall clock may be set to, in ticks
    MaxMain, MaxTime,   \* bounds of main's history and of the clock
    MaxMoves,        \* bound of the changes on GitHub
    None             \* model value for "none"

Commits == 0..MaxMain

ASSUME AuthorizationAssumption ==
    /\ Presents \in [Challenges -> Candidates] /\ Moving \subseteq Candidates
    /\ Reviewed \subseteq Commits /\ DOMAIN ReleaseOf = Commits
    /\ TTL \in Nat \ {0} /\ Skew \in Nat
    /\ MaxMain \in Nat /\ MaxTime \in Nat /\ Drifts \subseteq Int /\ MaxMoves \in Nat

VARIABLES
    github,   \* control repository and candidate repository
    run,      \* the hosted runs
    attested, \* subjects GitHub has attested, with the time of the signature
    chal,     \* the station's challenges
    ver,      \* the station's verifications
    clock,    \* true time; also the station's performance.now()
    drift     \* error of the station's wall clock (Date.now)

vars == <<github, run, attested, chal, ver, clock, drift>>

Wall == clock + drift

-----------------------------------------------------------------------------
(* GitHub.                                                                 *)

Moves(g) == github.moves < MaxMoves /\ github' = [g EXCEPT !.moves = @ + 1]
GithubOnly == UNCHANGED <<run, attested, chal, ver, clock, drift>>

MainAdvances ==
    /\ github.main < MaxMain
    /\ Moves([github EXCEPT !.main = @ + 1]) /\ GithubOnly

\* A push makes another commit the head of the pull request, or this one again.
HeadMoves(k) == Moves([github EXCEPT !.head[k] = ~@]) /\ GithubOnly

BaseMoves == Moves([github EXCEPT !.base = @ + 1]) /\ GithubOnly

\* A new run, or a new attempt of the same run: both start later than the last.
CiReruns(k) == Moves([github EXCEPT !.ci[k] = [n |-> @.n + 1, status |-> "queued"]]) /\ GithubOnly

\* The newest attempt goes on; its three prerequisite jobs may all succeed.
CiAdvances(k) ==
    /\ \/ /\ github.ci[k].status = "queued"
          /\ github' = [github EXCEPT !.ci[k].status = "in_progress"]
       \/ /\ github.ci[k].status = "in_progress"
          /\ \E status \in {"in_progress", "completed", "cancelled"} :
                github' = [github EXCEPT !.ci[k].status = status,
                                         !.passed = @ \cup {<<k, github.ci[k].n>>}]
       \/ /\ github.ci[k].status = "in_progress"
          /\ github' = [github EXCEPT !.ci[k].status = "completed"]
    /\ GithubOnly

-----------------------------------------------------------------------------
(* The hosted workflow: authorize, reader, attest-activation.              *)

HostedScript == <<"authorize", "resolve", "latest", "jobs", "reread", "resolveAgain",
                  "write", "attest", "upload">>
NextIn(script, s) == script[1 + CHOOSE i \in DOMAIN script : script[i] = s]

IdleRun == [stage |-> "idle", attempt |-> 0, sha |-> 0, exec |-> None, cand |-> None,
            seen |-> None, ci |-> 0, held |-> TRUE, issued |-> 0]

\* The inputs of a dispatch are whatever the operator typed: a challenge's
\* presentation, or one with another candidate in it.
Dispatch(r, c, k) ==
    /\ run[r].stage = "idle" /\ chal[c].status # "none"
    /\ run' = [run EXCEPT ![r] = [IdleRun EXCEPT !.stage = "authorize", !.attempt = 1,
                                     !.sha = github.main, !.exec = c, !.cand = k]]
    /\ UNCHANGED <<github, attested, chal, ver, clock, drift>>

\* A rerun keeps the commit and the inputs of its run.
RerunWorkflow(r) ==
    /\ run[r].stage \in {"completed", "failed"}
    /\ Moves(github)
    /\ run' = [run EXCEPT ![r] = [IdleRun EXCEPT !.stage = "authorize", !.attempt = run[r].attempt + 1,
                                     !.sha = run[r].sha, !.exec = run[r].exec, !.cand = run[r].cand]]
    /\ UNCHANGED <<attested, chal, ver, clock, drift>>

Hosted(r, s, change) ==
    /\ run[r].stage = s
    /\ run' = [run EXCEPT ![r] = [change EXCEPT !.stage = NextIn(HostedScript, s)]]
    /\ UNCHANGED <<github, attested, chal, ver, clock, drift>>

\* resolveCandidate: one open pull request to preview whose head is the
\* candidate.  The tree and the reviewed files are facts of the commit.
Resolved(k) == github.head[k]

\* latestAttempt: a queued or cancelled newest attempt is refused.
Usable(k) == github.ci[k].status \in {"in_progress", "completed"}

\* A run counts only if GitHub binds it to the pull request at the base read.
LatestAttempt(r) ==
    /\ Usable(run[r].cand)
    /\ github.base = run[r].seen.base

\* Mutant: the second look at the CI is not compared with the first.
RereadAnyAttempt(r) == LatestAttempt(r)

\* "Prevent a concurrent rerun/new workflow from making the just-read jobs stale."
SameAttempt(r) == LatestAttempt(r) /\ github.ci[run[r].cand].n = run[r].ci

\* authorize-local-collector.mjs: the commit must pin one release.
Authorize(r) == Hosted(r, "authorize", run[r]) /\ ReleaseOf[run[r].sha] # None

ResolveCandidate(r) ==
    /\ Hosted(r, "resolve", [run[r] EXCEPT !.seen = [base |-> github.base]])
    /\ Resolved(run[r].cand)

ReadLatest(r) ==
    /\ Hosted(r, "latest", [run[r] EXCEPT !.ci = github.ci[run[r].cand].n])
    /\ LatestAttempt(r)

\* readJobs, of the attempt chosen.  "held" is a history variable: was this
\* attempt still the newest, at the base read, when its jobs were read?
ReadJobs(r) ==
    /\ Hosted(r, "jobs", [run[r] EXCEPT
         !.held = github.ci[run[r].cand].n = run[r].ci /\ github.base = run[r].seen.base])
    /\ <<run[r].cand, run[r].ci>> \in github.passed

RereadLatest(r) == Hosted(r, "reread", run[r]) /\ SameAttempt(r)

ResolveAgain(r) ==
    /\ Hosted(r, "resolveAgain", run[r])
    /\ Resolved(run[r].cand) /\ github.base = run[r].seen.base

WriteManifest(r) == Hosted(r, "write", [run[r] EXCEPT !.issued = clock])

\* The window of a manifest ends a lifetime after it was issued.
Expires(m) == m.issued + TTL

\* emitLocalAuthorization: what the subject says.
ManifestOf(r) ==
    [exec |-> run[r].exec, cand |-> run[r].cand, base |-> run[r].seen.base, ci |-> run[r].ci,
     run |-> r, attempt |-> run[r].attempt, sha |-> run[r].sha,
     release |-> ReleaseOf[run[r].sha], issued |-> run[r].issued]

AttestActivation(r) ==
    /\ run[r].stage = "attest"
    /\ attested' = attested \cup {[manifest |-> ManifestOf(r), signed |-> clock]}
    /\ run' = [run EXCEPT ![r].stage = "upload"]
    /\ UNCHANGED <<github, chal, ver, clock, drift>>

UploadSubject(r) ==
    /\ run[r].stage = "upload"
    /\ run' = [run EXCEPT ![r].stage = "completed"]
    /\ UNCHANGED <<github, attested, chal, ver, clock, drift>>

\* A refusal, a failed request or the job's timeout fails the run.
HostedFails(r) ==
    /\ run[r].stage \notin {"idle", "completed", "failed"}
    /\ run' = [run EXCEPT ![r] = [IdleRun EXCEPT !.stage = "failed", !.attempt = run[r].attempt,
                                     !.sha = run[r].sha, !.exec = run[r].exec, !.cand = run[r].cand]]
    /\ UNCHANGED <<github, attested, chal, ver, clock, drift>>

-----------------------------------------------------------------------------
(* The station's challenge.                                                *)

\* Mutant: the end of the lifetime is stored as the creation.
CreateChallengeLate(c) ==
    /\ chal[c].status = "none"
    /\ chal' = [chal EXCEPT ![c] = [status |-> "usable", created |-> clock + TTL]]
    /\ UNCHANGED <<github, run, attested, ver, clock, drift>>

CreateChallenge(c) ==
    /\ chal[c].status = "none"
    /\ chal' = [chal EXCEPT ![c] = [status |-> "usable", created |-> clock]]
    /\ UNCHANGED <<github, run, attested, ver, clock, drift>>

Destroy(c) ==
    /\ chal[c].status = "usable"
    /\ chal' = [chal EXCEPT ![c].status = "destroyed"]
    /\ UNCHANGED <<github, run, attested, ver, clock, drift>>

\* Mutant: a challenge in use elsewhere is taken.
AssertUsableByAge(c) == clock - chal[c].created < TTL

\* Mutant: the age is left to the manifest's own expiry.
AssertUsableAnyAge(c) == chal[c].status = "usable"

\* assertUsable.  A challenge found too old becomes expired, which its age,
\* measured on the monotonic clock, would say at every later look too.
AssertUsable(c) == chal[c].status = "usable" /\ clock - chal[c].created < TTL

\* assertAuthorizationChallenge: execution, commitment, candidate and suite.
MatchesChallenge(c, m) == m.exec = c /\ m.cand = Presents[c]

-----------------------------------------------------------------------------
(* The station's verification.                                             *)

VerifyScript == <<"run", "branch", "runAgain", "gh", "rm",
                  "run2", "branch2", "runAgain2", "consume", "settle">>

IdleVer == [stage |-> "idle", chal |-> None, manifest |-> None, signed |-> 0,
            outcome |-> "none", atGh |-> None, at |-> 0]

\* Mutant: the abort is left to the race around the call.
FreshThoughAborted(v) ==
    LET m == ver[v].manifest
    IN  /\ AssertUsable(ver[v].chal) /\ MatchesChallenge(ver[v].chal, m)
        /\ Wall < Expires(m) /\ m.issued <= Wall + Skew

\* fresh(): not aborted, challenge usable and bound, inside the window.
Fresh(v) ==
    LET m == ver[v].manifest
    IN  /\ ver[v].outcome = "pending"
        /\ AssertUsable(ver[v].chal) /\ MatchesChallenge(ver[v].chal, m)
        /\ Wall < Expires(m) /\ m.issued <= Wall + Skew

\* Manifests an operator can come with: attested ones, and copies edited to
\* name another challenge or candidate.
Edited(m, c, k) == [m EXCEPT !.exec = c, !.cand = k]
Presentable ==
    LET genuine == {a.manifest : a \in attested}
    IN  genuine \cup {Edited(m, c, k) : m \in genuine, c \in Challenges, k \in Candidates}

\* The trust policy knows the control commit, and the station pins its release.
PoliciesAllow(m) == m.sha \in Reviewed /\ m.release = StationRelease

\* The snapshot, the two policies and the first fresh().
StartVerify(v, c, m) ==
    /\ ver[v].stage = "idle"
    /\ AssertUsable(c) /\ MatchesChallenge(c, m)
    /\ PoliciesAllow(m)
    /\ ver' = [ver EXCEPT ![v] = [IdleVer EXCEPT !.stage = "run", !.chal = c, !.manifest = m,
                                     !.outcome = "pending"]]
    /\ UNCHANGED <<github, run, attested, chal, clock, drift>>

Verify(v, s, change) ==
    /\ ver[v].stage = s
    /\ ver' = [ver EXCEPT ![v] = [change EXCEPT !.stage = NextIn(VerifyScript, s)]]
    /\ UNCHANGED <<github, run, attested, chal, clock, drift>>

\* checkRun: the run's latest attempt is the manifest's, and it succeeded.
RunCurrent(v) ==
    LET m == ver[v].manifest
    IN  run[m.run].attempt = m.attempt /\ run[m.run].stage = "completed"

\* /branches/main: protected, and its head is the commit of the manifest.
BranchCurrent(v) == github.main = ver[v].manifest.sha

\* readAuthorizationContext: the run, its attempt, workflow and jobs; the
\* branch; the run again.  fresh() before and after.
ReadRun(v, s)    == Verify(v, s, ver[v]) /\ Fresh(v) /\ RunCurrent(v)
ReadBranch(v, s) == Verify(v, s, ver[v]) /\ ver[v].outcome = "pending" /\ BranchCurrent(v)

ContextBefore(v) == ReadRun(v, "run") \/ ReadBranch(v, "branch") \/ ReadRun(v, "runAgain")

\* Mutant: the context is not read again after the attestation.
NoContextAfter(v) ==
    /\ ver[v].stage \in {"run2", "branch2", "runAgain2"} /\ Fresh(v)
    /\ Verify(v, ver[v].stage, ver[v])

ContextAfter(v) == ReadRun(v, "run2") \/ ReadBranch(v, "branch2") \/ ReadRun(v, "runAgain2")

\* checkTimestampWindow: signed inside the window, and not in the future.
TimestampsOk(signed, m) == signed <= Wall + Skew /\ m.issued <= signed /\ signed <= Expires(m)

\* Mutant: the digest of the subject is not compared.
AnySubject(m) == {a \in attested : a.manifest.run = m.run /\ a.manifest.attempt = m.attempt}

\* gh attestation verify and checkOutput: this subject, signed in this run.
SignaturesOf(m) == {a \in attested : a.manifest = m}

\* Also a history variable: what main and the run were at this moment.
GhVerify(v) ==
    LET m == ver[v].manifest
    IN  /\ ver[v].stage = "gh" /\ Fresh(v)
        /\ \E a \in SignaturesOf(m) :
              /\ TimestampsOk(a.signed, m)
              /\ Verify(v, "gh", [ver[v] EXCEPT !.signed = a.signed,
                   !.atGh = [main |-> github.main, attempt |-> run[m.run].attempt]])

\* The temporary directory goes before the last context read.
RemoveDirectory(v) == Verify(v, "rm", ver[v]) /\ Fresh(v)

\* The last check and the consumption: one turn of the event loop.
Consume(v) ==
    /\ ver[v].stage = "consume" /\ Fresh(v) /\ TimestampsOk(ver[v].signed, ver[v].manifest)
    /\ chal' = [chal EXCEPT ![ver[v].chal].status = "consumed"]
    /\ ver' = [ver EXCEPT ![v].stage = "settle", ![v].at = clock]
    /\ UNCHANGED <<github, run, attested, clock, drift>>

\* The receipt wins the race with the abort, or does not.
Settle(v) ==
    /\ ver[v].stage = "settle"
    /\ ver' = [ver EXCEPT ![v].stage = "over",
                          ![v].outcome = IF @ = "pending" THEN "receipt" ELSE @]
    /\ UNCHANGED <<github, run, attested, chal, clock, drift>>

\* The caller's signal or the 90 s deadline: the caller is refused at once,
\* the work behind it goes on until its next check.
AbortVerify(v) ==
    /\ ver[v].outcome = "pending"
    /\ ver' = [ver EXCEPT ![v].outcome = "refused"]
    /\ UNCHANGED <<github, run, attested, chal, clock, drift>>

\* A check that fails, a request or process that fails or times out.
VerifyRefused(v) ==
    /\ ver[v].stage \notin {"idle", "settle", "over"}
    /\ ver' = [ver EXCEPT ![v] = [IdleVer EXCEPT !.stage = "over", !.outcome = "refused"]]
    /\ UNCHANGED <<github, run, attested, chal, clock, drift>>

-----------------------------------------------------------------------------
Tick == clock < MaxTime /\ clock' = clock + 1 /\ UNCHANGED <<github, run, attested, chal, ver, drift>>

SetWallClock(d) ==
    /\ drift = 0 /\ drift' = d
    /\ UNCHANGED <<github, run, attested, chal, ver, clock>>

Init ==
    /\ github = [main |-> 0, base |-> 0, head |-> [k \in Candidates |-> TRUE],
                 ci |-> [k \in Candidates |-> [n |-> 1, status |-> "completed"]],
                 passed |-> {<<k, 1>> : k \in Candidates}, moves |-> 0]
    /\ run = [r \in HostedRuns |-> IdleRun]
    /\ attested = {}
    /\ chal = [c \in Challenges |-> [status |-> "none", created |-> 0]]
    /\ ver = [v \in Verifications |-> IdleVer]
    /\ clock = 0
    /\ drift = 0

Next ==
    \/ MainAdvances \/ BaseMoves
    \/ \E k \in Moving : HeadMoves(k) \/ CiReruns(k) \/ CiAdvances(k)
    \/ \E r \in HostedRuns :
         \/ \E c \in Challenges, k \in Candidates : Dispatch(r, c, k)
         \/ Authorize(r) \/ ResolveCandidate(r) \/ ReadLatest(r) \/ ReadJobs(r)
         \/ RereadLatest(r) \/ ResolveAgain(r) \/ WriteManifest(r) \/ AttestActivation(r) \/ UploadSubject(r)
         \/ HostedFails(r) \/ RerunWorkflow(r)
    \/ \E c \in Challenges : CreateChallenge(c) \/ Destroy(c)
    \/ \E v \in Verifications :
         \/ \E c \in Challenges, m \in Presentable : StartVerify(v, c, m)
         \/ ContextBefore(v) \/ GhVerify(v) \/ RemoveDirectory(v) \/ ContextAfter(v)
         \/ Consume(v) \/ Settle(v) \/ AbortVerify(v) \/ VerifyRefused(v)
    \/ Tick \/ \E d \in Drifts : SetWallClock(d)

Spec == Init /\ [][Next]_vars

-----------------------------------------------------------------------------
(* Properties.                                                             *)

\* The variables have their types.
TypeOK ==
    /\ github.main \in Commits /\ github.base \in 0..MaxMoves /\ github.moves \in 0..MaxMoves
    /\ github.head \in [Candidates -> BOOLEAN]
    /\ \A k \in Candidates : github.ci[k].n \in 1..(MaxMoves + 1)
    /\ \A c \in Challenges : chal[c].status \in {"none", "usable", "consumed", "destroyed"}
    /\ \A c \in Challenges : chal[c].created \in 0..clock
    /\ \A v \in Verifications : ver[v].outcome \in {"none", "pending", "refused", "receipt"}
    /\ clock \in 0..MaxTime /\ drift \in Drifts \cup {0}

Receipts(v) == ver[v].outcome = "receipt"

\* Two calls that verify the same challenge at once, with the same or with
\* different genuine manifests, do not both return a receipt.
OneReceiptPerChallenge ==
    \A v, w \in Verifications :
        (Receipts(v) /\ Receipts(w) /\ ver[v].chal = ver[w].chal) => v = w

\* At the moment the attestation was verified, main was the manifest's commit
\* and the run had not been started again: the context is read on both sides
\* of the verification, so neither can have moved in between unseen.
ReceiptAtCurrentControl ==
    \A v \in Verifications : Receipts(v) =>
        ver[v].atGh = [main |-> ver[v].manifest.sha, attempt |-> ver[v].manifest.attempt]

\* A receipt is given less than one lifetime after its manifest was issued,
\* in true time, whatever the station's wall clock was set to meanwhile.
ReceiptIsYoung ==
    \A v \in Verifications : Receipts(v) => ver[v].at - ver[v].manifest.issued < TTL

\* A receipt rests on a subject a hosted run composed for this challenge and
\* for the candidate the challenge was made for, under the station's release:
\* neither a mistyped dispatch nor an edited manifest gets there.
ReceiptForOwnDispatch ==
    \A v \in Verifications : Receipts(v) =>
        \E a \in attested :
            /\ a.manifest = ver[v].manifest
            /\ a.manifest.exec = ver[v].chal /\ a.manifest.cand = Presents[ver[v].chal]
            /\ a.manifest.release = StationRelease

\* The CI attempt a manifest names was still the newest one of the candidate,
\* at the base the manifest names, when its jobs were read and had succeeded:
\* a rerun or a move of the base between the reads is refused.
PrerequisitesHeldTogether ==
    \A r \in HostedRuns : run[r].stage \in {"write", "attest", "upload", "completed"} => run[r].held

\* Only a call its caller still waits for consumes a challenge: an abort or
\* the deadline that refuses the caller also stops the work behind it.
AbortedCallNeverConsumes ==
    [][\A c \in Challenges : (chal[c].status = "usable" /\ chal'[c].status = "consumed") =>
          \E v \in Verifications : ver[v].chal = c /\ ver[v].outcome = "pending"
                                     /\ ver[v].stage # "settle" /\ ver'[v].stage = "settle"]_vars

=============================================================================
