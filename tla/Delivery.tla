------------------------------ MODULE Delivery ------------------------------
(***************************************************************************)
(* The delivery protocol of one top-level task: how a finished feature     *)
(* branch becomes an immutable artifact, is verified, is authorised for    *)
(* integration or sent back for rework (internal/orchestrator:             *)
(* delivery_state.go, host_rework.go, delivery_gate_workspace.go,          *)
(* test_execution.go, delivery_policy.go, branch_acceptance.go, and the    *)
(* task operations that touch the same rows).                              *)
(*                                                                         *)
(* The actors are the single tick goroutine of the orchestrator, clients   *)
(* of the HTTP API that act on what they saw some time ago and may send a  *)
(* request several times, operators, and whoever else moves the Git refs.  *)
(* Every operation on the database is one transaction, hence one action;   *)
(* the preliminary gate runs outside any transaction, hence two.           *)
(* MergeDispatch extends this module with the merging state.               *)
(***************************************************************************)
EXTENDS TaskStates, CommitGraph

CONSTANTS
  TaskKind,            \* "parent" (with subtasks) or "quickfix"
  VerificationPolicy,  \* "external_ack" or "local_automated"
  IntegrationPolicy,   \* "prepare_branch" or "auto_merge"
  Actors,              \* identities of API clients
  MaxCommits,          \* bounds of the checked instance: commits in Git,
  MaxRounds,           \* entries into testing_ready,
  MaxRequests,         \* requests clients compose,
  MaxComments,         \* comments,
  MaxRestarts,         \* times an operator resumes or retries the task,
  MaxCrashes           \* restarts of the orchestrator

ASSUME KindAssumption == TaskKind \in {"parent", "quickfix"}
ASSUME PolicyAssumption ==
  /\ VerificationPolicy \in {"external_ack", "local_automated"}
  /\ IntegrationPolicy \in {"prepare_branch", "auto_merge"}
ASSUME BoundAssumption ==
  /\ MaxCommits \in Nat /\ MaxRounds \in Nat /\ MaxRequests \in Nat
  /\ MaxComments \in Nat /\ MaxRestarts \in Nat /\ MaxCrashes \in Nat

VARIABLES
  task,            \* the task row: status, state version, recorded base commit
  work,            \* the implementation work behind in_progress
  git,             \* the bare repository: history, target ref, feature ref
  acceptance,      \* branch acceptance records and the host submission on top
  gate,            \* candidate in the running gate; outcome of the last gate
  artifacts,       \* delivery artifacts, by artifact version
  verifications,   \* verification records
  authorizations,  \* integration authorizations, each with its merge intent
  reworks,         \* delivery rework records
  sessions,        \* host rework sessions, oldest first
  attempt,         \* the merger attempt row without completed_at, or 0
  requests,        \* requests clients have composed
  rowWrites,       \* history variable: number of writes to the task row
  used             \* how much of each bound is used up

records == <<verifications, authorizations, reworks>>
vars == <<task, work, git, acceptance, gate, artifacts, records, sessions,
          attempt, requests, rowWrites, used>>

-----------------------------------------------------------------------------
(* Types *)

Commit == Nat \ {0}
CommitOrNone == Commit \union {NoCommit}

\* A base is resolved again by name: the target branch, or a commit id.
BaseRef == {"target", "sha"}

Candidate == [commit : Commit, base : Commit, baseRef : BaseRef]
NoCandidate == [commit |-> NoCommit, base |-> NoCommit, baseRef |-> "none"]

\* An artifact is current until it is invalidated.
Artifact == [commit : Commit, base : Commit, baseRef : BaseRef,
             state : {"current", "invalidated"}]

\* Idempotency keys: a client's, or the one a policy derives of an artifact.
Key == {"client", "local", "auto"} \X (Nat \ {0})

Verification == [artifact : Nat \ {0}, commit : Commit,
                 result : {"passed", "failed"}, key : Key]
Authorization == [artifact : Nat \ {0}, commit : Commit, base : Commit,
                  baseRef : BaseRef, verification : Key, key : Key]
ReworkMode == {"orchestrated", "host_direct"}
Rework == [artifact : Nat \ {0}, commit : Commit, mode : ReworkMode,
           key : Key]

SessionState == {"active", "submitted", "orchestrated", "cancelled"}
Session == [artifact : Nat \ {0}, prior : Commit, owner : Actors,
            state : SessionState, replacement : CommitOrNone]

RequestOp == {"verify", "fail", "rework", "integrate", "submit", "abandon"}
Request == [op : RequestOp, mode : ReworkMode \union {"none"},
            actor : Actors, version : Nat, artifact : Nat,
            commit : CommitOrNone, session : Nat, observed : Nat]

GateOutcome == {"none", "passed", "code_failure", "runner_failure"}
WorkState == {"none", "staged", "running"}

TaskRow == [status : TaskStatus, version : Nat \ {0}, base : CommitOrNone]
Work == [state : WorkState, base : CommitOrNone]
Git == [history : Seq(SUBSET Commit), target : Commit, branch : CommitOrNone]
Acceptance == [heads : SUBSET Commit, head : CommitOrNone,
               base : CommitOrNone, baseRef : BaseRef,
               submitted : CommitOrNone]
Gate == [candidate : Candidate \union {NoCandidate}, outcome : GateOutcome]
Used == [rounds : Nat, comments : Nat, restarts : Nat, crashes : Nat]

TypeOK ==
  /\ task \in TaskRow
  /\ work \in Work
  /\ git \in Git
  /\ acceptance \in Acceptance
  /\ gate \in Gate
  /\ artifacts \in Seq(Artifact)
  /\ verifications \subseteq Verification
  /\ authorizations \subseteq Authorization
  /\ reworks \subseteq Rework
  /\ sessions \in Seq(Session)
  /\ attempt \in Nat
  /\ requests \in Seq(Request)
  /\ rowWrites \in Nat
  /\ used \in Used

-----------------------------------------------------------------------------
(* The rows a handler looks up *)

CurrentArtifacts == { a \in DOMAIN artifacts : artifacts[a].state = "current" }
IsCurrent(a) == a \in CurrentArtifacts

PassingVerifications(a) ==
  { v \in verifications : v.artifact = a /\ v.result = "passed" }

ActiveSessions == { s \in DOMAIN sessions : sessions[s].state = "active" }

\* casTaskTransition of a task loaded in the same transaction.
MoveTo(status) ==
  /\ task' = [task EXCEPT !.status = status, !.version = @ + 1]
  /\ rowWrites' = rowWrites + 1

Invalidate(a) == artifacts' = [artifacts EXCEPT ![a].state = "invalidated"]

NoWork == [state |-> "none", base |-> NoCommit]

EntersTestingReady ==
  /\ used.rounds < MaxRounds
  /\ used' = [used EXCEPT !.rounds = @ + 1]

\* deliveryArtifactDrift: both refs are resolved again.  A base recorded as a
\* commit id resolves to itself.  A missing feature ref is an error.
ResolvedBase(art) == IF art.baseRef = "target" THEN git.target ELSE art.base
CommitDrift(art) == git.branch # art.commit
TargetDrift(art) == ResolvedBase(art) # art.base
Drifted(art) == CommitDrift(art) \/ TargetDrift(art)

-----------------------------------------------------------------------------
(* Implementation work: what happens while the task is in_progress.        *)
(* work.state says whether anything is outstanding: "staged" is a repair   *)
(* the scheduler has not started, "running" is a worker on the branch.     *)

StartRework ==
  /\ task.status = "in_progress"
  /\ work.state = "staged"
  /\ git.branch # NoCommit
  /\ work' = [state |-> "running", base |-> git.branch]
  /\ UNCHANGED <<task, git, acceptance, gate, artifacts, records, sessions,
                 attempt, requests, rowWrites, used>>

\* The last subtask of a parent completes; the parent moves on a later tick.
FinishSubtasks ==
  /\ TaskKind = "parent"
  /\ task.status = "in_progress"
  /\ work.state = "running"
  /\ work' = NoWork
  /\ UNCHANGED <<task, git, acceptance, gate, artifacts, records, sessions,
                 attempt, requests, rowWrites, used>>

\* The worker of a quick fix completes with commits: its branch is accepted
\* against the commit it was spawned from and the task moves in the same step.
FinishQuickFix ==
  /\ TaskKind = "quickfix"
  /\ task.status = "in_progress"
  /\ work.state = "running"
  /\ git.branch \notin {NoCommit, work.base}
  /\ EntersTestingReady
  /\ acceptance' = [heads     |-> acceptance.heads \union {git.branch},
                    head      |-> git.branch,
                    base      |-> work.base,
                    baseRef   |-> "sha",
                    submitted |-> NoCommit]
  /\ work' = NoWork
  /\ MoveTo("testing_ready")
  /\ UNCHANGED <<git, gate, artifacts, records, sessions, attempt, requests>>

\* A failed subtask, or a worker that is rejected or out of retries.
FailWork ==
  /\ task.status = "in_progress"
  /\ work.state = "running"
  /\ work' = NoWork
  /\ MoveTo("failed")
  /\ UNCHANGED <<git, acceptance, gate, artifacts, records, sessions, attempt,
                 requests, used>>

\* A feature branch that still is at the commit it was created from.
EmptyFeature == TaskKind = "parent" /\ git.branch = task.base

\* checkFeatureCompletion and prepareQuickFixDelivery: nothing is outstanding.
PrepareDelivery ==
  /\ task.status = "in_progress"
  /\ work.state = "none"
  /\ ~EmptyFeature
  /\ EntersTestingReady
  /\ MoveTo("testing_ready")
  /\ UNCHANGED <<work, git, acceptance, gate, artifacts, records, sessions,
                 attempt, requests>>

FailEmptyFeature ==
  /\ task.status = "in_progress"
  /\ work.state = "none"
  /\ EmptyFeature
  /\ MoveTo("failed")
  /\ UNCHANGED <<work, git, acceptance, gate, artifacts, records, sessions,
                 attempt, requests, used>>

\* evaluateConstraintGate: a parent whose branch keeps regressing a constraint
\* fails.  Until its retries run out, the gate just keeps PrepareDelivery off.
FailOnConstraints ==
  /\ TaskKind = "parent"
  /\ task.status = "in_progress"
  /\ work.state = "none"
  /\ ~EmptyFeature
  /\ MoveTo("failed")
  /\ UNCHANGED <<work, git, acceptance, gate, artifacts, records, sessions,
                 attempt, requests, used>>

\* A quick fix whose branch regresses a constraint is parked.
PauseOnConstraints ==
  /\ TaskKind = "quickfix"
  /\ task.status = "in_progress"
  /\ work.state = "none"
  /\ MoveTo("paused")
  /\ UNCHANGED <<work, git, acceptance, gate, artifacts, records, sessions,
                 attempt, requests, used>>

-----------------------------------------------------------------------------
(* The preliminary gate of testing_ready.  It runs on a detached checkout  *)
(* of the accepted commit, outside any lock or transaction.                *)

GateIdle == gate.candidate = NoCandidate

\* ensureParentDeliveryAcceptance: a head no record covers is accepted against
\* the base commit recorded when the feature branch was created.
EnsuredAcceptance ==
  IF git.branch \in acceptance.heads
  THEN acceptance
  ELSE [heads     |-> acceptance.heads \union {git.branch},
        head      |-> git.branch,
        base      |-> task.base,
        baseRef   |-> "target",
        submitted |-> NoCommit]

\* acceptedDeliveryCandidate: the latest acceptance, with the commit of a host
\* submission that is not older.
CandidateOf(accepted) ==
  [commit  |-> IF accepted.submitted # NoCommit THEN accepted.submitted
               ELSE accepted.head,
   base    |-> accepted.base,
   baseRef |-> accepted.baseRef]

\* Mutant: the base is not checked.
CandidateIsBranch(candidate) == candidate.commit = git.branch

CandidateMatchesGit(candidate) ==
  /\ candidate.commit = git.branch
  /\ IsAncestor(git.history, candidate.base, candidate.commit)

BeginGate ==
  /\ GateIdle
  /\ task.status = "testing_ready"
  /\ git.branch # NoCommit
  /\ CandidateMatchesGit(CandidateOf(EnsuredAcceptance))
  /\ acceptance' = EnsuredAcceptance
  /\ gate' = [gate EXCEPT !.candidate = CandidateOf(EnsuredAcceptance)]
  /\ UNCHANGED <<task, work, git, artifacts, records, sessions, attempt,
                 requests, rowWrites, used>>

\* Mutant: a mismatch is an error, which the next tick will meet again.
MismatchIsAnError == UNCHANGED vars

\* The accepted candidate is not what the branch names: a configuration
\* failure, recorded at once.
BeginGateMismatch ==
  /\ GateIdle
  /\ task.status = "testing_ready"
  /\ git.branch # NoCommit
  /\ ~CandidateMatchesGit(CandidateOf(EnsuredAcceptance))
  /\ acceptance' = EnsuredAcceptance
  /\ gate' = [gate EXCEPT !.outcome = "runner_failure"]
  /\ MoveTo("paused")
  /\ UNCHANGED <<work, git, artifacts, records, sessions, attempt, requests,
                 used>>

\* FreezeDeliveryArtifact: the unique index on current artifacts makes the
\* insert fail, and the transaction roll back, while another one is current.
FreezeDeliveryArtifact ==
  /\ ~GateIdle
  /\ task.status = "testing_ready"
  /\ CurrentArtifacts = {}
  /\ artifacts' = Append(artifacts, [commit  |-> gate.candidate.commit,
                                     base    |-> gate.candidate.base,
                                     baseRef |-> gate.candidate.baseRef,
                                     state |-> "current"])
  /\ gate' = [candidate |-> NoCandidate, outcome |-> "passed"]
  /\ MoveTo("verification_ready")
  /\ UNCHANGED <<work, git, acceptance, records, sessions, attempt, requests,
                 used>>

\* Under external_ack as well, where the gate runs no command: a checkout that is
\* not the candidate any more at the second look counts as a fault of the code.
GateFailures == {"code_failure", "runner_failure"}

FailureTarget(outcome) ==
  IF outcome = "code_failure" THEN "in_progress" ELSE "paused"

RecordPreliminaryGateFailure ==
  /\ ~GateIdle
  /\ task.status = "testing_ready"
  /\ \E outcome \in GateFailures :
       /\ gate' = [candidate |-> NoCandidate, outcome |-> outcome]
       /\ MoveTo(FailureTarget(outcome))
  /\ UNCHANGED <<work, git, acceptance, artifacts, records, sessions, attempt,
                 requests, used>>

\* The result cannot be recorded: the task has moved on, or freezing conflicts
\* with an artifact that is still current.
DiscardGateResult ==
  /\ ~GateIdle
  /\ task.status # "testing_ready" \/ CurrentArtifacts # {}
  /\ gate' = [gate EXCEPT !.candidate = NoCandidate]
  /\ UNCHANGED <<task, work, git, acceptance, artifacts, records, sessions,
                 attempt, requests, rowWrites, used>>

-----------------------------------------------------------------------------
(* The delivery operations, shared by clients and by the tick's policies.  *)
(* Each looks for its idempotency key first and, if a record has it,       *)
(* returns that record without any effect.                                 *)

Keys(recs) == { r.key : r \in recs }

VerifyPassed(a, key) ==
  /\ task.status = "verification_ready"
  /\ IsCurrent(a)
  /\ key \notin Keys(verifications)
  /\ verifications' = verifications \union
       {[artifact |-> a, commit |-> artifacts[a].commit,
         result |-> "passed", key |-> key]}
  /\ MoveTo("integration_ready")
  /\ UNCHANGED <<work, git, acceptance, gate, artifacts, authorizations,
                 reworks, sessions, attempt, requests, used>>

\* Mutant: a session starts beside an open merger attempt.
StartHostReworkAnyway(a, actor) ==
  /\ ActiveSessions = {}
  /\ sessions' = Append(sessions, [artifact |-> a,
                                   prior |-> artifacts[a].commit,
                                   owner |-> actor, state |-> "active",
                                   replacement |-> NoCommit])
  /\ UNCHANGED work

\* createHostReworkSession and stageOrchestratedDeliveryRework
StartHostRework(a, actor) ==
  /\ attempt = 0
  /\ ActiveSessions = {}
  /\ sessions' = Append(sessions, [artifact |-> a,
                                   prior |-> artifacts[a].commit,
                                   owner |-> actor, state |-> "active",
                                   replacement |-> NoCommit])
  /\ UNCHANGED work

StageRework ==
  /\ work' = [state |-> "staged", base |-> NoCommit]
  /\ UNCHANGED sessions

\* Mutant: the artifact that is sent back stays current.
SendBackCurrent(a, mode, actor, key) ==
  /\ reworks' = reworks \union {[artifact |-> a,
                                 commit |-> artifacts[a].commit,
                                 mode |-> mode, key |-> key]}
  /\ \/ mode = "host_direct" /\ StartHostRework(a, actor)
                             /\ MoveTo("host_rework")
     \/ mode = "orchestrated" /\ StageRework /\ MoveTo("in_progress")
  /\ UNCHANGED <<git, acceptance, gate, artifacts, authorizations, attempt,
                 requests, used>>

\* The part VerifyDelivery (failed) and RequestDeliveryRework have in common.
SendBack(a, mode, actor, key) ==
  /\ reworks' = reworks \union {[artifact |-> a,
                                 commit |-> artifacts[a].commit,
                                 mode |-> mode, key |-> key]}
  /\ Invalidate(a)
  /\ \/ mode = "host_direct" /\ StartHostRework(a, actor)
                             /\ MoveTo("host_rework")
     \/ mode = "orchestrated" /\ StageRework /\ MoveTo("in_progress")
  /\ UNCHANGED <<git, acceptance, gate, authorizations, attempt, requests,
                 used>>

VerifyFailed(a, mode, actor, key) ==
  /\ task.status = "verification_ready"
  /\ IsCurrent(a)
  /\ key \notin Keys(verifications)
  /\ verifications' = verifications \union
       {[artifact |-> a, commit |-> artifacts[a].commit,
         result |-> "failed", key |-> key]}
  /\ SendBack(a, mode, actor, key)

RequestDeliveryRework(a, mode, actor, key) ==
  /\ task.status \in {"verification_ready", "integration_ready"}
  /\ IsCurrent(a)
  /\ key \notin Keys(reworks)
  /\ SendBack(a, mode, actor, key)
  /\ UNCHANGED verifications

\* AuthorizeIntegration commits an invalidation when a ref has drifted, and an
\* authorization with its merge intent otherwise.
CanAuthorize(a, key) ==
  /\ task.status = "integration_ready"
  /\ IsCurrent(a)
  /\ key \notin Keys(authorizations)
  /\ PassingVerifications(a) # {}
  /\ git.branch # NoCommit

AuthorizeIntegration(a, key) ==
  /\ CanAuthorize(a, key)
  /\ ~Drifted(artifacts[a])
  /\ \E v \in PassingVerifications(a) :
       authorizations' = authorizations \union
         {[artifact |-> a, commit |-> artifacts[a].commit,
           base |-> artifacts[a].base, baseRef |-> artifacts[a].baseRef,
           verification |-> v.key, key |-> key]}
  /\ MoveTo("merging")
  /\ UNCHANGED <<work, git, acceptance, gate, artifacts, verifications,
                 reworks, sessions, attempt, requests, used>>

RejectDriftedArtifact(a, key) ==
  /\ CanAuthorize(a, key)
  /\ Drifted(artifacts[a])
  /\ Invalidate(a)
  /\ MoveTo("in_progress")
  /\ UNCHANGED <<work, git, acceptance, gate, records, sessions, attempt,
                 requests, used>>

ResolveSession(s, state, replacement) ==
  sessions' = [sessions EXCEPT ![s].state = state,
                               ![s].replacement = replacement]

OwnsSession(s, actor) ==
  /\ task.status = "host_rework"
  /\ s \in ActiveSessions
  /\ sessions[s].owner = actor

\* Mutant: any new head of the branch is accepted.
SubmitAnyHead(s, actor, commit) ==
  /\ OwnsSession(s, actor)
  /\ commit = git.branch
  /\ commit \notin {NoCommit, sessions[s].prior}
  /\ EntersTestingReady
  /\ ResolveSession(s, "submitted", commit)
  /\ acceptance' = [acceptance EXCEPT !.submitted = commit]
  /\ MoveTo("testing_ready")
  /\ UNCHANGED <<work, git, gate, artifacts, records, attempt, requests>>

\* The submitted commit must be the branch, and a proper descendant of the
\* artifact the session repairs.
SubmitHostRework(s, actor, commit) ==
  /\ OwnsSession(s, actor)
  /\ commit = git.branch
  /\ commit \notin {NoCommit, sessions[s].prior}
  /\ IsAncestor(git.history, sessions[s].prior, commit)
  /\ EntersTestingReady
  /\ ResolveSession(s, "submitted", commit)
  /\ acceptance' = [acceptance EXCEPT !.submitted = commit]
  /\ MoveTo("testing_ready")
  /\ UNCHANGED <<work, git, gate, artifacts, records, attempt, requests>>

AbandonHostRework(s, actor) ==
  /\ OwnsSession(s, actor)
  /\ ResolveSession(s, "orchestrated", NoCommit)
  /\ MoveTo("in_progress")
  /\ UNCHANGED <<work, git, acceptance, gate, artifacts, records, attempt,
                 requests, used>>

-----------------------------------------------------------------------------
(* The tick's delivery policies act on the state they just read.           *)

LocalKey(a) == <<"local", a>>
AutoKey(a) == <<"auto", a>>

ProcessVerificationReady ==
  /\ VerificationPolicy = "local_automated"
  /\ \E a \in CurrentArtifacts : VerifyPassed(a, LocalKey(a))

ProcessIntegrationReady ==
  /\ IntegrationPolicy = "auto_merge"
  /\ \E a \in CurrentArtifacts :
       \/ AuthorizeIntegration(a, AutoKey(a))
       \/ RejectDriftedArtifact(a, AutoKey(a))

-----------------------------------------------------------------------------
(* API clients.  A request is composed from one read of the task and is    *)
(* delivered later, any number of times or never.                          *)

OpsOffered ==
  CASE task.status = "verification_ready" -> {"verify", "fail", "rework"}
    [] task.status = "integration_ready"  -> {"integrate", "rework"}
    [] task.status = "host_rework"        -> {"submit", "abandon"}
    [] OTHER                              -> {}

ModesOf(op) == IF op \in {"fail", "rework"} THEN ReworkMode ELSE {"none"}

ArtifactSeen == IF CurrentArtifacts = {} THEN 0
                ELSE CHOOSE a \in CurrentArtifacts : TRUE

\* The commit a request names: the artifact's, or the host's repair.
CommitSeen(op) ==
  CASE op = "submit"     -> git.branch
    [] ArtifactSeen # 0  -> artifacts[ArtifactSeen].commit
    [] OTHER             -> NoCommit

ComposeRequest ==
  /\ Len(requests) < MaxRequests
  /\ \E op \in OpsOffered, actor \in Actors : \E mode \in ModesOf(op) :
       requests' = Append(requests,
                     [op       |-> op,
                      mode     |-> mode,
                      actor    |-> actor,
                      version  |-> task.version,
                      artifact |-> ArtifactSeen,
                      commit   |-> CommitSeen(op),
                      session  |-> Len(sessions),
                      observed |-> rowWrites])
  /\ UNCHANGED <<task, work, git, acceptance, gate, artifacts, records,
                 sessions, attempt, rowWrites, used>>

ClientKey(i) == <<"client", i>>

\* Mutant: a request composed on an earlier version is accepted.
MatchesOlderTask(r) == r.version <= task.version

\* The freshness checks every delivery operation makes.
MatchesTask(r) == r.version = task.version
MatchesArtifact(r) ==
  r.artifact \in CurrentArtifacts /\ r.commit = artifacts[r.artifact].commit

DeliverVerify(i) ==
  /\ requests[i].op = "verify"
  /\ MatchesTask(requests[i])
  /\ MatchesArtifact(requests[i])
  /\ VerifyPassed(requests[i].artifact, ClientKey(i))

DeliverFail(i) ==
  /\ requests[i].op = "fail"
  /\ MatchesTask(requests[i])
  /\ MatchesArtifact(requests[i])
  /\ VerifyFailed(requests[i].artifact, requests[i].mode, requests[i].actor,
                  ClientKey(i))

DeliverRework(i) ==
  /\ requests[i].op = "rework"
  /\ MatchesTask(requests[i])
  /\ MatchesArtifact(requests[i])
  /\ RequestDeliveryRework(requests[i].artifact, requests[i].mode,
                           requests[i].actor, ClientKey(i))

DeliverIntegrate(i) ==
  /\ requests[i].op = "integrate"
  /\ MatchesTask(requests[i])
  /\ MatchesArtifact(requests[i])
  /\ \/ AuthorizeIntegration(requests[i].artifact, ClientKey(i))
     \/ RejectDriftedArtifact(requests[i].artifact, ClientKey(i))

DeliverSubmit(i) ==
  /\ requests[i].op = "submit"
  /\ MatchesTask(requests[i])
  /\ SubmitHostRework(requests[i].session, requests[i].actor,
                      requests[i].commit)

DeliverAbandon(i) ==
  /\ requests[i].op = "abandon"
  /\ MatchesTask(requests[i])
  /\ AbandonHostRework(requests[i].session, requests[i].actor)

DeliverRequest ==
  \E i \in DOMAIN requests :
    \/ DeliverVerify(i) \/ DeliverFail(i) \/ DeliverRework(i)
    \/ DeliverIntegrate(i) \/ DeliverSubmit(i) \/ DeliverAbandon(i)

-----------------------------------------------------------------------------
(* Operators                                                               *)

\* Mutant: merging tasks may be archived.
ArchiveAnything == TaskStatus \ Terminal

ArchiveAllowed ==
  {"backlog", "planning", "needs_clarification", "plan_review",
   "test_review", "testing_ready", "verification_ready", "host_rework",
   "integration_ready", "paused", "failed", "rejected"}

\* handleArchiveTask cancels the task with what its status says it owns: the
\* current artifact of a parked delivery, or the active host session.
ArchiveParkedDelivery ==
  /\ task.status \in {"verification_ready", "integration_ready"}
  /\ \E a \in CurrentArtifacts : Invalidate(a)
  /\ UNCHANGED sessions

ArchiveHostRework ==
  /\ task.status = "host_rework"
  /\ \E s \in ActiveSessions : ResolveSession(s, "cancelled", NoCommit)
  /\ UNCHANGED artifacts

ArchiveOther ==
  /\ task.status \notin {"verification_ready", "integration_ready",
                         "host_rework"}
  /\ UNCHANGED <<artifacts, sessions>>

Archive ==
  /\ task.status \in ArchiveAllowed
  /\ work.state # "running"
  /\ ArchiveParkedDelivery \/ ArchiveHostRework \/ ArchiveOther
  /\ MoveTo("cancelled")
  /\ UNCHANGED <<work, git, acceptance, gate, records, attempt, requests,
                 used>>

\* A comment moves the state version in any status.
CommentTask ==
  /\ used.comments < MaxComments
  /\ used' = [used EXCEPT !.comments = @ + 1]
  /\ MoveTo(task.status)
  /\ UNCHANGED <<work, git, acceptance, gate, artifacts, records, sessions,
                 attempt, requests>>

\* Mutant: any task whose latest gate failed in the runner is retried.
RetryAnyGate ==
  /\ gate.outcome = "runner_failure"
  /\ EntersTestingReady
  /\ MoveTo("testing_ready")
  /\ UNCHANGED <<work, git, acceptance, gate, artifacts, records, sessions,
                 attempt, requests>>

\* RetryTask of a paused task whose latest gate failed in the runner.
RetryPausedPreliminaryGate ==
  /\ task.status = "paused"
  /\ gate.outcome = "runner_failure"
  /\ EntersTestingReady
  /\ MoveTo("testing_ready")
  /\ UNCHANGED <<work, git, acceptance, gate, artifacts, records, sessions,
                 attempt, requests>>

Restarts ==
  /\ used.restarts < MaxRestarts
  /\ used' = [used EXCEPT !.restarts = @ + 1]

\* ResumeTask of a task that was not paused by PauseTask.
ResumeTask ==
  /\ task.status = "paused"
  /\ Restarts
  /\ MoveTo("backlog")
  /\ UNCHANGED <<work, git, acceptance, gate, artifacts, records, sessions,
                 attempt, requests>>

\* RetryTask of a failed task without children removes the feature branch and
\* starts over from backlog.  Artifacts are left alone.
RetryTask ==
  /\ TaskKind = "quickfix"
  /\ task.status = "failed"
  /\ Restarts
  /\ git' = [git EXCEPT !.branch = NoCommit]
  /\ task' = [task EXCEPT !.status = "backlog", !.version = @ + 1,
                          !.base = NoCommit]
  /\ rowWrites' = rowWrites + 1
  /\ UNCHANGED <<work, acceptance, gate, artifacts, records, sessions,
                 attempt, requests>>

\* processQuickFix: the feature branch is created when the task has none, and
\* a worker is spawned on it; a failed spawn leaves the task in_progress.
ProcessQuickFix ==
  /\ TaskKind = "quickfix"
  /\ task.status = "backlog"
  /\ LET created == task.base = NoCommit
         branch == IF created THEN git.target ELSE git.branch
     IN /\ git' = [git EXCEPT !.branch = branch]
        /\ task' = [task EXCEPT !.status = "in_progress", !.version = @ + 1,
                                !.base = IF created THEN branch ELSE @]
        /\ \/ work' = NoWork
           \/ branch # NoCommit /\ work' = [state |-> "running",
                                            base |-> branch]
  /\ rowWrites' = rowWrites + 1
  /\ UNCHANGED <<acceptance, gate, artifacts, records, sessions, attempt,
                 requests, used>>

-----------------------------------------------------------------------------
(* The rest of the world                                                   *)

CanCommit == Len(git.history) < MaxCommits

\* A worker, a host actor or anyone with a checkout pushes to the feature
\* branch, perhaps after a reset or a rebase.
BranchAdvances ==
  /\ CanCommit
  /\ git.branch # NoCommit
  /\ \E parent \in DOMAIN git.history :
       git' = [git EXCEPT !.history = WithCommit(git.history, {parent}),
                          !.branch = NextCommit(git.history)]
  /\ UNCHANGED <<task, work, acceptance, gate, artifacts, records, sessions,
                 attempt, requests, rowWrites, used>>

\* Another task's delivery lands on the target branch.
TargetAdvances ==
  /\ CanCommit
  /\ git' = [git EXCEPT !.history = WithCommit(git.history, {git.target}),
                        !.target = NextCommit(git.history)]
  /\ UNCHANGED <<task, work, acceptance, gate, artifacts, records, sessions,
                 attempt, requests, rowWrites, used>>

\* The orchestrator restarts: what the tick held in memory is lost.
Crash ==
  /\ used.crashes < MaxCrashes
  /\ ~GateIdle
  /\ gate' = [gate EXCEPT !.candidate = NoCandidate]
  /\ used' = [used EXCEPT !.crashes = @ + 1]
  /\ UNCHANGED <<task, work, git, acceptance, artifacts, records, sessions,
                 attempt, requests, rowWrites>>

-----------------------------------------------------------------------------

\* The first worker is at work on a feature branch created from the target.
Init ==
  /\ task = [status |-> "in_progress", version |-> 1, base |-> 1]
  /\ work = [state |-> "running", base |-> 1]
  /\ git = [history |-> <<{1}>>, target |-> 1, branch |-> 1]
  /\ acceptance = [heads |-> {}, head |-> NoCommit, base |-> NoCommit,
                   baseRef |-> "target", submitted |-> NoCommit]
  /\ gate = [candidate |-> NoCandidate, outcome |-> "none"]
  /\ artifacts = <<>>
  /\ verifications = {}
  /\ authorizations = {}
  /\ reworks = {}
  /\ sessions = <<>>
  /\ attempt = 0
  /\ requests = <<>>
  /\ rowWrites = 1
  /\ used = [rounds |-> 0, comments |-> 0, restarts |-> 0, crashes |-> 0]

\* What the one tick goroutine does; it is inside the gate while one runs.
StartTickStep ==
  /\ GateIdle
  /\ \/ StartRework \/ PrepareDelivery \/ FailEmptyFeature
     \/ FailOnConstraints \/ PauseOnConstraints \/ ProcessQuickFix
     \/ BeginGate \/ BeginGateMismatch
     \/ ProcessVerificationReady \/ ProcessIntegrationReady

EndGate ==
  FreezeDeliveryArtifact \/ RecordPreliminaryGateFailure \/ DiscardGateResult

WorkerStep == FinishSubtasks \/ FinishQuickFix \/ FailWork
ClientStep == ComposeRequest \/ DeliverRequest
OperatorStep ==
  Archive \/ CommentTask \/ RetryPausedPreliminaryGate \/ ResumeTask
  \/ RetryTask
WorldStep == BranchAdvances \/ TargetAdvances

Next ==
  \/ StartTickStep \/ EndGate \/ WorkerStep \/ ClientStep \/ OperatorStep
  \/ WorldStep \/ Crash

\* The ticker keeps calling every handler, and a gate is bounded by a timeout.
Fairness ==
  /\ WF_vars(EndGate)
  /\ WF_vars(GateIdle /\ (BeginGate \/ BeginGateMismatch))

Spec == Init /\ [][Next]_vars /\ Fairness

-----------------------------------------------------------------------------
(* Properties                                                              *)

VerdictsOn(a) == { v \in verifications : v.artifact = a }
IntentsOn(a) == { i \in authorizations : i.artifact = a }
ReworksOn(a) == { r \in reworks : r.artifact = a }

\* The status of a delivery and its evidence rows say the same thing.  A task
\* parked for verification has one current artifact nobody has judged; parked
\* for integration, one that was judged once, and passed, and was not sent
\* back; merging, one with an authorization of exactly its commit and base.
\* This is what VerifyDelivery, AuthorizeIntegration, RequestDeliveryRework,
\* the archive handler and the rewinds of the merger must keep between them.
ParkedDeliveryHasEvidence ==
  LET latest == Len(artifacts) IN
  /\ task.status \in {"verification_ready", "integration_ready", "merging"}
       => CurrentArtifacts = {latest}
  /\ task.status = "verification_ready"
       => VerdictsOn(latest) = {} /\ ReworksOn(latest) = {}
  /\ task.status \in {"integration_ready", "merging"}
       => /\ \E v \in verifications :
               v.result = "passed" /\ VerdictsOn(latest) = {v}
          /\ ReworksOn(latest) = {}
  /\ task.status = "integration_ready" => IntentsOn(latest) = {}
  /\ task.status = "merging"
       => \E i \in authorizations : IntentsOn(latest) = {i}

\* An artifact is judged at most once, and authorised at most once, whatever
\* clients repeat or the policies do beside them; an authorised artifact was
\* verified at that commit and was never sent back.
EvidenceIsConsistent ==
  /\ \A v, w \in verifications : v.artifact = w.artifact => v = w
  /\ \A i, j \in authorizations : i.artifact = j.artifact => i = j
  /\ \A i \in authorizations :
       /\ ReworksOn(i.artifact) = {}
       /\ \E v \in PassingVerifications(i.artifact) :
            v.key = i.verification /\ v.commit = i.commit
       /\ i.commit = artifacts[i.artifact].commit
       /\ i.base = artifacts[i.artifact].base
  /\ \A r \in reworks : ~IsCurrent(r.artifact)

\* host_rework means one active session, on the newest artifact, which is no
\* longer current, and no merger attempt; no session outlives the status.
HostReworkIsExclusive ==
  /\ task.status = "host_rework" => ActiveSessions = {Len(sessions)}
  /\ task.status # "host_rework" => ActiveSessions = {}
  /\ \A s \in ActiveSessions :
       /\ sessions[s].artifact = Len(artifacts)
       /\ CurrentArtifacts = {}
       /\ attempt = 0

\* Every artifact is built on the base it records, also after host repairs,
\* retries that recreate the branch, and pushes during the gate.
ArtifactsContainTheirBase ==
  \A a \in DOMAIN artifacts :
    IsAncestor(git.history, artifacts[a].base, artifacts[a].commit)

\* A replacement a host submitted descends from the artifact it replaces.
RepairsDescend ==
  \A s \in DOMAIN sessions :
    sessions[s].state = "submitted" =>
      /\ sessions[s].replacement # sessions[s].prior
      /\ IsAncestor(git.history, sessions[s].prior, sessions[s].replacement)

\* No handler asks the state machine for a transition it rejects, which would
\* roll back the evidence written with it; in particular nothing leaves a
\* terminal status.
TransitionsAreValid ==
  [][task'.status # task.status
       => task'.status \in ValidTransitions[task.status]]_vars

\* A client's decision takes effect only on the task row it was made on: no
\* write of the row, by anybody, lies between what the client saw and the
\* record of its decision.  The state version must give this also where a
\* version is written back, and for requests that arrive late or twice.
DecisionKeys == Keys(verifications) \union Keys(authorizations)
                \union Keys(reworks)
DecisionsSeeTheirState ==
  [][\A i \in DOMAIN requests :
       ClientKey(i) \in DecisionKeys' \ DecisionKeys
         => requests[i].observed = rowWrites]_vars

\* "testing_ready and merging are always actionable states"
\* (plans/host-verification-state-machine.md:81): the tick gets a task out of
\* testing_ready.
TestingReadyResolves ==
  task.status = "testing_ready" ~> task.status # "testing_ready"

=============================================================================
