----------------------------- MODULE MergeProofs -----------------------------
(***************************************************************************)
(* What lands on the target branch: theorems about MergeDispatch, for      *)
(* every value of its constants.                                           *)
(***************************************************************************)
EXTENDS MergeDispatch, HostReworkProofs, SequenceTheorems

-----------------------------------------------------------------------------
(* The invariant: what each property needs to be known of the others'      *)
(* state.                                                                  *)

\* The tick holds the task in merging; the rows it names exist.
TickInv ==
  /\ TickOwnsMerging
  /\ tick.pc # "idle" => tick.version # 0
  /\ tick.pc \in {"record", "await"} => tick.merger \in DOMAIN mergers
  /\ attempt \in {0} \union DOMAIN mergers

Authorized(commit, base) ==
  \E i \in authorizations : i.commit = commit /\ i.base = base

MergersAuthorized ==
  \A m \in DOMAIN mergers : Authorized(mergers[m].commit, mergers[m].base)

\* A commit reaches itself.
HistoryIsReflexive ==
  \A c \in DOMAIN git.history : IsAncestor(git.history, c, c)

\* What landed was authorised and stays in the target.
LandingInv ==
  /\ \A l \in landed :
       /\ Authorized(l.commit, l.base)
       /\ IsAncestor(git.history, l.commit, git.target)
  /\ LandsOnce

DoneInv ==
  /\ \A c \in completions : c.target \in DOMAIN git.history
  /\ DoneIsProven

MergeTypes == MergeTypeOK /\ Refs

MergeInv ==
  /\ MergeTypes
  /\ EvidenceInv
  /\ CandidateDescends
  /\ ArtifactsDescend
  /\ HistoryIsReflexive
  /\ TickInv
  /\ MergersAuthorized
  /\ LandingInv
  /\ DoneInv

\* The types of this module include those of Delivery.
LEMMA TypesOfDelivery == MergeTypes => TypeInv
BY DEF MergeTypes, MergeTypeOK, TypeInv

\* Nothing is merged at the start.
LEMMA MergeInitInv == MergeInit => MergeInv
<1> SUFFICES ASSUME MergeInit
             PROVE  MergeInv
  OBVIOUS
<1>1. TypeInv /\ EvidenceInv /\ AncestryInv
  BY TypeInit, EvidenceInit, AncestryInit DEF MergeInit
<1>2. IdleTick \in Tick /\ tick = IdleTick /\ tick.pc = "idle"
  BY DEF MergeInit, IdleTick, Tick, MergePC, TickResult
<1>3. MergeTypes
  BY <1>1, <1>2 DEF MergeInit, MergeTypes, MergeTypeOK, TypeInv
<1>4. TickInv /\ MergersAuthorized
  BY <1>2 DEF MergeInit, Init, TickInv, TickOwnsMerging, MergersAuthorized
<1>5. HistoryIsReflexive
  BY DEF MergeInit, Init, HistoryIsReflexive, IsAncestor
<1>6. LandingInv /\ DoneInv
  BY DEF MergeInit, Init, LandingInv, LandsOnce, DoneInv, DoneIsProven
<1>7. QED
  BY <1>1, <1>3, <1>4, <1>5, <1>6 DEF MergeInv, AncestryInv

-----------------------------------------------------------------------------
(* Merging and done are not left by a step of the delivery protocol        *)

\* Clients, operators, workers and the gate have no step out of merging, nor
\* out of done.
LEMMA MergingAndDoneRest ==
  ASSUME TypeInv, [Next]_vars, task.status \in {"merging", "done"}
  PROVE  task'.status = task.status /\ UNCHANGED artifacts
<1>1. ~Moving
  BY DEF Moving, FinishQuickFix, FailWork, PrepareDelivery, FailEmptyFeature,
     FailOnConstraints, PauseOnConstraints, ProcessQuickFix,
     BeginGateMismatch, FreezeDeliveryArtifact, RecordPreliminaryGateFailure,
     RetryPausedPreliminaryGate, ResumeTask, RetryTask
<1>2. ~Archive
  BY DEF Archive, ArchiveAllowed
<1>3. CASE UNCHANGED vars
  BY <1>3 DEF vars
<1>4. QED
  BY <1>1, <1>2, <1>3, StepsOfDelivery, RestingEffect, DecidingMoves,
     ClosingMoves

\* None leads into done either.
LEMMA DoneIsNotEntered ==
  ASSUME TypeInv, [Next]_vars, task.status # "done"
  PROVE  task'.status # "done"
<1>1. SUFFICES ASSUME task'.status = "done"
               PROVE  FALSE
  OBVIOUS
<1>2. task.status \in TaskStatus
  BY DEF TypeInv, TypeOK, TaskRow
<1>3. "done" \in ValidTransitions[task.status]
  BY <1>1, TransitionStep
<1>4. task.status = "merging"
  BY <1>2, <1>3 DEF ValidTransitions, TaskStatus
<1>5. QED
  BY <1>1, <1>4, MergingAndDoneRest

\* Authorizations are never removed, and no delivery step writes the attempt.
LEMMA AuthorizationsGrow ==
  ASSUME TypeInv, [Next]_vars
  PROVE  authorizations \subseteq authorizations' /\ UNCHANGED attempt
<1>1. CASE Resting
  BY <1>1 DEF Resting, StartRework, BeginGate, DiscardGateResult,
     FinishSubtasks, ComposeRequest, CommentTask, BranchAdvances,
     TargetAdvances, Crash, records
<1>2. CASE Moving
  BY <1>2 DEF Moving, FinishQuickFix, FailWork, PrepareDelivery,
     FailEmptyFeature, FailOnConstraints, PauseOnConstraints, ProcessQuickFix,
     BeginGateMismatch, FreezeDeliveryArtifact, RecordPreliminaryGateFailure,
     RetryPausedPreliminaryGate, ResumeTask, RetryTask, records
<1>3. CASE Archive \/ \E s \in ActiveSessions : Closing(s)
  BY <1>3 DEF Archive, Closing, SubmitHostRework, AbandonHostRework, records
<1>4. CASE \E a \in CurrentArtifacts : Deciding(a)
  BY <1>4 DEF Deciding, AuthorizeIntegration, VerifyPassed,
     RejectDriftedArtifact, VerifyFailed, RequestDeliveryRework, SendBack,
     records
<1>5. CASE UNCHANGED vars
  BY <1>5 DEF vars, records
<1>6. QED
  BY <1>1, <1>2, <1>3, <1>4, <1>5, StepsOfDelivery

-----------------------------------------------------------------------------
(* The kinds of steps, by what they write                                  *)

Bystanders == <<work, acceptance, gate, records, sessions, requests>>

Delivering == [Next]_vars /\ UNCHANGED mergeVars

\* The artifact is found in the target.
Completing ==
  /\ task.status = "merging" /\ HasLanded /\ CompleteMerge
  /\ tick' \in Tick /\ tick'.pc = "idle"
  /\ UNCHANGED <<Bystanders, git, artifacts, attempt, used, mergers,
                 mergeAttempts, landed, timeouts>>

\* The evidence does not hold any more, or the merger said so.
Rewinding ==
  /\ task.status = "merging" /\ RewindMerging("in_progress")
  /\ EndTick
  /\ UNCHANGED <<Bystanders, git, attempt, used, mergers, mergeAttempts,
                 completions, landed, timeouts>>

\* The merger failed: the task fails or is tried again.
Failing ==
  /\ tick.pc = "route"
  /\ FailTask \/ SaveTask
  /\ EndTick
  /\ mergeAttempts' \in Nat
  /\ UNCHANGED <<Bystanders, git, artifacts, attempt, used, mergers,
                 completions, landed, timeouts>>

\* A merger moves a ref.
Pushing == \E m \in DOMAIN mergers : PushTarget(m) \/ DeleteBranch(m)

\* A merger does anything else.
Working ==
  \E m \in DOMAIN mergers : CloneTarget(m) \/ MergeAndTest(m) \/ MergerDies(m)

\* The tick or the event stream moves on without a word to the task.
Waiting ==
  /\ UNCHANGED <<Bystanders, task, rowWrites, git, artifacts, completions,
                 landed>>
  /\ \/ SpawnMerger \/ SpawnFails \/ RecordSpawn \/ AwaitMergerExit
     \/ AwaitTimesOut \/ ObserveMergerExit \/ RestartDuringMerge
     \/ /\ task.status = "merging"
        /\ tick' \in Tick
        /\ tick'.pc \notin {"record", "await"}
        /\ tick'.pc # "idle" => tick'.version # 0
        /\ UNCHANGED <<vars, mergers, mergeAttempts, timeouts>>

\* What the rows say while the task is in merging: the preflight finds its
\* evidence.
LEMMA MergingEvidence ==
  ASSUME TypeInv, EvidenceInv, task.status = "merging"
  PROVE  /\ CurrentArtifacts = {Len(artifacts)}
         /\ ArtifactSeen = Len(artifacts)
         /\ artifacts[ArtifactSeen] \in Artifact
         /\ ArtifactSeen \in Nat \ {0}
         /\ Authorized(artifacts[ArtifactSeen].commit,
                       artifacts[ArtifactSeen].base)
         /\ PreflightVerdict \in {"error", "in_progress", "ready"}
<1>1. CurrentArtifacts = {Len(artifacts)} /\ ArtifactSeen = Len(artifacts)
  BY DEF EvidenceInv, ParkedDeliveryHasEvidence, ArtifactSeen
<1>2. artifacts[ArtifactSeen] \in Artifact /\ ArtifactSeen \in Nat \ {0}
  BY <1>1, CurrentIsArtifact DEF TypeInv
<1>3. PICK i \in authorizations : IntentsOn(ArtifactSeen) = {i}
  BY <1>1 DEF EvidenceInv, ParkedDeliveryHasEvidence
<1>4. i.artifact = ArtifactSeen
  BY <1>3 DEF IntentsOn
<1>5. Authorized(artifacts[ArtifactSeen].commit, artifacts[ArtifactSeen].base)
  BY <1>4 DEF EvidenceInv, EvidenceIsConsistent, Authorized
<1>6. PassingVerifications(ArtifactSeen) # {}
  BY <1>4 DEF EvidenceInv, EvidenceIsConsistent
<1>7. PreflightVerdict \in {"error", "in_progress", "ready"}
  BY <1>1, <1>3, <1>6 DEF PreflightVerdict
<1>8. QED
  BY <1>1, <1>2, <1>5, <1>7

\* There are no other steps.
LEMMA MergeSteps ==
  ASSUME MergeInv, [MergeNext]_mvars
  PROVE  \/ Delivering \/ Completing \/ Rewinding \/ Failing \/ Pushing
         \/ Working \/ Waiting
<1>1. /\ TypeInv /\ tick \in Tick /\ task.version # 0
      /\ mergeAttempts \in Nat
      /\ tick.pc # "idle" => task.status = "merging" /\ tick.version # 0
  BY TypesOfDelivery
  DEF MergeInv, MergeTypes, MergeTypeOK, TypeOK, TaskRow, TickInv,
      TickOwnsMerging
<1>2. IdleTick \in Tick /\ IdleTick.pc = "idle"
  BY DEF IdleTick, Tick, MergePC, TickResult
<1>3. CASE DeliveryStep \/ UNCHANGED mvars
  BY <1>3 DEF DeliveryStep, Next, Delivering, mvars
<1>4. CASE BeginMerge
  <2>1. CASE HasLanded /\ CompleteMerge /\ UNCHANGED tick
    BY <1>1, <1>4, <2>1 DEF BeginMerge, Completing, Bystanders, evidenceVars
  <2>2. CASE /\ tick' = [IdleTick EXCEPT !.pc = "preflight",
                                         !.version = task.version]
             /\ UNCHANGED <<taskVars, completions>>
    <3>1. tick' = [pc |-> "preflight", version |-> task.version, merger |-> 0,
                   result |-> "none"]
      BY <2>2 DEF IdleTick
    <3>2. tick' \in Tick
      BY <1>1, <3>1 DEF Tick, MergePC, TickResult, TypeInv, TypeOK, TaskRow
    <3>3. QED
      BY <1>1, <1>4, <2>2, <3>1, <3>2
      DEF BeginMerge, Waiting, Bystanders, taskVars, evidenceVars, vars
  <2>3. QED
    BY <1>4, <2>1, <2>2 DEF BeginMerge
<1>5. ASSUME NEW pc \in {"spawn", "route"}, Goto(pc), tick.pc # "idle"
      PROVE  tick' \in Tick /\ tick'.pc = pc /\ tick'.version # 0
  BY <1>1, <1>5 DEF Goto, Tick, MergePC
<1>6. CASE PreflightMergeArtifact
  <2>1. PreflightVerdict \in {"error", "in_progress", "ready"}
        /\ task.status = "merging" /\ tick.pc # "idle"
    BY <1>1, <1>6, MergingEvidence DEF PreflightMergeArtifact, MergeInv
  <2>2. CASE PreflightVerdict = "in_progress"
    BY <1>6, <2>1, <2>2
    DEF PreflightMergeArtifact, Rewinding, Bystanders, evidenceVars
  <2>3. CASE PreflightVerdict \in {"error", "ready"}
    <3>1. UNCHANGED <<vars, mergers, mergeAttempts, completions, landed,
                      timeouts>>
      BY <1>6, <2>3 DEF PreflightMergeArtifact, taskVars, evidenceVars, vars
    <3>2. tick' = IdleTick \/ Goto("spawn")
      BY <1>6, <2>3 DEF PreflightMergeArtifact, EndTick
    <3>3. QED
      BY <1>2, <1>5, <2>1, <3>1, <3>2 DEF Waiting, Bystanders, vars
  <2>4. QED
    BY <2>1, <2>2, <2>3
<1>7. CASE RecoverAfterDispatch
  <2>1. CASE HasLanded /\ CompleteMerge /\ EndTick
    BY <1>1, <1>2, <1>7, <2>1
    DEF RecoverAfterDispatch, Completing, Bystanders, evidenceVars, EndTick
  <2>2. CASE /\ tick' = IdleTick \/ Goto("route")
             /\ UNCHANGED <<taskVars, completions>>
    BY <1>1, <1>2, <1>5, <1>7, <2>2
    DEF RecoverAfterDispatch, Waiting, Bystanders, taskVars, evidenceVars,
        vars
  <2>3. QED
    BY <1>7, <2>1, <2>2 DEF RecoverAfterDispatch, EndTick
<1>8. CASE RouteMergeResult
  <2>1. CASE RouteStaleEvidence
    BY <1>1, <1>8, <2>1
    DEF RouteMergeResult, RouteStaleEvidence, Rewinding, Bystanders,
        evidenceVars
  <2>2. CASE RouteRejection \/ RoutePushFailed
    <3>1. /\ FailTask \/ SaveTask
          /\ mergeAttempts' \in Nat
          /\ UNCHANGED artifacts
      BY <1>1, <2>2 DEF RouteRejection, RoutePushFailed
    <3>2. QED
      BY <1>8, <3>1
      DEF RouteMergeResult, Failing, Bystanders, evidenceVars
  <2>3. QED
    BY <1>8, <2>1, <2>2 DEF RouteMergeResult
<1>9. CASE SpawnMerger \/ SpawnFails \/ RecordSpawn \/ AwaitMergerExit
           \/ AwaitTimesOut \/ ObserveMergerExit \/ RestartDuringMerge
  BY <1>9 DEF SpawnMerger, SpawnFails, RecordSpawn, AwaitMergerExit,
     AwaitTimesOut, ObserveMergerExit, RestartDuringMerge, Waiting,
     Bystanders, vars, mergeVars, taskVars, evidenceVars
<1>10. CASE MergerStep
  BY <1>10 DEF MergerStep, MergerRuns, Pushing, Working
<1>11. QED
  BY <1>3, <1>4, <1>6, <1>7, <1>8, <1>9, <1>10 DEF MergeNext, ExecuteMerge

-----------------------------------------------------------------------------
(* Git                                                                     *)

TargetGrows == git.history[git.target] \subseteq git.history'[git.target']

\* A mutation of one merger: it keeps its commit and its base.
LEMMA MergerKeepsArtifact ==
  ASSUME MergeTypes, NEW m \in DOMAIN mergers,
         \/ \E state \in MergerState : MergerGoes(m, state)
         \/ \E result \in MergerResult : MergerExits(m, result)
  PROVE  /\ mergers' \in Seq(MergerContainer)
         /\ DOMAIN mergers' = DOMAIN mergers
         /\ \A n \in DOMAIN mergers :
              /\ mergers'[n].commit = mergers[n].commit
              /\ mergers'[n].base = mergers[n].base
<1>1. mergers \in Seq(MergerContainer)
  BY DEF MergeTypes, MergeTypeOK
<1>2. PICK old \in MergerContainer : old = mergers[m]
  BY <1>1
<1>3. PICK new \in MergerContainer :
        /\ new.commit = old.commit /\ new.base = old.base
        /\ mergers' = [mergers EXCEPT ![m] = new]
  <2>1. ASSUME NEW state \in MergerState, MergerGoes(m, state)
        PROVE  /\ [old EXCEPT !.state = state] \in MergerContainer
               /\ mergers' = [mergers EXCEPT ![m] =
                                [old EXCEPT !.state = state]]
    BY <1>2, <2>1 DEF MergerGoes, MergerContainer
  <2>2. ASSUME NEW result \in MergerResult, MergerExits(m, result)
        PROVE  /\ [old EXCEPT !.state = "exited", !.result = result]
                    \in MergerContainer
               /\ mergers' = [mergers EXCEPT ![m] =
                    [old EXCEPT !.state = "exited", !.result = result]]
    <3>1. [old EXCEPT !.state = "exited", !.result = result]
            \in MergerContainer
      BY <2>2 DEF MergerContainer, MergerState
    <3>2. mergers' = [[mergers EXCEPT ![m].state = "exited"]
                        EXCEPT ![m].result = result]
      BY <2>2 DEF MergerExits
    <3>3. QED
      BY <1>1, <1>2, <3>1, <3>2
  <2>3. QED
    BY <2>1, <2>2 DEF MergerContainer
<1>4. QED
  BY <1>1, <1>2, <1>3

\* Every step of a merger is one.
LEMMA MergerStepKeepsArtifact ==
  ASSUME MergeTypes, Working \/ Pushing
  PROVE  /\ mergers' \in Seq(MergerContainer)
         /\ DOMAIN mergers' = DOMAIN mergers
         /\ \A n \in DOMAIN mergers :
              /\ mergers'[n].commit = mergers[n].commit
              /\ mergers'[n].base = mergers[n].base
<1>1. PICK m \in DOMAIN mergers :
        \/ CloneTarget(m) \/ MergeAndTest(m) \/ MergerDies(m)
        \/ PushTarget(m) \/ DeleteBranch(m)
  BY DEF Working, Pushing
<1>2. \/ \E state \in MergerState : MergerGoes(m, state)
      \/ \E result \in MergerResult : MergerExits(m, result)
  BY <1>1 DEF CloneTarget, MergeAndTest, MergerDies, PushTarget, DeleteBranch,
     MergerState, MergerResult
<1>3. QED
  BY <1>2, MergerKeepsArtifact

\* A new commit reaches itself and what its parents reach.
LEMMA NewCommitReaches ==
  ASSUME NEW h \in Seq(SUBSET Commit), NEW parents \in SUBSET DOMAIN h
  PROVE  WithCommit(h, parents)[NextCommit(h)]
           = {NextCommit(h)} \union UNION { h[p] : p \in parents }
<1> DEFINE new == {NextCommit(h)} \union UNION { h[p] : p \in parents }
<1>1. NextCommit(h) = Len(h) + 1 /\ NextCommit(h) \in Commit
  BY DEF NextCommit, Commit
<1>2. UNION { h[p] : p \in parents } \subseteq Commit
  OBVIOUS
<1>3. new \in SUBSET Commit
  BY <1>1, <1>2
<1> HIDE DEF new
<1>4. Append(h, new)[Len(h) + 1] = new
  BY <1>3
<1>5. QED
  BY <1>1, <1>4 DEF WithCommit, new

\* How a merger moves the refs: it deletes the branch, or puts a new commit on
\* top of the target and the authorised commit, which the target lacked.
LEMMA PushEffect ==
  ASSUME MergeInv, Pushing
  PROVE  \/ /\ git' = [git EXCEPT !.branch = NoCommit] /\ UNCHANGED landed
         \/ UNCHANGED <<git, landed>>
         \/ \E m \in DOMAIN mergers :
              /\ mergers[m].commit \in DOMAIN git.history
              /\ mergers[m].base = git.target
              /\ ~IsAncestor(git.history, mergers[m].commit, git.target)
              /\ git' = [git EXCEPT
                   !.history = WithCommit(git.history,
                                 {git.target, mergers[m].commit}),
                   !.target = NextCommit(git.history)]
              /\ landed' = landed \union
                   {[merger |-> m, commit |-> mergers[m].commit,
                     base |-> mergers[m].base]}
<1>1. PICK m \in DOMAIN mergers : PushTarget(m) \/ DeleteBranch(m)
  BY DEF Pushing
<1>2. CASE DeleteBranch(m)
  BY <1>2 DEF DeleteBranch
<1>3. CASE PushTarget(m)
  <2>1. PICK i \in authorizations :
          i.commit = mergers[m].commit /\ i.base = mergers[m].base
    BY DEF MergeInv, MergersAuthorized, Authorized
  <2>2. /\ i.artifact \in DOMAIN artifacts
        /\ i.commit = artifacts[i.artifact].commit
    BY DEF MergeInv, EvidenceInv, RecordsReferToArtifacts,
           EvidenceIsConsistent
  <2>3. mergers[m].commit \in DOMAIN git.history
    BY <2>1, <2>2 DEF MergeInv, ArtifactsDescend, Descends
  <2>4. QED
    BY <1>3, <2>3 DEF PushTarget
<1>4. QED
  BY <1>1, <1>2, <1>3

\* At every step the graph grows, what the target contains it keeps, and the
\* refs name commits.
LEMMA GitStep ==
  ASSUME MergeInv, [MergeNext]_mvars
  PROVE  /\ HistoryGrows /\ TargetGrows /\ HistoryIsReflexive'
         /\ git' \in Git /\ Refs'
<1>1. /\ git \in Git /\ git.history \in Seq(SUBSET Commit)
      /\ git.target \in DOMAIN git.history
      /\ git.branch \in DOMAIN git.history \union {NoCommit}
      /\ HistoryIsReflexive /\ TypeInv
  BY TypesOfDelivery DEF MergeInv, TypeInv, TypeOK, Refs, Git
<1>2. ASSUME NEW parents \in SUBSET DOMAIN git.history,
             git'.history = WithCommit(git.history, parents)
      PROVE  /\ HistoryGrows /\ HistoryIsReflexive'
             /\ NextCommit(git.history) \in DOMAIN git.history'
             /\ \A p \in parents : git.history[p] \subseteq
                  git.history'[NextCommit(git.history)]
  <2> DEFINE h == git.history
             new == WithCommit(h, parents)
  <2>1. /\ DOMAIN new = DOMAIN h \union {NextCommit(h)}
        /\ \A c \in DOMAIN h : new[c] = h[c]
    BY <1>1, <1>2, WithCommitExtends
  <2>2. new[NextCommit(h)]
          = {NextCommit(h)} \union UNION { h[p] : p \in parents }
    BY <1>1, <1>2, NewCommitReaches
  <2>3. git'.history = new
    BY <1>2
  <2> HIDE DEF new
  <2>4. QED
    BY <1>1, <2>1, <2>2, <2>3 DEF HistoryGrows, HistoryIsReflexive, IsAncestor
<1>3. ASSUME git'.history = git.history
      PROVE  HistoryGrows /\ HistoryIsReflexive'
  BY <1>1, <1>3 DEF HistoryGrows, HistoryIsReflexive, IsAncestor
<1>4. CASE UNCHANGED git
  BY <1>1, <1>3, <1>4 DEF TargetGrows, Refs
<1>5. CASE Delivering
  <2>1. git' \in Git /\ Refs'
    BY <1>1, <1>5, TypeStep DEF Delivering, TypeInv, TypeOK
  <2>2. CASE BranchAdvances
    <3>1. PICK parent \in DOMAIN git.history :
            /\ git'.history = WithCommit(git.history, {parent})
            /\ git'.target = git.target
      BY <1>1, <2>2 DEF BranchAdvances, Git
    <3>2. {parent} \in SUBSET DOMAIN git.history
      OBVIOUS
    <3>3. HistoryGrows /\ HistoryIsReflexive'
      BY <1>2, <3>1, <3>2
    <3>4. git.history'[git.target'] = git.history[git.target]
      <4>1. git.history'[git.target] = git.history[git.target]
        BY <1>1, <3>3 DEF HistoryGrows
      <4>2. git.target' = git.target
        BY <3>1
      <4>3. QED
        BY <4>1, <4>2
    <3>5. QED
      BY <2>1, <3>3, <3>4 DEF TargetGrows
  <2>3. CASE TargetAdvances
    <3>1. /\ git'.history = WithCommit(git.history, {git.target})
          /\ git'.target = NextCommit(git.history)
      BY <1>1, <2>3 DEF TargetAdvances, Git
    <3>2. {git.target} \in SUBSET DOMAIN git.history
      BY <1>1
    <3>3. QED
      BY <1>2, <2>1, <3>1, <3>2 DEF TargetGrows
  <2>4. CASE RetryTask \/ ProcessQuickFix
    <3>1. git'.history = git.history /\ git'.target = git.target
      BY <1>1, <2>4 DEF RetryTask, ProcessQuickFix, Git
    <3>2. QED
      BY <1>3, <2>1, <3>1 DEF TargetGrows
  <2>5. CASE UNCHANGED vars
    BY <1>4, <2>5 DEF vars
  <2>6. QED
    BY <1>1, <1>4, <1>5, <2>2, <2>3, <2>4, <2>5, WhoWrites DEF Delivering
<1>6. CASE Pushing
  <2>1. CASE git' = [git EXCEPT !.branch = NoCommit]
    <3>1. /\ git'.history = git.history /\ git'.target = git.target
          /\ git'.branch = NoCommit /\ git' \in Git
      BY <1>1, <2>1 DEF Git, CommitOrNone
    <3>2. QED
      BY <1>1, <1>3, <3>1 DEF TargetGrows, Refs
  <2>2. ASSUME NEW commit \in DOMAIN git.history,
               git' = [git EXCEPT
                 !.history = WithCommit(git.history, {git.target, commit}),
                 !.target = NextCommit(git.history)]
        PROVE  /\ HistoryGrows /\ TargetGrows /\ HistoryIsReflexive'
               /\ git' \in Git /\ Refs'
    <3>1. {git.target, commit} \in SUBSET DOMAIN git.history
      BY <1>1
    <3>2. /\ git'.history = WithCommit(git.history, {git.target, commit})
          /\ git'.target = NextCommit(git.history)
          /\ git'.branch = git.branch
      BY <1>1, <2>2 DEF Git
    <3>3. /\ HistoryGrows /\ HistoryIsReflexive' /\ TargetGrows
          /\ git'.target \in DOMAIN git.history'
      BY <1>2, <3>1, <3>2 DEF TargetGrows
    <3>4. git' \in Git
      <4>1. /\ WithCommit(git.history, {git.target, commit})
                 \in Seq(SUBSET Commit)
            /\ NextCommit(git.history) \in Commit
        BY <1>1, <3>1, WithCommitExtends
      <4>2. QED
        BY <1>1, <2>2, <4>1 DEF Git
    <3>5. QED
      BY <1>1, <3>2, <3>3, <3>4 DEF Refs, HistoryGrows
  <2>3. QED
    BY <1>4, <1>6, <2>1, <2>2, PushEffect
<1>7. CASE Completing \/ Rewinding \/ Failing \/ Working \/ Waiting
  BY <1>4, <1>7 DEF Completing, Rewinding, Failing, Working, Waiting,
     CloneTarget, MergeAndTest, MergerDies, vars
<1>8. QED
  BY <1>5, <1>6, <1>7, MergeSteps

-----------------------------------------------------------------------------
(* Rows                                                                    *)

\* A rewind invalidates the newest artifact and moves the task.
LEMMA RewindEffect ==
  ASSUME MergeInv, Rewinding
  PROVE  /\ \E a \in CurrentArtifacts : Invalidate(a)
         /\ task' \in TaskRow /\ rowWrites' \in Nat
         /\ task'.status = "in_progress"
<1>1. TypeInv /\ task.status = "merging"
  BY TypesOfDelivery DEF MergeInv, Rewinding
<1>2. \E a \in CurrentArtifacts : Invalidate(a)
  BY <1>1, MergingEvidence DEF MergeInv, Rewinding, RewindMerging
<1>3. MoveTo("in_progress")
  BY DEF Rewinding, RewindMerging
<1>4. QED
  BY <1>1, <1>2, <1>3, MoveToTypes DEF TypeInv, TaskStatus

\* A completion moves the task to done, with a record of the newest artifact.
LEMMA CompletionEffect ==
  ASSUME MergeInv, Completing
  PROVE  /\ completions' = completions \union
              {[artifact |-> ArtifactSeen,
                commit |-> artifacts[ArtifactSeen].commit,
                target |-> git.target]}
         /\ task' \in TaskRow /\ rowWrites' \in Nat
         /\ task'.status = "done"
<1>1. TypeOK /\ MoveTo("done")
  BY TypesOfDelivery DEF MergeInv, Completing, CompleteMerge, TypeInv
<1>2. QED
  BY <1>1, MoveToTypes DEF Completing, CompleteMerge, TaskStatus

\* A failure moves the task to failed; a retry, or a lost race, leaves it in
\* merging, with the version the tick loaded.
LEMMA FailureEffect ==
  ASSUME MergeInv, Failing
  PROVE  /\ task' \in TaskRow /\ rowWrites' \in Nat
         /\ task'.status \in {task.status, "failed"}
<1>1. TypeOK /\ tick \in Tick /\ tick.version # 0
  BY TypesOfDelivery
  DEF MergeInv, Failing, MergeTypes, MergeTypeOK, TickInv
<1>2. CASE SaveTask
  <2>1. task' = [status |-> task.status, version |-> tick.version,
                 base |-> task.base]
    BY <1>1, <1>2 DEF SaveTask, TypeOK, TaskRow
  <2>2. QED
    BY <1>1, <1>2, <2>1 DEF SaveTask, TypeOK, TaskRow, Tick
<1>3. CASE FailTask
  <2>1. CASE MoveTo("failed")
    BY <1>1, <2>1, MoveToTypes DEF TaskStatus
  <2>2. CASE UNCHANGED taskVars
    BY <1>1, <2>2 DEF taskVars, TypeOK
  <2>3. QED
    BY <1>3, <2>1, <2>2 DEF FailTask
<1>4. QED
  BY <1>2, <1>3 DEF Failing

\* Every step keeps the task and the evidence consistent: outside Delivery
\* only a rewind writes artifacts, and none writes records.
LEMMA EvidenceMergeStep ==
  ASSUME MergeInv, [MergeNext]_mvars
  PROVE  EvidenceInv'
<1>1. TypeInv /\ EvidenceInv
  BY TypesOfDelivery DEF MergeInv
<1>2. CASE Delivering
  BY <1>1, <1>2, EvidenceStep DEF Delivering
<1>3. CASE Rewinding
  <2>1. UNCHANGED records /\ task'.status \notin Evidenced
    BY <1>3, RewindEffect DEF Rewinding, Bystanders, Evidenced
  <2>2. QED
    BY <1>1, <1>3, <2>1, RewindEffect, EvidenceInvalidated
<1>4. CASE Completing \/ Failing
  <2>1. /\ UNCHANGED <<artifacts, records>>
        /\ task'.status = task.status \/ task'.status \notin Evidenced
    BY <1>4, CompletionEffect, FailureEffect
    DEF Completing, Failing, Bystanders, Evidenced
  <2>2. QED
    BY <1>1, <2>1, EvidenceFrame
<1>5. CASE Pushing \/ Working \/ Waiting
  <2>1. UNCHANGED <<task, artifacts, records>>
    <3>1. CASE Pushing
      BY <3>1 DEF Pushing, PushTarget, DeleteBranch, taskVars, evidenceVars
    <3>2. CASE Working
      BY <3>2 DEF Working, CloneTarget, MergeAndTest, MergerDies, vars
    <3>3. CASE Waiting
      BY <3>3 DEF Waiting, Bystanders
    <3>4. QED
      BY <1>5, <3>1, <3>2, <3>3
  <2>2. QED
    BY <1>1, <2>1, EvidenceFrame
<1>6. QED
  BY <1>2, <1>3, <1>4, <1>5, MergeSteps

\* The candidate and the artifacts descend from their base; outside Delivery
\* only a rewind writes artifacts, and no commit.
LEMMA DescentMergeStep ==
  ASSUME MergeInv, [MergeNext]_mvars
  PROVE  CandidateDescends' /\ ArtifactsDescend'
<1>1. /\ TypeInv /\ CandidateDescends /\ ArtifactsDescend /\ HistoryGrows
  BY TypesOfDelivery, GitStep DEF MergeInv
<1>2. CASE Delivering
  BY <1>1, <1>2, CandidateStep, ArtifactStep DEF Delivering
<1>3. CASE ~Delivering
  <2>1. UNCHANGED gate
    BY <1>3, MergeSteps
    DEF Completing, Rewinding, Failing, Pushing, PushTarget, DeleteBranch,
        Working, CloneTarget, MergeAndTest, MergerDies, Waiting, Bystanders,
        vars, evidenceVars
  <2>2. CandidateDescends'
    BY <1>1, <2>1, DescentIsForEver DEF CandidateDescends
  <2>3. CASE Rewinding
    <3>1. PICK a \in CurrentArtifacts : Invalidate(a)
      BY <2>3, RewindEffect
    <3>2. DOMAIN artifacts' = DOMAIN artifacts
      BY <3>1 DEF Invalidate
    <3>3. QED
      BY <1>1, <2>2, <3>1, <3>2, InvalidateEffect, DescentIsForEver
      DEF ArtifactsDescend, TypeInv
  <2>4. CASE UNCHANGED artifacts
    BY <1>1, <2>2, <2>4, DescentIsForEver DEF ArtifactsDescend
  <2>5. QED
    BY <1>3, <2>3, <2>4, MergeSteps
    DEF Completing, Failing, Pushing, PushTarget, DeleteBranch, Working,
        CloneTarget, MergeAndTest, MergerDies, Waiting, vars
<1>4. QED
  BY <1>2, <1>3

\* What was authorised remains so.
LEMMA AuthorizedForEver ==
  ASSUME MergeInv, [MergeNext]_mvars, NEW commit, NEW base,
         Authorized(commit, base)
  PROVE  Authorized(commit, base)'
<1>1. CASE Delivering
  <2>1. authorizations \subseteq authorizations'
    BY <1>1, TypesOfDelivery, AuthorizationsGrow DEF Delivering, MergeInv
  <2>2. QED
    BY <2>1 DEF Authorized
<1>2. CASE ~Delivering
  <2>1. UNCHANGED records
    BY <1>2, MergeSteps
    DEF Completing, Rewinding, Failing, Pushing, PushTarget, DeleteBranch,
        Working, CloneTarget, MergeAndTest, MergerDies, Waiting, Bystanders,
        vars, evidenceVars
  <2>2. QED
    BY <2>1 DEF Authorized, records
<1>3. QED
  BY <1>1, <1>2

-----------------------------------------------------------------------------
(* Types, the tick and the mergers                                         *)

\* The rows of Delivery stay well formed.
LEMMA DeliveryTypesStep ==
  ASSUME MergeInv, [MergeNext]_mvars
  PROVE  TypeOK' /\ Refs'
<1>1. TypeInv /\ git' \in Git /\ Refs'
  BY TypesOfDelivery, GitStep DEF MergeInv
<1>2. CASE Delivering
  BY <1>1, <1>2, TypeStep DEF Delivering, TypeInv
<1>3. ASSUME task' \in TaskRow, rowWrites' \in Nat, artifacts' \in Seq(Artifact),
             attempt' \in Nat, used' \in Used, UNCHANGED Bystanders
      PROVE  TypeOK'
  BY <1>1, <1>3 DEF TypeInv, TypeOK, Bystanders, records
<1>4. CASE Completing
  <2>1. UNCHANGED <<Bystanders, artifacts, attempt, used>>
    BY <1>4 DEF Completing
  <2>2. QED
    BY <1>1, <1>3, <1>4, <2>1, CompletionEffect DEF TypeInv, TypeOK
<1>5. CASE Failing
  <2>1. UNCHANGED <<Bystanders, artifacts, attempt, used>>
    BY <1>5 DEF Failing
  <2>2. QED
    BY <1>1, <1>3, <1>5, <2>1, FailureEffect DEF TypeInv, TypeOK
<1>6. CASE Rewinding
  <2>1. UNCHANGED <<Bystanders, attempt, used>>
    BY <1>6 DEF Rewinding
  <2>2. artifacts' \in Seq(Artifact)
    BY <1>1, <1>6, RewindEffect, InvalidateEffect DEF TypeInv
  <2>3. QED
    BY <1>1, <1>3, <1>6, <2>1, <2>2, RewindEffect DEF TypeInv, TypeOK
<1>7. CASE Pushing
  <2>1. UNCHANGED <<Bystanders, task, rowWrites, artifacts, attempt, used>>
    BY <1>7 DEF Pushing, PushTarget, DeleteBranch, Bystanders, taskVars,
       evidenceVars
  <2>2. QED
    BY <1>1, <1>3, <2>1 DEF TypeInv, TypeOK
<1>8. CASE Working
  <2>1. UNCHANGED <<Bystanders, task, rowWrites, artifacts, attempt, used>>
    BY <1>8 DEF Working, CloneTarget, MergeAndTest, MergerDies, Bystanders,
       vars
  <2>2. QED
    BY <1>1, <1>3, <2>1 DEF TypeInv, TypeOK
<1>9. CASE Waiting
  <2>1. UNCHANGED <<Bystanders, task, rowWrites, artifacts>>
    BY <1>9 DEF Waiting
  <2>2. attempt \in Nat /\ used \in Used /\ tick.merger \in Nat
    BY <1>1 DEF MergeInv, MergeTypes, MergeTypeOK, TypeInv, TypeOK, Tick
  <2>3. attempt' \in Nat
    BY <1>9, <2>2 DEF Waiting, SpawnMerger, SpawnFails, RecordSpawn,
       AwaitMergerExit, AwaitTimesOut, ObserveMergerExit, RestartDuringMerge,
       vars
  <2>4. used' \in Used
    <3>1. CASE RestartDuringMerge
      BY <2>2, <3>1 DEF RestartDuringMerge, Used
    <3>2. CASE ~RestartDuringMerge
      BY <1>9, <2>2, <3>2 DEF Waiting, SpawnMerger, SpawnFails, RecordSpawn,
         AwaitMergerExit, AwaitTimesOut, ObserveMergerExit, vars
    <3>3. QED
      BY <3>1, <3>2
  <2>5. QED
    BY <1>1, <1>3, <2>1, <2>3, <2>4 DEF TypeInv, TypeOK
<1>10. QED
  BY <1>1, <1>2, <1>4, <1>5, <1>6, <1>7, <1>8, <1>9, MergeSteps

\* The tick starts a merger on the newest artifact, which is authorised.
LEMMA SpawnEffect ==
  ASSUME MergeInv, SpawnMerger
  PROVE  \E new \in MergerContainer :
           /\ Authorized(new.commit, new.base)
           /\ mergers' = Append(mergers, new)
<1> DEFINE new == [state  |-> "starting",
                   commit |-> artifacts[ArtifactSeen].commit,
                   base   |-> artifacts[ArtifactSeen].base,
                   result |-> "none"]
<1>1. task.status = "merging"
  BY DEF MergeInv, TickInv, TickOwnsMerging, SpawnMerger
<1>2. /\ artifacts[ArtifactSeen] \in Artifact
      /\ Authorized(artifacts[ArtifactSeen].commit,
                    artifacts[ArtifactSeen].base)
  BY <1>1, TypesOfDelivery, MergingEvidence DEF MergeInv
<1>3. new \in MergerContainer
  BY <1>2 DEF Artifact, MergerContainer, MergerState
<1>4. mergers' = Append(mergers, new)
  BY DEF SpawnMerger
<1>5. QED
  BY <1>2, <1>3, <1>4

\* Containers are started and change their state; none is forgotten.
LEMMA MergersStep ==
  ASSUME MergeInv, [MergeNext]_mvars
  PROVE  /\ mergers' \in Seq(MergerContainer)
         /\ DOMAIN mergers \subseteq DOMAIN mergers'
         /\ MergersAuthorized'
<1>1. mergers \in Seq(MergerContainer) /\ MergeTypes /\ MergersAuthorized
  BY DEF MergeInv, MergeTypes, MergeTypeOK
<1>2. CASE UNCHANGED mergers
  BY <1>1, <1>2, AuthorizedForEver DEF MergersAuthorized
<1>3. CASE Pushing \/ Working
  BY <1>1, <1>3, MergerStepKeepsArtifact, AuthorizedForEver
  DEF MergersAuthorized
<1>4. CASE SpawnMerger
  <2>1. PICK new \in MergerContainer :
          /\ Authorized(new.commit, new.base)
          /\ mergers' = Append(mergers, new)
    BY <1>4, SpawnEffect
  <2>2. Authorized(new.commit, new.base)'
    BY <2>1, AuthorizedForEver
  <2>3. /\ mergers' \in Seq(MergerContainer)
        /\ DOMAIN mergers' = DOMAIN mergers \union {Len(mergers) + 1}
        /\ mergers'[Len(mergers) + 1] = new
        /\ \A m \in DOMAIN mergers : mergers'[m] = mergers[m]
    BY <1>1, <2>1
  <2>4. QED
    BY <1>1, <2>2, <2>3, AuthorizedForEver DEF MergersAuthorized
<1>5. CASE Waiting /\ ~SpawnMerger
  BY <1>2, <1>5 DEF Waiting, SpawnFails, RecordSpawn, AwaitMergerExit,
     AwaitTimesOut, ObserveMergerExit, RestartDuringMerge, mergeVars
<1>6. CASE Delivering \/ Completing \/ Rewinding \/ Failing
  BY <1>2, <1>6 DEF Delivering, Completing, Rewinding, Failing, mergeVars
<1>7. QED
  BY <1>3, <1>4, <1>5, <1>6, MergeSteps

\* The tick: it holds the task in merging from its load of the row to the end
\* of the merge, and nobody else takes the task out of merging meanwhile.
LEMMA TickStep ==
  ASSUME MergeInv, [MergeNext]_mvars
  PROVE  tick' \in Tick /\ TickInv'
<1>1. /\ tick \in Tick /\ TickInv /\ TypeInv
      /\ mergers \in Seq(MergerContainer)
      /\ DOMAIN mergers \subseteq DOMAIN mergers'
      /\ task.status \in TaskStatus /\ attempt \in Nat
  BY TypesOfDelivery, MergersStep
  DEF MergeInv, MergeTypes, MergeTypeOK, TypeInv, TypeOK, TaskRow
<1>2. IdleTick \in Tick /\ IdleTick.pc = "idle"
  BY DEF IdleTick, Tick, MergePC, TickResult
<1>3. ASSUME tick' \in Tick, UNCHANGED attempt,
             \/ tick'.pc = "idle"
             \/ UNCHANGED <<tick, task>>
      PROVE  tick' \in Tick /\ TickInv'
  BY <1>1, <1>3 DEF TickInv, TickOwnsMerging
<1>4. CASE Delivering
  <2>1. UNCHANGED <<tick, attempt>>
    BY <1>1, <1>4, AuthorizationsGrow DEF Delivering, mergeVars
  <2>2. tick.pc # "idle" => task'.status = "merging"
    BY <1>1, <1>4, MergingAndDoneRest
    DEF TickInv, TickOwnsMerging, Delivering
  <2>3. QED
    BY <1>1, <2>1, <2>2 DEF TickInv, TickOwnsMerging
<1>5. CASE Completing \/ Rewinding \/ Failing
  BY <1>2, <1>3, <1>5 DEF Completing, Rewinding, Failing, EndTick
<1>6. CASE Pushing \/ Working
  <2>1. UNCHANGED <<tick, task, attempt>>
    BY <1>6 DEF Pushing, PushTarget, DeleteBranch, Working, CloneTarget,
       MergeAndTest, MergerDies, taskVars, vars
  <2>2. QED
    BY <1>1, <1>3, <2>1
<1>7. CASE Waiting
  <2>0. task'.status = task.status
    BY <1>7 DEF Waiting
  <2>1. CASE SpawnMerger
    <3>1. /\ tick' = [pc |-> "record", version |-> tick.version,
                      merger |-> Len(mergers) + 1, result |-> tick.result]
          /\ UNCHANGED attempt /\ tick.pc = "spawn"
      BY <1>1, <2>1 DEF SpawnMerger, Tick, vars
    <3>2. Len(mergers) + 1 \in DOMAIN mergers' /\ Len(mergers) + 1 \in Nat
      BY <1>1, <2>1 DEF SpawnMerger
    <3>3. tick' \in Tick
      BY <1>1, <3>1, <3>2 DEF Tick, MergePC
    <3>4. QED
      BY <1>1, <2>0, <3>1, <3>2, <3>3 DEF TickInv, TickOwnsMerging
  <2>2. ASSUME NEW result \in TickResult, Settle(result), tick.pc # "idle",
               attempt' \in {0, attempt}
        PROVE  tick' \in Tick /\ TickInv'
    <3>1. tick' = [pc |-> "recover", version |-> tick.version,
                   merger |-> tick.merger, result |-> result]
      BY <1>1, <2>2 DEF Settle, Tick
    <3>2. tick' \in Tick
      BY <1>1, <3>1 DEF Tick, MergePC
    <3>3. QED
      BY <1>1, <2>0, <2>2, <3>1, <3>2 DEF TickInv, TickOwnsMerging
  <2>3. CASE SpawnFails \/ AwaitTimesOut
    BY <2>2, <2>3 DEF SpawnFails, AwaitTimesOut, vars, TickResult
  <2>4. CASE RecordSpawn
    <3>1. CASE attempt = 0 /\ attempt' = tick.merger /\ Goto("await")
      <4>1. /\ tick' = [pc |-> "await", version |-> tick.version,
                        merger |-> tick.merger, result |-> tick.result]
            /\ tick.pc = "record"
        BY <1>1, <2>4, <3>1 DEF RecordSpawn, Goto, Tick
      <4>2. tick' \in Tick
        BY <1>1, <4>1 DEF Tick, MergePC
      <4>3. QED
        BY <1>1, <2>0, <3>1, <4>1, <4>2 DEF TickInv, TickOwnsMerging
    <3>2. CASE UNCHANGED attempt /\ Settle("error")
      BY <2>2, <2>4, <3>2 DEF RecordSpawn, TickResult
    <3>3. QED
      BY <2>4, <3>1, <3>2 DEF RecordSpawn
  <2>5. CASE AwaitMergerExit
    <3>1. tick.pc = "await" /\ mergers[tick.merger] \in MergerContainer
      BY <1>1, <2>5 DEF AwaitMergerExit, TickInv
    <3>2. mergers[tick.merger].result \in TickResult
      BY <3>1 DEF MergerContainer, TickResult
    <3>3. QED
      BY <2>2, <2>5, <3>1, <3>2 DEF AwaitMergerExit
  <2>6. CASE ObserveMergerExit
    BY <1>1, <2>0, <2>6
    DEF ObserveMergerExit, mergeVars, TickInv, TickOwnsMerging
  <2>7. CASE RestartDuringMerge
    BY <1>2, <1>3, <2>7 DEF RestartDuringMerge, EndTick
  <2>8. CASE /\ task.status = "merging"
             /\ tick' \in Tick
             /\ tick'.pc \notin {"record", "await"}
             /\ tick'.pc # "idle" => tick'.version # 0
             /\ UNCHANGED <<vars, mergers, mergeAttempts, timeouts>>
    BY <1>1, <2>0, <2>8 DEF TickInv, TickOwnsMerging, vars
  <2>9. QED
    BY <1>7, <2>1, <2>3, <2>4, <2>5, <2>6, <2>7, <2>8 DEF Waiting
<1>8. QED
  BY <1>4, <1>5, <1>6, <1>7, MergeSteps

-----------------------------------------------------------------------------
(* What lands, and what is done                                            *)

\* Only a push adds a landing: of an authorised commit the target lacked.
LEMMA LandingEffect ==
  ASSUME MergeInv, [MergeNext]_mvars
  PROVE  \/ UNCHANGED landed
         \/ \E l \in Landing :
              /\ landed' = landed \union {l}
              /\ Authorized(l.commit, l.base)
              /\ ~IsAncestor(git.history, l.commit, git.target)
              /\ IsAncestor(git.history', l.commit, git.target')
<1>1. CASE Pushing
  <2>1. /\ git \in Git /\ git.history \in Seq(SUBSET Commit)
        /\ git.target \in DOMAIN git.history
        /\ mergers \in Seq(MergerContainer)
    BY DEF MergeInv, MergeTypes, MergeTypeOK, TypeOK, Refs, Git
  <2>2. ASSUME NEW m \in DOMAIN mergers,
               mergers[m].commit \in DOMAIN git.history,
               ~IsAncestor(git.history, mergers[m].commit, git.target),
               git' = [git EXCEPT
                 !.history = WithCommit(git.history,
                               {git.target, mergers[m].commit}),
                 !.target = NextCommit(git.history)],
               landed' = landed \union
                 {[merger |-> m, commit |-> mergers[m].commit,
                   base |-> mergers[m].base]}
        PROVE  \E l \in Landing :
                 /\ landed' = landed \union {l}
                 /\ Authorized(l.commit, l.base)
                 /\ ~IsAncestor(git.history, l.commit, git.target)
                 /\ IsAncestor(git.history', l.commit, git.target')
    <3> DEFINE h == git.history
               commit == mergers[m].commit
               l == [merger |-> m, commit |-> commit,
                     base |-> mergers[m].base]
    <3>1. l \in Landing
      <4>1. mergers[m] \in MergerContainer /\ m \in Nat \ {0}
        BY <2>1
      <4>2. QED
        BY <4>1 DEF Landing, MergerContainer
    <3>2. Authorized(l.commit, l.base)
      BY DEF MergeInv, MergersAuthorized
    <3>3. {git.target, commit} \in SUBSET DOMAIN h
      BY <2>1, <2>2
    <3>4. WithCommit(h, {git.target, commit})[NextCommit(h)]
            = {NextCommit(h)} \union
                UNION { h[p] : p \in {git.target, commit} }
      BY <2>1, <3>3, NewCommitReaches
    <3>5. commit \in h[commit]
      BY <2>2 DEF MergeInv, HistoryIsReflexive, IsAncestor
    <3>6. commit \in WithCommit(h, {git.target, commit})[NextCommit(h)]
      BY <3>4, <3>5
    <3>7. IsAncestor(git.history', l.commit, git.target')
      BY <2>1, <2>2, <3>6 DEF IsAncestor, Git
    <3>8. QED
      BY <2>2, <3>1, <3>2, <3>7
  <2>3. QED
    BY <1>1, <2>2, PushEffect
<1>2. CASE Working
  BY <1>2 DEF Working, CloneTarget, MergeAndTest, MergerDies
<1>3. CASE Delivering \/ Completing \/ Rewinding \/ Failing \/ Waiting
  BY <1>3 DEF Delivering, Completing, Rewinding, Failing, Waiting, mergeVars
<1>4. QED
  BY <1>1, <1>2, <1>3, MergeSteps

\* What is in the target stays there.
LEMMA TargetKeeps ==
  ASSUME MergeInv, [MergeNext]_mvars, NEW c,
         IsAncestor(git.history, c, git.target)
  PROVE  IsAncestor(git.history', c, git.target')
BY GitStep DEF TargetGrows, IsAncestor

\* A commit that is in the target is not pushed again.
LEMMA LandingStep ==
  ASSUME MergeInv, [MergeNext]_mvars
  PROVE  landed' \subseteq Landing /\ LandingInv'
<1>1. LandingInv /\ landed \subseteq Landing
  BY DEF MergeInv, MergeTypes, MergeTypeOK
<1>2. \A l \in landed :
        /\ Authorized(l.commit, l.base)'
        /\ IsAncestor(git.history', l.commit, git.target')
  BY <1>1, AuthorizedForEver, TargetKeeps DEF LandingInv
<1>3. CASE UNCHANGED landed
  BY <1>1, <1>2, <1>3 DEF LandingInv, LandsOnce
<1>4. ASSUME NEW l \in Landing,
             landed' = landed \union {l},
             Authorized(l.commit, l.base),
             ~IsAncestor(git.history, l.commit, git.target),
             IsAncestor(git.history', l.commit, git.target')
      PROVE  landed' \subseteq Landing /\ LandingInv'
  <2>1. Authorized(l.commit, l.base)'
    BY <1>4, AuthorizedForEver
  <2>2. \A k \in landed : k.commit # l.commit
    BY <1>1, <1>4 DEF LandingInv
  <2>3. LandsOnce'
    BY <1>1, <1>4, <2>2 DEF LandingInv, LandsOnce
  <2>4. QED
    BY <1>1, <1>2, <1>4, <2>1, <2>3 DEF LandingInv
<1>5. QED
  BY <1>3, <1>4, LandingEffect

\* A task that is done stays done, its artifact current, its authorization and
\* its completion recorded, and the completion's target in the target branch.
LEMMA DoneStays ==
  ASSUME MergeInv, [MergeNext]_mvars, task.status = "done",
         completions \subseteq completions'
  PROVE  DoneIsProven'
<1>1. /\ TypeInv /\ DoneIsProven /\ tick.pc = "idle"
      /\ \A c \in completions : c.target \in DOMAIN git.history
  BY TypesOfDelivery DEF MergeInv, DoneInv, TickInv, TickOwnsMerging
<1>2. UNCHANGED artifacts /\ authorizations \subseteq authorizations'
  <2>1. CASE Delivering
    BY <1>1, <2>1, MergingAndDoneRest, AuthorizationsGrow DEF Delivering
  <2>2. CASE Pushing
    BY <2>2 DEF Pushing, PushTarget, DeleteBranch, evidenceVars, records
  <2>3. CASE Working
    BY <2>3 DEF Working, CloneTarget, MergeAndTest, MergerDies, vars, records
  <2>4. CASE Waiting
    BY <2>4 DEF Waiting, Bystanders, records
  <2>5. ~Completing /\ ~Rewinding /\ ~Failing
    BY <1>1 DEF Completing, Rewinding, Failing
  <2>6. QED
    BY <2>1, <2>2, <2>3, <2>4, <2>5, MergeSteps
<1>3. PICK c \in completions :
        /\ c.artifact = Len(artifacts)
        /\ c.commit = artifacts[c.artifact].commit
        /\ IsAncestor(git.history, c.target, git.target)
        /\ IsAncestor(git.history, c.commit, c.target)
        /\ IntentsOn(c.artifact) # {}
  BY <1>1 DEF DoneIsProven
<1>4. IsAncestor(git.history', c.target, git.target')
  BY <1>3, TargetKeeps
<1>5. IsAncestor(git.history', c.commit, c.target)
  BY <1>1, <1>3, GitStep DEF HistoryGrows, IsAncestor
<1>6. IntentsOn(c.artifact)' # {}
  BY <1>2, <1>3 DEF IntentsOn
<1>7. CurrentArtifacts' = {Len(artifacts')}
  BY <1>1, <1>2 DEF DoneIsProven, CurrentArtifacts
<1>8. QED
  BY <1>2, <1>3, <1>4, <1>5, <1>6, <1>7 DEF DoneIsProven

\* A task becomes done by a completion that has seen its artifact, the newest,
\* in the target.
LEMMA DoneIsReached ==
  ASSUME MergeInv, Completing
  PROVE  DoneIsProven'
<1>1. TypeInv /\ EvidenceInv /\ task.status = "merging"
  BY TypesOfDelivery DEF MergeInv, Completing
<1>2. /\ CurrentArtifacts = {Len(artifacts)} /\ ArtifactSeen = Len(artifacts)
  BY <1>1, MergingEvidence
<1>3. PICK c \in completions' :
        /\ c.artifact = Len(artifacts)
        /\ c.commit = artifacts[Len(artifacts)].commit
        /\ c.target = git.target
  <2>1. [artifact |-> ArtifactSeen,
         commit |-> artifacts[ArtifactSeen].commit,
         target |-> git.target] \in completions'
    BY CompletionEffect
  <2>2. QED
    BY <1>2, <2>1
<1>4. UNCHANGED <<artifacts, git, authorizations>>
  BY DEF Completing, Bystanders, records
<1>5. IsAncestor(git.history, c.commit, c.target)
  BY <1>2, <1>3 DEF Completing, HasLanded
<1>6. IsAncestor(git.history, c.target, git.target)
  BY <1>1, <1>3 DEF MergeInv, HistoryIsReflexive, TypeInv, Refs
<1>7. IntentsOn(c.artifact) # {}
  BY <1>2, <1>3 DEF Completing, HasLanded, HasMergeEvidence
<1>8. CurrentArtifacts' = {Len(artifacts')} /\ IntentsOn(c.artifact)' # {}
  BY <1>2, <1>4, <1>7 DEF CurrentArtifacts, IntentsOn
<1>9. QED
  BY <1>3, <1>4, <1>5, <1>6, <1>8 DEF DoneIsProven

\* Nothing else leads to done, and completions are for ever.
LEMMA DoneStep ==
  ASSUME MergeInv, [MergeNext]_mvars
  PROVE  completions' \subseteq Completion /\ DoneInv'
<1>1. /\ TypeInv /\ HistoryGrows /\ completions \subseteq Completion
      /\ \A c \in completions : c.target \in DOMAIN git.history
      /\ git.target \in DOMAIN git.history /\ git.target \in Commit
  BY TypesOfDelivery, GitStep
  DEF MergeInv, MergeTypes, MergeTypeOK, DoneInv, TypeInv, TypeOK, Refs, Git
<1>2. CASE UNCHANGED completions /\ task'.status # "done"
  BY <1>1, <1>2 DEF DoneInv, DoneIsProven, HistoryGrows
<1>3. CASE UNCHANGED completions /\ task.status = "done"
  BY <1>1, <1>3, DoneStays DEF DoneInv, HistoryGrows
<1>4. CASE Completing
  <2>1. /\ artifacts[ArtifactSeen].commit \in Commit
        /\ ArtifactSeen \in Nat \ {0}
    BY <1>1, <1>4, MergingEvidence DEF MergeInv, Completing, Artifact
  <2>2. [artifact |-> ArtifactSeen, commit |-> artifacts[ArtifactSeen].commit,
         target |-> git.target] \in Completion
    BY <1>1, <2>1 DEF Completion
  <2>3. \A c \in completions' : c.target \in DOMAIN git.history
    BY <1>1, <1>4, CompletionEffect
  <2>4. QED
    BY <1>1, <1>4, <2>2, <2>3, CompletionEffect, DoneIsReached
    DEF DoneInv, HistoryGrows
<1>5. CASE ~Completing
  <2>1. UNCHANGED completions
    BY <1>5, MergeSteps
    DEF Delivering, Rewinding, Failing, Pushing, PushTarget, DeleteBranch,
        Working, CloneTarget, MergeAndTest, MergerDies, Waiting, mergeVars
  <2>2. task.status # "done" => task'.status # "done"
    <3>1. CASE Delivering
      BY <1>1, <3>1, DoneIsNotEntered DEF Delivering
    <3>2. CASE Rewinding \/ Failing
      BY <3>2, RewindEffect, FailureEffect
    <3>3. CASE Pushing \/ Working \/ Waiting
      BY <3>3 DEF Pushing, PushTarget, DeleteBranch, Working, CloneTarget,
         MergeAndTest, MergerDies, Waiting, vars, taskVars
    <3>4. QED
      BY <1>5, <3>1, <3>2, <3>3, MergeSteps
  <2>3. QED
    BY <1>2, <1>3, <2>1, <2>2
<1>6. QED
  BY <1>4, <1>5

-----------------------------------------------------------------------------
(* The invariant is one                                                    *)

\* The two counters are numbers.
LEMMA CountersStep ==
  ASSUME MergeInv, [MergeNext]_mvars
  PROVE  mergeAttempts' \in Nat /\ timeouts' \in Nat
<1>1. mergeAttempts \in Nat /\ timeouts \in Nat
  BY DEF MergeInv, MergeTypes, MergeTypeOK
<1>2. CASE Waiting
  BY <1>1, <1>2 DEF Waiting, SpawnMerger, SpawnFails, RecordSpawn,
     AwaitMergerExit, AwaitTimesOut, ObserveMergerExit, RestartDuringMerge,
     mergeVars
<1>3. CASE Pushing \/ Working
  BY <1>1, <1>3 DEF Pushing, PushTarget, DeleteBranch, Working, CloneTarget,
     MergeAndTest, MergerDies
<1>4. CASE Delivering \/ Completing \/ Rewinding \/ Failing
  BY <1>1, <1>4 DEF Delivering, Completing, Rewinding, Failing, mergeVars
<1>5. QED
  BY <1>2, <1>3, <1>4, MergeSteps

\* Every step preserves the invariant.
LEMMA MergeInvStep == MergeInv /\ [MergeNext]_mvars => MergeInv'
<1> SUFFICES ASSUME MergeInv, [MergeNext]_mvars
             PROVE  MergeInv'
  OBVIOUS
<1>1. MergeTypes'
  BY DeliveryTypesStep, MergersStep, TickStep, LandingStep, DoneStep,
     CountersStep DEF MergeTypes, MergeTypeOK
<1>2. QED
  BY <1>1, EvidenceMergeStep, DescentMergeStep, GitStep, TickStep,
     MergersStep, LandingStep, DoneStep DEF MergeInv

\* The invariant of merging holds with any number of mergers, however they
\* are delayed, lost to a timeout or orphaned by a restart.
THEOREM MergeCorrectness == MergeSpec => []MergeInv
BY MergeInitInv, MergeInvStep, PTL DEF MergeSpec

\* All rows of the composed system are well formed.
COROLLARY MergeTypeSafety == MergeSpec => []MergeTypeOK
<1>1. MergeInv => MergeTypeOK
  BY DEF MergeInv, MergeTypes
<1>2. QED
  BY <1>1, MergeCorrectness, PTL

\* While a tick is in executeMerge nobody else takes the task out of merging.
THEOREM TickSafety == MergeSpec => []TickOwnsMerging
<1>1. MergeInv => TickOwnsMerging
  BY DEF MergeInv, TickInv
<1>2. QED
  BY <1>1, MergeCorrectness, PTL

\* A parked delivery has the evidence its status stands for also beside the
\* mergers.
THEOREM MergingEvidenceSafety == MergeSpec => []ParkedDeliveryHasEvidence
<1>1. MergeInv => ParkedDeliveryHasEvidence
  BY DEF MergeInv, EvidenceInv
<1>2. QED
  BY <1>1, MergeCorrectness, PTL

-----------------------------------------------------------------------------
(* Host rework beside mergers                                              *)

\* An attempt is recorded in merging only; others end it.
LEMMA AttemptStep ==
  ASSUME TickInv, Waiting
  PROVE  attempt' \in {0, attempt} \/ task.status = "merging"
BY DEF Waiting, SpawnMerger, SpawnFails, RecordSpawn, AwaitMergerExit,
   AwaitTimesOut, ObserveMergerExit, RestartDuringMerge, TickInv,
   TickOwnsMerging, vars

\* Mergers, also those nobody waits for, leave sessions alone.
LEMMA HostReworkMergeStep ==
  ASSUME MergeInv, HostReworkIsExclusive, [MergeNext]_mvars
  PROVE  HostReworkIsExclusive'
<1>1. TypeInv /\ OneCurrent /\ TickInv
  BY TypesOfDelivery DEF MergeInv, EvidenceInv
<1>2. CASE Delivering
  BY <1>1, <1>2, HostReworkStep DEF Delivering
<1>3. CASE Completing \/ Rewinding \/ Failing
  <2>1. UNCHANGED sessions
    BY <1>3 DEF Completing, Rewinding, Failing, Bystanders
  <2>2. task.status = "merging"
    BY <1>1, <1>3
    DEF Completing, Rewinding, Failing, TickInv, TickOwnsMerging
  <2>3. task'.status \in {"done", "in_progress", "failed", "merging"}
    BY <1>3, <2>2, CompletionEffect, RewindEffect, FailureEffect
  <2>4. QED
    BY <2>1, <2>2, <2>3, NoSession
<1>4. CASE Pushing \/ Working
  <2>1. UNCHANGED <<task, artifacts, sessions, attempt>>
    BY <1>4
    DEF Pushing, Working, PushTarget, DeleteBranch, CloneTarget,
        MergeAndTest, MergerDies, taskVars, evidenceVars, vars
  <2>2. QED
    BY <2>1 DEF HostReworkIsExclusive, ActiveSessions, CurrentArtifacts
<1>5. CASE Waiting
  <2>1. UNCHANGED <<task, artifacts, sessions>>
    BY <1>5 DEF Waiting, Bystanders
  <2>2. CASE task.status = "merging"
    BY <2>1, <2>2, NoSession
  <2>3. CASE attempt' \in {0, attempt}
    BY <2>1, <2>3
    DEF HostReworkIsExclusive, ActiveSessions, CurrentArtifacts
  <2>4. QED
    BY <1>1, <1>5, <2>2, <2>3, AttemptStep
<1>6. QED
  BY <1>2, <1>3, <1>4, <1>5, MergeSteps

\* A host session is the only one, on the newest artifact, and no merger attempt
\* is open beside it, although one whose wait timed out stays open when the task
\* leaves merging (createHostReworkSession).
THEOREM HostReworkBesideMergers == MergeSpec => []HostReworkIsExclusive
<1>1. MergeInit => HostReworkIsExclusive
  BY HostReworkInit DEF MergeInit
<1>2. QED
  BY <1>1, HostReworkMergeStep, MergeCorrectness, PTL DEF MergeSpec

\* Whatever reaches the target branch was verified and authorised, at that
\* commit and base, and never sent back.
THEOREM LandingsAreAuthorized == MergeSpec => []LandedWasAuthorized
<1>1. MergeInv => LandedWasAuthorized
  <2> SUFFICES ASSUME MergeInv, NEW l \in landed
               PROVE  \E i \in authorizations :
                        /\ i.commit = l.commit
                        /\ i.base = l.base
                        /\ PassingVerifications(i.artifact) # {}
                        /\ ReworksOn(i.artifact) = {}
    BY DEF LandedWasAuthorized
  <2>1. PICK i \in authorizations : i.commit = l.commit /\ i.base = l.base
    BY DEF MergeInv, LandingInv, Authorized
  <2>2. /\ PassingVerifications(i.artifact) # {}
        /\ ReworksOn(i.artifact) = {}
    BY DEF MergeInv, EvidenceInv, EvidenceIsConsistent
  <2>3. QED
    BY <2>1, <2>2
<1>2. QED
  BY <1>1, MergeCorrectness, PTL

\* An artifact is merged into the target at most once.
THEOREM LandingIsOnce == MergeSpec => []LandsOnce
<1>1. MergeInv => LandsOnce
  BY DEF MergeInv, LandingInv
<1>2. QED
  BY <1>1, MergeCorrectness, PTL

\* A task is done only when the target branch contains its authorised, newest
\* artifact, and a completion record says so.
THEOREM DoneSafety == MergeSpec => []DoneIsProven
<1>1. MergeInv => DoneIsProven
  BY DEF MergeInv, DoneInv
<1>2. QED
  BY <1>1, MergeCorrectness, PTL

-----------------------------------------------------------------------------
(* Decisions see their state                                               *)
(*                                                                         *)
(* A retry after a failed push writes back the version the tick loaded, so *)
(* a version may come a second time.  But no client composes a request in  *)
(* merging: what requests name is older than what the tick loaded.         *)

RequestsAreFresh ==
  \A i \in DOMAIN requests :
    /\ requests[i].version <= task.version
    /\ requests[i].version = task.version => requests[i].observed = rowWrites
    /\ task.status = "merging" => requests[i].version < task.version
    /\ tick.pc # "idle" => requests[i].version < tick.version

\* No requests at the start.
LEMMA FreshInit == MergeInit => RequestsAreFresh
BY DEF MergeInit, Init, RequestsAreFresh

\* The tick loads a version when it begins, in merging, and then keeps it.
LEMMA TickKeepsVersion ==
  ASSUME MergeInv, [MergeNext]_mvars, tick'.pc # "idle"
  PROVE  \/ task.status = "merging" /\ tick'.version = task.version
         \/ tick.pc # "idle" /\ tick'.version = tick.version
<1>1. tick \in Tick
  BY DEF MergeInv, MergeTypes, MergeTypeOK
<1>2. CASE UNCHANGED tick
  BY <1>2
<1>3. CASE BeginMerge
  BY <1>2, <1>3 DEF BeginMerge, IdleTick
<1>4. CASE SpawnMerger \/ SpawnFails \/ RecordSpawn \/ AwaitMergerExit
           \/ AwaitTimesOut
  BY <1>1, <1>4 DEF SpawnMerger, SpawnFails, RecordSpawn, AwaitMergerExit,
     AwaitTimesOut, Goto, Settle, Tick
<1>5. CASE PreflightMergeArtifact \/ RecoverAfterDispatch
           \/ RouteMergeResult \/ RestartDuringMerge
  BY <1>1, <1>5 DEF PreflightMergeArtifact, RecoverAfterDispatch,
     RouteMergeResult, RestartDuringMerge, Goto, EndTick, IdleTick, Tick
<1>6. CASE DeliveryStep \/ MergerStep \/ ObserveMergerExit \/ UNCHANGED mvars
  BY <1>2, <1>6 DEF DeliveryStep, MergerStep, MergerRuns, CloneTarget,
     MergeAndTest, PushTarget, DeleteBranch, MergerDies, ObserveMergerExit,
     mergeVars, mvars
<1>7. QED
  BY <1>3, <1>4, <1>5, <1>6 DEF MergeNext, ExecuteMerge

\* A row is written with the next version, or in a retry with the version the
\* tick holds, or not at all.
LEMMA RowIsWritten ==
  ASSUME MergeInv, [MergeNext]_mvars
  PROVE  \/ UNCHANGED <<task, rowWrites>>
         \/ task'.version = task.version + 1 /\ rowWrites' = rowWrites + 1
         \/ /\ tick.pc # "idle" /\ tick'.pc = "idle"
            /\ task'.version = tick.version
<1>1. TypeInv /\ task \in TaskRow
  BY TypesOfDelivery DEF MergeInv, TypeInv, TypeOK
<1>2. ASSUME NEW status, MoveTo(status)
      PROVE  task'.version = task.version + 1 /\ rowWrites' = rowWrites + 1
  BY <1>1, <1>2 DEF MoveTo, TaskRow
<1>3. CASE Delivering
  BY <1>1, <1>3, RowIsWrittenOnce DEF Delivering
<1>4. CASE Completing \/ Rewinding
  BY <1>2, <1>4 DEF Completing, CompleteMerge, Rewinding, RewindMerging
<1>5. CASE Failing
  <2>1. tick.pc # "idle" /\ tick'.pc = "idle"
    BY <1>5 DEF Failing, EndTick, IdleTick
  <2>2. CASE SaveTask
    BY <1>1, <2>1, <2>2 DEF SaveTask, TaskRow
  <2>3. CASE FailTask
    BY <1>2, <2>3 DEF FailTask, taskVars
  <2>4. QED
    BY <1>5, <2>2, <2>3 DEF Failing
<1>6. CASE Pushing \/ Working \/ Waiting
  BY <1>6 DEF Pushing, PushTarget, DeleteBranch, Working, CloneTarget,
     MergeAndTest, MergerDies, Waiting, vars, taskVars
<1>7. QED
  BY <1>3, <1>4, <1>5, <1>6, MergeSteps

\* Requests are composed in the delivery protocol, and not in merging.
LEMMA RequestsStep ==
  ASSUME MergeInv, [MergeNext]_mvars
  PROVE  \/ UNCHANGED requests
         \/ /\ task.status # "merging"
            /\ UNCHANGED <<task, rowWrites, tick>>
            /\ \E new : /\ requests' = Append(requests, new)
                        /\ new.version = task.version
                        /\ new.observed = rowWrites
<1>1. CASE Delivering
  <2>1. CASE ComposeRequest
    BY <1>1, <2>1 DEF Delivering, mergeVars, ComposeRequest, OpsOffered
  <2>2. QED
    BY <1>1, <2>1, WhoComposes DEF Delivering
<1>2. CASE ~Delivering
  BY <1>2, MergeSteps
  DEF Completing, Rewinding, Failing, Pushing, PushTarget, DeleteBranch,
      Working, CloneTarget, MergeAndTest, MergerDies, Waiting, Bystanders,
      vars, evidenceVars
<1>3. QED
  BY <1>1, <1>2

\* Every step preserves it.
LEMMA FreshStep ==
  MergeInv /\ RequestsAreFresh /\ [MergeNext]_mvars => RequestsAreFresh'
<1> SUFFICES ASSUME MergeInv, RequestsAreFresh, [MergeNext]_mvars
             PROVE  RequestsAreFresh'
  OBVIOUS
<1>1. /\ requests \in Seq(Request) /\ task.version \in Nat
      /\ tick.version \in Nat /\ task \in TaskRow /\ tick \in Tick
      /\ tick.pc # "idle" => task.status = "merging"
  BY DEF MergeInv, MergeTypes, MergeTypeOK, TypeOK, TaskRow, Tick, TickInv,
         TickOwnsMerging
<1>2. \A i \in DOMAIN requests : requests[i].version \in Nat
  <2>1. \A i \in DOMAIN requests : requests[i] \in Request
    BY <1>1
  <2>2. QED
    BY <2>1 DEF Request
<1>3. CASE UNCHANGED requests
  <2> SUFFICES ASSUME NEW i \in DOMAIN requests
               PROVE  /\ requests[i].version <= task'.version
                      /\ requests[i].version = task'.version
                           => requests[i].observed = rowWrites'
                      /\ task'.status = "merging"
                           => requests[i].version < task'.version
                      /\ tick'.pc # "idle" => requests[i].version < tick'.version
    BY <1>3 DEF RequestsAreFresh
  <2>1. /\ requests[i].version <= task.version
        /\ requests[i].version = task.version
             => requests[i].observed = rowWrites
        /\ task.status = "merging" => requests[i].version < task.version
        /\ tick.pc # "idle" => requests[i].version < tick.version
    BY DEF RequestsAreFresh
  <2>2. tick'.pc # "idle" => requests[i].version < tick'.version
    BY <2>1, TickKeepsVersion
  <2>3. CASE UNCHANGED <<task, rowWrites>>
    BY <2>1, <2>2, <2>3
  <2>4. CASE task'.version = task.version + 1
    BY <1>1, <1>2, <2>1, <2>2, <2>4
  <2>5. CASE tick.pc # "idle" /\ task'.version = tick.version
    BY <1>1, <1>2, <2>1, <2>2, <2>5
  <2>6. QED
    BY <2>3, <2>4, <2>5, RowIsWritten
<1>4. CASE /\ task.status # "merging"
           /\ UNCHANGED <<task, rowWrites, tick>>
           /\ \E new : /\ requests' = Append(requests, new)
                       /\ new.version = task.version
                       /\ new.observed = rowWrites
  <2>1. PICK new : /\ requests' = Append(requests, new)
                   /\ new.version = task.version
                   /\ new.observed = rowWrites
    BY <1>4
  <2>2. \A i \in DOMAIN requests' :
          \/ i \in DOMAIN requests /\ requests'[i] = requests[i]
          \/ requests'[i] = new
    BY <1>1, <2>1
  <2>3. QED
    BY <1>1, <1>4, <2>1, <2>2 DEF RequestsAreFresh
<1>5. QED
  BY <1>3, <1>4, RequestsStep

\* A client's decision takes effect only if nobody has written the row since
\* the client saw it, however late or often the request arrives, and although
\* a retry of the merger may write an old version back.
THEOREM DecisionsAreInformed == MergeSpec => DecisionsSeeTheirState
<1>1. MergeInv /\ RequestsAreFresh /\ [MergeNext]_mvars =>
        [\A i \in DOMAIN requests :
           ClientKey(i) \in DecisionKeys' \ DecisionKeys
             => requests[i].observed = rowWrites]_vars
  <2> SUFFICES ASSUME MergeInv, RequestsAreFresh, [MergeNext]_mvars,
                      NEW i \in DOMAIN requests,
                      ClientKey(i) \in DecisionKeys' \ DecisionKeys
               PROVE  requests[i].observed = rowWrites
    OBVIOUS
  <2>1. ~UNCHANGED records
    BY DEF records, DecisionKeys
  <2>2. Delivering
    BY <2>1, MergeSteps
    DEF Completing, Rewinding, Failing, Pushing, PushTarget, DeleteBranch,
        Working, CloneTarget, MergeAndTest, MergerDies, Waiting, Bystanders,
        vars, evidenceVars
  <2>3. MatchesTask(requests[i])
    BY <2>2, ClientDecides DEF Delivering
  <2>4. QED
    BY <2>3 DEF RequestsAreFresh, MatchesTask
<1>2. QED
  BY <1>1, FreshInit, FreshStep, MergeCorrectness, PTL
  DEF MergeSpec, DecisionsSeeTheirState

-----------------------------------------------------------------------------
(* The contract of the delivery                                            *)
(*                                                                         *)
(* Every step is one of DeliveryContract or writes nothing it speaks of.   *)

Delivered == <<Versions, landed, Finished>>

\* Versions are what artifacts, verdicts and authorizations say.
LEMMA VersionsRest ==
  ASSUME UNCHANGED <<artifacts, verifications, authorizations>>
  PROVE  UNCHANGED Versions
BY DEF Versions, Stage, IntentsOn, PassingVerifications, IsCurrent,
   CurrentArtifacts

\* A task that is not done, and does not become it, is not finished.
LEMMA NotFinished ==
  ASSUME task.status # "done", task'.status # "done"
  PROVE  Finished = 0 /\ Finished' = 0
BY DEF Finished

\* A version by its artifact.
LEMMA VersionOf ==
  ASSUME NEW a \in DOMAIN artifacts
  PROVE  /\ DOMAIN Versions = DOMAIN artifacts
         /\ Versions[a].commit = artifacts[a].commit
         /\ Versions[a].base = artifacts[a].base
         /\ Versions[a].stage = Stage(a)
         /\ Versions[a].state = "open" <=> a \in CurrentArtifacts
BY DEF Versions, IsCurrent

\* There is a version for every artifact.
LEMMA VersionsTyped ==
  artifacts \in Seq(Artifact) =>
    Versions \in Seq(Contract!Version) /\ Len(Versions) = Len(artifacts)
<1> SUFFICES ASSUME artifacts \in Seq(Artifact)
             PROVE  /\ Versions \in Seq(Contract!Version)
                    /\ Len(Versions) = Len(artifacts)
  OBVIOUS
<1>1. /\ Len(artifacts) \in Nat /\ DOMAIN artifacts = 1 .. Len(artifacts)
      /\ \A a \in DOMAIN artifacts : artifacts[a] \in Artifact
  OBVIOUS
<1>2. \A a : Stage(a) \in {"offered", "accepted", "authorised"}
  BY DEF Stage
<1>3. \A a \in DOMAIN artifacts : Versions[a] \in Contract!Version
  BY <1>1, <1>2 DEF Versions, Contract!Version, Artifact, Commit,
                   IsCurrent
<1>4. Versions \in [1 .. Len(artifacts) -> Contract!Version]
  BY <1>1, <1>3 DEF Versions
<1> HIDE DEF Contract!Version
<1> QED  BY <1>1, <1>4, SeqDef, LenProperties

\* The current artifact is the open version.
LEMMA OpenIsCurrent == Contract!Open = CurrentArtifacts
BY DEF Contract!Open, Versions, IsCurrent, CurrentArtifacts

\* An artifact that is invalidated is withdrawn; its records stay.
LEMMA InvalidationWithdraws ==
  ASSUME TypeInv, NEW a \in CurrentArtifacts, Invalidate(a),
         UNCHANGED <<authorizations, landed>>,
         \A b : PassingVerifications(b)' = PassingVerifications(b),
         task.status # "done", task'.status # "done"
  PROVE  Contract!Withdraw(a)
<1>1. a \in DOMAIN artifacts /\ Finished = 0 /\ Finished' = 0
  BY NotFinished DEF CurrentArtifacts
<1>2. /\ DOMAIN artifacts' = DOMAIN artifacts
      /\ \A b \in DOMAIN artifacts :
           /\ artifacts'[b].commit = artifacts[b].commit
           /\ artifacts'[b].base = artifacts[b].base
           /\ artifacts'[b].state = IF b = a THEN "invalidated"
                                             ELSE artifacts[b].state
  BY DEF Invalidate, TypeInv, TypeOK, Artifact
<1>3. \A b \in DOMAIN artifacts : Stage(b)' = Stage(b)
  BY DEF Stage, IntentsOn
<1>4. Versions' = [Versions EXCEPT ![a].state = "withdrawn"]
  <2>1. \A b \in DOMAIN artifacts :
          (b \in CurrentArtifacts)' <=> b \in CurrentArtifacts /\ b # a
    BY <1>2 DEF CurrentArtifacts
  <2> QED  BY <1>1, <1>2, <1>3, <2>1 DEF Versions, IsCurrent
<1> QED
  BY <1>1, <1>4, OpenIsCurrent DEF Contract!Withdraw, Versions

\* The gate offers what it freezes: nobody has a record of it yet.
LEMMA FreezingOffers ==
  ASSUME TypeInv, EvidenceInv, FreezeDeliveryArtifact, UNCHANGED landed,
         TypeInv', task'.status # "done"
  PROVE  Contract!Offer
<1> DEFINE k == Len(artifacts) + 1
<1>1. /\ artifacts \in Seq(Artifact) /\ CurrentArtifacts = {}
      /\ task.status = "testing_ready"
      /\ UNCHANGED <<verifications, authorizations>>
  BY DEF FreezeDeliveryArtifact, records, TypeInv, TypeOK
<1>2. /\ Len(artifacts) \in Nat /\ DOMAIN artifacts = 1 .. Len(artifacts)
      /\ Len(artifacts') = k /\ DOMAIN artifacts' = 1 .. k
      /\ \A b \in DOMAIN artifacts : artifacts'[b] = artifacts[b]
      /\ artifacts'[k].state = "current"
  BY <1>1 DEF FreezeDeliveryArtifact
<1>3. \A b : Stage(b)' = Stage(b)
  BY <1>1 DEF Stage, IntentsOn, PassingVerifications
<1>4. Stage(k) = "offered"
  <2>1. k \notin DOMAIN artifacts
    BY <1>2
  <2>2. IntentsOn(k) = {} /\ PassingVerifications(k) = {}
    BY <2>1 DEF EvidenceInv, RecordsReferToArtifacts, IntentsOn,
                PassingVerifications
  <2> QED  BY <2>2 DEF Stage
<1>5. /\ DOMAIN Versions = 1 .. Len(artifacts) /\ DOMAIN Versions' = 1 .. k
      /\ \A b \in DOMAIN artifacts : Versions'[b] = Versions[b]
      /\ Versions'[k].stage = "offered" /\ Versions'[k].state = "open"
  BY <1>2, <1>3, <1>4 DEF Versions, IsCurrent, CurrentArtifacts
<1>6. Versions \in Seq(Contract!Version) /\ Len(Versions) = Len(artifacts)
  BY <1>1, <1>2, VersionsTyped
<1>7. Versions' \in Seq(Contract!Version) /\ Len(Versions') = k
  <2>1. artifacts' \in Seq(Artifact)
    BY DEF TypeInv, TypeOK
  <2>2. Versions' \in Seq(Contract!Version) /\ Len(Versions') = Len(artifacts')
    <3>1. (artifacts \in Seq(Artifact) =>
             Versions \in Seq(Contract!Version) /\ Len(Versions) = Len(artifacts))'
      BY VersionsTyped, PTL
    <3> QED  BY <2>1, <3>1
  <2> QED  BY <1>2, <2>2
<1> DEFINE version == Versions'[k]
<1>8. Versions' = Append(Versions, version)
  <2> HIDE DEF k
  <2>1. version \in Contract!Version
    BY <1>2, <1>5, <1>7, ElementOfSeq DEF k
  <2>2. /\ Append(Versions, version) \in Seq(Contract!Version)
        /\ Len(Append(Versions, version)) = k
        /\ \A b \in 1 .. Len(artifacts) :
             Append(Versions, version)[b] = Versions[b]
        /\ Append(Versions, version)[k] = version
    BY <1>6, <2>1, AppendProperties DEF k
  <2>3. \A b \in 1 .. k : Append(Versions, version)[b] = Versions'[b]
    BY <1>2, <1>5, <2>2 DEF k
  <2> QED  BY <1>7, <2>2, <2>3, SeqEqual
<1>9. Finished = 0 /\ Finished' = 0 /\ Contract!Open = {}
  BY <1>1, NotFinished, OpenIsCurrent
<1>10. version \in Contract!Version
  <2> HIDE DEF k
  <2> QED  BY <1>2, <1>7, ElementOfSeq DEF k
<1> QED
  BY <1>1, <1>5, <1>6, <1>7, <1>8, <1>9, <1>10 DEF Contract!Offer

\* A client or a policy judges, authorises or withdraws the open version.
LEMMA DecidingAdvances ==
  ASSUME TypeInv, EvidenceInv, NEW a \in CurrentArtifacts, Deciding(a),
         UNCHANGED landed, task'.status # "done"
  PROVE  Contract!Accept(a) \/ Contract!Authorise(a) \/ Contract!Withdraw(a)
<1>1. /\ task.status \in {"verification_ready", "integration_ready"}
      /\ CurrentArtifacts = {a} /\ a = Len(artifacts)
  BY DecidingMoves DEF EvidenceInv, ParkedDeliveryHasEvidence
<1>2. /\ Finished = 0 /\ Finished' = 0 /\ a \in DOMAIN artifacts
      /\ a \in Contract!Open
  BY <1>1, NotFinished, OpenIsCurrent DEF CurrentArtifacts
<1>3. ASSUME NEW stage, Stage(a)' = stage, UNCHANGED artifacts,
             \A b \in DOMAIN artifacts : b # a => Stage(b)' = Stage(b)
      PROVE  Versions' = [Versions EXCEPT ![a].stage = stage]
  BY <1>2, <1>3 DEF Versions, IsCurrent, CurrentArtifacts
<1>4. CASE \E key : VerifyPassed(a, key)
  <2>1. PICK key : VerifyPassed(a, key)
    BY <1>4
  <2>2. /\ UNCHANGED <<artifacts, authorizations>>
        /\ task.status = "verification_ready"
    BY <2>1 DEF VerifyPassed
  <2> DEFINE v == [artifact |-> a, commit |-> artifacts[a].commit,
                   result |-> "passed", key |-> key]
  <2>3. verifications' = verifications \union {v}
    BY <2>1 DEF VerifyPassed
  <2>4. VerdictsOn(a) = {} /\ PassingVerifications(a) = {}
    BY <1>1, <2>2 DEF EvidenceInv, ParkedDeliveryHasEvidence, VerdictsOn,
                      PassingVerifications
  <2>5. IntentsOn(a) = {} /\ IntentsOn(a)' = {}
    BY <2>2, <2>4 DEF EvidenceInv, EvidenceIsConsistent, IntentsOn
  <2>6. Stage(a) = "offered" /\ Stage(a)' = "accepted"
    <3>1. v \in PassingVerifications(a)'
      BY <2>3 DEF PassingVerifications
    <3> QED  BY <2>4, <2>5, <3>1 DEF Stage
  <2>7. \A b \in DOMAIN artifacts : b # a => Stage(b)' = Stage(b)
    BY <2>2, <2>3 DEF Stage, PassingVerifications, IntentsOn
  <2>8. Versions' = [Versions EXCEPT ![a].stage = "accepted"]
    BY <1>3, <2>2, <2>6, <2>7
  <2>9. Versions[a].stage = "offered"
    BY <1>2, <2>6, VersionOf
  <2> QED  BY <1>2, <2>8, <2>9 DEF Contract!Accept, Contract!Advance
<1>5. CASE \E key : AuthorizeIntegration(a, key)
  <2>1. PICK key : AuthorizeIntegration(a, key)
    BY <1>5
  <2>2. /\ UNCHANGED <<artifacts, verifications>>
        /\ task.status = "integration_ready"
        /\ PassingVerifications(a) # {}
    BY <2>1 DEF AuthorizeIntegration, CanAuthorize
  <2>3. \E i : i.artifact = a /\ authorizations' = authorizations \union {i}
    BY <2>1 DEF AuthorizeIntegration
  <2>4. IntentsOn(a) = {}
    BY <1>1, <2>2 DEF EvidenceInv, ParkedDeliveryHasEvidence
  <2>5. IntentsOn(a)' # {}
    BY <2>3 DEF IntentsOn
  <2>6. Stage(a) = "accepted" /\ Stage(a)' = "authorised"
    BY <2>2, <2>4, <2>5 DEF Stage
  <2>7. \A b \in DOMAIN artifacts : b # a => Stage(b)' = Stage(b)
    BY <2>2, <2>3 DEF Stage, PassingVerifications, IntentsOn
  <2>8. Versions' = [Versions EXCEPT ![a].stage = "authorised"]
    BY <1>3, <2>2, <2>6, <2>7
  <2>9. Versions[a].stage = "accepted"
    BY <1>2, <2>6, VersionOf
  <2> QED  BY <1>2, <2>8, <2>9 DEF Contract!Authorise, Contract!Advance
<1>6. ASSUME Invalidate(a), UNCHANGED authorizations,
             \A b : PassingVerifications(b)' = PassingVerifications(b)
      PROVE  Contract!Withdraw(a)
  BY <1>1, <1>6, InvalidationWithdraws
<1>7. CASE \E key : RejectDriftedArtifact(a, key)
  BY <1>6, <1>7 DEF RejectDriftedArtifact, records, PassingVerifications
<1>8. CASE \E key, actor, mode : RequestDeliveryRework(a, mode, actor, key)
  BY <1>6, <1>8 DEF RequestDeliveryRework, SendBack, PassingVerifications
<1>9. CASE \E key, actor, mode : VerifyFailed(a, mode, actor, key)
  <2>1. PICK key, actor, mode : VerifyFailed(a, mode, actor, key)
    BY <1>9
  <2>2. verifications' = verifications \union
          {[artifact |-> a, commit |-> artifacts[a].commit,
            result |-> "failed", key |-> key]}
    BY <2>1 DEF VerifyFailed
  <2>3. \A b : PassingVerifications(b)' = PassingVerifications(b)
    BY <2>2 DEF PassingVerifications
  <2> QED  BY <1>6, <2>1, <2>3 DEF VerifyFailed, SendBack
<1> QED
  BY <1>4, <1>5, <1>7, <1>8, <1>9 DEF Deciding

\* A step of the delivery protocol is one of the contract, or none.
LEMMA DeliveryKeepsContract ==
  ASSUME TypeInv, TypeInv', EvidenceInv, [Next]_vars, UNCHANGED landed
  PROVE  [Contract!Next]_Delivered
<1>1. ASSUME UNCHANGED <<artifacts, verifications, authorizations>>,
             \/ task'.status = task.status
             \/ task.status # "done" /\ task'.status # "done"
      PROVE  UNCHANGED Delivered
  BY <1>1, VersionsRest DEF Delivered, Finished
<1>2. CASE Resting
  <2>1. UNCHANGED <<verifications, authorizations>>
    BY <1>2 DEF Resting, StartRework, BeginGate, DiscardGateResult,
       FinishSubtasks, ComposeRequest, CommentTask, BranchAdvances,
       TargetAdvances, Crash, records
  <2> QED  BY <1>1, <1>2, <2>1, RestingEffect
<1>3. CASE UNCHANGED vars
  BY <1>1, <1>3 DEF vars, records
<1>4. CASE task.status = "done" /\ Next /\ ~Resting
  <2>1. ~Moving /\ ~Archive
    <3>1. ~Moving
      BY <1>4, MovingEffect DEF ValidTransitions
    <3> QED  BY <1>4, <3>1 DEF Archive, ArchiveAllowed
  <2>2. /\ \A a \in CurrentArtifacts : ~Deciding(a)
        /\ \A s \in ActiveSessions : ~Closing(s)
    BY <1>4, DecidingMoves, ClosingMoves
  <2> QED  BY <1>4, <2>1, <2>2, StepsOfDelivery
<1>5. CASE task.status # "done" /\ Next
  <2>1. task'.status # "done"
    BY <1>5, DoneIsNotEntered
  <2>2. CASE FreezeDeliveryArtifact
    BY <2>1, <2>2, FreezingOffers DEF Contract!Next
  <2>3. CASE Moving /\ ~FreezeDeliveryArtifact
    <3>1. UNCHANGED <<artifacts, verifications, authorizations>>
      BY <2>3 DEF Moving, FinishQuickFix, FailWork, PrepareDelivery,
         FailEmptyFeature, FailOnConstraints, PauseOnConstraints,
         ProcessQuickFix, BeginGateMismatch, RecordPreliminaryGateFailure,
         RetryPausedPreliminaryGate, ResumeTask, RetryTask, records
    <3> QED  BY <1>1, <1>5, <2>1, <3>1
  <2>4. CASE Archive
    <3>1. UNCHANGED <<verifications, authorizations>>
      BY <2>4 DEF Archive, records
    <3>2. CASE UNCHANGED artifacts
      BY <1>1, <1>5, <2>1, <3>1, <3>2
    <3>3. CASE \E a \in CurrentArtifacts : Invalidate(a)
      <4>1. PICK a \in CurrentArtifacts : Invalidate(a)
        BY <3>3
      <4>2. a \in DOMAIN Versions
        BY DEF CurrentArtifacts, Versions
      <4>3. \A b : PassingVerifications(b)' = PassingVerifications(b)
        BY <3>1 DEF PassingVerifications
      <4>4. Contract!Withdraw(a)
        BY <1>5, <2>1, <3>1, <4>1, <4>3, InvalidationWithdraws
      <4> QED  BY <4>2, <4>4 DEF Contract!Next
    <3> QED
      BY <2>4, <3>2, <3>3
      DEF Archive, ArchiveParkedDelivery, ArchiveHostRework, ArchiveOther
  <2>5. CASE \E a \in CurrentArtifacts : Deciding(a)
    <3>1. PICK a \in CurrentArtifacts : Deciding(a)
      BY <2>5
    <3>2. a \in DOMAIN Versions
      BY DEF CurrentArtifacts, Versions
    <3> QED  BY <2>1, <3>1, <3>2, DecidingAdvances DEF Contract!Next
  <2>6. CASE \E s \in ActiveSessions : Closing(s)
    <3>1. UNCHANGED <<artifacts, verifications, authorizations>>
      BY <2>6, ClosingMoves
      DEF Closing, SubmitHostRework, AbandonHostRework, records
    <3> QED  BY <1>1, <1>5, <2>1, <3>1
  <2>7. CASE Resting
    BY <1>2, <2>7
  <2> QED
    BY <1>5, <2>2, <2>3, <2>4, <2>5, <2>6, <2>7, StepsOfDelivery
<1> QED
  BY <1>2, <1>3, <1>4, <1>5

\* A merger lands an authorised version, the first time.
LEMMA PushingLands ==
  ASSUME MergeInv, [MergeNext]_mvars, Pushing
  PROVE  [Contract!Next]_Delivered
<1>1. UNCHANGED <<artifacts, verifications, authorizations, task>>
  BY DEF Pushing, PushTarget, DeleteBranch, taskVars, evidenceVars, records
<1>2. UNCHANGED <<Versions, Finished>>
  BY <1>1, VersionsRest DEF Finished
<1>3. CASE UNCHANGED landed
  BY <1>2, <1>3 DEF Delivered
<1>4. ASSUME NEW l \in Landing, landed' = landed \union {l},
             Authorized(l.commit, l.base),
             ~IsAncestor(git.history, l.commit, git.target)
      PROVE  Contract!Next
  <2>1. PICK i \in authorizations : i.commit = l.commit /\ i.base = l.base
    BY <1>4 DEF Authorized
  <2> DEFINE n == i.artifact
  <2>2. /\ n \in DOMAIN artifacts
        /\ i.commit = artifacts[n].commit /\ i.base = artifacts[n].base
    BY DEF MergeInv, EvidenceInv, RecordsReferToArtifacts,
           EvidenceIsConsistent
  <2>3. Stage(n) = "authorised"
    BY DEF Stage, IntentsOn
  <2>4. /\ n \in DOMAIN Versions /\ Versions[n].stage = "authorised"
        /\ Versions[n].commit = l.commit /\ Versions[n].base = l.base
    BY <2>1, <2>2, <2>3, VersionOf
  <2>5. \A k \in landed : k.commit # l.commit
    BY <1>4 DEF MergeInv, LandingInv
  <2>6. l \in landed'
    BY <1>4
  <2> HIDE DEF n
  <2>7. Contract!Land(n)
    BY <1>2, <1>4, <2>4, <2>5, <2>6 DEF Contract!Land
  <2> QED  BY <2>4, <2>7 DEF Contract!Next
<1> QED
  BY <1>3, <1>4, LandingEffect

\* A task is done with the version it is merging.
LEMMA CompletingFinishes ==
  ASSUME MergeInv, Completing
  PROVE  Contract!Next
<1>1. TypeInv /\ EvidenceInv /\ task.status = "merging"
  BY TypesOfDelivery DEF MergeInv, Completing
<1> DEFINE n == Len(artifacts)
<1>2. CurrentArtifacts = {n} /\ n # 0
  BY <1>1, MergingEvidence
<1>3. UNCHANGED <<artifacts, verifications, authorizations, landed>>
  BY DEF Completing, Bystanders, records
<1>4. Finished = 0 /\ Finished' = n
  BY <1>1, <1>3, CompletionEffect DEF Finished
<1>5. IntentsOn(n) # {}
  BY <1>1 DEF EvidenceInv, ParkedDeliveryHasEvidence
<1>6. n \in DOMAIN artifacts /\ n \in Contract!Open
  BY <1>2, OpenIsCurrent DEF CurrentArtifacts
<1>7. n \in DOMAIN Versions /\ Versions[n].stage = "authorised"
  BY <1>5, <1>6, VersionOf DEF Stage
<1>8. UNCHANGED Versions
  BY <1>3, VersionsRest
<1> HIDE DEF n
<1>9. Contract!Finish(n)
  BY <1>3, <1>4, <1>6, <1>7, <1>8 DEF Contract!Finish
<1> QED  BY <1>7, <1>9 DEF Contract!Next

\* The tick withdraws a version it cannot merge.
LEMMA RewindingWithdraws ==
  ASSUME MergeInv, Rewinding
  PROVE  Contract!Next
<1>1. TypeInv /\ task.status = "merging"
  BY TypesOfDelivery DEF MergeInv, Rewinding
<1>2. PICK a \in CurrentArtifacts : Invalidate(a)
  BY RewindEffect
<1>3. task'.status = "in_progress"
  BY RewindEffect
<1>4. /\ UNCHANGED <<authorizations, landed>>
      /\ \A b : PassingVerifications(b)' = PassingVerifications(b)
  BY DEF Rewinding, Bystanders, records, PassingVerifications
<1>5. Contract!Withdraw(a)
  BY <1>1, <1>2, <1>3, <1>4, InvalidationWithdraws
<1>6. a \in DOMAIN Versions
  BY DEF CurrentArtifacts, Versions
<1> QED  BY <1>5, <1>6 DEF Contract!Next

\* Every step, of whomever, is one of the contract, or none.
LEMMA ContractStep ==
  ASSUME MergeInv, MergeInv', [MergeNext]_mvars
  PROVE  [Contract!Next]_Delivered
<1>1. TypeInv /\ TypeInv' /\ EvidenceInv
  <2>1. TypeInv
    BY TypesOfDelivery DEF MergeInv
  <2>2. TypeInv'
    BY DEF MergeInv, MergeTypes, MergeTypeOK, TypeInv
  <2> QED  BY <2>1, <2>2 DEF MergeInv
<1>2. CASE Delivering
  BY <1>1, <1>2, DeliveryKeepsContract DEF Delivering, mergeVars
<1>3. CASE Completing \/ Rewinding
  BY <1>3, CompletingFinishes, RewindingWithdraws
<1>4. CASE Pushing
  BY <1>4, PushingLands
<1>5. CASE Failing \/ Working \/ Waiting
  <2>1. UNCHANGED <<artifacts, verifications, authorizations, landed>>
    BY <1>5
    DEF Failing, Working, CloneTarget, MergeAndTest, MergerDies, Waiting,
        Bystanders, vars, records
  <2>2. \/ task'.status = task.status
        \/ task.status # "done" /\ task'.status # "done"
    <3>1. CASE Failing
      <4>1. task.status = "merging"
        BY <3>1 DEF Failing, MergeInv, TickInv, TickOwnsMerging
      <4> QED  BY <3>1, <4>1, FailureEffect
    <3>2. CASE Working \/ Waiting
      BY <3>2 DEF Working, CloneTarget, MergeAndTest, MergerDies, Waiting, vars
    <3> QED  BY <1>5, <3>1, <3>2
  <2> QED  BY <2>1, <2>2, VersionsRest DEF Delivered, Finished
<1> QED
  BY <1>2, <1>3, <1>4, <1>5, MergeSteps

\* The delivery implements its contract, however requests, policies, rewinds,
\* restarts and mergers interleave: versions are offered one at a time, judged
\* and authorised while open, and landed once, when authorised.
THEOREM DeliveryKeepsItsContract == MergeSpec => KeepsTheContract
<1>1. MergeInit => Contract!Init
  BY DEF MergeInit, Init, Contract!Init, Versions, Finished
<1>2. MergeInv /\ MergeInv' /\ [MergeNext]_mvars => [Contract!Next]_Delivered
  BY ContractStep
<1>3. Contract!Spec <=> Contract!Init /\ [][Contract!Next]_Delivered
  BY DEF Contract!Spec, Contract!vars, Delivered
<1> QED
  BY <1>1, <1>2, <1>3, MergeCorrectness, PTL DEF MergeSpec, KeepsTheContract

\* A step of the contract keeps its promise.
LEMMA PromiseIsKept ==
  ASSUME Contract!Promise, [Contract!Next]_Delivered
  PROVE  Contract!Promise'
<1> DEFINE V == Contract!Version
           k == Len(Versions)
<1>1. /\ Versions \in Seq(V) /\ k \in Nat /\ DOMAIN Versions = 1 .. k
      /\ Finished \in Nat /\ Contract!Open \subseteq {k}
  BY DEF Contract!Promise
<1>2. /\ \A l \in landed : \E n \in DOMAIN Versions :
           /\ Versions[n].stage = "authorised"
           /\ Versions[n].commit = l.commit /\ Versions[n].base = l.base
      /\ \A l, m \in landed : l.commit = m.commit => l = m
      /\ Finished # 0 =>
           /\ Contract!Open = {Finished} /\ Finished = k
           /\ Versions[Finished].stage = "authorised"
  BY DEF Contract!Promise
<1>3. CASE UNCHANGED Delivered
  BY <1>3 DEF Delivered, Contract!Promise, Contract!Open
<1>4. CASE Contract!Offer
  <2> DEFINE version == Versions'[Len(Versions')]
  <2>1. /\ version \in V /\ version.state = "open"
        /\ Versions' = Append(Versions, version)
        /\ Finished = 0 /\ Contract!Open = {} /\ UNCHANGED <<landed, Finished>>
    BY <1>4 DEF Contract!Offer
  <2> HIDE DEF version, V
  <2>2. /\ Versions' \in Seq(V) /\ Len(Versions') = k + 1
        /\ DOMAIN Versions' = 1 .. k + 1
        /\ \A n \in 1 .. k : Versions'[n] = Versions[n]
    BY <1>1, <2>1, AppendProperties, LenProperties
  <2>3. Contract!Open' \subseteq {Len(Versions')}
    BY <1>1, <2>1, <2>2 DEF Contract!Open
  <2>4. \A l \in landed' : \E n \in DOMAIN Versions' :
          /\ Versions'[n].stage = "authorised"
          /\ Versions'[n].commit = l.commit /\ Versions'[n].base = l.base
    BY <1>1, <1>2, <2>1, <2>2
  <2> QED  BY <1>2, <2>1, <2>2, <2>3, <2>4 DEF Contract!Promise, V
<1>5. ASSUME NEW n \in Contract!Open, NEW version \in V, Finished = 0,
             Versions' = [Versions EXCEPT ![n] = version],
             UNCHANGED <<landed, Finished>>,
             version.commit = Versions[n].commit,
             version.base = Versions[n].base,
             Versions[n].stage = "authorised" => version.stage = "authorised"
      PROVE  Contract!Promise'
  <2>1. n = k /\ n \in DOMAIN Versions
    BY <1>1 DEF Contract!Open
  <2> HIDE DEF V
  <2>2. /\ Versions' \in Seq(V) /\ Len(Versions') = k
        /\ DOMAIN Versions' = 1 .. k
        /\ Versions'[n] = version
        /\ \A m \in 1 .. k : m # n => Versions'[m] = Versions[m]
    BY <1>1, <1>5, <2>1, ExceptSeq, LenProperties
  <2>3. Contract!Open' \subseteq {Len(Versions')}
    BY <1>1, <2>1, <2>2 DEF Contract!Open
  <2>4. \A l \in landed' : \E m \in DOMAIN Versions' :
          /\ Versions'[m].stage = "authorised"
          /\ Versions'[m].commit = l.commit /\ Versions'[m].base = l.base
    BY <1>1, <1>2, <1>5, <2>2
  <2> QED  BY <1>1, <1>2, <1>5, <2>2, <2>3, <2>4 DEF Contract!Promise, V
<1>6. ASSUME NEW n \in DOMAIN Versions, Contract!Accept(n) \/ Contract!Authorise(n)
      PROVE  Contract!Promise'
  <2>1. PICK from \in {"offered", "accepted"}, to \in {"accepted", "authorised"} :
          Contract!Advance(n, from, to)
    BY <1>6 DEF Contract!Accept, Contract!Authorise
  <2> DEFINE version == [Versions[n] EXCEPT !.stage = to]
  <2>2. Versions[n] \in V
    BY <1>1
  <2>3. /\ version \in V /\ version.commit = Versions[n].commit
        /\ version.base = Versions[n].base
    BY <2>2 DEF Contract!Version
  <2>4. /\ n \in Contract!Open /\ Finished = 0 /\ UNCHANGED <<landed, Finished>>
        /\ Versions[n].stage # "authorised"
        /\ Versions' = [Versions EXCEPT ![n] = version]
    BY <2>1 DEF Contract!Advance
  <2> HIDE DEF V, version
  <2> QED  BY <1>5, <2>3, <2>4
<1>7. ASSUME NEW n \in DOMAIN Versions, Contract!Withdraw(n)
      PROVE  Contract!Promise'
  <2> DEFINE version == [Versions[n] EXCEPT !.state = "withdrawn"]
  <2>1. Versions[n] \in V
    BY <1>1
  <2>2. /\ version \in V /\ version.commit = Versions[n].commit
        /\ version.base = Versions[n].base
        /\ version.stage = Versions[n].stage
    BY <2>1 DEF Contract!Version
  <2>3. /\ n \in Contract!Open /\ Finished = 0 /\ UNCHANGED <<landed, Finished>>
        /\ Versions' = [Versions EXCEPT ![n] = version]
    BY <1>7 DEF Contract!Withdraw
  <2> HIDE DEF V, version
  <2> QED  BY <1>5, <2>2, <2>3
<1>8. ASSUME NEW n \in DOMAIN Versions, Contract!Land(n)
      PROVE  Contract!Promise'
  <2>1. PICK l \in landed' :
          /\ l.commit = Versions[n].commit /\ l.base = Versions[n].base
          /\ landed' = landed \union {l}
    BY <1>8 DEF Contract!Land
  <2>2. /\ UNCHANGED <<Versions, Finished>>
        /\ Versions[n].stage = "authorised"
        /\ \A m \in landed : m.commit # l.commit
    BY <1>8, <2>1 DEF Contract!Land
  <2>3. \A m \in landed' : \E o \in DOMAIN Versions :
          /\ Versions[o].stage = "authorised"
          /\ Versions[o].commit = m.commit /\ Versions[o].base = m.base
    BY <1>2, <2>1, <2>2
  <2>4. \A m, o \in landed' : m.commit = o.commit => m = o
    BY <1>2, <2>1, <2>2
  <2> QED
    BY <1>1, <1>2, <2>2, <2>3, <2>4 DEF Contract!Promise, Contract!Open
<1>9. ASSUME NEW n \in DOMAIN Versions, Contract!Finish(n)
      PROVE  Contract!Promise'
  <2>1. /\ n \in Contract!Open /\ Versions[n].stage = "authorised"
        /\ Finished' = n /\ UNCHANGED <<Versions, landed>>
    BY <1>9 DEF Contract!Finish
  <2>2. Contract!Open' = {n} /\ n = k /\ Contract!Open' = Contract!Open
    BY <1>1, <2>1 DEF Contract!Open
  <2> QED  BY <1>1, <1>2, <2>1, <2>2 DEF Contract!Promise
<1> QED
  BY <1>3, <1>4, <1>6, <1>7, <1>8, <1>9 DEF Contract!Next

\* In every behaviour of the contract only the newest version is open, what
\* landed was authorised and landed once, and a task ends with its newest
\* version, authorised and still open.
THEOREM ContractKeepsItsPromise == Contract!Spec => []Contract!Promise
<1>1. Contract!Init => Contract!Promise
  BY EmptySeq DEF Contract!Init, Contract!Promise, Contract!Open
<1>2. Contract!Promise /\ [Contract!Next]_Delivered => Contract!Promise'
  BY PromiseIsKept
<1>3. Contract!Spec <=> Contract!Init /\ [][Contract!Next]_Delivered
  BY DEF Contract!Spec, Contract!vars, Delivered
<1> QED  BY <1>1, <1>2, <1>3, PTL

\* What the contract promises holds of deliveries and their mergers.
COROLLARY VersionsAreDelivered == MergeSpec => []Contract!Promise
BY DeliveryKeepsItsContract, ContractKeepsItsPromise, PTL DEF KeepsTheContract

=============================================================================
