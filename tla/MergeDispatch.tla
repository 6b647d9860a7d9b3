---------------------------- MODULE MergeDispatch ----------------------------
(***************************************************************************)
(* The merging state of a delivery (internal/orchestrator:                 *)
(* merge_execution.go, delivery_merge_preflight.go, merge_dispatch.go,     *)
(* docker_events.go; internal/merger/merger.go).                           *)
(*                                                                         *)
(* For a task in merging the tick recovers (has the artifact landed?),     *)
(* preflights the evidence, spawns a merger container, records the attempt,*)
(* waits for the container, recovers again and routes the result.  The     *)
(* tick is one goroutine that blocks meanwhile, but everything else goes   *)
(* on: clients, operators, the event stream of the container runtime, and  *)
(* mergers of earlier ticks that timed out or were lost in a restart.      *)
(***************************************************************************)
EXTENDS Delivery

CONSTANTS
  MaxMergeRetries,  \* merge attempts after which a task fails
  MaxMergers,       \* bounds of the checked instance: containers started,
  MaxTimeouts       \* waits that end in a timeout

ASSUME MergeAssumption ==
  MaxMergeRetries \in Nat \ {0} /\ MaxMergers \in Nat /\ MaxTimeouts \in Nat

VARIABLES
  tick,           \* where the tick is in executeMerge, and what it holds
  mergers,        \* merger containers, by number
  mergeAttempts,  \* merge_attempt_count in the context of the task row
  completions,    \* merge completion records
  landed,         \* history variable: what mergers pushed to the target
  timeouts        \* how much of MaxTimeouts is used up

mergeVars == <<tick, mergers, mergeAttempts, completions, landed, timeouts>>
mvars == <<vars, mergeVars>>

\* The variables of Delivery but for those named.
taskVars == <<task, rowWrites>>
evidenceVars == <<acceptance, gate, records, sessions, requests>>

-----------------------------------------------------------------------------
(* Types *)

MergePC == {"idle", "preflight", "spawn", "record", "await", "recover",
            "route"}

\* "rejected" stands for tests_failed, conflict, misc and unknown, which all
\* fail the task; "error" for a dispatch that has no result.
MergerResult == {"success", "stale_evidence", "rejected", "push_failed"}
TickResult == MergerResult \union {"none", "error"}

Tick == [pc : MergePC, version : Nat, merger : Nat, result : TickResult]
IdleTick == [pc |-> "idle", version |-> 0, merger |-> 0, result |-> "none"]

MergerState == {"starting", "cloned", "tested", "pushed", "exited"}
MergerContainer == [state : MergerState, commit : Commit, base : Commit,
                    result : MergerResult \union {"none"}]

Completion == [artifact : Nat \ {0}, commit : Commit, target : Commit]
Landing == [merger : Nat \ {0}, commit : Commit, base : Commit]

MergeTypeOK ==
  /\ TypeOK
  /\ tick \in Tick
  /\ mergers \in Seq(MergerContainer)
  /\ mergeAttempts \in Nat
  /\ completions \subseteq Completion
  /\ landed \subseteq Landing
  /\ timeouts \in Nat

-----------------------------------------------------------------------------
(* The evidence executeMerge consumes *)

HasMergeEvidence ==
  \E a \in CurrentArtifacts : PassingVerifications(a) # {} /\ IntentsOn(a) # {}

\* recoverAuthorizedMerge.  The target is resolved as a branch, which fails
\* when the base of the artifact was recorded as a commit id.
RecoveryFails == HasMergeEvidence /\ artifacts[ArtifactSeen].baseRef = "sha"

\* Mutant: a target that moved is taken to contain the artifact.
TargetMoved ==
  /\ HasMergeEvidence
  /\ artifacts[ArtifactSeen].baseRef = "target"
  /\ git.target # artifacts[ArtifactSeen].base

HasLanded ==
  /\ HasMergeEvidence
  /\ artifacts[ArtifactSeen].baseRef = "target"
  /\ git.target # artifacts[ArtifactSeen].base
  /\ IsAncestor(git.history, artifacts[ArtifactSeen].commit, git.target)

\* Mutant: the completion names the feature branch as the merge result.
CompleteWithBranch ==
  /\ completions' = completions \union
       {[artifact |-> ArtifactSeen, commit |-> artifacts[ArtifactSeen].commit,
         target |-> git.branch]}
  /\ MoveTo("done")

\* completeAuthorizedMerge
CompleteMerge ==
  /\ completions' = completions \union
       {[artifact |-> ArtifactSeen, commit |-> artifacts[ArtifactSeen].commit,
         target |-> git.target]}
  /\ MoveTo("done")

Goto(pc) == tick' = [tick EXCEPT !.pc = pc]
Settle(result) == tick' = [tick EXCEPT !.pc = "recover", !.result = result]
EndTick == tick' = IdleTick

-----------------------------------------------------------------------------
(* executeMerge *)

\* dispatchMerges loads the task; executeMerge first asks whether its artifact
\* is already in the target.  When recovery fails the tick ends there.
BeginMerge ==
  /\ tick.pc = "idle"
  /\ GateIdle
  /\ task.status = "merging"
  /\ \/ HasLanded /\ CompleteMerge /\ UNCHANGED tick
     \/ /\ ~HasLanded /\ ~RecoveryFails
        /\ tick' = [IdleTick EXCEPT !.pc = "preflight",
                                    !.version = task.version]
        /\ UNCHANGED <<taskVars, completions>>
  /\ UNCHANGED <<work, git, evidenceVars, artifacts, attempt, used, mergers,
                 mergeAttempts, landed, timeouts>>

\* preflightMergeArtifact: the status to rewind the task to, "error" when the
\* feature ref does not exist, "ready" when the artifact may be merged.
PreflightVerdict ==
  CASE CurrentArtifacts = {}                    -> "testing_ready"
    [] PassingVerifications(ArtifactSeen) = {}  -> "testing_ready"
    [] IntentsOn(ArtifactSeen) = {}              -> "integration_ready"
    [] git.branch = NoCommit                    -> "error"
    [] Drifted(artifacts[ArtifactSeen])         -> "in_progress"
    [] OTHER                                    -> "ready"

RewindMerging(target) ==
  /\ \A a \in CurrentArtifacts : Invalidate(a)
  /\ CurrentArtifacts = {} => UNCHANGED artifacts
  /\ MoveTo(target)

\* After an error the next tick tries again.
PreflightMergeArtifact ==
  /\ tick.pc = "preflight"
  /\ IF PreflightVerdict = "ready" THEN Goto("spawn") ELSE EndTick
  /\ IF PreflightVerdict \in {"ready", "error"}
     THEN UNCHANGED <<taskVars, artifacts>>
     ELSE RewindMerging(PreflightVerdict)
  /\ UNCHANGED <<work, git, evidenceVars, attempt, used, mergers,
                 mergeAttempts, completions, landed, timeouts>>

\* Mutant: the container is given what the branch names by now.
SpawnMergerOnBranch ==
  /\ tick.pc = "spawn"
  /\ Len(mergers) < MaxMergers
  /\ mergers' = Append(mergers, [state  |-> "starting",
                                 commit |-> git.branch,
                                 base   |-> artifacts[ArtifactSeen].base,
                                 result |-> "none"])
  /\ tick' = [tick EXCEPT !.pc = "record", !.merger = Len(mergers) + 1]
  /\ UNCHANGED <<vars, mergeAttempts, completions, landed, timeouts>>

\* dispatchMerge reads the current artifact again and starts a container.
SpawnMerger ==
  /\ tick.pc = "spawn"
  /\ Len(mergers) < MaxMergers
  /\ mergers' = Append(mergers, [state  |-> "starting",
                                 commit |-> artifacts[ArtifactSeen].commit,
                                 base   |-> artifacts[ArtifactSeen].base,
                                 result |-> "none"])
  /\ tick' = [tick EXCEPT !.pc = "record", !.merger = Len(mergers) + 1]
  /\ UNCHANGED <<vars, mergeAttempts, completions, landed, timeouts>>

SpawnFails ==
  /\ tick.pc = "spawn"
  /\ Settle("error")
  /\ UNCHANGED <<vars, mergers, mergeAttempts, completions, landed, timeouts>>

\* RecordSpawn: the unique index allows one attempt in flight.  The container
\* that lost runs on, known to nobody.
RecordSpawn ==
  /\ tick.pc = "record"
  /\ \/ attempt = 0 /\ attempt' = tick.merger /\ Goto("await")
     \/ attempt # 0 /\ UNCHANGED attempt /\ Settle("error")
  /\ UNCHANGED <<taskVars, work, git, evidenceVars, artifacts, used, mergers,
                 mergeAttempts, completions, landed, timeouts>>

\* awaitMergerExit sees the container exited; the attempt is finalised.
AwaitMergerExit ==
  /\ tick.pc = "await"
  /\ mergers[tick.merger].state = "exited"
  /\ attempt' = IF attempt = tick.merger THEN 0 ELSE attempt
  /\ Settle(mergers[tick.merger].result)
  /\ UNCHANGED <<taskVars, work, git, evidenceVars, artifacts, used, mergers,
                 mergeAttempts, completions, landed, timeouts>>

\* mergeDispatchTimeout expires; container and attempt stay.
AwaitTimesOut ==
  /\ tick.pc = "await"
  /\ timeouts < MaxTimeouts
  /\ timeouts' = timeouts + 1
  /\ Settle("error")
  /\ UNCHANGED <<vars, mergers, mergeAttempts, completions, landed>>

\* The second recoverAuthorizedMerge, whatever the merger said.  An error, or
\* a success the target does not show, ends the tick with the task as it is.
RecoverAfterDispatch ==
  /\ tick.pc = "recover"
  /\ \/ HasLanded /\ CompleteMerge /\ EndTick
     \/ /\ ~HasLanded
        /\ IF tick.result \in {"error", "success"} THEN EndTick
           ELSE Goto("route")
        /\ UNCHANGED <<taskVars, completions>>
  /\ UNCHANGED <<work, git, evidenceVars, artifacts, attempt, used, mergers,
                 mergeAttempts, landed, timeouts>>

\* failTask compares with the version the tick loaded; a lost race is an error
\* and leaves the task in merging.
FailTask ==
  IF task.version = tick.version THEN MoveTo("failed") ELSE UNCHANGED taskVars

\* The retry path writes the whole row back as it was loaded.
SaveTask ==
  /\ task' = [task EXCEPT !.version = tick.version]
  /\ rowWrites' = rowWrites + 1

\* Mutant: the task is parked for a new authorization.
RouteToIntegration ==
  /\ TaskKind = "parent"
  /\ tick.result = "stale_evidence"
  /\ RewindMerging("integration_ready")
  /\ UNCHANGED mergeAttempts

RouteStaleEvidence ==
  /\ TaskKind = "parent"
  /\ tick.result = "stale_evidence"
  /\ RewindMerging("in_progress")
  /\ UNCHANGED mergeAttempts

RouteRejection ==
  /\ tick.result = "rejected" \/ TaskKind = "quickfix"
  /\ FailTask
  /\ UNCHANGED <<artifacts, mergeAttempts>>

\* Mutant: the incremented count is lost.
RoutePushFailedUncounted ==
  /\ TaskKind = "parent"
  /\ tick.result = "push_failed"
  /\ IF mergeAttempts + 1 >= MaxMergeRetries THEN FailTask ELSE SaveTask
  /\ UNCHANGED <<artifacts, mergeAttempts>>

\* The incremented count is persisted with the row, or with the failure.
RoutePushFailed ==
  /\ TaskKind = "parent"
  /\ tick.result = "push_failed"
  /\ LET attempts == mergeAttempts + 1 IN
       IF attempts >= MaxMergeRetries
       THEN /\ FailTask
            /\ mergeAttempts' = IF task.version = tick.version THEN attempts
                                ELSE mergeAttempts
       ELSE SaveTask /\ mergeAttempts' = attempts
  /\ UNCHANGED artifacts

RouteMergeResult ==
  /\ tick.pc = "route"
  /\ EndTick
  /\ RouteStaleEvidence \/ RouteRejection \/ RoutePushFailed
  /\ UNCHANGED <<work, git, evidenceVars, attempt, used, mergers, completions,
                 landed, timeouts>>

ExecuteMerge ==
  \/ BeginMerge \/ PreflightMergeArtifact \/ SpawnMerger \/ RecordSpawn
  \/ AwaitMergerExit \/ RecoverAfterDispatch \/ RouteMergeResult

-----------------------------------------------------------------------------
(* The merger container, internal/merger/merger.go Merge *)

Merger(m, state) ==
  /\ m \in DOMAIN mergers
  /\ mergers[m].state = state

MergerGoes(m, state) == mergers' = [mergers EXCEPT ![m].state = state]
MergerExits(m, result) ==
  mergers' = [mergers EXCEPT ![m].state = "exited", ![m].result = result]

\* Mutant: the head is not compared with the expected base.
CloneAnyTarget(m) ==
  /\ Merger(m, "starting")
  /\ mergers' = [mergers EXCEPT ![m].state = "cloned",
                                ![m].base = git.target]
  /\ UNCHANGED <<vars, tick, mergeAttempts, completions, landed, timeouts>>

\* Clone the target; its head must be the base the artifact was verified on.
CloneTarget(m) ==
  /\ Merger(m, "starting")
  /\ IF git.target = mergers[m].base THEN MergerGoes(m, "cloned")
     ELSE MergerExits(m, "stale_evidence")
  /\ UNCHANGED <<vars, tick, mergeAttempts, completions, landed, timeouts>>

\* Fetch the feature branch, merge it and run the tests on the result.  A
\* branch that is gone is taken as landed by an earlier merger.
MergeAndTest(m) ==
  /\ Merger(m, "cloned")
  /\ CASE git.branch = NoCommit          -> MergerExits(m, "success")
       [] git.branch # mergers[m].commit -> MergerExits(m, "stale_evidence")
       [] OTHER                          -> \/ MergerGoes(m, "tested")
                                            \/ MergerExits(m, "rejected")
  /\ UNCHANGED <<vars, tick, mergeAttempts, completions, landed, timeouts>>

\* Mutant: the push is forced.
ForcePush(m) ==
  /\ Merger(m, "tested")
  /\ MergerGoes(m, "pushed")
  /\ git' = [git EXCEPT
       !.history = WithCommit(git.history,
                     {mergers[m].base, mergers[m].commit}),
       !.target = NextCommit(git.history)]
  /\ landed' = landed \union
       {[merger |-> m, commit |-> mergers[m].commit,
         base |-> mergers[m].base]}
  /\ UNCHANGED <<taskVars, work, evidenceVars, artifacts, attempt, used, tick,
                 mergeAttempts, completions, timeouts>>

\* Push, fast-forward only, the merge commit; there is none to push when the
\* target already contains the feature.
PushTarget(m) ==
  /\ Merger(m, "tested")
  /\ \/ /\ git.target = mergers[m].base
        /\ MergerGoes(m, "pushed")
        /\ IF IsAncestor(git.history, mergers[m].commit, mergers[m].base)
           THEN UNCHANGED <<git, landed>>
           ELSE /\ git' = [git EXCEPT
                     !.history = WithCommit(git.history,
                                   {mergers[m].base, mergers[m].commit}),
                     !.target = NextCommit(git.history)]
                /\ landed' = landed \union
                     {[merger |-> m, commit |-> mergers[m].commit,
                       base |-> mergers[m].base]}
     \/ MergerExits(m, "push_failed") /\ UNCHANGED <<git, landed>>
  /\ UNCHANGED <<taskVars, work, evidenceVars, artifacts, attempt, used, tick,
                 mergeAttempts, completions, timeouts>>

\* Delete the feature branch on the remote, whatever it names by now.
DeleteBranch(m) ==
  /\ Merger(m, "pushed")
  /\ \/ /\ git.branch # NoCommit
        /\ git' = [git EXCEPT !.branch = NoCommit]
        /\ MergerExits(m, "success")
     \/ MergerExits(m, "push_failed") /\ UNCHANGED git
  /\ UNCHANGED <<taskVars, work, evidenceVars, artifacts, attempt, used, tick,
                 mergeAttempts, completions, landed, timeouts>>

MergerDies(m) ==
  /\ m \in DOMAIN mergers
  /\ mergers[m].state # "exited"
  /\ MergerExits(m, "rejected")
  /\ UNCHANGED <<vars, tick, mergeAttempts, completions, landed, timeouts>>

MergerRuns(m) ==
  CloneTarget(m) \/ MergeAndTest(m) \/ PushTarget(m) \/ DeleteBranch(m)

-----------------------------------------------------------------------------
(* The rest of the orchestrator *)

\* The runtime's die event finalises the recorded attempt of a merger.
ObserveMergerExit ==
  /\ attempt # 0
  /\ mergers[attempt].state = "exited"
  /\ attempt' = 0
  /\ UNCHANGED <<taskVars, work, git, evidenceVars, artifacts, used,
                 mergeVars>>

\* A restart loses the tick; containers run on.
RestartDuringMerge ==
  /\ tick.pc # "idle"
  /\ used.crashes < MaxCrashes
  /\ used' = [used EXCEPT !.crashes = @ + 1]
  /\ EndTick
  /\ UNCHANGED <<taskVars, work, git, evidenceVars, artifacts, attempt,
                 mergers, mergeAttempts, completions, landed, timeouts>>

DeliveryStep ==
  /\ \/ tick.pc = "idle" /\ StartTickStep
     \/ EndGate \/ WorkerStep \/ ClientStep \/ OperatorStep \/ WorldStep
     \/ Crash
  /\ UNCHANGED mergeVars

MergerStep == \E m \in DOMAIN mergers : MergerRuns(m) \/ MergerDies(m)

MergeInit ==
  /\ Init
  /\ tick = IdleTick
  /\ mergers = <<>>
  /\ mergeAttempts = 0
  /\ completions = {}
  /\ landed = {}
  /\ timeouts = 0

MergeNext ==
  \/ DeliveryStep \/ ExecuteMerge \/ SpawnFails \/ AwaitTimesOut
  \/ MergerStep \/ ObserveMergerExit \/ RestartDuringMerge

\* The ticker keeps calling the tick, containers make progress, and the
\* runtime does not refuse to start a merger for ever.
MergeFairness ==
  /\ WF_mvars(ExecuteMerge)
  /\ SF_mvars(SpawnMerger)
  /\ WF_mvars(RecoverAfterDispatch)
  /\ \A m \in 1..MaxMergers : WF_mvars(MergerRuns(m))
  /\ WF_mvars(EndGate /\ UNCHANGED mergeVars)
  /\ WF_mvars(/\ GateIdle /\ tick.pc = "idle"
              /\ BeginGate \/ BeginGateMismatch
              /\ UNCHANGED mergeVars)

MergeSpec == MergeInit /\ [][MergeNext]_mvars /\ MergeFairness

-----------------------------------------------------------------------------
(* Properties                                                              *)

\* A merger only ever puts on the target what was verified and authorised, at
\* the base it was verified on: also a merger nobody waits for any more.
LandedWasAuthorized ==
  \A l \in landed : \E i \in authorizations :
    /\ i.commit = l.commit
    /\ i.base = l.base
    /\ PassingVerifications(i.artifact) # {}
    /\ ReworksOn(i.artifact) = {}

\* However many mergers run for an artifact, one of them lands it.
LandsOnce == \A l, k \in landed : l.commit = k.commit => l = k

\* A task is done only with a completion record for its newest artifact, which
\* was authorised, and whose commit is in the target branch.
DoneIsProven ==
  task.status = "done" =>
    /\ \E c \in completions :
         /\ c.artifact = Len(artifacts)
         /\ c.commit = artifacts[c.artifact].commit
         /\ IsAncestor(git.history, c.target, git.target)
         /\ IsAncestor(git.history, c.commit, c.target)
         /\ IntentsOn(c.artifact) # {}
    /\ CurrentArtifacts = {Len(artifacts)}

\* While the tick is in executeMerge the task stays in merging: nobody else
\* takes it out, so what preflight established still binds the spawn.
TickOwnsMerging == tick.pc # "idle" => task.status = "merging"

\* How far an artifact has come, by its records, and what the contract of
\* DeliveryContract says of artifacts, landings and the end of the task.
Stage(a) ==
  CASE IntentsOn(a) # {} -> "authorised"
    [] IntentsOn(a) = {} /\ PassingVerifications(a) # {} -> "accepted"
    [] OTHER -> "offered"

Versions ==
  [a \in DOMAIN artifacts |->
     [commit |-> artifacts[a].commit, base |-> artifacts[a].base,
      stage |-> Stage(a),
      state |-> IF IsCurrent(a) THEN "open" ELSE "withdrawn"]]

Finished == IF task.status = "done" THEN Len(artifacts) ELSE 0

Contract == INSTANCE DeliveryContract WITH
  versions <- Versions, finished <- Finished

\* The delivery keeps its contract: versions are offered one at a time, judged
\* and authorised while they are open, landed once and only when authorised,
\* however requests, policies, rewinds, restarts and mergers that outlive the
\* tick interleave.
KeepsTheContract == Contract!Spec

\* "merging are always actionable states"
\* (plans/host-verification-state-machine.md:81): the tick gets a task out of
\* merging.
MergingResolves == task.status = "merging" ~> task.status # "merging"

\* "A task has a monotonically increasing state version"
\* (plans/host-verification-state-machine.md:390).
VersionIsMonotone == [][task'.version >= task.version]_mvars

\* "merging is the only state whose handler may mutate the default branch"
\* (plans/host-verification-state-machine.md:406): nothing lands while the
\* task is in another status.
OnlyMergingLands == [][landed' # landed => task.status = "merging"]_mvars

=============================================================================
