# TLA+ models of the Drem Orchestrator

The orchestrator turns a task ("add feature X") into commits on a project's
default branch. It plans the task, runs coding agents in containers, checks
what they produced, asks clients for a verdict and merges. Its state is a
SQLite database, a bare Git repository and the containers it started; none of
the three can be changed in one step with another. This directory models a
task's way from the backlog to a commit on the default branch, the workers
that do the work, and the requests and events through which clients and agents
take part.

Contents: [inventory](#1-inventory), [modules](#2-modules-and-their-code),
[runs](#3-runs), [findings](#4-findings), [proofs](#5-proofs),
[limits](#6-what-is-not-modelled), [plan](#7-plan).

## 1. Inventory

Paths are relative to `src/`. Numbers are Go lines without tests.

| Component | State | Operations | Modelled in |
|---|---|---|---|
| Task status machine (`internal/state`, `orchestrator/task_transitions.go`) | status and `state_version` of a task row | guarded compare-and-swap of (status, version) with an audit event | `TaskStates`; `Delivery!MoveTo`, `TaskPlanning!Transition` |
| Classification, planning, clarification (`classifying.go`, `task_processing.go`, `plan_*.go`, `handlers.go`, `internal/clarification` 641) | plan, questions, budgets in the context column | request a plan, accept or discard it, clarify, review, revise | `TaskPlanning`; classification no |
| Subtask scheduling (`scheduler.go`, `subtask_scheduling.go`, `test_writing.go`, `parent_readiness.go`, `plan_validation.go`) | subtasks, dependencies, declared files, waves | validate, materialise, dispatch, reject and replace tests, cancel blocked siblings, drain, deliver | `SubtaskPlans`, `PlanExecution` |
| Worker attempts (`internal/workeridentity` 604, `worker_spawn.go`, `docker_events.go`, `agent_*.go`, `reconcile*.go`, `checkpoint_resume.go`) | attempt rows, `assigned_agent_id`, leases, retry budgets | reserve, spawn, finalise, poll or hear deaths, respawn, reap, recover | `WorkerAttempts`, `AttemptLedger`; merger attempts in `MergeDispatch` |
| Spawner (`internal/spawner` 1014, `internal/container` 749) | inventory of containers | spawn, destroy, inspect, list | partly, `WorkerAttempts` |
| Quick fixes (`quickfix_processing.go`, `agent_results.go`) | one worker on one branch | start, complete, deliver | partly, `Delivery` |
| Preliminary gate (`test_execution.go`, `delivery_gate_workspace.go`, `branch_acceptance.go`) | branch acceptance records, gate outcome | pick the accepted candidate, check out, run, record | `Delivery` |
| Delivery protocol (`orchestrator/delivery_*.go`, `orchhttp/delivery_handlers.go`) | artifacts, verification, authorization and rework records, merge intents | freeze, verify, authorise, send back, the automatic policies | `Delivery` |
| Host rework (`host_rework.go`) | sessions, the submitted commit | start, submit, abandon, cancel | `Delivery` |
| Merge execution (`merge_execution.go`, `merge_dispatch.go`, `delivery_merge_preflight.go`, `retry_policy.go`) | merger attempt row, attempt count, completions | recover, preflight, spawn, await, route | `MergeDispatch` |
| Merger container (`internal/merger` 679, `cmd/drem-merger`) | a clone; the refs on the remote | clone, check, merge and test, push, delete the branch | `MergeDispatch` |
| Operator operations (`task_api.go`, `orchhttp/gate_handlers.go`, `codex_adoption.go`) | — | pause, resume, retry, archive, comment, approve, reject, revise, answer, adopt | `Delivery`, `TaskPlanning`, `PlanExecution`, partly |
| Mutation guard (`orchhttp/mutation_guard.go`, `pkg/orchclient`) | a write-ahead ledger of mutating requests | claim, run, answer from the ledger | `MutationGuard` |
| Event bus and C-suite turns (`internal/eventbus` 192, `internal/watcher`, `cmd/csuite-watcher`) | events, deliveries, signal files, the turn scheduler | publish, poll, wake, acknowledge, run a turn | `TurnDelivery`, `ControlPlane` |
| C-suite messages (`csuite` 1447, `csuite/persona` 1756, `diskstore` 949, `deliver` 1793) | inbox files, ledgers | send, read, archive | an unread mark in `TurnDelivery` |
| Branch registry (`internal/gitref` 378, `branchpolicy` 460) | owner and life cycle of branches | claim, mark, sweep | no |
| Rate limiter (`internal/ratelimit` 136), watchdog (268) | sliding window; a worker's tree | allow and record; commit and push | no; pushes only |
| Agents (`internal/agent` 6472, `agentmon` 1447, `supervisor` 719), prompts (1903) | conversations with models | — | effects on Git and rows only |
| Clients and tools (`tui` 6572, `orchhttp` 6808, `cmd/*`, `benchv2` 4688, `constraints` 1048), db, configuration | — | — | no |

How they meet: one *tick* goroutine calls every status handler in turn
(`doTickLegacy`); the handlers of `testing_ready` and `merging` block it for
minutes. HTTP handlers, a goroutine that follows the container event stream,
goroutines that wait for the planner, and the containers go on meanwhile. They
share the database (short transactions), the bare repository (refs) and nothing
else of importance. `deliveryMu` serialises delivery operations but not the
gate nor the merge tick; `workerLifecycleMu` serialises the handling of worker
exits; `mutationMu` serialises guarded requests. The C-suite watcher is a
process of its own that reads the event tables and signal files and starts the
agents' turns; those send requests again.

What is hard, and which component it belongs to:

- **Rows read before a long wait and used after it** (gate, merge tick, planner
  goroutine, worker dispatch); some are written back whole.
- **Two goroutines consuming the same exit**, with several writes each (worker
  attempts), or scheduling the same children (subtask scheduling).
- **Requests composed on an old view**, repeated or late (all operations):
  versions, commits and idempotency keys must settle them.
- **Containers that outlive who waited for them**, by a timeout, an error or a
  restart (mergers, workers).
- **Refs that move** between acceptance, gate, verdict, authorization and push.
- **Evidence spread over five tables**: a transition must carry its rows.
- **Dependencies that are rejected, replaced, failed or cancelled** under the
  children that wait for them.
- **Acknowledging before acting** (event deliveries, signal files).
- **Sequences over several rounds**: sent back, repaired, delivered again;
  failed, retried, delivered again.

The `hazards` of PROJECT.json name each at its line, with the properties that
watch it.

## 2. Modules and their code

```
TaskStates    CommitGraph           DeliveryProofs EXTENDS Delivery
     \          /                    HostReworkProofs EXTENDS DeliveryProofs
       Delivery   DeliveryContract
          |        /  (INSTANCE)
    MergeDispatch                    MergeProofs EXTENDS MergeDispatch, HostReworkProofs

TaskStates    AttemptLedger
     \          /  (INSTANCE)        AttemptProofs EXTENDS WorkerAttempts
     WorkerAttempts                  WorkerProofs EXTENDS AttemptProofs

TaskStates    SubtaskPlans
     \          /
      TaskPlanning
          |
     PlanExecution                   PlanProofs EXTENDS PlanExecution
                                     ScheduleProofs EXTENDS PlanProofs

MutationGuard TurnDelivery
     \          /
      ControlPlane                   ControlProofs EXTENDS ControlPlane
```

`MCDelivery`, `MCMergeDispatch`, `MCWorkerAttempts`, `MCPlanExecution` and
`MCControlPlane` give the constants of the runs.

The models meet at narrow places. `PlanExecution` ends where `Delivery` begins:
at `testing_ready` with an accepted branch; `Delivery` starts at the first
`in_progress` and sees children only as outstanding work. A child's worker is
`assigned` in `PlanExecution` and has its life in `WorkerAttempts`. A request
that `Delivery` and `PlanExecution` let an operator make is one that
`MutationGuard` has let through. Composed, they would be out of TLC's reach.

**TaskStates** holds the statuses and `ValidTransitions` of
`state/machine.go`. **CommitGraph** is what is used of Git: a history maps
each commit (a number) to the set of its ancestors including itself, and a
ref is a commit or `NoCommit`.

### Delivery and merging

**Delivery** models one top-level task from its first `in_progress`. Every
database transaction is one action. State and code:

| Variable | Code |
|---|---|
| `task` | the `tasks` row: status, `state_version`, `worktree_base_sha` |
| `work` | whether subtasks, repair children or a worker are outstanding (staged, running) |
| `git` | the bare repository: history, target branch, feature branch |
| `acceptance` | `branch_acceptance_records`: accepted heads, the newest record; `submitted` is the commit of a host submission that is newer |
| `gate` | the candidate the running gate holds in memory; the outcome of the latest gate |
| `artifacts` | `delivery_artifacts`, by version |
| `verifications`, `authorizations`, `reworks` | the record tables; an authorization stands for its merge intent too, which the same transaction writes |
| `sessions` | `host_rework_sessions` |
| `attempt` | the merger's `worker_attempts` row that has no `completed_at` |
| `requests` | requests clients have composed: what they saw, and the task row write they saw it at |
| `rowWrites` | history variable: number of writes of the task row, the time the state version should measure |
| `used` | how much of each bound is used |

The gate is `BeginGate` or `BeginGateMismatch`, then one of
`FreezeDeliveryArtifact`, `RecordPreliminaryGateFailure`, `DiscardGateResult`,
and `Crash` in between; the tick does nothing else while it runs. A client
composes a request from one read (`ComposeRequest`); delivery is never
removed from `requests`, so it happens late, repeatedly or not at all. Each
`Deliver*` is the HTTP handler and the orchestrator method together: its
freshness checks, its idempotency key (client keys differ by request, policy
keys by artifact, as in `delivery_policy.go`), its transaction. A request that
fails a check has no effect and is not a step. The unique index on current
artifacts (`internal/db/db.go:87`) is the guard `CurrentArtifacts = {}` of
freezing.

**MergeDispatch** extends it with the `merging` status. `tick` is where the
tick is inside `executeMerge`, with the task version it loaded; its actions
are the steps between which others can run: recover, preflight, spawn,
record, await, recover, route. A merger runs `CloneTarget`, `MergeAndTest`,
`PushTarget`, `DeleteBranch` and may die at any of them; its outcome classes
are those `executeMerge` distinguishes ("rejected" covers conflicts, failed
tests, kills and unknown exits, all of which fail the task). `ObserveMergerExit`
is the container event stream finalising the attempt beside the tick.
`landed` is a history variable.

**DeliveryContract** is the abstract specification of both: a list of versions,
each one commit on one base, that are offered, accepted, authorised, withdrawn
and landed, and the version the task ends with. At most one is open, and it is
accepted and authorised in that order. Landing asks only that the version was
authorised and has not landed: it may have been withdrawn, or its task may have
failed, before a merger nobody waits for lands it (finding 2).
`MergeDispatch` implements it (`KeepsTheContract`) with the artifacts for
`Versions`, their verification and authorization rows for `Stage`, and the
newest artifact of a task in `done` for `Finished`.

Decisions:

- A handler that returns an error without a write is no step; the next tick
  meets the same state. So `BeginMerge` is disabled while recovery fails.
- `FinishQuickFix` merges the acceptance record and the transition of one
  handler, which nothing can come between that the properties tell apart.
- The project's test command is taken as configured for merging; without one
  `dispatchMerge` fails the task at once.
- The constraint gate (`evaluateConstraintGate` for a parent, the first half of
  `prepareQuickFixDelivery` for a quick fix) is a choice of outcome: pass
  (`PrepareDelivery`), fail (`FailOnConstraints`) or park
  (`PauseOnConstraints`). Its backoff for a parent writes only context and is
  no step here. It saves the whole row it read, so it shares the hazard of
  finding 1; `PlanExecution!HoldBack` has that window.
- The file-scope verdict of a parent's acceptance (an error at each tick, no
  write) and the allowed-path check of a submission are left out.
- Operators do not pause here, so `paused` is reached from a gate only and
  `ResumeTask` of a parent leads to `backlog`; `PlanExecution` has pauses and
  what follows.
- `Init` is the state in which the first worker has been spawned on a fresh
  feature branch.

### Workers

**WorkerAttempts** models the containers of one subtask. Here every write to
the database is a step of its own, because two goroutines, operators and
restarts interleave between the writes of one handler.

| Variable | Code |
|---|---|
| `task` | the subtask's row: status, version, `assigned_agent_id`, the counters in its context, the rejected acceptance |
| `parent` | whether the parent is in progress or paused |
| `attempts` | `worker_attempts` with their `agents` rows, by number: state, names, whether an event row records the exit, `base_sha` |
| `containers` | what the runtime knows of them: unknown, requested, live, exited and how |
| `head` | commits on the branch the attempts share |
| `events` | die events the runtime has sent |
| `handler` | the dispatch in progress, under `workerLifecycleMu`: whose, of which attempt, with the row it read |
| `tick`, `launch` | where the tick is; the spawn each goroutine waits for |
| `deaths` | `replacementTracker`, in memory |

`Claim`, `Launching`, `FinalizeSpawn` and `DestroySpawn` are `ReserveSpawn`,
the call of the spawner and its two ends; `SpawnTimesOut` leaves a container
that may still start. An exit is consumed by `TakeEvent` (event stream) or
`PollExit` (tick); `Dispatch` is what `handleWorkerExitZero` and `handleWorkerDeath` do then, one action
per write: `CompleteNothing`, `AcceptWork`, `SaveEmptyWork`, `SaveRejection`,
`FinalizeExit` after a zero exit; `SaveDeadAgent`, `SaveDeadAttempt`,
`ClearDeadAssignment`, `ChargeBudget`, `CountDeath`, `Relaunch` after a death.
`Reconcile`, `WrapUp`, `FailStuck` and the operator requests follow.

**AttemptLedger** is the abstract specification: a list of attempts of which
only the last may be open, that never reopen. `WorkerAttempts` implements it
with the states of its rows (`KeepsTheLedger`).

Decisions: `Observe` reads the event row, the task and the attempt at once;
`WrapUp`, `Reconcile`, `FailStuck`, `RetryTask` and `Claim` are atomic;
reconciliation runs at every tick; whether a grace period is over or a
heartbeat is late is nondeterministic; `head = 0` stands for "no changes"; only
the parent can be paused.

### Plans

**SubtaskPlans** has the pure algorithms: validation, the TDD dependencies,
the topological order and the colouring into waves, dispatch with its conflicts
and dependencies, readiness, the verdicts on children, rejection and
replacement of tests. Children are a sequence, so that their number is both
identity and age. **TaskPlanning** has the row of the task and who writes it
until a plan is approved; **PlanExecution** adds the children.

| Variable | Code |
|---|---|
| `task` | the row: status, version, plan, feedback, branch, and the context column with budgets, schedule and `paused_from` |
| `runs` | each goroutine (tick, container events): where it is, *the row it read*, the children it has still to go through as it saw them, whether it holds the mutex |
| `planner` | the planner goroutine with the row it was given |
| `subtasks` | the rows of the children |

A transition compares status and version and writes every column of the row
that was read; `Save` writes every column and compares nothing. A child's write
is a compare-and-swap on its status or on `assigned_agent_id IS NULL`.
`Schedule` decides once for all candidates (`Accepted`: each is compared with the
files of those accepted before it, by falling priority) and notes them with their
statuses; `StartWorker`, `SpawnFails` or `ImageUnavailable` then deal with one at
a time, in that order, by what was noted, as `StopWorker` does when a task is
halted. `CancelBlockedSiblings` is one step for all children; `CancellationFails`
stops after any part of them, when a write fails and the goroutine gives up. The
constraint gate stands before delivery and, when no implementation is left to do,
before the review of tests (`AtConstraintGate`). A batch or an order that the code
computes is written as the one set or
child that has its defining property, so that a proof can use that property.

The schedule of waves is one of a set. `TopologicalSortByDegree` has every order
the queue can give, because `sort.Slice` is not stable and rows of equal degree
may come out either way; rows that wait for each other never enter the queue and
follow as they were created. `BuildSchedule` has the colourings that those orders
give. `Children` and `Schedules` tabulate both for each plan: they depend on
nothing else.

Decisions: plans are a constant, each valid (`ValidPlan` rejects the others;
that is what `PlannerFails` stands for); titles are distinct; a child is done or
failed by the exit of its worker, which is an outcome; whether the branch of an
adopted child is admitted is an outcome; versions of children are not modelled.

### Requests, events and turns

**MutationGuard** is the ledger, the mutex and the clients for the mutations of
one task; **TurnDelivery** the event tables, the channels and the scheduler of
the watcher with its turns; **ControlPlane** composes them: handlers publish,
agents send in their turns, processes restart.

| Variable | Code |
|---|---|
| `version` | `state_version` of the task: handlers and transitions of the tick raise it, a `Save` of the tick writes an older one back |
| `held` | the oldest version in a row that the tick may hold; when it loaded the row is left open |
| `ledger` | `task_mutation_records` by key: what was asked, pending or outcome; and (history, `epoch`) the rewinds there had been |
| `server` | the request that holds `mutationMu`, where it is, and whether its connection lives |
| `clients` | what each actor waits for or was told, and whether it has resent (`pkg/orchclient`: once) |
| `effects`, `rewinds` | history: requests whose handler committed; how often the tick wrote another version back |
| `events`, `bus` | `events` and `event_deliveries` |
| `mail` | unread messages and signal files |
| `channels` | the two buffered channels of the watcher and the batch between them |
| `sched`, `turns` | `turnScheduler`'s entries and its turn goroutines: check, events, sweep, acknowledge, launch, turn |
| `fate` | history: events a turn began with, events lost |
| `telling` | publications in progress, event first, then recipient by recipient |

Every query of a turn's check for work (`FilteredPrecheck.HasWork`) is a step,
so that events arrive between them. A handler that commits goes on in one of
three ways: a change of status is published and the task read again, archiving
only reads it again, a comment or an audit event does neither. One that refuses
answers with an error, which is recorded as failed, or in the two hundreds
(archiving what is archived, `gate_handlers.go:467`; a recovery that is not safe,
`health_recovery.go:520`), which is recorded as succeeded: the outcome "nothing".
A client that leaves while its request waits
for the mutex is not told apart from one that resends.

### Conventions

Operators headed "Mutant:" are deliberate errors, used by no action; they
document what each property would catch. Bounds of the checked instance are the
last constants of each module, named `Max...` and counted in `used`.

## 3. Runs

| Run | Question | Properties |
|---|---|---|
| `protocol_parent` | Two clients, stale and repeated requests, rework both ways, archive, a comment, an operator, a crash, moving refs | `EvidenceIsConsistent`, `RepairsDescend`, `TransitionsAreValid` |
| `protocol_quickfix` | The automatic policies on a branch that may be rewritten, gates that fail and repeat, a retry from scratch on a moved target | `ArtifactsContainTheirBase`, `TestingReadyResolves` |
| `merge_safety` | Mergers that time out, die, outlive a restart, race each other; host sessions beside them | `MergeTypeOK`, `ParkedDeliveryHasEvidence`, `LandedWasAuthorized`, `LandsOnce`, `DoneIsProven`, `TickOwnsMerging`, `HostReworkIsExclusive`, `KeepsTheContract` |
| `merge_liveness` | Every merge ends; a version that is written back lets no stale decision in | `DecisionsSeeTheirState`, `MergingResolves` |
| `workers_poll` | Polling alone, no faults: empty, rejected, dead and successful workers in any order | `WorkerTypeOK`, `OneWorkerOnBranch`, `DeathsAreCharged`, `ExitIsConsumed`, `ZeroExitMovesOn`, `SubtaskEnds` |
| `workers_faults` | Two goroutines write by write, lost and late events, spawner timeouts, a restart, every operator request | `DoneByWork`, `KeepsTheLedger` |
| `plan_execution` | Two plans from the backlog to delivery, with rejections, revisions, pauses, retries and two failures | `PlanTypeOK`, `DependenciesFirst`, `FilesAreExclusive`, `WavesRespectPlan`, `TestsComeFirst`, `DeliversThePlan`, `ReviewedPlanIsStable`, `ReachesAGate` |
| `control` | Two agents whose wakes share one channel, and an operator, send requests and messages; broken connections, restarts, turns that fail to start; a tick that moves the task or writes an old row back | `ControlTypeOK`, `OneEffectPerKey`, `OneEffectBetweenRewinds`, `AnswersAreTrue`, `OneTurnAtATime`, `AckedForATurn`, `EventsAreHeard`, `WakesAreAnswered`, `ClientsAreAnswered` |
| `version_regression`, `late_landing`, `quickfix_merge_stuck`, `retry_wedged` | the findings below, each violating one documented statement | |

### Bounds

The counters count what the environment may do, never what the orchestrator
must do, with two exceptions: `MaxRounds` ends the rework loop, and
`MaxMergers` and `MaxAttempts` bound containers.

- *Delivery and merging.* 3 commits give an old and a new artifact and a target
  that moved (4 in `protocol_quickfix`, for a retry on a moved target with a
  rewritten branch). 2 rounds give an artifact, rework and a second artifact,
  which is what staleness needs. 3 requests by 2 clients cover a verdict, a
  competing one, and a stale one afterwards. 2 mergers race; 2 is also enough
  to record one attempt and fail to record another. `MaxMergeRetries` is 2
  where the code has 5: the properties look at the first retry and at
  exhaustion. In `merge_liveness` 5 mergers exceed what 2 rounds of 2 attempts,
  and one failure lost to a comment, can start; it has no timeouts and no
  crashes for the same reason: each would need one container more, and none
  changes which handler has to make progress. Client identities are symmetric
  in `protocol_parent`, which checks no liveness.
- *Workers.* In `workers_poll` 5 attempts and 2 commits cover empty work up to
  its limit, a death within the budget, the death beyond it and a retry.
  `workers_faults` interleaves two goroutines write by write, so 2 attempts, 1
  commit and one fault of each kind: a late event or a late container of the
  first attempt meets the second.
- *Plans.* Two plans: two tests that share a file with their implementations,
  so that waves, phases, rejection and replacement happen; and an exempt
  implementation, an entry without a phase in conflict with it, and an
  integration with four files (implementations may name two, the others any
  number), with assumptions to clarify. Two operator requests and two failures
  meet every pair of either.
- *Requests and events.* Two agents, because a wake can only be dropped for
  another's, and an operator, because an agent sends requests only in a turn. 2
  inputs are two requests on one version: what the first one's handler publishes
  wakes an agent, which sends the second after the tick has written the version
  back; or a request and a move of the tick, two messages, a message and an
  event. Writing back is no input: it undoes one. One fault, at any point of
  these, and channels of one element, which are full at once.

`CHECK_DEADLOCK FALSE` where a task may rest: in `done`, `cancelled`,
`failed`, at a gate or parked, with every bound used up; and in `control`,
where nothing happens once nothing is sent. `workers_poll` and
`workers_faults` check deadlock: the tick never stops.

### Fairness

- *Delivery and merging.* The ticker calls every handler for ever, so what
  stays enabled is eventually done: weak fairness of `EndGate` (a gate's
  command has a timeout), of starting a gate, and of `ExecuteMerge`. Spawning
  is strongly fair: the runtime may refuse (`SpawnFails`), but not each time
  for ever. Containers run (`MergerRuns`), and death is not forced.
- *Workers.* The tick and the goroutine that holds a dispatch keep running, the
  spawner answers, a live container exits (the orchestrator bounds its time),
  and a paused parent is resumed.
- *Plans.* Each goroutine keeps running (weak fairness of its steps, whichever
  is next) and the planner service answers or fails. While there are workers, one
  of them completes in the end: strong fairness of `Completes`, because pauses
  disable it. `ReachesAGate` says that a task is at a gate again and again;
  requests are bounded,
  so it ends there.
- *Requests and events.* The goroutines of both processes keep running (one
  weak-fairness condition for each), and turns end. `EventsAreHeard` and
  `ClientsAreAnswered` are of the same form as `ReachesAGate`: again and again
  nothing is outstanding. Inputs are bounded, so in the end nothing is.

No fairness is assumed of clients, operators, pushes, faults or timeouts.

## 4. Findings

Each is a run whose counterexample is a behaviour of the code that
`plans/host-verification-state-machine.md` rules out.

1. **`version_regression`** — line 390 says versions are monotone and every
   mutation is a compare-and-swap. `merge_execution.go:148` keeps a task in
   `merging` after a failed push with `db.Save(task)`, the whole row as it was
   before the wait. A comment made meanwhile is undone in the version.
   `DecisionsSeeTheirState`, proved as `DecisionsAreInformed`, shows that no
   decision on a delivery is taken on a stale view by it: `merging` offers none
   and each way out moves the version again. Other
   requests it can let in, as said below under *Requests and events*.
2. **`late_landing`** — line 406 says only `merging` mutates the default
   branch. A merger whose wait expired (`merge_dispatch.go:312`) runs on; the
   next attempt may fail the task, and the first one then lands its commit.
   `LandedWasAuthorized` and `LandsOnce` show that what lands is still
   the authorised commit, on its base, once.
3. **`quickfix_merge_stuck`** — line 81 calls `merging` always actionable.
   `FinishQuickFix` accepts against the commit the worker was spawned from and
   records that commit id as base branch; `recoverAuthorizedMerge` resolves
   `refs/heads/<base branch>` (`delivery_merge_preflight.go:182`) and
   returns an error at every tick.
4. **`retry_wedged`** — the same line for `testing_ready`. After a merge
   failed, `RetryTask` (`task_api.go:193`) starts a quick fix over without
   invalidating the first artifact; the second cannot be frozen, and each tick
   runs the gate again for nothing.

Findings 3 and 4 concern two ways to accept a quick fix. In the third its head is
accepted when its worker completes, against the commit the worker started from.
In the fourth the branch has moved since, so the gate accepts the new head, against the
default branch; only then does the merge get far enough to fail.

### Further disagreements, without a run of their own

The models have these behaviours; the passing runs keep away from some of them
by their constants, as said with each group.

*Workers* (set `EventStream = TRUE`, requests or timeouts in `workers_poll.cfg`
to see most of them):

- A death can go uncharged: the second goroutine's whole-row write restores the
  old counter (`subtask_scheduling.go:513`;
  `docs/prd-evidence-based-orchestrator-state-machine.md:30`), and two workers
  may overlap on the branch (`docker_events.go:555`; same document, line 96).
  So `OneWorkerOnBranch` and `DeathsAreCharged` are checked for polling only.
- Pausing clears the assignment of a worker it could not stop, which runs on
  (`task_processing.go:646`; `task_api.go:47`).
- The stale sweep and recovery can start a second worker beside a live one
  (`agent/runner.go:629`; `plans/race-state-machine-edge-cases.md:136`), and a
  restart can fail a live one (`reconcile_stuck.go:85`).
- A restart strands a subtask in the backlog that still has an assignment
  (`reconcile.go:306`, comment at 299). The comment at `reconcile.go:75` says
  "reset to BACKLOG"; the code keeps the status.
- A restart between the two writes of an empty completion
  (`agent_failure.go:229`) hides the exit from every later poll.
- A worker that ends at a limit with a checkpoint: `handleWorkerDeath`, under
  `workerLifecycleMu`, calls `ResumeFailedCheckpoint`, which locks it again
  (`docker_events.go:537`, `checkpoint_resume.go:62`). The runs leave out
  exits of kind "limit", after which no dispatch goes on.

*Plans* (set `EventStream = TRUE` in `plan_execution.cfg` for the first two):

- The event goroutine and the tick schedule concurrently, each from rows it read
  before; a stale decision starts a worker beside one whose files conflict
  (`scheduler.go:92` speaks of one batch only), as a claim compares only
  `assigned_agent_id IS NULL` (`workeridentity.go:202`). `FilesAreExclusive`
  fails.
- The blind `Save` at `test_writing.go:156` undoes an approval made meanwhile:
  implementations run in `test_writing`. `TestsComeFirst` fails. The same kind
  of save can lose a pause (`parent_readiness.go:133`,
  `subtask_scheduling.go:428`, `task_processing.go:194` and `:502`,
  `constraint_gate_policy.go:269`; comment at `task_transitions.go:60`) or the
  last planner result (`task_processing.go:298`).
- After a plan is rejected with feedback the directive is never cleared, so each
  new plan is discarded until the request cap (`task_processing.go:69`, comment
  at 66). `ReachesAGate` names that end.
- A stale row can lose a charged planner request (`plan_client.go:313`).
- Duplicate dependencies after a rejection block an implementation
  (`subtask_scheduling.go:372`, `scheduler.go:428`); an integration that depends
  on a test, or a test on a test, stays blocked after a rejection; a cancelled
  dependency blocks its dependants (`parent_readiness.go:57`). The checked plans
  have none of these dependencies.
- A candidate is compared with the union of the files accepted before it, and
  the threshold is relative to the smaller set: with files {a}, {b,c,d,e} and
  {a,f,g,h} the third starts beside the first, although the two conflict and the
  comment at `scheduler.go:92` rules it out. TLC finds it with these three tests
  in one plan. And two children with four files each do not conflict over one.
  Implementations have at most two files (`plan_validation.go:15`), tests and
  integrations any number: `FilesAreExclusive`, proved as `FilesAreNotShared`, is
  about pairs of children with at most three each, beside whatever others.
- `paused_from` is never cleared; a pause that races a completion can undo it
  (`task_processing.go:652`).
- The comment at `scheduler.go:639` says a cycle should not happen in a validated
  plan. Validation looks for cycles among the dependencies of the plan
  (`plan_validation.go:70`), before `MergeTDDDependencies` makes an implementation
  wait for its test and an integration for every implementation. A test that
  waits for an integration, or for an entry without a phase that waits for the
  implementation the test covers, passes validation and then closes a cycle: its
  rows get waves in the order they were created, and none of them can start. So
  what `WavesRespectPlan` says of dependencies is for plans whose rows do not
  wait for each other (`Ordered`); both checked plans are. Without any file all
  rows are in one wave, as documented (`scheduler.go:448`), and dependencies
  alone order them.

*Requests and events*:

- Handlers do not compare the observed version. The guard does, but the tick may
  move the task between that check and the handler, and the request acts on a
  version the client never saw (`mutation_guard.go:133`, `gate_handlers.go:87`;
  `plans/host-verification-state-machine.md:470`). The next item is
  another way to the same end.
- Two requests on one version can both commit. Two clients comment on version 5,
  say, of a task in `merging`: the first one's commit makes it 6, the save of
  finding 1 makes it 5 again, and the check (`mutation_guard.go:133`) lets the
  second through, although the comment at `mutation_guard.go:32` gives every
  guarded write optimistic concurrency. Other saves of whole rows do the same
  (`test_writing.go:156`, `constraint_gate_policy.go:269`). To see it, check
  `OneEffectPerVersion` in `control.cfg` with `MaxFaults = 0`.
  `OneEffectBetweenRewinds` says what is left: among the requests admitted
  between two such saves, one for each version commits.
- A wake can be lost. `poll` removes a signal, then drops its wake if the channel
  is full (`inbox_signal_trigger.go:139`), although the comment at line 32 says
  that a signal becomes an event for its agent. All agents share the channel; what
  fills it need not be a wake of the same agent, and the message is looked at
  when something else wakes its agent. The channel has 16 elements (line 19) and
  the reader at `runner.go:143` is quick, so the window is narrow. To see it, check
  `MessagesAreRead` in `control.cfg` with `MaxFaults = 0`. `WakesAreAnswered` says
  that what is in the channel does lead to a turn that reads.
- A recovery that is refused is answered with 200 and recorded as succeeded
  (`health_recovery.go:520`), as is archiving what is archived
  (`gate_handlers.go:467`); the body tells a client, the ledger does not.
  `AnswersAreTrue` distinguishes them as a client can.
- A handler that cannot re-read the task after its commit is recorded as failed
  (`gate_handlers.go:780`); a claim left pending is refused for ever, which is
  documented. `AnswersAreTrue` leaves "failed" and "uncertain" open.
- Deliveries are acknowledged, and signals removed, before the turn runs; a
  process that does not start, a shutdown or a crash loses them. `EventsAreHeard`
  counts them as lost and `WakesAreAnswered` excludes faults. Deliveries to kyle
  are never acknowledged, ross gets none, and a commit and its publication are
  not atomic.

## 5. Proofs

Every theorem holds for all values of the constants allowed by the named
assumptions of its module (`KindAssumption`, `PolicyAssumption`,
`BoundAssumption`, `MergeAssumption`; `WorkerAssumption`; `PlanningAssumption`;
`GuardAssumption`, `DeliveryAssumption`, `ControlAssumption`).

**`DeliveryProofs`**, of `Delivery!Spec`:

- **`TypeCorrectness`, `TypeSafety`** — `[]TypeOK`. `TypeOK` alone is not
  inductive: an artifact's commit comes from the gate's candidate, that from
  an acceptance or a submitted head, that from a ref. `TypeInv` adds `Refs`:
  the target and the feature branch name commits of the history. The runs
  check `TypeOK` as a conjunct of `MergeTypeOK`.
- **`EvidenceCorrectness`** — `[]EvidenceInv`, the invariant behind the
  evidence: `OneCurrent` (only the newest artifact can be current),
  `RecordsReferToArtifacts` (a record names an existing artifact and its
  commit), and the two properties below. Without `OneCurrent`, freezing could
  leave an older artifact current in the status the new one enters; without the
  second, a record could be waiting for an artifact that is not frozen yet.
- **`ParkedDeliverySafety`** — `[]ParkedDeliveryHasEvidence`.
- **`EvidenceSafety`** — `[]EvidenceIsConsistent`.

The proof goes action by action. Actions are grouped by what they can disturb:
those that leave evidence and status alone, or enter a status without evidence,
share `EvidenceFrame`; those that also invalidate share `EvidenceInvalidated`;
freezing, verdicts, authorization and rework have a lemma each.

**`HostReworkProofs`**, of the same specification, sorts the actions into five
kinds (`StepsOfDelivery`): those that rest, those that move a task that is not
in host rework, decisions on a parked artifact, the closing of a session, and
archiving. What each kind does to the status gives

- **`TransitionsAreLegal`** — `TransitionsAreValid`;
- **`HostReworkSafety`** — `[]HostReworkIsExclusive`, which is inductive with
  `OneCurrent` (the artifact that is sent back is the newest). Merger attempts
  come in only with `MergeProofs`.

Its second part is about ancestry, which means something only for commits that
exist; a commit never changes its ancestors (`HistoryStep`), so descent is for
ever (`DescentIsForEver`). `AncestryInv` says of the gate's candidate, of
artifacts and of submitted replacements that they exist and descend; the
candidate is where artifacts get it from. **`ArtifactsAreBuiltOnTheirBase`** and
**`RepairsAreDescendants`** follow.

**`MergeProofs`**, of `MergeSpec`: all of what `merge_safety` checks, for any
number of mergers, timeouts and restarts. The steps are again sorted by what
they write (`MergeSteps`): a delivery step, a completion, a rewind, a failure,
a merger that moves a ref, a merger that does anything else, the tick waiting.
For delivery steps the lemmas above are used as they are. `MergeInv` adds, and
needs:

- `TickInv`: while the tick is in `executeMerge` the task is in `merging`,
  which no delivery step leaves (`MergingAndDoneRest`); so what preflight
  established still holds when the merger is started (**`TickSafety`**,
  **`MergingEvidenceSafety`**);
- `MergersAuthorized`: every merger, also one nobody waits for, was started on
  an authorised commit and base, and authorizations are never removed
  (**`LandingsAreAuthorized`**);
- `LandingInv` and `HistoryIsReflexive`: what landed is in the target, which
  never loses a commit (`GitStep`), and a push is of a commit the target lacks
  (**`LandingIsOnce`**);
- `RequestsAreFresh`: no client composes a request in `merging`, so the version
  a request names is older than what the tick loaded, and a version written back
  (finding 1) matches none (**`DecisionsAreInformed`**);
- `DoneInv`: a completion is recorded when the target contains the artifact, and
  nothing leaves `done` (**`DoneSafety`**).

**`HostReworkBesideMergers`** (`HostReworkIsExclusive` again) follows from the
lemmas of `HostReworkProofs` and `AttemptStep`: an attempt is recorded only while
the tick holds the task in `merging`, where no session is active; one that a
timeout leaves open refuses a session until it ends.

**`DeliveryKeepsItsContract`** — `MergeSpec => KeepsTheContract`. By `MergeInv`
each kind of step of `MergeSteps` is a step of the contract or a stutter:
freezing offers, verdicts accept, authorizations authorise, every invalidation
(rework, a drifted ref, archive of a parked delivery, a rewind) withdraws, a push lands,
a completion finishes, and the rest leaves `Versions`, `landed` and `Finished`
as they are. **`ContractKeepsItsPromise`** is about the contract alone: only the
newest version is open, what landed was authorised, no commit landed twice, and
the task ended with its newest version, authorised and open. Together they give
**`VersionsAreDelivered`**: the promise holds of the composed system.

**`AttemptProofs`**: the abstract lease is exclusive (**`LeaseIsExclusive`**), and
`WorkerAttempts` implements it (**`AttemptsKeepTheLedger`**), hence
**`OneOpenAttempt`**. The invariant needed is only that the rows are rows: every
action guards its writes by what the rows say, so each step reserves, starts,
closes or amends one attempt, or none. That is what makes the result independent
of everything else in the model: events, budgets, restarts and requests.

**`WorkerProofs`**, of `WorkerAttempts!Spec`:

- **`WorkersAreTyped`** — `[]WorkerTypeOK`, which is inductive.
- **`DoneOnlyByWork`** — `[]DoneByWork`, under every interleaving, fault and
  request. `DoneInv` adds `ExitsAreKnown` (events and dispatches are about
  containers that have exited, and an exit is not revised) and
  `DispatchIsInformed`: a dispatch that acts is about an exit of the kind it acts
  on, and the task is not done, although the row it works with was read earlier.
  Without the latter a death could be written over a completion.
- **`DeathsStayCharged`** — `[]DeathsAreCharged` while the tick alone consumes
  exits (`~EventStream`), whatever operators ask and however often the
  orchestrator restarts. `OneThread` says that a dispatch is the tick's and that
  whoever waits for a launch does nothing else; `ChargesAreHeld`, that a row
  somebody holds, and may write back whole, has the charges of the deaths counted
  so far, and one more while the death at hand is counted.

**`PlanProofs`**, of `PlanExecution!Spec`, for any plans, children, rejections,
failures, requests and restarts, while the tick alone schedules (`~EventStream`;
with the event stream TLC finds `DependenciesFirst`, `FilesAreExclusive`,
`TestsComeFirst` and `DeliversThePlan` violated on the instance of
`plan_execution`). The inductive invariant is `PlanInv` (**`PlanInvariant`**):

- `StageInv` says what each stage promises of the children: none before approval,
  only tests at work until they are approved, no worker at a gate, nothing left to
  do at `testing_ready`. The stage of a paused task is the one it will resume to,
  which is what makes pauses harmless.
- `RowInv`: a row that the tick has read, and saves whole later, is of the stage
  the task is still in, with its plan. The exception is planning, where the row
  may be older than the task; then a transition with it fails.
- `TodoInv`: the children the tick has noted still have the status it saw, no
  worker, and their dependencies done; so a decision is not stale when the worker
  starts.
- `ChildrenInv`: only a failure cancels, and a rejected child has a newer copy, so
  replacing dependencies and delivering in the last revision make sense;
  `PlannerInv`: the planner is asked about a row in planning.

From it follow **`DependenciesAreDone`** (`DependenciesFirst`: nothing takes
"done" away from a dependency while its dependant has a worker),
**`OnlyTestsAreWritten`** (`TestsComeFirst`) and **`DeliveredPlanIsDone`**
(`DeliversThePlan`).
**`FilesAreNotShared`** (`FilesAreExclusive`) is about children that name at most
three files each, as every implementation does, beside others that may name any
number. For such a child the threshold of three tenths means no common file
(`NoConflictNoOverlap`), also against a union of files, and
`FilesInv` says so of all that run or are noted to start. With four
files on both sides it is false (see [findings](#4-findings)).

**`ScheduleProofs`**, of the same specification, has no hypothesis: the tick and
the container events may both write whole rows. `SharedInv` (**`SharedInvariant`**)
rests on one observation: a `Save` compares nothing, so every row that may still
be saved has to agree with the task's in what must not be lost.

- `GoroutineInv`, `AskedInv`: before the approval only the tick and the planner
  hold rows that are written later, and these have the plan and the schedule of
  the task, or an older version, with which a transition fails. At the approval
  (from `plan_review`) nobody holds a row that could be saved. After it neither
  the plan nor the schedule changes, so whichever row is written last has them.
- `LifeInv`: there are children, and there is a schedule, only from the approval
  on.
- `FollowsPlan`: the first children are the rows of the plan, with a schedule of
  that plan. Rejections add children after them; a repair (`RepairDependencies`)
  replaces a rejected test by its newest copy, which has no wave, or by a test
  that the child waits for anyway, because `MergeTDDDependencies` made it wait for
  every test that covers it (`CoveringTest`, `RepairedWork`).
- `Typed`: the types, which the above needs and keeps.

From it follow **`PlanTypes`** (`PlanTypeOK`; that an assigned child is in
progress while the tick alone schedules comes from `PlanInv`),
**`LatePlansAreDropped`** (`ReviewedPlanIsStable`, which once needed
`~EventStream`) and **`WavesFollowThePlan`** (`WavesRespectPlan`). For the last,
`FirstColour` shows that a row is put above its dependencies and apart from its
neighbours as far as they have a colour, `WorkIsOrdered` that without a cycle a
row comes after what it waits for, and `PlannedWaves` joins the two.

**`ControlProofs`**, of `ControlPlane!Spec`, first for the mutations: `GuardInv`
(**`GuardedMutations`**) says that the mutex lets one request be under way; that
its record is in the ledger, so that its key cannot be claimed again, whatever
becomes of the connection; that each commit leaves the version behind the one
that was asked on, until the tick writes another version back, which begins a new
epoch; that answers rest on records; and that a refused client's
request is not in the server. From it follow **`KeysAreUsedOnce`**
(`OneEffectPerKey`), **`VersionsAreUsedOnce`** (`OneEffectBetweenRewinds`) and
**`ClientsAreToldTheTruth`** (`AnswersAreTrue`).

Then for the turns: `TurnInv` (**`TurnCorrectness`**) says
that the scheduler's entry of an agent counts its turns (`OneTurn`), and that
what was acknowledged for it and concerns it is settled (a turn began with it,
or it got lost) or is held by a turn that is ready to be launched
(`AckedIsTaken`). The first is what makes the second inductive: only the one
turn acknowledges, and while it is still checking no turn is ready, so all that
was acknowledged before is settled (`NoneReadyAllSettled`). A trigger starts a
turn only beside none (`TriggerStarts`), and the end of one leaves none or a
fresh one (`CompleteLeaves`). From it follow **`TurnsAreExclusive`**
(`OneTurnAtATime`) and **`AcknowledgedIsTaken`** (`AckedForATurn`), for any
number of agents, events and crashes.

`ControlInv` (**`ControlCorrectness`**) joins the two and adds what the types
need: an agent is delivered an event once, because a publication goes through
`Told` once (`DeliveredOnce`); a channel is filled only when there is room
(`ChannelsBounded`); and what a turn or a publication holds was published
(`EventsExist`). **`ControlTypes`** (`ControlTypeOK`) follows. That the entries
of `Told` differ is a conjunct of `ControlAssumption`: the four of `csuiteAgents`
do (`eventbus_integration.go:11`).

Every invariant and every action property of the passing runs but
`OneWorkerOnBranch` is stated by a theorem. Not proved:

- `OneWorkerOnBranch`, which is model-checked for polling without faults. With the
  event stream, one spawner timeout, one restart, or a request to pause or to
  recover, TLC finds two containers at once (see [findings](#4-findings)); a
  theorem would have to exclude all of these.

- Where two goroutines consume exits or schedule, what is proved is
  `KeepsTheLedger`, `DoneByWork`, `ReviewedPlanIsStable`, `WavesRespectPlan`, the
  types, and everything of the mutation guard and the turns; the properties with
  the hypothesis `~EventStream` fail there.
- Liveness (`TestingReadyResolves`, `MergingResolves`, `ExitIsConsumed`,
  `ZeroExitMovesOn`, `SubtaskEnds`, `ReachesAGate`, `EventsAreHeard`,
  `WakesAreAnswered`, `ClientsAreAnswered`), which needs `ENABLED` and is only
  model-checked.

No module declares a `RECURSIVE` operator: what `SubtaskPlans` does step by step
is a fold, and its orders, schedules and batches are sets of what has the
defining property; ancestry is a set stored with each commit. What a fold
computes for every input would need induction over data, which is out of the
prover's reach; no theorem needs it. Proof leaves are kept small: each is found
within the default time limits cut to two fifths.

Check a proof with `tlapm <module>.tla`, a run with
`tlc -config <run>.cfg <module>`.

## 6. What is not modelled

- **Other tasks**: they appear as `TargetAdvances`. Two tasks share only the
  target branch and the worker pool.
- **Classification** of a task, whose result is a constant of each model; the
  automated reviews of plans and tests; the atomic lane; experiments,
  preparation and direct agents; the in-process runner.
- **Of workers**: the detection of work that was merged already, the
  supervisor, the integration phase, the repair of test contracts, the journal.
- **Of plans**: reuse of finished children when a plan is materialised again,
  the defensive second materialisation, `dispatchPendingSubtasks`, the fallback
  of a resume to the backlog, detaching children, recovery policies of
  subtasks, baseline checks. The checked instance has no invalid plans
  (`MaxPlannerFailures = 0`).
- **Of requests and turns**: the checks of headers; errors of the queries of a
  turn's check; cooldowns (zero in production), the deduplicator, which nothing
  uses, retention, heartbeats, the safety timer, which does nothing. The message
  stores are an unread mark.
- **Branch registry**: no decision of the orchestrator reads it; ownership is
  decided by the rows of worker attempts.
- **Rate limiter**: it holds back only the in-process runner, which the
  container path does not use.
- **Time**: timers race through actions that may happen at any moment
  (`AwaitTimesOut`, `SpawnTimesOut`), like the merger's test timeout and the
  wait for it, both ten minutes.
- **Payloads**: evidence texts, fingerprints, interactions of a verification,
  titles and prompts carry no control.
- **Agents, models, rendering, transport, benchmarks, scoring**: no shared state
  of consequence, or conversations whose effects on Git and rows are modelled.

## 7. Plan

1. `BranchRegistry` and the message stores, if a decision comes to rest on them.
