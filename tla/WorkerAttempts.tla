--------------------------- MODULE WorkerAttempts ---------------------------
(***************************************************************************)
(* The worker containers of one subtask (internal/orchestrator:            *)
(* worker_spawn.go, subtask_scheduling.go, docker_events.go,               *)
(* agent_results.go, agent_failure.go, reconcile*.go, checkpoint_resume.go,*)
(* task_api.go; internal/workeridentity; internal/spawner;                 *)
(* internal/orchhttp/health_recovery*.go).                                 *)
(*                                                                         *)
(* A subtask is claimed for a worker by reserving an attempt, the spawner  *)
(* service starts a container for it, and the end of the container is      *)
(* consumed either by the tick, which polls the spawner, or by a second    *)
(* goroutine that follows the event stream of the container runtime.  Both *)
(* dispatch an exit under one mutex.  Every write to the database is a     *)
(* step of its own: the other goroutine, operators and restarts come       *)
(* between.                                                                *)
(***************************************************************************)
EXTENDS TaskStates, Naturals, Sequences, FiniteSets

CONSTANTS
  EventStream,     \* whether the runtime is connected, so that events arrive
  Requests,        \* what operators ask: "pause", "retry", "recover", "resume"
  ExitKinds,       \* how a worker may end: "zero", "crash", "limit"
  MaxEmptyRetries, \* MaxEmptyWorkRetries
  MaxDeaths,       \* retries the budget of a failure class allows
  ReplacementCap,  \* replacements within the window
  MaxAttempts,     \* bounds of the checked instance: attempts reserved,
  MaxCommits,      \* commits pushed,
  MaxTimeouts,     \* spawner calls that time out,
  MaxCrashes,      \* restarts of the orchestrator,
  MaxOperations    \* operator requests

ASSUME WorkerAssumption ==
  /\ EventStream \in BOOLEAN
  /\ Requests \subseteq {"pause", "retry", "recover", "resume"}
  /\ ExitKinds \subseteq {"zero", "crash", "limit"}
  /\ {MaxEmptyRetries, MaxDeaths, ReplacementCap, MaxAttempts, MaxCommits,
      MaxTimeouts, MaxCrashes, MaxOperations} \subseteq Nat

VARIABLES
  task,        \* the row of the subtask
  parent,      \* whether the parent is in progress or paused
  attempts,    \* rows of worker_attempts and of their agents, by number
  containers,  \* what the container runtime knows, by the same number
  head,        \* commits on the branch all attempts share
  events,      \* attempts whose die event the runtime has sent
  handler,     \* the dispatch in progress, which holds workerLifecycleMu
  tick,        \* where the tick is
  launch,      \* the spawn a goroutine waits for, 0 for none
  deaths,      \* deaths counted in memory by replacementTracker
  used         \* how much of the bounds on faults and requests is used up

rows == <<task, attempts>>
world == <<containers, head, events>>
threads == <<handler, tick, launch, deaths>>
vars == <<task, parent, attempts, containers, head, events, handler, tick,
          launch, deaths, used>>

-----------------------------------------------------------------------------
(* Types *)

Goroutine == {"tick", "handler"}

\* assigned_agent_id is the number of the attempt the agent was created for;
\* empties and deaths are counters in the context, rejected the record of the
\* last branch acceptance there.
TaskRow == [status : {"backlog", "in_progress", "failed", "done"},
            version : Nat, assigned : Nat, empties : Nat, deaths : Nat,
            rejected : BOOLEAN]

\* named: container_id and the session of the agent are set; agent and holds:
\* status of the agent and whether current_task_id is set; seen: an event row
\* records the exit; base: base_sha.
AttemptRow == [state : {"reserved", "running", "completed", "failed",
                        "aborted", "superseded"},
               named : BOOLEAN, agent : {"working", "idle", "dead"},
               holds : BOOLEAN, seen : BOOLEAN, base : Nat]

Container == [state : {"requested", "refused", "live", "exited"},
              exit : ExitKinds \union {"none", "crash"}]

HandlerPC == {"free", "decide", "complete", "emptyAgent", "emptyTask",
              "rejectAgent", "rejectTask", "finalize", "deadAgent",
              "deadAttempt", "deadTask", "judge", "count", "relaunch",
              "spawn", "continue"}

NewAttempt == [state |-> "reserved", named |-> FALSE, agent |-> "working",
               holds |-> TRUE, seen |-> FALSE, base |-> head]

InitialTask == [status |-> "backlog", version |-> 0, assigned |-> 0,
                empties |-> 0, deaths |-> 0, rejected |-> FALSE]

Free == [pc |-> "free", by |-> "none", attempt |-> 0, open |-> FALSE,
         row |-> InitialTask]
IdleTick == [pc |-> "idle", polls |-> {}, row |-> InitialTask]

\* The types of the variables.
WorkerTypeOK ==
  /\ task \in TaskRow
  /\ parent \in {"in_progress", "paused"}
  /\ attempts \in Seq(AttemptRow)
  /\ containers \in Seq(Container)
  /\ DOMAIN containers = DOMAIN attempts
  /\ head \in Nat
  /\ events \subseteq DOMAIN attempts
  /\ handler \in [pc : HandlerPC, by : {"none", "tick", "events"},
                  attempt : Nat, open : BOOLEAN, row : TaskRow]
  /\ tick \in [pc : {"idle", "poll", "schedule", "spawn", "claim", "wrapUp",
                     "reconcile"},
               polls : SUBSET DOMAIN attempts, row : TaskRow]
  /\ launch \in [Goroutine -> 0 .. Len(attempts)]
  /\ deaths \in Nat
  /\ used \in [timeouts : Nat, crashes : Nat, operations : Nat]

-----------------------------------------------------------------------------
(* Rows *)

\* completed_at is null.
Open(n) == attempts[n].state \in {"reserved", "running"}

Ended == {"failed", "done"}   \* isTerminal

LockFree == handler.pc = "free"

\* Mutant: what is recorded is the exit of the container.
CloseWithExit(n, state) ==
  attempts' = [attempts EXCEPT ![n].state = containers[n].exit]

\* Mutant: whatever state the attempt is in by now.
CloseAnyway(n, state) == attempts' = [attempts EXCEPT ![n].state = state]

\* finalizeObservedAttempt: the update asks for completed_at still to be null.
Close(n, state) ==
  attempts' = [attempts EXCEPT ![n].state = IF Open(n) THEN state ELSE @]

\* db.Save writes every column of the row the caller holds and leaves the
\* version alone.
SaveTask(row) == task' = row

\* casTaskTransition: every column, if status and version are still those of
\* the row.
IsCurrent(row) == task.status = row.status /\ task.version = row.version

Transition(row, status) ==
  IF IsCurrent(row) /\ status \in ValidTransitions[row.status]
    THEN task' = [row EXCEPT !.status = status, !.version = @ + 1]
    ELSE UNCHANGED task

FailTask(row) == Transition(row, "failed")

Release == handler' = Free
Handle(pc) == handler' = [handler EXCEPT !.pc = pc]
Step(pc) == tick' = [tick EXCEPT !.pc = pc]

-----------------------------------------------------------------------------
(* Launching a worker: spawnTypedWorker *)

\* ReserveSpawn, for a task nobody is assigned to.
Reserve(who) ==
  /\ LET closed == [n \in DOMAIN attempts |->
                      IF Open(n) THEN [attempts[n] EXCEPT !.state = "superseded"]
                                 ELSE attempts[n]]
     IN attempts' = Append(closed, NewAttempt)
  /\ containers' = Append(containers, [state |-> "requested", exit |-> "none"])
  /\ task' = [task EXCEPT !.assigned = Len(attempts) + 1]
  /\ launch' = [launch EXCEPT ![who] = Len(attempts) + 1]

CanReserve == task.assigned = 0 /\ Len(attempts) < MaxAttempts

\* AbortReservation
Aborted(n) == IF Open(n)
                THEN [attempts[n] EXCEPT !.state = "aborted", !.named = FALSE,
                                         !.agent = "dead"]
                ELSE attempts[n]
Unassigned(n) == IF Open(n) /\ task.assigned = n
                   THEN [task EXCEPT !.assigned = 0] ELSE task

\* What the caller does with the outcome of the launch: the tick goes on to
\* claim the subtask, a dispatch is over.
Launched(who, ok) ==
  /\ launch' = [launch EXCEPT ![who] = 0]
  /\ IF who = "tick" THEN Step(IF ok THEN "claim" ELSE "wrapUp")
                          /\ UNCHANGED handler
                     ELSE Release /\ UNCHANGED tick

Waits(who, n) == launch[who] = n /\ n # 0

\* The spawner answers and FinalizeSpawn records the container.
FinalizeSpawn(who, n) ==
  /\ Waits(who, n)
  /\ containers[n].state \in {"live", "exited"}
  /\ attempts[n].state = "reserved"
  /\ attempts' = [attempts EXCEPT ![n].state = "running", ![n].named = TRUE]
  /\ Launched(who, TRUE)
  /\ UNCHANGED <<task, parent, world, deaths, used>>

\* FinalizeSpawn finds the attempt no longer reserved: the container is
\* destroyed.
DestroySpawn(who, n) ==
  /\ Waits(who, n)
  /\ containers[n].state \in {"live", "exited"}
  /\ attempts[n].state # "reserved"
  /\ containers' = [containers EXCEPT
       ![n] = IF @.state = "live" THEN [state |-> "exited", exit |-> "crash"]
                                  ELSE @]
  /\ events' = IF EventStream /\ containers[n].state = "live"
                 THEN events \union {n} ELSE events
  /\ Launched(who, FALSE)
  /\ UNCHANGED <<rows, parent, head, deaths, used>>

\* The spawner reports an error.  When it is that the image is unavailable the
\* caller fails the task, with the row in which ReserveSpawn left the agent.
SpawnFails(who, n) ==
  /\ Waits(who, n)
  /\ containers[n].state = "refused"
  /\ attempts' = [attempts EXCEPT ![n] = Aborted(n)]
  /\ \/ task' = Unassigned(n)
     \/ LET held == IF who = "tick" THEN tick.row ELSE handler.row
        IN IF IsCurrent(held)
             THEN task' = [held EXCEPT !.status = "failed", !.assigned = n,
                                       !.version = @ + 1]
             ELSE task' = Unassigned(n)
  /\ Launched(who, FALSE)
  /\ UNCHANGED <<parent, world, deaths, used>>

\* The client gives up after its thirty seconds, whatever the spawner does.
SpawnTimesOut(who, n) ==
  /\ Waits(who, n)
  /\ containers[n].state = "requested"
  /\ used.timeouts < MaxTimeouts
  /\ used' = [used EXCEPT !.timeouts = @ + 1]
  /\ attempts' = [attempts EXCEPT ![n] = Aborted(n)]
  /\ task' = Unassigned(n)
  /\ Launched(who, FALSE)
  /\ UNCHANGED <<parent, world, deaths>>

Launching(who, n) == FinalizeSpawn(who, n) \/ DestroySpawn(who, n)
                       \/ SpawnFails(who, n) \/ SpawnTimesOut(who, n)

-----------------------------------------------------------------------------
(* The spawner and the containers *)

SpawnerStarts(n) ==
  /\ containers[n].state = "requested"
  /\ containers' = [containers EXCEPT ![n].state = "live"]
  /\ UNCHANGED <<rows, parent, head, events, threads, used>>

SpawnerRefuses(n) ==
  /\ containers[n].state = "requested"
  /\ containers' = [containers EXCEPT ![n].state = "refused"]
  /\ UNCHANGED <<rows, parent, head, events, threads, used>>

\* The watchdog of a worker pushes.
Commit(n) ==
  /\ containers[n].state = "live"
  /\ head < MaxCommits
  /\ head' = head + 1
  /\ UNCHANGED <<rows, parent, containers, events, threads, used>>

\* A worker ends.  Its event is sent, unless the subscription is not there.
Exit(n) ==
  /\ containers[n].state = "live"
  /\ \E kind \in ExitKinds :
       containers' = [containers EXCEPT ![n] = [state |-> "exited",
                                                exit |-> kind]]
  /\ \/ UNCHANGED events
     \/ EventStream /\ events' = events \union {n}
  /\ UNCHANGED <<rows, parent, head, threads, used>>

-----------------------------------------------------------------------------
(* Dispatching an exit: dispatchEvent, under workerLifecycleMu *)

\* The event row is written, then the task is read, then the attempt.
Observe(by, n) ==
  /\ attempts' = [attempts EXCEPT ![n].seen = TRUE]
  /\ handler' = [pc |-> "decide", by |-> by, attempt |-> n, open |-> Open(n),
                 row |-> task]

TakeEvent(n) ==
  /\ LockFree
  /\ n \in events
  /\ events' = events \ {n}
  /\ Observe("events", n)
  /\ UNCHANGED <<task, parent, containers, head, tick, launch, deaths, used>>

self == handler.attempt
At(pc) == handler.pc = pc

IsEffective == /\ handler.row.status \notin Ended
               /\ handler.row.assigned = self
               /\ handler.open

\* The exit of an attempt that is not the current one, or of a task that has
\* ended, closes the attempt and has no effect on the task.
DropExit ==
  /\ At("decide") /\ ~IsEffective
  /\ IF handler.open
       THEN Close(self, IF containers[self].exit = "zero" THEN "completed"
                                                          ELSE "failed")
       ELSE UNCHANGED attempts
  /\ Release
  /\ UNCHANGED <<task, parent, world, tick, launch, deaths, used>>

TakeEffect ==
  /\ At("decide") /\ IsEffective
  /\ Handle(IF containers[self].exit = "zero" THEN "complete" ELSE "deadAgent")
  /\ UNCHANGED <<rows, parent, world, tick, launch, deaths, used>>

-----------------------------------------------------------------------------
(* A worker that exited with code zero: processAgentResult *)

\* The agent no longer refers to the task: nothing is done and the attempt
\* stays open.
CompleteNothing ==
  /\ At("complete") /\ ~attempts[self].holds
  /\ Release
  /\ UNCHANGED <<rows, parent, world, tick, launch, deaths, used>>

FindEmptyWork ==
  /\ At("complete") /\ attempts[self].holds
  /\ head = 0
  /\ handler' = [handler EXCEPT !.pc = "emptyAgent", !.row = task]
  /\ UNCHANGED <<rows, parent, world, tick, launch, deaths, used>>

\* Mutant: the row of the agent keeps its task.
AcceptKeepingTask ==
  /\ At("complete") /\ attempts[self].holds
  /\ head > 0
  /\ task.status = "in_progress"
  /\ task' = [task EXCEPT !.status = "done", !.version = @ + 1,
                           !.rejected = FALSE]
  /\ attempts' = [attempts EXCEPT ![self].agent = "idle",
                                  ![self].holds = FALSE]
  /\ Handle("finalize")
  /\ UNCHANGED <<parent, world, tick, launch, deaths, used>>

\* One transaction ends the agent and completes the subtask.
AcceptWork ==
  /\ At("complete") /\ attempts[self].holds
  /\ head > 0
  /\ task.status = "in_progress"
  /\ task' = [task EXCEPT !.status = "done", !.version = @ + 1,
                           !.assigned = 0, !.rejected = FALSE]
  /\ attempts' = [attempts EXCEPT ![self].agent = "idle",
                                  ![self].holds = FALSE]
  /\ Handle("finalize")
  /\ UNCHANGED <<parent, world, tick, launch, deaths, used>>

\* casSubtaskCompletion refuses the status and the transaction is rolled back;
\* the verdict of branch acceptance was written before.
AcceptTooEarly ==
  /\ At("complete") /\ attempts[self].holds
  /\ head > 0
  /\ task.status # "in_progress"
  /\ task' = [task EXCEPT !.rejected = FALSE]
  /\ Release
  /\ UNCHANGED <<attempts, parent, world, tick, launch, deaths, used>>

\* Branch acceptance rejects: the verdict is written into the context of the
\* task and the attempt is closed.
RejectWork ==
  /\ At("complete") /\ attempts[self].holds
  /\ head > 0
  /\ task' = [task EXCEPT !.rejected = TRUE]
  /\ Close(self, "failed")
  /\ handler' = [handler EXCEPT !.pc = "rejectAgent",
                                !.row = [task EXCEPT !.rejected = TRUE]]
  /\ UNCHANGED <<parent, world, tick, launch, deaths, used>>

SaveIdleAgent ==
  /\ \/ At("emptyAgent") /\ Handle("emptyTask")
     \/ At("rejectAgent") /\ Handle("rejectTask")
  /\ attempts' = [attempts EXCEPT ![self].agent = "idle",
                                  ![self].holds = FALSE]
  /\ UNCHANGED <<task, parent, world, tick, launch, deaths, used>>

\* Mutant: the next try keeps the assignment.
SaveEmptyWorkAssigned ==
  /\ At("emptyTask")
  /\ LET row == [handler.row EXCEPT !.empties = @ + 1]
     IN IF row.empties < MaxEmptyRetries THEN SaveTask(row) ELSE FailTask(row)
  /\ Release
  /\ UNCHANGED <<attempts, parent, world, tick, launch, deaths, used>>

\* onAgentEmptyWork: another try, or failure, which leaves the assignment.
SaveEmptyWork ==
  /\ At("emptyTask")
  /\ LET row == [handler.row EXCEPT !.empties = @ + 1]
     IN IF row.empties < MaxEmptyRetries
          THEN SaveTask([row EXCEPT !.assigned = 0])
          ELSE FailTask(row)
  /\ Release
  /\ UNCHANGED <<attempts, parent, world, tick, launch, deaths, used>>

SaveRejection ==
  /\ At("rejectTask")
  /\ FailTask([handler.row EXCEPT !.assigned = 0])
  /\ Release
  /\ UNCHANGED <<attempts, parent, world, tick, launch, deaths, used>>

FinalizeExit ==
  /\ At("finalize")
  /\ Close(self, "completed")
  /\ Release
  /\ UNCHANGED <<task, parent, world, tick, launch, deaths, used>>

Completing ==
  \/ CompleteNothing \/ FindEmptyWork \/ AcceptWork \/ AcceptTooEarly
  \/ RejectWork \/ SaveIdleAgent \/ SaveEmptyWork \/ SaveRejection
  \/ FinalizeExit

-----------------------------------------------------------------------------
(* A worker that died: handleWorkerDeath, with the row of the task as it was *)
(* when the dispatch began                                                   *)

\* markWorkerAttemptDead, in three writes.
SaveDeadAgent ==
  /\ At("deadAgent")
  /\ attempts' = [attempts EXCEPT ![self].agent = "dead",
                                  ![self].holds = FALSE]
  /\ Handle("deadAttempt")
  /\ UNCHANGED <<task, parent, world, tick, launch, deaths, used>>

SaveDeadAttempt ==
  /\ At("deadAttempt")
  /\ attempts' = [attempts EXCEPT ![self].state = "failed"]
  /\ Handle("deadTask")
  /\ UNCHANGED <<task, parent, world, tick, launch, deaths, used>>

ClearDeadAssignment ==
  /\ At("deadTask")
  /\ LET row == [handler.row EXCEPT !.assigned = 0]
     IN /\ SaveTask(row)
        /\ handler' = [handler EXCEPT !.pc = "judge", !.row = row]
  /\ UNCHANGED <<attempts, parent, world, tick, launch, deaths, used>>

\* attemptCheckpoint: there are commits since the base of the attempt.
HasCheckpoint == head > attempts[self].base

FailRejected ==
  /\ At("judge") /\ handler.row.rejected
  /\ FailTask(handler.row)
  /\ Release
  /\ UNCHANGED <<attempts, parent, world, tick, launch, deaths, used>>

\* The task fails with its checkpoint preserved.  After a token budget, a
\* timeout or a context limit ResumeFailedCheckpoint follows, which waits for
\* workerLifecycleMu, held by this very dispatch: "continue" has no successor.
HandOffCheckpoint ==
  /\ At("judge") /\ ~handler.row.rejected /\ HasCheckpoint
  /\ FailTask(handler.row)
  /\ IF containers[self].exit = "limit" /\ IsCurrent(handler.row)
       THEN Handle("continue") ELSE Release
  /\ UNCHANGED <<attempts, parent, world, tick, launch, deaths, used>>

\* Mutant: the budget is judged but not saved.
ChargeUnsaved ==
  /\ At("judge") /\ ~handler.row.rejected /\ ~HasCheckpoint
  /\ LET row == [handler.row EXCEPT !.deaths = @ + 1]
     IN IF row.deaths > MaxDeaths
          THEN FailTask(row) /\ Release
          ELSE UNCHANGED task /\ Handle("count")
  /\ UNCHANGED <<attempts, parent, world, tick, launch, deaths, used>>

\* consumeRetryBudget
ChargeBudget ==
  /\ At("judge") /\ ~handler.row.rejected /\ ~HasCheckpoint
  /\ LET row == [handler.row EXCEPT !.deaths = @ + 1]
     IN IF row.deaths > MaxDeaths
          THEN FailTask(row) /\ Release
          ELSE /\ SaveTask(row)
               /\ handler' = [handler EXCEPT !.pc = "count", !.row = row]
  /\ UNCHANGED <<attempts, parent, world, tick, launch, deaths, used>>

\* replacementTracker.recordAndCount
CountDeath ==
  /\ At("count")
  /\ deaths' = deaths + 1
  /\ IF deaths' > ReplacementCap
       THEN FailTask(handler.row) /\ Release
       ELSE UNCHANGED task /\ Handle("relaunch")
  /\ UNCHANGED <<attempts, parent, world, tick, launch, used>>

Relaunch ==
  /\ At("relaunch")
  /\ \/ CanReserve /\ Reserve("handler") /\ Handle("spawn")
        /\ UNCHANGED <<head, events>>
     \/ ~CanReserve /\ Release /\ UNCHANGED <<rows, world, launch>>
  /\ UNCHANGED <<parent, tick, deaths, used>>

Dying ==
  \/ SaveDeadAgent \/ SaveDeadAttempt \/ ClearDeadAssignment \/ FailRejected
  \/ HandOffCheckpoint \/ ChargeBudget \/ CountDeath \/ Relaunch

Dispatch == DropExit \/ TakeEffect \/ Completing \/ Dying

-----------------------------------------------------------------------------
(* The tick *)

\* While it dispatches an exit it does nothing else.
TickAt(pc) == tick.pc = pc /\ handler.by # "tick"

\* Mutant: attempts of a subtask that has ended are not looked at.
BeginTickUnfinished ==
  /\ TickAt("idle")
  /\ tick' = [tick EXCEPT !.pc = "poll",
                !.polls = {n \in DOMAIN attempts : Open(n) /\ attempts[n].named
                             /\ task.status \notin Ended}]
  /\ UNCHANGED <<rows, parent, world, handler, launch, deaths, used>>

\* reconcileWorkerAttemptLifecycles samples the open attempts that have a
\* container.
BeginTick ==
  /\ TickAt("idle")
  /\ tick' = [tick EXCEPT !.pc = "poll",
                !.polls = {n \in DOMAIN attempts : Open(n) /\ attempts[n].named}]
  /\ UNCHANGED <<rows, parent, world, handler, launch, deaths, used>>

\* A container that runs is skipped.
PollLive(n) ==
  /\ TickAt("poll") /\ n \in tick.polls
  /\ containers[n].state = "live"
  /\ tick' = [tick EXCEPT !.polls = @ \ {n}]
  /\ UNCHANGED <<rows, parent, world, handler, launch, deaths, used>>

PollExit(n) ==
  /\ TickAt("poll") /\ n \in tick.polls
  /\ containers[n].state = "exited"
  /\ LockFree
  /\ tick' = [tick EXCEPT !.polls = @ \ {n}]
  /\ Observe("tick", n)
  /\ UNCHANGED <<task, parent, world, launch, deaths, used>>

\* The spawner does not answer in time: the rest waits for the next tick.
PollFails ==
  /\ TickAt("poll") /\ tick.polls # {}
  /\ used.timeouts < MaxTimeouts
  /\ used' = [used EXCEPT !.timeouts = @ + 1]
  /\ tick' = [tick EXCEPT !.polls = {}]
  /\ UNCHANGED <<rows, parent, world, handler, launch, deaths>>

EndPoll ==
  /\ TickAt("poll") /\ tick.polls = {}
  /\ Step("schedule")
  /\ UNCHANGED <<rows, parent, world, handler, launch, deaths, used>>

\* Mutant: only the backlog is scheduled.
SchedulableBacklog == parent = "in_progress" /\ task.status = "backlog"

\* scheduleSubtasks: a subtask in the backlog, or in progress with nobody
\* assigned.
Schedulable ==
  /\ parent = "in_progress"
  /\ \/ task.status = "backlog"
     \/ task.status = "in_progress" /\ task.assigned = 0

Schedule ==
  /\ TickAt("schedule") /\ Schedulable /\ CanReserve
  /\ Reserve("tick")
  /\ tick' = [tick EXCEPT !.pc = "spawn", !.row = task]
  /\ UNCHANGED <<parent, head, events, handler, deaths, used>>

ScheduleNothing ==
  /\ TickAt("schedule") /\ ~(Schedulable /\ CanReserve)
  /\ Step("wrapUp")
  /\ UNCHANGED <<rows, parent, world, handler, launch, deaths, used>>

\* dispatchSubtaskViaSpawner reloads the row; a subtask that was not in
\* progress when it was scheduled is claimed now, from whatever status it has.
Claim ==
  /\ TickAt("claim")
  /\ IF task.assigned = 0 THEN FailTask(task)
     ELSE IF tick.row.status = "in_progress" THEN UNCHANGED task
     ELSE Transition(task, "in_progress")
  /\ Step("wrapUp")
  /\ UNCHANGED <<attempts, parent, world, handler, launch, deaths, used>>

\* handlePaused drops the assignment of the children of a paused parent; the
\* runner it asks to stop the agent does not know the container.  Then
\* CleanupStaleAgents declares dead whoever has worked for longer than the
\* heartbeat of its spawn is fresh.
WrapUp ==
  /\ TickAt("wrapUp")
  /\ task' = IF parent = "paused" THEN [task EXCEPT !.assigned = 0] ELSE task
  /\ \E stale \in SUBSET {n \in DOMAIN attempts :
                            attempts[n].agent = "working" /\ launch["handler"] # n} :
       attempts' = [n \in DOMAIN attempts |->
         IF n \in stale THEN [attempts[n] EXCEPT !.agent = "dead"]
                        ELSE attempts[n]]
  /\ Step("reconcile")
  /\ UNCHANGED <<parent, world, handler, launch, deaths, used>>

\* reconcileStuckAgents: the agent works, has no container and is older than
\* the grace period.  It is taken for an agent of the host that is gone.
Stuck(n) ==
  /\ n # 0 /\ n = task.assigned /\ task.status = "in_progress"
  /\ attempts[n].agent = "working" /\ ~attempts[n].named
  /\ launch["handler"] # n

FailStuck ==
  /\ TickAt("reconcile") /\ Stuck(task.assigned)
  /\ attempts' = [attempts EXCEPT ![task.assigned].agent = "dead",
                                  ![task.assigned].holds = FALSE]
  /\ FailTask([task EXCEPT !.deaths = @ + 1])
  /\ Step("idle")
  /\ UNCHANGED <<parent, world, handler, launch, deaths, used>>

\* Mutant: an agent that does not work is enough.
OrphanedWhileOpen ==
  /\ task.status = "in_progress" /\ task.assigned # 0
  /\ attempts[task.assigned].agent # "working"

\* reconcileOrphanedTaskAssignments and, at startup,
\* cleanupOrphanedAssignments: the agent is not working and has no open attempt.
Orphaned ==
  /\ task.status = "in_progress" /\ task.assigned # 0
  /\ attempts[task.assigned].agent # "working"
  /\ ~Open(task.assigned)

Adopted == IF Orphaned THEN [task EXCEPT !.assigned = 0] ELSE task

Reconcile ==
  /\ TickAt("reconcile")
  /\ task' = Adopted
  /\ Step("idle")
  /\ UNCHANGED <<attempts, parent, world, handler, launch, deaths, used>>

Tick ==
  \/ BeginTick \/ EndPoll \/ Schedule \/ ScheduleNothing \/ Claim \/ WrapUp
  \/ Reconcile
  \/ \E n \in tick.polls : PollLive(n) \/ PollExit(n)

-----------------------------------------------------------------------------
(* Operators and restarts *)

Request(kind) == /\ kind \in Requests
                 /\ used.operations < MaxOperations
                 /\ used' = [used EXCEPT !.operations = @ + 1]

PauseParent ==
  /\ Request("pause")
  /\ parent = "in_progress" /\ parent' = "paused"
  /\ UNCHANGED <<rows, world, threads>>

ResumeParent ==
  /\ parent = "paused" /\ parent' = "in_progress"
  /\ UNCHANGED <<rows, world, threads, used>>

\* RetryTask: the counter of empty work is reset, the budget of deaths is not.
RetryTask ==
  /\ Request("retry")
  /\ task.status = "failed"
  /\ task' = [task EXCEPT !.status = "backlog", !.version = @ + 1,
                          !.assigned = 0, !.empties = 0]
  /\ attempts' = [n \in DOMAIN attempts |->
       IF attempts[n].holds
         THEN [attempts[n] EXCEPT !.holds = FALSE,
                 !.agent = IF @ = "dead" THEN "idle" ELSE @]
         ELSE attempts[n]]
  /\ UNCHANGED <<parent, world, threads>>

\* classifyStaleAssignment: the agent does not work, or an exit of the current
\* attempt has been recorded.
RecoverStaleAssignment ==
  /\ Request("recover")
  /\ task.assigned # 0 /\ task.status \notin Ended
  /\ \/ attempts[task.assigned].agent # "working"
     \/ attempts[task.assigned].seen
  /\ task' = [task EXCEPT !.assigned = 0, !.version = @ + 1]
  /\ attempts' = [attempts EXCEPT ![task.assigned].holds = FALSE]
  /\ UNCHANGED <<parent, world, threads>>

\* ResumeFailedCheckpoint, asked for by an operator.
ResumeCheckpoint ==
  /\ Request("resume")
  /\ LockFree
  /\ task.status = "failed"
  /\ parent = "in_progress"
  /\ attempts # <<>> /\ \A n \in DOMAIN attempts : ~Open(n)
  /\ task' = [task EXCEPT !.status = "in_progress", !.version = @ + 1,
                          !.assigned = 0]
  /\ UNCHANGED <<attempts, parent, world, threads>>

\* The orchestrator stops and starts again: what is in memory is gone and the
\* subscription with it; the startup sweep runs before the first poll.
Crash ==
  /\ used.crashes < MaxCrashes
  /\ used' = [used EXCEPT !.crashes = @ + 1]
  /\ handler' = Free /\ tick' = IdleTick
  /\ launch' = [who \in Goroutine |-> 0]
  /\ deaths' = 0 /\ events' = {}
  /\ task' = Adopted
  /\ UNCHANGED <<attempts, parent, containers, head>>

-----------------------------------------------------------------------------
Init ==
  /\ task = InitialTask /\ parent = "in_progress"
  /\ attempts = <<>> /\ containers = <<>> /\ head = 0 /\ events = {}
  /\ handler = Free /\ tick = IdleTick
  /\ launch = [who \in Goroutine |-> 0] /\ deaths = 0
  /\ used = [timeouts |-> 0, crashes |-> 0, operations |-> 0]

Next ==
  \/ Tick \/ PollFails \/ FailStuck \/ Dispatch
  \/ \E n \in events : TakeEvent(n)
  \/ \E who \in Goroutine, n \in DOMAIN attempts : Launching(who, n)
  \/ \E n \in DOMAIN attempts :
       SpawnerStarts(n) \/ SpawnerRefuses(n) \/ Commit(n) \/ Exit(n)
  \/ PauseParent \/ ResumeParent \/ RetryTask \/ RecoverStaleAssignment
  \/ ResumeCheckpoint \/ Crash

Spec == Init /\ [][Next]_vars

\* The tick and the dispatch are loops that always take their next step; the
\* spawner answers every request, and a worker runs under limits that end it.
Fairness ==
  /\ WF_vars(Tick) /\ WF_vars(Dispatch)
  /\ \A who \in Goroutine : WF_vars(\E n \in DOMAIN attempts : Launching(who, n))
  /\ WF_vars(\E n \in DOMAIN attempts : SpawnerStarts(n) \/ SpawnerRefuses(n))
  /\ WF_vars(\E n \in DOMAIN attempts : Exit(n))
  /\ WF_vars(ResumeParent)

FairSpec == Spec /\ Fairness

-----------------------------------------------------------------------------
(* Properties *)

\* Whoever reserves, aborts, supersedes or closes an attempt, and however their
\* writes interleave, the rows keep the lease: the partial unique index on open
\* attempts (internal/db/db.go) is never hit, and none reopens.
Ledger == INSTANCE AttemptLedger WITH
            ledger <- [n \in DOMAIN attempts |-> attempts[n].state]
KeepsTheLedger == Ledger!Spec

\* No two containers of the subtask run, or are about to, on their one branch.
OneWorkerOnBranch ==
  \A m, n \in DOMAIN containers :
    {containers[m].state, containers[n].state} \subseteq {"requested", "live"}
      => m = n

\* A subtask is done only by the exit with code zero of a worker, after
\* something was pushed, and nobody is assigned to it any more.
DoneByWork ==
  task.status = "done" =>
    /\ head > 0 /\ task.assigned = 0
    /\ \E n \in DOMAIN attempts :
         containers[n].exit = "zero" /\ attempts[n].agent = "idle"

\* Nobody replaces a dead worker who has not been charged to the budget, which
\* lives in the row and survives restarts: the deaths charged are at least
\* those the memory of the process counts.
DeathsAreCharged == deaths <= task.deaths

\* The end of a worker whose container is known closes its attempt.
ExitIsConsumed ==
  \A n \in 1 .. MaxAttempts :
    (/\ n \in DOMAIN attempts
     /\ attempts[n].named /\ containers[n].state = "exited")
      ~> (n \in DOMAIN attempts /\ ~Open(n))

\* A subtask that was taken up ends, unless the instance runs out of attempts.
SubtaskEnds == <>[](task.status \in Ended \/ Len(attempts) = MaxAttempts)

\* A subtask does not stay in progress on a worker that exited with zero.
ZeroExitMovesOn ==
  \A n \in 1 .. MaxAttempts :
    (n \in DOMAIN containers /\ attempts[n].named /\ containers[n].exit = "zero")
      ~> ~(task.status = "in_progress" /\ task.assigned = n)

=============================================================================
