--------------------------- MODULE PlanExecution ----------------------------
(***************************************************************************)
(* A standard task from the backlog to testing_ready: TaskPlanning with    *)
(* the children an approved plan creates (internal/orchestrator:           *)
(* handlers.go, test_writing.go, subtask_scheduling.go, task_processing.go,*)
(* parent_readiness.go, task_api.go, codex_adoption.go,                    *)
(* constraint_gate_policy.go).                                             *)
(*                                                                         *)
(* A child's worker is reduced to whether one is assigned; WorkerAttempts  *)
(* has its life.  Its exit is consumed by the tick, when it polls, or by   *)
(* the goroutine of container events at any time; after a completion the   *)
(* same goroutine goes on to judge, and while tests are written also to    *)
(* schedule, the siblings.                                                 *)
(***************************************************************************)
EXTENDS TaskPlanning

VARIABLE
  subtasks  \* the rows of the children, by number

vars == <<task, runs, planner, used, subtasks>>

-----------------------------------------------------------------------------
(* Types *)

SubtaskStatus ==
  {"backlog", "in_progress", "done", "failed", "rejected", "cancelled"}

Subtask ==
  [ entry : Nat, rev : Nat, phase : Phases, status : SubtaskStatus,
    deps : Seq(Nat), testsFor : Seq(Nat), files : SUBSET STRING,
    priority : Nat, assigned : BOOLEAN,
    kind : {"none", "dependency_failure"} ]

RunPc ==
  { "idle", "backlog", "planning",                        \* before the plan
    "completed",                                          \* an exit consumed
    "tests", "dispatch tests", "review tests",            \* test_writing
    "work", "dispatch work", "deliver", "drain", "stop",  \* in_progress
    "halt" }                                              \* paused

PlanTypeOK ==
  /\ task \in Row
  /\ DOMAIN runs = Goroutine
  /\ \A g \in Goroutine :
       /\ DOMAIN runs[g] = {"pc", "row", "todo", "locked"}
       /\ runs[g].pc \in RunPc /\ runs[g].row \in Row
       /\ runs[g].locked \in BOOLEAN
       /\ \E S \in SUBSET DOMAIN subtasks : runs[g].todo \in [S -> SubtaskStatus]
  /\ planner \in [ pc : {"idle", "claim", "asked"}, row : Row ]
  /\ used \in [ operations : 0 .. MaxOperations, faults : 0 .. MaxFaults ]
  /\ \A n \in DOMAIN subtasks :
       /\ DOMAIN subtasks[n] = { "entry", "rev", "phase", "status", "deps",
                                 "testsFor", "files", "priority", "assigned",
                                 "kind" }
       /\ subtasks[n].status \in SubtaskStatus
       /\ ToSet(subtasks[n].deps) \subseteq DOMAIN subtasks
       /\ subtasks[n].assigned /\ ~EventStream =>
            subtasks[n].status = "in_progress"

Init == PlanningInit /\ subtasks = <<>>

\* workerLifecycleMu, which serialises the handling of exits.
LockFree == \A g \in Goroutine : ~runs[g].locked

-----------------------------------------------------------------------------
(* The gates *)

\* The rows of each plan, and the schedules they may get.  They depend on the
\* plan alone; as sets and functions listed here TLC computes them only once.
Children == [ p \in DOMAIN Plans |-> Materialize(Plans[p].entries) ]
Schedules ==
  [ p \in DOMAIN Plans |-> { schedule : schedule \in BuildSchedule(Children[p]) } ]

\* Approval creates the children and computes their waves in one transaction.
ApprovePlan ==
  /\ task.status = "plan_review" /\ task.plan # NoPlan /\ subtasks = <<>>
  /\ subtasks' = Children[task.plan]
  /\ \E schedule \in Schedules[task.plan] :
       Transition([ task EXCEPT !.ctx.schedule = schedule ],
                  IF \E n \in DOMAIN subtasks' : subtasks'[n].phase = "test"
                  THEN "test_writing" ELSE "in_progress")
  /\ UNCHANGED <<runs, planner, used>>

\* RevisePlan: a client replaces the plan under review.
RevisePlan(p) ==
  /\ task.status = "plan_review" /\ subtasks = <<>>
  /\ Operate
  /\ task' = [ task EXCEPT !.plan = p, !.feedback = FALSE, !.version = @ + 1 ]
  /\ UNCHANGED <<runs, planner, subtasks>>

\* HandleTestReviewApproved.
ApproveTests ==
  /\ task.status = "test_review"
  /\ Transition(task, "in_progress")
  /\ UNCHANGED <<runs, planner, used, subtasks>>

\* HandleTestReviewRejected: another round, or after too many a pause.
RejectTestReview ==
  /\ task.status = "test_review"
  /\ Operate
  /\ LET round == task.ctx.rejections + 1
         row == [ task EXCEPT !.ctx.rejections = round ]
     IN IF round >= MaxTestRejections
        THEN /\ task' = Moved(Moved([ row EXCEPT
                                !.ctx.pausedFrom = "test_writing" ],
                              "test_writing"), "paused")
             /\ UNCHANGED subtasks
        ELSE /\ Transition(row, "test_writing")
             /\ \E sources \in SetToSeqs(ReplacementSources(subtasks)) :
                  subtasks' = RejectTests(subtasks, round, sources)
  /\ UNCHANGED <<runs, planner>>

\* RetryTask of the parent, refused once it has children: it loses its branch
\* and the schedule, and keeps what the planner was charged.
RetryTask ==
  /\ task.status = "failed" /\ subtasks = <<>>
  /\ Operate
  /\ Transition([ task EXCEPT !.branch = FALSE, !.ctx.schedule = <<>>,
                              !.ctx.rejections = 0 ], "backlog")
  /\ UNCHANGED <<runs, planner, subtasks>>

\* RetryTask of a child, whatever the parent is doing.
RetrySubtask(n) ==
  /\ subtasks[n].status = "failed"
  /\ Operate
  /\ subtasks' = [ subtasks EXCEPT ![n].status = "backlog",
                                   ![n].assigned = FALSE ]
  /\ UNCHANGED <<task, runs, planner>>

\* AdoptFailedChild: a correction by hand completes a failed child, and its
\* parent goes on.  Whether the branch is admitted is an outcome.
AdoptChild(n) ==
  LET resume == IF subtasks[n].phase = "test" THEN "test_writing"
                                              ELSE "in_progress"
  IN /\ subtasks[n].status = "failed"
     /\ subtasks[n].phase # "" /\ subtasks[n].files # {}
     /\ task.status \in {"failed", resume} /\ task.branch
     /\ LockFree
     /\ Operate
     /\ subtasks' = [ subtasks EXCEPT ![n].status = "done",
                                      ![n].assigned = FALSE ]
     /\ task' = [ task EXCEPT !.status = resume, !.version = @ + 1 ]
     /\ UNCHANGED <<runs, planner>>

-----------------------------------------------------------------------------
(* Workers *)

\* Who may consume the exit of a worker.
Consumes(g, n) ==
  /\ runs[g].pc = "idle" /\ LockFree
  /\ subtasks[n].assigned /\ subtasks[n].status = "in_progress"

\* A worker's completion is accepted;
WorkDone(g, n) ==
  /\ Consumes(g, n)
  /\ subtasks' = [ subtasks EXCEPT ![n].status = "done",
                                   ![n].assigned = FALSE ]
  /\ runs' = [ runs EXCEPT ![g].pc = "completed", ![g].locked = TRUE ]
  /\ UNCHANGED <<task, planner, used>>

\* then the parent is read and judged.
AdvanceParent(g) ==
  /\ runs[g].pc = "completed"
  /\ CASE task.status = "in_progress"  -> Continue(g, "dispatch work", task)
       [] task.status = "test_writing" -> Continue(g, "tests", task)
       [] OTHER                        -> Finish(g)
  /\ UNCHANGED <<task, planner, used, subtasks>>

\* Mutant: a subtask that failed keeps its worker.
WorkFailsAssigned(g, n) ==
  /\ Consumes(g, n)
  /\ Fault
  /\ subtasks' = [ subtasks EXCEPT ![n].status = "failed" ]
  /\ UNCHANGED <<task, runs, planner>>

\* Its failures have used up the budget.
WorkFails(g, n) ==
  /\ Consumes(g, n)
  /\ Fault
  /\ subtasks' = [ subtasks EXCEPT ![n].status = "failed",
                                   ![n].assigned = FALSE ]
  /\ UNCHANGED <<task, runs, planner>>

\* It died, and the subtask waits for another.
WorkerLost(g, n) ==
  /\ Consumes(g, n)
  /\ Fault
  /\ subtasks' = [ subtasks EXCEPT ![n].assigned = FALSE ]
  /\ UNCHANGED <<task, runs, planner>>

-----------------------------------------------------------------------------
(* Dispatch of children *)

\* What is to be done, with the statuses in these rows.
Noted(rows, S) == [ n \in S |-> rows[n].status ]

\* scheduleSubtasks decides once, on the repaired rows; the wave schedule is
\* read again from the database.  If no candidate may start, that is recorded
\* in the row.  (\E rows names one value, which TLC then computes only once.)
Schedule(g, pc, next, phase) ==
  /\ runs[g].pc = pc /\ runs[g].row.branch
  /\ \E rows \in {RepairDependencies(subtasks)} :
     \E accepted \in Accepted(rows, task.ctx.schedule, phase) :
        /\ subtasks' = rows
        /\ runs' = [ runs EXCEPT ![g].pc = next,
                                 ![g].todo = Noted(rows, accepted) ]
        /\ IF accepted = {} /\ Candidates(rows, phase) # {}
           THEN Save(runs[g].row) ELSE UNCHANGED task
  /\ UNCHANGED <<planner, used>>

ScheduleTests(g) == Schedule(g, "tests", "dispatch tests", "test")
ScheduleWork == Schedule("tick", "work", "dispatch work", "")

\* The next of the children a goroutine has still to go through.
Dispatching(g, n) ==
  /\ runs[g].pc \in {"dispatch tests", "dispatch work"}
  /\ n \in DOMAIN runs[g].todo
  /\ \A m \in DOMAIN runs[g].todo \ {n} : Before(subtasks, n, m)

\* Its status when that was decided.
Was(g, n) == runs[g].todo[n]

\* It is dealt with.
Dispatched(g, n) ==
  runs' = [ runs EXCEPT ![g].todo = Restrict(@, DOMAIN @ \ {n}) ]

\* A reservation claims the subtask whatever its status has become, and a
\* container starts; only then does the status follow, if it may.
StartWorker(g, n) ==
  /\ Dispatching(g, n)
  /\ LET status == IF subtasks[n].status \in {"backlog", "failed"}
                      /\ Was(g, n) # "in_progress"
                   THEN "in_progress" ELSE subtasks[n].status
     IN subtasks' = IF subtasks[n].assigned THEN subtasks
                    ELSE [ subtasks EXCEPT ![n].status = status,
                                           ![n].assigned = TRUE ]
  /\ Dispatched(g, n)
  /\ UNCHANGED <<task, planner, used>>

\* The spawner refuses; the next tick tries again.
SpawnFails(g, n) ==
  /\ Dispatching(g, n)
  /\ Fault
  /\ Dispatched(g, n)
  /\ UNCHANGED <<task, planner, subtasks>>

\* There is no image for the worker: the subtask fails, unless it has moved on.
ImageUnavailable(g, n) ==
  /\ Dispatching(g, n) /\ ~subtasks[n].assigned
  /\ Fault
  /\ subtasks' = IF subtasks[n].status = Was(g, n)
                 THEN [ subtasks EXCEPT ![n].status = "failed" ] ELSE subtasks
  /\ Dispatched(g, n)
  /\ UNCHANGED <<task, planner>>

-----------------------------------------------------------------------------
(* test_writing *)

\* processTestWriting saves the row and then judges the tests.
JudgeTests(g) ==
  /\ runs[g].pc = "dispatch tests" /\ DOMAIN runs[g].todo = {}
  /\ Save(runs[g].row)
  /\ LET verdict == TestsVerdict(subtasks)
     IN CASE verdict = "ready"  -> Continue(g, "review tests", runs[g].row)
          [] verdict = "failed" -> Continue(g, "stop", runs[g].row)
          [] OTHER              -> Finish(g)
  /\ UNCHANGED <<planner, used, subtasks>>

ProposeTests(g) ==
  /\ runs[g].pc = "review tests"
  /\ Transition(runs[g].row, "test_review")
  /\ Finish(g)
  /\ UNCHANGED <<planner, used, subtasks>>

-----------------------------------------------------------------------------
(* in_progress *)

\* checkFeatureCompletion.  After a failure what has not started is cancelled;
\* what runs may finish before the parent fails.
JudgeFeature(g) ==
  /\ runs[g].pc = "dispatch work" /\ DOMAIN runs[g].todo = {}
  /\ LET row == runs[g].row
         verdict == FeatureVerdict(subtasks)
         rows == CancelBlockedSiblings(subtasks, NotStarted(subtasks))
         running == \E n \in DOMAIN rows : SiblingIsRunning(rows[n])
     IN CASE verdict = "ready"  ->
               /\ Continue(g, "deliver", row)
               /\ UNCHANGED <<task, subtasks>>
          [] verdict = "blocked" ->
               Save(row) /\ Finish(g) /\ UNCHANGED subtasks
          [] verdict = "failed" ->
               /\ subtasks' = rows
               /\ Continue(g, IF running THEN "drain" ELSE "stop", row)
               /\ UNCHANGED task
          [] OTHER -> UNCHANGED <<task, subtasks>> /\ Finish(g)
  /\ UNCHANGED <<planner, used>>

\* One of the cancellations fails, and the goroutine gives up after the others.
CancellationFails(g) ==
  /\ runs[g].pc = "dispatch work" /\ DOMAIN runs[g].todo = {}
  /\ FeatureVerdict(subtasks) = "failed"
  /\ Fault
  /\ \E n \in NotStarted(subtasks) :
     \E written \in SUBSET (NotStarted(subtasks) \ {n}) :
       subtasks' = CancelBlockedSiblings(subtasks, written)
  /\ Finish(g)
  /\ UNCHANGED <<task, planner>>

\* The parent records that it waits for what still runs.
RecordDrain(g) ==
  /\ runs[g].pc = "drain"
  /\ Save(runs[g].row)
  /\ Finish(g)
  /\ UNCHANGED <<planner, used, subtasks>>

\* Where the constraints are evaluated: before delivery, and before the tests are
\* reviewed if no implementation and no integration is pending.
AtConstraintGate(g) ==
  \/ runs[g].pc = "deliver"
  \/ /\ runs[g].pc = "review tests"
     /\ \A n \in DOMAIN subtasks :
          subtasks[n].phase \in {"implementation", "integration"} =>
            subtasks[n].status \in Settled

\* failTask: children failed, or the branch has no changes, or the constraints
\* got worse once too often.
FailParent(g) ==
  /\ \/ runs[g].pc = "stop" /\ UNCHANGED used
     \/ AtConstraintGate(g) /\ Fault
  /\ Transition(runs[g].row, "failed")
  /\ Finish(g)
  /\ UNCHANGED <<planner, subtasks>>

\* The constraints got worse: another look after a while.
HoldBack(g) ==
  /\ AtConstraintGate(g)
  /\ Fault
  /\ Save(runs[g].row)
  /\ Finish(g)
  /\ UNCHANGED <<planner, subtasks>>

DeliverFeature(g) ==
  /\ runs[g].pc = "deliver"
  /\ Transition(runs[g].row, "testing_ready")
  /\ Finish(g)
  /\ UNCHANGED <<planner, used, subtasks>>

-----------------------------------------------------------------------------
(* paused *)

Assigned == { n \in DOMAIN subtasks : subtasks[n].assigned }

\* handlePaused reads the children that have a worker,
FindWorkers ==
  /\ tick.pc = "idle" /\ task.status = "paused" /\ Assigned # {}
  /\ runs' = [ runs EXCEPT !["tick"].pc = "halt",
                           !["tick"].todo = Noted(subtasks, Assigned) ]
  /\ UNCHANGED <<task, planner, used, subtasks>>

\* and saves each, in any order, as it was read but without the worker.
StopWorker(n) ==
  /\ tick.pc = "halt" /\ n \in DOMAIN tick.todo
  /\ subtasks' = [ subtasks EXCEPT ![n].status = Was("tick", n),
                                   ![n].assigned = FALSE ]
  /\ IF DOMAIN tick.todo = {n} THEN Finish("tick") ELSE Dispatched("tick", n)
  /\ UNCHANGED <<task, planner, used>>

-----------------------------------------------------------------------------

Proceeds(g) ==
  \/ EnsureBranch(g) /\ UNCHANGED subtasks
  \/ ScheduleTests(g) \/ \E n \in DOMAIN subtasks : StartWorker(g, n)
  \/ JudgeTests(g) \/ ProposeTests(g)
  \/ JudgeFeature(g) \/ RecordDrain(g) \/ FailParent(g) \/ DeliverFeature(g)
  \/ AdvanceParent(g)

TickRuns ==
  \/ TickPlans /\ UNCHANGED subtasks
  \/ BeginPhase("test_writing", "tests") /\ UNCHANGED subtasks
  \/ BeginPhase("in_progress", "work") /\ UNCHANGED subtasks
  \/ ScheduleWork
  \/ FindWorkers \/ \E n \in DOMAIN subtasks : StopWorker(n)

\* What a goroutine does when it is its turn.
Steps(g) == Proceeds(g) \/ (g = "tick" /\ TickRuns)

Operators ==
  \/ ApprovePlan \/ \E p \in DOMAIN Plans : RevisePlan(p)
  \/ ApproveTests \/ RejectTestReview
  \/ RetryTask
  \/ \E n \in DOMAIN subtasks : RetrySubtask(n) \/ AdoptChild(n)

Faults ==
  \E g \in Goroutine :
    \/ HoldBack(g) \/ CancellationFails(g)
    \/ \E n \in DOMAIN subtasks : \/ SpawnFails(g, n) \/ ImageUnavailable(g, n)
                                  \/ WorkFails(g, n) \/ WorkerLost(g, n)

Completes == \E g \in Goroutine, n \in DOMAIN subtasks : WorkDone(g, n)

Next ==
  \/ \E g \in Goroutine : Steps(g)
  \/ (ClaimRequest \/ PlannerAnswers \/ LoseRequest \/ OperatorPlans
        \/ Restart) /\ UNCHANGED subtasks
  \/ Completes
  \/ Operators
  \/ Faults

Spec == Init /\ [][Next]_vars

-----------------------------------------------------------------------------
(* Fairness *)

\* The goroutines keep running and the planner service answers or times out;
\* while there are workers, one of them completes in the end.  Operators owe
\* nothing.
FairSpec ==
  /\ Spec
  /\ \A g \in Goroutine : WF_vars(Steps(g))
  /\ WF_vars((ClaimRequest \/ PlannerAnswers) /\ UNCHANGED subtasks)
  /\ SF_vars(Completes)

-----------------------------------------------------------------------------
(* Safety *)

\* A child that has a worker has all its dependencies done, also while tests
\* are rejected and replaced under it (EvaluateDispatch with
\* repairSupersededTestDependencies).
DependenciesFirst ==
  \A n \in DOMAIN subtasks : subtasks[n].assigned =>
    \A d \in ToSet(subtasks[n].deps) : subtasks[d].status = "done"

\* No two workers run at a time that write the same file, if they have few: all
\* implementations do (validateImplementationGranularity).  That holds however
\* many files the others have, in whatever order they were dispatched, together
\* or in turn (EvaluateDispatch).  A child with more than three files does get
\* past one with which it shares a file.
FilesAreExclusive ==
  \A n, m \in DOMAIN subtasks :
    /\ n # m /\ subtasks[n].assigned /\ subtasks[m].assigned
    /\ Few(subtasks[n].files) /\ Few(subtasks[m].files)
    => subtasks[n].files \cap subtasks[m].files = {}

\* The plans that name files and whose rows do not wait for each other.
\* Validation looks for such cycles before a test is put among the dependencies
\* of what it covers, and then they may still come about.
Ordered ==
  { p \in DOMAIN Plans :
      /\ \E n \in DOMAIN Children[p] : Children[p][n].files # {}
      /\ \A S \in SUBSET DOMAIN Children[p] :
           S # {} => Unblocked(Children[p], S) # {} }

\* The waves of an approved plan put a child after what it waits for, also when
\* that was repaired, and apart from whatever shares a file with it, so that
\* groups run one after the other cannot wait for each other (BuildSchedule).
WavesRespectPlan ==
  LET schedule == task.ctx.schedule
  IN \A n, m \in DOMAIN schedule : n # m =>
       /\ task.plan \in Ordered /\ m \in ToSet(subtasks[n].deps) =>
            schedule[m] < schedule[n]
       /\ subtasks[n].files \cap subtasks[m].files # {} =>
            schedule[n] # schedule[m]

\* No implementation is worked on before the tests were reviewed
\* (processTestWriting dispatches tests only).
TestsComeFirst ==
  \A n \in DOMAIN subtasks :
    subtasks[n].assigned /\ subtasks[n].phase # "test" =>
      task.status \notin {"test_writing", "test_review"}

\* A task is offered for delivery only with all of its approved plan done, the
\* tests in their last revision, whatever failed, was cancelled, retried or
\* rejected on the way (checkFeatureCompletion, evaluateParentReadiness).
DeliversThePlan ==
  task.status = "testing_ready" =>
    \A e \in DOMAIN Plans[task.plan].entries :
      LET rows == { n \in DOMAIN subtasks : subtasks[n].entry = e }
      IN rows # {} /\ subtasks[Max(rows)].status = "done"

\* Once planning is over, the plan changes only together with the version, so
\* that a client who approves or replaces what it saw cannot act on a plan a
\* late planner put there (spawnPlannerHTTP, RevisePlan).
ReviewedPlanIsStable ==
  [][ (task.status # "planning" /\ task'.version = task.version)
        => task'.plan = task.plan ]_vars

-----------------------------------------------------------------------------
(* Liveness *)

\* Where an operator decides, or nothing is left to do.
Gates == {"needs_clarification", "plan_review", "test_review",
          "testing_ready", "paused", "failed"}

\* The tick and the planner bring a task from every other status to a gate
\* again, also when children fail while others run or wait, when tests are rejected
\* and replaced, and when the planner returns a plan that was overtaken; only a
\* task whose budget for planner requests is spent stays in planning
\* (processPlanning, processTestWriting, checkFeatureCompletion).
ReachesAGate ==
  []<>(\/ task.status \in Gates
       \/ task.status = "planning" /\ task.ctx.spawns >= MaxPlannerSpawns)

=============================================================================
