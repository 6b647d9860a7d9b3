---------------------------- MODULE TaskPlanning ----------------------------
(***************************************************************************)
(* From the backlog to an approved plan (internal/orchestrator:            *)
(* task_processing.go, plan_client.go, clarification_handling.go,          *)
(* handlers.go, plan_revision.go, task_api.go).                            *)
(*                                                                         *)
(* Several parties write the row of one standard task: the tick, the       *)
(* goroutine that consumes container events, a planner goroutine that      *)
(* waits for the planner service, and the operators.  The first two act on *)
(* a row they read when they began; a step that takes long leaves that row *)
(* behind what the database holds.  A status change is a compare-and-swap  *)
(* of (status, version) that writes every column of the row; a Save writes *)
(* every column and compares nothing.                                      *)
(*                                                                         *)
(* PlanExecution adds the children a plan creates.                         *)
(***************************************************************************)
EXTENDS TaskStates, SubtaskPlans

CONSTANTS
  EventStream,            \* whether the container runtime is connected
  Plans,                  \* plans the planner may return, by number:
                          \* [entries, exempt, assumptions]
  MaxPlannerSpawns,       \* MaxTotalPlannerSpawns
  MaxPlannerFailures,     \* retries of the budget for invalid plans
  MaxClarificationRounds, \* of the clarification guard
  MaxTestRejections,      \* maxPlanRejections
  MaxOperations,          \* bounds of the checked instance: operator requests,
  MaxFaults               \* failures of services, workers and the process

ASSUME PlanningAssumption ==
  /\ EventStream \in BOOLEAN
  /\ \A p \in DOMAIN Plans : ValidPlan(Plans[p].entries, Plans[p].exempt)
  /\ \A p \in DOMAIN Plans : /\ Plans[p].entries \in Seq(PlanEntry)
                               /\ Plans[p].assumptions \in BOOLEAN
  /\ \A p \in DOMAIN Plans : \A e \in DOMAIN Plans[p].entries :
       IsFiniteSet(Plans[p].entries[e].files)
  /\ {MaxPlannerSpawns, MaxPlannerFailures, MaxClarificationRounds,
      MaxTestRejections, MaxOperations, MaxFaults} \subseteq Nat

VARIABLES
  task,     \* the row of the task
  runs,     \* where each goroutine is, with the row it read, what is left to
            \* do, and whether it holds the mutex of worker lifecycles
  planner,  \* the planner goroutine, with the row it was given
  used      \* how much of the bounds on operations and faults is used up

planningVars == <<task, runs, planner, used>>

-----------------------------------------------------------------------------
(* Types *)

NoPlan == 0

PlanningStatus ==
  { "backlog", "planning", "needs_clarification", "plan_review",
    "test_writing", "test_review", "in_progress", "testing_ready", "paused",
    "failed" }

\* The context column, which is written as a whole: requests charged, invalid
\* plans, rounds of clarification, rounds of rejected tests, the wave schedule
\* and the status the task was paused in.
Context ==
  [ spawns : Nat, failures : Nat, rounds : Nat, rejections : Nat,
    schedule : Seq(Nat), pausedFrom : PlanningStatus \cup {"none"} ]

Row ==
  [ status : PlanningStatus, version : Nat, plan : DOMAIN Plans \cup {NoPlan},
    feedback : BOOLEAN, branch : BOOLEAN, ctx : Context ]

\* A task that was classified as standard.
NewRow ==
  [ status |-> "backlog", version |-> 1, plan |-> NoPlan, feedback |-> FALSE,
    branch |-> FALSE,
    ctx |-> [ spawns |-> 0, failures |-> 0, rounds |-> 0, rejections |-> 0,
              schedule |-> <<>>, pausedFrom |-> "none" ] ]

Goroutine == IF EventStream THEN {"tick", "events"} ELSE {"tick"}

\* Without anything to do no row is held (any value would do).
RunAtRest ==
  [ pc |-> "idle", row |-> NewRow, todo |-> <<>>, locked |-> FALSE ]
PlannerAtRest == [ pc |-> "idle", row |-> NewRow ]

PlanningInit ==
  /\ task = NewRow
  /\ runs = [ g \in Goroutine |-> RunAtRest ]
  /\ planner = PlannerAtRest
  /\ used = [ operations |-> 0, faults |-> 0 ]

-----------------------------------------------------------------------------
(* Writing the row *)

\* db.Save: every column, whatever the row has become.
Save(row) == task' = row

\* transitionTaskAtomic: every column, if status and version are as read.  A
\* stale row is an error and changes nothing.
Current(row) == task.status = row.status /\ task.version = row.version

Moved(row, to) == [ row EXCEPT !.status = to, !.version = @ + 1 ]

Transition(row, to) ==
  /\ to \in ValidTransitions[row.status]
  /\ task' = IF Current(row) THEN Moved(row, to) ELSE task

\* The goroutine is through.
Finish(g) == runs' = [ runs EXCEPT ![g] = RunAtRest ]

\* It goes on with a row it changed.
Continue(g, pc, row) ==
  runs' = [ runs EXCEPT ![g].pc = pc, ![g].row = row ]

tick == runs["tick"]

Operate ==
  /\ used.operations < MaxOperations
  /\ used' = [ used EXCEPT !.operations = @ + 1 ]

Fault ==
  /\ used.faults < MaxFaults
  /\ used' = [ used EXCEPT !.faults = @ + 1 ]

-----------------------------------------------------------------------------
(* The tick: backlog and planning *)

\* A phase of the tick reads the rows of its status.
BeginPhase(status, pc) ==
  /\ tick.pc = "idle" /\ task.status = status
  /\ runs' = [ runs EXCEPT !["tick"].pc = pc, !["tick"].row = task ]
  /\ UNCHANGED <<task, planner, used>>

\* processBacklog.
ProcessBacklog ==
  /\ tick.pc = "backlog"
  /\ Transition(tick.row, "planning")
  /\ Finish("tick")
  /\ UNCHANGED <<planner, used>>

Discarded(row) == row.plan # NoPlan /\ row.feedback

\* A plan that feedback asked to replace is cleared.
ClearPlan ==
  /\ tick.pc = "planning" /\ Discarded(tick.row)
  /\ LET row == [ tick.row EXCEPT !.plan = NoPlan ]
     IN Save(row) /\ Continue("tick", "planning", row)
  /\ UNCHANGED <<planner, used>>

AtCap(row) == row.plan = NoPlan /\ row.ctx.spawns >= MaxPlannerSpawns

\* The feature branch is created, which may take a while, and then the row is
\* saved.
EnsureBranch(g) ==
  /\ runs[g].pc \in {"planning", "tests"} /\ ~runs[g].row.branch
  /\ runs[g].pc = "planning" => ~Discarded(tick.row) /\ ~AtCap(tick.row)
  /\ LET row == [ runs[g].row EXCEPT !.branch = TRUE ]
     IN Save(row) /\ Continue(g, runs[g].pc, row)
  /\ UNCHANGED <<planner, used>>

HasPlan == /\ tick.pc = "planning" /\ tick.row.branch
           /\ tick.row.plan # NoPlan /\ ~tick.row.feedback

\* The assumptions of a plan become questions, a limited number of times.
AskClarification ==
  /\ HasPlan
  /\ Plans[tick.row.plan].assumptions
  /\ tick.row.ctx.rounds < MaxClarificationRounds
  /\ Transition([ tick.row EXCEPT !.ctx.rounds = @ + 1 ],
                "needs_clarification")
  /\ Finish("tick")
  /\ UNCHANGED <<planner, used>>

\* Assumptions may have been answered in an earlier round.
ProposePlan ==
  /\ HasPlan
  /\ Plans[tick.row.plan].assumptions =>
       tick.row.ctx.rounds >= Min({1, MaxClarificationRounds})
  /\ Transition(tick.row, "plan_review")
  /\ Finish("tick")
  /\ UNCHANGED <<planner, used>>

\* The budget for planner requests is spent: the task waits in planning.
BlockPlannerCapacity ==
  /\ tick.pc = "planning" /\ AtCap(tick.row)
  /\ Save(tick.row)
  /\ Finish("tick")
  /\ UNCHANGED <<planner, used>>

\* spawnPlannerHTTPAsync: one goroutine for a task, which gets a copy of the
\* row.
DispatchPlanner ==
  /\ tick.pc = "planning" /\ tick.row.branch
  /\ tick.row.plan = NoPlan /\ ~AtCap(tick.row)
  /\ planner' = IF planner.pc = "idle"
                THEN [ pc |-> "claim", row |-> tick.row ] ELSE planner
  /\ Finish("tick")
  /\ UNCHANGED <<task, used>>

-----------------------------------------------------------------------------
(* The planner *)

\* Done with the request, whatever came of it: plannerHTTPInflight is cleared.
Leave == planner' = PlannerAtRest

\* The request is charged to the row before it is sent.  The claim compares
\* status and version but does not change them.
ClaimRequest ==
  /\ planner.pc = "claim"
  /\ IF Current(planner.row)
     THEN LET row == [ planner.row EXCEPT !.ctx.spawns = @ + 1 ]
          IN /\ task' = [ task EXCEPT !.ctx = row.ctx ]
             /\ planner' = [ pc |-> "asked", row |-> row ]
     ELSE Leave /\ UNCHANGED task
  /\ UNCHANGED <<runs, used>>

\* Mutant: a valid plan is stored whatever the task has become.
ReturnPlanAnyway(p) ==
  /\ planner.pc = "asked"
  /\ task' = [ task EXCEPT !.plan = p, !.ctx = planner.row.ctx ]
  /\ Leave
  /\ UNCHANGED <<runs, used>>

\* A valid plan is stored unless the task has moved on.
ReturnPlan(p) ==
  /\ planner.pc = "asked"
  /\ task' = IF Current(planner.row)
             THEN [ task EXCEPT !.plan = p, !.ctx = planner.row.ctx ]
             ELSE task
  /\ Leave
  /\ UNCHANGED <<runs, used>>

\* An invalid plan is charged to a budget; beyond it the task fails.
ReturnInvalidPlan ==
  /\ planner.pc = "asked"
  /\ LET row == [ planner.row EXCEPT !.ctx.failures = @ + 1 ]
     IN IF Current(row) /\ row.ctx.failures > MaxPlannerFailures
        THEN Transition(row, "failed")
        ELSE task' = IF Current(row) THEN [ task EXCEPT !.ctx = row.ctx ]
                     ELSE task
  /\ Leave
  /\ UNCHANGED <<runs, used>>

\* The request fails on the way; the charge stays.
LoseRequest ==
  /\ planner.pc = "asked"
  /\ Fault
  /\ Leave
  /\ UNCHANGED <<task, runs>>

-----------------------------------------------------------------------------
(* Operators *)

\* A plan is sent back, with feedback or without.
RejectPlan(feedback) ==
  /\ task.status = "plan_review"
  /\ Operate
  /\ Transition([ task EXCEPT !.plan = NoPlan, !.feedback = feedback ],
                "planning")
  /\ UNCHANGED <<runs, planner>>

\* The assumptions are accepted as they stand.
AcceptAssumptions ==
  /\ task.status = "needs_clarification" /\ task.plan # NoPlan
  /\ Transition(task, "plan_review")
  /\ UNCHANGED <<runs, planner, used>>

\* All questions are answered: the planner gets another turn.
AnswerQuestions ==
  /\ task.status = "needs_clarification"
  /\ Transition([ task EXCEPT !.plan = NoPlan ], "planning")
  /\ UNCHANGED <<runs, planner, used>>

\* PauseTask keeps the status in the context.
PauseTask ==
  /\ "paused" \in ValidTransitions[task.status]
  /\ task.status # "testing_ready"
  /\ Operate
  /\ Transition([ task EXCEPT !.ctx.pausedFrom = task.status ], "paused")
  /\ UNCHANGED <<runs, planner>>

ResumeTask ==
  /\ task.status = "paused"
  /\ Transition(task, task.ctx.pausedFrom)
  /\ UNCHANGED <<runs, planner, used>>

-----------------------------------------------------------------------------
(* Restart *)

\* The goroutines are gone; the rows stay.
Restart ==
  /\ planner.pc # "idle" \/ \E g \in Goroutine : runs[g].pc # "idle"
  /\ Fault
  /\ runs' = [ g \in Goroutine |-> RunAtRest ]
  /\ planner' = PlannerAtRest
  /\ UNCHANGED task

-----------------------------------------------------------------------------

TickPlans ==
  \/ BeginPhase("backlog", "backlog") \/ ProcessBacklog
  \/ BeginPhase("planning", "planning") \/ ClearPlan
  \/ AskClarification \/ ProposePlan
  \/ BlockPlannerCapacity \/ DispatchPlanner

PlannerAnswers ==
  \/ \E p \in DOMAIN Plans : ReturnPlan(p)
  \/ ReturnInvalidPlan

OperatorPlans ==
  \/ \E feedback \in BOOLEAN : RejectPlan(feedback)
  \/ AcceptAssumptions \/ AnswerQuestions
  \/ PauseTask \/ ResumeTask

=============================================================================
