----------------------------- MODULE PlanProofs ------------------------------
(***************************************************************************)
(* The plan of a task in PlanExecution while the tick alone acts on it     *)
(* (EventStream = FALSE), for any plans, any number of children, faults    *)
(* and requests of operators.  With container events as well, two          *)
(* goroutines decide on the same children, and TLC finds DependenciesFirst,*)
(* FilesAreExclusive, TestsComeFirst and DeliversThePlan violated.  What   *)
(* holds either way is in ScheduleProofs.                                  *)
(***************************************************************************)
EXTENDS PlanExecution, SequenceTheorems, FiniteSetTheorems,
        WellFoundedInduction, TLAPS

-----------------------------------------------------------------------------
(* Rows                                                                      *)

RowFields == {"status", "version", "plan", "feedback", "branch", "ctx"}

\* As much of the type of a row as the versions need.
IsRow(row) ==
  /\ row = [f \in RowFields |-> row[f]] /\ row.version \in Nat
  /\ row.status \in PlanningStatus /\ "pausedFrom" \in DOMAIN row.ctx
  /\ row.plan \in DOMAIN Plans \cup {NoPlan}

RunFields == {"pc", "row", "todo", "locked"}
IsRun(run) == run = [f \in RunFields |-> run[f]] /\ IsRow(run.row)

\* Only the tick runs.
TickTyped ==
  Goroutine = {"tick"} /\ runs = [g \in {"tick"} |-> runs["tick"]] /\ IsRun(tick)

-----------------------------------------------------------------------------
(* The children                                                              *)

ChildFields == {"entry", "rev", "phase", "status", "deps", "testsFor", "files",
                "priority", "assigned", "kind"}

\* As much of the type of a child as the invariant needs.
IsChild(row) ==
  /\ row = [f \in ChildFields |-> row[f]]
  /\ row.assigned \in BOOLEAN
  /\ row.priority \in Nat

\* Children with a worker are in progress, none is cancelled but for a failure,
\* and one that was rejected has a newer copy.
ChildrenInv ==
  /\ Len(subtasks) \in Nat /\ subtasks = [n \in 1 .. Len(subtasks) |-> subtasks[n]]
  /\ \A n \in DOMAIN subtasks :
       /\ IsChild(subtasks[n])
       /\ subtasks[n].assigned => subtasks[n].status = "in_progress"
       /\ subtasks[n].status = "cancelled" =>
            subtasks[n].kind = "dependency_failure"
       /\ subtasks[n].status = "rejected" =>
            \E m \in DOMAIN subtasks :
              m > n /\ subtasks[m].entry = subtasks[n].entry

DependenciesDone ==
  \A n \in DOMAIN subtasks : subtasks[n].assigned =>
    ToSet(subtasks[n].deps) \subseteq With(subtasks, "done")

NoneAssigned == \A n \in DOMAIN subtasks : ~subtasks[n].assigned

TestsOnly ==
  \A n \in DOMAIN subtasks : subtasks[n].assigned => subtasks[n].phase = "test"

\* Nothing of the plan is left to do.
Complete == \A n \in DOMAIN subtasks : subtasks[n].status \in {"done", "rejected"}

\* Every entry of the plan has a child.
Covered ==
  \A e \in DOMAIN Plans[task.plan].entries :
    \E n \in DOMAIN subtasks : subtasks[n].entry = e

-----------------------------------------------------------------------------
(* The task                                                                  *)

\* Where the task is, or will be again when it is resumed.
Stage == IF task.status = "paused" THEN task.ctx.pausedFrom ELSE task.status

BeforeApproval == {"backlog", "planning", "needs_clarification", "plan_review"}
Pausable == {"backlog", "planning", "test_writing", "in_progress"}
AfterApproval == {"test_writing", "test_review", "in_progress", "testing_ready"}

StageInv ==
  /\ Stage \in BeforeApproval => subtasks = <<>>
  /\ Stage \in {"test_writing", "test_review"} => TestsOnly
  /\ Stage \in {"test_review", "testing_ready", "failed"} => NoneAssigned
  /\ Stage \in AfterApproval \/ subtasks # <<>> => Covered
  /\ Stage = "testing_ready" => Complete
  /\ task.status = "paused" => Stage \in Pausable

-----------------------------------------------------------------------------
(* The tick                                                                  *)

PlanPC == {"backlog", "planning"}
TestPC == {"tests", "dispatch tests", "review tests"}
WorkPC == {"work", "dispatch work", "deliver", "drain"}

\* The stages in which the tick holds a row.
Held == {"backlog", "planning", "failed", "test_writing", "in_progress"}

\* A row the tick holds is of the stage the task is in and has its plan, but for
\* planning: there the row is older than the task or the task is in planning.
RowInv ==
  /\ tick.pc \in PlanPC =>
       /\ tick.row.status = tick.pc
       /\ Stage \in {"backlog", "planning", "failed"} /\ subtasks = <<>>
  /\ tick.pc = "planning" =>
       \/ tick.row.version < task.version
       \/ tick.row.version = task.version /\ task.status = "planning"
  /\ tick.pc \in TestPC => tick.row.status = "test_writing"
  /\ tick.pc \in WorkPC => tick.row.status = "in_progress"
  /\ tick.pc = "stop" => tick.row.status \in {"test_writing", "in_progress"}
  /\ tick.pc \in TestPC \cup WorkPC \cup {"stop"} =>
       tick.row.status = Stage /\ tick.row.plan = task.plan
  /\ tick.pc \in {"stop", "deliver", "review tests"} => NoneAssigned
  /\ tick.pc = "deliver" => Complete

\* What the tick has noted is still so when it comes to it.
TodoInv ==
  /\ tick.pc \in {"dispatch tests", "dispatch work", "halt"}
       \/ DOMAIN tick.todo = {}
  /\ \A n \in DOMAIN tick.todo :
       n \in DOMAIN subtasks /\ tick.todo[n] = subtasks[n].status
  /\ tick.pc = "halt" => \A n \in DOMAIN tick.todo : subtasks[n].assigned
  /\ tick.pc \in {"dispatch tests", "dispatch work"} =>
       \A n \in DOMAIN tick.todo :
         /\ ~subtasks[n].assigned
         /\ subtasks[n].status \in {"backlog", "in_progress"}
         /\ tick.pc = "dispatch tests" => subtasks[n].phase = "test"
         /\ ToSet(subtasks[n].deps) \subseteq With(subtasks, "done")

\* The planner is asked about a row that is in planning.
PlannerInv ==
  /\ planner = [f \in {"pc", "row"} |-> planner[f]] /\ IsRow(planner.row)
  /\ planner.pc # "idle" => planner.row.status = "planning"

PlanInv ==
  /\ IsRow(task) /\ TickTyped /\ ChildrenInv /\ StageInv /\ RowInv /\ TodoInv /\ PlannerInv
  /\ DependenciesDone

-----------------------------------------------------------------------------
(* What is written                                                           *)

\* What a transition writes.
LEMMA MovedRow ==
  ASSUME NEW row, IsRow(row), NEW to \in PlanningStatus
  PROVE  /\ IsRow(Moved(row, to)) /\ Moved(row, to).version = row.version + 1
         /\ Moved(row, to).status = to /\ Moved(row, to).plan = row.plan
         /\ Moved(row, to).ctx = row.ctx
<1> DEFINE v == row.version + 1
<1>1. Moved(row, to) = [row EXCEPT !.status = to, !.version = v]
  BY DEF Moved
<1>2. v \in Nat  BY DEF IsRow
<1> HIDE DEF v
<1>3. IsRow(Moved(row, to)) /\ Moved(row, to).version = v
        /\ Moved(row, to).status = to /\ Moved(row, to).plan = row.plan
        /\ Moved(row, to).ctx = row.ctx
  BY <1>1, <1>2 DEF IsRow, RowFields
<1> QED  BY <1>3 DEF v

\* How the tick goes on, and is through.
LEMMA TickMoves ==
  ASSUME TickTyped
  PROVE  /\ \A pc, row : Continue("tick", pc, row) /\ IsRow(row) =>
              /\ TickTyped' /\ tick'.pc = pc /\ tick'.row = row
              /\ tick'.todo = tick.todo
         /\ \A pc, todo : runs' = [runs EXCEPT !["tick"].pc = pc,
                                               !["tick"].todo = todo] =>
              /\ TickTyped' /\ tick'.pc = pc /\ tick'.row = tick.row
              /\ tick'.todo = todo
         /\ \A pc, locked : runs' = [runs EXCEPT !["tick"].pc = pc,
                                                 !["tick"].locked = locked] =>
              /\ TickTyped' /\ tick'.pc = pc /\ tick'.row = tick.row
              /\ tick'.todo = tick.todo
         /\ \A todo : runs' = [runs EXCEPT !["tick"].todo = todo] =>
              /\ TickTyped' /\ tick'.pc = tick.pc /\ tick'.row = tick.row
              /\ tick'.todo = todo
         /\ Finish("tick") => TickTyped' /\ tick' = RunAtRest
<1>1. /\ runs = [g \in {"tick"} |-> runs["tick"]] /\ IsRow(tick.row)
      /\ runs["tick"] = [f \in RunFields |-> runs["tick"][f]]
  BY DEF TickTyped, IsRun, tick
<1>2. IsRun(RunAtRest)
  <2>1. IsRow(NewRow)  BY DEF IsRow, NewRow, RowFields, PlanningStatus
  <2> QED  BY <2>1 DEF IsRun, RunAtRest, RunFields
<1>3. TickTyped' <=> /\ runs' = [g \in {"tick"} |-> runs'["tick"]]
                     /\ IsRun(runs'["tick"])
  BY DEF TickTyped, tick, Goroutine
<1>4. ASSUME NEW pc, NEW row, Continue("tick", pc, row), IsRow(row)
      PROVE  /\ TickTyped' /\ tick'.pc = pc /\ tick'.row = row
             /\ tick'.todo = tick.todo
  BY <1>1, <1>3, <1>4 DEF tick, IsRun, RunFields, Continue
<1>5. ASSUME NEW pc, NEW todo,
             runs' = [runs EXCEPT !["tick"].pc = pc, !["tick"].todo = todo]
      PROVE  /\ TickTyped' /\ tick'.pc = pc /\ tick'.row = tick.row
             /\ tick'.todo = todo
  BY <1>1, <1>3, <1>5 DEF tick, IsRun, RunFields
<1>6. ASSUME NEW pc, NEW locked,
             runs' = [runs EXCEPT !["tick"].pc = pc, !["tick"].locked = locked]
      PROVE  /\ TickTyped' /\ tick'.pc = pc /\ tick'.row = tick.row
             /\ tick'.todo = tick.todo
  BY <1>1, <1>3, <1>6 DEF tick, IsRun, RunFields
<1>7. ASSUME NEW todo, runs' = [runs EXCEPT !["tick"].todo = todo]
      PROVE  /\ TickTyped' /\ tick'.pc = tick.pc /\ tick'.row = tick.row
             /\ tick'.todo = todo
  BY <1>1, <1>3, <1>7 DEF tick, IsRun, RunFields
<1>8. Finish("tick") => TickTyped' /\ tick' = RunAtRest
  BY <1>1, <1>2, <1>3 DEF tick, Finish
<1> QED  BY <1>4, <1>5, <1>6, <1>7, <1>8

\* A transition moves the row it is given, or finds it stale.
LEMMA TransitionMoves ==
  ASSUME IsRow(task), NEW row, IsRow(row), NEW to \in PlanningStatus,
         Transition(row, to)
  PROVE  /\ IsRow(task')
         /\ \/ task' = task
            \/ /\ Current(row) /\ task'.version = task.version + 1
               /\ task'.status = to /\ task'.plan = row.plan
               /\ task'.ctx = row.ctx
<1>1. CASE Current(row)
  BY <1>1, MovedRow DEF Transition, Current
<1>2. CASE ~Current(row)
  BY <1>2 DEF Transition
<1> QED  BY <1>1, <1>2

\* A step that leaves the children alone.
LEMMA SameChildren ==
  ASSUME UNCHANGED subtasks
  PROVE  /\ ChildrenInv => ChildrenInv'
         /\ DependenciesDone => DependenciesDone'
         /\ NoneAssigned <=> NoneAssigned'
         /\ TestsOnly <=> TestsOnly'
         /\ Complete <=> Complete'
         /\ task'.plan = task.plan => (Covered <=> Covered')
BY DEF ChildrenInv, DependenciesDone, With, NoneAssigned, TestsOnly, Complete,
       Covered

\* The stage stays.
LEMMA StageStays ==
  ASSUME StageInv, UNCHANGED subtasks, Stage' = Stage,
         task'.plan = task.plan \/ Stage \in BeforeApproval,
         task'.status = "paused" => Stage' \in Pausable
  PROVE  StageInv'
BY SameChildren DEF StageInv, BeforeApproval, AfterApproval

\* While there are no children the task moves among the stages without.
LEMMA StageIsEarly ==
  ASSUME StageInv, UNCHANGED subtasks, subtasks = <<>>,
         task'.status \in BeforeApproval \cup {"failed"}
  PROVE  StageInv'
<1>1. Stage' = task'.status /\ task'.status # "paused"
  BY DEF Stage, BeforeApproval
<1>2. NoneAssigned'
  BY DEF NoneAssigned
<1> QED  BY <1>1, <1>2 DEF StageInv, BeforeApproval, AfterApproval

\* After the approval it moves on as its children allow.
LEMMA StageAdvances ==
  ASSUME StageInv, UNCHANGED subtasks, Stage \in AfterApproval,
         task'.plan = task.plan, task'.status \in AfterApproval \cup {"failed"},
         task'.status = "test_writing" => TestsOnly,
         task'.status \in {"test_review", "testing_ready", "failed"} =>
           NoneAssigned,
         task'.status = "testing_ready" => Complete
  PROVE  StageInv'
<1>1. Stage' = task'.status /\ task'.status # "paused"
  BY DEF Stage, AfterApproval
<1>2. NoneAssigned => TestsOnly
  BY DEF NoneAssigned, TestsOnly
<1> QED  BY <1>1, <1>2, SameChildren DEF StageInv, BeforeApproval, AfterApproval

\* What becomes of the planner.
LEMMA PlannerWrites ==
  ASSUME PlanInv,
         \/ planner' = planner
         \/ planner' = PlannerAtRest
         \/ /\ planner' = [ pc |-> "claim", row |-> tick.row ]
            /\ tick.pc = "planning"
  PROVE  PlannerInv'
<1>1. CASE planner' = planner
  BY <1>1 DEF PlanInv, PlannerInv
<1>2. CASE planner' = PlannerAtRest
  BY <1>2 DEF PlannerInv, PlannerAtRest, IsRow, NewRow, RowFields,
                PlanningStatus
<1>3. CASE planner' = [ pc |-> "claim", row |-> tick.row ] /\ tick.pc = "planning"
  <2>1. IsRow(tick.row) /\ tick.row.status = "planning"
    BY <1>3 DEF PlanInv, TickTyped, IsRun, RowInv, PlanPC
  <2> QED  BY <1>3, <2>1 DEF PlannerInv
<1> QED  BY <1>1, <1>2, <1>3

\* The tick is through with its row.
LEMMA TickRests ==
  ASSUME PlanInv, UNCHANGED subtasks, Finish("tick"),
         IsRow(task'), StageInv', PlannerInv'
  PROVE  PlanInv'
<1>1. TickTyped' /\ tick' = RunAtRest
  BY TickMoves DEF PlanInv
<1>3. RowInv' /\ TodoInv'
  BY <1>1 DEF RowInv, TodoInv, RunAtRest, PlanPC, TestPC, WorkPC
<1> QED  BY <1>1, <1>3, SameChildren DEF PlanInv

\* The tick stays where it is.
LEMMA TickStays ==
  ASSUME PlanInv, UNCHANGED <<subtasks, runs>>, IsRow(task'), StageInv',
         PlannerInv',
         \/ Stage' = Stage /\ task'.plan = task.plan
         \/ /\ Stage \notin AfterApproval
            /\ Stage' \in {"backlog", "planning", "failed"}
         \/ Stage \notin Held,
         \/ task'.version > task.version
         \/ task'.version = task.version /\ task'.status = task.status
  PROVE  PlanInv'
<1>1. TickTyped'
  BY DEF PlanInv, TickTyped, Goroutine, tick
<1>2. tick' = tick  BY DEF tick
<1>3. TodoInv'
  BY <1>2, SameChildren DEF PlanInv, TodoInv
<1>4. RowInv'
  <2>1. tick.row.version \in Nat /\ task.version \in Nat /\ task'.version \in Nat
    BY DEF PlanInv, TickTyped, IsRun, IsRow
  <2>2. RowInv  BY DEF PlanInv
  <2>6. tick.pc \in PlanPC \cup TestPC \cup WorkPC \cup {"stop"} => Stage \in Held
    BY <2>2 DEF RowInv, PlanPC, TestPC, WorkPC, Held
  <2>3. tick.pc = "planning" =>
          \/ tick.row.version < task'.version
          \/ tick.row.version = task'.version /\ task'.status = "planning"
    BY <2>1, <2>2 DEF RowInv
  <2>4. tick.pc \in PlanPC => Stage' \in {"backlog", "planning", "failed"}
    BY <2>2, <2>6 DEF RowInv, PlanPC
  <2>5. tick.pc \in TestPC \cup WorkPC \cup {"stop"} =>
          Stage' = Stage /\ task'.plan = task.plan
    BY <2>2, <2>6 DEF RowInv, TestPC, WorkPC, AfterApproval
  <2> QED
    BY <1>2, <2>2, <2>3, <2>4, <2>5, SameChildren DEF RowInv
<1> QED  BY <1>1, <1>3, <1>4, SameChildren DEF PlanInv

-----------------------------------------------------------------------------
(* The planner and the operators before the approval                         *)

\* The planner's answer changes a task that is in planning, or nothing.
LEMMA PlannerSteps ==
  ASSUME PlanInv, UNCHANGED subtasks,
         ClaimRequest \/ PlannerAnswers \/ LoseRequest
  PROVE  PlanInv'
<1>1. /\ IsRow(task) /\ IsRow(planner.row) /\ StageInv /\ UNCHANGED runs
      /\ planner.pc # "idle" => planner.row.status = "planning"
  BY DEF PlanInv, PlannerInv, ClaimRequest, PlannerAnswers,
         ReturnPlan, ReturnInvalidPlan, LoseRequest
<1>2. PlannerInv'
  <2>1. CASE ClaimRequest /\ Current(planner.row)
    <3>1. PICK row : /\ row = [ planner.row EXCEPT !.ctx.spawns = @ + 1 ]
                     /\ planner' = [ pc |-> "asked", row |-> row ]
      BY <2>1 DEF ClaimRequest
    <3>2. IsRow(row) /\ row.status = "planning"
      BY <1>1, <2>1, <3>1 DEF IsRow, RowFields, ClaimRequest
    <3> QED  BY <3>1, <3>2 DEF PlannerInv
  <2> QED
    BY <2>1, PlannerWrites DEF ClaimRequest, PlannerAnswers, ReturnPlan,
       ReturnInvalidPlan, LoseRequest, Leave
<1>3. \/ task' = task
      \/ /\ task.status = "planning" /\ IsRow(task')
         /\ \/ task'.status = "planning" /\ task'.version = task.version
            \/ task'.status = "failed" /\ task'.version = task.version + 1
  <2>1. CASE ClaimRequest
    <3>1. CASE Current(planner.row)
      <4>1. task.status = "planning"
        BY <1>1, <2>1, <3>1 DEF Current, ClaimRequest
      <4>2. PICK row : /\ row = [ planner.row EXCEPT !.ctx.spawns = @ + 1 ]
                       /\ task' = [ task EXCEPT !.ctx = row.ctx ]
        BY <2>1, <3>1 DEF ClaimRequest
      <4>3. "pausedFrom" \in DOMAIN row.ctx
        BY <1>1, <4>2 DEF IsRow, RowFields
      <4> QED  BY <1>1, <4>1, <4>2, <4>3 DEF IsRow, RowFields
    <3> QED  BY <2>1, <3>1 DEF ClaimRequest
  <2>2. ASSUME NEW p \in DOMAIN Plans, ReturnPlan(p)
        PROVE  \/ task' = task
               \/ /\ task.status = "planning" /\ IsRow(task')
                  /\ task'.status = "planning" /\ task'.version = task.version
    <3>1. CASE Current(planner.row)
      <4>1. /\ task' = [ task EXCEPT !.plan = p, !.ctx = planner.row.ctx ]
            /\ task.status = "planning" /\ "pausedFrom" \in DOMAIN planner.row.ctx
        BY <1>1, <2>2, <3>1 DEF ReturnPlan, Current, IsRow
      <4> QED  BY <1>1, <4>1 DEF IsRow, RowFields
    <3> QED  BY <2>2, <3>1 DEF ReturnPlan
  <2>3. CASE ReturnInvalidPlan
    <3>1. PICK row : /\ row = [ planner.row EXCEPT !.ctx.failures = @ + 1 ]
                     /\ \/ Current(row) /\ Transition(row, "failed")
                        \/ Current(row) /\ task' = [ task EXCEPT !.ctx = row.ctx ]
                        \/ task' = task
      BY <2>3 DEF ReturnInvalidPlan
    <3>2. IsRow(row) /\ row.status = "planning"
      BY <1>1, <2>3, <3>1 DEF IsRow, RowFields, ReturnInvalidPlan
    <3>3. CASE Current(row) /\ Transition(row, "failed")
      BY <1>1, <3>2, <3>3, TransitionMoves DEF Current, PlanningStatus
    <3>4. CASE Current(row) /\ task' = [ task EXCEPT !.ctx = row.ctx ]
      <4>1. "pausedFrom" \in DOMAIN row.ctx  BY <3>2 DEF IsRow
      <4> QED  BY <1>1, <3>2, <3>4, <4>1 DEF Current, IsRow, RowFields
    <3> QED  BY <3>1, <3>3, <3>4
  <2> QED  BY <2>1, <2>2, <2>3 DEF PlannerAnswers, LoseRequest
<1>4. IsRow(task')
  BY <1>1, <1>3
<1>5. \/ task' = task
      \/ Stage = "planning" /\ Stage' \in {"planning", "failed"}
           /\ task'.status \in {"planning", "failed"} /\ subtasks = <<>>
  BY <1>1, <1>3 DEF Stage, StageInv, BeforeApproval
<1>6. StageInv'
  BY <1>1, <1>5, StageStays, StageIsEarly DEF Stage, BeforeApproval, StageInv
<1>7. \/ task'.version > task.version
      \/ task'.version = task.version /\ task'.status = task.status
  BY <1>1, <1>3 DEF IsRow
<1>8. \/ Stage' = Stage /\ task'.plan = task.plan
      \/ Stage \notin AfterApproval /\ Stage' \in {"backlog", "planning", "failed"}
  BY <1>5 DEF Stage, AfterApproval
<1> QED  BY <1>1, <1>2, <1>4, <1>6, <1>7, <1>8, TickStays

-----------------------------------------------------------------------------
(* Operators                                                                 *)

\* Plans and questions go back and forth while there are no children.
LEMMA PlanReviewSteps ==
  ASSUME PlanInv, UNCHANGED subtasks,
         \/ \E feedback \in BOOLEAN : RejectPlan(feedback)
         \/ AcceptAssumptions \/ AnswerQuestions
         \/ \E p \in DOMAIN Plans : RevisePlan(p)
  PROVE  PlanInv'
<1>1. IsRow(task) /\ StageInv /\ UNCHANGED <<runs, planner>>
  BY DEF PlanInv, RejectPlan, AcceptAssumptions, AnswerQuestions,
         RevisePlan
<1>2. task.status \in {"needs_clarification", "plan_review"}
  BY DEF RejectPlan, AcceptAssumptions, AnswerQuestions, RevisePlan
<1>3. /\ IsRow(task')
      /\ task'.status \in {"needs_clarification", "plan_review", "planning"}
      /\ \/ task'.version > task.version
         \/ task'.version = task.version /\ task'.status = task.status
  <2>1. ASSUME NEW row, IsRow(row), NEW to \in {"plan_review", "planning"},
               Transition(row, to)
        PROVE  <1>3
    <3>1. \/ task' = task
          \/ IsRow(task') /\ task'.version = task.version + 1 /\ task'.status = to
      BY <1>1, <2>1, TransitionMoves DEF PlanningStatus
    <3> QED  BY <1>1, <1>2, <2>1, <3>1 DEF IsRow
  <2>2. ASSUME NEW feedback, RejectPlan(feedback)
        PROVE  <1>3
    <3>1. IsRow([ task EXCEPT !.plan = NoPlan, !.feedback = feedback ])
      BY <1>1 DEF IsRow, RowFields
    <3> QED  BY <2>1, <2>2, <3>1 DEF RejectPlan
  <2>3. CASE AcceptAssumptions
    BY <1>1, <2>1, <2>3 DEF AcceptAssumptions
  <2>4. CASE AnswerQuestions
    <3>1. IsRow([ task EXCEPT !.plan = NoPlan ])
      BY <1>1 DEF IsRow, RowFields
    <3> QED  BY <2>1, <2>4, <3>1 DEF AnswerQuestions
  <2>5. ASSUME NEW p \in DOMAIN Plans, RevisePlan(p)
        PROVE  <1>3
    <3> DEFINE v == task.version + 1
    <3>1. task' = [ task EXCEPT !.plan = p, !.feedback = FALSE, !.version = v ]
      BY <2>5 DEF RevisePlan
    <3>2. v \in Nat /\ v > task.version  BY <1>1 DEF IsRow
    <3> HIDE DEF v
    <3> QED  BY <1>1, <1>2, <3>1, <3>2 DEF IsRow, RowFields
  <2> QED  BY <2>2, <2>3, <2>4, <2>5
<1>4. subtasks = <<>>
  BY <1>1, <1>2 DEF StageInv, Stage, BeforeApproval
<1>5. StageInv'
  BY <1>1, <1>3, <1>4, StageIsEarly DEF BeforeApproval
<1>6. Stage \notin Held
  BY <1>2 DEF Stage, Held
<1> QED  BY <1>1, <1>3, <1>5, <1>6, PlannerWrites, TickStays

\* A pause keeps the stage of the task, and so does the end of one.
LEMMA PauseSteps ==
  ASSUME PlanInv, UNCHANGED subtasks, PauseTask \/ ResumeTask
  PROVE  PlanInv'
<1>1. IsRow(task) /\ StageInv /\ UNCHANGED <<runs, planner>>
  BY DEF PlanInv, PauseTask, ResumeTask
<1>2. CASE PauseTask
  <2> DEFINE row == [ task EXCEPT !.ctx.pausedFrom = task.status ]
  <2>1. IsRow(row) /\ row.plan = task.plan /\ row.ctx.pausedFrom = task.status
    BY <1>1 DEF IsRow, RowFields
  <2>2. /\ task.status \in Pausable /\ Transition(row, "paused")
        /\ task.status # "paused"
    BY <1>1, <1>2 DEF PauseTask, Pausable, ValidTransitions, IsRow, PlanningStatus
  <2> HIDE DEF row
  <2>3. \/ task' = task
        \/ /\ task'.version = task.version + 1 /\ IsRow(task')
           /\ task'.plan = task.plan /\ Stage' = Stage /\ Stage' \in Pausable
    BY <1>1, <2>1, <2>2, TransitionMoves DEF Stage, PlanningStatus
  <2>4. StageInv'
    BY <1>1, <2>2, <2>3, StageStays DEF Stage
  <2>5. \/ task'.version > task.version
        \/ task'.version = task.version /\ task'.status = task.status
    BY <1>1, <2>3 DEF IsRow
  <2>6. Stage' = Stage /\ task'.plan = task.plan /\ IsRow(task')
    BY <1>1, <2>3 DEF Stage
  <2> QED  BY <1>1, <2>4, <2>5, <2>6, PlannerWrites, TickStays
<1>3. CASE ResumeTask
  <2>1. /\ task.status = "paused" /\ Transition(task, task.ctx.pausedFrom)
        /\ task.ctx.pausedFrom = Stage /\ Stage \in Pausable
    BY <1>1, <1>3 DEF ResumeTask, Stage, StageInv
  <2>2. \/ task' = task
        \/ /\ task'.version = task.version + 1 /\ IsRow(task')
           /\ task'.plan = task.plan /\ task'.status = Stage
    BY <1>1, <2>1, TransitionMoves DEF PlanningStatus, Pausable
  <2>3. Stage' = Stage /\ task'.plan = task.plan /\ IsRow(task')
    BY <1>1, <2>1, <2>2 DEF Stage, Pausable
  <2>4. StageInv'
    BY <1>1, <2>1, <2>3, StageStays
  <2>5. \/ task'.version > task.version
        \/ task'.version = task.version /\ task'.status = task.status
    BY <1>1, <2>2 DEF IsRow
  <2> QED  BY <1>1, <2>3, <2>4, <2>5, PlannerWrites, TickStays
<1> QED  BY <1>2, <1>3

\* The tests are approved, or a task without children starts over.
LEMMA ApproveOrRetrySteps ==
  ASSUME PlanInv, ApproveTests \/ RetryTask
  PROVE  PlanInv'
<1>1. IsRow(task) /\ StageInv /\ UNCHANGED <<runs, planner, subtasks>>
  BY DEF PlanInv, ApproveTests, RetryTask
<1>2. CASE ApproveTests
  <2>1. task.status = "test_review" /\ Transition(task, "in_progress")
    BY <1>2 DEF ApproveTests
  <2>2. \/ task' = task
        \/ /\ task'.version = task.version + 1 /\ IsRow(task')
           /\ task'.plan = task.plan /\ task'.status = "in_progress"
    BY <1>1, <2>1, TransitionMoves DEF PlanningStatus
  <2>3. CASE task' = task
    BY <1>1, <2>3, StageStays, PlannerWrites, TickStays DEF Stage, StageInv
  <2>4. CASE task' # task
    <3>1. StageInv'
      BY <1>1, <2>1, <2>2, <2>4, StageAdvances DEF Stage, AfterApproval
    <3>2. task'.version > task.version
      BY <1>1, <2>2, <2>4 DEF IsRow
    <3>3. Stage \notin Held
      BY <2>1 DEF Stage, Held
    <3> QED  BY <1>1, <2>2, <2>4, <3>1, <3>2, <3>3, PlannerWrites, TickStays
  <2> QED  BY <2>3, <2>4
<1>3. CASE RetryTask
  <2> DEFINE row == [ task EXCEPT !.branch = FALSE, !.ctx.schedule = <<>>,
                                  !.ctx.rejections = 0 ]
  <2>1. /\ task.status = "failed" /\ subtasks = <<>> /\ Transition(row, "backlog")
        /\ IsRow(row)
    BY <1>1, <1>3 DEF RetryTask, IsRow, RowFields
  <2> HIDE DEF row
  <2>2. \/ task' = task
        \/ /\ task'.version = task.version + 1 /\ IsRow(task')
           /\ task'.status = "backlog"
    BY <1>1, <2>1, TransitionMoves DEF PlanningStatus
  <2>3. /\ IsRow(task') /\ task'.status \in {"backlog", "failed"}
        /\ \/ task'.version > task.version
           \/ task'.version = task.version /\ task'.status = task.status
    BY <1>1, <2>1, <2>2 DEF IsRow
  <2>4. StageInv'
    BY <1>1, <2>1, <2>3, StageIsEarly DEF BeforeApproval
  <2>5. Stage \notin AfterApproval /\ Stage' \in {"backlog", "planning", "failed"}
    BY <2>1, <2>3 DEF Stage, AfterApproval
  <2> QED  BY <1>1, <2>3, <2>4, <2>5, PlannerWrites, TickStays
<1> QED  BY <1>2, <1>3

-----------------------------------------------------------------------------
(* The tick before the approval                                              *)

\* The tick goes on with a row that suits where it goes.
LEMMA TickGoesOn ==
  ASSUME PlanInv, UNCHANGED subtasks, NEW pc, NEW row, IsRow(row),
         Continue("tick", pc, row), DOMAIN tick.todo = {},
         IsRow(task'), StageInv', PlannerInv', RowInv'
  PROVE  PlanInv'
<1>1. TickTyped' /\ tick'.todo = tick.todo
  BY TickMoves DEF PlanInv
<1>2. TodoInv'
  BY <1>1 DEF TodoInv
<1> QED  BY <1>1, <1>2, SameChildren DEF PlanInv

\* It begins with the row of the task.
LEMMA BeginPhases ==
  ASSUME PlanInv, UNCHANGED subtasks, NEW pc,
         \/ BeginPhase("backlog", pc) /\ pc = "backlog"
         \/ BeginPhase("planning", pc) /\ pc = "planning"
         \/ BeginPhase("test_writing", pc) /\ pc = "tests"
         \/ BeginPhase("in_progress", pc) /\ pc = "work"
  PROVE  PlanInv'
<1>1. /\ Continue("tick", pc, task) /\ UNCHANGED <<task, planner>>
      /\ IsRow(task) /\ StageInv /\ DOMAIN tick.todo = {}
      /\ \/ pc \in PlanPC /\ task.status = pc
         \/ pc = "tests" /\ task.status = "test_writing"
         \/ pc = "work" /\ task.status = "in_progress"
  BY DEF BeginPhase, Continue, PlanInv, TodoInv, PlanPC
<1>2. tick'.pc = pc /\ tick'.row = task
  BY <1>1, TickMoves DEF PlanInv
<1>3. StageInv' /\ Stage' = Stage
  BY <1>1, StageStays DEF Stage, StageInv
<1>4. pc \in PlanPC => subtasks' = <<>>
  BY <1>1 DEF StageInv, Stage, PlanPC, BeforeApproval
<1>5. RowInv'
  BY <1>1, <1>2, <1>3, <1>4 DEF RowInv, PlanPC, TestPC, WorkPC, Stage
<1> QED  BY <1>1, <1>3, <1>5, PlannerWrites, TickGoesOn

\* What the tick may write while it plans: a row of its own in planning, or a
\* transition of it.
LEMMA PlanningWrites ==
  ASSUME PlanInv, UNCHANGED subtasks, tick.pc \in PlanPC,
         \/ task' = task
         \/ IsRow(task') /\ task'.status \in BeforeApproval
  PROVE  IsRow(task') /\ StageInv'
<1>1. IsRow(task) /\ StageInv /\ subtasks = <<>>
  BY DEF PlanInv, RowInv
<1> QED  BY <1>1, StageIsEarly, StageStays DEF StageInv, Stage

\* The steps of the tick in the backlog and in planning that end its turn.
LEMMA TickPlanSteps ==
  ASSUME PlanInv, UNCHANGED subtasks,
         \/ ProcessBacklog \/ AskClarification \/ ProposePlan
         \/ BlockPlannerCapacity \/ DispatchPlanner
  PROVE  PlanInv'
<1>1. tick.pc \in PlanPC /\ IsRow(tick.row) /\ IsRow(task) /\ Finish("tick")
  BY DEF PlanInv, TickTyped, IsRun, ProcessBacklog, AskClarification, HasPlan,
         ProposePlan, BlockPlannerCapacity, DispatchPlanner, PlanPC
<1>2. \/ task' = task
      \/ IsRow(task') /\ task'.status \in BeforeApproval
  <2>1. ASSUME NEW row, IsRow(row), NEW to \in BeforeApproval, Transition(row, to)
        PROVE  <1>2
    BY <1>1, <2>1, TransitionMoves DEF BeforeApproval, PlanningStatus
  <2>2. CASE AskClarification
    <3>1. PICK row : /\ row = [ tick.row EXCEPT !.ctx.rounds = @ + 1 ]
                     /\ Transition(row, "needs_clarification")
      BY <2>2 DEF AskClarification
    <3>2. IsRow(row)
      BY <1>1, <3>1 DEF IsRow, RowFields
    <3> QED  BY <2>1, <3>1, <3>2 DEF BeforeApproval
  <2>3. CASE ProcessBacklog \/ ProposePlan
    BY <1>1, <2>1, <2>3 DEF ProcessBacklog, ProposePlan, BeforeApproval
  <2>4. CASE BlockPlannerCapacity
    BY <1>1, <2>4 DEF BlockPlannerCapacity, Save, PlanInv, RowInv, PlanPC, BeforeApproval
  <2>5. CASE DispatchPlanner
    BY <2>5 DEF DispatchPlanner
  <2> QED  BY <2>2, <2>3, <2>4, <2>5
<1>3. IsRow(task') /\ StageInv'
  BY <1>1, <1>2, PlanningWrites
<1>4. PlannerInv'
  BY PlannerWrites DEF ProcessBacklog, AskClarification, ProposePlan,
     BlockPlannerCapacity, DispatchPlanner
<1> QED  BY <1>1, <1>3, <1>4, TickRests

\* It saves a row that lost its plan or got its branch, and goes on with it.
LEMMA TickRowSteps ==
  ASSUME PlanInv, UNCHANGED subtasks, ClearPlan \/ EnsureBranch("tick")
  PROVE  PlanInv'
<1>1. PICK row : /\ \/ row = [ tick.row EXCEPT !.plan = NoPlan ]
                    \/ row = [ tick.row EXCEPT !.branch = TRUE ]
                 /\ tick.pc # "planning" => row = [ tick.row EXCEPT !.branch = TRUE ]
                 /\ Save(row) /\ Continue("tick", tick.pc, row)
  BY DEF ClearPlan, EnsureBranch, tick
<1>2. /\ tick.pc \in {"planning", "tests"} /\ IsRow(tick.row) /\ planner' = planner
      /\ RowInv /\ StageInv /\ IsRow(task) /\ DOMAIN tick.todo = {}
  BY DEF ClearPlan, EnsureBranch, PlanInv, TickTyped, IsRun, tick, TodoInv
<1>3. /\ IsRow(row) /\ row.status = tick.row.status /\ task' = row
      /\ tick.pc # "planning" => row.plan = tick.row.plan
  BY <1>1, <1>2 DEF IsRow, RowFields, Save
<1>4. tick'.pc = tick.pc /\ tick'.row = row
  BY <1>1, <1>3, TickMoves DEF PlanInv
<1>5. CASE tick.pc = "planning"
  <2>1. task'.status = "planning" /\ subtasks = <<>> /\ tick.pc \in PlanPC
    BY <1>2, <1>3, <1>5 DEF RowInv, PlanPC
  <2>2. StageInv'
    BY <1>3, <2>1, PlanningWrites DEF BeforeApproval
  <2>3. RowInv'
    BY <1>3, <1>4, <1>5, <2>1 DEF RowInv, PlanPC, TestPC, WorkPC, Stage
  <2> QED  BY <1>1, <1>2, <1>3, <2>2, <2>3, PlannerWrites, TickGoesOn
<1>6. CASE tick.pc = "tests"
  <2>1. task'.status = "test_writing" /\ Stage = "test_writing" /\ task'.plan = task.plan
    BY <1>2, <1>3, <1>6 DEF RowInv, PlanPC, TestPC, WorkPC
  <2>2. StageInv'
    BY <1>2, <2>1, StageStays DEF Stage
  <2>3. RowInv'
    BY <1>3, <1>4, <1>6, <2>1 DEF RowInv, PlanPC, TestPC, WorkPC, Stage
  <2> QED  BY <1>1, <1>2, <1>3, <2>2, <2>3, PlannerWrites, TickGoesOn
<1> QED  BY <1>2, <1>5, <1>6

-----------------------------------------------------------------------------
(* The tick after the approval                                               *)

\* All tests of the round have come to an end, or wait for something else.
LEMMA TestsHaveEnded ==
  ASSUME NEW rows, TestsVerdict(rows) \in {"ready", "failed"}
  PROVE  \A n \in ActiveTests(rows) : rows[n].status \in Settled \cup {"backlog"}
BY DEF TestsVerdict, Settled

\* Then no test has a worker.
LEMMA EndedTestsRest ==
  ASSUME ChildrenInv, TestsOnly, TestsVerdict(subtasks) \in {"ready", "failed"}
  PROVE  NoneAssigned
<1>1. SUFFICES ASSUME NEW n \in DOMAIN subtasks, subtasks[n].assigned
               PROVE  FALSE
  BY DEF NoneAssigned
<1>2. subtasks[n].phase = "test" /\ subtasks[n].status = "in_progress"
  BY <1>1 DEF ChildrenInv, TestsOnly
<1>3. n \in ActiveTests(subtasks)
  BY <1>1, <1>2 DEF ActiveTests
<1> QED  BY <1>2, <1>3, TestsHaveEnded DEF Settled

\* A feature is ready when all its children are done or replaced.
LEMMA ReadyIsComplete ==
  ASSUME ChildrenInv, FeatureVerdict(subtasks) = "ready"
  PROVE  Complete /\ NoneAssigned
<1>1. \A n \in DOMAIN subtasks : \/ subtasks[n].status = "done"
                                 \/ Ignorable(subtasks[n])
                                 \/ n \in Superseded(subtasks)
  BY DEF FeatureVerdict
<1>2. \A n \in Superseded(subtasks) : subtasks[n].status = "rejected"
  BY DEF Superseded, With
<1> QED
  BY <1>1, <1>2 DEF ChildrenInv, Ignorable, Complete, NoneAssigned

\* Where the tick is with a row after the approval.
AtWork == tick.pc \in TestPC \cup WorkPC \cup {"stop"}

\* What it may write: the row it holds, or a transition the children allow.
LEMMA WorkingWrites ==
  ASSUME PlanInv, UNCHANGED subtasks, AtWork,
         \/ task' = task
         \/ Save(tick.row)
         \/ /\ Transition(tick.row, "test_review") /\ tick.pc = "review tests"
         \/ /\ Transition(tick.row, "failed")
            /\ tick.pc \in {"stop", "deliver", "review tests"}
         \/ /\ Transition(tick.row, "testing_ready") /\ tick.pc = "deliver"
  PROVE  IsRow(task') /\ StageInv'
<1>1. /\ IsRow(task) /\ IsRow(tick.row) /\ StageInv /\ RowInv
      /\ tick.row.status = Stage /\ tick.row.plan = task.plan
      /\ Stage \in {"test_writing", "in_progress"}
  BY DEF PlanInv, TickTyped, IsRun, RowInv, AtWork
<1>2. CASE task' = task
  BY <1>1, <1>2, StageStays DEF Stage, StageInv
<1>3. CASE Save(tick.row)
  <2>1. IsRow(task') /\ task'.plan = task.plan /\ Stage' = Stage
        /\ task'.status # "paused"
    BY <1>1, <1>3 DEF Save, Stage
  <2> QED  BY <1>1, <2>1, StageStays
<1>4. ASSUME NEW to \in {"test_review", "failed", "testing_ready"},
             Transition(tick.row, to), NoneAssigned,
             to = "testing_ready" => Complete
      PROVE  IsRow(task') /\ StageInv'
  <2>1. to \in PlanningStatus  BY DEF PlanningStatus
  <2>2. \/ task' = task
        \/ IsRow(task') /\ task'.status = to /\ task'.plan = tick.row.plan
    BY <1>1, <1>4, <2>1, TransitionMoves
  <2> QED
    BY <1>1, <1>2, <1>4, <2>2, StageAdvances DEF AfterApproval
<1>5. tick.pc \in {"stop", "deliver", "review tests"} => NoneAssigned
  BY <1>1 DEF RowInv
<1>6. tick.pc = "deliver" => Complete
  BY <1>1 DEF RowInv
<1> QED  BY <1>2, <1>3, <1>4, <1>5, <1>6

\* The tick is through with the task for now.
LEMMA TickEndsSteps ==
  ASSUME PlanInv, UNCHANGED subtasks, AtWork, Finish("tick"), UNCHANGED planner,
         \/ task' = task \/ Save(tick.row)
         \/ ProposeTests("tick") \/ FailParent("tick") \/ DeliverFeature("tick")
  PROVE  PlanInv'
<1>1. IsRow(task') /\ StageInv'
  BY WorkingWrites DEF ProposeTests, FailParent, AtConstraintGate, DeliverFeature,
                       tick
<1> QED  BY <1>1, PlannerWrites, TickRests

\* Its tests are judged.
LEMMA JudgeTestsStep ==
  ASSUME PlanInv, JudgeTests("tick")
  PROVE  PlanInv'
<1>1. /\ tick.pc = "dispatch tests" /\ DOMAIN tick.todo = {} /\ Save(tick.row)
      /\ UNCHANGED <<planner, subtasks>>
      /\ \/ TestsVerdict(subtasks) = "ready" /\ Continue("tick", "review tests", tick.row)
         \/ TestsVerdict(subtasks) = "failed" /\ Continue("tick", "stop", tick.row)
         \/ Finish("tick")
  BY DEF JudgeTests, tick
<1>2. IsRow(tick.row) /\ RowInv /\ StageInv /\ AtWork
  BY <1>1 DEF PlanInv, TickTyped, IsRun, AtWork, TestPC
<1>3. /\ Stage = "test_writing" /\ tick.row.plan = task.plan
      /\ tick.row.status = "test_writing"
  BY <1>1, <1>2 DEF RowInv, TestPC
<1>4. IsRow(task') /\ StageInv'
  BY <1>1, <1>2, WorkingWrites
<1>5. ASSUME NEW pc \in {"review tests", "stop"}, Continue("tick", pc, tick.row),
             TestsVerdict(subtasks) \in {"ready", "failed"}
      PROVE  PlanInv'
  <2>1. NoneAssigned'
    BY <1>2, <1>3, <1>5, <1>1, EndedTestsRest, SameChildren DEF PlanInv, StageInv
  <2>2. tick'.pc = pc /\ tick'.row = tick.row
    BY <1>2, <1>5, TickMoves DEF PlanInv
  <2>3. task' = tick.row /\ Stage' = "test_writing"
    BY <1>1, <1>3 DEF Save, Stage
  <2>4. RowInv'
    BY <1>3, <2>1, <2>2, <2>3 DEF RowInv, PlanPC, TestPC, WorkPC
  <2> QED  BY <1>1, <1>2, <1>4, <1>5, <2>4, PlannerWrites, TickGoesOn
<1> QED  BY <1>1, <1>2, <1>5, TickEndsSteps

\* The feature is found ready.
LEMMA FeatureIsReady ==
  ASSUME PlanInv, UNCHANGED <<task, planner, subtasks>>, DOMAIN tick.todo = {},
         tick.pc = "dispatch work", FeatureVerdict(subtasks) = "ready",
         Continue("tick", "deliver", tick.row)
  PROVE  PlanInv'
<1>1. IsRow(tick.row) /\ IsRow(task) /\ RowInv /\ StageInv /\ AtWork
  BY DEF PlanInv, TickTyped, IsRun, AtWork, WorkPC
<1>2. NoneAssigned' /\ Complete'
  BY ReadyIsComplete, SameChildren DEF PlanInv
<1>3. tick'.pc = "deliver" /\ tick'.row = tick.row
  BY <1>1, TickMoves DEF PlanInv
<1>4. StageInv'  BY <1>1, WorkingWrites
<1>5. RowInv'
  BY <1>1, <1>2, <1>3 DEF RowInv, PlanPC, TestPC, WorkPC, Stage
<1> QED  BY <1>1, <1>4, <1>5, PlannerWrites, TickGoesOn

\* A completion was consumed: the parent is read.
LEMMA AdvanceParentStep ==
  ASSUME PlanInv, AdvanceParent("tick")
  PROVE  PlanInv'
<1>1. /\ tick.pc = "completed" /\ UNCHANGED <<task, planner, subtasks>>
      /\ \/ task.status = "in_progress" /\ Continue("tick", "dispatch work", task)
         \/ task.status = "test_writing" /\ Continue("tick", "tests", task)
         \/ Finish("tick")
  BY DEF AdvanceParent, tick
<1>2. IsRow(task) /\ StageInv /\ DOMAIN tick.todo = {}
  BY <1>1 DEF PlanInv, TodoInv
<1>3. StageInv' /\ Stage' = Stage
  BY <1>1, <1>2, StageStays DEF Stage, StageInv
<1>4. ASSUME NEW pc, Continue("tick", pc, task),
             \/ pc = "tests" /\ task.status = "test_writing"
             \/ pc = "dispatch work" /\ task.status = "in_progress"
      PROVE  PlanInv'
  <2>1. tick'.pc = pc /\ tick'.row = task
    BY <1>2, <1>4, TickMoves DEF PlanInv
  <2>2. RowInv'
    BY <1>1, <1>3, <1>4, <2>1 DEF RowInv, PlanPC, TestPC, WorkPC, Stage
  <2> QED  BY <1>1, <1>2, <1>3, <1>4, <2>2, PlannerWrites, TickGoesOn
<1> QED  BY <1>1, <1>2, <1>3, <1>4, PlannerWrites, TickRests

-----------------------------------------------------------------------------
(* Children one at a time                                                    *)

\* A function on 1 .. k is a sequence.
LEMMA IsSequence ==
  ASSUME NEW s, NEW k \in Nat, s = [n \in 1 .. k |-> s[n]]
  PROVE  s \in Seq({s[n] : n \in 1 .. k}) /\ Len(s) = k /\ DOMAIN s = 1 .. k
<1>1. s \in [1 .. k -> {s[n] : n \in 1 .. k}]
  OBVIOUS
<1>2. s \in Seq({s[n] : n \in 1 .. k})
  BY <1>1, SeqDef
<1> QED  BY <1>1, <1>2, LenProperties

\* One row of a child is written.
LEMMA ChildWritten ==
  ASSUME ChildrenInv, NEW n \in DOMAIN subtasks, NEW child, IsChild(child),
         subtasks' = [subtasks EXCEPT ![n] = child],
         child.entry = subtasks[n].entry,
         child.assigned => child.status = "in_progress",
         child.status = "cancelled" => child.kind = "dependency_failure",
         child.status = "rejected" => subtasks[n].status = "rejected"
  PROVE  /\ ChildrenInv'
         /\ DOMAIN subtasks' = DOMAIN subtasks
         /\ \A m \in DOMAIN subtasks :
              subtasks'[m] = IF m = n THEN child ELSE subtasks[m]
<1> DEFINE k == Len(subtasks)
<1>1. k \in Nat /\ subtasks = [m \in 1 .. k |-> subtasks[m]]
  BY DEF ChildrenInv
<1> HIDE DEF k
<1>2. /\ DOMAIN subtasks' = DOMAIN subtasks /\ DOMAIN subtasks = 1 .. k
      /\ subtasks' = [m \in 1 .. k |-> subtasks'[m]]
      /\ \A m \in DOMAIN subtasks :
           subtasks'[m] = IF m = n THEN child ELSE subtasks[m]
  BY <1>1
<1>3. Len(subtasks') = k
  BY <1>1, <1>2, IsSequence
<1>4. \A m \in DOMAIN subtasks : subtasks'[m].entry = subtasks[m].entry
  BY <1>2
<1>5. ASSUME NEW m \in DOMAIN subtasks
      PROVE  /\ IsChild(subtasks'[m])
             /\ subtasks'[m].assigned => subtasks'[m].status = "in_progress"
             /\ subtasks'[m].status = "cancelled" =>
                  subtasks'[m].kind = "dependency_failure"
             /\ subtasks'[m].status = "rejected" =>
                  subtasks[m].status = "rejected"
  BY <1>2, <1>5 DEF ChildrenInv
<1>6. ASSUME NEW m \in DOMAIN subtasks, subtasks'[m].status = "rejected"
      PROVE  \E o \in DOMAIN subtasks : o > m /\ subtasks'[o].entry = subtasks'[m].entry
  BY <1>4, <1>5, <1>6 DEF ChildrenInv
<1>7. (\A m \in DOMAIN subtasks : IsChild(subtasks[m]))'
  BY <1>2, <1>5 DEF IsChild
<1> HIDE DEF IsChild
<1>8. (Len(subtasks) \in Nat /\ subtasks = [m \in 1 .. Len(subtasks) |-> subtasks[m]])'
  BY <1>1, <1>2, <1>3
<1>9. (\A m \in DOMAIN subtasks :
         /\ IsChild(subtasks[m])
         /\ subtasks[m].assigned => subtasks[m].status = "in_progress"
         /\ subtasks[m].status = "cancelled" =>
              subtasks[m].kind = "dependency_failure"
         /\ subtasks[m].status = "rejected" =>
              \E o \in DOMAIN subtasks :
                o > m /\ subtasks[o].entry = subtasks[m].entry)'
  BY <1>2, <1>5, <1>6, <1>7
<1> QED  BY <1>2, <1>8, <1>9 DEF ChildrenInv

\* Nothing that is done, at rest or covered ceases to be.
Kept ==
  /\ ChildrenInv' /\ DependenciesDone'
  /\ NoneAssigned => NoneAssigned'
  /\ TestsOnly => TestsOnly'
  /\ Complete => Complete'
  /\ Covered => Covered'
  /\ subtasks = <<>> => subtasks' = <<>>

\* A child ends without a worker.
LEMMA ChildReleased ==
  ASSUME PlanInv, task'.plan = task.plan,
         NEW n \in DOMAIN subtasks, NEW child, IsChild(child),
         subtasks' = [subtasks EXCEPT ![n] = child],
         child.entry = subtasks[n].entry, ~child.assigned,
         subtasks[n].status \notin {"done", "rejected"},
         child.status \notin {"rejected", "cancelled"}
  PROVE  /\ Kept /\ DOMAIN subtasks' = DOMAIN subtasks
         /\ \A m \in DOMAIN subtasks :
              subtasks'[m] = IF m = n THEN child ELSE subtasks[m]
<1>1. /\ ChildrenInv /\ DependenciesDone
      /\ ChildrenInv' /\ DOMAIN subtasks' = DOMAIN subtasks
      /\ \A m \in DOMAIN subtasks :
           subtasks'[m] = IF m = n THEN child ELSE subtasks[m]
  BY ChildWritten DEF PlanInv
<1>2. With(subtasks, "done") \subseteq With(subtasks', "done")
  BY <1>1 DEF With
<1>3. DependenciesDone'
  BY <1>1, <1>2 DEF DependenciesDone
<1>4. /\ NoneAssigned => NoneAssigned'
      /\ TestsOnly => TestsOnly'
  BY <1>1 DEF NoneAssigned, TestsOnly
<1>5. ~Complete
  BY DEF Complete
<1>6. Covered => Covered'
  <2>1. \A m \in DOMAIN subtasks : subtasks'[m].entry = subtasks[m].entry
    BY <1>1
  <2> QED  BY <1>1, <2>1 DEF Covered
<1>7. subtasks # <<>>
  OBVIOUS
<1> QED  BY <1>1, <1>3, <1>4, <1>5, <1>6, <1>7 DEF Kept

\* The children change and the tick goes on or is through with its work.
LEMMA KeptStep ==
  ASSUME PlanInv, Kept, IsRow(task'), Stage' = Stage, task'.plan = task.plan,
         task' = task \/ task'.status # "paused", tick.pc \notin PlanPC,
         TickTyped', TodoInv', PlannerInv',
         \/ /\ tick'.row = tick.row
            /\ \/ tick'.pc = tick.pc
               \/ tick.pc = "tests" /\ tick'.pc = "dispatch tests"
               \/ tick.pc = "work" /\ tick'.pc = "dispatch work"
         \/ tick'.pc \in {"idle", "completed", "halt"}
  PROVE  PlanInv'
<1>1. StageInv /\ RowInv
  BY DEF PlanInv
<1>2. StageInv'
  <2>1. task'.status = "paused" => Stage' \in Pausable
    BY <1>1 DEF StageInv
  <2>2. subtasks' # <<>> => subtasks # <<>>
    BY DEF Kept
  <2> QED  BY <1>1, <2>1, <2>2 DEF StageInv, Kept, BeforeApproval, AfterApproval
<1>3. RowInv'
  <2>1. CASE tick'.pc \in {"idle", "completed", "halt"}
    BY <2>1 DEF RowInv, PlanPC, TestPC, WorkPC
  <2>2. CASE /\ tick'.row = tick.row
             /\ \/ tick'.pc = tick.pc
                \/ tick.pc = "tests" /\ tick'.pc = "dispatch tests"
                \/ tick.pc = "work" /\ tick'.pc = "dispatch work"
    BY <1>1, <2>2 DEF RowInv, Kept, PlanPC, TestPC, WorkPC
  <2> QED  BY <2>1, <2>2
<1> QED  BY <1>2, <1>3 DEF PlanInv, Kept

\* What the tick has still to go through is as it was noted.
LEMMA TodoRests ==
  ASSUME TodoInv, NEW n, DOMAIN subtasks' = DOMAIN subtasks,
         \A m \in DOMAIN subtasks : m # n => subtasks'[m] = subtasks[m],
         n \in DOMAIN subtasks => subtasks[n].status # "done",
         tick'.pc = tick.pc \/ DOMAIN tick'.todo = {},
         DOMAIN tick'.todo \subseteq DOMAIN tick.todo \ {n},
         \A m \in DOMAIN tick'.todo : tick'.todo[m] = tick.todo[m],
         tick'.pc \in {"dispatch tests", "dispatch work", "halt"}
           \/ DOMAIN tick'.todo = {}
  PROVE  TodoInv'
<1>1. With(subtasks, "done") \subseteq With(subtasks', "done")
  BY DEF With
<1>2. CASE DOMAIN tick'.todo = {}
  BY <1>2 DEF TodoInv
<1>3. CASE tick'.pc = tick.pc
  BY <1>1, <1>3 DEF TodoInv
<1> QED  BY <1>2, <1>3

\* Where a child is known to the tick.
LEMMA KnownChild ==
  ASSUME PlanInv, NEW n \in DOMAIN subtasks
  PROVE  /\ IsChild(subtasks[n]) /\ tick.pc \notin PlanPC
         /\ subtasks[n].assigned => subtasks[n].status = "in_progress"
         /\ n \in DOMAIN tick.todo =>
              /\ tick.todo[n] = subtasks[n].status
              /\ subtasks[n].status \in {"backlog", "in_progress"}
<1>1. subtasks # <<>>
  OBVIOUS
<1> QED  BY <1>1 DEF PlanInv, ChildrenInv, RowInv, TodoInv

\* At rest nothing is to be done.
LEMMA AtRest == RunAtRest.pc = "idle" /\ DOMAIN RunAtRest.todo = {}
BY DEF RunAtRest

\* A child that the tick does not go through ends without a worker.
LEMMA ChildStep ==
  ASSUME PlanInv, UNCHANGED <<task, planner>>,
         NEW n \in DOMAIN subtasks, NEW status \in {"backlog", "in_progress", "done", "failed"},
         subtasks' = [subtasks EXCEPT ![n].status = status, ![n].assigned = FALSE],
         subtasks[n].status \notin {"done", "rejected"},
         TickTyped',
         \/ tick' = tick /\ n \notin DOMAIN tick.todo
         \/ /\ DOMAIN tick.todo = {} /\ DOMAIN tick'.todo = {}
            /\ tick'.pc \in {"idle", "completed"}
         \/ /\ tick'.pc = tick.pc /\ tick'.row = tick.row
            /\ tick.pc \in {"dispatch tests", "dispatch work", "halt"}
            /\ tick'.todo = Restrict(tick.todo, DOMAIN tick.todo \ {n})
         \/ tick' = RunAtRest
  PROVE  PlanInv'
<1>0. RunAtRest.pc = "idle" /\ DOMAIN RunAtRest.todo = {}
  BY AtRest
<1> DEFINE child == [subtasks[n] EXCEPT !.status = status, !.assigned = FALSE]
<1>1. /\ subtasks' = [subtasks EXCEPT ![n] = child]
      /\ IsChild(child) /\ child.entry = subtasks[n].entry /\ ~child.assigned
      /\ child.status = status
  <2>1. IsChild(subtasks[n])  BY KnownChild
  <2>2. subtasks' = [subtasks EXCEPT ![n] = child]  OBVIOUS
  <2> QED  BY <2>1, <2>2 DEF IsChild, ChildFields
<1> HIDE DEF child
<1>2. /\ Kept /\ DOMAIN subtasks' = DOMAIN subtasks
      /\ \A m \in DOMAIN subtasks :
           subtasks'[m] = IF m = n THEN child ELSE subtasks[m]
  BY <1>1, ChildReleased
<1>3. TodoInv /\ IsRow(task) /\ tick.pc \notin PlanPC
  BY KnownChild DEF PlanInv
<1>4. TodoInv'
  <2>1. \A m \in DOMAIN subtasks : m # n => subtasks'[m] = subtasks[m]
    BY <1>2
  <2>2. DOMAIN subtasks' = DOMAIN subtasks
    BY <1>2
  <2>3. CASE DOMAIN tick'.todo = {}
    BY <2>3 DEF TodoInv
  <2>4. ASSUME tick'.pc = tick.pc,
               DOMAIN tick'.todo \subseteq DOMAIN tick.todo \ {n},
               \A m \in DOMAIN tick'.todo : tick'.todo[m] = tick.todo[m]
        PROVE  TodoInv'
    <3>1. tick'.pc \in {"dispatch tests", "dispatch work", "halt"}
            \/ DOMAIN tick'.todo = {}
      BY <1>3, <2>4 DEF TodoInv
    <3> QED  BY <1>3, <2>1, <2>2, <2>4, <3>1, TodoRests
  <2>5. CASE tick' = tick /\ n \notin DOMAIN tick.todo
    BY <2>4, <2>5
  <2>6. CASE /\ tick'.pc = tick.pc
             /\ tick'.todo = Restrict(tick.todo, DOMAIN tick.todo \ {n})
    BY <2>4, <2>6 DEF Restrict
  <2> QED  BY <1>0, <2>3, <2>5, <2>6
<1>5. PlannerInv'
  BY PlannerWrites
<1>6. Stage' = Stage /\ task'.plan = task.plan /\ IsRow(task')
  BY <1>3 DEF Stage
<1>7. \/ tick'.row = tick.row /\ tick'.pc = tick.pc
      \/ tick'.pc \in {"idle", "completed", "halt"}
  BY <1>0
<1> QED
  BY <1>2, <1>3, <1>4, <1>5, <1>6, <1>7, KeptStep

\* A failed child starts over.
LEMMA RetrySubtaskStep ==
  ASSUME PlanInv, NEW n \in DOMAIN subtasks, RetrySubtask(n)
  PROVE  PlanInv'
<1>1. subtasks[n].status = "failed" /\ UNCHANGED <<task, runs, planner>>
      /\ subtasks' = [subtasks EXCEPT ![n].status = "backlog", ![n].assigned = FALSE]
  BY DEF RetrySubtask
<1>2. TickTyped' /\ tick' = tick /\ n \notin DOMAIN tick.todo
  BY <1>1, KnownChild DEF PlanInv, TickTyped, Goroutine, tick
<1> QED  BY <1>1, <1>2, ChildStep

\* The exit of a worker is consumed.
LEMMA ExitSteps ==
  ASSUME PlanInv, NEW n \in DOMAIN subtasks,
         WorkDone("tick", n) \/ WorkFails("tick", n) \/ WorkerLost("tick", n)
  PROVE  PlanInv'
<1>1. /\ tick.pc = "idle" /\ subtasks[n].status = "in_progress"
      /\ UNCHANGED <<task, planner>> /\ IsChild(subtasks[n])
  BY KnownChild DEF WorkDone, WorkFails, WorkerLost, Consumes, tick
<1>2. \E status \in {"done", "failed", "in_progress"} :
        subtasks' = [subtasks EXCEPT ![n].status = status, ![n].assigned = FALSE]
  <2>1. CASE WorkDone("tick", n) \/ WorkFails("tick", n)
    BY <2>1 DEF WorkDone, WorkFails
  <2>2. CASE WorkerLost("tick", n)
    <3>1. [subtasks[n] EXCEPT !.assigned = FALSE]
            = [subtasks[n] EXCEPT !.status = "in_progress", !.assigned = FALSE]
      BY <1>1 DEF IsChild, ChildFields
    <3>2. subtasks' = [subtasks EXCEPT ![n] = [subtasks[n] EXCEPT !.assigned = FALSE]]
      BY <2>2 DEF WorkerLost
    <3> QED  BY <3>1, <3>2
  <2> QED  BY <2>1, <2>2
<1>3. /\ DOMAIN tick.todo = {} /\ TickTyped' /\ DOMAIN tick'.todo = {}
      /\ tick'.pc \in {"idle", "completed"}
  <2>1. DOMAIN tick.todo = {}  BY <1>1 DEF PlanInv, TodoInv
  <2>2. CASE UNCHANGED runs
    BY <1>1, <2>1, <2>2 DEF PlanInv, TickTyped, Goroutine, tick
  <2>3. CASE WorkDone("tick", n)
    BY <1>1, <2>1, <2>3, TickMoves DEF PlanInv, WorkDone
  <2> QED  BY <2>2, <2>3 DEF WorkFails, WorkerLost
<1> QED  BY <1>1, <1>2, <1>3, ChildStep

\* Children that stay as they are.
LEMMA KeptSame ==
  ASSUME PlanInv, UNCHANGED subtasks, task'.plan = task.plan
  PROVE  Kept
BY SameChildren DEF PlanInv, Kept

\* A child to be dispatched, or to be stopped, is dealt with.
LEMMA TickDispatched ==
  ASSUME PlanInv, NEW n, n \in DOMAIN tick.todo, Dispatched("tick", n)
  PROVE  /\ TickTyped' /\ tick'.pc = tick.pc /\ tick'.row = tick.row
         /\ tick'.todo = Restrict(tick.todo, DOMAIN tick.todo \ {n})
         /\ tick.pc \in {"dispatch tests", "dispatch work", "halt"}
<1>1. runs' = [ runs EXCEPT !["tick"].todo =
                  Restrict(tick.todo, DOMAIN tick.todo \ {n}) ]
  BY DEF Dispatched, tick
<1> QED  BY <1>1, TickMoves DEF PlanInv, TodoInv

\* A child fails for want of an image.
LEMMA ImageUnavailableStep ==
  ASSUME PlanInv, NEW n \in DOMAIN subtasks, ImageUnavailable("tick", n)
  PROVE  PlanInv'
<1>1. /\ n \in DOMAIN tick.todo /\ ~subtasks[n].assigned /\ Dispatched("tick", n)
      /\ UNCHANGED <<task, planner>>
      /\ subtasks' = IF subtasks[n].status = tick.todo[n]
                     THEN [ subtasks EXCEPT ![n].status = "failed" ] ELSE subtasks
  BY DEF ImageUnavailable, Dispatching, Was, tick
<1>2. /\ IsChild(subtasks[n]) /\ subtasks[n].status \in {"backlog", "in_progress"}
      /\ subtasks[n].status = tick.todo[n]
  BY <1>1, KnownChild
<1>3. subtasks' = [ subtasks EXCEPT ![n] = [subtasks[n] EXCEPT !.status = "failed"] ]
  BY <1>1, <1>2
<1>4. [subtasks[n] EXCEPT !.status = "failed"]
        = [subtasks[n] EXCEPT !.status = "failed", !.assigned = FALSE]
  BY <1>1, <1>2 DEF IsChild, ChildFields
<1>5. subtasks' = [ subtasks EXCEPT ![n].status = "failed", ![n].assigned = FALSE ]
  BY <1>3, <1>4
<1> QED  BY <1>1, <1>2, <1>5, TickDispatched, ChildStep

\* A paused child loses its worker.
LEMMA StopWorkerStep ==
  ASSUME PlanInv, NEW n \in DOMAIN subtasks, StopWorker(n)
  PROVE  PlanInv'
<1>1. /\ n \in DOMAIN tick.todo /\ tick.pc = "halt"
      /\ Finish("tick") \/ Dispatched("tick", n)
      /\ UNCHANGED <<task, planner>>
      /\ subtasks' = [ subtasks EXCEPT ![n].status = tick.todo[n],
                                       ![n].assigned = FALSE ]
  BY DEF StopWorker, Was, tick
<1>2. /\ subtasks[n].status \in {"backlog", "in_progress"}
      /\ subtasks[n].status = tick.todo[n]
  BY <1>1, KnownChild
<1>3. CASE Finish("tick")
  <2>1. TickTyped' /\ tick' = RunAtRest
    BY <1>3, TickMoves DEF PlanInv
  <2> QED  BY <1>1, <1>2, <2>1, ChildStep
<1>4. CASE Dispatched("tick", n)
  BY <1>1, <1>2, <1>4, TickDispatched, ChildStep
<1> QED  BY <1>1, <1>3, <1>4

\* The spawner refuses a child.
LEMMA SpawnFailsStep ==
  ASSUME PlanInv, NEW n \in DOMAIN subtasks, SpawnFails("tick", n)
  PROVE  PlanInv'
<1>1. /\ n \in DOMAIN tick.todo /\ Dispatched("tick", n)
      /\ UNCHANGED <<task, planner, subtasks>>
  BY DEF SpawnFails, Dispatching, tick
<1>2. /\ TickTyped' /\ tick'.pc = tick.pc /\ tick'.row = tick.row
      /\ tick'.todo = Restrict(tick.todo, DOMAIN tick.todo \ {n})
      /\ tick.pc \in {"dispatch tests", "dispatch work", "halt"}
  BY <1>1, TickDispatched
<1>3. TodoInv'
  <2>1. TodoInv  BY DEF PlanInv
  <2>2. DOMAIN tick'.todo = DOMAIN tick.todo \ {n}
        /\ \A m \in DOMAIN tick'.todo : tick'.todo[m] = tick.todo[m]
    BY <1>2 DEF Restrict
  <2> QED  BY <1>1, <1>2, <2>1, <2>2 DEF TodoInv
<1> QED
  BY <1>1, <1>2, <1>3, KnownChild, KeptSame, KeptStep, PlannerWrites DEF PlanInv, Stage

\* The tick finds the children of a paused task that have a worker.
LEMMA FindWorkersStep ==
  ASSUME PlanInv, FindWorkers
  PROVE  PlanInv'
<1>1. /\ tick.pc = "idle" /\ UNCHANGED <<task, planner, subtasks>>
      /\ runs' = [ runs EXCEPT !["tick"].pc = "halt",
                               !["tick"].todo = Noted(subtasks, Assigned) ]
  BY DEF FindWorkers
<1>2. TickTyped' /\ tick'.pc = "halt" /\ tick'.todo = Noted(subtasks, Assigned)
  BY <1>1, TickMoves DEF PlanInv
<1>3. TodoInv'
  BY <1>1, <1>2 DEF TodoInv, Noted, Assigned
<1> QED
  BY <1>1, <1>2, <1>3, KeptSame, KeptStep, PlannerWrites DEF PlanInv, Stage, PlanPC

\* A worker starts.
LEMMA StartWorkerStep ==
  ASSUME PlanInv, NEW n \in DOMAIN subtasks, StartWorker("tick", n)
  PROVE  PlanInv'
<1>1. /\ n \in DOMAIN tick.todo /\ Dispatched("tick", n)
      /\ tick.pc \in {"dispatch tests", "dispatch work"}
      /\ UNCHANGED <<task, planner>>
  BY DEF StartWorker, Dispatching, tick
<1>2. /\ IsChild(subtasks[n]) /\ ~subtasks[n].assigned
      /\ subtasks[n].status \in {"backlog", "in_progress"}
      /\ tick.todo[n] = subtasks[n].status
      /\ ToSet(subtasks[n].deps) \subseteq With(subtasks, "done")
      /\ tick.pc = "dispatch tests" => subtasks[n].phase = "test"
  BY <1>1, KnownChild DEF PlanInv, TodoInv
<1>3. /\ TickTyped' /\ tick'.pc = tick.pc /\ tick'.row = tick.row
      /\ tick'.todo = Restrict(tick.todo, DOMAIN tick.todo \ {n})
  BY <1>1, TickDispatched
<1> DEFINE child == [subtasks[n] EXCEPT !.status = "in_progress", !.assigned = TRUE]
<1>4. subtasks' = [subtasks EXCEPT ![n] = child]
  BY <1>2 DEF StartWorker, Was, tick
<1>5. /\ IsChild(child) /\ child.entry = subtasks[n].entry /\ child.assigned
      /\ child.status = "in_progress" /\ child.deps = subtasks[n].deps
      /\ child.phase = subtasks[n].phase
  BY <1>2 DEF IsChild, ChildFields
<1> HIDE DEF child
<1>6. /\ ChildrenInv' /\ DOMAIN subtasks' = DOMAIN subtasks
      /\ \A m \in DOMAIN subtasks :
           subtasks'[m] = IF m = n THEN child ELSE subtasks[m]
  BY <1>4, <1>5, ChildWritten DEF PlanInv
<1>7. With(subtasks, "done") \subseteq With(subtasks', "done")
  BY <1>2, <1>6 DEF With
<1>8. DependenciesDone'
  BY <1>2, <1>5, <1>6, <1>7 DEF PlanInv, DependenciesDone
<1>9. /\ tick.pc = "dispatch tests" => (TestsOnly => TestsOnly')
      /\ Covered => Covered'
  <2>1. \A m \in DOMAIN subtasks : subtasks'[m].entry = subtasks[m].entry
    BY <1>5, <1>6
  <2>2. Covered => Covered'
    BY <1>1, <1>6, <2>1 DEF Covered
  <2> QED  BY <1>2, <1>5, <1>6, <2>2 DEF TestsOnly
<1>10. /\ Stage' = Stage /\ task' = task /\ IsRow(task')
       /\ tick.pc = "dispatch tests" => Stage = "test_writing"
       /\ tick.pc = "dispatch work" => Stage = "in_progress"
       /\ subtasks # <<>> /\ StageInv /\ RowInv
  <2>1. Stage' = Stage /\ task' = task  BY <1>1 DEF Stage
  <2>2. RowInv /\ StageInv /\ IsRow(task)  BY DEF PlanInv
  <2>3. /\ tick.pc = "dispatch tests" => Stage = "test_writing"
        /\ tick.pc = "dispatch work" => Stage = "in_progress"
    BY <2>2 DEF RowInv, TestPC, WorkPC
  <2>4. subtasks # <<>>  OBVIOUS
  <2> QED  BY <2>1, <2>2, <2>3, <2>4
<1>11. StageInv'
  BY <1>1, <1>9, <1>10 DEF StageInv, AfterApproval, BeforeApproval
<1>12. RowInv'
  BY <1>1, <1>3, <1>10 DEF RowInv, PlanPC, TestPC, WorkPC
<1>13. TodoInv'
  <2>1. \A m \in DOMAIN subtasks : m # n => subtasks'[m] = subtasks[m]
    BY <1>6
  <2>2. DOMAIN tick'.todo = DOMAIN tick.todo \ {n}
        /\ \A m \in DOMAIN tick'.todo : tick'.todo[m] = tick.todo[m]
    BY <1>3 DEF Restrict
  <2>3. TodoInv /\ DOMAIN subtasks' = DOMAIN subtasks
    BY <1>6 DEF PlanInv
  <2> QED  BY <1>1, <1>2, <1>3, <2>1, <2>2, <2>3, TodoRests
<1> QED
  BY <1>1, <1>3, <1>6, <1>8, <1>10, <1>11, <1>12, <1>13, PlannerWrites DEF PlanInv

\* A failed child is completed by hand.
LEMMA AdoptChildStep ==
  ASSUME PlanInv, NEW n \in DOMAIN subtasks, AdoptChild(n)
  PROVE  PlanInv'
<1> DEFINE v == task.version + 1
<1>1. PICK resume \in {"test_writing", "in_progress"} :
        /\ subtasks[n].status = "failed" /\ task.status \in {"failed", resume}
        /\ UNCHANGED <<runs, planner>>
        /\ subtasks' = [ subtasks EXCEPT ![n].status = "done",
                                         ![n].assigned = FALSE ]
        /\ task' = [ task EXCEPT !.status = resume, !.version = v ]
  BY DEF AdoptChild
<1>2. IsRow(task) /\ v \in Nat /\ v > task.version /\ tick.pc \notin PlanPC
  BY KnownChild DEF PlanInv, IsRow
<1> HIDE DEF v
<1>3. /\ IsRow(task') /\ task'.status = resume /\ task'.plan = task.plan
      /\ task'.version = v
  BY <1>1, <1>2 DEF IsRow, RowFields, PlanningStatus
<1> DEFINE child == [subtasks[n] EXCEPT !.status = "done", !.assigned = FALSE]
<1>4. /\ subtasks' = [subtasks EXCEPT ![n] = child]
      /\ IsChild(child) /\ child.entry = subtasks[n].entry /\ ~child.assigned
      /\ child.status = "done"
  <2>1. IsChild(subtasks[n])  BY KnownChild
  <2> QED  BY <1>1, <2>1 DEF IsChild, ChildFields
<1> HIDE DEF child
<1>5. /\ Kept /\ DOMAIN subtasks' = DOMAIN subtasks
      /\ \A m \in DOMAIN subtasks : m # n => subtasks'[m] = subtasks[m]
  BY <1>1, <1>3, <1>4, ChildReleased
<1>6. TickTyped' /\ tick' = tick /\ n \notin DOMAIN tick.todo
  <2>1. TickTyped' /\ tick' = tick
    BY <1>1 DEF PlanInv, TickTyped, Goroutine, tick
  <2>2. n \in DOMAIN tick.todo => subtasks[n].status \in {"backlog", "in_progress"}
    BY KnownChild
  <2>3. subtasks[n].status = "failed"
    BY <1>1
  <2> QED  BY <2>1, <2>2, <2>3
<1>7. TodoInv'
  <2>1. TodoInv  BY DEF PlanInv
  <2>2. tick.pc \in {"dispatch tests", "dispatch work", "halt"}
          \/ DOMAIN tick.todo = {}
    BY <2>1 DEF TodoInv
  <2>3. subtasks[n].status # "done"
    BY <1>1
  <2> QED  BY <1>5, <1>6, <2>1, <2>2, <2>3, TodoRests
<1>8. CASE task.status = resume
  <2>1. Stage' = Stage /\ task'.status # "paused"
    BY <1>3, <1>8 DEF Stage
  <2> QED
    BY <1>1, <1>2, <1>3, <1>5, <1>6, <1>7, <2>1, KeptStep, PlannerWrites
<1>9. CASE task.status = "failed"
  <2>1. Stage' = resume /\ Stage = "failed" /\ task'.status # "paused"
    BY <1>3, <1>9 DEF Stage
  <2>2. NoneAssigned /\ Covered
    BY <1>1, <2>1 DEF PlanInv, StageInv
  <2>3. StageInv'
    <3>1. NoneAssigned' /\ Covered' /\ TestsOnly'
      BY <1>5, <2>2 DEF Kept, NoneAssigned, TestsOnly
    <3> QED  BY <2>1, <3>1 DEF StageInv, AfterApproval, BeforeApproval
  <2>4. RowInv'
    <3>1. tick.pc \notin PlanPC \cup TestPC \cup WorkPC \cup {"stop"}
      BY <1>2, <2>1 DEF PlanInv, RowInv, TestPC, WorkPC
    <3> QED  BY <1>6, <3>1 DEF RowInv, PlanPC, TestPC, WorkPC
  <2> QED
    BY <1>1, <1>3, <1>5, <1>6, <1>7, <2>3, <2>4, PlannerWrites DEF PlanInv, Kept
<1> QED  BY <1>1, <1>8, <1>9

\* The process starts over.
LEMMA RestartStep ==
  ASSUME PlanInv, Restart, UNCHANGED subtasks
  PROVE  PlanInv'
<1>1. /\ planner' = PlannerAtRest /\ UNCHANGED task
      /\ runs' = [ g \in Goroutine |-> RunAtRest ] /\ Goroutine = {"tick"}
  BY DEF Restart, PlanInv, TickTyped
<1>2. Finish("tick")
  BY <1>1 DEF Finish, PlanInv, TickTyped
<1>3. StageInv' /\ IsRow(task')
  BY <1>1, SameChildren DEF PlanInv, StageInv, Stage
<1> QED  BY <1>1, <1>2, <1>3, PlannerWrites, TickRests

-----------------------------------------------------------------------------
(* The children are scheduled                                                *)

\* Only dependencies are repaired, and those that are met stay.
LEMMA RepairedChild ==
  ASSUME NEW rows, NEW n \in DOMAIN rows, IsChild(rows[n]),
         NEW row, row = RepairDependencies(rows)[n]
  PROVE  /\ IsChild(row)
         /\ \A f \in ChildFields \ {"deps"} : row[f] = rows[n][f]
         /\ ToSet(rows[n].deps) \subseteq With(rows, "done") =>
              ToSet(row.deps) = ToSet(rows[n].deps)
<1> DEFINE Repaired(d, x) == IF rows[d].phase = "test" /\ rows[d].status = "rejected"
                             THEN x ELSE d
<1>1. \/ row = rows[n]
      \/ \E x : row = [ rows[n] EXCEPT !.deps =
                          [ i \in DOMAIN rows[n].deps |-> Repaired(rows[n].deps[i], x) ] ]
  BY DEF RepairDependencies
<1>2. CASE row = rows[n]
  BY <1>2
<1>3. ASSUME NEW x, NEW deps,
             row = [ rows[n] EXCEPT !.deps = deps ],
             deps = [ i \in DOMAIN rows[n].deps |-> Repaired(rows[n].deps[i], x) ]
      PROVE  /\ IsChild(row)
             /\ \A f \in ChildFields \ {"deps"} : row[f] = rows[n][f]
             /\ ToSet(rows[n].deps) \subseteq With(rows, "done") =>
                  ToSet(row.deps) = ToSet(rows[n].deps)
  <2>1. /\ IsChild(row) /\ row.deps = deps
        /\ \A f \in ChildFields \ {"deps"} : row[f] = rows[n][f]
    BY <1>3 DEF IsChild, ChildFields
  <2>2. ASSUME ToSet(rows[n].deps) \subseteq With(rows, "done")
        PROVE  deps = [ i \in DOMAIN rows[n].deps |-> rows[n].deps[i] ]
    BY <1>3, <2>2 DEF ToSet, With
  <2> QED  BY <2>1, <2>2 DEF ToSet
<1> QED  BY <1>1, <1>2, <1>3

\* The repair undoes nothing.
LEMMA RepairKeeps ==
  ASSUME PlanInv, subtasks' = RepairDependencies(subtasks), task'.plan = task.plan
  PROVE  /\ Kept /\ DOMAIN subtasks' = DOMAIN subtasks
         /\ With(subtasks', "done") = With(subtasks, "done")
<1> DEFINE k == Len(subtasks)
<1>1. /\ k \in Nat /\ DOMAIN subtasks = 1 .. k /\ DOMAIN subtasks' = 1 .. k
      /\ subtasks' = [n \in 1 .. k |-> subtasks'[n]]
  BY DEF PlanInv, ChildrenInv, RepairDependencies
<1> HIDE DEF k
<1>2. Len(subtasks') = k
  BY <1>1, IsSequence
<1>3. ASSUME NEW n \in DOMAIN subtasks
      PROVE  /\ IsChild(subtasks'[n])
             /\ \A f \in ChildFields \ {"deps"} : subtasks'[n][f] = subtasks[n][f]
             /\ ToSet(subtasks[n].deps) \subseteq With(subtasks, "done") =>
                  ToSet(subtasks'[n].deps) = ToSet(subtasks[n].deps)
  BY RepairedChild DEF PlanInv, ChildrenInv
<1>4. \A n \in DOMAIN subtasks :
        /\ subtasks'[n].assigned = subtasks[n].assigned
        /\ subtasks'[n].status = subtasks[n].status
        /\ subtasks'[n].kind = subtasks[n].kind
        /\ subtasks'[n].entry = subtasks[n].entry
        /\ subtasks'[n].phase = subtasks[n].phase
  BY <1>3 DEF ChildFields
<1>5. With(subtasks', "done") = With(subtasks, "done")
  BY <1>1, <1>4 DEF With
<1>6. ChildrenInv'
  <2>1. (Len(subtasks) \in Nat /\ subtasks = [n \in 1 .. Len(subtasks) |-> subtasks[n]])'
    BY <1>1, <1>2
  <2>2. (\A n \in DOMAIN subtasks : IsChild(subtasks[n]))'
    BY <1>1, <1>3 DEF IsChild
  <2>3. (\A n \in DOMAIN subtasks :
           /\ IsChild(subtasks[n])
           /\ subtasks[n].assigned => subtasks[n].status = "in_progress"
           /\ subtasks[n].status = "cancelled" =>
                subtasks[n].kind = "dependency_failure"
           /\ subtasks[n].status = "rejected" =>
                \E m \in DOMAIN subtasks :
                  m > n /\ subtasks[m].entry = subtasks[n].entry)'
    BY <1>1, <1>4, <2>2 DEF PlanInv, ChildrenInv
  <2> QED  BY <2>1, <2>3 DEF ChildrenInv
<1>7. DependenciesDone'
  BY <1>1, <1>3, <1>4, <1>5 DEF PlanInv, DependenciesDone
<1>8. /\ NoneAssigned => NoneAssigned'
      /\ TestsOnly => TestsOnly'
      /\ Complete => Complete'
      /\ Covered => Covered'
  BY <1>1, <1>4 DEF NoneAssigned, TestsOnly, Complete, Covered
<1>9. subtasks = <<>> => subtasks' = <<>>
  BY <1>1
<1> QED  BY <1>1, <1>5, <1>6, <1>7, <1>8, <1>9 DEF Kept

\* What is accepted may be worked on.
LEMMA AcceptedMayStart ==
  ASSUME NEW rows, NEW schedule, NEW phase, NEW accepted \in Accepted(rows, schedule, phase),
         NEW n \in accepted
  PROVE  /\ n \in DOMAIN rows /\ rows[n].status \in {"backlog", "in_progress"}
         /\ rows[n].status = "in_progress" => ~rows[n].assigned
         /\ phase = "test" => rows[n].phase = "test"
         /\ ToSet(rows[n].deps) \subseteq With(rows, "done")
<1>1. n \in Free(rows, schedule, phase)
  BY DEF Accepted
<1>2. /\ n \in Candidates(rows, phase)
      /\ ToSet(rows[n].deps) \subseteq With(rows, "done")
  BY <1>1 DEF Free, Dispatchable, DependenciesMet
<1> QED  BY <1>2 DEF Candidates, With

\* The tick decides what to dispatch.
LEMMA ScheduleStep ==
  ASSUME PlanInv, ScheduleTests("tick") \/ ScheduleWork
  PROVE  PlanInv'
<1>1. PICK pc, next, phase :
        /\ \/ pc = "tests" /\ next = "dispatch tests" /\ phase = "test"
           \/ pc = "work" /\ next = "dispatch work" /\ phase = ""
        /\ Schedule("tick", pc, next, phase)
  BY DEF ScheduleTests, ScheduleWork
<1>2. PICK rows \in {RepairDependencies(subtasks)} :
      \E accepted \in Accepted(rows, task.ctx.schedule, phase) :
        /\ subtasks' = rows
        /\ runs' = [ runs EXCEPT !["tick"].pc = next,
                                 !["tick"].todo = Noted(rows, accepted) ]
        /\ task' = tick.row \/ task' = task
  BY <1>1 DEF Schedule, Save, tick
<1>3. PICK accepted \in Accepted(subtasks', task.ctx.schedule, phase) :
        /\ subtasks' = RepairDependencies(subtasks)
        /\ runs' = [ runs EXCEPT !["tick"].pc = next,
                                 !["tick"].todo = Noted(subtasks', accepted) ]
        /\ task' = tick.row \/ task' = task
  BY <1>2
<1>4. /\ TickTyped' /\ tick'.pc = next /\ tick'.row = tick.row
      /\ tick'.todo = Noted(subtasks', accepted)
  BY <1>3, TickMoves DEF PlanInv
<1>5. tick.pc = pc /\ planner' = planner
  BY <1>1 DEF Schedule, tick
<1>6. /\ IsRow(task') /\ task'.plan = task.plan /\ Stage' = Stage
      /\ task' = task \/ task'.status # "paused"
  <2>1. RowInv /\ IsRow(task) /\ IsRow(tick.row)
    BY DEF PlanInv, TickTyped, IsRun
  <2>2. /\ tick.row.status = Stage /\ tick.row.plan = task.plan
        /\ tick.row.status # "paused"
    BY <1>1, <1>5, <2>1 DEF RowInv, TestPC, WorkPC
  <2>3. CASE task' = task
    BY <2>1, <2>3 DEF Stage
  <2>4. CASE task' = tick.row
    BY <2>1, <2>2, <2>4 DEF Stage
  <2> QED  BY <1>3, <2>3, <2>4
<1>7. Kept
  BY <1>3, <1>6, RepairKeeps
<1>8. TodoInv'
  <2>1. DOMAIN tick'.todo = accepted
        /\ \A n \in accepted : tick'.todo[n] = subtasks'[n].status
    BY <1>4 DEF Noted
  <2>2. ASSUME NEW n \in accepted
        PROVE  /\ n \in DOMAIN subtasks'
               /\ ~subtasks'[n].assigned
               /\ subtasks'[n].status \in {"backlog", "in_progress"}
               /\ next = "dispatch tests" => subtasks'[n].phase = "test"
               /\ ToSet(subtasks'[n].deps) \subseteq With(subtasks', "done")
    <3>1. /\ n \in DOMAIN subtasks'
          /\ subtasks'[n].status \in {"backlog", "in_progress"}
          /\ subtasks'[n].status = "in_progress" => ~subtasks'[n].assigned
          /\ phase = "test" => subtasks'[n].phase = "test"
          /\ ToSet(subtasks'[n].deps) \subseteq With(subtasks', "done")
      BY AcceptedMayStart
    <3>2. subtasks'[n].assigned => subtasks'[n].status = "in_progress"
      BY <1>7, <3>1 DEF Kept, ChildrenInv
    <3> QED  BY <1>1, <3>1, <3>2
  <2> QED  BY <1>1, <1>4, <2>1, <2>2 DEF TodoInv
<1>9. tick.pc \notin PlanPC
  BY <1>1, <1>5 DEF PlanPC
<1> QED
  BY <1>1, <1>4, <1>5, <1>6, <1>7, <1>8, <1>9, KeptStep, PlannerWrites

\* What has not started is cancelled, or some of it; what runs is left alone.
LEMMA CancelKeeps ==
  ASSUME PlanInv, NEW written \in SUBSET NotStarted(subtasks),
         subtasks' = CancelBlockedSiblings(subtasks, written), UNCHANGED task
  PROVE  /\ Kept
         /\ (\A n \in DOMAIN subtasks' : ~SiblingIsRunning(subtasks'[n])) => NoneAssigned'
<1> DEFINE k == Len(subtasks)
<1>1. /\ k \in Nat /\ DOMAIN subtasks = 1 .. k /\ DOMAIN subtasks' = 1 .. k
      /\ subtasks' = [n \in 1 .. k |-> subtasks'[n]]
  BY DEF PlanInv, ChildrenInv, CancelBlockedSiblings
<1> HIDE DEF k
<1>2. Len(subtasks') = k
  BY <1>1, IsSequence
<1>3. ASSUME NEW n \in DOMAIN subtasks
      PROVE  /\ IsChild(subtasks'[n])
             /\ subtasks'[n].assigned = subtasks[n].assigned
             /\ subtasks'[n].entry = subtasks[n].entry
             /\ subtasks'[n].phase = subtasks[n].phase
             /\ subtasks'[n].deps = subtasks[n].deps
             /\ \/ subtasks'[n] = subtasks[n]
                \/ /\ subtasks'[n].status = "cancelled" /\ ~subtasks[n].assigned
                   /\ subtasks'[n].kind = "dependency_failure"
                   /\ subtasks[n].status \notin {"done", "rejected"}
  <2>1. IsChild(subtasks[n]) /\ (subtasks[n].assigned => subtasks[n].status = "in_progress")
    BY DEF PlanInv, ChildrenInv
  <2>2. CASE subtasks'[n] = subtasks[n]
    BY <2>1, <2>2
  <2>3. CASE /\ subtasks'[n] = [ subtasks[n] EXCEPT !.status = "cancelled",
                                                    !.kind = "dependency_failure" ]
             /\ subtasks[n].status \notin Settled /\ ~SiblingIsRunning(subtasks[n])
    <3>1. ~subtasks[n].assigned /\ subtasks[n].status \notin {"done", "rejected"}
      BY <2>1, <2>3 DEF Settled, SiblingIsRunning
    <3> QED  BY <2>1, <2>3, <3>1 DEF IsChild, ChildFields
  <2> QED  BY <2>2, <2>3 DEF CancelBlockedSiblings, NotStarted
<1>4. With(subtasks', "done") = With(subtasks, "done")
  BY <1>1, <1>3 DEF With
<1>5. ChildrenInv'
  <2>1. (Len(subtasks) \in Nat /\ subtasks = [n \in 1 .. Len(subtasks) |-> subtasks[n]])'
    BY <1>1, <1>2
  <2>2. (\A n \in DOMAIN subtasks : IsChild(subtasks[n]))'
    BY <1>1, <1>3 DEF IsChild
  <2>3. (\A n \in DOMAIN subtasks :
           /\ IsChild(subtasks[n])
           /\ subtasks[n].assigned => subtasks[n].status = "in_progress"
           /\ subtasks[n].status = "cancelled" =>
                subtasks[n].kind = "dependency_failure"
           /\ subtasks[n].status = "rejected" =>
                \E m \in DOMAIN subtasks :
                  m > n /\ subtasks[m].entry = subtasks[n].entry)'
    BY <1>1, <1>3, <2>2 DEF PlanInv, ChildrenInv
  <2> QED  BY <2>1, <2>3 DEF ChildrenInv
<1>6. DependenciesDone'
  BY <1>1, <1>3, <1>4 DEF PlanInv, DependenciesDone
<1>7. /\ NoneAssigned => NoneAssigned'
      /\ TestsOnly => TestsOnly'
      /\ Complete => Complete'
      /\ Covered => Covered'
  BY <1>1, <1>3 DEF NoneAssigned, TestsOnly, Complete, Covered
<1>8. subtasks = <<>> => subtasks' = <<>>
  BY <1>1
<1>9. (\A n \in DOMAIN subtasks' : ~SiblingIsRunning(subtasks'[n])) => NoneAssigned'
  BY <1>5 DEF ChildrenInv, SiblingIsRunning, NoneAssigned, Settled
<1> QED  BY <1>5, <1>6, <1>7, <1>8, <1>9 DEF Kept

\* The feature is judged.
LEMMA JudgeFeatureStep ==
  ASSUME PlanInv, JudgeFeature("tick")
  PROVE  PlanInv'
<1> DEFINE rows == CancelBlockedSiblings(subtasks, NotStarted(subtasks))
           running == \E n \in DOMAIN rows : SiblingIsRunning(rows[n])
<1>1. /\ tick.pc = "dispatch work" /\ DOMAIN tick.todo = {} /\ UNCHANGED planner
      /\ \/ /\ FeatureVerdict(subtasks) = "ready"
            /\ Continue("tick", "deliver", tick.row) /\ UNCHANGED <<task, subtasks>>
         \/ /\ UNCHANGED subtasks /\ Finish("tick")
            /\ task' = task \/ Save(tick.row)
         \/ /\ subtasks' = rows /\ UNCHANGED task
            /\ Continue("tick", IF running THEN "drain" ELSE "stop", tick.row)
  BY DEF JudgeFeature, tick
<1>2. /\ AtWork /\ IsRow(tick.row) /\ IsRow(task) /\ RowInv /\ StageInv
  BY <1>1 DEF AtWork, WorkPC, PlanInv, TickTyped, IsRun
<1>3. CASE /\ FeatureVerdict(subtasks) = "ready"
           /\ Continue("tick", "deliver", tick.row) /\ UNCHANGED <<task, subtasks>>
  BY <1>1, <1>3, FeatureIsReady
<1>4. CASE /\ UNCHANGED subtasks /\ Finish("tick")
           /\ task' = task \/ Save(tick.row)
  BY <1>1, <1>2, <1>4, TickEndsSteps
<1>5. CASE /\ subtasks' = rows /\ UNCHANGED task
           /\ Continue("tick", IF running THEN "drain" ELSE "stop", tick.row)
  <2>1. Kept /\ (~running => NoneAssigned')
    <3>1. running <=> \E n \in DOMAIN subtasks' : SiblingIsRunning(subtasks'[n])
      BY <1>5
    <3> HIDE DEF running
    <3> QED  BY <1>5, <3>1, CancelKeeps
  <2> DEFINE pc == IF running THEN "drain" ELSE "stop"
  <2> HIDE DEF pc, rows, running
  <2>2. /\ TickTyped' /\ tick'.pc = pc /\ tick'.row = tick.row
        /\ tick'.todo = tick.todo
    BY <1>2, <1>5, TickMoves DEF PlanInv, pc
  <2>3. pc \in {"drain", "stop"} /\ (pc = "stop" => NoneAssigned')
    BY <2>1 DEF pc
  <2>4. TodoInv'
    BY <1>1, <2>2 DEF TodoInv
  <2>5. tick.row.status = "in_progress" /\ Stage = "in_progress" /\ Stage' = Stage
          /\ tick.row.plan = task.plan /\ task' = task
    BY <1>1, <1>2, <1>5 DEF RowInv, WorkPC, Stage
  <2>6. StageInv'
    <3>1. subtasks' # <<>> => subtasks # <<>>
      BY <2>1 DEF Kept
    <3> QED
      BY <1>2, <2>1, <2>5, <3>1 DEF StageInv, Kept, BeforeApproval, AfterApproval
  <2>7. RowInv'
    BY <2>2, <2>3, <2>5 DEF RowInv, PlanPC, TestPC, WorkPC
  <2> QED
    BY <1>1, <1>2, <2>1, <2>2, <2>4, <2>5, <2>6, <2>7, PlannerWrites DEF PlanInv, Kept
<1> QED  BY <1>1, <1>3, <1>4, <1>5

\* Only some of what has not started is cancelled.
LEMMA CancellationFailsStep ==
  ASSUME PlanInv, CancellationFails("tick")
  PROVE  PlanInv'
<1>1. /\ tick.pc = "dispatch work" /\ Finish("tick") /\ UNCHANGED <<task, planner>>
      /\ \E written \in SUBSET NotStarted(subtasks) :
           subtasks' = CancelBlockedSiblings(subtasks, written)
  BY DEF CancellationFails, tick
<1>2. Kept
  BY <1>1, CancelKeeps
<1>3. IsRow(task) /\ tick.pc \notin PlanPC /\ PlannerInv'
  BY <1>1, PlannerWrites DEF PlanInv, PlanPC
<1>4. TickTyped' /\ tick' = RunAtRest
  BY <1>1, TickMoves DEF PlanInv
<1>5. TodoInv'
  BY <1>4, AtRest DEF TodoInv
<1> QED  BY <1>1, <1>2, <1>3, <1>4, <1>5, AtRest, KeptStep DEF Stage

-----------------------------------------------------------------------------
(* The gates                                                                 *)

\* The rows of an approved plan.
LEMMA NewChildren ==
  ASSUME NEW p \in DOMAIN Plans, subtasks' = Materialize(Plans[p].entries)
  PROVE  /\ ChildrenInv' /\ DependenciesDone' /\ NoneAssigned'
         /\ \A e \in DOMAIN Plans[p].entries :
              \E n \in DOMAIN subtasks' : subtasks'[n].entry = e
<1> DEFINE entries == Plans[p].entries
           k == Len(entries)
<1>1. /\ k \in Nat /\ DOMAIN entries = 1 .. k
      /\ subtasks' = Materialize(entries)
  <2>1. entries \in Seq(PlanEntry)
    BY PlanningAssumption
  <2> HIDE DEF entries
  <2>2. k \in Nat /\ DOMAIN entries = 1 .. k
    BY <2>1, LenProperties
  <2> QED  BY <2>2 DEF entries
<1> HIDE DEF entries, k
<1>2. DOMAIN subtasks' = 1 .. k /\ subtasks' = [n \in 1 .. k |-> subtasks'[n]]
  BY <1>1 DEF Materialize
<1>3. ASSUME NEW n \in 1 .. k
      PROVE  /\ IsChild(subtasks'[n]) /\ subtasks'[n].entry = n
             /\ ~subtasks'[n].assigned /\ subtasks'[n].status = "backlog"
  <2> DEFINE i == k - n + 1
             deps == MergeTDDDependencies(entries)[n]
             entry == entries[n]
  <2>1. subtasks'[n] = [ entry |-> n, rev |-> 0, phase |-> entry.phase,
            status |-> "backlog", deps |-> deps, testsFor |-> entry.testsFor,
            files |-> entry.files, priority |-> i, assigned |-> FALSE,
            kind |-> "none" ]
    BY <1>1 DEF Materialize, k
  <2>2. i \in Nat  BY <1>1
  <2> HIDE DEF i, deps, entry
  <2> QED  BY <2>1, <2>2 DEF IsChild, ChildFields
<1>4. Len(subtasks') = k
  BY <1>1, <1>2, IsSequence
<1>5. ChildrenInv'
  <2>1. (Len(subtasks) \in Nat /\ subtasks = [n \in 1 .. Len(subtasks) |-> subtasks[n]])'
    BY <1>1, <1>2, <1>4
  <2>2. (\A n \in DOMAIN subtasks : IsChild(subtasks[n]))'
    BY <1>2, <1>3 DEF IsChild
  <2> QED  BY <1>2, <1>3, <2>1, <2>2 DEF ChildrenInv
<1>6. DependenciesDone' /\ NoneAssigned'
  BY <1>2, <1>3 DEF DependenciesDone, NoneAssigned
<1>7. \A e \in DOMAIN entries : \E n \in DOMAIN subtasks' : subtasks'[n].entry = e
  BY <1>1, <1>2, <1>3
<1> QED  BY <1>5, <1>6, <1>7 DEF entries

\* An approval creates the rows of the plan and gives them one of its schedules.
LEMMA ApprovedChildren ==
  ASSUME ApprovePlan, task.plan \in DOMAIN Plans
  PROVE  /\ subtasks' = Children[task.plan]
         /\ subtasks' = Materialize(Plans[task.plan].entries)
         /\ \E schedule \in Schedules[task.plan], to \in {"test_writing", "in_progress"} :
              Transition([ task EXCEPT !.ctx.schedule = schedule ], to)
<1> DEFINE to == IF \E n \in DOMAIN subtasks' : subtasks'[n].phase = "test"
                 THEN "test_writing" ELSE "in_progress"
<1>1. PICK schedule \in Schedules[task.plan] :
        Transition([ task EXCEPT !.ctx.schedule = schedule ], to)
  BY DEF ApprovePlan
<1>2. to \in {"test_writing", "in_progress"}
  OBVIOUS
<1> HIDE DEF to
<1>3. subtasks' = Children[task.plan]
  BY DEF ApprovePlan
<1>4. subtasks' = Materialize(Plans[task.plan].entries)
  BY <1>3 DEF Children
<1> QED  BY <1>1, <1>2, <1>3, <1>4

\* The plan is approved.
LEMMA ApprovePlanStep ==
  ASSUME PlanInv, ApprovePlan
  PROVE  PlanInv'
<1>1. /\ task.status = "plan_review" /\ task.plan # NoPlan /\ subtasks = <<>>
      /\ UNCHANGED <<runs, planner>>
  BY DEF ApprovePlan
<1>2. IsRow(task) /\ task.plan \in DOMAIN Plans
  BY <1>1 DEF PlanInv, IsRow
<1>3. subtasks' = Materialize(Plans[task.plan].entries)
  BY <1>2, ApprovedChildren
<1>4. PICK schedule \in Schedules[task.plan], to \in {"test_writing", "in_progress"} :
        Transition([ task EXCEPT !.ctx.schedule = schedule ], to)
  BY <1>2, ApprovedChildren
<1> DEFINE row == [ task EXCEPT !.ctx.schedule = schedule ]
<1>5. /\ IsRow(row) /\ row.status = task.status /\ row.version = task.version
      /\ row.plan = task.plan /\ Transition(row, to)
  BY <1>2, <1>4 DEF IsRow, RowFields
<1> HIDE DEF row
<1>6. /\ IsRow(task') /\ task'.status = to /\ task'.plan = task.plan
  <2>1. task' = Moved(row, to)
    BY <1>5 DEF Transition, Current
  <2>2. to \in PlanningStatus  BY DEF PlanningStatus
  <2> QED  BY <1>5, <2>1, <2>2, MovedRow
<1>7. /\ ChildrenInv' /\ DependenciesDone' /\ NoneAssigned' /\ Covered'
      /\ TestsOnly'
  <2>1. NoneAssigned' => TestsOnly'
    BY DEF NoneAssigned, TestsOnly
  <2> QED  BY <1>2, <1>3, <1>6, <2>1, NewChildren DEF Covered
<1>8. StageInv'
  BY <1>1, <1>6, <1>7 DEF StageInv, Stage, BeforeApproval, AfterApproval
<1>9. tick.pc \notin PlanPC \cup TestPC \cup WorkPC \cup {"stop"}
  BY <1>1 DEF PlanInv, RowInv, Stage, TestPC, WorkPC
<1>10. RowInv'
  BY <1>1, <1>7, <1>9 DEF RowInv, PlanPC, TestPC, WorkPC, tick
<1>11. TodoInv'
  <2>1. DOMAIN subtasks = {}
    BY <1>1
  <2>2. DOMAIN tick.todo = {}
    BY <2>1 DEF PlanInv, TodoInv
  <2> QED  BY <1>1, <2>2 DEF TodoInv, tick
<1>12. TickTyped'
  BY <1>1 DEF PlanInv, TickTyped, tick, Goroutine
<1> QED
  BY <1>1, <1>6, <1>7, <1>8, <1>10, <1>11, <1>12, PlannerWrites DEF PlanInv

-----------------------------------------------------------------------------
(* Tests are rejected                                                        *)

\* A nonempty set of numbers has a least one,
LEMMA Least ==
  ASSUME NEW T, T \subseteq Nat, T # {}
  PROVE  \E x \in T : \A y \in T : x <= y
<1> DEFINE R == {ss \in Nat \X Nat : ss[1] < ss[2]}
<1>1. IsWellFoundedOn(R, Nat)
  BY NatLessThanWellFounded DEF OpToRel
<1>2. \A x, y \in Nat : <<y, x>> \in R <=> y < x
  OBVIOUS
<1> HIDE DEF R
<1>3. PICK x \in T : \A y \in T : ~(<<y, x>> \in R)
  BY <1>1, WFMin
<1>4. \A y \in T : ~(y < x)
  BY <1>2, <1>3
<1> QED  BY <1>4

\* and, if it is bounded, a greatest.
LEMMA Greatest ==
  ASSUME NEW k \in Nat, NEW S, S \subseteq 1 .. k, S # {}
  PROVE  Max(S) \in S /\ \A x \in S : x <= Max(S)
<1> DEFINE T == {k - x : x \in S}
<1>1. T \subseteq Nat /\ T # {}
  OBVIOUS
<1> HIDE DEF T
<1>2. PICK t \in T : \A u \in T : t <= u
  BY <1>1, Least
<1>3. \E x \in S : \A y \in S : x >= y
  <2>1. PICK x \in S : t = k - x
    BY DEF T
  <2>2. ASSUME NEW y \in S  PROVE x >= y
    <3>1. k - x <= k - y  BY <1>2, <2>1 DEF T
    <3> QED  BY <3>1
  <2> QED  BY <2>2
<1>4. \A y \in S : Max(S) >= y /\ Max(S) \in S
  BY <1>3 DEF Max
<1> QED  BY <1>4

\* A finite set in some order.
LEMMA AllAreListed ==
  ASSUME NEW S, IsFiniteSet(S), NEW s \in SetToSeqs(S)
  PROVE  \E c \in Nat : /\ DOMAIN s = 1 .. c /\ s = [i \in 1 .. c |-> s[i]]
                        /\ \A i \in 1 .. c : s[i] \in S
                        /\ \A m \in S : \E i \in 1 .. c : s[i] = m
<1> DEFINE c == Cardinality(S)
<1>1. c \in Nat  BY FS_CardinalityType
<1>2. /\ s \in [1 .. c -> S]
      /\ \A i, j \in 1 .. c : i # j => s[i] # s[j]
  BY DEF SetToSeqs
<1>3. Cardinality(1 .. c) = c /\ IsFiniteSet(1 .. c)
  <2> HIDE DEF c
  <2> QED  BY <1>1, FS_Interval
<1>4. s \in Injection(1 .. c, S)
  <2> HIDE DEF c
  <2> QED  BY <1>2 DEF Injection, IsInjective
<1>5. s \in Surjection(1 .. c, S)
  BY <1>3, <1>4, FS_Injection
<1>6. \A m \in S : \E i \in 1 .. c : s[i] = m
  <2> HIDE DEF c
  <2> QED  BY <1>5 DEF Surjection
<1> HIDE DEF c
<1> QED  BY <1>1, <1>2, <1>6

\* One list after another.
LEMMA OneAfterAnother ==
  ASSUME NEW s, NEW k \in Nat, s = [n \in 1 .. k |-> s[n]],
         NEW t, NEW c \in Nat, t = [i \in 1 .. c |-> t[i]]
  PROVE  s \o t = [n \in 1 .. (k + c) |-> IF n <= k THEN s[n] ELSE t[n - k]]
<1> DEFINE S == {s[n] : n \in 1 .. k} \cup {t[i] : i \in 1 .. c}
<1>1. s \in [1 .. k -> S] /\ t \in [1 .. c -> S]
  OBVIOUS
<1> HIDE DEF S
<1>2. s \in Seq(S) /\ t \in Seq(S)
  BY <1>1, SeqDef
<1>3. Len(s) = k /\ Len(t) = c
  BY <1>1, <1>2, LenProperties
<1> QED  BY <1>2, <1>3, ConcatProperties, LenProperties

\* For every done test one that stands for its entry is copied.
LEMMA SourcesOfTests ==
  ASSUME NEW k \in Nat, NEW rows, DOMAIN rows = 1 .. k,
         NEW S, S = ReplacementSources(rows)
  PROVE  /\ S \subseteq 1 .. k /\ IsFiniteSet(S)
         /\ \A n \in 1 .. k : rows[n].phase = "test" /\ rows[n].status = "done" =>
              \E m \in S : rows[m].entry = rows[n].entry
<1> DEFINE Tests == { n \in With(rows, "done") : rows[n].phase = "test" }
           Lane(n) == { m \in Tests : /\ rows[m].entry = rows[n].entry
                                      /\ rows[m].testsFor = rows[n].testsFor }
<1>1. S = { Max(Lane(n)) : n \in Tests }
  BY DEF ReplacementSources
<1>2. ASSUME NEW n \in Tests
      PROVE  Max(Lane(n)) \in 1 .. k /\ rows[Max(Lane(n))].entry = rows[n].entry
  <2>1. Lane(n) \subseteq 1 .. k /\ Lane(n) # {}
    BY DEF With
  <2>2. \A m \in Lane(n) : rows[m].entry = rows[n].entry
    OBVIOUS
  <2> HIDE DEF Lane
  <2> QED  BY <2>1, <2>2, Greatest
<1> HIDE DEF Lane
<1>3. S \subseteq 1 .. k
  BY <1>1, <1>2
<1>4. IsFiniteSet(S)
  BY <1>3, FS_Interval, FS_Subset
<1>5. ASSUME NEW n \in 1 .. k, rows[n].phase = "test" /\ rows[n].status = "done"
      PROVE  \E m \in S : rows[m].entry = rows[n].entry
  <2>1. n \in Tests  BY <1>5 DEF With
  <2> HIDE DEF Tests
  <2> QED  BY <1>1, <1>2, <2>1
<1> QED  BY <1>3, <1>4, <1>5

\* Rejected tests are replaced, and nothing starts.
LEMMA TestsReplaced ==
  ASSUME ChildrenInv, NoneAssigned, NEW round,
         NEW sources \in SetToSeqs(ReplacementSources(subtasks)),
         subtasks' = RejectTests(subtasks, round, sources), task'.plan = task.plan
  PROVE  ChildrenInv' /\ NoneAssigned' /\ (Covered => Covered')
<1> DEFINE k == Len(subtasks)
           Clone(n) == [ subtasks[n] EXCEPT !.rev = round, !.status = "backlog",
                                            !.assigned = FALSE ]
           kept == [ n \in DOMAIN subtasks |->
                       IF subtasks[n].phase = "test" /\ subtasks[n].status = "done"
                       THEN [ subtasks[n] EXCEPT !.status = "rejected" ]
                       ELSE subtasks[n] ]
           clones == [ i \in DOMAIN sources |-> Clone(sources[i]) ]
           S == ReplacementSources(subtasks)
<1>1. k \in Nat /\ DOMAIN subtasks = 1 .. k
  BY DEF ChildrenInv
<1>2. subtasks' = kept \o clones
  BY DEF RejectTests
<1> HIDE DEF k
<1>3. /\ S \subseteq 1 .. k /\ IsFiniteSet(S)
      /\ \A n \in 1 .. k :
           subtasks[n].phase = "test" /\ subtasks[n].status = "done" =>
             \E m \in S : subtasks[m].entry = subtasks[n].entry
  BY <1>1, SourcesOfTests
<1> HIDE DEF S
<1>4. PICK c \in Nat : /\ DOMAIN sources = 1 .. c
                       /\ \A i \in 1 .. c : sources[i] \in S
                       /\ \A m \in S : \E i \in 1 .. c : sources[i] = m
  BY <1>3, AllAreListed DEF S
<1>5. ASSUME NEW n \in 1 .. k
      PROVE  /\ IsChild(kept[n]) /\ ~kept[n].assigned
             /\ kept[n].entry = subtasks[n].entry
             /\ kept[n].kind = subtasks[n].kind
             /\ \/ kept[n].status = subtasks[n].status
                \/ /\ kept[n].status = "rejected" /\ subtasks[n].phase = "test"
                   /\ subtasks[n].status = "done"
  <2>1. IsChild(subtasks[n]) /\ ~subtasks[n].assigned
    BY <1>1 DEF ChildrenInv, NoneAssigned
  <2>2. kept[n] = IF subtasks[n].phase = "test" /\ subtasks[n].status = "done"
                  THEN [ subtasks[n] EXCEPT !.status = "rejected" ]
                  ELSE subtasks[n]
    BY <1>1
  <2> HIDE DEF kept
  <2> QED  BY <2>1, <2>2 DEF IsChild, ChildFields
<1>6. ASSUME NEW i \in 1 .. c
      PROVE  /\ IsChild(clones[i]) /\ ~clones[i].assigned
             /\ clones[i].entry = subtasks[sources[i]].entry
             /\ clones[i].status = "backlog" /\ sources[i] \in 1 .. k
  <2>1. sources[i] \in 1 .. k
    BY <1>3, <1>4
  <2>2. IsChild(subtasks[sources[i]])
    BY <1>1, <2>1 DEF ChildrenInv
  <2>3. clones[i] = [ subtasks[sources[i]] EXCEPT !.rev = round, !.status = "backlog",
                                                  !.assigned = FALSE ]
    BY <1>4
  <2> HIDE DEF clones, Clone
  <2> QED  BY <2>1, <2>2, <2>3 DEF IsChild, ChildFields
<1>7. kept = [n \in 1 .. k |-> kept[n]] /\ clones = [i \in 1 .. c |-> clones[i]]
  BY <1>1, <1>4
<1> HIDE DEF kept, clones, Clone
<1>8. subtasks' = [n \in 1 .. (k + c) |-> IF n <= k THEN kept[n] ELSE clones[n - k]]
  BY <1>1, <1>2, <1>7, OneAfterAnother
<1>9. /\ DOMAIN subtasks' = 1 .. (k + c) /\ k + c \in Nat
      /\ subtasks' = [n \in 1 .. (k + c) |-> subtasks'[n]]
      /\ \A n \in 1 .. k : n \in 1 .. (k + c) /\ subtasks'[n] = kept[n]
      /\ \A i \in 1 .. c : k + i \in 1 .. (k + c) /\ subtasks'[k + i] = clones[i]
      /\ \A n \in 1 .. (k + c) : (n \in 1 .. k \/ n - k \in 1 .. c) /\ k + (n - k) = n
  BY <1>1, <1>8
<1>10. Len(subtasks') = k + c
  BY <1>9, IsSequence
<1>11. ASSUME NEW n \in 1 .. (k + c)
       PROVE  IsChild(subtasks'[n]) /\ ~subtasks'[n].assigned
  BY <1>5, <1>6, <1>9
<1>12. ASSUME NEW n \in 1 .. (k + c), subtasks'[n].status = "cancelled"
       PROVE  subtasks'[n].kind = "dependency_failure"
  <2>1. CASE n \in 1 .. k
    <3>1. subtasks[n].status = "cancelled" /\ subtasks'[n].kind = subtasks[n].kind
      BY <1>5, <1>9, <1>12, <2>1
    <3> QED  BY <1>1, <2>1, <3>1 DEF ChildrenInv
  <2>2. CASE n - k \in 1 .. c
    BY <1>6, <1>9, <1>12, <2>2
  <2> QED  BY <1>9, <2>1, <2>2
<1>13. ASSUME NEW n \in 1 .. (k + c), subtasks'[n].status = "rejected"
       PROVE  \E m \in 1 .. (k + c) : m > n /\ subtasks'[m].entry = subtasks'[n].entry
  <2>1. /\ n \in 1 .. k /\ subtasks'[n].entry = subtasks[n].entry
        /\ \/ subtasks[n].status = "rejected"
           \/ subtasks[n].phase = "test" /\ subtasks[n].status = "done"
    BY <1>5, <1>6, <1>9, <1>13
  <2>2. CASE subtasks[n].status = "rejected"
    <3>1. PICK m \in 1 .. k : m > n /\ subtasks[m].entry = subtasks[n].entry
      BY <1>1, <2>1, <2>2 DEF ChildrenInv
    <3> QED  BY <1>5, <1>9, <2>1, <3>1
  <2>3. CASE subtasks[n].phase = "test" /\ subtasks[n].status = "done"
    <3>1. PICK m \in S : subtasks[m].entry = subtasks[n].entry
      BY <1>3, <2>1, <2>3
    <3>2. PICK i \in 1 .. c : sources[i] = m
      BY <1>4
    <3>3. subtasks'[k + i].entry = subtasks'[n].entry
      <4>1. subtasks'[k + i] = clones[i]
        BY <1>9
      <4>2. clones[i].entry = subtasks[m].entry
        BY <1>6, <3>2
      <4> QED  BY <2>1, <3>1, <4>1, <4>2
    <3>4. k + i > n /\ k + i \in 1 .. (k + c)
      BY <1>1, <2>1
    <3> QED  BY <3>3, <3>4
  <2> QED  BY <2>1, <2>2, <2>3
<1>14. ChildrenInv'
  <2>1. (Len(subtasks) \in Nat /\ subtasks = [n \in 1 .. Len(subtasks) |-> subtasks[n]])'
    BY <1>9, <1>10
  <2>2. (\A n \in DOMAIN subtasks : IsChild(subtasks[n]))'
    BY <1>9, <1>11 DEF IsChild
  <2>3. (\A n \in DOMAIN subtasks :
           /\ IsChild(subtasks[n])
           /\ subtasks[n].assigned => subtasks[n].status = "in_progress"
           /\ subtasks[n].status = "cancelled" =>
                subtasks[n].kind = "dependency_failure"
           /\ subtasks[n].status = "rejected" =>
                \E m \in DOMAIN subtasks :
                  m > n /\ subtasks[m].entry = subtasks[n].entry)'
    BY <1>9, <1>11, <1>12, <1>13, <2>2
  <2> QED  BY <2>1, <2>3 DEF ChildrenInv
<1>15. NoneAssigned'
  BY <1>9, <1>11 DEF NoneAssigned
<1>16. Covered => Covered'
  <2>1. \A n \in DOMAIN subtasks : n \in DOMAIN subtasks'
          /\ subtasks'[n].entry = subtasks[n].entry
    BY <1>1, <1>5, <1>9
  <2> QED  BY <2>1 DEF Covered
<1> QED  BY <1>14, <1>15, <1>16

\* The tests are rejected.
LEMMA RejectTestReviewStep ==
  ASSUME PlanInv, RejectTestReview
  PROVE  PlanInv'
<1> DEFINE round == task.ctx.rejections + 1
           row == [ task EXCEPT !.ctx.rejections = round ]
           parked == [ row EXCEPT !.ctx.pausedFrom = "test_writing" ]
<1>1. /\ task.status = "test_review" /\ UNCHANGED <<runs, planner>>
      /\ \/ /\ task' = Moved(Moved(parked, "test_writing"), "paused")
            /\ UNCHANGED subtasks
         \/ /\ Transition(row, "test_writing")
            /\ \E sources \in SetToSeqs(ReplacementSources(subtasks)) :
                 subtasks' = RejectTests(subtasks, round, sources)
  BY DEF RejectTestReview
<1> HIDE DEF round
<1>2. /\ IsRow(row) /\ row.status = task.status /\ row.version = task.version
      /\ row.plan = task.plan /\ IsRow(task) /\ StageInv
  BY DEF PlanInv, IsRow, RowFields
<1> HIDE DEF row
<1>3. /\ Stage = "test_review" /\ Stage \notin Held /\ NoneAssigned /\ TestsOnly
      /\ Covered
  BY <1>1, <1>2 DEF Stage, Held, StageInv, AfterApproval
<1>4. tick.pc \notin PlanPC \cup TestPC \cup WorkPC \cup {"stop"}
  BY <1>3 DEF PlanInv, RowInv, TestPC, WorkPC
<1>5. CASE /\ task' = Moved(Moved(parked, "test_writing"), "paused")
           /\ UNCHANGED subtasks
  <2>1. /\ IsRow(parked) /\ parked.version = row.version /\ parked.plan = row.plan
        /\ parked.ctx.pausedFrom = "test_writing"
    BY <1>2 DEF IsRow, RowFields
  <2> HIDE DEF parked
  <2>2. /\ IsRow(task') /\ task'.version = task.version + 1 + 1
        /\ task'.status = "paused" /\ task'.plan = task.plan
        /\ task'.ctx.pausedFrom = "test_writing"
    BY <1>2, <1>5, <2>1, MovedRow DEF PlanningStatus
  <2>3. StageInv'
    <3>1. Stage' = "test_writing" /\ Stage' \in Pausable
      BY <2>2 DEF Stage, Pausable
    <3> QED
      BY <1>3, <1>5, <2>2, <3>1, SameChildren DEF StageInv, AfterApproval, BeforeApproval
  <2>4. task'.version > task.version
    BY <1>2, <2>2 DEF IsRow
  <2> QED  BY <1>1, <1>3, <1>5, <2>2, <2>3, <2>4, PlannerWrites, TickStays
<1>6. ASSUME Transition(row, "test_writing"),
             NEW sources \in SetToSeqs(ReplacementSources(subtasks)),
             subtasks' = RejectTests(subtasks, round, sources)
      PROVE  PlanInv'
  <2>1. IsRow(task') /\ task'.status = "test_writing" /\ task'.plan = task.plan
    <3>1. task' = Moved(row, "test_writing")
      BY <1>2, <1>6 DEF Transition, Current
    <3> QED  BY <1>2, <3>1, MovedRow DEF PlanningStatus
  <2>2. ChildrenInv' /\ NoneAssigned' /\ Covered'
    BY <1>3, <1>6, <2>1, TestsReplaced DEF PlanInv
  <2>3. DependenciesDone' /\ TestsOnly'
    BY <2>2 DEF NoneAssigned, DependenciesDone, TestsOnly
  <2>4. StageInv'
    BY <2>1, <2>2, <2>3 DEF StageInv, Stage, BeforeApproval, AfterApproval
  <2>5. RowInv'
    BY <1>1, <1>4 DEF RowInv, PlanPC, TestPC, WorkPC, tick
  <2>6. TodoInv'
    <3>1. DOMAIN tick.todo = {}
      <4>1. ASSUME NEW n \in DOMAIN tick.todo  PROVE FALSE
        BY <1>3, <1>4, <4>1 DEF PlanInv, TodoInv, NoneAssigned, TestPC, WorkPC
      <4> QED  BY <4>1
    <3> QED  BY <1>1, <3>1 DEF TodoInv, tick
  <2>7. TickTyped'
    BY <1>1 DEF PlanInv, TickTyped, tick, Goroutine
  <2> QED
    BY <1>1, <2>1, <2>2, <2>3, <2>4, <2>5, <2>6, <2>7, PlannerWrites DEF PlanInv
<1> QED  BY <1>1, <1>5, <1>6

-----------------------------------------------------------------------------
(* The invariant                                                             *)

\* It holds in the beginning.
LEMMA PlanStart ==
  ASSUME ~EventStream, Init
  PROVE  PlanInv
<1>1. Goroutine = {"tick"}
  BY DEF Goroutine
<1>2. task = NewRow /\ planner = PlannerAtRest /\ subtasks = <<>>
        /\ runs = [ g \in {"tick"} |-> RunAtRest ]
  BY <1>1 DEF Init, PlanningInit
<1>3. IsRow(NewRow)
  BY DEF IsRow, NewRow, RowFields, PlanningStatus
<1>4. tick = RunAtRest /\ DOMAIN tick.todo = {} /\ tick.pc = "idle"
  BY <1>2, AtRest DEF tick
<1>5. TickTyped
  BY <1>1, <1>2, <1>3, <1>4 DEF TickTyped, IsRun, RunAtRest, RunFields
<1>6. ChildrenInv
  <2>1. DOMAIN subtasks = {} /\ Len(subtasks) = 0
    BY <1>2
  <2> QED  BY <1>2, <2>1 DEF ChildrenInv
<1>7. StageInv
  BY <1>2 DEF StageInv, Stage, NewRow, AfterApproval
<1>8. RowInv /\ TodoInv
  BY <1>4 DEF RowInv, TodoInv, PlanPC, TestPC, WorkPC
<1>9. PlannerInv /\ DependenciesDone
  BY <1>2, <1>3 DEF PlannerInv, PlannerAtRest, DependenciesDone
<1> QED  BY <1>2, <1>3, <1>5, <1>6, <1>7, <1>8, <1>9 DEF PlanInv

\* What the tick does when it is its turn keeps it,
LEMMA TickKeeps ==
  ASSUME PlanInv, Steps("tick")
  PROVE  PlanInv'
<1>1. CASE EnsureBranch("tick") /\ UNCHANGED subtasks
  BY <1>1, TickRowSteps
<1>2. CASE ScheduleTests("tick") \/ ScheduleWork
  BY <1>2, ScheduleStep
<1>3. CASE \E n \in DOMAIN subtasks : StartWorker("tick", n)
  BY <1>3, StartWorkerStep
<1>4. CASE JudgeTests("tick")
  BY <1>4, JudgeTestsStep
<1>5. CASE ProposeTests("tick") \/ FailParent("tick") \/ DeliverFeature("tick")
             \/ RecordDrain("tick")
  <2>1. /\ AtWork /\ UNCHANGED <<planner, subtasks>> /\ Finish("tick")
        /\ RecordDrain("tick") => Save(tick.row)
    BY <1>5 DEF ProposeTests, FailParent, AtConstraintGate, DeliverFeature,
                RecordDrain, AtWork, TestPC, WorkPC, tick
  <2> QED  BY <1>5, <2>1, TickEndsSteps
<1>6. CASE JudgeFeature("tick")
  BY <1>6, JudgeFeatureStep
<1>7. CASE AdvanceParent("tick")
  BY <1>7, AdvanceParentStep
<1>8. CASE TickPlans /\ UNCHANGED subtasks
  BY <1>8, BeginPhases, TickPlanSteps, TickRowSteps DEF TickPlans
<1>9. CASE /\ BeginPhase("test_writing", "tests") \/ BeginPhase("in_progress", "work")
           /\ UNCHANGED subtasks
  BY <1>9, BeginPhases
<1>10. CASE FindWorkers
  BY <1>10, FindWorkersStep
<1>11. CASE \E n \in DOMAIN subtasks : StopWorker(n)
  BY <1>11, StopWorkerStep
<1> QED
  BY <1>1, <1>2, <1>3, <1>4, <1>5, <1>6, <1>7, <1>8, <1>9, <1>10, <1>11
     DEF Steps, Proceeds, TickRuns

\* and so does everything else.
LEMMA PlanStep ==
  ASSUME PlanInv, [Next]_vars
  PROVE  PlanInv'
<1>1. Goroutine = {"tick"}
  BY DEF PlanInv, TickTyped
<1>2. CASE Steps("tick")
  BY <1>2, TickKeeps
<1>3. CASE /\ ClaimRequest \/ PlannerAnswers \/ LoseRequest
           /\ UNCHANGED subtasks
  BY <1>3, PlannerSteps
<1>4. CASE OperatorPlans /\ UNCHANGED subtasks
  BY <1>4, PlanReviewSteps, PauseSteps DEF OperatorPlans
<1>5. CASE Restart /\ UNCHANGED subtasks
  BY <1>5, RestartStep
<1>6. CASE \E n \in DOMAIN subtasks :
             WorkDone("tick", n) \/ WorkFails("tick", n) \/ WorkerLost("tick", n)
  BY <1>6, ExitSteps
<1>7. CASE \E n \in DOMAIN subtasks : SpawnFails("tick", n)
  BY <1>7, SpawnFailsStep
<1>8. CASE \E n \in DOMAIN subtasks : ImageUnavailable("tick", n)
  BY <1>8, ImageUnavailableStep
<1>9. CASE HoldBack("tick") \/ CancellationFails("tick")
  <2>1. CASE HoldBack("tick")
    <3>1. /\ AtWork /\ UNCHANGED <<planner, subtasks>> /\ Finish("tick")
          /\ Save(tick.row)
      BY <2>1 DEF HoldBack, AtConstraintGate, AtWork, TestPC, WorkPC, tick
    <3> QED  BY <3>1, TickEndsSteps
  <2> QED  BY <1>9, <2>1, CancellationFailsStep
<1>10. CASE ApprovePlan
  BY <1>10, ApprovePlanStep
<1>11. CASE \E p \in DOMAIN Plans : RevisePlan(p)
  BY <1>11, PlanReviewSteps DEF RevisePlan
<1>12. CASE ApproveTests \/ RetryTask
  BY <1>12, ApproveOrRetrySteps
<1>13. CASE RejectTestReview
  BY <1>13, RejectTestReviewStep
<1>14. CASE \E n \in DOMAIN subtasks : RetrySubtask(n)
  BY <1>14, RetrySubtaskStep
<1>15. CASE \E n \in DOMAIN subtasks : AdoptChild(n)
  BY <1>15, AdoptChildStep
<1>16. CASE UNCHANGED vars
  <2>1. UNCHANGED <<task, runs, planner, subtasks>>
    BY <1>16 DEF vars
  <2>2. StageInv' /\ IsRow(task') /\ Stage' = Stage /\ PlannerInv'
    BY <2>1, StageStays, PlannerWrites DEF PlanInv, StageInv, Stage
  <2> QED  BY <2>1, <2>2, TickStays
<1> QED
  BY <1>1, <1>2, <1>3, <1>4, <1>5, <1>6, <1>7, <1>8, <1>9, <1>10, <1>11, <1>12,
     <1>13, <1>14, <1>15, <1>16 DEF Next, Completes, Operators, Faults

\* The invariant of the plan (all of PlanExecution, while the tick alone acts).
THEOREM PlanInvariant ==
  ASSUME ~EventStream
  PROVE  Spec => []PlanInv
<1>1. Init => PlanInv  BY PlanStart
<1>2. PlanInv /\ [Next]_vars => PlanInv'  BY PlanStep
<1> QED  BY <1>1, <1>2, PTL DEF Spec

-----------------------------------------------------------------------------
(* What it says of the plan                                                  *)

\* A child with a worker has all its dependencies done, whatever was rejected,
\* retried or adopted under it.
THEOREM DependenciesAreDone ==
  ASSUME ~EventStream
  PROVE  Spec => []DependenciesFirst
<1>1. PlanInv => DependenciesFirst
  BY DEF PlanInv, DependenciesDone, DependenciesFirst, With
<1> QED  BY <1>1, PlanInvariant, PTL

\* While tests are written or reviewed nothing but tests is worked on.
THEOREM OnlyTestsAreWritten ==
  ASSUME ~EventStream
  PROVE  Spec => []TestsComeFirst
<1>1. PlanInv => TestsComeFirst
  BY DEF PlanInv, StageInv, Stage, TestsOnly, TestsComeFirst
<1> QED  BY <1>1, PlanInvariant, PTL

\* A task offered for delivery has all of its plan done, each test in its last
\* revision: a rejected one is followed by its copy, and copies of the newest.
THEOREM DeliveredPlanIsDone ==
  ASSUME ~EventStream
  PROVE  Spec => []DeliversThePlan
<1>1. PlanInv => DeliversThePlan
  <2>1. SUFFICES ASSUME PlanInv, task.status = "testing_ready",
                        NEW e \in DOMAIN Plans[task.plan].entries,
                        NEW rows, rows = { n \in DOMAIN subtasks : subtasks[n].entry = e }
                 PROVE  rows # {} /\ subtasks[Max(rows)].status = "done"
    BY DEF DeliversThePlan
  <2>2. Covered /\ Complete
    BY <2>1 DEF PlanInv, StageInv, Stage, AfterApproval
  <2>3. PICK k \in Nat : DOMAIN subtasks = 1 .. k
    BY <2>1 DEF PlanInv, ChildrenInv
  <2>4. rows # {} /\ rows \subseteq 1 .. k
    BY <2>1, <2>2, <2>3 DEF Covered
  <2>5. Max(rows) \in rows /\ \A n \in rows : n <= Max(rows)
    BY <2>4, Greatest
  <2> DEFINE last == Max(rows)
  <2> HIDE DEF last
  <2>6. ASSUME subtasks[last].status = "rejected"
        PROVE  FALSE
    <3>1. last \in DOMAIN subtasks /\ subtasks[last].entry = e
      BY <2>1, <2>5 DEF last
    <3>2. PICK m \in DOMAIN subtasks : m > last /\ subtasks[m].entry = subtasks[last].entry
      BY <2>1, <2>6, <3>1 DEF PlanInv, ChildrenInv
    <3>3. m \in rows /\ m \in 1 .. k /\ last \in 1 .. k
      BY <2>1, <2>3, <3>1, <3>2
    <3> QED  BY <2>5, <3>2, <3>3 DEF last
  <2>7. subtasks[last].status \in {"done", "rejected"}
    BY <2>1, <2>2, <2>5 DEF Complete, last
  <2> QED  BY <2>4, <2>6, <2>7 DEF last
<1> QED  BY <1>1, PlanInvariant, PTL

-----------------------------------------------------------------------------
(* Files                                                                     *)

\* The children that run or are about to.
Busy == Assigned \cup IF tick.pc \in {"dispatch tests", "dispatch work"}
                      THEN DOMAIN tick.todo ELSE {}

\* The files of those of them that have few do not overlap.
FilesInv ==
  /\ \A n \in DOMAIN subtasks : IsFiniteSet(subtasks[n].files)
  /\ \A n, m \in Busy :
       n # m /\ Few(subtasks[n].files) /\ Few(subtasks[m].files) =>
         subtasks[n].files \cap subtasks[m].files = {}

\* Few files that do not conflict with others do not overlap with them.
LEMMA NoConflictNoOverlap ==
  ASSUME NEW a, IsFiniteSet(a), Few(a), NEW b, IsFiniteSet(b)
  PROVE  ~Conflict(a, b) <=> a \cap b = {}
<1> DEFINE i == Cardinality(a \cap b)
           x == Cardinality(a)
           y == Cardinality(b)
<1>1. /\ x \in Nat /\ y \in Nat /\ x <= 3 /\ IsFiniteSet(a)
      /\ a = {} <=> x = 0
      /\ b = {} <=> y = 0
  BY FS_CardinalityType, FS_EmptySet DEF Few
<1>2. i \in Nat /\ (i = 0 <=> a \cap b = {})
  <2>1. IsFiniteSet(a \cap b)
    BY <1>1, FS_Subset
  <2> QED  BY <2>1, FS_CardinalityType, FS_EmptySet
<1>3. a \cap b # {} => a # {} /\ b # {}
  OBVIOUS
<1>4. Conflict(a, b) <=> a # {} /\ b # {} /\ 10 * i >= 3 * Min({x, y})
  BY DEF Conflict
<1> HIDE DEF i, x, y
<1>5. Min({x, y}) \in {x, y} /\ Min({x, y}) <= x
  <2>1. \E u \in {x, y} : \A v \in {x, y} : u <= v
    BY <1>1
  <2> QED  BY <2>1 DEF Min
<1> DEFINE least == Min({x, y})
<1> HIDE DEF least
<1>6. least \in Nat /\ least <= 3 /\ (x # 0 /\ y # 0 => least # 0)
  BY <1>1, <1>5 DEF least
<1>7. CASE a \cap b = {}
  BY <1>1, <1>2, <1>4, <1>6, <1>7 DEF least
<1>8. CASE a \cap b # {}
  <2>1. 10 * i >= 3 * least
    BY <1>2, <1>6, <1>8
  <2> QED  BY <1>3, <1>4, <1>8, <2>1 DEF least
<1> QED  BY <1>7, <1>8

\* A child with few files that is accepted does not overlap with what runs, nor
\* with others like it that are accepted together.
LEMMA AcceptedDoNotOverlap ==
  ASSUME NEW k \in Nat, NEW rows, DOMAIN rows = 1 .. k,
         \A n \in 1 .. k : IsFiniteSet(rows[n].files) /\ rows[n].priority \in Nat,
         NEW schedule, NEW phase, NEW accepted \in Accepted(rows, schedule, phase),
         NEW n \in accepted, Few(rows[n].files)
  PROVE  /\ \A m \in accepted : n # m /\ Few(rows[m].files) =>
              rows[n].files \cap rows[m].files = {}
         /\ \A m \in Running(rows) : rows[n].files \cap rows[m].files = {}
<1>1. /\ accepted \subseteq 1 .. k
      /\ \A a \in accepted : a \in Free(rows, schedule, phase)
  BY DEF Accepted, Free, Candidates, With
<1>2. ASSUME NEW m \in Running(rows)
      PROVE  rows[n].files \cap rows[m].files = {}
  <2>1. ~Conflict(rows[n].files, rows[m].files)
    BY <1>1 DEF Free, Dispatchable
  <2>2. n \in 1 .. k /\ m \in 1 .. k
    BY <1>1 DEF Running, With
  <2> QED  BY <2>1, <2>2, NoConflictNoOverlap
<1>3. ASSUME NEW later \in accepted, Few(rows[later].files),
             NEW m \in accepted, Before(rows, m, later)
      PROVE  rows[later].files \cap rows[m].files = {}
  <2> DEFINE A == { a \in accepted : Before(rows, a, later) }
             F == { rows[a].files : a \in A }
             f == [ a \in A |-> rows[a].files ]
  <2>1. ~Conflict(rows[later].files, UNION F)
    BY <1>1 DEF Accepted
  <2>2. A \subseteq 1 .. k /\ m \in A
    BY <1>1, <1>3
  <2>3. IsFiniteSet(A)
    BY <2>2, FS_Interval, FS_Subset
  <2>4. f \in Surjection(A, F)
    BY DEF Surjection
  <2>5. IsFiniteSet(F)
    BY <2>3, <2>4, FS_Surjection
  <2>6. \A T \in F : IsFiniteSet(T)
    BY <2>2
  <2>7. rows[m].files \in F
    BY <2>2
  <2>8. IsFiniteSet(rows[later].files)
    BY <1>1
  <2> HIDE DEF F
  <2>9. IsFiniteSet(UNION F)
    BY <2>5, <2>6, FS_UNION
  <2>10. rows[later].files \cap UNION F = {}
    BY <1>3, <2>1, <2>8, <2>9, NoConflictNoOverlap
  <2> QED  BY <2>7, <2>10
<1>4. ASSUME NEW m \in accepted, n # m
      PROVE  Before(rows, m, n) \/ Before(rows, n, m)
  <2>1. n \in 1 .. k /\ m \in 1 .. k
    BY <1>1
  <2>2. rows[n].priority \in Nat /\ rows[m].priority \in Nat
    BY <2>1
  <2> QED  BY <1>4, <2>1, <2>2 DEF Before
<1>5. ASSUME NEW m \in accepted, n # m, Few(rows[m].files)
      PROVE  rows[n].files \cap rows[m].files = {}
  BY <1>3, <1>4, <1>5
<1> QED  BY <1>2, <1>5

\* No child becomes busy, and all keep their files.
Narrowed ==
  /\ DOMAIN subtasks' = DOMAIN subtasks /\ Busy' \subseteq Busy
  /\ \A n \in DOMAIN subtasks : subtasks'[n].files = subtasks[n].files

\* Then nothing overlaps that did not.
LEMMA NarrowedKeeps ==
  ASSUME PlanInv, FilesInv, Narrowed
  PROVE  FilesInv'
<1>1. Busy \subseteq DOMAIN subtasks
  BY DEF Busy, Assigned, PlanInv, TodoInv
<1> QED  BY <1>1 DEF FilesInv, Narrowed

\* The children stay, and the tick does not turn to others.
LEMMA SameChildrenNarrow ==
  ASSUME UNCHANGED subtasks,
         \/ UNCHANGED runs
         \/ tick'.pc \notin {"dispatch tests", "dispatch work"}
         \/ DOMAIN tick'.todo = {}
         \/ tick'.pc = tick.pc /\ DOMAIN tick'.todo \subseteq DOMAIN tick.todo
  PROVE  Narrowed
<1>1. Assigned' = Assigned
  BY DEF Assigned
<1>2. CASE UNCHANGED runs
  BY <1>1, <1>2 DEF Narrowed, Busy, tick
<1>3. CASE \/ tick'.pc \notin {"dispatch tests", "dispatch work"}
           \/ DOMAIN tick'.todo = {}
           \/ tick'.pc = tick.pc /\ DOMAIN tick'.todo \subseteq DOMAIN tick.todo
  BY <1>1, <1>3 DEF Narrowed, Busy
<1> QED  BY <1>2, <1>3

\* A child is written that loses its worker or was to get one.
LEMMA ChildNarrows ==
  ASSUME PlanInv, NEW n \in DOMAIN subtasks, NEW child,
         subtasks' = [subtasks EXCEPT ![n] = child],
         child.files = subtasks[n].files,
         child.assigned => n \in Busy,
         \/ tick' = tick
         \/ tick'.pc \notin {"dispatch tests", "dispatch work"}
         \/ tick'.pc = tick.pc /\ DOMAIN tick'.todo \subseteq DOMAIN tick.todo
  PROVE  Narrowed
<1>1. /\ DOMAIN subtasks' = DOMAIN subtasks
      /\ \A m \in DOMAIN subtasks :
           subtasks'[m] = IF m = n THEN child ELSE subtasks[m]
  BY DEF PlanInv, ChildrenInv
<1>2. Assigned' \subseteq Busy
  BY <1>1 DEF Assigned, Busy
<1> QED  BY <1>1, <1>2 DEF Narrowed, Busy

\* Children that are cancelled do not become busy.
LEMMA CancelNarrows ==
  ASSUME PlanInv, NEW written,
         subtasks' = CancelBlockedSiblings(subtasks, written), DOMAIN tick'.todo = {}
  PROVE  Narrowed
<1>1. DOMAIN subtasks' = DOMAIN subtasks
  BY DEF CancelBlockedSiblings
<1>2. ASSUME NEW n \in DOMAIN subtasks
      PROVE  /\ subtasks'[n].files = subtasks[n].files
             /\ subtasks'[n].assigned = subtasks[n].assigned
  <2>1. IsChild(subtasks[n])
    BY KnownChild
  <2>2. \/ subtasks'[n] = subtasks[n]
        \/ subtasks'[n] = [ subtasks[n] EXCEPT !.status = "cancelled",
                                               !.kind = "dependency_failure" ]
    BY DEF CancelBlockedSiblings
  <2> QED  BY <2>1, <2>2 DEF IsChild, ChildFields
<1> QED  BY <1>1, <1>2 DEF Narrowed, Busy, Assigned

\* What the tick does narrows, but for its schedule.
LEMMA TickNarrows ==
  ASSUME PlanInv, Steps("tick"), ~ScheduleTests("tick"), ~ScheduleWork
  PROVE  Narrowed
<1>1. /\ TickTyped
      /\ tick.pc \in {"dispatch tests", "dispatch work", "halt"} \/ DOMAIN tick.todo = {}
  BY DEF PlanInv, TodoInv
<1>2. Finish("tick") => tick'.pc = "idle"
  BY <1>1, TickMoves, AtRest
<1>3. ASSUME UNCHANGED subtasks, NEW pc, NEW row, IsRow(row),
             Continue("tick", pc, row), DOMAIN tick.todo = {}
      PROVE  Narrowed
  <2>1. tick'.todo = tick.todo
    BY <1>1, <1>3, TickMoves
  <2> QED  BY <1>3, <2>1, SameChildrenNarrow
<1>4. CASE UNCHANGED subtasks /\ Finish("tick")
  BY <1>2, <1>4, SameChildrenNarrow
<1>5. CASE UNCHANGED subtasks /\ (ClearPlan \/ EnsureBranch("tick"))
  <2>1. PICK row : /\ \/ row = [ tick.row EXCEPT !.plan = NoPlan ]
                      \/ row = [ tick.row EXCEPT !.branch = TRUE ]
                   /\ Continue("tick", tick.pc, row)
    BY <1>5 DEF ClearPlan, EnsureBranch, tick
  <2>2. IsRow(tick.row)
    BY DEF PlanInv, TickTyped, IsRun
  <2>3. IsRow(row)
    BY <2>1, <2>2 DEF IsRow, RowFields, NoPlan
  <2>4. DOMAIN tick.todo = {}
    BY <1>1, <1>5 DEF ClearPlan, EnsureBranch, tick
  <2> QED  BY <1>3, <1>5, <2>1, <2>3, <2>4
<1>6. ASSUME NEW status, NEW pc, BeginPhase(status, pc), UNCHANGED subtasks
      PROVE  Narrowed
  BY <1>1, <1>3, <1>6 DEF BeginPhase, Continue, PlanInv
<1>7. CASE /\ UNCHANGED subtasks
           /\ \/ ProcessBacklog \/ AskClarification \/ ProposePlan
              \/ BlockPlannerCapacity \/ DispatchPlanner
  BY <1>4, <1>7 DEF ProcessBacklog, AskClarification, ProposePlan,
     BlockPlannerCapacity, DispatchPlanner
<1>8. CASE AdvanceParent("tick")
  <2>1. DOMAIN tick.todo = {} /\ UNCHANGED subtasks /\ IsRow(task)
    BY <1>1, <1>8 DEF AdvanceParent, tick, PlanInv
  <2> QED  BY <1>3, <1>4, <1>8, <2>1 DEF AdvanceParent
<1>9. CASE JudgeTests("tick")
  <2>1. DOMAIN tick.todo = {} /\ UNCHANGED subtasks /\ IsRow(tick.row)
    BY <1>9 DEF JudgeTests, tick, PlanInv, TickTyped, IsRun
  <2> QED  BY <1>3, <1>4, <1>9, <2>1 DEF JudgeTests, tick
<1>10. CASE \/ ProposeTests("tick") \/ RecordDrain("tick") \/ FailParent("tick")
            \/ DeliverFeature("tick")
  BY <1>4, <1>10 DEF ProposeTests, RecordDrain, FailParent, DeliverFeature
<1>11. CASE JudgeFeature("tick")
  <2>1. DOMAIN tick.todo = {} /\ IsRow(tick.row)
    BY <1>11 DEF JudgeFeature, tick, PlanInv, TickTyped, IsRun
  <2>2. CASE UNCHANGED subtasks
    BY <1>3, <1>4, <1>11, <2>1, <2>2 DEF JudgeFeature, tick
  <2>3. CASE /\ subtasks' = CancelBlockedSiblings(subtasks, NotStarted(subtasks))
             /\ \E pc : Continue("tick", pc, tick.row)
    <3>1. DOMAIN tick'.todo = {}
      BY <1>1, <2>1, <2>3, TickMoves
    <3> QED  BY <2>3, <3>1, CancelNarrows
  <2> QED  BY <1>11, <2>2, <2>3 DEF JudgeFeature, tick
<1>12. ASSUME NEW n \in DOMAIN subtasks, NEW status, NEW b,
              subtasks' = [ subtasks EXCEPT ![n].status = status, ![n].assigned = b ],
              b => n \in Busy, n \in DOMAIN tick.todo,
              Dispatched("tick", n) \/ Finish("tick")
       PROVE  Narrowed
  <2> DEFINE child == [ subtasks[n] EXCEPT !.status = status, !.assigned = b ]
  <2>1. /\ subtasks' = [ subtasks EXCEPT ![n] = child ]
        /\ child.files = subtasks[n].files /\ (child.assigned => n \in Busy)
    <3>1. IsChild(subtasks[n])  BY KnownChild
    <3> QED  BY <1>12, <3>1 DEF IsChild, ChildFields
  <2> HIDE DEF child
  <2>2. \/ tick'.pc \notin {"dispatch tests", "dispatch work"}
        \/ tick'.pc = tick.pc /\ DOMAIN tick'.todo \subseteq DOMAIN tick.todo
    <3>1. CASE Dispatched("tick", n)
      BY <1>12, <3>1, TickDispatched DEF Restrict
    <3>2. CASE Finish("tick")
      BY <1>2, <3>2
    <3> QED  BY <1>12, <3>1, <3>2
  <2> QED  BY <2>1, <2>2, ChildNarrows
<1>13. ASSUME NEW n \in DOMAIN subtasks, StartWorker("tick", n)
       PROVE  Narrowed
  <2>1. /\ n \in DOMAIN tick.todo /\ n \in Busy /\ Dispatched("tick", n)
        /\ ~subtasks[n].assigned
    <3>1. /\ n \in DOMAIN tick.todo /\ Dispatched("tick", n)
          /\ tick.pc \in {"dispatch tests", "dispatch work"}
      BY <1>13 DEF StartWorker, Dispatching, tick
    <3> QED  BY <3>1 DEF PlanInv, TodoInv, Busy
  <2> DEFINE status == IF subtasks[n].status \in {"backlog", "failed"}
                          /\ Was("tick", n) # "in_progress"
                       THEN "in_progress" ELSE subtasks[n].status
  <2>2. subtasks' = [ subtasks EXCEPT ![n].status = status, ![n].assigned = TRUE ]
    BY <1>13, <2>1 DEF StartWorker
  <2> HIDE DEF status
  <2> QED  BY <1>12, <2>1, <2>2
<1>14. ASSUME NEW n \in DOMAIN subtasks, StopWorker(n)
       PROVE  Narrowed
  <2> DEFINE status == Was("tick", n)
             b == FALSE
  <2>1. /\ n \in DOMAIN tick.todo
        /\ Dispatched("tick", n) \/ Finish("tick")
        /\ subtasks' = [ subtasks EXCEPT ![n].status = status,
                                         ![n].assigned = b ]
        /\ b => n \in Busy
    BY <1>14 DEF StopWorker
  <2> HIDE DEF status, b
  <2> QED  BY <1>12, <2>1
<1>15. CASE FindWorkers
  <2>1. tick'.pc = "halt" /\ UNCHANGED subtasks
    BY <1>1, <1>15, TickMoves DEF FindWorkers
  <2> QED  BY <2>1, SameChildrenNarrow
<1> QED
  BY <1>5, <1>6, <1>7, <1>8, <1>9, <1>10, <1>11, <1>13, <1>14, <1>15
     DEF Steps, Proceeds, TickRuns, TickPlans

\* So does everything else, but for what a gate does.
LEMMA OthersNarrow ==
  ASSUME PlanInv, Goroutine = {"tick"},
         \/ ClaimRequest \/ PlannerAnswers \/ LoseRequest
         \/ OperatorPlans \/ Restart,
         UNCHANGED subtasks
  PROVE  Narrowed
<1>1. CASE UNCHANGED runs
  BY <1>1, SameChildrenNarrow
<1>2. CASE Restart
  <2>1. tick'.pc = "idle"
    BY <1>2, AtRest DEF Restart, tick
  <2> QED  BY <2>1, SameChildrenNarrow
<1> QED
  BY <1>1, <1>2 DEF ClaimRequest, PlannerAnswers, ReturnPlan, ReturnInvalidPlan,
     LoseRequest, OperatorPlans, RejectPlan, AcceptAssumptions, AnswerQuestions,
     PauseTask, ResumeTask

\* Neither do operators and faults make a child busy.
LEMMA FaultsNarrow ==
  ASSUME PlanInv, Goroutine = {"tick"},
         \/ Completes \/ Faults \/ ApproveTests \/ RetryTask
         \/ \E p \in DOMAIN Plans : RevisePlan(p)
         \/ \E n \in DOMAIN subtasks : RetrySubtask(n) \/ AdoptChild(n)
  PROVE  Narrowed
<1>1. ASSUME NEW n \in DOMAIN subtasks, NEW status, NEW b,
             subtasks' = [ subtasks EXCEPT ![n].status = status, ![n].assigned = b ],
             ~b,
             \/ tick' = tick
             \/ tick'.pc \notin {"dispatch tests", "dispatch work"}
             \/ tick'.pc = tick.pc /\ DOMAIN tick'.todo \subseteq DOMAIN tick.todo
      PROVE  Narrowed
  <2> DEFINE child == [ subtasks[n] EXCEPT !.status = status, !.assigned = b ]
  <2>1. /\ subtasks' = [ subtasks EXCEPT ![n] = child ]
        /\ child.files = subtasks[n].files /\ ~child.assigned
    <3>1. IsChild(subtasks[n])  BY KnownChild
    <3> QED  BY <1>1, <3>1 DEF IsChild, ChildFields
  <2> HIDE DEF child
  <2> QED  BY <1>1, <2>1, ChildNarrows
<1>2. CASE HoldBack("tick") \/ ApproveTests \/ RetryTask
             \/ \E p \in DOMAIN Plans : RevisePlan(p)
  <2>1. UNCHANGED subtasks /\ (UNCHANGED runs \/ tick'.pc = "idle")
    BY <1>2, TickMoves, AtRest DEF HoldBack, ApproveTests, RetryTask, RevisePlan,
       PlanInv
  <2> QED  BY <2>1, SameChildrenNarrow
<1>3. ASSUME NEW n \in DOMAIN subtasks, SpawnFails("tick", n)
      PROVE  Narrowed
  <2>1. /\ n \in DOMAIN tick.todo /\ Dispatched("tick", n) /\ UNCHANGED subtasks
    BY <1>3 DEF SpawnFails, Dispatching, tick
  <2>2. tick'.pc = tick.pc /\ DOMAIN tick'.todo \subseteq DOMAIN tick.todo
    BY <2>1, TickDispatched DEF Restrict
  <2> QED  BY <2>1, <2>2, SameChildrenNarrow
<1>4. ASSUME NEW n \in DOMAIN subtasks, ImageUnavailable("tick", n)
      PROVE  Narrowed
  <2>1. /\ n \in DOMAIN tick.todo /\ Dispatched("tick", n)
        /\ ~subtasks[n].assigned
        /\ \/ UNCHANGED subtasks
           \/ subtasks' = [ subtasks EXCEPT ![n].status = "failed" ]
    BY <1>4 DEF ImageUnavailable, Dispatching, tick
  <2>2. tick'.pc = tick.pc /\ DOMAIN tick'.todo \subseteq DOMAIN tick.todo
    BY <2>1, TickDispatched DEF Restrict
  <2>3. CASE UNCHANGED subtasks
    BY <2>2, <2>3, SameChildrenNarrow
  <2>4. CASE subtasks' = [ subtasks EXCEPT ![n].status = "failed" ]
    <3> DEFINE child == [ subtasks[n] EXCEPT !.status = "failed" ]
    <3>1. /\ subtasks' = [ subtasks EXCEPT ![n] = child ]
          /\ child.files = subtasks[n].files /\ ~child.assigned
      <4>1. IsChild(subtasks[n])  BY KnownChild
      <4> QED  BY <2>1, <2>4, <4>1 DEF IsChild, ChildFields
    <3> HIDE DEF child
    <3> QED  BY <2>2, <3>1, ChildNarrows
  <2> QED  BY <2>1, <2>3, <2>4
<1>5. ASSUME NEW n \in DOMAIN subtasks,
             \/ WorkDone("tick", n) \/ WorkFails("tick", n)
             \/ RetrySubtask(n) \/ AdoptChild(n)
      PROVE  Narrowed
  <2>1. PICK status : subtasks' = [ subtasks EXCEPT ![n].status = status,
                                                    ![n].assigned = FALSE ]
    BY <1>5 DEF WorkDone, WorkFails, RetrySubtask, AdoptChild
  <2>2. tick' = tick \/ tick'.pc = "completed"
    BY <1>5, TickMoves DEF WorkDone, WorkFails, RetrySubtask, AdoptChild, PlanInv,
       tick
  <2> DEFINE b == FALSE
  <2>3. subtasks' = [ subtasks EXCEPT ![n].status = status, ![n].assigned = b ] /\ ~b
    BY <2>1
  <2> HIDE DEF b
  <2> QED  BY <1>1, <2>2, <2>3
<1>6. ASSUME NEW n \in DOMAIN subtasks, WorkerLost("tick", n)
      PROVE  Narrowed
  <2> DEFINE child == [ subtasks[n] EXCEPT !.assigned = FALSE ]
  <2>1. /\ subtasks' = [ subtasks EXCEPT ![n] = child ]
        /\ child.files = subtasks[n].files /\ ~child.assigned
    <3>1. IsChild(subtasks[n])  BY KnownChild
    <3> QED  BY <1>6, <3>1 DEF IsChild, ChildFields, WorkerLost
  <2> HIDE DEF child
  <2>2. tick' = tick  BY <1>6 DEF WorkerLost, tick
  <2> QED  BY <2>1, <2>2, ChildNarrows
<1>7. CASE CancellationFails("tick")
  <2>1. /\ Finish("tick")
        /\ \E written : subtasks' = CancelBlockedSiblings(subtasks, written)
    BY <1>7 DEF CancellationFails
  <2>2. DOMAIN tick'.todo = {}
    BY <2>1, TickMoves, AtRest DEF PlanInv
  <2> QED  BY <2>1, <2>2, CancelNarrows
<1> QED
  BY <1>2, <1>3, <1>4, <1>5, <1>6, <1>7 DEF Completes, Faults

\* What the tick schedules overlaps neither with what runs nor with itself.
LEMMA ScheduleKeepsFiles ==
  ASSUME PlanInv, FilesInv, ScheduleTests("tick") \/ ScheduleWork
  PROVE  FilesInv'
<1> DEFINE k == Len(subtasks)
<1>1. PICK pc, next, phase :
        /\ \/ pc = "tests" /\ next = "dispatch tests" /\ phase = "test"
           \/ pc = "work" /\ next = "dispatch work" /\ phase = ""
        /\ Schedule("tick", pc, next, phase)
  BY DEF ScheduleTests, ScheduleWork
<1>2. PICK rows \in {RepairDependencies(subtasks)} :
      \E accepted \in Accepted(rows, task.ctx.schedule, phase) :
        /\ tick.pc = pc /\ subtasks' = rows
        /\ runs' = [ runs EXCEPT !["tick"].pc = next,
                                 !["tick"].todo = Noted(rows, accepted) ]
  BY <1>1 DEF Schedule, tick
<1>3. PICK accepted \in Accepted(subtasks', task.ctx.schedule, phase) :
        /\ tick.pc \in {"tests", "work"}
        /\ subtasks' = RepairDependencies(subtasks)
        /\ runs' = [ runs EXCEPT !["tick"].pc = next,
                                 !["tick"].todo = Noted(subtasks', accepted) ]
  BY <1>1, <1>2
<1>4. k \in Nat /\ DOMAIN subtasks = 1 .. k /\ DOMAIN subtasks' = 1 .. k
  BY <1>3 DEF PlanInv, ChildrenInv, RepairDependencies
<1>5. ASSUME NEW n \in 1 .. k
      PROVE  /\ IsChild(subtasks'[n])
             /\ \A f \in ChildFields \ {"deps"} : subtasks'[n][f] = subtasks[n][f]
  BY <1>3, <1>4, <1>5, RepairedChild DEF PlanInv, ChildrenInv
<1>6. \A n \in 1 .. k : /\ subtasks'[n].files = subtasks[n].files
                        /\ subtasks'[n].assigned = subtasks[n].assigned
                        /\ subtasks'[n].status = subtasks[n].status
                        /\ IsFiniteSet(subtasks'[n].files)
                        /\ subtasks'[n].priority \in Nat
  BY <1>4, <1>5 DEF ChildFields, FilesInv, IsChild
<1>7. \A n \in 1 .. k : subtasks[n].assigned => subtasks[n].status = "in_progress"
  BY <1>4 DEF PlanInv, ChildrenInv
<1>8. /\ Busy = Assigned /\ Assigned' = Assigned /\ Assigned \subseteq 1 .. k
      /\ Assigned' \subseteq Running(subtasks')
  <2>1. Busy = Assigned  BY <1>3 DEF Busy
  <2>2. Assigned' = Assigned /\ Assigned \subseteq 1 .. k
    BY <1>4, <1>6 DEF Assigned
  <2>3. Assigned' \subseteq Running(subtasks')
    BY <1>4, <1>6, <1>7 DEF Assigned, Running, With
  <2> QED  BY <2>1, <2>2, <2>3
<1> HIDE DEF k
<1>9. DOMAIN tick'.todo = accepted
  BY <1>3, TickMoves DEF PlanInv, Noted
<1>10. Busy' \subseteq Assigned' \cup accepted
  BY <1>9 DEF Busy
<1>11. \A n \in accepted : Few(subtasks'[n].files) =>
        /\ \A m \in accepted : n # m /\ Few(subtasks'[m].files) =>
             subtasks'[n].files \cap subtasks'[m].files = {}
        /\ \A m \in Assigned' : subtasks'[n].files \cap subtasks'[m].files = {}
  BY <1>4, <1>6, <1>8, AcceptedDoNotOverlap
<1>12. \A n, m \in Assigned' :
         n # m /\ Few(subtasks'[n].files) /\ Few(subtasks'[m].files) =>
           subtasks'[n].files \cap subtasks'[m].files = {}
  BY <1>6, <1>8 DEF FilesInv
<1> QED  BY <1>4, <1>6, <1>10, <1>11, <1>12 DEF FilesInv

\* The children of an approved plan have the files of its entries.
LEMMA ApprovalKeepsFiles ==
  ASSUME PlanInv, ApprovePlan
  PROVE  FilesInv'
<1> DEFINE entries == Plans[task.plan].entries
<1>1. /\ task.status = "plan_review" /\ task.plan \in DOMAIN Plans
      /\ subtasks' = Materialize(entries) /\ UNCHANGED runs /\ subtasks = <<>>
  <2>1. /\ task.status = "plan_review" /\ task.plan \in DOMAIN Plans
        /\ UNCHANGED runs /\ subtasks = <<>>
    BY DEF ApprovePlan, PlanInv, IsRow
  <2> QED  BY <2>1, ApprovedChildren
<1>2. \A e \in DOMAIN entries : IsFiniteSet(entries[e].files)
  BY <1>1, PlanningAssumption
<1> HIDE DEF entries
<1>3. /\ DOMAIN subtasks' = DOMAIN entries
      /\ \A n \in DOMAIN entries : /\ subtasks'[n].files = entries[n].files
                                   /\ ~subtasks'[n].assigned
  BY <1>1 DEF Materialize
<1>4. tick' = tick /\ DOMAIN tick.todo = {}
  <2>1. DOMAIN subtasks = {}
    BY <1>1
  <2>2. DOMAIN tick.todo = {}
    BY <2>1 DEF PlanInv, TodoInv
  <2> QED  BY <1>1, <2>2 DEF tick
<1>5. Busy' = {}
  BY <1>3, <1>4 DEF Busy, Assigned
<1> QED  BY <1>2, <1>3, <1>5 DEF FilesInv

\* A copy of a rejected test has its files.
LEMMA RejectionKeepsFiles ==
  ASSUME PlanInv, FilesInv, RejectTestReview
  PROVE  FilesInv'
<1>1. /\ task.status = "test_review" /\ UNCHANGED runs
      /\ \/ UNCHANGED subtasks
         \/ \E sources \in SetToSeqs(ReplacementSources(subtasks)) :
              \E round : subtasks' = RejectTests(subtasks, round, sources)
  BY DEF RejectTestReview
<1>2. CASE UNCHANGED subtasks
  BY <1>1, <1>2, SameChildrenNarrow, NarrowedKeeps
<1>3. ASSUME NEW sources \in SetToSeqs(ReplacementSources(subtasks)), NEW round,
             subtasks' = RejectTests(subtasks, round, sources)
      PROVE  FilesInv'
  <2> DEFINE k == Len(subtasks)
             Clone(n) == [ subtasks[n] EXCEPT !.rev = round, !.status = "backlog",
                                              !.assigned = FALSE ]
             kept == [ n \in DOMAIN subtasks |->
                         IF subtasks[n].phase = "test" /\ subtasks[n].status = "done"
                         THEN [ subtasks[n] EXCEPT !.status = "rejected" ]
                         ELSE subtasks[n] ]
             clones == [ i \in DOMAIN sources |-> Clone(sources[i]) ]
             S == ReplacementSources(subtasks)
  <2>1. /\ k \in Nat /\ DOMAIN subtasks = 1 .. k
        /\ \A n \in 1 .. k : /\ IsChild(subtasks[n]) /\ IsFiniteSet(subtasks[n].files)
                             /\ ~subtasks[n].assigned
    BY <1>1 DEF PlanInv, ChildrenInv, StageInv, Stage, NoneAssigned, FilesInv
  <2>2. subtasks' = kept \o clones
    BY <1>3 DEF RejectTests
  <2> HIDE DEF k
  <2>3. S \subseteq 1 .. k /\ IsFiniteSet(S)
    BY <2>1, SourcesOfTests
  <2> HIDE DEF S
  <2>4. PICK c \in Nat : /\ DOMAIN sources = 1 .. c
                         /\ \A i \in 1 .. c : sources[i] \in S
    BY <1>3, <2>3, AllAreListed DEF S
  <2>5. ASSUME NEW n \in 1 .. k
        PROVE  IsFiniteSet(kept[n].files) /\ ~kept[n].assigned
    <3>1. kept[n] = IF subtasks[n].phase = "test" /\ subtasks[n].status = "done"
                    THEN [ subtasks[n] EXCEPT !.status = "rejected" ]
                    ELSE subtasks[n]
      BY <2>1
    <3> HIDE DEF kept
    <3>2. IsChild(subtasks[n]) /\ IsFiniteSet(subtasks[n].files) /\ ~subtasks[n].assigned
      BY <2>1
    <3>3. kept[n].files = subtasks[n].files /\ ~kept[n].assigned
      BY <3>1, <3>2 DEF IsChild, ChildFields
    <3> QED  BY <3>2, <3>3
  <2>6. ASSUME NEW i \in 1 .. c
        PROVE  IsFiniteSet(clones[i].files) /\ ~clones[i].assigned
    <3>1. clones[i] = [ subtasks[sources[i]] EXCEPT !.rev = round,
                              !.status = "backlog", !.assigned = FALSE ]
      BY <2>4
    <3> HIDE DEF clones, Clone
    <3>2. IsChild(subtasks[sources[i]]) /\ IsFiniteSet(subtasks[sources[i]].files)
      BY <2>1, <2>3, <2>4
    <3>3. clones[i].files = subtasks[sources[i]].files /\ ~clones[i].assigned
      BY <3>1, <3>2 DEF IsChild, ChildFields
    <3> QED  BY <3>2, <3>3
  <2>7. kept = [n \in 1 .. k |-> kept[n]] /\ clones = [i \in 1 .. c |-> clones[i]]
    BY <2>1, <2>4
  <2> HIDE DEF kept, clones, Clone
  <2>8. subtasks' = [n \in 1 .. (k + c) |-> IF n <= k THEN kept[n] ELSE clones[n - k]]
    BY <2>1, <2>2, <2>7, OneAfterAnother
  <2>9. \A n \in DOMAIN subtasks' : IsFiniteSet(subtasks'[n].files) /\ ~subtasks'[n].assigned
    BY <2>1, <2>5, <2>6, <2>8
  <2>10. tick' = tick /\ Busy' \subseteq DOMAIN tick.todo
    BY <1>1, <2>9 DEF tick, Busy, Assigned
  <2>11. tick.pc \notin {"dispatch tests", "dispatch work"}
    BY <1>1 DEF PlanInv, RowInv, Stage, TestPC, WorkPC
  <2>12. Busy' = {}
    BY <2>9, <2>10, <2>11 DEF Busy, Assigned
  <2> QED  BY <2>9, <2>12 DEF FilesInv
<1> QED  BY <1>1, <1>2, <1>3

\* No two workers run that write the same file and have few, as implementations
\* do, whatever the others have, dispatched together or in turn.
THEOREM FilesAreNotShared ==
  ASSUME ~EventStream
  PROVE  Spec => []FilesAreExclusive
<1>1. Init => FilesInv
  <2>1. SUFFICES ASSUME Init  PROVE FilesInv
    OBVIOUS
  <2>2. DOMAIN subtasks = {}
    BY <2>1 DEF Init
  <2>3. Busy = {}
    BY <2>1, <2>2, PlanStart DEF Busy, Assigned, PlanInv, TodoInv
  <2> QED  BY <2>2, <2>3 DEF FilesInv
<1>2. PlanInv /\ FilesInv /\ [Next]_vars => FilesInv'
  <2>1. SUFFICES ASSUME PlanInv, FilesInv, [Next]_vars
                 PROVE  FilesInv'
    OBVIOUS
  <2>2. Goroutine = {"tick"}
    BY <2>1 DEF PlanInv, TickTyped
  <2>3. CASE Steps("tick")
    BY <2>1, <2>3, ScheduleKeepsFiles, TickNarrows, NarrowedKeeps
  <2>4. CASE \/ (ClaimRequest \/ PlannerAnswers \/ LoseRequest \/ OperatorPlans
                   \/ Restart) /\ UNCHANGED subtasks
             \/ Completes \/ Faults \/ ApproveTests \/ RetryTask
             \/ \E p \in DOMAIN Plans : RevisePlan(p)
             \/ \E n \in DOMAIN subtasks : RetrySubtask(n) \/ AdoptChild(n)
    BY <2>1, <2>2, <2>4, OthersNarrow, FaultsNarrow, NarrowedKeeps
  <2>5. CASE ApprovePlan
    BY <2>1, <2>5, ApprovalKeepsFiles
  <2>6. CASE RejectTestReview
    BY <2>1, <2>6, RejectionKeepsFiles
  <2>7. CASE UNCHANGED vars
    BY <2>1, <2>7, SameChildrenNarrow, NarrowedKeeps DEF vars
  <2> QED
    BY <2>1, <2>2, <2>3, <2>4, <2>5, <2>6, <2>7 DEF Next, Operators
<1>3. PlanInv /\ FilesInv => FilesAreExclusive
  <2>1. SUFFICES ASSUME PlanInv, FilesInv,
                        NEW n \in DOMAIN subtasks, NEW m \in DOMAIN subtasks,
                        n # m, subtasks[n].assigned, subtasks[m].assigned,
                        Few(subtasks[n].files), Few(subtasks[m].files)
                 PROVE  subtasks[n].files \cap subtasks[m].files = {}
    BY DEF FilesAreExclusive
  <2> QED  BY <2>1 DEF FilesInv, Busy, Assigned
<1> QED  BY <1>1, <1>2, <1>3, PlanInvariant, PTL DEF Spec

=============================================================================
