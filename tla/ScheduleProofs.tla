--------------------------- MODULE ScheduleProofs ---------------------------
(***************************************************************************)
(* The row, the plan and the schedule of a task in PlanExecution, with     *)
(* container events (EventStream = TRUE) or without, for any plans, any    *)
(* number of children, faults and requests of operators.                   *)
(*                                                                         *)
(* The argument: a Save compares nothing, so a row that is still going to  *)
(* be saved has to agree with the task's in what must not be lost.  Before *)
(* the approval only the tick and the planner hold rows, and none of them  *)
(* is held across it; after it neither the plan nor the schedule changes,  *)
(* so that whichever row is written last has them.  The children keep what *)
(* the schedule was computed from, and a repair makes a child wait only    *)
(* for a test it waits for anyway, or for a newer copy.                    *)
(***************************************************************************)
EXTENDS PlanProofs

-----------------------------------------------------------------------------
(* Types                                                                     *)

\* What a goroutine may have noted of these children.
Todo(S) == UNION { [ T -> SubtaskStatus ] : T \in SUBSET S }

Run(S) == [ pc : RunPc, row : Row, todo : Todo(S), locked : BOOLEAN ]

Typed ==
  /\ task \in Row
  /\ runs \in [ Goroutine -> Run(DOMAIN subtasks) ]
  /\ planner \in [ pc : {"idle", "claim", "asked"}, row : Row ]
  /\ used \in [ operations : 0 .. MaxOperations, faults : 0 .. MaxFaults ]
  /\ subtasks \in Seq(Subtask)
  /\ \A n \in DOMAIN subtasks : ToSet(subtasks[n].deps) \subseteq DOMAIN subtasks

-----------------------------------------------------------------------------
(* Before and after the approval                                             *)

\* There is a schedule only with children, and there are children only once the
\* plan was approved.
LifeInv ==
  /\ subtasks = <<>> => task.ctx.schedule = <<>>
  /\ Stage \in (IF subtasks = <<>> THEN BeforeApproval ELSE AfterApproval)
                 \cup {"failed"}

\* A row that has the schedule of the task and, after the approval, its plan.
Agrees(row) ==
  /\ row.ctx.schedule = task.ctx.schedule
  /\ subtasks # <<>> => row.plan = task.plan

\* No row that is held across the approval is ever written.
GoroutineInv(g) ==
  /\ runs[g].pc \in PlanPC =>
       /\ g = "tick" /\ subtasks = <<>> /\ Agrees(runs[g].row)
       /\ runs[g].row.status = runs[g].pc
       /\ Stage \in {"backlog", "planning", "failed"}
  /\ runs[g].pc = "planning" =>
       \/ runs[g].row.version < task.version
       \/ runs[g].row.version = task.version /\ task.status = "planning"
  /\ runs[g].pc \in TestPC \cup WorkPC \cup {"stop"} =>
       /\ subtasks # <<>> /\ Agrees(runs[g].row)
       /\ runs[g].row.status \in {"test_writing", "in_progress"}

AskedInv ==
  planner.pc # "idle" =>
    /\ planner.row.status = "planning"
    /\ subtasks = <<>> => Agrees(planner.row)

\* The first children are the rows of the plan, but for what happens to them; a
\* repair may put only a later child among the dependencies of one of them, or
\* one it waits for anyway.
FollowsPlan ==
  /\ task.plan \in DOMAIN Plans
  /\ task.ctx.schedule \in Schedules[task.plan]
  /\ DOMAIN Children[task.plan] \subseteq DOMAIN subtasks
  /\ \A n \in DOMAIN Children[task.plan] :
       /\ subtasks[n].phase = Children[task.plan][n].phase
       /\ subtasks[n].testsFor = Children[task.plan][n].testsFor
       /\ subtasks[n].files = Children[task.plan][n].files
       /\ ToSet(subtasks[n].deps) \cap DOMAIN Children[task.plan]
            \subseteq ToSet(Children[task.plan][n].deps)

SharedInv ==
  /\ Typed /\ LifeInv /\ AskedInv
  /\ \A g \in Goroutine : GoroutineInv(g)
  /\ subtasks # <<>> => FollowsPlan

-----------------------------------------------------------------------------
(* Rows that are written                                                     *)

\* The columns of a row have their types.
LEMMA Columns ==
  ASSUME NEW row \in Row
  PROVE  /\ row.status \in PlanningStatus /\ row.version \in Nat
         /\ row.plan \in DOMAIN Plans \cup {NoPlan} /\ row.ctx \in Context
         /\ row = [ status |-> row.status, version |-> row.version,
                    plan |-> row.plan, feedback |-> row.feedback,
                    branch |-> row.branch, ctx |-> row.ctx ]
         /\ row.feedback \in BOOLEAN /\ row.branch \in BOOLEAN
BY DEF Row

\* A context keeps its type when a part of it is written.
LEMMA ContextWritten ==
  ASSUME NEW ctx \in Context
  PROVE  /\ [ ctx EXCEPT !.spawns = @ + 1 ] \in Context
         /\ [ ctx EXCEPT !.spawns = @ + 1 ].schedule = ctx.schedule
         /\ [ ctx EXCEPT !.failures = @ + 1 ] \in Context
         /\ [ ctx EXCEPT !.failures = @ + 1 ].schedule = ctx.schedule
         /\ [ ctx EXCEPT !.rounds = @ + 1 ] \in Context
         /\ [ ctx EXCEPT !.rounds = @ + 1 ].schedule = ctx.schedule
         /\ ctx.rejections + 1 \in Nat
         /\ \A i \in Nat : /\ [ ctx EXCEPT !.rejections = i ] \in Context
                           /\ [ ctx EXCEPT !.rejections = i ].schedule = ctx.schedule
         /\ \A s \in Seq(Nat) : /\ [ ctx EXCEPT !.schedule = s ] \in Context
                                /\ [ ctx EXCEPT !.schedule = s ].schedule = s
         /\ \A from \in PlanningStatus :
              /\ [ ctx EXCEPT !.pausedFrom = from ] \in Context
              /\ [ ctx EXCEPT !.pausedFrom = from ].schedule = ctx.schedule
              /\ [ ctx EXCEPT !.pausedFrom = from ].pausedFrom = from
<1> DEFINE spawns == ctx.spawns + 1
           failures == ctx.failures + 1
           rounds == ctx.rounds + 1
<1>1. /\ spawns \in Nat /\ failures \in Nat /\ rounds \in Nat
      /\ ctx.rejections + 1 \in Nat
  BY DEF Context
<1> HIDE DEF spawns, failures, rounds
<1>2. /\ [ ctx EXCEPT !.spawns = spawns ] \in Context
      /\ [ ctx EXCEPT !.spawns = spawns ].schedule = ctx.schedule
      /\ [ ctx EXCEPT !.failures = failures ] \in Context
      /\ [ ctx EXCEPT !.failures = failures ].schedule = ctx.schedule
      /\ [ ctx EXCEPT !.rounds = rounds ] \in Context
      /\ [ ctx EXCEPT !.rounds = rounds ].schedule = ctx.schedule
  BY <1>1 DEF Context
<1>3. \A i \in Nat : /\ [ ctx EXCEPT !.rejections = i ] \in Context
                    /\ [ ctx EXCEPT !.rejections = i ].schedule = ctx.schedule
  BY DEF Context
<1>4. \A s \in Seq(Nat) : /\ [ ctx EXCEPT !.schedule = s ] \in Context
                         /\ [ ctx EXCEPT !.schedule = s ].schedule = s
  BY DEF Context
<1>5. \A from \in PlanningStatus :
        /\ [ ctx EXCEPT !.pausedFrom = from ] \in Context
        /\ [ ctx EXCEPT !.pausedFrom = from ].schedule = ctx.schedule
        /\ [ ctx EXCEPT !.pausedFrom = from ].pausedFrom = from
  BY DEF Context
<1> QED  BY <1>1, <1>2, <1>3, <1>4, <1>5 DEF spawns, failures, rounds

-----------------------------------------------------------------------------
(* Goroutines that move                                                      *)

\* Only one goroutine moves.
Moves(g, S) ==
  /\ runs' \in [ Goroutine -> Run(S) ]
  /\ \A h \in Goroutine \ {g} : runs'[h] = runs[h]

\* There is a type for a goroutine without anything to do.
LEMMA RestingRun ==
  ASSUME NEW S
  PROVE  NewRow \in Row /\ RunAtRest \in Run(S) /\ RunAtRest.pc = "idle"
<1>1. NewRow \in Row
  <2>1. <<>> \in Seq(Nat)  OBVIOUS
  <2> QED  BY <2>1 DEF NewRow, Row, Context, PlanningStatus
<1>2. <<>> \in Todo(S)
  <2>1. <<>> \in [ {} -> SubtaskStatus ]  OBVIOUS
  <2> QED  BY <2>1 DEF Todo
<1> QED  BY <1>1, <1>2 DEF RunAtRest, Run, RunPc

\* It rests, goes on with a row, or changes what it has noted.
LEMMA GoroutineMoves ==
  ASSUME NEW S, runs \in [ Goroutine -> Run(S) ], NEW g \in Goroutine
  PROVE  /\ Finish(g) => Moves(g, S) /\ runs'[g].pc = "idle"
         /\ \A pc \in RunPc, row \in Row : Continue(g, pc, row) =>
              Moves(g, S) /\ runs'[g].pc = pc /\ runs'[g].row = row
         /\ \A pc \in RunPc, todo \in Todo(S) :
              runs' = [ runs EXCEPT ![g].pc = pc, ![g].todo = todo ] =>
                Moves(g, S) /\ runs'[g].pc = pc /\ runs'[g].row = runs[g].row
         /\ \A pc \in RunPc, locked \in BOOLEAN :
              runs' = [ runs EXCEPT ![g].pc = pc, ![g].locked = locked ] =>
                Moves(g, S) /\ runs'[g].pc = pc /\ runs'[g].row = runs[g].row
         /\ \A todo \in Todo(S) :
              runs' = [ runs EXCEPT ![g].todo = todo ] =>
                /\ Moves(g, S)
                /\ runs'[g].pc = runs[g].pc /\ runs'[g].row = runs[g].row
<1> DEFINE run == runs[g]
<1>1. run \in Run(S) /\ DOMAIN runs = Goroutine
  OBVIOUS
<1>2. ASSUME NEW new \in Run(S), runs' = [ runs EXCEPT ![g] = new ]
      PROVE  Moves(g, S) /\ runs'[g] = new
  BY <1>2 DEF Moves
<1>3. RunAtRest \in Run(S) /\ RunAtRest.pc = "idle"
  BY RestingRun
<1>4. Finish(g) => Moves(g, S) /\ runs'[g].pc = "idle"
  BY <1>2, <1>3 DEF Finish
<1>5. ASSUME NEW pc \in RunPc, NEW row \in Row, Continue(g, pc, row)
      PROVE  Moves(g, S) /\ runs'[g].pc = pc /\ runs'[g].row = row
  <2> DEFINE new == [ run EXCEPT !.pc = pc, !.row = row ]
  <2>1. new \in Run(S) /\ new.pc = pc /\ new.row = row
    BY <1>1 DEF Run
  <2>2. runs' = [ runs EXCEPT ![g] = new ]
    BY <1>5 DEF Continue
  <2> HIDE DEF new
  <2> QED  BY <1>2, <2>1, <2>2
<1>6. ASSUME NEW pc \in RunPc, NEW todo \in Todo(S),
             runs' = [ runs EXCEPT ![g].pc = pc, ![g].todo = todo ]
      PROVE  Moves(g, S) /\ runs'[g].pc = pc /\ runs'[g].row = run.row
  <2> DEFINE new == [ run EXCEPT !.pc = pc, !.todo = todo ]
  <2>1. new \in Run(S) /\ new.pc = pc /\ new.row = run.row
    BY <1>1 DEF Run
  <2>2. runs' = [ runs EXCEPT ![g] = new ]
    BY <1>6
  <2> HIDE DEF new
  <2> QED  BY <1>2, <2>1, <2>2
<1>7. ASSUME NEW pc \in RunPc, NEW locked \in BOOLEAN,
             runs' = [ runs EXCEPT ![g].pc = pc, ![g].locked = locked ]
      PROVE  Moves(g, S) /\ runs'[g].pc = pc /\ runs'[g].row = run.row
  <2> DEFINE new == [ run EXCEPT !.pc = pc, !.locked = locked ]
  <2>1. new \in Run(S) /\ new.pc = pc /\ new.row = run.row
    BY <1>1 DEF Run
  <2>2. runs' = [ runs EXCEPT ![g] = new ]
    BY <1>7
  <2> HIDE DEF new
  <2> QED  BY <1>2, <2>1, <2>2
<1>8. ASSUME NEW todo \in Todo(S), runs' = [ runs EXCEPT ![g].todo = todo ]
      PROVE  Moves(g, S) /\ runs'[g].pc = run.pc /\ runs'[g].row = run.row
  <2> DEFINE new == [ run EXCEPT !.todo = todo ]
  <2>1. new \in Run(S) /\ new.pc = run.pc /\ new.row = run.row
    BY <1>1 DEF Run
  <2>2. runs' = [ runs EXCEPT ![g] = new ]
    BY <1>8
  <2> HIDE DEF new
  <2> QED  BY <1>2, <2>1, <2>2
<1> QED  BY <1>4, <1>5, <1>6, <1>7, <1>8

\* What is left when one of the children noted is dealt with.
LEMMA LessToNote ==
  ASSUME NEW S, NEW todo \in Todo(S), NEW n
  PROVE  Restrict(todo, DOMAIN todo \ {n}) \in Todo(S)
<1>1. PICK T \in SUBSET S : todo \in [ T -> SubtaskStatus ]
  BY DEF Todo
<1>2. Restrict(todo, DOMAIN todo \ {n}) \in [ T \ {n} -> SubtaskStatus ]
  BY <1>1 DEF Restrict
<1>3. T \ {n} \in SUBSET S
  BY <1>1
<1> HIDE DEF SubtaskStatus
<1> QED  BY <1>2, <1>3 DEF Todo

\* What was noted of some children stands when there are more.
LEMMA MoreToNote ==
  ASSUME NEW S, NEW T, S \subseteq T
  PROVE  Run(S) \subseteq Run(T)
<1>1. Todo(S) \subseteq Todo(T)
  BY DEF Todo
<1> QED  BY <1>1 DEF Run

-----------------------------------------------------------------------------
(* A step in general                                                         *)

\* The tick waits with a row for which there is no plan yet.
TickHolds ==
  /\ tick.pc \in PlanPC
  /\ tick'.pc = tick.pc /\ tick'.row = tick.row

\* The plan of a task that is not in planning stays or comes with a version.
SamePlan ==
  task.status # "planning" /\ task'.version = task.version => task'.plan = task.plan

\* The row is written in the same part of the task's life.
RowStep ==
  /\ task' \in Row /\ LifeInv' /\ SamePlan
  /\ subtasks' = <<>> <=> subtasks = <<>>
  /\ task'.ctx.schedule = task.ctx.schedule
  /\ subtasks # <<>> => task'.plan = task.plan
  /\ TickHolds =>
       /\ Stage' \in {"backlog", "planning", "failed"}
       /\ \/ task'.version > task.version
          \/ task'.version = task.version /\ task'.status = task.status

\* Goroutines that do not move, and such as rest, keep theirs.
LEMMA GoroutinesKeep ==
  ASSUME SharedInv, RowStep, NEW S, NEW g \in Goroutine, Moves(g, S),
         \/ runs'[g].pc = runs[g].pc /\ runs'[g].row = runs[g].row
         \/ runs'[g].pc \in {"idle", "completed", "halt"}
         \/ GoroutineInv(g)'
  PROVE  \A h \in Goroutine : GoroutineInv(h)'
<1>1. task.version \in Nat /\ task'.version \in Nat
  BY Columns DEF SharedInv, Typed, RowStep
<1>2. ASSUME NEW h \in Goroutine,
             runs'[h].pc = runs[h].pc /\ runs'[h].row = runs[h].row
      PROVE  GoroutineInv(h)'
  <2>1. GoroutineInv(h) /\ runs[h].row.version \in Nat
    <3>1. runs[h].row \in Row
      BY DEF SharedInv, Typed, Run
    <3> QED  BY <3>1, Columns DEF SharedInv
  <2>2. runs[h].pc \in PlanPC => TickHolds
    BY <1>2, <2>1 DEF GoroutineInv, tick, TickHolds
  <2>3. runs[h].pc = "planning" =>
          \/ runs[h].row.version < task'.version
          \/ runs[h].row.version = task'.version /\ task'.status = "planning"
    BY <1>1, <2>1, <2>2 DEF GoroutineInv, RowStep, PlanPC
  <2> QED
    BY <1>2, <2>1, <2>2, <2>3 DEF GoroutineInv, RowStep, Agrees
<1>3. ASSUME NEW h \in Goroutine, runs'[h].pc \in {"idle", "completed", "halt"}
      PROVE  GoroutineInv(h)'
  BY <1>3 DEF GoroutineInv, PlanPC, TestPC, WorkPC
<1> QED  BY <1>2, <1>3 DEF Moves

\* The children have the same work to do, and wait for nothing more of the plan.
SameWork ==
  /\ subtasks' \in Seq(Subtask) /\ DOMAIN subtasks' = DOMAIN subtasks
  /\ \A n \in DOMAIN subtasks :
       /\ subtasks'[n].phase = subtasks[n].phase
       /\ subtasks'[n].testsFor = subtasks[n].testsFor
       /\ subtasks'[n].files = subtasks[n].files
       /\ ToSet(subtasks'[n].deps) \subseteq DOMAIN subtasks
       /\ n \in DOMAIN Children[task.plan] =>
            ToSet(subtasks'[n].deps) \cap DOMAIN Children[task.plan]
              \subseteq ToSet(Children[task.plan][n].deps)

\* They do when their work is not written at all,
LEMMA WorkKept ==
  ASSUME SharedInv, subtasks' \in Seq(Subtask), DOMAIN subtasks' = DOMAIN subtasks,
         \A n \in DOMAIN subtasks :
           /\ subtasks'[n].phase = subtasks[n].phase
           /\ subtasks'[n].testsFor = subtasks[n].testsFor
           /\ subtasks'[n].files = subtasks[n].files
           /\ subtasks'[n].deps = subtasks[n].deps
  PROVE  SameWork
<1>1. \A n \in DOMAIN subtasks : subtasks # <<>>
  OBVIOUS
<1>2. \A n \in DOMAIN subtasks :
        /\ ToSet(subtasks[n].deps) \subseteq DOMAIN subtasks
        /\ n \in DOMAIN Children[task.plan] =>
             ToSet(subtasks[n].deps) \cap DOMAIN Children[task.plan]
               \subseteq ToSet(Children[task.plan][n].deps)
  BY <1>1 DEF SharedInv, Typed, FollowsPlan
<1> QED  BY <1>2 DEF SameWork

\* as when nothing is written, or one row but for its work.
LEMMA ChildrenWritten ==
  ASSUME SharedInv
  PROVE  /\ UNCHANGED subtasks => SameWork
         /\ \A n \in DOMAIN subtasks, status \in SubtaskStatus, assigned \in BOOLEAN :
              subtasks' = [ subtasks EXCEPT ![n].status = status,
                                            ![n].assigned = assigned ] => SameWork
         /\ \A n \in DOMAIN subtasks, status \in SubtaskStatus :
              subtasks' = [ subtasks EXCEPT ![n].status = status ] => SameWork
         /\ \A n \in DOMAIN subtasks, assigned \in BOOLEAN :
              subtasks' = [ subtasks EXCEPT ![n].assigned = assigned ] => SameWork
<1>1. subtasks \in Seq(Subtask)
  BY DEF SharedInv, Typed
<1>2. UNCHANGED subtasks => SameWork
  BY <1>1, WorkKept
<1>3. ASSUME NEW n \in DOMAIN subtasks, NEW child \in Subtask,
             subtasks' = [ subtasks EXCEPT ![n] = child ],
             child.phase = subtasks[n].phase, child.testsFor = subtasks[n].testsFor,
             child.files = subtasks[n].files, child.deps = subtasks[n].deps
      PROVE  SameWork
  <2>1. subtasks' \in Seq(Subtask)
    BY <1>1, <1>3, ExceptSeq
  <2>2. \A m \in DOMAIN subtasks :
          /\ subtasks'[m].phase = subtasks[m].phase
          /\ subtasks'[m].testsFor = subtasks[m].testsFor
          /\ subtasks'[m].files = subtasks[m].files
          /\ subtasks'[m].deps = subtasks[m].deps
    BY <1>3
  <2>3. DOMAIN subtasks' = DOMAIN subtasks
    BY <1>3
  <2> QED  BY <2>1, <2>2, <2>3, WorkKept
<1>4. \A n \in DOMAIN subtasks : subtasks[n] \in Subtask
  BY <1>1
<1>5. ASSUME NEW n \in DOMAIN subtasks, NEW status \in SubtaskStatus,
             NEW assigned \in BOOLEAN,
             subtasks' = [ subtasks EXCEPT ![n].status = status,
                                           ![n].assigned = assigned ]
      PROVE  SameWork
  <2> DEFINE child == [ subtasks[n] EXCEPT !.status = status, !.assigned = assigned ]
  <2>1. /\ child \in Subtask /\ child.phase = subtasks[n].phase
        /\ child.testsFor = subtasks[n].testsFor
        /\ child.files = subtasks[n].files /\ child.deps = subtasks[n].deps
    BY <1>4 DEF Subtask
  <2>2. subtasks' = [ subtasks EXCEPT ![n] = child ]
    BY <1>5
  <2> HIDE DEF child
  <2> QED  BY <1>3, <2>1, <2>2
<1>6. ASSUME NEW n \in DOMAIN subtasks, NEW status \in SubtaskStatus,
             subtasks' = [ subtasks EXCEPT ![n].status = status ]
      PROVE  SameWork
  <2> DEFINE child == [ subtasks[n] EXCEPT !.status = status ]
  <2>1. /\ child \in Subtask /\ child.phase = subtasks[n].phase
        /\ child.testsFor = subtasks[n].testsFor
        /\ child.files = subtasks[n].files /\ child.deps = subtasks[n].deps
    BY <1>4 DEF Subtask
  <2>2. subtasks' = [ subtasks EXCEPT ![n] = child ]
    BY <1>6
  <2> HIDE DEF child
  <2> QED  BY <1>3, <2>1, <2>2
<1>7. ASSUME NEW n \in DOMAIN subtasks, NEW assigned \in BOOLEAN,
             subtasks' = [ subtasks EXCEPT ![n].assigned = assigned ]
      PROVE  SameWork
  <2> DEFINE child == [ subtasks[n] EXCEPT !.assigned = assigned ]
  <2>1. /\ child \in Subtask /\ child.phase = subtasks[n].phase
        /\ child.testsFor = subtasks[n].testsFor
        /\ child.files = subtasks[n].files /\ child.deps = subtasks[n].deps
    BY <1>4 DEF Subtask
  <2>2. subtasks' = [ subtasks EXCEPT ![n] = child ]
    BY <1>7
  <2> HIDE DEF child
  <2> QED  BY <1>3, <2>1, <2>2
<1> QED  BY <1>2, <1>5, <1>6, <1>7

\* There are children as before.
LEMMA AsManyChildren ==
  ASSUME SharedInv, SameWork
  PROVE  subtasks' = <<>> <=> subtasks = <<>>
<1>1. subtasks \in Seq(Subtask) /\ subtasks' \in Seq(Subtask)
  BY DEF SharedInv, Typed, SameWork
<1>2. \A s \in Seq(Subtask) : s = <<>> <=> DOMAIN s = {}
  BY EmptySeq, LenProperties
<1> QED  BY <1>1, <1>2 DEF SameWork

\* The planner has a row of the right kind.
PlannerStep ==
  planner' \in [ pc : {"idle", "claim", "asked"}, row : Row ] /\ AskedInv'

\* Whatever is written in the same part of the task's life,
LEMMA WriteKeeps ==
  ASSUME SharedInv, RowStep, SameWork, UNCHANGED planner \/ PlannerStep,
         Operate \/ Fault \/ UNCHANGED used,
         runs' \in [ Goroutine -> Run(DOMAIN subtasks) ],
         \A g \in Goroutine : GoroutineInv(g)'
  PROVE  SharedInv' /\ SamePlan
<1>1. used' \in [ operations : 0 .. MaxOperations, faults : 0 .. MaxFaults ]
  <2> DEFINE operations == used.operations + 1
             faults == used.faults + 1
  <2>1. /\ used \in [ operations : 0 .. MaxOperations, faults : 0 .. MaxFaults ]
        /\ MaxOperations \in Nat /\ MaxFaults \in Nat
    BY PlanningAssumption DEF SharedInv, Typed
  <2>2. CASE Operate
    <3>1. /\ operations \in 0 .. MaxOperations
          /\ used' = [ used EXCEPT !.operations = operations ]
      BY <2>1, <2>2 DEF Operate
    <3> HIDE DEF operations
    <3> QED  BY <2>1, <3>1
  <2>3. CASE Fault
    <3>1. /\ faults \in 0 .. MaxFaults
          /\ used' = [ used EXCEPT !.faults = faults ]
      BY <2>1, <2>3 DEF Fault
    <3> HIDE DEF faults
    <3> QED  BY <2>1, <3>1
  <2> QED  BY <2>1, <2>2, <2>3
<1>2. \A n \in DOMAIN subtasks' : ToSet(subtasks'[n].deps) \subseteq DOMAIN subtasks'
  BY DEF SharedInv, Typed, SameWork
<1>3. Typed'
  <2>1. runs' \in [ Goroutine -> Run(DOMAIN subtasks') ]
    BY DEF SameWork
  <2>2. task' \in Row /\ subtasks' \in Seq(Subtask)
    BY DEF RowStep, SameWork
  <2>3. planner' \in [ pc : {"idle", "claim", "asked"}, row : Row ]
    BY DEF SharedInv, Typed, PlannerStep
  <2>4. Goroutine' = Goroutine
    BY DEF Goroutine
  <2> QED  BY <1>1, <1>2, <2>1, <2>2, <2>3, <2>4 DEF Typed
<1>4. AskedInv'
  BY DEF SharedInv, AskedInv, RowStep, Agrees, PlannerStep
<1>5. subtasks' # <<>> => FollowsPlan'
  BY DEF SharedInv, FollowsPlan, RowStep, SameWork
<1> QED  BY <1>3, <1>4, <1>5 DEF SharedInv, RowStep, Goroutine

\* and whoever moves.
LEMMA StepKeeps ==
  ASSUME SharedInv, RowStep, SameWork, UNCHANGED planner \/ PlannerStep,
         Operate \/ Fault \/ UNCHANGED used,
         NEW g \in Goroutine, Moves(g, DOMAIN subtasks),
         \/ runs'[g].pc = runs[g].pc /\ runs'[g].row = runs[g].row
         \/ runs'[g].pc \in {"idle", "completed", "halt"}
         \/ GoroutineInv(g)'
  PROVE  SharedInv' /\ SamePlan
<1>1. \A h \in Goroutine : GoroutineInv(h)'
  BY GoroutinesKeep
<1> QED  BY <1>1, WriteKeeps DEF Moves

-----------------------------------------------------------------------------
(* What is written to the row                                                *)

\* Where a task may be with the children it has.
Stages ==
  (IF subtasks = <<>> THEN BeforeApproval ELSE AfterApproval) \cup {"failed"}

\* Nothing is written.
LEMMA RowStays ==
  ASSUME SharedInv, SameWork, UNCHANGED task
  PROVE  RowStep
<1>1. task' \in Row /\ LifeInv'
  BY AsManyChildren DEF SharedInv, Typed, LifeInv, Stage
<1>2. TickHolds => Stage' \in {"backlog", "planning", "failed"}
  <2>1. GoroutineInv("tick")
    BY DEF SharedInv, Goroutine
  <2> QED  BY <2>1 DEF TickHolds, GoroutineInv, tick, Stage
<1> QED  BY <1>1, <1>2, AsManyChildren DEF RowStep, SamePlan

\* A row is saved: its plan may change if the task is in planning.
LEMMA RowSaved ==
  ASSUME SharedInv, SameWork, NEW row \in Row, task' = row,
         row.ctx.schedule = task.ctx.schedule,
         subtasks # <<>> => row.plan = task.plan, ~TickHolds,
         row.status \in Stages, SamePlan
  PROVE  RowStep
<1>1. Stage' \in Stages
  BY DEF Stage, Stages, BeforeApproval, AfterApproval
<1>2. LifeInv'
  BY <1>1, AsManyChildren DEF SharedInv, LifeInv, Stages
<1> QED  BY <1>2, AsManyChildren DEF RowStep

\* A transition from a row that agrees with the task, or from a stale one.
LEMMA RowMoved ==
  ASSUME SharedInv, SameWork, NEW row \in Row, NEW to \in Stages,
         Transition(row, to), row.ctx.schedule = task.ctx.schedule,
         subtasks # <<>> => row.plan = task.plan,
         TickHolds => to \in {"backlog", "planning", "failed"}
  PROVE  RowStep
<1>1. CASE ~Current(row)
  BY <1>1, RowStays DEF Transition
<1>2. CASE Current(row)
  <2> DEFINE v == row.version + 1
  <2>1. task' = [ row EXCEPT !.status = to, !.version = v ]
    BY <1>2 DEF Transition, Moved
  <2>2. v \in Nat /\ v = task.version + 1 /\ task.version \in Nat
    BY <1>2, Columns DEF Current, SharedInv, Typed
  <2>3. to \in PlanningStatus
    BY DEF Stages, BeforeApproval, AfterApproval, PlanningStatus
  <2> HIDE DEF v
  <2>4. /\ task' \in Row /\ task'.status = to /\ task'.version = v
        /\ task'.ctx = row.ctx /\ task'.plan = row.plan
    BY <2>1, <2>2, <2>3 DEF Row
  <2>5. Stage' = to
    BY <2>4 DEF Stage, Stages, BeforeApproval, AfterApproval
  <2>6. LifeInv'
    BY <2>4, <2>5, AsManyChildren DEF SharedInv, LifeInv, Stages
  <2>7. task'.version > task.version
    BY <2>2, <2>4
  <2>8. SamePlan
    BY <2>2, <2>4 DEF SamePlan
  <2> QED  BY <2>4, <2>5, <2>6, <2>7, <2>8, AsManyChildren DEF RowStep
<1> QED  BY <1>1, <1>2

-----------------------------------------------------------------------------
(* The tick before the approval                                              *)

\* What there is to know of the goroutine that moves.
LEMMA Facts ==
  ASSUME SharedInv, NEW g \in Goroutine
  PROVE  /\ task \in Row /\ runs[g].row \in Row /\ GoroutineInv(g)
         /\ runs[g] \in Run(DOMAIN subtasks)
         /\ runs \in [ Goroutine -> Run(DOMAIN subtasks) ]
         /\ "tick" \in Goroutine
BY DEF SharedInv, Typed, Run, Goroutine

\* A phase begins with the row of the task.
LEMMA PhaseBegins ==
  ASSUME SharedInv, UNCHANGED subtasks, NEW status, NEW pc, BeginPhase(status, pc),
         \/ status = pc /\ pc \in PlanPC
         \/ status \in {"test_writing", "in_progress"} /\ pc \in {"tests", "work"}
  PROVE  SharedInv' /\ SamePlan
<1>1. /\ tick.pc = "idle" /\ task.status = status /\ task \in Row
      /\ UNCHANGED <<task, planner, used>> /\ Continue("tick", pc, task)
      /\ "tick" \in Goroutine /\ pc \in RunPc
      /\ runs \in [ Goroutine -> Run(DOMAIN subtasks) ]
  BY DEF BeginPhase, Continue, SharedInv, Typed, Goroutine, RunPc, PlanPC
<1>2. SameWork /\ RowStep
  BY <1>1, ChildrenWritten, RowStays
<1>3. /\ Moves("tick", DOMAIN subtasks)
      /\ runs'["tick"].pc = pc /\ runs'["tick"].row = task
  BY <1>1, GoroutineMoves
<1>4. Stage = status /\ Stage' = status
  BY <1>1 DEF Stage, PlanPC
<1>5. GoroutineInv("tick")'
  <2>1. Agrees(task)'
    BY <1>1 DEF Agrees
  <2>2. CASE status = pc /\ pc \in PlanPC
    <3>1. subtasks' = <<>>
      BY <1>4, <2>2 DEF SharedInv, LifeInv, PlanPC, AfterApproval
    <3> QED
      BY <1>1, <1>3, <1>4, <2>1, <2>2, <3>1
         DEF GoroutineInv, PlanPC, TestPC, WorkPC
  <2>3. CASE status \in {"test_writing", "in_progress"} /\ pc \in {"tests", "work"}
    <3>1. subtasks' # <<>>
      BY <1>4, <2>3 DEF SharedInv, LifeInv, BeforeApproval
    <3> QED
      BY <1>1, <1>3, <2>1, <2>3, <3>1 DEF GoroutineInv, PlanPC
  <2> QED  BY <2>2, <2>3
<1> QED  BY <1>1, <1>2, <1>3, <1>5, StepKeeps

\* It ends with a transition,
LEMMA TickEnds ==
  ASSUME SharedInv, UNCHANGED subtasks,
         ProcessBacklog \/ AskClarification \/ ProposePlan
  PROVE  SharedInv' /\ SamePlan
<1> DEFINE ctx == [ tick.row.ctx EXCEPT !.rounds = @ + 1 ]
           asking == [ tick.row EXCEPT !.ctx = ctx ]
<1>1. /\ tick.pc \in PlanPC /\ Finish("tick") /\ UNCHANGED <<planner, used>>
      /\ \/ \E to \in BeforeApproval : Transition(tick.row, to)
         \/ Transition(asking, "needs_clarification")
  BY DEF ProcessBacklog, AskClarification, ProposePlan, HasPlan, PlanPC,
         BeforeApproval
<1>2. /\ tick.row \in Row /\ GoroutineInv("tick") /\ "tick" \in Goroutine
      /\ runs \in [ Goroutine -> Run(DOMAIN subtasks) ]
  BY Facts DEF Goroutine, tick
<1>3. subtasks = <<>> /\ tick.row.ctx.schedule = task.ctx.schedule
  BY <1>1, <1>2 DEF GoroutineInv, Agrees, tick
<1>4. asking \in Row /\ asking.ctx.schedule = task.ctx.schedule
  <2>1. ctx \in Context /\ ctx.schedule = tick.row.ctx.schedule
    BY <1>2, Columns, ContextWritten
  <2> HIDE DEF ctx
  <2> QED  BY <1>2, <1>3, <2>1 DEF Row
<1> HIDE DEF asking
<1>5. /\ Moves("tick", DOMAIN subtasks) /\ runs'["tick"].pc = "idle"
  BY <1>1, <1>2, GoroutineMoves
<1>6. ~TickHolds
  BY <1>1, <1>5 DEF TickHolds, tick, PlanPC
<1>7. SameWork  BY ChildrenWritten
<1>8. RowStep
  BY <1>1, <1>2, <1>3, <1>4, <1>6, <1>7, RowMoved DEF Stages, BeforeApproval
<1> QED  BY <1>1, <1>2, <1>5, <1>7, <1>8, StepKeeps

\* or saves the row it has, and goes on or waits.
LEMMA TickSaves ==
  ASSUME SharedInv, UNCHANGED subtasks,
         ClearPlan \/ BlockPlannerCapacity
           \/ (EnsureBranch("tick") /\ tick.pc = "planning")
  PROVE  SharedInv' /\ SamePlan
<1>1. /\ tick.pc = "planning" /\ UNCHANGED <<planner, used>>
      /\ tick.row \in Row /\ GoroutineInv("tick") /\ "tick" \in Goroutine
      /\ runs \in [ Goroutine -> Run(DOMAIN subtasks) ]
      /\ task \in Row
  BY Facts DEF Goroutine, tick, ClearPlan, EnsureBranch, BlockPlannerCapacity
<1>2. PICK row \in Row :
        /\ task' = row /\ row.status = tick.row.status
        /\ row.version = tick.row.version /\ row.ctx = tick.row.ctx
        /\ Finish("tick") \/ (Continue("tick", "planning", row) /\ row # tick.row)
  <2>1. ASSUME NEW row \in Row, task' = row, row.status = tick.row.status,
               row.version = tick.row.version, row.ctx = tick.row.ctx,
               Finish("tick") \/ (Continue("tick", "planning", row) /\ row # tick.row)
        PROVE  \E new \in Row :
                 /\ task' = new /\ new.status = tick.row.status
                 /\ new.version = tick.row.version /\ new.ctx = tick.row.ctx
                 /\ \/ Finish("tick")
                    \/ Continue("tick", "planning", new) /\ new # tick.row
    BY <2>1
  <2>2. CASE ClearPlan
    <3> DEFINE row == [ tick.row EXCEPT !.plan = NoPlan ]
    <3>1. /\ row \in Row /\ row.status = tick.row.status /\ row.plan = NoPlan
          /\ row.version = tick.row.version /\ row.ctx = tick.row.ctx
      BY <1>1 DEF Row
    <3>2. task' = row /\ Continue("tick", "planning", row) /\ tick.row.plan # NoPlan
      BY <2>2 DEF ClearPlan, Save, Discarded
    <3> HIDE DEF row
    <3> QED  BY <2>1, <3>1, <3>2
  <2>3. CASE BlockPlannerCapacity
    BY <1>1, <2>1, <2>3 DEF BlockPlannerCapacity, Save
  <2>4. CASE EnsureBranch("tick") /\ tick.pc = "planning"
    <3> DEFINE row == [ tick.row EXCEPT !.branch = TRUE ]
    <3>1. /\ row \in Row /\ row.status = tick.row.status /\ row.branch
          /\ row.version = tick.row.version /\ row.ctx = tick.row.ctx
      BY <1>1 DEF Row
    <3>2. task' = row /\ Continue("tick", "planning", row) /\ ~tick.row.branch
      BY <2>4 DEF EnsureBranch, Save, tick
    <3> HIDE DEF row
    <3> QED  BY <2>1, <3>1, <3>2
  <2> QED  BY <2>2, <2>3, <2>4
<1>3. /\ subtasks = <<>> /\ row.ctx.schedule = task.ctx.schedule
      /\ row.status = "planning"
      /\ row.version < task.version \/ task.status = "planning"
  BY <1>1, <1>2 DEF GoroutineInv, Agrees, tick, PlanPC
<1>4. /\ Moves("tick", DOMAIN subtasks)
      /\ \/ runs'["tick"].pc = "idle"
         \/ /\ runs'["tick"].pc = "planning" /\ runs'["tick"].row = row
            /\ row # tick.row
  <2>1. "planning" \in RunPc  BY DEF RunPc
  <2> QED  BY <1>1, <1>2, <2>1, GoroutineMoves
<1>5. ~TickHolds
  BY <1>4 DEF TickHolds, tick, PlanPC
<1>6. SameWork  BY ChildrenWritten
<1>7. SamePlan
  BY <1>1, <1>2, <1>3, Columns DEF SamePlan
<1>8. RowStep
  BY <1>2, <1>3, <1>5, <1>6, <1>7, RowSaved DEF Stages, BeforeApproval
<1>9. runs'["tick"].pc = "idle" \/ GoroutineInv("tick")'
  <2>1. Agrees(row)' /\ Stage' = "planning" /\ subtasks' = <<>>
    BY <1>2, <1>3 DEF Agrees, Stage
  <2> QED
    BY <1>2, <1>3, <1>4, <2>1 DEF GoroutineInv, PlanPC, TestPC, WorkPC
<1> QED  BY <1>1, <1>4, <1>6, <1>8, <1>9, StepKeeps

\* The planner gets a copy of the row.
LEMMA PlannerIsAsked ==
  ASSUME SharedInv, UNCHANGED subtasks, DispatchPlanner
  PROVE  SharedInv' /\ SamePlan
<1>1. /\ tick.pc = "planning" /\ UNCHANGED <<task, used>> /\ Finish("tick")
      /\ tick.row \in Row /\ GoroutineInv("tick") /\ "tick" \in Goroutine
      /\ runs \in [ Goroutine -> Run(DOMAIN subtasks) ]
      /\ planner' = planner \/ planner' = [ pc |-> "claim", row |-> tick.row ]
  BY Facts DEF Goroutine, tick, DispatchPlanner
<1>2. Moves("tick", DOMAIN subtasks) /\ runs'["tick"].pc = "idle"
  BY <1>1, GoroutineMoves
<1>3. SameWork /\ RowStep
  BY <1>1, ChildrenWritten, RowStays
<1>4. UNCHANGED planner \/ PlannerStep
  <2>1. tick.row.status = "planning" /\ Agrees(tick.row)
    BY <1>1 DEF GoroutineInv, tick, PlanPC
  <2> DEFINE row == tick.row
  <2> HIDE DEF row
  <2>2. planner' = [ pc |-> "claim", row |-> row ] => PlannerStep
    BY <1>1, <2>1 DEF PlannerStep, AskedInv, Agrees, row
  <2> QED  BY <1>1, <2>2 DEF row
<1> QED  BY <1>1, <1>2, <1>3, <1>4, StepKeeps

-----------------------------------------------------------------------------
(* The planner                                                               *)

\* While it is asked, it has a row that was in planning.
LEMMA PlannerFacts ==
  ASSUME SharedInv, planner.pc # "idle"
  PROVE  /\ planner \in [ pc : {"idle", "claim", "asked"}, row : Row ]
         /\ planner.row \in Row /\ planner.row.status = "planning"
         /\ Current(planner.row) =>
              /\ task.status = "planning" /\ subtasks = <<>>
              /\ planner.row.ctx.schedule = task.ctx.schedule
<1>1. /\ planner \in [ pc : {"idle", "claim", "asked"}, row : Row ]
      /\ planner.row.status = "planning"
      /\ subtasks = <<>> => planner.row.ctx.schedule = task.ctx.schedule
  BY DEF SharedInv, Typed, AskedInv, Agrees
<1>2. task.status = "planning" => subtasks = <<>>
  BY DEF SharedInv, LifeInv, Stage, AfterApproval
<1> QED  BY <1>1, <1>2 DEF Current

\* Whatever the planner does, the goroutines stay.
LEMMA PlannerKeeps ==
  ASSUME SharedInv, UNCHANGED <<subtasks, runs>>, PlannerStep, RowStep,
         Fault \/ UNCHANGED used
  PROVE  SharedInv' /\ SamePlan
<1>1. SameWork  BY ChildrenWritten
<1>2. "tick" \in Goroutine /\ Moves("tick", DOMAIN subtasks)
  BY DEF Goroutine, Moves, SharedInv, Typed
<1> QED  BY <1>1, <1>2, StepKeeps

\* In planning, the plan and the context of a row may change.
LEMMA RowInPlanning ==
  ASSUME SharedInv, UNCHANGED <<subtasks, runs>>, task.status = "planning",
         NEW plan \in DOMAIN Plans \cup {NoPlan}, NEW ctx \in Context,
         ctx.schedule = task.ctx.schedule,
         task' = [ task EXCEPT !.plan = plan, !.ctx = ctx ]
  PROVE  RowStep
<1>1. /\ task' \in Row /\ task'.status = "planning" /\ task'.ctx = ctx
      /\ task'.version = task.version
  <2>1. task \in Row  BY DEF SharedInv, Typed
  <2> QED  BY <2>1 DEF Row
<1>2. Stage = "planning" /\ Stage' = "planning" /\ subtasks = <<>>
  BY <1>1 DEF Stage, SharedInv, LifeInv, AfterApproval
<1>3. LifeInv'
  BY <1>1, <1>2 DEF SharedInv, LifeInv, BeforeApproval
<1> QED  BY <1>1, <1>2, <1>3 DEF RowStep, SamePlan

\* The planner is at rest.
LEMMA PlannerRests ==
  ASSUME Leave
  PROVE  PlannerStep
<1>1. NewRow \in Row
  BY RestingRun
<1> QED  BY <1>1 DEF Leave, PlannerAtRest, PlannerStep, AskedInv

\* A request is claimed,
LEMMA ClaimStep ==
  ASSUME SharedInv, UNCHANGED subtasks, ClaimRequest
  PROVE  SharedInv' /\ SamePlan
<1>1. UNCHANGED <<subtasks, runs, used>> /\ planner.pc # "idle"
  BY DEF ClaimRequest
<1>2. CASE ~Current(planner.row)
  <2>1. UNCHANGED task /\ PlannerStep
    BY <1>2, PlannerRests DEF ClaimRequest
  <2> QED  BY <1>1, <2>1, RowStays, ChildrenWritten, PlannerKeeps
<1>3. CASE Current(planner.row)
  <2> DEFINE ctx == [ planner.row.ctx EXCEPT !.spawns = @ + 1 ]
             row == [ planner.row EXCEPT !.ctx = ctx ]
  <2>1. /\ task.status = "planning" /\ subtasks = <<>> /\ task \in Row
        /\ planner.row \in Row /\ planner.row.status = "planning"
        /\ planner.row.ctx.schedule = task.ctx.schedule
    BY <1>1, <1>3, PlannerFacts DEF SharedInv, Typed
  <2>2. /\ row = [ planner.row EXCEPT !.ctx.spawns = @ + 1 ]
    OBVIOUS
  <2>3. task' = [ task EXCEPT !.ctx = row.ctx ] /\ planner' = [ pc |-> "asked", row |-> row ]
    BY <1>3, <2>2 DEF ClaimRequest
  <2>4. ctx \in Context /\ ctx.schedule = task.ctx.schedule
    BY <2>1, Columns, ContextWritten
  <2> HIDE DEF ctx
  <2>5. row \in Row /\ row.ctx = ctx /\ row.status = "planning"
    BY <2>1, <2>4 DEF Row
  <2> HIDE DEF row
  <2>6. task' = [ task EXCEPT !.plan = task.plan, !.ctx = ctx ]
    BY <2>1, <2>3, <2>5 DEF Row
  <2>7. RowStep
    <3>1. task.plan \in DOMAIN Plans \cup {NoPlan}  BY <2>1, Columns
    <3> QED  BY <1>1, <2>1, <2>4, <2>6, <3>1, RowInPlanning
  <2>8. PlannerStep
    <3>1. task'.ctx.schedule = task.ctx.schedule  BY <2>7 DEF RowStep
    <3> QED
      BY <1>1, <2>1, <2>3, <2>4, <2>5, <3>1 DEF PlannerStep, AskedInv, Agrees
  <2> QED  BY <1>1, <2>7, <2>8, PlannerKeeps
<1> QED  BY <1>2, <1>3

\* and answered or not.
LEMMA AnswerStep ==
  ASSUME SharedInv, UNCHANGED subtasks, PlannerAnswers \/ LoseRequest
  PROVE  SharedInv' /\ SamePlan
<1>1. /\ UNCHANGED <<subtasks, runs>> /\ planner.pc # "idle" /\ PlannerStep
      /\ Fault \/ UNCHANGED used
  BY PlannerRests DEF PlannerAnswers, ReturnPlan, ReturnInvalidPlan, LoseRequest
<1>2. SameWork  BY <1>1, ChildrenWritten
<1>3. CASE UNCHANGED task
  BY <1>1, <1>2, <1>3, RowStays, PlannerKeeps
<1>4. /\ planner.row \in Row /\ planner.row.status = "planning" /\ task \in Row
      /\ Current(planner.row) =>
           /\ task.status = "planning" /\ subtasks = <<>>
           /\ planner.row.ctx.schedule = task.ctx.schedule
  BY <1>1, PlannerFacts DEF SharedInv, Typed
<1>5. ASSUME NEW p \in DOMAIN Plans, ReturnPlan(p), Current(planner.row)
      PROVE  RowStep
  <2>1. task' = [ task EXCEPT !.plan = p, !.ctx = planner.row.ctx ]
    BY <1>5 DEF ReturnPlan
  <2>2. planner.row.ctx \in Context  BY <1>4, Columns
  <2> QED  BY <1>1, <1>4, <1>5, <2>1, <2>2, RowInPlanning
<1>6. ASSUME ReturnInvalidPlan
      PROVE  RowStep
  <2> DEFINE ctx == [ planner.row.ctx EXCEPT !.failures = @ + 1 ]
             row == [ planner.row EXCEPT !.ctx = ctx ]
  <2>1. row = [ planner.row EXCEPT !.ctx.failures = @ + 1 ]
    OBVIOUS
  <2>2. \/ Current(row) /\ Transition(row, "failed")
        \/ Current(row) /\ task' = [ task EXCEPT !.ctx = row.ctx ]
        \/ UNCHANGED task
    BY <1>6, <2>1 DEF ReturnInvalidPlan
  <2>3. ctx \in Context /\ ctx.schedule = planner.row.ctx.schedule
    BY <1>4, Columns, ContextWritten
  <2> HIDE DEF ctx
  <2>4. row \in Row /\ row.ctx = ctx /\ (Current(row) <=> Current(planner.row))
    BY <1>4, <2>3 DEF Row, Current
  <2> HIDE DEF row
  <2>5. CASE Current(row) /\ Transition(row, "failed")
    BY <1>2, <1>4, <2>3, <2>4, <2>5, RowMoved DEF Stages
  <2>6. CASE Current(row) /\ task' = [ task EXCEPT !.ctx = row.ctx ]
    <3>1. task' = [ task EXCEPT !.plan = task.plan, !.ctx = ctx ]
      BY <1>4, <2>4, <2>6 DEF Row
    <3>2. task.plan \in DOMAIN Plans \cup {NoPlan}  BY <1>4, Columns
    <3> QED  BY <1>1, <1>4, <2>3, <2>4, <2>6, <3>1, <3>2, RowInPlanning
  <2>7. CASE UNCHANGED task
    BY <1>2, <2>7, RowStays
  <2> QED  BY <2>2, <2>5, <2>6, <2>7
<1>7. UNCHANGED task \/ RowStep
  BY <1>5, <1>6 DEF PlannerAnswers, ReturnPlan, LoseRequest
<1> QED  BY <1>1, <1>3, <1>7, PlannerKeeps

-----------------------------------------------------------------------------
(* Operators and restarts                                                    *)

\* An operator writes the row.
LEMMA OperatorKeeps ==
  ASSUME SharedInv, UNCHANGED <<runs, planner>>, SameWork, RowStep,
         Operate \/ UNCHANGED used
  PROVE  SharedInv' /\ SamePlan
<1>1. "tick" \in Goroutine /\ Moves("tick", DOMAIN subtasks)
  BY DEF Goroutine, Moves, SharedInv, Typed
<1> QED  BY <1>1, StepKeeps

\* The tick holds a row in few stages.
LEMMA HeldStages ==
  ASSUME SharedInv, TickHolds
  PROVE  Stage \in {"backlog", "planning", "failed"}
<1>1. GoroutineInv("tick")  BY Facts DEF Goroutine
<1> QED  BY <1>1 DEF TickHolds, GoroutineInv, tick

\* A plan goes back, or on to its review.
LEMMA ReviewStep ==
  ASSUME SharedInv, UNCHANGED subtasks,
         \/ \E feedback \in BOOLEAN : RejectPlan(feedback)
         \/ AcceptAssumptions \/ AnswerQuestions
         \/ \E p \in DOMAIN Plans : RevisePlan(p)
  PROVE  SharedInv' /\ SamePlan
<1>1. /\ UNCHANGED <<runs, planner>> /\ SameWork /\ task \in Row
      /\ Operate \/ UNCHANGED used
      /\ task.status \in {"plan_review", "needs_clarification"}
  BY ChildrenWritten DEF RejectPlan, AcceptAssumptions, AnswerQuestions,
     RevisePlan, SharedInv, Typed
<1>2. Stage = task.status /\ subtasks = <<>>
  BY <1>1 DEF Stage, SharedInv, LifeInv, AfterApproval
<1>3. ~TickHolds
  BY <1>1, <1>2, HeldStages
<1>4. {"planning", "plan_review"} \subseteq Stages
  BY <1>2 DEF Stages, BeforeApproval
<1>5. CASE \E feedback \in BOOLEAN : RejectPlan(feedback)
  <2>1. PICK feedback \in BOOLEAN : RejectPlan(feedback)
    BY <1>5
  <2> DEFINE row == [ task EXCEPT !.plan = NoPlan, !.feedback = feedback ]
  <2>2. row \in Row /\ row.ctx = task.ctx
    BY <1>1 DEF Row
  <2>3. Transition(row, "planning")
    BY <2>1 DEF RejectPlan
  <2> HIDE DEF row
  <2>4. RowStep  BY <1>1, <1>2, <1>3, <1>4, <2>2, <2>3, RowMoved
  <2> QED  BY <1>1, <2>4, OperatorKeeps
<1>6. CASE AcceptAssumptions
  <2>1. Transition(task, "plan_review")
    BY <1>6 DEF AcceptAssumptions
  <2>2. RowStep  BY <1>1, <1>2, <1>3, <1>4, <2>1, RowMoved
  <2> QED  BY <1>1, <2>2, OperatorKeeps
<1>7. CASE AnswerQuestions
  <2> DEFINE row == [ task EXCEPT !.plan = NoPlan ]
  <2>1. row \in Row /\ row.ctx = task.ctx
    BY <1>1 DEF Row
  <2>2. Transition(row, "planning")
    BY <1>7 DEF AnswerQuestions
  <2> HIDE DEF row
  <2>3. RowStep  BY <1>1, <1>2, <1>3, <1>4, <2>1, <2>2, RowMoved
  <2> QED  BY <1>1, <2>3, OperatorKeeps
<1>8. CASE \E p \in DOMAIN Plans : RevisePlan(p)
  <2>1. PICK p \in DOMAIN Plans : RevisePlan(p)
    BY <1>8
  <2> DEFINE v == task.version + 1
             row == [ task EXCEPT !.plan = p, !.feedback = FALSE, !.version = v ]
  <2>2. v \in Nat /\ v # task.version
    BY <1>1, Columns
  <2>3. task' = row /\ task.status = "plan_review"
    BY <2>1 DEF RevisePlan
  <2> HIDE DEF v
  <2>4. /\ row \in Row /\ row.ctx = task.ctx /\ row.status = task.status
        /\ row.version = v
    BY <1>1, <2>2 DEF Row
  <2> HIDE DEF row
  <2>5. SamePlan
    BY <2>2, <2>3, <2>4 DEF SamePlan
  <2>6. RowStep
    BY <1>1, <1>2, <1>3, <1>4, <2>3, <2>4, <2>5, RowSaved
  <2> QED  BY <1>1, <2>6, OperatorKeeps
<1> QED  BY <1>5, <1>6, <1>7, <1>8

\* A pause keeps the stage, whoever writes it.
LEMMA RowPaused ==
  ASSUME SharedInv, SameWork, NEW row \in Row, NEW version \in Nat,
         version > task.version, row.ctx.schedule = task.ctx.schedule,
         row.plan = task.plan, row.ctx.pausedFrom \in Stages,
         TickHolds => row.ctx.pausedFrom \in {"backlog", "planning", "failed"},
         task' = [ row EXCEPT !.status = "paused", !.version = version ]
  PROVE  RowStep
<1>1. /\ task' \in Row /\ task'.status = "paused" /\ task'.version = version
      /\ task'.ctx = row.ctx /\ task'.plan = row.plan
  BY DEF Row, PlanningStatus
<1>2. Stage' = row.ctx.pausedFrom
  BY <1>1 DEF Stage
<1>3. LifeInv'
  BY <1>1, <1>2, AsManyChildren DEF SharedInv, LifeInv, Stages
<1> QED  BY <1>1, <1>2, <1>3, AsManyChildren DEF RowStep, SamePlan

\* The task is paused and resumed.
LEMMA PauseStep ==
  ASSUME SharedInv, UNCHANGED subtasks, PauseTask \/ ResumeTask
  PROVE  SharedInv' /\ SamePlan
<1>1. /\ UNCHANGED <<runs, planner>> /\ SameWork /\ task \in Row
      /\ Operate \/ UNCHANGED used
      /\ Stage \in Stages
  BY ChildrenWritten DEF PauseTask, ResumeTask, SharedInv, Typed, LifeInv, Stages
<1>2. CASE PauseTask
  <2> DEFINE ctx == [ task.ctx EXCEPT !.pausedFrom = task.status ]
             row == [ task EXCEPT !.ctx = ctx ]
             v == task.version + 1
  <2>1. row = [ task EXCEPT !.ctx.pausedFrom = task.status ]
    OBVIOUS
  <2>2. /\ ctx \in Context /\ ctx.schedule = task.ctx.schedule
        /\ ctx.pausedFrom = task.status
    BY <1>1, Columns, ContextWritten
  <2>3. Transition(row, "paused") /\ "paused" \in ValidTransitions[task.status]
    BY <1>2, <2>1 DEF PauseTask
  <2> HIDE DEF ctx
  <2>4. /\ row \in Row /\ row.ctx = ctx /\ row.status = task.status
        /\ row.version = task.version /\ row.plan = task.plan
    BY <1>1, <2>2 DEF Row
  <2> HIDE DEF row
  <2>5. v \in Nat /\ v > task.version
    BY <1>1, Columns
  <2>6. task' = [ row EXCEPT !.status = "paused", !.version = v ]
    BY <2>3, <2>4 DEF Transition, Current, Moved
  <2> HIDE DEF v
  <2>7. task.status # "paused"
    BY <2>3 DEF ValidTransitions
  <2>8. Stage = task.status  BY <2>7 DEF Stage
  <2>9. RowStep
    BY <1>1, <2>2, <2>4, <2>5, <2>6, <2>8, RowPaused, HeldStages
  <2> QED  BY <1>1, <2>9, OperatorKeeps
<1>3. CASE ResumeTask
  <2>1. Transition(task, Stage)
    BY <1>3 DEF ResumeTask, Stage
  <2>2. RowStep  BY <1>1, <2>1, RowMoved, HeldStages
  <2> QED  BY <1>1, <2>2, OperatorKeeps
<1> QED  BY <1>2, <1>3

\* A failed task without children starts over.
LEMMA RetryStep ==
  ASSUME SharedInv, RetryTask
  PROVE  SharedInv' /\ SamePlan
<1>1. /\ UNCHANGED <<runs, planner, subtasks>> /\ SameWork /\ task \in Row
      /\ Operate /\ subtasks = <<>> /\ task.ctx.schedule = <<>>
  BY ChildrenWritten DEF RetryTask, SharedInv, Typed, LifeInv
<1> DEFINE ctx == [ task.ctx EXCEPT !.schedule = <<>>, !.rejections = 0 ]
           row == [ task EXCEPT !.branch = FALSE, !.ctx = ctx ]
<1>2. /\ row = [ task EXCEPT !.branch = FALSE, !.ctx.schedule = <<>>,
                             !.ctx.rejections = 0 ]
  OBVIOUS
<1>3. Transition(row, "backlog")
  BY <1>2 DEF RetryTask
<1>4. ctx \in Context /\ ctx.schedule = <<>>
  <2>1. <<>> \in Seq(Nat) /\ task.ctx \in Context  BY <1>1, Columns
  <2> QED  BY <2>1 DEF Context
<1> HIDE DEF ctx
<1>5. row \in Row /\ row.ctx = ctx
  BY <1>1, <1>4 DEF Row
<1> HIDE DEF row
<1>6. RowStep
  BY <1>1, <1>3, <1>4, <1>5, RowMoved DEF Stages, BeforeApproval
<1> QED  BY <1>1, <1>6, OperatorKeeps

\* After a restart all goroutines are at rest.
LEMMA RestartKeeps ==
  ASSUME SharedInv, UNCHANGED subtasks, Restart
  PROVE  SharedInv' /\ SamePlan
<1>1. /\ runs' = [ g \in Goroutine |-> RunAtRest ] /\ Leave /\ UNCHANGED task
      /\ Fault /\ SameWork
  BY ChildrenWritten DEF Restart, Leave
<1>2. PlannerStep /\ RowStep
  BY <1>1, PlannerRests, RowStays
<1>3. RunAtRest \in Run(DOMAIN subtasks) /\ RunAtRest.pc = "idle"
  BY RestingRun
<1>4. \A g \in Goroutine : GoroutineInv(g)'
  BY <1>1, <1>3 DEF GoroutineInv, PlanPC, TestPC, WorkPC
<1> QED  BY <1>1, <1>2, <1>3, <1>4, WriteKeeps

-----------------------------------------------------------------------------
(* Goroutines after the approval                                             *)

LatePC == TestPC \cup WorkPC \cup {"stop"}

\* A row that may be written when there are children.
LateRow(row) ==
  /\ row \in Row /\ row.ctx.schedule = task.ctx.schedule
  /\ row.plan = task.plan /\ row.status \in {"test_writing", "in_progress"}

\* The row of such a goroutine is one, and no plan is on its way any more.
LEMMA LateFacts ==
  ASSUME SharedInv, NEW g \in Goroutine
  PROVE  /\ runs[g].pc \in LatePC => subtasks # <<>> /\ LateRow(runs[g].row)
         /\ subtasks # <<>> => ~TickHolds /\ Stages = AfterApproval \cup {"failed"}
<1>1. runs[g].row \in Row /\ GoroutineInv(g) /\ GoroutineInv("tick")
  BY Facts DEF Goroutine
<1>2. subtasks # <<>> => ~TickHolds
  BY <1>1 DEF GoroutineInv, TickHolds, tick
<1> QED  BY <1>1, <1>2 DEF LatePC, LateRow, GoroutineInv, Agrees, Stages

\* It is saved, moved on, or left alone.
LEMMA LateWrites ==
  ASSUME SharedInv, SameWork, subtasks # <<>>, NEW row, LateRow(row),
         \/ UNCHANGED task \/ Save(row)
         \/ \E to \in AfterApproval \cup {"failed"} : Transition(row, to)
  PROVE  RowStep
<1>1. "tick" \in Goroutine  BY DEF Goroutine
<1>2. ~TickHolds /\ Stages = AfterApproval \cup {"failed"}
  BY <1>1, LateFacts
<1>3. CASE UNCHANGED task
  BY <1>3, RowStays
<1>4. CASE Save(row)
  BY <1>2, <1>4, RowSaved DEF Save, LateRow, AfterApproval, SamePlan
<1>5. CASE \E to \in AfterApproval \cup {"failed"} : Transition(row, to)
  BY <1>2, <1>5, RowMoved DEF LateRow
<1> QED  BY <1>3, <1>4, <1>5

\* It goes on, and may be written later.
LEMMA LateGoesOn ==
  ASSUME SharedInv, RowStep, subtasks # <<>>, NEW g \in Goroutine,
         runs'[g].pc \in LatePC, LateRow(runs'[g].row)
  PROVE  GoroutineInv(g)'
BY DEF GoroutineInv, RowStep, LateRow, Agrees, LatePC, PlanPC, TestPC, WorkPC

\* A goroutine is through with its row or goes on with it.
LEMMA LateStep ==
  ASSUME SharedInv, SameWork, UNCHANGED planner, Fault \/ UNCHANGED used,
         NEW g \in Goroutine, subtasks # <<>>, NEW row, LateRow(row),
         \/ UNCHANGED task \/ Save(row)
         \/ \E to \in AfterApproval \cup {"failed"} : Transition(row, to),
         \/ Finish(g)
         \/ \E pc \in LatePC : Continue(g, pc, row)
  PROVE  SharedInv' /\ SamePlan
<1>1. RowStep  BY LateWrites
<1>2. runs \in [ Goroutine -> Run(DOMAIN subtasks) ]
  BY Facts
<1>3. CASE Finish(g)
  <2>1. Moves(g, DOMAIN subtasks) /\ runs'[g].pc = "idle"
    BY <1>2, <1>3, GoroutineMoves
  <2> QED  BY <1>1, <2>1, StepKeeps
<1>4. CASE \E pc \in LatePC : Continue(g, pc, row)
  <2>1. PICK pc \in LatePC : Continue(g, pc, row)
    BY <1>4
  <2>2. pc \in RunPc /\ row \in Row
    BY DEF LatePC, TestPC, WorkPC, RunPc, LateRow
  <2>3. /\ Moves(g, DOMAIN subtasks)
        /\ runs'[g].pc = pc /\ runs'[g].row = row
    BY <1>2, <2>1, <2>2, GoroutineMoves
  <2>4. GoroutineInv(g)'
    BY <1>1, <2>3, LateGoesOn
  <2> QED  BY <1>1, <2>3, <2>4, StepKeeps
<1> QED  BY <1>3, <1>4

\* The branch is there.
LEMMA BranchStep ==
  ASSUME SharedInv, UNCHANGED subtasks, NEW g \in Goroutine, EnsureBranch(g)
  PROVE  SharedInv' /\ SamePlan
<1>1. CASE runs[g].pc = "tests"
  <2> DEFINE row == [ runs[g].row EXCEPT !.branch = TRUE ]
  <2>1. /\ Save(row) /\ Continue(g, "tests", row) /\ UNCHANGED <<planner, used>>
    BY <1>1 DEF EnsureBranch
  <2>2. LateRow(runs[g].row) /\ subtasks # <<>>
    BY <1>1, LateFacts DEF LatePC, TestPC
  <2>3. LateRow(row)
    BY <2>2 DEF LateRow, Row
  <2> HIDE DEF row
  <2>4. SameWork /\ "tests" \in LatePC
    BY ChildrenWritten DEF LatePC, TestPC
  <2> QED  BY <2>1, <2>2, <2>3, <2>4, LateStep
<1>2. CASE runs[g].pc = "planning"
  <2>1. g = "tick" /\ tick.pc = "planning"
    BY <1>2, Facts DEF GoroutineInv, PlanPC, tick
  <2> QED  BY <2>1, TickSaves
<1> QED  BY <1>1, <1>2 DEF EnsureBranch

\* The siblings of a child that failed are cancelled.
LEMMA SiblingsCancelled ==
  ASSUME SharedInv, NEW written,
         subtasks' = CancelBlockedSiblings(subtasks, written)
  PROVE  SameWork
<1>1. subtasks \in Seq(Subtask) /\ DOMAIN subtasks = 1 .. Len(subtasks)
  BY LenProperties DEF SharedInv, Typed
<1>2. ASSUME NEW n \in DOMAIN subtasks
      PROVE  /\ subtasks'[n] \in Subtask
             /\ subtasks'[n].phase = subtasks[n].phase
             /\ subtasks'[n].testsFor = subtasks[n].testsFor
             /\ subtasks'[n].files = subtasks[n].files
             /\ subtasks'[n].deps = subtasks[n].deps
  <2> DEFINE child == [ subtasks[n] EXCEPT !.status = "cancelled",
                                           !.kind = "dependency_failure" ]
  <2>1. subtasks[n] \in Subtask  BY <1>1
  <2>2. /\ child \in Subtask /\ child.phase = subtasks[n].phase
        /\ child.testsFor = subtasks[n].testsFor
        /\ child.files = subtasks[n].files /\ child.deps = subtasks[n].deps
    BY <2>1 DEF Subtask, SubtaskStatus
  <2>3. subtasks'[n] \in {subtasks[n], child}
    BY DEF CancelBlockedSiblings
  <2> HIDE DEF child
  <2> QED  BY <2>1, <2>2, <2>3
<1>3. DOMAIN subtasks' = DOMAIN subtasks
  BY DEF CancelBlockedSiblings
<1>4. subtasks' \in [ 1 .. Len(subtasks) -> Subtask ]
  BY <1>1, <1>2 DEF CancelBlockedSiblings
<1>5. subtasks' \in Seq(Subtask)
  BY <1>1, <1>4, SeqDef, LenProperties
<1> QED  BY <1>2, <1>3, <1>5, WorkKept

\* Tests and features are judged, and their task moves on or stops.
LEMMA JudgementStep ==
  ASSUME SharedInv, NEW g \in Goroutine,
         \/ JudgeTests(g) \/ ProposeTests(g) \/ JudgeFeature(g) \/ RecordDrain(g)
         \/ FailParent(g) \/ DeliverFeature(g) \/ HoldBack(g)
         \/ CancellationFails(g)
  PROVE  SharedInv' /\ SamePlan
<1> DEFINE row == runs[g].row
<1>1. /\ runs[g].pc \in LatePC /\ UNCHANGED planner
      /\ Fault \/ UNCHANGED used
      /\ \/ UNCHANGED subtasks
         \/ \E written : subtasks' = CancelBlockedSiblings(subtasks, written)
  BY DEF JudgeTests, ProposeTests, JudgeFeature, RecordDrain, FailParent,
         DeliverFeature, HoldBack, CancellationFails, AtConstraintGate, LatePC,
         TestPC, WorkPC
<1>2. subtasks # <<>> /\ LateRow(row) /\ SameWork
  BY <1>1, LateFacts, ChildrenWritten, SiblingsCancelled
<1>3. \/ UNCHANGED task \/ Save(row)
      \/ \E to \in AfterApproval \cup {"failed"} : Transition(row, to)
  BY DEF JudgeTests, ProposeTests, JudgeFeature, RecordDrain, FailParent,
         DeliverFeature, HoldBack, CancellationFails, AfterApproval
<1>4. Finish(g) \/ \E pc \in LatePC : Continue(g, pc, row)
  <2>1. {"review tests", "stop", "deliver", "drain"} \subseteq LatePC
    BY DEF LatePC, TestPC, WorkPC
  <2>2. CASE JudgeTests(g)
    BY <2>1, <2>2 DEF JudgeTests
  <2>3. CASE JudgeFeature(g)
    BY <2>1, <2>3 DEF JudgeFeature
  <2> QED
    BY <2>2, <2>3 DEF ProposeTests, RecordDrain, FailParent, DeliverFeature,
                      HoldBack, CancellationFails
<1> HIDE DEF row
<1> QED  BY <1>1, <1>2, <1>3, <1>4, LateStep

\* After a completion the parent is judged.
LEMMA AdvanceStep ==
  ASSUME SharedInv, NEW g \in Goroutine, AdvanceParent(g)
  PROVE  SharedInv' /\ SamePlan
<1>1. /\ UNCHANGED <<task, planner, used, subtasks>> /\ SameWork
      /\ runs \in [ Goroutine -> Run(DOMAIN subtasks) ]
  BY ChildrenWritten, Facts DEF AdvanceParent
<1>2. CASE Finish(g)
  <2>1. Moves(g, DOMAIN subtasks) /\ runs'[g].pc = "idle"
    BY <1>1, <1>2, GoroutineMoves
  <2> QED  BY <1>1, <2>1, RowStays, StepKeeps
<1>3. CASE /\ task.status \in {"in_progress", "test_writing"}
           /\ \E pc \in LatePC : Continue(g, pc, task)
  <2>1. Stage = task.status
    BY <1>3 DEF Stage
  <2>2. subtasks # <<>> /\ task \in Row
    BY <1>3, <2>1 DEF SharedInv, Typed, LifeInv, BeforeApproval
  <2>3. LateRow(task)
    BY <1>3, <2>2 DEF LateRow
  <2> QED  BY <1>1, <1>3, <2>2, <2>3, LateStep
<1>4. "dispatch work" \in LatePC /\ "tests" \in LatePC
  BY DEF LatePC, TestPC, WorkPC
<1> QED  BY <1>2, <1>3, <1>4 DEF AdvanceParent

\* The exit of a worker is consumed.
LEMMA ExitStep ==
  ASSUME SharedInv, NEW g \in Goroutine, NEW n \in DOMAIN subtasks,
         WorkDone(g, n) \/ WorkFails(g, n) \/ WorkerLost(g, n)
  PROVE  SharedInv' /\ SamePlan
<1>1. /\ UNCHANGED <<task, planner>>
      /\ Fault \/ UNCHANGED used
      /\ SameWork /\ runs \in [ Goroutine -> Run(DOMAIN subtasks) ]
  BY ChildrenWritten, Facts DEF WorkDone, WorkFails, WorkerLost, SubtaskStatus
<1>2. RowStep  BY <1>1, RowStays
<1>3. /\ Moves(g, DOMAIN subtasks)
      /\ \/ runs'[g].pc = runs[g].pc /\ runs'[g].row = runs[g].row
         \/ runs'[g].pc \in {"idle", "completed", "halt"}
  <2>1. CASE UNCHANGED runs
    BY <1>1, <2>1 DEF Moves
  <2>2. CASE runs' = [ runs EXCEPT ![g].pc = "completed", ![g].locked = TRUE ]
    <3>1. "completed" \in RunPc  BY DEF RunPc
    <3> QED  BY <1>1, <2>2, <3>1, GoroutineMoves
  <2> QED  BY <2>1, <2>2 DEF WorkDone, WorkFails, WorkerLost
<1> QED  BY <1>1, <1>2, <1>3, StepKeeps

\* A child has one of the statuses of children.
LEMMA KnownStatus ==
  ASSUME SharedInv, NEW n \in DOMAIN subtasks
  PROVE  subtasks[n].status \in SubtaskStatus
<1>1. subtasks[n] \in Subtask
  BY DEF SharedInv, Typed
<1> QED  BY <1>1 DEF Subtask

\* One of the children noted is dealt with.
LEMMA DispatchStep ==
  ASSUME SharedInv, NEW g \in Goroutine, NEW n \in DOMAIN subtasks,
         StartWorker(g, n) \/ SpawnFails(g, n) \/ ImageUnavailable(g, n)
  PROVE  SharedInv' /\ SamePlan
<1>1. /\ UNCHANGED <<task, planner>>
      /\ Fault \/ UNCHANGED used
      /\ Dispatched(g, n)
  BY DEF StartWorker, SpawnFails, ImageUnavailable
<1>2. SameWork
  <2> DEFINE status == IF subtasks[n].status \in {"backlog", "failed"}
                          /\ Was(g, n) # "in_progress"
                       THEN "in_progress" ELSE subtasks[n].status
  <2>1. subtasks[n].status \in SubtaskStatus
    BY KnownStatus
  <2>2. status \in SubtaskStatus
    BY <2>1 DEF SubtaskStatus
  <2>3. CASE StartWorker(g, n)
    <3>1. subtasks' = IF subtasks[n].assigned THEN subtasks
                      ELSE [ subtasks EXCEPT ![n].status = status,
                                             ![n].assigned = TRUE ]
      BY <2>3 DEF StartWorker
    <3> HIDE DEF status
    <3> QED  BY <2>2, <3>1, ChildrenWritten
  <2>4. CASE SpawnFails(g, n) \/ ImageUnavailable(g, n)
    BY <2>4, ChildrenWritten DEF SpawnFails, ImageUnavailable, SubtaskStatus
  <2> QED  BY <2>3, <2>4
<1>3. /\ Moves(g, DOMAIN subtasks)
      /\ runs'[g].pc = runs[g].pc /\ runs'[g].row = runs[g].row
  <2> DEFINE todo == Restrict(runs[g].todo, DOMAIN runs[g].todo \ {n})
  <2>1. runs \in [ Goroutine -> Run(DOMAIN subtasks) ] /\ runs[g].todo \in Todo(DOMAIN subtasks)
    BY Facts DEF Run
  <2>2. todo \in Todo(DOMAIN subtasks)
    BY <2>1, LessToNote
  <2>3. runs' = [ runs EXCEPT ![g].todo = todo ]
    BY <1>1, <2>1 DEF Dispatched
  <2> HIDE DEF todo
  <2> QED  BY <2>1, <2>2, <2>3, GoroutineMoves
<1> QED  BY <1>1, <1>2, <1>3, RowStays, StepKeeps

\* The workers of a paused task are found and stopped.
LEMMA HaltStep ==
  ASSUME SharedInv, FindWorkers \/ \E n \in DOMAIN subtasks : StopWorker(n)
  PROVE  SharedInv' /\ SamePlan
<1>1. /\ UNCHANGED <<task, planner, used>>
      /\ "tick" \in Goroutine /\ runs \in [ Goroutine -> Run(DOMAIN subtasks) ]
      /\ tick \in Run(DOMAIN subtasks)
  BY Facts DEF FindWorkers, StopWorker, Goroutine, tick
<1>2. CASE FindWorkers
  <2> DEFINE todo == Noted(subtasks, Assigned)
  <2>1. runs' = [ runs EXCEPT !["tick"].pc = "halt", !["tick"].todo = todo ]
    BY <1>2 DEF FindWorkers
  <2>2. todo \in Todo(DOMAIN subtasks) /\ "halt" \in RunPc
    <3>1. todo \in [ Assigned -> SubtaskStatus ]
      BY KnownStatus DEF Noted, Assigned
    <3>2. Assigned \in SUBSET DOMAIN subtasks
      BY DEF Assigned
    <3> HIDE DEF todo
    <3> QED  BY <3>1, <3>2 DEF Todo, RunPc
  <2> HIDE DEF todo
  <2>3. Moves("tick", DOMAIN subtasks) /\ runs'["tick"].pc = "halt"
    BY <1>1, <2>1, <2>2, GoroutineMoves
  <2>4. SameWork
    BY <1>2, ChildrenWritten DEF FindWorkers
  <2> QED  BY <1>1, <2>3, <2>4, RowStays, StepKeeps
<1>3. ASSUME NEW n \in DOMAIN subtasks, StopWorker(n)
      PROVE  SharedInv' /\ SamePlan
  <2>1. n \in DOMAIN tick.todo /\ tick.todo \in Todo(DOMAIN subtasks)
    BY <1>1, <1>3 DEF StopWorker, Run
  <2>2. tick.todo[n] \in SubtaskStatus
    BY <2>1 DEF Todo
  <2>3. SameWork
    BY <1>3, <2>2, ChildrenWritten DEF StopWorker, Was, tick
  <2>4. CASE Finish("tick")
    <3>1. Moves("tick", DOMAIN subtasks) /\ runs'["tick"].pc = "idle"
      BY <1>1, <2>4, GoroutineMoves
    <3> QED  BY <1>1, <2>3, <3>1, RowStays, StepKeeps
  <2>5. CASE Dispatched("tick", n)
    <3> DEFINE todo == Restrict(tick.todo, DOMAIN tick.todo \ {n})
    <3>1. todo \in Todo(DOMAIN subtasks)
      BY <2>1, LessToNote
    <3>2. runs' = [ runs EXCEPT !["tick"].todo = todo ]
      BY <1>1, <2>5 DEF Dispatched, tick
    <3> HIDE DEF todo
    <3>3. /\ Moves("tick", DOMAIN subtasks) /\ runs'["tick"].pc = runs["tick"].pc
          /\ runs'["tick"].row = runs["tick"].row
      BY <1>1, <3>1, <3>2, GoroutineMoves
    <3> QED  BY <1>1, <2>3, <3>3, RowStays, StepKeeps
  <2> QED  BY <1>3, <2>4, <2>5 DEF StopWorker
<1> QED  BY <1>2, <1>3

-----------------------------------------------------------------------------
(* The rows of a plan                                                        *)

\* A finite set is listed in some order.
LEMMA Listed ==
  ASSUME NEW S, IsFiniteSet(S)
  PROVE  SetToSeq(S) \in Seq(S) /\ ToSet(SetToSeq(S)) = S
<1> DEFINE c == Cardinality(S)
           s == SetToSeq(S)
<1>1. c \in Nat /\ ExistsBijection(1 .. c, S)
  BY FS_CardinalityType
<1>2. \E f \in [ 1 .. c -> S ] :
        \A x, y \in DOMAIN f : f[x] = f[y] => x = y
  BY <1>1 DEF ExistsBijection, Bijection, Injection, IsInjective
<1>3. /\ s \in [ 1 .. c -> S ]
      /\ \A x, y \in DOMAIN s : s[x] = s[y] => x = y
  <2>1. s = CHOOSE f \in [ 1 .. c -> S ] :
               \A x, y \in DOMAIN f : f[x] = f[y] => x = y
    BY DEF SetToSeq, IsInjective
  <2> HIDE DEF c, s
  <2> QED  BY <1>2, <2>1
<1>4. s \in SetToSeqs(S)
  BY <1>3 DEF SetToSeqs
<1>5. s \in Seq(S)
  <2> HIDE DEF c, s
  <2> QED  BY <1>1, <1>3, SeqDef
<1>6. ToSet(s) = S
  <2> HIDE DEF c, s
  <2>1. PICK k \in Nat : /\ DOMAIN s = 1 .. k
                         /\ \A i \in 1 .. k : s[i] \in S
                         /\ \A m \in S : \E i \in 1 .. k : s[i] = m
    BY <1>4, AllAreListed
  <2> QED  BY <2>1 DEF ToSet
<1> QED  BY <1>5, <1>6

\* What two lists have.
LEMMA BothLists ==
  ASSUME NEW S, NEW s \in Seq(S), NEW t \in Seq(S)
  PROVE  s \o t \in Seq(S) /\ ToSet(s \o t) = ToSet(s) \cup ToSet(t)
<1>1. /\ s \o t \in Seq(S) /\ Len(s \o t) = Len(s) + Len(t)
      /\ Len(s) \in Nat /\ Len(t) \in Nat
      /\ DOMAIN s = 1 .. Len(s) /\ DOMAIN t = 1 .. Len(t)
      /\ DOMAIN (s \o t) = 1 .. (Len(s) + Len(t))
      /\ \A i \in 1 .. (Len(s) + Len(t)) :
           (s \o t)[i] = IF i <= Len(s) THEN s[i] ELSE t[i - Len(s)]
  BY ConcatProperties, LenProperties
<1> DEFINE k == Len(s)
           c == Len(t)
           u == s \o t
<1> HIDE DEF k, c, u
<1>2. /\ k \in Nat /\ c \in Nat
      /\ DOMAIN s = 1 .. k /\ DOMAIN t = 1 .. c /\ DOMAIN u = 1 .. (k + c)
      /\ \A i \in 1 .. (k + c) : u[i] = IF i <= k THEN s[i] ELSE t[i - k]
  BY <1>1 DEF k, c, u
<1>3. \A i \in 1 .. k : u[i] = s[i] /\ i \in DOMAIN u
  BY <1>2
<1>4. \A i \in 1 .. c : u[k + i] = t[i] /\ k + i \in DOMAIN u
  BY <1>2
<1>5. \A i \in DOMAIN u : u[i] \in ToSet(s) \cup ToSet(t)
  BY <1>2 DEF ToSet
<1>6. ToSet(u) = ToSet(s) \cup ToSet(t)
  <2>1. ToSet(u) \subseteq ToSet(s) \cup ToSet(t)
    BY <1>5 DEF ToSet
  <2>2. ToSet(s) \subseteq ToSet(u)
    BY <1>2, <1>3 DEF ToSet
  <2>3. ToSet(t) \subseteq ToSet(u)
    BY <1>2, <1>4 DEF ToSet
  <2> QED  BY <2>1, <2>2, <2>3
<1> QED  BY <1>1, <1>6 DEF u

\* An entry has its columns.
LEMMA Entries ==
  ASSUME NEW p \in DOMAIN Plans, NEW entries, entries = Plans[p].entries
  PROVE  /\ Len(entries) \in Nat /\ DOMAIN entries = 1 .. Len(entries)
         /\ entries \in Seq(PlanEntry)
         /\ DOMAIN Children[p] = 1 .. Len(entries)
         /\ \A n \in 1 .. Len(entries) :
              /\ entries[n] \in PlanEntry
              /\ entries[n].deps \in Seq(Nat) /\ entries[n].testsFor \in Seq(Nat)
              /\ entries[n].phase \in Phases /\ entries[n].files \in SUBSET STRING
              /\ ToSet(entries[n].deps) \subseteq 1 .. Len(entries)
<1>1. entries \in Seq(PlanEntry) /\ ValidPlan(entries, Plans[p].exempt)
  BY PlanningAssumption
<1>2. Len(entries) \in Nat /\ DOMAIN entries = 1 .. Len(entries)
  BY <1>1, LenProperties
<1>3. DOMAIN Children[p] = 1 .. Len(entries)
  BY <1>2 DEF Children, Materialize
<1>4. \A n \in DOMAIN entries : ToSet(entries[n].deps) \subseteq DOMAIN entries
  BY <1>1 DEF ValidPlan
<1>5. \A n \in 1 .. Len(entries) : entries[n] \in PlanEntry
  <2> HIDE DEF PlanEntry
  <2> QED  BY <1>1, <1>2
<1>6. \A e \in PlanEntry : /\ e.deps \in Seq(Nat) /\ e.testsFor \in Seq(Nat)
                           /\ e.phase \in Phases /\ e.files \in SUBSET STRING
  BY DEF PlanEntry
<1> HIDE DEF PlanEntry
<1> QED  BY <1>1, <1>2, <1>3, <1>4, <1>5, <1>6

\* The dependencies of a row are those of its entry and some more: a test that
\* covers it, for one.
LEMMA MergedDependencies ==
  ASSUME NEW p \in DOMAIN Plans, NEW entries, entries = Plans[p].entries,
         NEW n \in 1 .. Len(entries)
  PROVE  /\ MergeTDDDependencies(entries)[n] \in Seq(Nat)
         /\ ToSet(MergeTDDDependencies(entries)[n]) \subseteq 1 .. Len(entries)
         /\ \A m \in 1 .. Len(entries) :
              (/\ entries[m].phase = "test" /\ entries[m].testsFor = <<n>>
               /\ entries[n].phase # "integration")
              => m \in ToSet(MergeTDDDependencies(entries)[n])
<1> DEFINE In(phase) == { m \in DOMAIN entries : entries[m].phase = phase }
           Covering(i) == { m \in In("test") : entries[m].testsFor = <<i>> }
           More(i) == IF entries[i].phase = "integration"
                      THEN In("implementation") ELSE Covering(i)
           more == More(n)
           deps == entries[n].deps
           k == Len(entries)
           all == MergeTDDDependencies(entries)[n]
<1>1. /\ k \in Nat /\ DOMAIN entries = 1 .. k /\ deps \in Seq(Nat)
      /\ ToSet(deps) \subseteq 1 .. k
  BY Entries
<1>2. all = deps \o SetToSeq(more \ ToSet(deps))
  BY <1>1 DEF MergeTDDDependencies, Extended
<1>3. more \subseteq 1 .. k
  BY <1>1
<1>4. ASSUME NEW m \in 1 .. k, entries[m].phase = "test",
             entries[m].testsFor = <<n>>, entries[n].phase # "integration"
      PROVE  m \in more
  <2>1. m \in In("test")
    BY <1>1, <1>4
  <2>2. m \in Covering(n)
    BY <1>4, <2>1
  <2> QED  BY <1>4, <2>2
<1> HIDE DEF more
<1> DEFINE new == more \ ToSet(deps)
           list == SetToSeq(new)
<1>5. IsFiniteSet(new) /\ new \subseteq 1 .. k
  <2>1. new \subseteq 1 .. k
    BY <1>3
  <2> HIDE DEF new, k
  <2>2. IsFiniteSet(1 .. k)
    BY <1>1, FS_Interval
  <2> QED  BY <2>1, <2>2, FS_Subset
<1>6. list \in Seq(Nat) /\ ToSet(list) = new
  <2>1. list \in Seq(new) /\ ToSet(list) = new
    <3> HIDE DEF new
    <3> QED  BY <1>5, Listed
  <2>2. new \subseteq Nat
    BY <1>1, <1>5
  <2> HIDE DEF new, list
  <2>3. Len(list) \in Nat /\ list \in [ 1 .. Len(list) -> new ]
    BY <2>1, LenProperties
  <2>4. list \in [ 1 .. Len(list) -> Nat ]
    BY <2>2, <2>3
  <2> QED  BY <2>1, <2>3, <2>4, SeqDef
<1> HIDE DEF list, all, deps, k
<1>7. all \in Seq(Nat) /\ ToSet(all) = ToSet(deps) \cup new
  <2>1. all = deps \o list
    BY <1>2 DEF list
  <2> HIDE DEF new
  <2> QED  BY <1>1, <1>6, <2>1, BothLists
<1>8. ToSet(all) = ToSet(deps) \cup more
  BY <1>7
<1>9. \A m \in 1 .. k :
        (/\ entries[m].phase = "test" /\ entries[m].testsFor = <<n>>
         /\ entries[n].phase # "integration") => m \in ToSet(all)
  BY <1>4, <1>8
<1>10. ToSet(all) \subseteq 1 .. k
  BY <1>1, <1>3, <1>8
<1> QED  BY <1>7, <1>9, <1>10 DEF all, k

\* What covers a row is a test, and the row waits for it.
LEMMA CoveringTest ==
  ASSUME NEW p \in DOMAIN Plans, NEW m \in DOMAIN Children[p],
         Children[p][m].phase = "test", NEW n \in ToSet(Children[p][m].testsFor)
  PROVE  /\ n \in DOMAIN Children[p]
         /\ Children[p][n].phase = "implementation"
         /\ m \in ToSet(Children[p][n].deps)
<1> DEFINE entries == Plans[p].entries
           k == Len(entries)
           In(phase) == { i \in DOMAIN entries : entries[i].phase = phase }
<1>1. /\ k \in Nat /\ DOMAIN entries = 1 .. k /\ DOMAIN Children[p] = 1 .. k
      /\ entries[m].testsFor \in Seq(Nat)
  BY Entries
<1>2. \A i \in 1 .. k :
        /\ Children[p][i].phase = entries[i].phase
        /\ Children[p][i].testsFor = entries[i].testsFor
        /\ Children[p][i].deps = MergeTDDDependencies(entries)[i]
  BY <1>1 DEF Children, Materialize
<1>3. m \in In("test") /\ m \notin In("")
  BY <1>1, <1>2
<1>4. /\ Len(entries[m].testsFor) = 1
      /\ ToSet(entries[m].testsFor) \subseteq In("implementation")
  <2>1. ValidPlan(entries, Plans[p].exempt)
    BY PlanningAssumption
  <2>2. In("") # DOMAIN entries
    BY <1>1, <1>3
  <2> HIDE DEF entries
  <2> QED  BY <1>3, <2>1, <2>2 DEF ValidPlan
<1> HIDE DEF entries, k
<1>5. n \in 1 .. k /\ entries[n].phase = "implementation"
  BY <1>1, <1>2, <1>4
<1>6. entries[m].testsFor = <<n>>
  <2> DEFINE s == entries[m].testsFor
  <2>1. s \in Seq(Nat) /\ Len(s) = 1 /\ n \in ToSet(s)
    BY <1>1, <1>2, <1>4
  <2> HIDE DEF s
  <2>2. DOMAIN s = {1}
    <3>1. DOMAIN s = 1 .. Len(s)  BY <2>1, LenProperties
    <3> QED  BY <2>1, <3>1
  <2>3. s[1] = n
    BY <2>1, <2>2 DEF ToSet
  <2>4. s = <<n>>
    BY <2>1, <2>2, <2>3
  <2> QED  BY <2>4 DEF s
<1>7. m \in ToSet(MergeTDDDependencies(entries)[n])
  BY <1>1, <1>2, <1>5, <1>6, MergedDependencies DEF entries, k
<1> QED  BY <1>1, <1>2, <1>5, <1>7

-----------------------------------------------------------------------------
(* Decisions to dispatch                                                     *)

\* A repair keeps the order of the plan: a test that takes the place of another
\* covers the row, which waits for it anyway if both are rows of the plan.
LEMMA RepairedWork ==
  ASSUME SharedInv, subtasks' = RepairDependencies(subtasks)
  PROVE  SameWork
<1> DEFINE k == Len(subtasks)
           Revisions(n) == { m \in With(subtasks, "done") :
                               /\ subtasks[m].phase = "test"
                               /\ n \in ToSet(subtasks[m].testsFor) }
           Repaired(n, d) == IF /\ subtasks[d].phase = "test"
                                /\ subtasks[d].status = "rejected"
                             THEN Max(Revisions(n)) ELSE d
<1>1. /\ k \in Nat /\ DOMAIN subtasks = 1 .. k /\ subtasks \in Seq(Subtask)
      /\ \A n \in 1 .. k : ToSet(subtasks[n].deps) \subseteq 1 .. k
  BY LenProperties DEF SharedInv, Typed
<1> HIDE DEF k
<1>2. ASSUME NEW n \in 1 .. k
      PROVE  /\ subtasks[n] \in Subtask /\ subtasks[n].deps \in Seq(Nat)
             /\ Len(subtasks[n].deps) \in Nat
             /\ subtasks[n].deps \in [ 1 .. Len(subtasks[n].deps) -> Nat ]
             /\ DOMAIN subtasks[n].deps = 1 .. Len(subtasks[n].deps)
  <2>1. subtasks[n] \in Subtask
    BY <1>1
  <2>2. subtasks[n].deps \in Seq(Nat)
    BY <2>1 DEF Subtask
  <2> QED  BY <2>1, <2>2, LenProperties
<1>3. ASSUME NEW n \in 1 .. k, subtasks'[n] # subtasks[n]
      PROVE  /\ Max(Revisions(n)) \in Revisions(n)
             /\ subtasks'[n] = [ subtasks[n] EXCEPT !.deps =
                  [ i \in DOMAIN subtasks[n].deps |-> Repaired(n, subtasks[n].deps[i]) ] ]
  <2>1. /\ Revisions(n) # {}
        /\ subtasks'[n] = [ subtasks[n] EXCEPT !.deps =
             [ i \in DOMAIN subtasks[n].deps |-> Repaired(n, subtasks[n].deps[i]) ] ]
    BY <1>1, <1>3 DEF RepairDependencies
  <2>2. Revisions(n) \subseteq 1 .. k
    BY <1>1 DEF With
  <2> DEFINE S == Revisions(n)
  <2>3. Max(S) \in S
    <3> HIDE DEF S
    <3> QED  BY <1>1, <2>1, <2>2, Greatest DEF S
  <2> QED  BY <2>1, <2>3
<1>4. ASSUME NEW n \in 1 .. k, NEW deps,
             deps = [ i \in DOMAIN subtasks[n].deps |-> Repaired(n, subtasks[n].deps[i]) ],
             Max(Revisions(n)) \in Revisions(n)
      PROVE  /\ deps \in Seq(Nat)
             /\ ToSet(deps) \subseteq ToSet(subtasks[n].deps) \cup Revisions(n)
             /\ Revisions(n) \subseteq 1 .. k
  <2> DEFINE old == subtasks[n].deps
             x == Max(Revisions(n))
             c == Len(old)
  <2>1. Revisions(n) \subseteq 1 .. k /\ x \in Revisions(n)
    BY <1>1, <1>4 DEF With
  <2>2. /\ c \in Nat /\ DOMAIN old = 1 .. c /\ old \in [ 1 .. c -> Nat ]
    BY <1>2
  <2>3. \A i \in 1 .. c : deps[i] \in {old[i], x}
    BY <1>4, <2>2
  <2>4. DOMAIN deps = 1 .. c /\ deps = [ i \in 1 .. c |-> deps[i] ]
    BY <1>4, <2>2
  <2> DEFINE R == Revisions(n)
  <2> HIDE DEF x, c, old, Repaired, R
  <2>5. x \in Nat /\ x \in R
    BY <1>1, <2>1 DEF R
  <2>6. deps \in [ 1 .. c -> Nat ]
    BY <2>2, <2>3, <2>4, <2>5
  <2>7. deps \in Seq(Nat)
    BY <2>2, <2>6, SeqDef
  <2>8. ToSet(deps) \subseteq ToSet(old) \cup R
    BY <2>2, <2>3, <2>4, <2>5 DEF ToSet
  <2> QED  BY <2>1, <2>7, <2>8 DEF R, old
<1>5. ASSUME NEW n \in 1 .. k
      PROVE  /\ subtasks'[n] \in Subtask
             /\ subtasks'[n].phase = subtasks[n].phase
             /\ subtasks'[n].testsFor = subtasks[n].testsFor
             /\ subtasks'[n].files = subtasks[n].files
             /\ ToSet(subtasks'[n].deps) \subseteq ToSet(subtasks[n].deps) \cup Revisions(n)
             /\ Revisions(n) \subseteq 1 .. k
  <2>1. CASE subtasks'[n] = subtasks[n]
    BY <1>1, <1>2, <2>1 DEF With
  <2>2. CASE subtasks'[n] # subtasks[n]
    <3> DEFINE deps == [ i \in DOMAIN subtasks[n].deps |-> Repaired(n, subtasks[n].deps[i]) ]
               child == [ subtasks[n] EXCEPT !.deps = deps ]
    <3>1. subtasks'[n] = child /\ Max(Revisions(n)) \in Revisions(n)
      BY <1>3, <2>2
    <3>2. /\ deps \in Seq(Nat) /\ Revisions(n) \subseteq 1 .. k
          /\ ToSet(deps) \subseteq ToSet(subtasks[n].deps) \cup Revisions(n)
      BY <1>4, <3>1
    <3> HIDE DEF deps
    <3>3. /\ child \in Subtask /\ child.phase = subtasks[n].phase
          /\ child.testsFor = subtasks[n].testsFor
          /\ child.files = subtasks[n].files /\ child.deps = deps
      BY <1>2, <3>2 DEF Subtask
    <3> HIDE DEF child
    <3> QED  BY <3>1, <3>2, <3>3
  <2> QED  BY <2>1, <2>2
<1>6. DOMAIN subtasks' = 1 .. k /\ subtasks' = [ n \in 1 .. k |-> subtasks'[n] ]
  BY <1>1 DEF RepairDependencies
<1>7. subtasks' \in Seq(Subtask)
  <2>1. subtasks' \in [ 1 .. k -> Subtask ]
    BY <1>5, <1>6
  <2> QED  BY <1>1, <2>1, SeqDef
<1>8. ASSUME NEW n \in 1 .. k, n \in DOMAIN Children[task.plan]
      PROVE  ToSet(subtasks'[n].deps) \cap DOMAIN Children[task.plan]
               \subseteq ToSet(Children[task.plan][n].deps)
  <2>1. FollowsPlan
    <3>1. subtasks # <<>>
      BY <1>1
    <3> QED  BY <3>1 DEF SharedInv
  <2>2. ToSet(subtasks[n].deps) \cap DOMAIN Children[task.plan]
          \subseteq ToSet(Children[task.plan][n].deps)
    BY <1>8, <2>1 DEF FollowsPlan
  <2>3. ASSUME NEW m \in Revisions(n), m \in DOMAIN Children[task.plan]
        PROVE  m \in ToSet(Children[task.plan][n].deps)
    <3>1. /\ Children[task.plan][m].phase = "test"
          /\ n \in ToSet(Children[task.plan][m].testsFor)
          /\ task.plan \in DOMAIN Plans
      BY <2>1, <2>3 DEF FollowsPlan
    <3> QED  BY <2>3, <3>1, CoveringTest
  <2> QED  BY <1>5, <2>2, <2>3
<1> HIDE DEF Revisions
<1>9. \A n \in 1 .. k : ToSet(subtasks'[n].deps) \subseteq 1 .. k
  BY <1>1, <1>5
<1> QED  BY <1>1, <1>5, <1>6, <1>7, <1>8, <1>9 DEF SameWork

\* A goroutine decides what to dispatch, and does not write a row that is not
\* the task's.
LEMMA SchedulingStep ==
  ASSUME SharedInv, NEW g \in Goroutine, ScheduleTests(g) \/ (g = "tick" /\ ScheduleWork)
  PROVE  SharedInv' /\ SamePlan
<1>1. PICK pc, next, phase :
        /\ \/ pc = "tests" /\ next = "dispatch tests" /\ phase = "test"
           \/ pc = "work" /\ next = "dispatch work" /\ phase = ""
        /\ Schedule(g, pc, next, phase)
  BY DEF ScheduleTests, ScheduleWork
<1>2. PICK rows \in {RepairDependencies(subtasks)} :
      \E accepted \in Accepted(rows, task.ctx.schedule, phase) :
        /\ subtasks' = rows
        /\ runs' = [ runs EXCEPT ![g].pc = next,
                                 ![g].todo = Noted(rows, accepted) ]
        /\ Save(runs[g].row) \/ UNCHANGED task
  BY <1>1 DEF Schedule
<1>3. PICK accepted \in Accepted(subtasks', task.ctx.schedule, phase) :
        /\ subtasks' = RepairDependencies(subtasks)
        /\ runs' = [ runs EXCEPT ![g].pc = next,
                                 ![g].todo = Noted(subtasks', accepted) ]
        /\ Save(runs[g].row) \/ UNCHANGED task
  BY <1>2
<1>4. UNCHANGED <<planner, used>> /\ runs[g].pc = pc
  BY <1>1 DEF Schedule
<1>5. /\ pc \in LatePC /\ next \in LatePC /\ next \in RunPc
  BY <1>1 DEF LatePC, TestPC, WorkPC, RunPc
<1>6. subtasks # <<>> /\ LateRow(runs[g].row)
  BY <1>4, <1>5, LateFacts
<1>7. SameWork
  BY <1>3, RepairedWork
<1>8. RowStep
  BY <1>3, <1>6, <1>7, LateWrites
<1> DEFINE todo == Noted(subtasks', accepted)
<1>9. todo \in Todo(DOMAIN subtasks)
  <2>1. accepted \subseteq DOMAIN subtasks
    BY <1>7, AcceptedMayStart DEF SameWork
  <2>2. \A n \in DOMAIN subtasks : subtasks'[n].status \in SubtaskStatus
    <3>1. \A n \in DOMAIN subtasks : subtasks'[n] \in Subtask
      BY <1>7 DEF SameWork
    <3> QED  BY <3>1 DEF Subtask
  <2>3. todo \in [ accepted -> SubtaskStatus ]
    BY <2>1, <2>2 DEF Noted
  <2> HIDE DEF todo
  <2> QED  BY <2>1, <2>3 DEF Todo
<1> HIDE DEF todo
<1>10. /\ Moves(g, DOMAIN subtasks)
       /\ runs'[g].pc = next /\ runs'[g].row = runs[g].row
  <2>1. runs' = [ runs EXCEPT ![g].pc = next, ![g].todo = todo ]
    BY <1>3 DEF todo
  <2>2. runs \in [ Goroutine -> Run(DOMAIN subtasks) ]
    BY Facts
  <2> DEFINE S == DOMAIN subtasks
  <2> HIDE DEF S
  <2>3. /\ runs \in [ Goroutine -> Run(S) ] /\ todo \in Todo(S)
    BY <1>9, <2>2 DEF S
  <2>4. Moves(g, S) /\ runs'[g].pc = next /\ runs'[g].row = runs[g].row
    BY <1>5, <2>1, <2>3, GoroutineMoves
  <2> QED  BY <2>4 DEF S
<1>11. GoroutineInv(g)'
  BY <1>5, <1>6, <1>8, <1>10, LateGoesOn
<1> QED  BY <1>4, <1>7, <1>8, <1>10, <1>11, StepKeeps

-----------------------------------------------------------------------------
(* Operators after the approval                                              *)

\* Tests are approved, a child is retried, or a correction completes it.
LEMMA CorrectionStep ==
  ASSUME SharedInv,
         ApproveTests \/ \E n \in DOMAIN subtasks : RetrySubtask(n) \/ AdoptChild(n)
  PROVE  SharedInv' /\ SamePlan
<1>1. task \in Row
  BY DEF SharedInv, Typed
<1>2. CASE ApproveTests
  <2>1. /\ task.status = "test_review" /\ Transition(task, "in_progress")
        /\ UNCHANGED <<runs, planner, used, subtasks>>
    BY <1>2 DEF ApproveTests
  <2>2. Stage = "test_review" /\ subtasks # <<>>
    BY <2>1 DEF Stage, SharedInv, LifeInv, BeforeApproval
  <2>3. ~TickHolds /\ "in_progress" \in Stages
    BY <2>2, LateFacts DEF Goroutine, AfterApproval
  <2>4. SameWork  BY <2>1, ChildrenWritten
  <2>5. RowStep
    BY <1>1, <2>1, <2>3, <2>4, RowMoved
  <2> QED  BY <2>1, <2>4, <2>5, OperatorKeeps
<1>3. ASSUME NEW n \in DOMAIN subtasks, RetrySubtask(n)
      PROVE  SharedInv' /\ SamePlan
  <2>1. SameWork
    BY <1>3, ChildrenWritten DEF RetrySubtask, SubtaskStatus
  <2>2. RowStep
    BY <1>3, <2>1, RowStays DEF RetrySubtask
  <2> QED  BY <1>3, <2>1, <2>2, OperatorKeeps DEF RetrySubtask
<1>4. ASSUME NEW n \in DOMAIN subtasks, AdoptChild(n)
      PROVE  SharedInv' /\ SamePlan
  <2> DEFINE resume == IF subtasks[n].phase = "test" THEN "test_writing"
                                                     ELSE "in_progress"
             v == task.version + 1
             row == [ task EXCEPT !.status = resume, !.version = v ]
  <2>1. /\ task' = row /\ UNCHANGED <<runs, planner>> /\ Operate
        /\ subtasks' = [ subtasks EXCEPT ![n].status = "done", ![n].assigned = FALSE ]
    BY <1>4 DEF AdoptChild
  <2>2. SameWork
    BY <2>1, ChildrenWritten DEF SubtaskStatus
  <2>3. v \in Nat /\ v > task.version /\ resume \in {"test_writing", "in_progress"}
    BY <1>1, Columns
  <2> HIDE DEF v, resume
  <2>4. /\ row \in Row /\ row.status = resume /\ row.version = v
        /\ row.plan = task.plan /\ row.ctx = task.ctx
    BY <1>1, <2>3 DEF Row, PlanningStatus
  <2> HIDE DEF row
  <2>5. subtasks # <<>>
    OBVIOUS
  <2>6. ~TickHolds /\ resume \in Stages
    BY <2>3, <2>5, LateFacts DEF Goroutine, AfterApproval
  <2>7. SamePlan
    BY <2>1, <2>4 DEF SamePlan
  <2>8. RowStep
    BY <2>1, <2>2, <2>4, <2>6, <2>7, RowSaved
  <2> QED  BY <2>1, <2>2, <2>8, OperatorKeeps
<1> QED  BY <1>2, <1>3, <1>4

\* When tests are rejected every child has the work of one there was before, the
\* copies that of the tests they replace.
LEMMA ClonesFollow ==
  ASSUME SharedInv, NEW round \in Nat,
         NEW sources \in SetToSeqs(ReplacementSources(subtasks)),
         subtasks' = RejectTests(subtasks, round, sources)
  PROVE  /\ subtasks' \in Seq(Subtask) /\ DOMAIN subtasks \subseteq DOMAIN subtasks'
         /\ \A n \in DOMAIN subtasks' : \E m \in DOMAIN subtasks :
              /\ n \in DOMAIN subtasks => m = n
              /\ subtasks'[n].phase = subtasks[m].phase
              /\ subtasks'[n].testsFor = subtasks[m].testsFor
              /\ subtasks'[n].files = subtasks[m].files
              /\ subtasks'[n].deps = subtasks[m].deps
<1> DEFINE k == Len(subtasks)
           Clone(n) == [ subtasks[n] EXCEPT !.rev = round, !.status = "backlog",
                                            !.assigned = FALSE ]
           Stays(n) == IF subtasks[n].phase = "test" /\ subtasks[n].status = "done"
                       THEN [ subtasks[n] EXCEPT !.status = "rejected" ] ELSE subtasks[n]
           old == [ n \in DOMAIN subtasks |-> Stays(n) ]
           new == [ i \in DOMAIN sources |-> Clone(sources[i]) ]
           Follows(row, m) == /\ row \in Subtask
                              /\ row.phase = subtasks[m].phase
                              /\ row.testsFor = subtasks[m].testsFor
                              /\ row.files = subtasks[m].files
                              /\ row.deps = subtasks[m].deps
<1>1. k \in Nat /\ DOMAIN subtasks = 1 .. k /\ subtasks \in Seq(Subtask)
  BY LenProperties DEF SharedInv, Typed
<1>2. subtasks' = old \o new
  BY DEF RejectTests
<1> HIDE DEF k
<1>3. ASSUME NEW n \in 1 .. k
      PROVE  Follows(Stays(n), n) /\ Follows(Clone(n), n)
  <2>1. subtasks[n] \in Subtask
    BY <1>1
  <2> DEFINE rejected == [ subtasks[n] EXCEPT !.status = "rejected" ]
             clone == Clone(n)
  <2>2. Follows(rejected, n)
    BY <2>1 DEF Subtask, SubtaskStatus
  <2>3. Follows(clone, n)
    BY <2>1 DEF Subtask, SubtaskStatus
  <2>4. Follows(subtasks[n], n)
    BY <2>1
  <2> QED  BY <2>2, <2>3, <2>4
<1> HIDE DEF Clone, Stays, Follows
<1>4. old \in [ 1 .. k -> Subtask ] /\ \A n \in 1 .. k : Follows(old[n], n)
  BY <1>1, <1>3 DEF Follows
<1>5. PICK c \in Nat : /\ DOMAIN sources = 1 .. c
                       /\ \A i \in 1 .. c : sources[i] \in 1 .. k
  <2> DEFINE S == ReplacementSources(subtasks)
  <2>1. S \subseteq 1 .. k /\ IsFiniteSet(S)
    BY <1>1, SourcesOfTests
  <2> HIDE DEF S
  <2>2. sources \in SetToSeqs(S)
    BY DEF S
  <2>3. PICK c \in Nat : DOMAIN sources = 1 .. c /\ \A i \in 1 .. c : sources[i] \in S
    BY <2>1, <2>2, AllAreListed
  <2> QED  BY <2>1, <2>3
<1>6. new \in [ 1 .. c -> Subtask ] /\ \A i \in 1 .. c : Follows(new[i], sources[i])
  BY <1>3, <1>5 DEF Follows
<1> HIDE DEF old, new
<1>7. /\ old \in Seq(Subtask) /\ new \in Seq(Subtask)
      /\ old = [ n \in 1 .. k |-> old[n] ] /\ new = [ i \in 1 .. c |-> new[i] ]
  BY <1>1, <1>4, <1>6, SeqDef
<1>8. subtasks' = [ n \in 1 .. (k + c) |-> IF n <= k THEN old[n] ELSE new[n - k] ]
  BY <1>1, <1>2, <1>7, OneAfterAnother
<1>9. subtasks' \in Seq(Subtask)
  BY <1>2, <1>7, ConcatProperties
<1>10. DOMAIN subtasks' = 1 .. (k + c) /\ 1 .. k \subseteq 1 .. (k + c)
  BY <1>1, <1>8
<1>11. ASSUME NEW n \in 1 .. (k + c)
       PROVE  \E m \in 1 .. k : (n \in 1 .. k => m = n) /\ Follows(subtasks'[n], m)
  <2>1. CASE n <= k
    <3>1. n \in 1 .. k /\ subtasks'[n] = old[n]
      BY <1>1, <1>8, <2>1
    <3> QED  BY <1>4, <3>1
  <2>2. CASE ~(n <= k)
    <3>1. n - k \in 1 .. c /\ subtasks'[n] = new[n - k] /\ n \notin 1 .. k
      BY <1>1, <1>8, <2>2
    <3> QED  BY <1>5, <1>6, <3>1
  <2> QED  BY <2>1, <2>2
<1>12. ASSUME NEW n \in DOMAIN subtasks'
       PROVE  \E m \in DOMAIN subtasks :
                /\ n \in DOMAIN subtasks => m = n
                /\ subtasks'[n].phase = subtasks[m].phase
                /\ subtasks'[n].testsFor = subtasks[m].testsFor
                /\ subtasks'[n].files = subtasks[m].files
                /\ subtasks'[n].deps = subtasks[m].deps
  <2>1. PICK m \in 1 .. k : (n \in 1 .. k => m = n) /\ Follows(subtasks'[n], m)
    BY <1>10, <1>11
  <2> QED  BY <1>1, <2>1 DEF Follows
<1> QED  BY <1>1, <1>9, <1>10, <1>12

\* Tests are rejected: another round, or a pause.
LEMMA RejectionStep ==
  ASSUME SharedInv, RejectTestReview
  PROVE  SharedInv' /\ SamePlan
<1> DEFINE round == task.ctx.rejections + 1
           ctx == [ task.ctx EXCEPT !.rejections = round ]
           row == [ task EXCEPT !.ctx = ctx ]
           held == [ ctx EXCEPT !.pausedFrom = "test_writing" ]
           parked == [ row EXCEPT !.ctx = held ]
<1>1. row = [ task EXCEPT !.ctx.rejections = round ]
  OBVIOUS
<1>2. /\ task.status = "test_review" /\ UNCHANGED <<runs, planner>> /\ Operate
      /\ \/ /\ task' = Moved(Moved(parked, "test_writing"), "paused")
            /\ UNCHANGED subtasks
         \/ /\ Transition(row, "test_writing")
            /\ \E sources \in SetToSeqs(ReplacementSources(subtasks)) :
                 subtasks' = RejectTests(subtasks, round, sources)
  <2>1. parked = [ row EXCEPT !.ctx.pausedFrom = "test_writing" ]
    <3> HIDE DEF ctx
    <3>1. row.ctx = ctx
      BY DEF SharedInv, Typed, Row
    <3> QED  BY <3>1
  <2> HIDE DEF parked, row, round
  <2> QED  BY <1>1, <2>1 DEF RejectTestReview, round
<1>3. task \in Row /\ task.version \in Nat /\ task.ctx \in Context
  BY Columns DEF SharedInv, Typed
<1>4. round \in Nat /\ ctx \in Context /\ ctx.schedule = task.ctx.schedule
  BY <1>3, ContextWritten
<1> HIDE DEF round, ctx
<1>5. /\ held \in Context /\ held.schedule = task.ctx.schedule
      /\ held.pausedFrom = "test_writing"
  <2>1. "test_writing" \in PlanningStatus  BY DEF PlanningStatus
  <2> QED  BY <1>4, <2>1, ContextWritten
<1> HIDE DEF held
<1>6. /\ row \in Row /\ row.ctx = ctx /\ row.status = task.status
      /\ row.version = task.version /\ row.plan = task.plan
  BY <1>3, <1>4 DEF Row
<1>7. /\ parked \in Row /\ parked.ctx = held /\ parked.status = task.status
      /\ parked.version = task.version /\ parked.plan = task.plan
  BY <1>5, <1>6 DEF Row
<1> HIDE DEF row, parked
<1>8. Stage = "test_review" /\ subtasks # <<>>
  BY <1>2 DEF Stage, SharedInv, LifeInv, BeforeApproval
<1>9. ~TickHolds /\ Stages = AfterApproval \cup {"failed"}
  BY <1>8, LateFacts DEF Goroutine
<1>10. CASE /\ task' = Moved(Moved(parked, "test_writing"), "paused")
            /\ UNCHANGED subtasks
  <2> DEFINE v == parked.version + 1
             moved == [ parked EXCEPT !.status = "test_writing", !.version = v ]
             w == moved.version + 1
  <2>1. task' = [ moved EXCEPT !.status = "paused", !.version = w ]
    BY <1>10 DEF Moved
  <2>2. v \in Nat /\ v > task.version
    BY <1>3, <1>7
  <2> HIDE DEF v
  <2>3. /\ moved \in Row /\ moved.version = v /\ moved.ctx = held
        /\ moved.plan = task.plan
    BY <1>7, <2>2 DEF Row, PlanningStatus
  <2> HIDE DEF moved
  <2>4. w \in Nat /\ w > task.version
    BY <1>3, <2>2, <2>3
  <2> HIDE DEF w
  <2>5. SameWork  BY <1>10, ChildrenWritten
  <2>6. RowStep
    BY <1>5, <1>9, <2>1, <2>3, <2>4, <2>5, RowPaused DEF AfterApproval
  <2> QED  BY <1>2, <2>5, <2>6, OperatorKeeps
<1>11. ASSUME Transition(row, "test_writing"),
              NEW sources \in SetToSeqs(ReplacementSources(subtasks)),
              subtasks' = RejectTests(subtasks, round, sources)
       PROVE  SharedInv' /\ SamePlan
  <2>1. /\ subtasks' \in Seq(Subtask) /\ DOMAIN subtasks \subseteq DOMAIN subtasks'
        /\ \A n \in DOMAIN subtasks' : \E m \in DOMAIN subtasks :
             /\ n \in DOMAIN subtasks => m = n
             /\ subtasks'[n].phase = subtasks[m].phase
             /\ subtasks'[n].testsFor = subtasks[m].testsFor
             /\ subtasks'[n].files = subtasks[m].files
             /\ subtasks'[n].deps = subtasks[m].deps
    BY <1>4, <1>11, ClonesFollow
  <2>2. subtasks' # <<>>
    <3>1. subtasks \in Seq(Subtask)
      BY DEF SharedInv, Typed
    <3>2. DOMAIN subtasks # {}
      BY <1>8, <3>1, EmptySeq, LenProperties
    <3> QED  BY <2>1, <3>2
  <2> DEFINE v == row.version + 1
  <2>3. task' = [ row EXCEPT !.status = "test_writing", !.version = v ]
    BY <1>6, <1>11 DEF Transition, Current, Moved
  <2>4. v \in Nat /\ v > task.version
    BY <1>3, <1>6
  <2> HIDE DEF v
  <2>5. /\ task' \in Row /\ task'.status = "test_writing" /\ task'.version = v
        /\ task'.ctx = ctx /\ task'.plan = task.plan
    BY <1>6, <2>3, <2>4 DEF Row, PlanningStatus
  <2>6. LifeInv'
    BY <2>2, <2>5 DEF LifeInv, Stage, AfterApproval
  <2>7. RowStep
    BY <1>4, <1>8, <1>9, <2>2, <2>4, <2>5, <2>6 DEF RowStep, SamePlan
  <2>8. /\ Moves("tick", DOMAIN subtasks) /\ "tick" \in Goroutine
        /\ runs \in [ Goroutine -> Run(DOMAIN subtasks) ]
    BY <1>2 DEF Moves, SharedInv, Typed, Goroutine
  <2>9. \A h \in Goroutine : GoroutineInv(h)'
    BY <1>2, <2>7, <2>8, GoroutinesKeep
  <2>10. runs' \in [ Goroutine -> Run(DOMAIN subtasks') ]
    <3>1. Run(DOMAIN subtasks) \subseteq Run(DOMAIN subtasks')
      BY <2>1, MoreToNote
    <3> QED  BY <1>2, <2>8, <3>1
  <2>11. \A n \in DOMAIN subtasks' : ToSet(subtasks'[n].deps) \subseteq DOMAIN subtasks'
    <3>1. \A m \in DOMAIN subtasks : ToSet(subtasks[m].deps) \subseteq DOMAIN subtasks
      BY DEF SharedInv, Typed
    <3> QED  BY <2>1, <3>1
  <2>12. used' \in [ operations : 0 .. MaxOperations, faults : 0 .. MaxFaults ]
    <3> DEFINE operations == used.operations + 1
    <3>1. /\ used \in [ operations : 0 .. MaxOperations, faults : 0 .. MaxFaults ]
          /\ MaxOperations \in Nat
      BY PlanningAssumption DEF SharedInv, Typed
    <3>2. /\ operations \in 0 .. MaxOperations
          /\ used' = [ used EXCEPT !.operations = operations ]
      BY <1>2, <3>1 DEF Operate
    <3> HIDE DEF operations
    <3> QED  BY <3>1, <3>2
  <2>13. planner' \in [ pc : {"idle", "claim", "asked"}, row : Row ]
    BY <1>2 DEF SharedInv, Typed
  <2>14. Typed'
    BY <2>1, <2>5, <2>10, <2>11, <2>12, <2>13 DEF Typed, Goroutine
  <2>15. AskedInv'
    BY <1>2, <2>2 DEF SharedInv, AskedInv
  <2>16. FollowsPlan'
    <3>1. FollowsPlan
      BY <1>8 DEF SharedInv
    <3>2. task'.plan = task.plan /\ task'.ctx.schedule = task.ctx.schedule
      BY <1>4, <2>5
    <3>3. \A n \in DOMAIN Children[task.plan] :
            /\ n \in DOMAIN subtasks /\ n \in DOMAIN subtasks'
            /\ subtasks'[n].phase = subtasks[n].phase
            /\ subtasks'[n].testsFor = subtasks[n].testsFor
            /\ subtasks'[n].files = subtasks[n].files
            /\ subtasks'[n].deps = subtasks[n].deps
      BY <2>1, <3>1 DEF FollowsPlan
    <3> QED  BY <3>1, <3>2, <3>3 DEF FollowsPlan
  <2> QED
    BY <2>6, <2>7, <2>9, <2>14, <2>15, <2>16 DEF SharedInv, RowStep, Goroutine
<1> QED  BY <1>2, <1>10, <1>11

-----------------------------------------------------------------------------
(* The approval                                                              *)

\* The rows of a plan are children, which wait for each other only,
LEMMA ChildrenTyped ==
  ASSUME NEW p \in DOMAIN Plans
  PROVE  /\ Children[p] \in Seq(Subtask) /\ DOMAIN Children[p] # {}
         /\ Children[p] # <<>>
         /\ \A n \in DOMAIN Children[p] :
              ToSet(Children[p][n].deps) \subseteq DOMAIN Children[p]
<1> DEFINE entries == Plans[p].entries
           k == Len(entries)
<1>1. /\ k \in Nat /\ DOMAIN entries = 1 .. k /\ DOMAIN Children[p] = 1 .. k
      /\ \A n \in 1 .. k :
           /\ entries[n].testsFor \in Seq(Nat) /\ entries[n].phase \in Phases
           /\ entries[n].files \in SUBSET STRING
  BY Entries
<1>2. 1 .. k # {}
  <2>1. ValidPlan(entries, Plans[p].exempt)
    BY PlanningAssumption
  <2> HIDE DEF entries
  <2> QED  BY <1>1, <2>1 DEF ValidPlan
<1>3. ASSUME NEW n \in 1 .. k
      PROVE  /\ MergeTDDDependencies(entries)[n] \in Seq(Nat)
             /\ ToSet(MergeTDDDependencies(entries)[n]) \subseteq 1 .. k
  BY MergedDependencies
<1> HIDE DEF entries
<1>4. ASSUME NEW n \in 1 .. k
      PROVE  /\ Children[p][n] \in Subtask
             /\ Children[p][n].deps = MergeTDDDependencies(entries)[n]
  <2> DEFINE deps == MergeTDDDependencies(entries)[n]
             i == k - n + 1
  <2>1. Children[p][n] = [ entry |-> n, rev |-> 0, phase |-> entries[n].phase,
          status |-> "backlog", deps |-> deps, testsFor |-> entries[n].testsFor,
          files |-> entries[n].files, priority |-> i, assigned |-> FALSE,
          kind |-> "none" ]
    BY <1>1 DEF Children, Materialize, entries
  <2>2. deps \in Seq(Nat) /\ i \in Nat /\ n \in Nat
    BY <1>1, <1>3
  <2> HIDE DEF deps, i
  <2>3. Children[p][n] \in Subtask /\ Children[p][n].deps = deps
    BY <1>1, <2>1, <2>2 DEF Subtask, SubtaskStatus
  <2> QED  BY <2>3 DEF deps
<1>5. Children[p] = [ n \in 1 .. k |-> Children[p][n] ]
  BY <1>1 DEF Children, Materialize, entries
<1> HIDE DEF k
<1>6. Children[p] \in [ 1 .. k -> Subtask ]
  BY <1>4, <1>5
<1>7. Children[p] \in Seq(Subtask)
  BY <1>1, <1>6, SeqDef
<1>8. DOMAIN Children[p] # {} /\ Children[p] # <<>>
  BY <1>1, <1>2
<1> QED  BY <1>1, <1>3, <1>4, <1>7, <1>8

\* and a schedule has a wave for each.
LEMMA ScheduleTyped ==
  ASSUME NEW p \in DOMAIN Plans, NEW schedule \in Schedules[p]
  PROVE  schedule \in Seq(Nat) /\ DOMAIN schedule = DOMAIN Children[p]
<1> DEFINE rows == Children[p]
           k == Len(rows)
<1>1. k \in Nat /\ DOMAIN rows = 1 .. k
  <2>1. rows \in Seq(Subtask)  BY ChildrenTyped
  <2> HIDE DEF rows
  <2> QED  BY <2>1, LenProperties
<1>2. schedule \in BuildSchedule(rows)
  BY DEF Schedules
<1> HIDE DEF rows, k
<1>3. schedule \in [ 1 .. k -> Nat ]
  BY <1>1, <1>2 DEF BuildSchedule, k
<1>4. schedule \in Seq(Nat)
  BY <1>1, <1>3, SeqDef
<1> QED  BY <1>1, <1>3, <1>4 DEF rows

\* The plan is approved, while no goroutine holds a row.
LEMMA ApprovalStep ==
  ASSUME SharedInv, ApprovePlan
  PROVE  SharedInv' /\ SamePlan
<1>1. /\ task.status = "plan_review" /\ task.plan # NoPlan /\ subtasks = <<>>
      /\ UNCHANGED <<runs, planner, used>>
  BY DEF ApprovePlan
<1>2. task \in Row /\ task.plan \in DOMAIN Plans
  BY <1>1, Columns DEF SharedInv, Typed
<1>3. PICK schedule \in Schedules[task.plan], to \in {"test_writing", "in_progress"} :
        Transition([ task EXCEPT !.ctx.schedule = schedule ], to)
  BY <1>2, ApprovedChildren
<1>4. subtasks' = Children[task.plan]
  BY <1>2, ApprovedChildren
<1> DEFINE ctx == [ task.ctx EXCEPT !.schedule = schedule ]
           row == [ task EXCEPT !.ctx = ctx ]
<1>5. Transition(row, to)
  BY <1>3
<1>6. ctx \in Context /\ ctx.schedule = schedule
  <2>1. schedule \in Seq(Nat)
    BY <1>2, ScheduleTyped
  <2>2. task.ctx \in Context
    BY <1>2, Columns
  <2> QED  BY <2>1, <2>2, ContextWritten
<1> HIDE DEF ctx
<1>7. /\ row \in Row /\ row.ctx = ctx /\ row.status = task.status
      /\ row.version = task.version /\ row.plan = task.plan
  BY <1>2, <1>6 DEF Row
<1> HIDE DEF row
<1> DEFINE v == row.version + 1
<1>8. task' = [ row EXCEPT !.status = to, !.version = v ]
  BY <1>5, <1>7 DEF Transition, Current, Moved
<1>9. v \in Nat /\ v # task.version
  BY <1>2, <1>7, Columns
<1> HIDE DEF v
<1>10. /\ task' \in Row /\ task'.status = to /\ task'.version = v
       /\ task'.ctx.schedule = schedule /\ task'.plan = task.plan
  BY <1>6, <1>7, <1>8, <1>9 DEF Row, PlanningStatus
<1>11. subtasks' # <<>> /\ subtasks' \in Seq(Subtask)
  BY <1>2, <1>4, ChildrenTyped
<1>12. LifeInv'
  BY <1>10, <1>11 DEF LifeInv, Stage, AfterApproval
<1>13. \A g \in Goroutine : runs[g].pc \notin PlanPC \cup LatePC
  <2>1. ASSUME NEW g \in Goroutine
        PROVE  runs[g].pc \notin PlanPC \cup LatePC
    <3>1. GoroutineInv(g) /\ Stage = "plan_review"
      BY <1>1, Facts DEF Stage
    <3> QED  BY <1>1, <3>1 DEF GoroutineInv, LatePC
  <2> QED  BY <2>1
<1>14. \A g \in Goroutine : GoroutineInv(g)'
  BY <1>1, <1>13 DEF GoroutineInv, LatePC, PlanPC
<1>15. runs' \in [ Goroutine -> Run(DOMAIN subtasks') ]
  <2>1. Run(DOMAIN subtasks) \subseteq Run(DOMAIN subtasks')
    <3>1. DOMAIN subtasks = {}
      BY <1>1
    <3> QED  BY <3>1, MoreToNote
  <2>2. runs \in [ Goroutine -> Run(DOMAIN subtasks) ]
    BY DEF SharedInv, Typed
  <2> QED  BY <1>1, <2>1, <2>2
<1>16. Typed'
  <2>1. /\ planner \in [ pc : {"idle", "claim", "asked"}, row : Row ]
        /\ used \in [ operations : 0 .. MaxOperations, faults : 0 .. MaxFaults ]
    BY DEF SharedInv, Typed
  <2>2. \A n \in DOMAIN subtasks' : ToSet(subtasks'[n].deps) \subseteq DOMAIN subtasks'
    BY <1>2, <1>4, ChildrenTyped
  <2> QED  BY <1>1, <1>10, <1>11, <1>15, <2>1, <2>2 DEF Typed, Goroutine
<1>17. AskedInv'
  BY <1>1, <1>11 DEF SharedInv, AskedInv
<1>18. FollowsPlan'
  BY <1>2, <1>4, <1>10 DEF FollowsPlan
<1>19. SamePlan
  BY <1>9, <1>10 DEF SamePlan
<1> QED  BY <1>12, <1>14, <1>16, <1>17, <1>18, <1>19 DEF SharedInv, Goroutine

-----------------------------------------------------------------------------
(* The invariant                                                             *)

\* It holds in the beginning.
LEMMA SharedStart ==
  ASSUME Init
  PROVE  SharedInv
<1>1. /\ task = NewRow /\ runs = [ g \in Goroutine |-> RunAtRest ]
      /\ planner = [ pc |-> "idle", row |-> NewRow ]
      /\ used = [ operations |-> 0, faults |-> 0 ] /\ subtasks = <<>>
  BY DEF Init, PlanningInit, PlannerAtRest
<1>2. /\ NewRow \in Row /\ RunAtRest \in Run(DOMAIN subtasks)
      /\ RunAtRest.pc = "idle"
  BY RestingRun
<1>3. Typed
  <2>1. <<>> \in Seq(Subtask) /\ MaxOperations \in Nat /\ MaxFaults \in Nat
    BY PlanningAssumption
  <2> HIDE DEF NewRow, RunAtRest, Row, Subtask
  <2> QED  BY <1>1, <1>2, <2>1 DEF Typed
<1>4. LifeInv /\ AskedInv
  BY <1>1 DEF LifeInv, AskedInv, NewRow, Stage, BeforeApproval
<1>5. \A g \in Goroutine : GoroutineInv(g)
  BY <1>1, <1>2 DEF GoroutineInv, PlanPC, TestPC, WorkPC
<1> QED  BY <1>1, <1>3, <1>4, <1>5 DEF SharedInv

\* Every step keeps it, and the plan that is reviewed.
LEMMA SharedStep ==
  ASSUME SharedInv, [Next]_vars
  PROVE  SharedInv' /\ SamePlan
<1>1. CASE UNCHANGED vars
  <2>1. SameWork /\ RowStep
    BY <1>1, ChildrenWritten, RowStays DEF vars
  <2> QED  BY <1>1, <2>1, OperatorKeeps DEF vars
<1>2. ASSUME NEW g \in Goroutine, Proceeds(g)
      PROVE  SharedInv' /\ SamePlan
  <2>1. CASE EnsureBranch(g) /\ UNCHANGED subtasks
    BY <2>1, BranchStep
  <2>2. CASE ScheduleTests(g)
    BY <2>2, SchedulingStep
  <2>3. CASE \E n \in DOMAIN subtasks : StartWorker(g, n)
    BY <2>3, DispatchStep
  <2>4. CASE JudgeTests(g) \/ ProposeTests(g) \/ JudgeFeature(g) \/ RecordDrain(g)
               \/ FailParent(g) \/ DeliverFeature(g)
    BY <2>4, JudgementStep
  <2>5. CASE AdvanceParent(g)
    BY <2>5, AdvanceStep
  <2> QED  BY <1>2, <2>1, <2>2, <2>3, <2>4, <2>5 DEF Proceeds
<1>3. CASE TickRuns
  <2>1. "tick" \in Goroutine
    BY DEF Goroutine
  <2>2. CASE TickPlans /\ UNCHANGED subtasks
    <3>1. CASE ProcessBacklog \/ AskClarification \/ ProposePlan
      BY <2>2, <3>1, TickEnds
    <3>2. CASE ClearPlan \/ BlockPlannerCapacity
      BY <2>2, <3>2, TickSaves
    <3>3. CASE DispatchPlanner
      BY <2>2, <3>3, PlannerIsAsked
    <3>4. CASE BeginPhase("backlog", "backlog") \/ BeginPhase("planning", "planning")
      BY <2>2, <3>4, PhaseBegins DEF PlanPC
    <3> QED  BY <2>2, <3>1, <3>2, <3>3, <3>4 DEF TickPlans
  <2>3. CASE /\ UNCHANGED subtasks
             /\ BeginPhase("test_writing", "tests") \/ BeginPhase("in_progress", "work")
    BY <2>3, PhaseBegins
  <2>4. CASE ScheduleWork
    BY <2>1, <2>4, SchedulingStep
  <2>5. CASE FindWorkers \/ \E n \in DOMAIN subtasks : StopWorker(n)
    BY <2>5, HaltStep
  <2> QED  BY <1>3, <2>2, <2>3, <2>4, <2>5 DEF TickRuns
<1>4. CASE (ClaimRequest \/ PlannerAnswers \/ LoseRequest \/ OperatorPlans \/ Restart)
             /\ UNCHANGED subtasks
  <2>1. CASE OperatorPlans
    BY <1>4, <2>1, ReviewStep, PauseStep DEF OperatorPlans
  <2> QED  BY <1>4, <2>1, ClaimStep, AnswerStep, RestartKeeps
<1>5. CASE Completes
  BY <1>5, ExitStep DEF Completes
<1>6. CASE Operators
  <2>1. CASE \E p \in DOMAIN Plans : RevisePlan(p)
    <3>1. UNCHANGED subtasks
      BY <2>1 DEF RevisePlan
    <3> QED  BY <2>1, <3>1, ReviewStep
  <2> QED
    BY <1>6, <2>1, ApprovalStep, CorrectionStep, RejectionStep, RetryStep DEF Operators
<1>7. CASE Faults
  BY <1>7, JudgementStep, DispatchStep, ExitStep DEF Faults
<1> QED  BY <1>1, <1>2, <1>3, <1>4, <1>5, <1>6, <1>7 DEF Next, Steps

\* The rows every party holds agree with the task as far as they can still be
\* written, and the children follow their plan, also while container events are
\* handled: the invariant of PlanExecution.
THEOREM SharedInvariant == Spec => []SharedInv
<1>1. Init => SharedInv
  BY SharedStart
<1>2. SharedInv /\ [Next]_vars => SharedInv'
  BY SharedStep
<1> QED  BY <1>1, <1>2, PTL DEF Spec

\* The rows, goroutines and children have their types, every dependency is a
\* child, and without container events only a child in progress has a worker.
THEOREM PlanTypes == Spec => []PlanTypeOK
<1>1. SharedInv /\ (~EventStream => PlanInv) => PlanTypeOK
  <2> SUFFICES ASSUME SharedInv, ~EventStream => PlanInv
               PROVE  PlanTypeOK
    OBVIOUS
  <2>1. /\ task \in Row /\ DOMAIN runs = Goroutine
        /\ planner \in [ pc : {"idle", "claim", "asked"}, row : Row ]
        /\ used \in [ operations : 0 .. MaxOperations, faults : 0 .. MaxFaults ]
    BY DEF SharedInv, Typed
  <2>2. ASSUME NEW g \in Goroutine
        PROVE  /\ DOMAIN runs[g] = {"pc", "row", "todo", "locked"}
               /\ runs[g].pc \in RunPc /\ runs[g].row \in Row
               /\ runs[g].locked \in BOOLEAN
               /\ \E S \in SUBSET DOMAIN subtasks : runs[g].todo \in [S -> SubtaskStatus]
    <3>1. runs[g] \in Run(DOMAIN subtasks)
      BY Facts
    <3>2. runs[g].todo \in Todo(DOMAIN subtasks)
      BY <3>1 DEF Run
    <3> QED  BY <3>1, <3>2 DEF Run, Todo
  <2>3. ASSUME NEW n \in DOMAIN subtasks
        PROVE  /\ DOMAIN subtasks[n] = { "entry", "rev", "phase", "status", "deps",
                                         "testsFor", "files", "priority",
                                         "assigned", "kind" }
               /\ subtasks[n].status \in SubtaskStatus
               /\ ToSet(subtasks[n].deps) \subseteq DOMAIN subtasks
               /\ subtasks[n].assigned /\ ~EventStream =>
                    subtasks[n].status = "in_progress"
    <3>1. subtasks[n] \in Subtask /\ ToSet(subtasks[n].deps) \subseteq DOMAIN subtasks
      BY DEF SharedInv, Typed
    <3>2. subtasks[n].assigned /\ ~EventStream => subtasks[n].status = "in_progress"
      BY DEF PlanInv, ChildrenInv
    <3> QED  BY <3>1, <3>2 DEF Subtask
  <2> QED  BY <2>1, <2>2, <2>3 DEF PlanTypeOK
<1>2. CASE EventStream
  BY <1>1, <1>2, SharedInvariant, PTL
<1>3. CASE ~EventStream
  BY <1>1, <1>3, SharedInvariant, PlanInvariant, PTL
<1> QED  BY <1>2, <1>3

\* A plan that arrives late is dropped, and whoever reviews a plan decides on the
\* one it saw, whatever the tick, a planner, container events and operators do.
THEOREM LatePlansAreDropped == Spec => ReviewedPlanIsStable
<1>1. SharedInv /\ [Next]_vars
        => [ (task.status # "planning" /\ task'.version = task.version)
               => task'.plan = task.plan ]_vars
  BY SharedStep DEF SamePlan
<1> QED  BY <1>1, SharedInvariant, PTL DEF Spec, ReviewedPlanIsStable

-----------------------------------------------------------------------------
(* Waves                                                                     *)

\* A bounded set of numbers has a greatest one, with zero as well.
LEMMA GreatestOrZero ==
  ASSUME NEW k \in Nat, NEW S, S \subseteq 0 .. k, S # {}
  PROVE  Max(S) \in S /\ \A x \in S : x <= Max(S)
<1> DEFINE T == {k - x : x \in S}
<1>1. T \subseteq Nat /\ T # {}
  <2>1. \A x \in S : x \in Int /\ 0 <= x /\ x <= k
    OBVIOUS
  <2>2. \A x \in S : k - x \in Nat
    BY <2>1
  <2> QED  BY <2>2
<1> HIDE DEF T
<1>2. PICK t \in T : \A u \in T : t <= u
  BY <1>1, Least
<1>3. PICK x \in S : t = k - x
  BY DEF T
<1>4. \A y \in S : x >= y
  <2>1. ASSUME NEW y \in S  PROVE x >= y
    <3>1. k - x <= k - y  BY <1>2, <1>3 DEF T
    <3> QED  BY <3>1
  <2> QED  BY <2>1
<1>5. \A y \in S : Max(S) >= y /\ Max(S) \in S
  BY <1>4 DEF Max
<1> QED  BY <1>5

\* A row is put above what it waits for and apart from its neighbours, as far as
\* they have a place: there is one left, whichever place each of them has.
LEMMA FirstColour ==
  ASSUME NEW k \in Nat, NEW rows, Len(rows) = k, NEW colours,
         \A m \in DOMAIN colours : colours[m] \in 0 .. k - 1, NEW n,
         NEW x, x = ColourOf(rows, colours, n)
  PROVE  /\ \A m \in Neighbours(rows, n) \cap DOMAIN colours : x # colours[m]
         /\ \A m \in ToSet(rows[n].deps) \cap DOMAIN colours : x > colours[m]
<1> DEFINE Coloured(S) == { colours[m] : m \in S \cap DOMAIN colours }
           above == {0} \cup { c + 1 : c \in Coloured(ToSet(rows[n].deps)) }
           least == Max(above)
           taken == Coloured(Neighbours(rows, n))
           open == (least .. k) \ taken
<1>1. x = Min(open)
  BY DEF ColourOf
<1>2. \A S : Coloured(S) \subseteq 0 .. k - 1
  OBVIOUS
<1> HIDE DEF Coloured
<1>3. above \subseteq 0 .. k /\ above # {}
  BY <1>2
<1> HIDE DEF above
<1>4. least \in above /\ \A c \in above : c <= least
  BY <1>3, GreatestOrZero
<1>5. least \in 0 .. k
  BY <1>3, <1>4
<1>6. taken \subseteq 0 .. k - 1
  BY <1>2
<1> HIDE DEF least, taken
<1>7. open \subseteq Nat /\ k \in open
  BY <1>5, <1>6
<1>8. x \in open
  <2> HIDE DEF open
  <2>1. PICK y \in open : \A z \in open : y <= z
    BY <1>7, Least
  <2> QED  BY <1>1, <2>1 DEF Min
<1>9. x \in Nat /\ x >= least /\ x \notin taken
  BY <1>5, <1>7, <1>8
<1> HIDE DEF open
<1>10. ASSUME NEW m \in Neighbours(rows, n) \cap DOMAIN colours
       PROVE  x # colours[m]
  <2>1. colours[m] \in taken
    BY DEF taken, Coloured
  <2> QED  BY <1>9, <2>1
<1>11. ASSUME NEW m \in ToSet(rows[n].deps) \cap DOMAIN colours
       PROVE  x > colours[m]
  <2>1. colours[m] + 1 \in above /\ colours[m] \in Nat
    BY DEF above, Coloured
  <2>2. colours[m] + 1 <= least
    BY <1>4, <2>1
  <2> QED  BY <1>5, <1>9, <2>1, <2>2
<1> QED  BY <1>10, <1>11

\* The order the rows are looked at in has each of them once, and if they do not
\* wait for each other, what a row waits for comes before it.
LEMMA WorkIsOrdered ==
  ASSUME NEW k \in Nat, NEW rows, DOMAIN rows = 1 .. k,
         NEW order \in TopologicalSortByDegree(rows)
  PROVE  /\ \A n \in 1 .. k : \E i \in DOMAIN order : order[i] = n
         /\ \E c \in Nat : DOMAIN order = 1 .. c
         /\ (\A S \in SUBSET DOMAIN rows : S # {} => Unblocked(rows, S) # {}) =>
              \A i, j \in DOMAIN order :
                order[j] \in ToSet(rows[order[i]].deps) => j < i
<1>1. IsFiniteSet(1 .. k)
  BY FS_Interval
<1>2. order \in SetToSeqs(1 .. k)
  BY DEF TopologicalSortByDegree
<1>3. PICK c \in Nat : /\ DOMAIN order = 1 .. c /\ order = [ i \in 1 .. c |-> order[i] ]
                       /\ \A i \in 1 .. c : order[i] \in 1 .. k
                       /\ \A n \in 1 .. k : \E i \in 1 .. c : order[i] = n
  <2> DEFINE S == 1 .. k
  <2> HIDE DEF S
  <2>1. IsFiniteSet(S) /\ order \in SetToSeqs(S)
    BY <1>1, <1>2 DEF S
  <2>2. PICK c \in Nat : /\ DOMAIN order = 1 .. c
                         /\ order = [ i \in 1 .. c |-> order[i] ]
                         /\ \A i \in 1 .. c : order[i] \in S
                         /\ \A n \in S : \E i \in 1 .. c : order[i] = n
    BY <2>1, AllAreListed
  <2> QED  BY <2>2 DEF S
<1>4. Len(order) = c
  BY <1>3, IsSequence
<1> DEFINE Left(i) == { order[j] : j \in i .. c }
<1>5. PICK queued \in 0 .. c :
        /\ \A i \in 1 .. queued : order[i] \in Unblocked(rows, Left(i))
        /\ queued < c => Unblocked(rows, Left(queued + 1)) = {}
  BY <1>4 DEF TopologicalSortByDegree
<1>6. ASSUME \A S \in SUBSET DOMAIN rows : S # {} => Unblocked(rows, S) # {},
             NEW i \in 1 .. c, NEW j \in 1 .. c,
             order[j] \in ToSet(rows[order[i]].deps)
      PROVE  j < i
  <2>1. queued = c
    <3>1. ASSUME queued < c  PROVE FALSE
      <4>1. c \in (queued + 1) .. c /\ (queued + 1) .. c \subseteq 1 .. c
        BY <3>1
      <4>2. order[c] \in Left(queued + 1) /\ Left(queued + 1) \in SUBSET DOMAIN rows
        BY <1>3, <4>1
      <4> QED  BY <1>5, <1>6, <3>1, <4>2
    <3> QED  BY <3>1
  <2>2. ToSet(rows[order[i]].deps) \cap Left(i) = {}
    BY <1>5, <2>1 DEF Unblocked
  <2>3. order[j] \notin Left(i)
    BY <1>6, <2>2
  <2> QED  BY <1>3, <2>3
<1> QED  BY <1>3, <1>6

\* So in any schedule of a plan.
LEMMA PlannedWaves ==
  ASSUME NEW p \in DOMAIN Plans, NEW schedule \in Schedules[p],
         NEW n \in DOMAIN Children[p], NEW m \in DOMAIN Children[p], n # m
  PROVE  /\ p \in Ordered /\ m \in ToSet(Children[p][n].deps) =>
              schedule[m] < schedule[n]
         /\ Children[p][n].files \cap Children[p][m].files # {} =>
              schedule[n] # schedule[m]
<1> DEFINE rows == Children[p]
           k == Len(rows)
           Earlier(order, i) == { order[j] : j \in 1 .. i - 1 }
<1>1. k \in Nat /\ DOMAIN rows = 1 .. k
  <2>1. rows \in Seq(Subtask)  BY ChildrenTyped
  <2> HIDE DEF rows
  <2> QED  BY <2>1, LenProperties
<1>2. schedule \in BuildSchedule(rows)
  BY DEF Schedules
<1>3. CASE \A i \in DOMAIN rows : rows[i].files = {}
  BY <1>3 DEF Ordered
<1>4. CASE ~(\A i \in DOMAIN rows : rows[i].files = {})
  <2>1. /\ schedule \in [ 1 .. k -> 0 .. k - 1 ]
        /\ \E order \in TopologicalSortByDegree(rows) : \A i \in DOMAIN order :
             schedule[order[i]] =
               ColourOf(rows, Restrict(schedule, Earlier(order, i)), order[i])
    <3> HIDE DEF rows
    <3> QED  BY <1>1, <1>2, <1>4 DEF BuildSchedule
  <2>2. PICK order \in TopologicalSortByDegree(rows) : \A i \in DOMAIN order :
          schedule[order[i]] =
            ColourOf(rows, Restrict(schedule, Earlier(order, i)), order[i])
    BY <2>1
  <2>3. /\ \A x \in 1 .. k : \E i \in DOMAIN order : order[i] = x
        /\ \E c \in Nat : DOMAIN order = 1 .. c
        /\ p \in Ordered => \A i, j \in DOMAIN order :
             order[j] \in ToSet(rows[order[i]].deps) => j < i
    <3>1. p \in Ordered => \A S \in SUBSET DOMAIN rows : S # {} => Unblocked(rows, S) # {}
      BY DEF Ordered
    <3> HIDE DEF rows
    <3> QED  BY <1>1, <3>1, WorkIsOrdered
  <2>4. PICK c \in Nat : DOMAIN order = 1 .. c
    BY <2>3
  <2>5. PICK i, j \in 1 .. c : order[i] = n /\ order[j] = m
    BY <1>1, <2>3, <2>4
  <2> HIDE DEF rows, k
  <2>6. ASSUME NEW a \in 1 .. c, NEW b \in 1 .. c, b < a
        PROVE  /\ order[b] \in Neighbours(rows, order[a]) =>
                    schedule[order[a]] # schedule[order[b]]
               /\ order[b] \in ToSet(rows[order[a]].deps) =>
                    schedule[order[a]] > schedule[order[b]]
    <3> DEFINE colours == Restrict(schedule, Earlier(order, a))
    <3>1. /\ DOMAIN colours = Earlier(order, a)
          /\ \A x \in DOMAIN colours : colours[x] = schedule[x]
      BY DEF Restrict
    <3>2. \A x \in DOMAIN colours : colours[x] \in 0 .. k - 1
      <4>1. Earlier(order, a) \subseteq 1 .. k
        <5>1. \A x \in 1 .. c : order[x] \in 1 .. k
          <6>1. order \in SetToSeqs(DOMAIN rows)
            BY DEF TopologicalSortByDegree
          <6>2. \A x \in DOMAIN order : order[x] \in DOMAIN rows
            BY <6>1 DEF SetToSeqs
          <6> QED  BY <1>1, <2>4, <6>2
        <5> QED  BY <2>4, <5>1
      <4> QED  BY <2>1, <3>1, <4>1
    <3>3. order[b] \in DOMAIN colours
      BY <2>6, <3>1
    <3>4. schedule[order[a]] = ColourOf(rows, colours, order[a])
      BY <2>2, <2>4
    <3> HIDE DEF colours, Earlier
    <3>5. /\ \A x \in Neighbours(rows, order[a]) \cap DOMAIN colours :
               schedule[order[a]] # colours[x]
          /\ \A x \in ToSet(rows[order[a]].deps) \cap DOMAIN colours :
               schedule[order[a]] > colours[x]
      BY <1>1, <3>2, <3>4, FirstColour DEF k
    <3> QED  BY <3>1, <3>3, <3>5
  <2>7. ASSUME p \in Ordered, m \in ToSet(rows[n].deps)
        PROVE  schedule[m] < schedule[n]
    <3>1. j < i
      BY <2>3, <2>4, <2>5, <2>7
    <3>2. schedule[n] > schedule[m]
      BY <2>5, <2>6, <2>7, <3>1
    <3> QED  BY <1>1, <2>1, <3>2 DEF rows
  <2>8. ASSUME rows[n].files \cap rows[m].files # {}
        PROVE  schedule[n] # schedule[m]
    <3>1. m \in Neighbours(rows, n) /\ n \in Neighbours(rows, m)
      BY <2>8 DEF Neighbours, rows
    <3>2. i < j \/ j < i
      BY <2>5
    <3> QED  BY <2>5, <2>6, <3>1, <3>2
  <2> QED  BY <2>7, <2>8 DEF rows
<1> QED  BY <1>3, <1>4

\* Once a plan is approved its waves put every child after what it waits for and
\* apart from what shares a file with it, also when tests were rejected and
\* dependencies repaired, with container events and without.
THEOREM WavesFollowThePlan == Spec => []WavesRespectPlan
<1>1. SharedInv => WavesRespectPlan
  <2> SUFFICES ASSUME SharedInv, NEW n \in DOMAIN task.ctx.schedule,
                      NEW m \in DOMAIN task.ctx.schedule, n # m
               PROVE  /\ task.plan \in Ordered /\ m \in ToSet(subtasks[n].deps) =>
                           task.ctx.schedule[m] < task.ctx.schedule[n]
                      /\ subtasks[n].files \cap subtasks[m].files # {} =>
                           task.ctx.schedule[n] # task.ctx.schedule[m]
    BY DEF WavesRespectPlan
  <2>1. subtasks # <<>>
    BY DEF SharedInv, LifeInv
  <2>2. FollowsPlan
    BY <2>1 DEF SharedInv
  <2> DEFINE p == task.plan
             schedule == task.ctx.schedule
  <2>3. p \in DOMAIN Plans /\ schedule \in Schedules[p]
    BY <2>2 DEF FollowsPlan
  <2>4. DOMAIN schedule = DOMAIN Children[p]
    BY <2>3, ScheduleTyped
  <2>5. /\ subtasks[n].files = Children[p][n].files
        /\ subtasks[m].files = Children[p][m].files
        /\ m \in ToSet(subtasks[n].deps) => m \in ToSet(Children[p][n].deps)
    BY <2>2, <2>4 DEF FollowsPlan
  <2> HIDE DEF p, schedule
  <2>6. /\ p \in Ordered /\ m \in ToSet(Children[p][n].deps) =>
             schedule[m] < schedule[n]
        /\ Children[p][n].files \cap Children[p][m].files # {} =>
             schedule[n] # schedule[m]
    <3>1. n \in DOMAIN Children[p] /\ m \in DOMAIN Children[p]
      BY <2>4 DEF schedule
    <3> QED  BY <2>3, <3>1, PlannedWaves
  <2> QED  BY <2>5, <2>6 DEF p, schedule
<1> QED  BY <1>1, SharedInvariant, PTL

=============================================================================
