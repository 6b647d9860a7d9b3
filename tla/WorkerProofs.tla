---------------------------- MODULE WorkerProofs ----------------------------
(***************************************************************************)
(* What holds of the workers of a subtask in WorkerAttempts: types and     *)
(* DoneByWork whatever interleaves, and the charging of deaths where the   *)
(* tick alone consumes exits, with restarts, operators and late answers.   *)
(***************************************************************************)
EXTENDS AttemptProofs

-----------------------------------------------------------------------------
(* Types                                                                     *)

\* The parts of the type invariant.
HandlerRow == [pc : HandlerPC, by : {"none", "tick", "events"},
               attempt : Nat, open : BOOLEAN, row : TaskRow]
TickPC == {"idle", "poll", "schedule", "spawn", "claim", "wrapUp", "reconcile"}
TickRow(numbers) == [pc : TickPC, polls : SUBSET numbers, row : TaskRow]

ContainersTyped ==
  /\ containers \in Seq(Container)
  /\ DOMAIN containers = DOMAIN attempts

ThreadsTyped ==
  /\ handler \in HandlerRow
  /\ tick \in TickRow(DOMAIN attempts)
  /\ launch \in [Goroutine -> 0 .. Len(attempts)]

CountersTyped ==
  /\ parent \in {"in_progress", "paused"}
  /\ deaths \in Nat
  /\ used \in [timeouts : Nat, crashes : Nat, operations : Nat]

\* The type invariant is its parts.
LEMMA PartsOfTypes ==
  WorkerTypeOK <=> /\ RowsTyped /\ ContainersTyped /\ ThreadsTyped
                   /\ CountersTyped /\ task \in TaskRow
                   /\ events \subseteq DOMAIN attempts
BY DEF WorkerTypeOK, RowsTyped, ContainersTyped, ThreadsTyped, CountersTyped,
       HandlerRow, TickRow, TickPC

\* Numbers 1 .. a and 1 .. b are the same only if a and b are.
LEMMA SameUpTo ==
  ASSUME NEW a \in Nat, NEW b \in Nat, 1 .. a = 1 .. b
  PROVE  a = b
<1>1. CASE a < b
  <2>1. b \in 1 .. b /\ b \notin 1 .. a  BY <1>1
  <2> QED  BY <2>1
<1>2. CASE b < a
  <2>1. a \in 1 .. a /\ a \notin 1 .. b  BY <1>2
  <2> QED  BY <2>1
<1> QED  BY <1>1, <1>2

\* Attempts and containers are numbered alike, from one.
LEMMA Numbers ==
  ASSUME RowsTyped, ContainersTyped
  PROVE  /\ DOMAIN attempts = 1 .. Len(attempts) /\ Len(attempts) \in Nat
         /\ DOMAIN containers = 1 .. Len(attempts)
         /\ Len(containers) = Len(attempts)
         /\ \A n \in DOMAIN attempts : n \in Nat /\ n # 0
<1>1. DOMAIN attempts = 1 .. Len(attempts) /\ Len(attempts) \in Nat
  <2>1. attempts \in Seq(AttemptRow)  BY DEF RowsTyped
  <2> QED  BY <2>1
<1>2. DOMAIN containers = 1 .. Len(containers) /\ Len(containers) \in Nat
  <2>1. containers \in Seq(Container)  BY DEF ContainersTyped
  <2> QED  BY <2>1
<1>3. DOMAIN containers = DOMAIN attempts
  BY DEF ContainersTyped
<1>4. Len(containers) = Len(attempts)
  BY <1>1, <1>2, <1>3, SameUpTo
<1>5. \A n \in DOMAIN attempts : n \in Nat /\ n # 0
  BY <1>1
<1> QED  BY <1>1, <1>2, <1>3, <1>4, <1>5

\* A reservation adds an attempt and its container.
LEMMA ReserveAdds ==
  ASSUME RowsTyped, ContainersTyped, NEW who, Reserve(who)
  PROVE  /\ Len(attempts') = Len(attempts) + 1
         /\ DOMAIN attempts' = 1 .. Len(attempts) + 1
         /\ \A n \in DOMAIN attempts :
              /\ attempts'[n].agent = attempts[n].agent
              /\ attempts'[n].named = attempts[n].named
              /\ attempts'[n].state \notin {"reserved", "running"}
              /\ containers'[n] = containers[n]
         /\ attempts'[Len(attempts) + 1] = NewAttempt
         /\ containers'[Len(attempts) + 1] = [state |-> "requested", exit |-> "none"]
         /\ containers' \in Seq(Container)
         /\ DOMAIN containers' = DOMAIN attempts'
<1> DEFINE closed == [n \in DOMAIN attempts |->
                        IF Open(n) THEN [attempts[n] EXCEPT !.state = "superseded"]
                                   ELSE attempts[n]]
<1>2. ASSUME NEW n \in DOMAIN attempts
      PROVE  closed[n] \in AttemptRow /\ closed[n].agent = attempts[n].agent
             /\ closed[n].named = attempts[n].named
             /\ closed[n].state \notin {"reserved", "running"}
  <2>1. attempts[n] \in AttemptRow  BY DEF RowsTyped
  <2> QED  BY <2>1 DEF AttemptRow, Open
<1>3. closed \in Seq(AttemptRow)
  BY <1>2, RowsMapped
<1>4. attempts' = Append(closed, NewAttempt)  BY DEF Reserve
<1>5. DOMAIN closed = DOMAIN attempts /\ Len(closed) = Len(attempts)
  BY <1>3, Numbers
<1> HIDE DEF closed
<1>6. /\ Len(attempts') = Len(attempts) + 1
      /\ DOMAIN attempts' = 1 .. Len(attempts) + 1
      /\ \A n \in DOMAIN attempts : attempts'[n] = closed[n]
      /\ attempts'[Len(attempts) + 1] = NewAttempt
  BY <1>3, <1>4, <1>5, Numbers, NewAttemptTyped, AppendProperties
<1>7. [state |-> "requested", exit |-> "none"] \in Container
  BY DEF Container
<1>8. /\ containers' = Append(containers, [state |-> "requested", exit |-> "none"])
      /\ containers \in Seq(Container) /\ Len(containers) = Len(attempts)
  BY Numbers DEF Reserve, ContainersTyped
<1>9. /\ containers' \in Seq(Container)
      /\ DOMAIN containers' = 1 .. Len(attempts) + 1
      /\ \A n \in DOMAIN attempts : containers'[n] = containers[n]
      /\ containers'[Len(attempts) + 1] = [state |-> "requested", exit |-> "none"]
  BY <1>7, <1>8, Numbers, AppendProperties
<1> QED  BY <1>2, <1>6, <1>9

\* Writing the container of one attempt.
LEMMA ContainerReplaced ==
  ASSUME ContainersTyped, DOMAIN attempts' = DOMAIN attempts,
         NEW n \in DOMAIN attempts, NEW container \in Container,
         containers' = [containers EXCEPT ![n] = container]
  PROVE  ContainersTyped'
<1>1. containers \in Seq(Container) /\ n \in 1 .. Len(containers)
  BY DEF ContainersTyped
<1>2. containers' \in Seq(Container)  BY <1>1, ExceptSeq
<1>3. DOMAIN containers' = DOMAIN containers  OBVIOUS
<1> QED  BY <1>2, <1>3 DEF ContainersTyped

\* What the actions write to the row of the task is a row.
LEMMA TaskUpdates ==
  ASSUME NEW row \in TaskRow
  PROVE  /\ \A n \in Nat : [row EXCEPT !.assigned = n] \in TaskRow
         /\ [row EXCEPT !.deaths = @ + 1] \in TaskRow
         /\ [row EXCEPT !.empties = @ + 1] \in TaskRow
         /\ \A b \in BOOLEAN : [row EXCEPT !.rejected = b] \in TaskRow
         /\ \A status \in {"backlog", "in_progress", "failed", "done"} :
              [row EXCEPT !.status = status, !.version = @ + 1] \in TaskRow
         /\ [row EXCEPT !.assigned = 0, !.version = @ + 1] \in TaskRow
         /\ [row EXCEPT !.status = "done", !.version = @ + 1,
                        !.assigned = 0, !.rejected = FALSE] \in TaskRow
         /\ [row EXCEPT !.status = "backlog", !.version = @ + 1,
                        !.assigned = 0, !.empties = 0] \in TaskRow
         /\ [row EXCEPT !.status = "in_progress", !.version = @ + 1,
                        !.assigned = 0] \in TaskRow
         /\ \A n \in Nat : [row EXCEPT !.status = "failed", !.assigned = n,
                                       !.version = @ + 1] \in TaskRow
<1> DEFINE next == row.version + 1
<1>1. next \in Nat  BY DEF TaskRow
<1> HIDE DEF next
<1>2. /\ \A n \in Nat : [row EXCEPT !.assigned = n] \in TaskRow
      /\ \A b \in BOOLEAN : [row EXCEPT !.rejected = b] \in TaskRow
  BY DEF TaskRow
<1>3. [row EXCEPT !.deaths = @ + 1] \in TaskRow
  BY DEF TaskRow
<1>4. [row EXCEPT !.empties = @ + 1] \in TaskRow
  BY DEF TaskRow
<1>5. \A status \in {"backlog", "in_progress", "failed", "done"} :
        [row EXCEPT !.status = status, !.version = next] \in TaskRow
  BY <1>1 DEF TaskRow
<1>6. [row EXCEPT !.assigned = 0, !.version = next] \in TaskRow
  BY <1>1 DEF TaskRow
<1>7. [row EXCEPT !.status = "done", !.version = next,
                  !.assigned = 0, !.rejected = FALSE] \in TaskRow
  BY <1>1 DEF TaskRow
<1>8. [row EXCEPT !.status = "backlog", !.version = next,
                  !.assigned = 0, !.empties = 0] \in TaskRow
  BY <1>1 DEF TaskRow
<1>9. [row EXCEPT !.status = "in_progress", !.version = next,
                  !.assigned = 0] \in TaskRow
  BY <1>1 DEF TaskRow
<1>10. \A n \in Nat : [row EXCEPT !.status = "failed", !.assigned = n,
                                 !.version = next] \in TaskRow
  BY <1>1 DEF TaskRow
<1> QED  BY <1>2, <1>3, <1>4, <1>5, <1>6, <1>7, <1>8, <1>9, <1>10 DEF next

\* A transition writes a row, whatever status it asks for.
LEMMA TransitionTyped ==
  ASSUME task \in TaskRow, NEW row \in TaskRow,
         NEW status \in {"backlog", "in_progress", "failed", "done"},
         Transition(row, status)
  PROVE  task' \in TaskRow
<1>1. \/ task' = task
      \/ task' = [row EXCEPT !.status = status, !.version = @ + 1]
  BY DEF Transition
<1> QED  BY <1>1, TaskUpdates

\* What a dispatch keeps of itself when it goes on.
LEMMA GoesOn ==
  ASSUME handler \in HandlerRow, NEW pc, handler' = [handler EXCEPT !.pc = pc]
  PROVE  /\ handler'.pc = pc /\ handler'.attempt = handler.attempt
         /\ handler'.by = handler.by /\ handler'.open = handler.open
         /\ handler'.row = handler.row
BY DEF HandlerRow

\* The same when it takes another row with it.
LEMMA GoesOnWith ==
  ASSUME handler \in HandlerRow, NEW pc, NEW row,
         handler' = [handler EXCEPT !.pc = pc, !.row = row]
  PROVE  /\ handler'.pc = pc /\ handler'.attempt = handler.attempt
         /\ handler'.by = handler.by /\ handler'.open = handler.open
         /\ handler'.row = row
BY DEF HandlerRow

\* What the actions write to the handler and the tick.
LEMMA ThreadUpdates ==
  ASSUME ThreadsTyped, RowsTyped
  PROVE  /\ handler.row \in TaskRow /\ self \in Nat
         /\ Free \in HandlerRow
         /\ \A pc \in HandlerPC : [handler EXCEPT !.pc = pc] \in HandlerRow
         /\ \A pc \in HandlerPC, row \in TaskRow :
              [handler EXCEPT !.pc = pc, !.row = row] \in HandlerRow
         /\ tick.row \in TaskRow /\ tick.polls \subseteq DOMAIN attempts
         /\ IdleTick \in TickRow(DOMAIN attempts)
         /\ \A pc \in TickPC : [tick EXCEPT !.pc = pc] \in TickRow(DOMAIN attempts)
         /\ \A polls \in SUBSET DOMAIN attempts :
              /\ [tick EXCEPT !.polls = polls] \in TickRow(DOMAIN attempts)
              /\ [tick EXCEPT !.pc = "poll", !.polls = polls]
                   \in TickRow(DOMAIN attempts)
         /\ [who \in Goroutine |-> 0] \in [Goroutine -> 0 .. Len(attempts)]
         /\ \A who \in Goroutine :
              [launch EXCEPT ![who] = 0] \in [Goroutine -> 0 .. Len(attempts)]
<1> DEFINE numbers == DOMAIN attempts
<1>1. InitialTask \in TaskRow  BY DEF InitialTask, TaskRow
<1>2. Free \in HandlerRow
  <2> HIDE DEF TaskRow, InitialTask
  <2> QED  BY <1>1 DEF Free, HandlerRow, HandlerPC
<1>3. handler.row \in TaskRow /\ self \in Nat
  BY DEF ThreadsTyped, HandlerRow, self
<1>4. \A pc \in HandlerPC : [handler EXCEPT !.pc = pc] \in HandlerRow
  BY DEF ThreadsTyped, HandlerRow
<1>5. \A pc \in HandlerPC, row \in TaskRow :
         [handler EXCEPT !.pc = pc, !.row = row] \in HandlerRow
  BY DEF ThreadsTyped, HandlerRow
<1>6. tick \in TickRow(numbers)  BY DEF ThreadsTyped
<1>7. IdleTick \in TickRow(numbers)
  BY <1>1 DEF IdleTick, TickRow, TickPC
<1>8. tick.row \in TaskRow /\ tick.polls \subseteq numbers
  BY <1>6 DEF TickRow
<1>9. /\ \A pc \in TickPC : [tick EXCEPT !.pc = pc] \in TickRow(numbers)
      /\ \A polls \in SUBSET numbers :
           /\ [tick EXCEPT !.polls = polls] \in TickRow(numbers)
           /\ [tick EXCEPT !.pc = "poll", !.polls = polls] \in TickRow(numbers)
  <2> HIDE DEF numbers
  <2> QED  BY <1>6 DEF TickRow, TickPC
<1>10. Len(attempts) \in Nat  BY DEF RowsTyped
<1>11. /\ [who \in Goroutine |-> 0] \in [Goroutine -> 0 .. Len(attempts)]
       /\ \A who \in Goroutine :
            [launch EXCEPT ![who] = 0] \in [Goroutine -> 0 .. Len(attempts)]
  BY <1>10 DEF ThreadsTyped
<1> QED  BY <1>2, <1>3, <1>4, <1>5, <1>7, <1>8, <1>9, <1>11

-----------------------------------------------------------------------------
(* Types: the actions that leave the number of attempts alone                *)

\* It is enough to type each variable by itself.
LEMMA SameAttempts ==
  ASSUME WorkerTypeOK, RowsTyped', DOMAIN attempts' = DOMAIN attempts,
         task' \in TaskRow, ContainersTyped', events' \subseteq DOMAIN attempts,
         handler' \in HandlerRow, tick' \in TickRow(DOMAIN attempts),
         launch' \in [Goroutine -> 0 .. Len(attempts)], CountersTyped'
  PROVE  WorkerTypeOK'
<1>1. Len(attempts') = Len(attempts)
  <2>1. RowsTyped /\ ContainersTyped  BY PartsOfTypes
  <2>2. Len(attempts) \in Nat /\ DOMAIN attempts = 1 .. Len(attempts)
    BY <2>1, Numbers
  <2>3. Len(attempts') \in Nat /\ DOMAIN attempts' = 1 .. Len(attempts')
    BY DEF RowsTyped
  <2> QED  BY <2>2, <2>3, SameUpTo
<1>2. ThreadsTyped'  BY <1>1 DEF ThreadsTyped
<1> QED  BY <1>2, PartsOfTypes DEF WorkerTypeOK, RowsTyped, ContainersTyped,
              ThreadsTyped, CountersTyped, HandlerRow, TickRow, TickPC

\* A step of a dispatch writes the task, the attempts and where it is.
LEMMA DispatchTyped ==
  ASSUME WorkerTypeOK, RowsTyped', DOMAIN attempts' = DOMAIN attempts,
         task' \in TaskRow, handler' \in HandlerRow,
         UNCHANGED <<parent, containers, events, tick, launch, deaths, used>>
  PROVE  WorkerTypeOK'
<1>1. ContainersTyped /\ ThreadsTyped /\ CountersTyped
      /\ events \subseteq DOMAIN attempts
  BY PartsOfTypes
<1>2. ContainersTyped'  BY <1>1 DEF ContainersTyped
<1>3. CountersTyped'  BY <1>1 DEF CountersTyped
<1>4. tick' \in TickRow(DOMAIN attempts)
      /\ launch' \in [Goroutine -> 0 .. Len(attempts)]
  BY <1>1 DEF ThreadsTyped
<1> QED  BY <1>1, <1>2, <1>3, <1>4, SameAttempts

\* A step of the tick writes the task, the attempts and where it is.
LEMMA TickTyped ==
  ASSUME WorkerTypeOK, RowsTyped', DOMAIN attempts' = DOMAIN attempts,
         task' \in TaskRow, tick' \in TickRow(DOMAIN attempts),
         UNCHANGED <<containers, events, handler, launch>>, CountersTyped'
  PROVE  WorkerTypeOK'
<1>1. ContainersTyped /\ ThreadsTyped /\ events \subseteq DOMAIN attempts
  BY PartsOfTypes
<1>2. ContainersTyped'  BY <1>1 DEF ContainersTyped
<1>3. handler' \in HandlerRow /\ launch' \in [Goroutine -> 0 .. Len(attempts)]
  BY <1>1 DEF ThreadsTyped
<1> QED  BY <1>1, <1>2, <1>3, SameAttempts

\* Every step of handling a completion.
LEMMA CompletingTyped ==
  ASSUME WorkerTypeOK, Completing
  PROVE  WorkerTypeOK'
<1>1. /\ RowsTyped /\ ThreadsTyped /\ task \in TaskRow  BY PartsOfTypes
<1>2. RowsTyped'  BY <1>1, CompleteKeeps DEF Keeps
<1>3. UNCHANGED <<parent, containers, events, tick, launch, deaths, used>>
  BY DEF Completing, CompleteNothing, FindEmptyWork, AcceptWork, AcceptTooEarly,
         RejectWork, SaveIdleAgent, SaveEmptyWork, SaveRejection, FinalizeExit,
         rows, world
<1>4. DOMAIN attempts' = DOMAIN attempts
  BY DEF Completing, CompleteNothing, FindEmptyWork, AcceptWork, AcceptTooEarly,
         RejectWork, SaveIdleAgent, SaveEmptyWork, SaveRejection, FinalizeExit,
         rows, world, Close
<1>5. handler' \in HandlerRow
  <2>1. /\ handler.row \in TaskRow /\ Free \in HandlerRow
        /\ \A pc \in HandlerPC : [handler EXCEPT !.pc = pc] \in HandlerRow
        /\ \A pc \in HandlerPC, row \in TaskRow :
             [handler EXCEPT !.pc = pc, !.row = row] \in HandlerRow
    BY <1>1, ThreadUpdates
  <2>2. {"emptyAgent", "rejectAgent", "finalize", "emptyTask", "rejectTask"}
          \subseteq HandlerPC
    BY DEF HandlerPC
  <2>3. [task EXCEPT !.rejected = TRUE] \in TaskRow
    BY <1>1, TaskUpdates
  <2>4. \/ handler' = Free
        \/ handler' = [handler EXCEPT !.pc = "emptyAgent", !.row = task]
        \/ handler' = [handler EXCEPT !.pc = "rejectAgent",
                                      !.row = [task EXCEPT !.rejected = TRUE]]
        \/ \E pc \in {"finalize", "emptyTask", "rejectTask"} :
             handler' = [handler EXCEPT !.pc = pc]
    BY DEF Completing, CompleteNothing, FindEmptyWork, AcceptWork, AcceptTooEarly,
           RejectWork, SaveIdleAgent, SaveEmptyWork, SaveRejection, FinalizeExit,
           Release, Handle
  <2>5. CASE handler' = [handler EXCEPT !.pc = "emptyAgent", !.row = task]
    BY <1>1, <2>1, <2>2, <2>5
  <2>6. CASE handler' = [handler EXCEPT !.pc = "rejectAgent",
                                        !.row = [task EXCEPT !.rejected = TRUE]]
    <3> DEFINE row == [task EXCEPT !.rejected = TRUE]
    <3>1. row \in TaskRow /\ handler' = [handler EXCEPT !.pc = "rejectAgent",
                                                       !.row = row]
      BY <2>3, <2>6
    <3> HIDE DEF row
    <3> QED  BY <2>1, <2>2, <3>1
  <2>7. CASE \E pc \in {"finalize", "emptyTask", "rejectTask"} :
               handler' = [handler EXCEPT !.pc = pc]
    BY <2>1, <2>2, <2>7
  <2> QED  BY <2>1, <2>4, <2>5, <2>6, <2>7
<1>6. task' \in TaskRow
  <2>1. handler.row \in TaskRow  BY <1>1, ThreadUpdates
  <2>2. CASE UNCHANGED task
    BY <1>1, <2>2
  <2>3. CASE AcceptWork
    <3>1. [task EXCEPT !.status = "done", !.version = @ + 1, !.assigned = 0,
                       !.rejected = FALSE] \in TaskRow
      BY <1>1, TaskUpdates
    <3> QED  BY <2>3, <3>1 DEF AcceptWork
  <2>4. CASE AcceptTooEarly \/ RejectWork
    <3>1. PICK b \in BOOLEAN : task' = [task EXCEPT !.rejected = b]
      BY <2>4 DEF AcceptTooEarly, RejectWork
    <3>2. [task EXCEPT !.rejected = b] \in TaskRow  BY <1>1, TaskUpdates
    <3> QED  BY <3>1, <3>2
  <2>5. CASE SaveEmptyWork
    <3> DEFINE row == [handler.row EXCEPT !.empties = @ + 1]
    <3>1. row \in TaskRow  BY <2>1, TaskUpdates
    <3>2. task' = [row EXCEPT !.assigned = 0] \/ Transition(row, "failed")
      BY <2>5 DEF SaveEmptyWork, SaveTask, FailTask
    <3> HIDE DEF row
    <3>3. [row EXCEPT !.assigned = 0] \in TaskRow  BY <3>1, TaskUpdates
    <3>4. CASE Transition(row, "failed")  BY <1>1, <3>1, <3>4, TransitionTyped
    <3> QED  BY <3>2, <3>3, <3>4
  <2>6. CASE SaveRejection
    <3> DEFINE row == [handler.row EXCEPT !.assigned = 0]
    <3>1. row \in TaskRow  BY <2>1, TaskUpdates
    <3>2. Transition(row, "failed")
      BY <2>6 DEF SaveRejection, FailTask
    <3> HIDE DEF row
    <3> QED  BY <1>1, <3>1, <3>2, TransitionTyped
  <2> QED  BY <2>2, <2>3, <2>4, <2>5, <2>6
           DEF Completing, CompleteNothing, FindEmptyWork, SaveIdleAgent,
               FinalizeExit, rows
<1> QED  BY <1>2, <1>3, <1>4, <1>5, <1>6, DispatchTyped

\* A reservation, by the tick or by a dispatch.
LEMMA ReserveTyped ==
  ASSUME WorkerTypeOK, RowsTyped', NEW who \in Goroutine, Reserve(who),
         handler' \in HandlerRow, CountersTyped', UNCHANGED <<head, events>>,
         \/ UNCHANGED tick
         \/ tick' = [tick EXCEPT !.pc = "spawn", !.row = task]
  PROVE  WorkerTypeOK'
<1>1. /\ RowsTyped /\ ContainersTyped /\ ThreadsTyped /\ task \in TaskRow
      /\ events \subseteq DOMAIN attempts
  BY PartsOfTypes
<1>2. /\ DOMAIN attempts = 1 .. Len(attempts) /\ Len(attempts) \in Nat
      /\ DOMAIN attempts' = 1 .. Len(attempts) + 1
      /\ Len(attempts') = Len(attempts) + 1
      /\ ContainersTyped'
  BY <1>1, Numbers, ReserveAdds DEF ContainersTyped
<1>3. DOMAIN attempts \subseteq DOMAIN attempts'
  BY <1>2
<1>4. task' \in TaskRow
  <2>1. task' = [task EXCEPT !.assigned = Len(attempts) + 1]
    BY DEF Reserve
  <2>2. Len(attempts) + 1 \in Nat  BY <1>2
  <2> QED  BY <1>1, <2>1, <2>2, TaskUpdates
<1>5. launch' \in [Goroutine -> 0 .. Len(attempts')]
  <2>1. launch' = [launch EXCEPT ![who] = Len(attempts) + 1]
    BY DEF Reserve
  <2>2. launch \in [Goroutine -> 0 .. Len(attempts)]
    BY <1>1 DEF ThreadsTyped
  <2>3. 0 .. Len(attempts) \subseteq 0 .. Len(attempts')
        /\ Len(attempts) + 1 \in 0 .. Len(attempts')
    BY <1>2
  <2> QED  BY <2>1, <2>2, <2>3
<1>6. tick' \in TickRow(DOMAIN attempts')
  <2>1. tick \in TickRow(DOMAIN attempts)  BY <1>1 DEF ThreadsTyped
  <2>2. tick \in TickRow(DOMAIN attempts')
    <3> DEFINE before == DOMAIN attempts
               after == DOMAIN attempts'
    <3>1. tick \in TickRow(before) /\ before \subseteq after
      BY <1>3, <2>1
    <3> HIDE DEF before, after
    <3>2. tick \in TickRow(after)  BY <3>1 DEF TickRow
    <3> QED  BY <3>2 DEF after
  <2>3. [tick EXCEPT !.pc = "spawn", !.row = task] \in TickRow(DOMAIN attempts')
    <3> DEFINE after == DOMAIN attempts'
    <3>1. tick \in TickRow(after) /\ task \in TaskRow
      BY <1>1, <2>2
    <3> HIDE DEF after
    <3>2. [tick EXCEPT !.pc = "spawn", !.row = task] \in TickRow(after)
      BY <3>1 DEF TickRow, TickPC
    <3> QED  BY <3>2 DEF after
  <2> QED  BY <2>2, <2>3
<1>7. ThreadsTyped'  BY <1>5, <1>6 DEF ThreadsTyped
<1>8. events' \subseteq DOMAIN attempts'  BY <1>1, <1>3
<1> QED  BY <1>2, <1>4, <1>7, <1>8, PartsOfTypes
         DEF WorkerTypeOK, RowsTyped, ContainersTyped, ThreadsTyped,
             CountersTyped, HandlerRow, TickRow, TickPC

\* Every step of handling a death.
LEMMA DyingTyped ==
  ASSUME WorkerTypeOK, Dying
  PROVE  WorkerTypeOK'
<1>1. /\ RowsTyped /\ ThreadsTyped /\ task \in TaskRow /\ CountersTyped
      /\ ContainersTyped /\ events \subseteq DOMAIN attempts
  BY PartsOfTypes
<1>2. RowsTyped'  BY <1>1, DieKeeps DEF Keeps
<1>3. /\ handler.row \in TaskRow /\ Free \in HandlerRow
      /\ \A pc \in HandlerPC : [handler EXCEPT !.pc = pc] \in HandlerRow
      /\ \A pc \in HandlerPC, row \in TaskRow :
           [handler EXCEPT !.pc = pc, !.row = row] \in HandlerRow
  BY <1>1, ThreadUpdates
<1>4. {"deadAttempt", "deadTask", "judge", "continue", "count", "relaunch",
       "spawn"} \subseteq HandlerPC
  BY DEF HandlerPC
<1>5. CASE SaveDeadAgent \/ SaveDeadAttempt
  <2>1. UNCHANGED <<task, parent, containers, events, tick, launch, deaths, used>>
        /\ DOMAIN attempts' = DOMAIN attempts
    BY <1>5 DEF SaveDeadAgent, SaveDeadAttempt, world
  <2>2. handler' \in HandlerRow
    BY <1>3, <1>4, <1>5 DEF SaveDeadAgent, SaveDeadAttempt, Handle
  <2> QED  BY <1>1, <1>2, <2>1, <2>2, DispatchTyped
<1>6. CASE ClearDeadAssignment
  <2> DEFINE row == [handler.row EXCEPT !.assigned = 0]
  <2>1. row \in TaskRow  BY <1>3, TaskUpdates
  <2>2. UNCHANGED <<attempts, parent, containers, events, tick, launch, deaths, used>>
        /\ task' = row /\ handler' = [handler EXCEPT !.pc = "judge", !.row = row]
    BY <1>6 DEF ClearDeadAssignment, SaveTask, world
  <2> HIDE DEF row
  <2>3. handler' \in HandlerRow  BY <1>3, <1>4, <2>1, <2>2
  <2> QED  BY <1>2, <2>1, <2>2, <2>3, DispatchTyped
<1>7. CASE FailRejected \/ HandOffCheckpoint
  <2>1. UNCHANGED <<attempts, parent, containers, events, tick, launch, deaths, used>>
        /\ Transition(handler.row, "failed")
    BY <1>7 DEF FailRejected, HandOffCheckpoint, FailTask, world
  <2>2. task' \in TaskRow  BY <1>1, <1>3, <2>1, TransitionTyped
  <2>3. handler' \in HandlerRow
    BY <1>3, <1>4, <1>7 DEF FailRejected, HandOffCheckpoint, Handle, Release
  <2> QED  BY <1>2, <2>1, <2>2, <2>3, DispatchTyped
<1>8. CASE ChargeBudget
  <2> DEFINE row == [handler.row EXCEPT !.deaths = @ + 1]
  <2>1. row \in TaskRow  BY <1>3, TaskUpdates
  <2>2. /\ UNCHANGED <<attempts, parent, containers, events, tick, launch, deaths,
                       used>>
        /\ \/ Transition(row, "failed") /\ handler' = Free
           \/ task' = row /\ handler' = [handler EXCEPT !.pc = "count", !.row = row]
    BY <1>8 DEF ChargeBudget, SaveTask, FailTask, Release, world
  <2> HIDE DEF row
  <2>3. task' \in TaskRow  BY <1>1, <2>1, <2>2, TransitionTyped
  <2>4. handler' \in HandlerRow  BY <1>3, <1>4, <2>1, <2>2
  <2> QED  BY <1>2, <2>2, <2>3, <2>4, DispatchTyped
<1>9. CASE CountDeath
  <2>1. /\ UNCHANGED <<attempts, parent, containers, events, tick, launch, used>>
        /\ deaths' = deaths + 1
        /\ Transition(handler.row, "failed") \/ UNCHANGED task
    BY <1>9 DEF CountDeath, FailTask, world
  <2>2. task' \in TaskRow  BY <1>1, <1>3, <2>1, TransitionTyped
  <2>3. handler' \in HandlerRow
    BY <1>3, <1>4, <1>9 DEF CountDeath, Handle, Release
  <2>4. CountersTyped'  BY <1>1, <2>1 DEF CountersTyped
  <2>5. ContainersTyped'  BY <1>1, <2>1 DEF ContainersTyped
  <2>6. tick' \in TickRow(DOMAIN attempts)
        /\ launch' \in [Goroutine -> 0 .. Len(attempts)]
    BY <1>1, <2>1 DEF ThreadsTyped
  <2> QED  BY <1>1, <1>2, <2>1, <2>2, <2>3, <2>4, <2>5, <2>6, SameAttempts
<1>10. CASE Relaunch
  <2>1. CASE Reserve("handler") /\ Handle("spawn") /\ UNCHANGED <<head, events>>
    <3>1. UNCHANGED <<parent, tick, deaths, used>>  BY <1>10 DEF Relaunch
    <3>2. CountersTyped'  BY <1>1, <3>1 DEF CountersTyped
    <3>3. handler' \in HandlerRow  BY <1>3, <1>4, <2>1 DEF Handle
    <3>4. "handler" \in Goroutine  BY DEF Goroutine
    <3> QED  BY <1>2, <2>1, <3>1, <3>2, <3>3, <3>4, ReserveTyped
  <2>2. CASE Release /\ UNCHANGED <<rows, world, launch>>
    <3>1. UNCHANGED <<task, attempts, parent, containers, events, tick, launch,
                      deaths, used>>
      BY <1>10, <2>2 DEF Relaunch, rows, world
    <3>2. handler' \in HandlerRow  BY <1>3, <2>2 DEF Release
    <3> QED  BY <1>1, <1>2, <3>1, <3>2, DispatchTyped
  <2> QED  BY <1>10, <2>1, <2>2 DEF Relaunch
<1> QED  BY <1>5, <1>6, <1>7, <1>8, <1>9, <1>10 DEF Dying

\* Every step of a dispatch.
LEMMA DispatchStepTyped ==
  ASSUME WorkerTypeOK, Dispatch
  PROVE  WorkerTypeOK'
<1>1. /\ RowsTyped /\ ThreadsTyped /\ task \in TaskRow
  BY PartsOfTypes
<1>2. RowsTyped'  BY <1>1, DispatchKeeps DEF Keeps
<1>3. CASE DropExit \/ TakeEffect
  <2>1. UNCHANGED <<task, parent, containers, events, tick, launch, deaths, used>>
        /\ DOMAIN attempts' = DOMAIN attempts
    BY <1>3 DEF DropExit, TakeEffect, rows, world, Close
  <2>2. {"complete", "deadAgent"} \subseteq HandlerPC  BY DEF HandlerPC
  <2>3. \/ handler' = Free
        \/ \E pc \in {"complete", "deadAgent"} : handler' = [handler EXCEPT !.pc = pc]
    BY <1>3 DEF DropExit, TakeEffect, Handle, Release
  <2>4. /\ Free \in HandlerRow
        /\ \A pc \in HandlerPC : [handler EXCEPT !.pc = pc] \in HandlerRow
    BY <1>1, ThreadUpdates
  <2>5. handler' \in HandlerRow  BY <2>2, <2>3, <2>4
  <2> QED  BY <1>1, <1>2, <2>1, <2>5, DispatchTyped
<1> QED  BY <1>3, CompletingTyped, DyingTyped DEF Dispatch

\* Every step of a launch.
LEMMA LaunchingTyped ==
  ASSUME WorkerTypeOK, NEW who \in Goroutine, NEW n \in DOMAIN attempts,
         Launching(who, n)
  PROVE  WorkerTypeOK'
<1>1. /\ RowsTyped /\ ThreadsTyped /\ task \in TaskRow /\ CountersTyped
      /\ ContainersTyped /\ events \subseteq DOMAIN attempts
  BY PartsOfTypes
<1>2. RowsTyped'  BY <1>1, LaunchKeeps DEF Keeps
<1>3. n \in Nat  BY <1>1, Numbers
<1>4. DOMAIN attempts' = DOMAIN attempts
  BY DEF Launching, FinalizeSpawn, DestroySpawn, SpawnFails, SpawnTimesOut, rows
<1>5. \E ok \in BOOLEAN : Launched(who, ok)
  BY DEF Launching, FinalizeSpawn, DestroySpawn, SpawnFails, SpawnTimesOut
<1>6. /\ handler' \in HandlerRow /\ tick' \in TickRow(DOMAIN attempts)
      /\ launch' \in [Goroutine -> 0 .. Len(attempts)]
  <2>1. /\ handler \in HandlerRow /\ tick \in TickRow(DOMAIN attempts)
        /\ launch \in [Goroutine -> 0 .. Len(attempts)]
    BY <1>1 DEF ThreadsTyped
  <2>2. /\ launch' = [launch EXCEPT ![who] = 0]
        /\ \/ UNCHANGED handler
              /\ \E pc \in {"claim", "wrapUp"} : tick' = [tick EXCEPT !.pc = pc]
           \/ handler' = Free /\ UNCHANGED tick
    BY <1>5 DEF Launched, Step, Release
  <2>3. {"claim", "wrapUp"} \subseteq TickPC  BY DEF TickPC
  <2> QED  BY <1>1, <2>1, <2>2, <2>3, ThreadUpdates
<1>7. CountersTyped'
  <2>1. UNCHANGED <<parent, deaths>>
    BY DEF Launching, FinalizeSpawn, DestroySpawn, SpawnFails, SpawnTimesOut
  <2>2. used' = used \/ used' = [used EXCEPT !.timeouts = @ + 1]
    BY DEF Launching, FinalizeSpawn, DestroySpawn, SpawnFails, SpawnTimesOut
  <2> QED  BY <1>1, <2>1, <2>2 DEF CountersTyped
<1>8. events' \subseteq DOMAIN attempts
  BY <1>1 DEF Launching, FinalizeSpawn, DestroySpawn, SpawnFails, SpawnTimesOut,
              world
<1>9. ContainersTyped'
  <2>1. CASE UNCHANGED containers
    BY <1>1, <1>4, <2>1 DEF ContainersTyped
  <2>2. CASE DestroySpawn(who, n)
    <3> DEFINE container ==
                 IF containers[n].state = "live"
                   THEN [state |-> "exited", exit |-> "crash"] ELSE containers[n]
    <3>1. containers' = [containers EXCEPT ![n] = container]
      BY <2>2 DEF DestroySpawn
    <3>2. containers[n] \in Container  BY <1>1 DEF ContainersTyped
    <3>3. container \in Container  BY <3>2 DEF Container
    <3> HIDE DEF container
    <3> QED  BY <1>1, <1>4, <3>1, <3>3, ContainerReplaced
  <2> QED  BY <2>1, <2>2
           DEF Launching, FinalizeSpawn, SpawnFails, SpawnTimesOut, world
<1>10. task' \in TaskRow
  <2>1. CASE UNCHANGED task
    BY <1>1, <2>1
  <2>2. CASE task' = Unassigned(n)
    BY <1>1, <2>2, TaskUpdates DEF Unassigned
  <2>3. CASE SpawnFails(who, n)
    <3> DEFINE held == IF who = "tick" THEN tick.row ELSE handler.row
    <3>1. held \in TaskRow  BY <1>1, ThreadUpdates
    <3>2. \/ task' = Unassigned(n)
          \/ task' = [held EXCEPT !.status = "failed", !.assigned = n,
                                  !.version = @ + 1]
      BY <2>3 DEF SpawnFails
    <3> HIDE DEF held
    <3> QED  BY <1>3, <2>2, <3>1, <3>2, TaskUpdates
  <2> QED  BY <2>1, <2>2, <2>3
           DEF Launching, FinalizeSpawn, DestroySpawn, SpawnTimesOut, rows
<1> QED  BY <1>2, <1>4, <1>6, <1>7, <1>8, <1>9, <1>10, SameAttempts

\* A dispatch begins with the task as it is.
LEMMA Observed ==
  ASSUME RowsTyped, task \in TaskRow, NEW by \in {"tick", "events"},
         NEW n \in Nat, Observe(by, n)
  PROVE  handler' \in HandlerRow /\ DOMAIN attempts' = DOMAIN attempts
<1>1. Open(n) \in BOOLEAN  BY DEF Open
<1>2. handler' = [pc |-> "decide", by |-> by, attempt |-> n, open |-> Open(n),
                  row |-> task]
      /\ DOMAIN attempts' = DOMAIN attempts
  BY DEF Observe
<1> QED  BY <1>1, <1>2 DEF HandlerRow, HandlerPC

\* Every step of the tick.
LEMMA TickStepTyped ==
  ASSUME WorkerTypeOK, Tick
  PROVE  WorkerTypeOK'
<1>1. /\ RowsTyped /\ ThreadsTyped /\ task \in TaskRow /\ CountersTyped
      /\ ContainersTyped /\ events \subseteq DOMAIN attempts
  BY PartsOfTypes
<1>2. RowsTyped'  BY <1>1, TickKeeps DEF Keeps
<1>3. /\ tick.row \in TaskRow /\ tick.polls \subseteq DOMAIN attempts
      /\ \A pc \in TickPC : [tick EXCEPT !.pc = pc] \in TickRow(DOMAIN attempts)
      /\ \A polls \in SUBSET DOMAIN attempts :
           /\ [tick EXCEPT !.polls = polls] \in TickRow(DOMAIN attempts)
           /\ [tick EXCEPT !.pc = "poll", !.polls = polls]
                \in TickRow(DOMAIN attempts)
  BY <1>1, ThreadUpdates
<1>4. CASE BeginTick
  <2>1. UNCHANGED <<task, attempts, parent, containers, events, handler, launch,
                    deaths, used>>
    BY <1>4 DEF BeginTick, rows, world
  <2>2. tick' \in TickRow(DOMAIN attempts)
    <3> DEFINE polls == {n \in DOMAIN attempts : Open(n) /\ attempts[n].named}
    <3>1. polls \in SUBSET DOMAIN attempts  OBVIOUS
    <3>2. tick' = [tick EXCEPT !.pc = "poll", !.polls = polls]
      BY <1>4 DEF BeginTick
    <3> HIDE DEF polls
    <3> QED  BY <1>3, <3>1, <3>2
  <2>3. CountersTyped'  BY <1>1, <2>1 DEF CountersTyped
  <2> QED  BY <1>1, <1>2, <2>1, <2>2, <2>3, TickTyped
<1>5. CASE EndPoll \/ ScheduleNothing \/ Claim \/ Reconcile
  <2>1. UNCHANGED <<attempts, parent, containers, events, handler, launch,
                    deaths, used>>
    BY <1>5 DEF EndPoll, ScheduleNothing, Claim, Reconcile, rows, world
  <2>2. {"schedule", "wrapUp", "idle"} \subseteq TickPC  BY DEF TickPC
  <2>3. tick' \in TickRow(DOMAIN attempts)
    <3>1. PICK pc \in {"schedule", "wrapUp", "idle"} : tick' = [tick EXCEPT !.pc = pc]
      BY <1>5 DEF EndPoll, ScheduleNothing, Claim, Reconcile, Step
    <3> QED  BY <1>3, <2>2, <3>1
  <2>4. task' \in TaskRow
    <3>1. CASE UNCHANGED task \/ Reconcile
      <4>1. task' = task \/ task' = [task EXCEPT !.assigned = 0]
        BY <3>1 DEF Reconcile, Adopted
      <4>2. [task EXCEPT !.assigned = 0] \in TaskRow  BY <1>1, TaskUpdates
      <4> QED  BY <1>1, <4>1, <4>2
    <3>2. CASE Claim
      BY <1>1, <3>2, TransitionTyped DEF Claim, FailTask
    <3> QED  BY <1>5, <3>1, <3>2 DEF EndPoll, ScheduleNothing, rows
  <2>5. CountersTyped'  BY <1>1, <2>1 DEF CountersTyped
  <2> QED  BY <1>2, <2>1, <2>3, <2>4, <2>5, TickTyped
<1>6. CASE Schedule
  <2>1. handler' \in HandlerRow /\ CountersTyped'
    BY <1>1, <1>6 DEF Schedule, ThreadsTyped, CountersTyped
  <2>2. "tick" \in Goroutine  BY DEF Goroutine
  <2> QED  BY <1>2, <1>6, <2>1, <2>2, ReserveTyped DEF Schedule
<1>7. CASE WrapUp
  <2>1. /\ UNCHANGED <<parent, containers, events, handler, launch, deaths, used>>
        /\ DOMAIN attempts' = DOMAIN attempts
    BY <1>7 DEF WrapUp, world
  <2>2. tick' \in TickRow(DOMAIN attempts)
    <3>1. "reconcile" \in TickPC  BY DEF TickPC
    <3> QED  BY <1>3, <1>7, <3>1 DEF WrapUp, Step
  <2>3. task' \in TaskRow
    BY <1>1, <1>7, TaskUpdates DEF WrapUp
  <2>4. CountersTyped'  BY <1>1, <2>1 DEF CountersTyped
  <2> QED  BY <1>2, <2>1, <2>2, <2>3, <2>4, TickTyped
<1>8. ASSUME NEW n \in tick.polls, PollLive(n)
      PROVE  WorkerTypeOK'
  <2>1. UNCHANGED <<task, attempts, parent, containers, events, handler, launch,
                    deaths, used>>
    BY <1>8 DEF PollLive, rows, world
  <2>2. tick' \in TickRow(DOMAIN attempts)
    BY <1>3, <1>8 DEF PollLive
  <2>3. CountersTyped'  BY <1>1, <2>1 DEF CountersTyped
  <2> QED  BY <1>1, <1>2, <2>1, <2>2, <2>3, TickTyped
<1>9. ASSUME NEW n \in tick.polls, PollExit(n)
      PROVE  WorkerTypeOK'
  <2>1. UNCHANGED <<task, parent, containers, events, launch, deaths, used>>
    BY <1>9 DEF PollExit, world
  <2>2. n \in Nat  BY <1>1, <1>3, Numbers
  <2>3. handler' \in HandlerRow /\ DOMAIN attempts' = DOMAIN attempts
    BY <1>1, <1>9, <2>2, Observed DEF PollExit
  <2>4. tick' \in TickRow(DOMAIN attempts)
    BY <1>3, <1>9 DEF PollExit
  <2>5. CountersTyped'  BY <1>1, <2>1 DEF CountersTyped
  <2>6. ContainersTyped' /\ launch' \in [Goroutine -> 0 .. Len(attempts)]
    BY <1>1, <2>1, <2>3 DEF ContainersTyped, ThreadsTyped
  <2> QED  BY <1>1, <1>2, <2>1, <2>3, <2>4, <2>5, <2>6, SameAttempts
<1> QED  BY <1>4, <1>5, <1>6, <1>7, <1>8, <1>9 DEF Tick

\* Every step of the spawner, the containers, the operators and a restart.
LEMMA OtherStepTyped ==
  ASSUME WorkerTypeOK,
         \/ PollFails \/ FailStuck
         \/ \E n \in events : TakeEvent(n)
         \/ \E n \in DOMAIN attempts :
              SpawnerStarts(n) \/ SpawnerRefuses(n) \/ Commit(n) \/ Exit(n)
         \/ PauseParent \/ ResumeParent \/ RetryTask \/ RecoverStaleAssignment
         \/ ResumeCheckpoint \/ Crash
  PROVE  WorkerTypeOK'
<1>1. /\ RowsTyped /\ ThreadsTyped /\ task \in TaskRow /\ CountersTyped
      /\ ContainersTyped /\ events \subseteq DOMAIN attempts
  BY PartsOfTypes
<1>2. RowsTyped'  BY <1>1, StepKeeps DEF Keeps, Next
<1>3. DOMAIN attempts' = DOMAIN attempts
  BY DEF PollFails, FailStuck, TakeEvent, Observe, SpawnerStarts, SpawnerRefuses,
         Commit, Exit, PauseParent, ResumeParent, RetryTask,
         RecoverStaleAssignment, ResumeCheckpoint, Crash, rows
<1>4. used' \in [timeouts : Nat, crashes : Nat, operations : Nat]
  <2>1. used \in [timeouts : Nat, crashes : Nat, operations : Nat]
    BY <1>1 DEF CountersTyped
  <2>2. \/ used' = used
        \/ used' = [used EXCEPT !.timeouts = @ + 1]
        \/ used' = [used EXCEPT !.operations = @ + 1]
        \/ used' = [used EXCEPT !.crashes = @ + 1]
    BY DEF PollFails, FailStuck, TakeEvent, SpawnerStarts, SpawnerRefuses,
           Commit, Exit, PauseParent, ResumeParent, RetryTask, Request,
           RecoverStaleAssignment, ResumeCheckpoint, Crash
  <2> QED  BY <2>1, <2>2
<1>5. CountersTyped'
  <2>1. /\ parent' = parent \/ parent' = "paused" \/ parent' = "in_progress"
        /\ deaths' = deaths \/ deaths' = 0
    BY DEF PollFails, FailStuck, TakeEvent, SpawnerStarts, SpawnerRefuses,
           Commit, Exit, PauseParent, ResumeParent, RetryTask, threads,
           RecoverStaleAssignment, ResumeCheckpoint, Crash
  <2> QED  BY <1>1, <1>4, <2>1 DEF CountersTyped
<1>6. /\ handler' \in HandlerRow /\ tick' \in TickRow(DOMAIN attempts)
      /\ launch' \in [Goroutine -> 0 .. Len(attempts)]
  <2>1. /\ handler \in HandlerRow /\ tick \in TickRow(DOMAIN attempts)
        /\ launch \in [Goroutine -> 0 .. Len(attempts)]
    BY <1>1 DEF ThreadsTyped
  <2>2. CASE UNCHANGED threads
    BY <2>1, <2>2 DEF threads
  <2>3. CASE PollFails
    <3>1. UNCHANGED <<handler, launch>> /\ tick' = [tick EXCEPT !.polls = {}]
      BY <2>3 DEF PollFails
    <3>2. {} \in SUBSET DOMAIN attempts  OBVIOUS
    <3> QED  BY <1>1, <2>1, <3>1, <3>2, ThreadUpdates
  <2>4. CASE FailStuck
    <3>1. UNCHANGED <<handler, launch>> /\ tick' = [tick EXCEPT !.pc = "idle"]
      BY <2>4 DEF FailStuck, Step
    <3>2. "idle" \in TickPC  BY DEF TickPC
    <3> QED  BY <1>1, <2>1, <3>1, <3>2, ThreadUpdates
  <2>5. ASSUME NEW n \in events, TakeEvent(n)
        PROVE  /\ handler' \in HandlerRow /\ tick' \in TickRow(DOMAIN attempts)
               /\ launch' \in [Goroutine -> 0 .. Len(attempts)]
    <3>1. UNCHANGED <<tick, launch>> /\ Observe("events", n)
      BY <2>5 DEF TakeEvent
    <3>2. n \in Nat  BY <1>1, Numbers
    <3> QED  BY <1>1, <2>1, <3>1, <3>2, Observed
  <2>6. CASE Crash
    <3>1. handler' = Free /\ tick' = IdleTick
          /\ launch' = [who \in Goroutine |-> 0]
      BY <2>6 DEF Crash
    <3> QED  BY <1>1, <3>1, ThreadUpdates
  <2> QED  BY <2>2, <2>3, <2>4, <2>5, <2>6
           DEF SpawnerStarts, SpawnerRefuses, Commit, Exit, PauseParent,
               ResumeParent, RetryTask, RecoverStaleAssignment, ResumeCheckpoint
<1>7. events' \subseteq DOMAIN attempts
  BY <1>1 DEF PollFails, FailStuck, TakeEvent, SpawnerStarts, SpawnerRefuses,
              Commit, Exit, PauseParent, ResumeParent, RetryTask, world,
              RecoverStaleAssignment, ResumeCheckpoint, Crash
<1>8. ContainersTyped'
  <2>1. CASE UNCHANGED containers
    BY <1>1, <1>3, <2>1 DEF ContainersTyped
  <2>2. ASSUME NEW n \in DOMAIN attempts,
               SpawnerStarts(n) \/ SpawnerRefuses(n) \/ Exit(n)
        PROVE  ContainersTyped'
    <3>1. containers[n] \in Container  BY <1>1 DEF ContainersTyped
    <3>2. PICK container \in Container :
            containers' = [containers EXCEPT ![n] = container]
      <4> DEFINE live == [containers[n] EXCEPT !.state = "live"]
                 refused == [containers[n] EXCEPT !.state = "refused"]
      <4>1. live \in Container /\ refused \in Container
        BY <3>1 DEF Container
      <4>2. \A kind \in ExitKinds : [state |-> "exited", exit |-> kind] \in Container
        BY DEF Container
      <4>3. \/ containers' = [containers EXCEPT ![n] = live]
            \/ containers' = [containers EXCEPT ![n] = refused]
            \/ \E kind \in ExitKinds :
                 containers' = [containers EXCEPT
                                  ![n] = [state |-> "exited", exit |-> kind]]
        BY <2>2 DEF SpawnerStarts, SpawnerRefuses, Exit
      <4> HIDE DEF live, refused
      <4> QED  BY <4>1, <4>2, <4>3
    <3> QED  BY <1>1, <1>3, <3>2, ContainerReplaced
  <2> QED  BY <2>1, <2>2
           DEF PollFails, FailStuck, TakeEvent, Commit, PauseParent, ResumeParent,
               RetryTask, RecoverStaleAssignment, ResumeCheckpoint, Crash, world
<1>9. task' \in TaskRow
  <2>1. CASE UNCHANGED task
    BY <1>1, <2>1
  <2>2. CASE FailStuck
    <3> DEFINE row == [task EXCEPT !.deaths = @ + 1]
    <3>1. row \in TaskRow /\ Transition(row, "failed")
      BY <1>1, <2>2, TaskUpdates DEF FailStuck, FailTask
    <3> HIDE DEF row
    <3> QED  BY <1>1, <3>1, TransitionTyped
  <2>3. CASE RetryTask \/ RecoverStaleAssignment \/ ResumeCheckpoint \/ Crash
    <3>1. \/ task' = [task EXCEPT !.status = "backlog", !.version = @ + 1,
                                  !.assigned = 0, !.empties = 0]
          \/ task' = [task EXCEPT !.assigned = 0, !.version = @ + 1]
          \/ task' = [task EXCEPT !.status = "in_progress", !.version = @ + 1,
                                  !.assigned = 0]
          \/ task' = [task EXCEPT !.assigned = 0]
          \/ task' = task
      BY <2>3 DEF RetryTask, RecoverStaleAssignment, ResumeCheckpoint, Crash, Adopted
    <3>2. [task EXCEPT !.status = "backlog", !.version = @ + 1,
                       !.assigned = 0, !.empties = 0] \in TaskRow
      BY <1>1, TaskUpdates
    <3>3. /\ [task EXCEPT !.assigned = 0, !.version = @ + 1] \in TaskRow
          /\ [task EXCEPT !.assigned = 0] \in TaskRow
      BY <1>1, TaskUpdates
    <3>4. [task EXCEPT !.status = "in_progress", !.version = @ + 1,
                       !.assigned = 0] \in TaskRow
      BY <1>1, TaskUpdates
    <3> QED  BY <1>1, <3>1, <3>2, <3>3, <3>4
  <2> QED  BY <2>1, <2>2, <2>3
           DEF PollFails, TakeEvent, SpawnerStarts, SpawnerRefuses, Commit, Exit,
               PauseParent, ResumeParent, rows
<1> QED  BY <1>2, <1>3, <1>5, <1>6, <1>7, <1>8, <1>9, SameAttempts

\* The variables keep their types, whatever interleaves.
THEOREM WorkersAreTyped == Spec => []WorkerTypeOK
<1>1. Init => WorkerTypeOK
  <2> SUFFICES ASSUME Init  PROVE WorkerTypeOK
    OBVIOUS
  <2>1. attempts = <<>> /\ containers = <<>> /\ Len(attempts) = 0
    BY DEF Init
  <2>2. RowsTyped /\ ContainersTyped /\ CountersTyped
    BY <2>1 DEF Init, RowsTyped, ContainersTyped, CountersTyped
  <2>3. task \in TaskRow  BY DEF Init, InitialTask, TaskRow
  <2>4. handler \in HandlerRow
    BY <2>3 DEF Init, Free, HandlerRow, HandlerPC
  <2>5. tick \in TickRow(DOMAIN attempts)
    BY <2>3 DEF Init, IdleTick, TickRow, TickPC
  <2>6. launch \in [Goroutine -> 0 .. Len(attempts)]
    BY <2>1 DEF Init
  <2> QED  BY <2>2, <2>3, <2>4, <2>5, <2>6, PartsOfTypes DEF Init, ThreadsTyped
<1>2. WorkerTypeOK /\ [Next]_vars => WorkerTypeOK'
  <2> SUFFICES ASSUME WorkerTypeOK, [Next]_vars  PROVE WorkerTypeOK'
    OBVIOUS
  <2>1. CASE UNCHANGED vars
    BY <2>1 DEF vars, WorkerTypeOK
  <2> QED  BY <2>1, TickStepTyped, DispatchStepTyped, LaunchingTyped,
              OtherStepTyped DEF Next
<1> QED  BY <1>1, <1>2, PTL DEF Spec

-----------------------------------------------------------------------------
(* A subtask is done by work                                                 *)

\* A dispatch that has begun to act on the task, and has not completed it.
Acting == handler.pc \notin {"free", "finalize", "decide"}

\* A container that has not exited has no exit code; events and dispatches are
\* about containers that have.
ExitsAreKnown ==
  /\ \A n \in DOMAIN attempts :
       containers[n].state = "exited" \/ containers[n].exit = "none"
  /\ \A n \in events : containers[n].state = "exited"
  /\ handler.pc # "free" =>
       self \in DOMAIN attempts /\ containers[self].state = "exited"

\* A dispatch tells the two kinds of exit apart, and none acts on a task that
\* is done: the one that completed it was effective, and it held the mutex.
DispatchIsInformed ==
  /\ At("complete") => containers[self].exit = "zero"
  /\ At("deadAgent") => containers[self].exit # "zero"
  /\ At("decide") => task.status # "done" \/ handler.row.status = "done"
  /\ Acting => task.status # "done" /\ handler.row.status # "done"

DoneInv == ExitsAreKnown /\ DispatchIsInformed /\ DoneByWork

\* Attempts and containers are only added to, and what has exited stays.
LEMMA ExitsStay ==
  ASSUME WorkerTypeOK, ExitsAreKnown, [Next]_vars
  PROVE  /\ DOMAIN attempts \subseteq DOMAIN attempts'
         /\ \A n \in DOMAIN attempts :
              /\ containers[n].state = "exited" => containers'[n] = containers[n]
              /\ containers'[n].state = "exited" \/ containers'[n].exit = "none"
         /\ \A n \in DOMAIN attempts' \ DOMAIN attempts : containers'[n].exit = "none"
<1>1. RowsTyped /\ ContainersTyped  BY PartsOfTypes
<1>2. /\ containers \in Seq(Container) /\ DOMAIN containers = DOMAIN attempts
      /\ \A n \in DOMAIN attempts : containers[n] \in Container
  BY <1>1 DEF ContainersTyped
<1>3. CASE UNCHANGED containers /\ DOMAIN attempts' = DOMAIN attempts
  BY <1>3 DEF ExitsAreKnown
<1>4. ASSUME NEW who, Reserve(who)
      PROVE  /\ DOMAIN attempts \subseteq DOMAIN attempts'
             /\ \A n \in DOMAIN attempts : containers'[n] = containers[n]
             /\ \A n \in DOMAIN attempts' \ DOMAIN attempts :
                  containers'[n].exit = "none"
  <2>1. /\ DOMAIN attempts = 1 .. Len(attempts) /\ Len(attempts) \in Nat
        /\ DOMAIN attempts' = 1 .. Len(attempts) + 1
        /\ \A n \in DOMAIN attempts : containers'[n] = containers[n]
        /\ containers'[Len(attempts) + 1] = [state |-> "requested", exit |-> "none"]
    BY <1>1, <1>4, Numbers, ReserveAdds
  <2>2. DOMAIN attempts' \ DOMAIN attempts = {Len(attempts) + 1}
    BY <2>1
  <2> QED  BY <2>1, <2>2
<1>5. ASSUME NEW n \in DOMAIN attempts, NEW container \in Container,
             containers' = [containers EXCEPT ![n] = container],
             containers[n].state # "exited",
             container.state = "exited" \/ container.exit = "none",
             DOMAIN attempts' = DOMAIN attempts
      PROVE  /\ DOMAIN attempts \subseteq DOMAIN attempts'
             /\ \A m \in DOMAIN attempts :
                  /\ containers[m].state = "exited" => containers'[m] = containers[m]
                  /\ containers'[m].state = "exited" \/ containers'[m].exit = "none"
             /\ \A m \in DOMAIN attempts' \ DOMAIN attempts :
                  containers'[m].exit = "none"
  BY <1>2, <1>5 DEF ExitsAreKnown
<1>6. ASSUME NEW n \in DOMAIN attempts, SpawnerStarts(n) \/ SpawnerRefuses(n)
      PROVE  \E container \in Container :
               /\ containers' = [containers EXCEPT ![n] = container]
               /\ containers[n].state # "exited"
               /\ container.state = "exited" \/ container.exit = "none"
               /\ DOMAIN attempts' = DOMAIN attempts
  <2> DEFINE live == [containers[n] EXCEPT !.state = "live"]
             refused == [containers[n] EXCEPT !.state = "refused"]
  <2>1. containers[n] \in Container  BY <1>2
  <2>2. containers[n].state = "requested" /\ DOMAIN attempts' = DOMAIN attempts
    BY <1>6 DEF SpawnerStarts, SpawnerRefuses, rows
  <2>3. live \in Container /\ refused \in Container
    BY <2>1 DEF Container
  <2>4. live.exit = "none" /\ refused.exit = "none"
    BY <2>1, <2>2 DEF Container, ExitsAreKnown
  <2>5. \/ containers' = [containers EXCEPT ![n] = live]
        \/ containers' = [containers EXCEPT ![n] = refused]
    BY <1>6 DEF SpawnerStarts, SpawnerRefuses
  <2> HIDE DEF live, refused
  <2> QED  BY <2>2, <2>3, <2>4, <2>5
<1>7. ASSUME NEW n \in DOMAIN attempts, Exit(n)
      PROVE  \E container \in Container :
               /\ containers' = [containers EXCEPT ![n] = container]
               /\ containers[n].state # "exited"
               /\ container.state = "exited" \/ container.exit = "none"
               /\ DOMAIN attempts' = DOMAIN attempts
  <2>1. PICK kind \in ExitKinds :
          containers' = [containers EXCEPT ![n] = [state |-> "exited",
                                                   exit |-> kind]]
    BY <1>7 DEF Exit
  <2>2. [state |-> "exited", exit |-> kind] \in Container  BY DEF Container
  <2>3. containers[n].state = "live" /\ DOMAIN attempts' = DOMAIN attempts
    BY <1>7 DEF Exit, rows
  <2> QED  BY <2>1, <2>2, <2>3
<1>8. ASSUME NEW who, NEW n \in DOMAIN attempts, DestroySpawn(who, n),
             containers[n].state = "live"
      PROVE  \E container \in Container :
               /\ containers' = [containers EXCEPT ![n] = container]
               /\ containers[n].state # "exited"
               /\ container.state = "exited" \/ container.exit = "none"
               /\ DOMAIN attempts' = DOMAIN attempts
  <2>1. [state |-> "exited", exit |-> "crash"] \in Container  BY DEF Container
  <2>2. containers' = [containers EXCEPT ![n] = [state |-> "exited",
                                                 exit |-> "crash"]]
        /\ DOMAIN attempts' = DOMAIN attempts
    BY <1>8 DEF DestroySpawn, rows
  <2> QED  BY <1>8, <2>1, <2>2
<1>9. ASSUME NEW who, NEW n \in DOMAIN attempts, DestroySpawn(who, n),
             containers[n].state # "live"
      PROVE  UNCHANGED containers /\ DOMAIN attempts' = DOMAIN attempts
  BY <1>2, <1>9 DEF DestroySpawn, rows
<1>10. ASSUME NEW who, NEW n \in DOMAIN attempts, Launching(who, n)
       PROVE  \/ DestroySpawn(who, n)
              \/ UNCHANGED containers /\ DOMAIN attempts' = DOMAIN attempts
  <2>1. CASE FinalizeSpawn(who, n)
    BY <2>1 DEF FinalizeSpawn, world
  <2>2. CASE SpawnFails(who, n) \/ SpawnTimesOut(who, n)
    BY <2>2 DEF SpawnFails, SpawnTimesOut, world
  <2> QED  BY <1>10, <2>1, <2>2 DEF Launching
<1>11. ASSUME Tick
       PROVE  \/ Reserve("tick")
              \/ UNCHANGED containers /\ DOMAIN attempts' = DOMAIN attempts
  BY <1>11 DEF Tick, BeginTick, EndPoll, Schedule, ScheduleNothing, Claim, WrapUp,
               Reconcile, PollLive, PollExit, Observe, rows, world
<1>12. ASSUME Dispatch
       PROVE  \/ Reserve("handler")
              \/ UNCHANGED containers /\ DOMAIN attempts' = DOMAIN attempts
  <2>1. CASE DropExit \/ TakeEffect \/ Completing
    BY <2>1 DEF DropExit, TakeEffect, Completing, CompleteNothing, FindEmptyWork,
                AcceptWork, AcceptTooEarly, RejectWork, SaveIdleAgent,
                SaveEmptyWork, SaveRejection, FinalizeExit, Close, rows, world
  <2>2. CASE Dying
    BY <2>2 DEF Dying, SaveDeadAgent, SaveDeadAttempt, ClearDeadAssignment,
                FailRejected, HandOffCheckpoint, ChargeBudget, CountDeath,
                Relaunch, rows, world
  <2> QED  BY <1>12, <2>1, <2>2 DEF Dispatch
<1>13. ASSUME \/ PollFails \/ FailStuck
              \/ \E n \in events : TakeEvent(n)
              \/ \E n \in DOMAIN attempts : Commit(n)
              \/ PauseParent \/ ResumeParent \/ RetryTask \/ RecoverStaleAssignment
              \/ ResumeCheckpoint \/ Crash \/ UNCHANGED vars
       PROVE  UNCHANGED containers /\ DOMAIN attempts' = DOMAIN attempts
  BY <1>13 DEF PollFails, FailStuck, TakeEvent, Observe, Commit, PauseParent,
               ResumeParent, RetryTask, RecoverStaleAssignment, ResumeCheckpoint,
               Crash, rows, world, vars
<1>14. CASE Tick \/ Dispatch
  BY <1>3, <1>4, <1>11, <1>12, <1>14 DEF ExitsAreKnown
<1>15. CASE \E n \in DOMAIN attempts :
              SpawnerStarts(n) \/ SpawnerRefuses(n) \/ Exit(n)
  BY <1>5, <1>6, <1>7, <1>15
<1>16. CASE \E who \in Goroutine, n \in DOMAIN attempts : Launching(who, n)
  BY <1>3, <1>5, <1>8, <1>9, <1>10, <1>16
<1> QED  BY <1>3, <1>13, <1>14, <1>15, <1>16 DEF Next

\* What is known of exits stays known.
LEMMA ExitsStayKnown ==
  ASSUME WorkerTypeOK, ExitsAreKnown, [Next]_vars
  PROVE  ExitsAreKnown'
<1>1. /\ DOMAIN attempts \subseteq DOMAIN attempts'
      /\ \A n \in DOMAIN attempts :
           /\ containers[n].state = "exited" => containers'[n] = containers[n]
           /\ containers'[n].state = "exited" \/ containers'[n].exit = "none"
      /\ \A n \in DOMAIN attempts' \ DOMAIN attempts : containers'[n].exit = "none"
  BY ExitsStay
<1>2. events \subseteq DOMAIN attempts /\ tick.polls \subseteq DOMAIN attempts
      /\ ContainersTyped /\ RowsTyped
  BY PartsOfTypes, ThreadUpdates
<1>3. \A n \in events' \ events :
        n \in DOMAIN attempts /\ containers'[n].state = "exited"
  <2> SUFFICES ASSUME NEW m \in events' \ events
               PROVE  m \in DOMAIN attempts /\ containers'[m].state = "exited"
    OBVIOUS
  <2>1. \/ \E n \in DOMAIN attempts : Exit(n)
        \/ \E who \in Goroutine, n \in DOMAIN attempts : DestroySpawn(who, n)
    BY DEF Next, Tick, BeginTick, EndPoll, Schedule, ScheduleNothing, Claim, WrapUp,
           Reconcile, PollLive, PollExit, Dispatch, DropExit, TakeEffect,
           Completing, CompleteNothing, FindEmptyWork, AcceptWork, AcceptTooEarly,
           RejectWork, SaveIdleAgent, SaveEmptyWork, SaveRejection, FinalizeExit,
           Dying, SaveDeadAgent, SaveDeadAttempt, ClearDeadAssignment,
           FailRejected, HandOffCheckpoint, ChargeBudget, CountDeath, Relaunch,
           PollFails, FailStuck, TakeEvent, Commit, PauseParent, ResumeParent,
           RetryTask, RecoverStaleAssignment, ResumeCheckpoint, Crash, Launching,
           FinalizeSpawn, SpawnFails, SpawnTimesOut, SpawnerStarts,
           SpawnerRefuses, world, vars
  <2>2. containers \in Seq(Container) /\ DOMAIN containers = DOMAIN attempts
    BY <1>2 DEF ContainersTyped
  <2>3. CASE \E n \in DOMAIN attempts : Exit(n)
    <3>1. PICK n \in DOMAIN attempts : Exit(n)  BY <2>3
    <3>2. m = n /\ \E kind : containers' = [containers EXCEPT
                                 ![n] = [state |-> "exited", exit |-> kind]]
      BY <3>1 DEF Exit
    <3> QED  BY <2>2, <3>2
  <2>4. CASE \E who \in Goroutine, n \in DOMAIN attempts : DestroySpawn(who, n)
    <3>1. PICK n \in DOMAIN attempts, who \in Goroutine : DestroySpawn(who, n)
      BY <2>4
    <3>2. m = n /\ containers[n].state = "live"
      BY <3>1 DEF DestroySpawn
    <3>3. containers' = [containers EXCEPT ![n] = [state |-> "exited",
                                                   exit |-> "crash"]]
      BY <3>1, <3>2 DEF DestroySpawn
    <3> QED  BY <2>2, <3>2, <3>3
  <2> QED  BY <2>1, <2>3, <2>4
<1>10. /\ \A n \in DOMAIN attempts' :
            containers'[n].state = "exited" \/ containers'[n].exit = "none"
       /\ \A n \in events' : containers'[n].state = "exited"
  BY <1>1, <1>2, <1>3 DEF ExitsAreKnown
<1>4. CASE handler'.pc # "free" /\ handler.pc # "free" /\ self' = self
  BY <1>1, <1>10, <1>4 DEF ExitsAreKnown
<1>5. CASE handler'.pc = "free"
  BY <1>10, <1>5 DEF ExitsAreKnown
<1>6. ASSUME NEW n \in DOMAIN attempts, containers[n].state = "exited",
             self' = n
      PROVE  ExitsAreKnown'
  BY <1>1, <1>10, <1>6 DEF ExitsAreKnown
<1>7. ASSUME NEW n \in events, TakeEvent(n)
      PROVE  self' = n /\ containers[n].state = "exited"
  BY <1>7 DEF TakeEvent, Observe, self, ExitsAreKnown
<1>8. ASSUME NEW n \in tick.polls, PollExit(n)
      PROVE  self' = n /\ containers[n].state = "exited"
  BY <1>8 DEF PollExit, Observe, self
<1>9. \/ handler'.pc = "free"
      \/ handler.pc # "free" /\ self' = self
      \/ \E n \in events : TakeEvent(n)
      \/ \E n \in tick.polls : PollExit(n)
  <2>1. handler \in HandlerRow  BY PartsOfTypes DEF ThreadsTyped
  <2>2. CASE Dispatch
    <3>1. handler.pc # "free"
      BY <2>2 DEF Dispatch, DropExit, TakeEffect, Completing, CompleteNothing,
           FindEmptyWork, AcceptWork, AcceptTooEarly, RejectWork, SaveIdleAgent,
           SaveEmptyWork, SaveRejection, FinalizeExit, Dying, SaveDeadAgent,
           SaveDeadAttempt, ClearDeadAssignment, FailRejected, HandOffCheckpoint,
           ChargeBudget, CountDeath, Relaunch, At
    <3>2. \/ handler' = Free
          \/ \E pc : handler' = [handler EXCEPT !.pc = pc]
          \/ \E pc, row : handler' = [handler EXCEPT !.pc = pc, !.row = row]
      BY <2>2 DEF Dispatch, DropExit, TakeEffect, Completing, CompleteNothing,
           FindEmptyWork, AcceptWork, AcceptTooEarly, RejectWork, SaveIdleAgent,
           SaveEmptyWork, SaveRejection, FinalizeExit, Dying, SaveDeadAgent,
           SaveDeadAttempt, ClearDeadAssignment, FailRejected, HandOffCheckpoint,
           ChargeBudget, CountDeath, Relaunch, Handle, Release
    <3>3. CASE handler' = Free
      BY <3>3 DEF Free
    <3>4. ASSUME NEW pc, handler' = [handler EXCEPT !.pc = pc]
          PROVE  self' = self
      BY <2>1, <3>4, GoesOn, GoesOnWith DEF self
    <3>5. ASSUME NEW pc, NEW row, handler' = [handler EXCEPT !.pc = pc, !.row = row]
          PROVE  self' = self
      BY <2>1, <3>5, GoesOn, GoesOnWith DEF self
    <3> QED  BY <3>1, <3>2, <3>3, <3>4, <3>5
  <2>3. CASE handler' = Free \/ handler' = handler
    BY <2>3 DEF self, Free
  <2> QED  BY <2>2, <2>3
        DEF Next, Tick, BeginTick, EndPoll, Schedule, ScheduleNothing, Claim, WrapUp,
            Reconcile, PollLive, PollFails, FailStuck, Commit, Exit, PauseParent,
            ResumeParent, RetryTask, RecoverStaleAssignment, ResumeCheckpoint,
            Crash, Launching, FinalizeSpawn, DestroySpawn, SpawnFails,
            SpawnTimesOut, SpawnerStarts, SpawnerRefuses, Launched, Release,
            threads, vars
<1> QED  BY <1>2, <1>4, <1>5, <1>6, <1>7, <1>8, <1>9

\* The status and the assignment of a row that is written.
LEMMA WrittenRow ==
  ASSUME NEW row \in TaskRow
  PROVE  /\ \A n : /\ [row EXCEPT !.assigned = n].status = row.status
                  /\ [row EXCEPT !.assigned = n].assigned = n
         /\ [row EXCEPT !.empties = @ + 1].status = row.status
         /\ [row EXCEPT !.deaths = @ + 1].status = row.status
         /\ \A b : /\ [row EXCEPT !.rejected = b].status = row.status
                  /\ [row EXCEPT !.rejected = b].assigned = row.assigned
         /\ \A v : /\ [row EXCEPT !.assigned = 0, !.version = v].status
                        = row.status
                  /\ [row EXCEPT !.assigned = 0, !.version = v].assigned = 0
<1>1. DOMAIN row = {"status", "version", "assigned", "empties", "deaths",
                    "rejected"}
  BY DEF TaskRow
<1>2. /\ \A n : /\ [row EXCEPT !.assigned = n].status = row.status
               /\ [row EXCEPT !.assigned = n].assigned = n
      /\ \A b : /\ [row EXCEPT !.rejected = b].status = row.status
               /\ [row EXCEPT !.rejected = b].assigned = row.assigned
  BY <1>1
<1>3. /\ [row EXCEPT !.empties = @ + 1].status = row.status
      /\ [row EXCEPT !.deaths = @ + 1].status = row.status
  BY <1>1
<1>4. \A v : /\ [row EXCEPT !.assigned = 0, !.version = v].status = row.status
            /\ [row EXCEPT !.assigned = 0, !.version = v].assigned = 0
  BY <1>1
<1> QED  BY <1>2, <1>3, <1>4

\* A transition that takes place leaves the status it asks for.
LEMMA TransitionMoves ==
  ASSUME NEW row \in TaskRow, NEW status, Transition(row, status)
  PROVE  task' = task \/ task'.status = status
<1> DEFINE v == row.version + 1
<1>1. task' = task \/ task' = [row EXCEPT !.status = status, !.version = v]
  BY DEF Transition
<1> HIDE DEF v
<1> QED  BY <1>1 DEF TaskRow

\* No step of a dispatch but the acceptance of work makes a task done, and a
\* dispatch goes on with a row that is not done.
LEMMA ActingStays ==
  ASSUME WorkerTypeOK, DispatchIsInformed, Completing \/ Dying,
         ~AcceptWork, ~FinalizeExit
  PROVE  /\ task'.status # "done"
         /\ \/ handler'.pc = "free"
            \/ /\ handler'.pc \notin {"finalize", "decide", "complete", "deadAgent"}
               /\ handler'.row.status # "done"
<1>1. /\ task \in TaskRow /\ handler \in HandlerRow /\ handler.row \in TaskRow
  BY PartsOfTypes, ThreadUpdates DEF ThreadsTyped
<1>2. task.status # "done" /\ handler.row.status # "done"
  <2>1. Acting
    BY DEF Completing, CompleteNothing, FindEmptyWork, AcceptWork, AcceptTooEarly,
           RejectWork, SaveIdleAgent, SaveEmptyWork, SaveRejection, FinalizeExit,
           Dying, SaveDeadAgent, SaveDeadAttempt, ClearDeadAssignment,
           FailRejected, HandOffCheckpoint, ChargeBudget, CountDeath, Relaunch,
           At, Acting
  <2> QED  BY <2>1 DEF DispatchIsInformed
<1>3. Free.pc = "free"  BY DEF Free
<1>4. CASE CompleteNothing
  BY <1>2, <1>3, <1>4 DEF CompleteNothing, Release, rows
<1>5. CASE FindEmptyWork
  <2>1. task' = task /\ handler' = [handler EXCEPT !.pc = "emptyAgent", !.row = task]
    BY <1>5 DEF FindEmptyWork, rows
  <2> QED  BY <1>1, <1>2, <2>1, GoesOn, GoesOnWith
<1>6. CASE AcceptTooEarly
  BY <1>1, <1>2, <1>3, <1>6, WrittenRow DEF AcceptTooEarly, Release
<1>7. CASE RejectWork
  <2> DEFINE row == [task EXCEPT !.rejected = TRUE]
  <2>1. task' = row /\ handler' = [handler EXCEPT !.pc = "rejectAgent", !.row = row]
    BY <1>7 DEF RejectWork
  <2>2. row.status = task.status  BY <1>1, WrittenRow
  <2> HIDE DEF row
  <2> QED  BY <1>1, <1>2, <2>1, <2>2, GoesOn, GoesOnWith
<1>8. CASE SaveIdleAgent
  <2>1. task' = task
    BY <1>8 DEF SaveIdleAgent
  <2>2. PICK pc \in {"emptyTask", "rejectTask"} : handler' = [handler EXCEPT !.pc = pc]
    BY <1>8 DEF SaveIdleAgent, Handle
  <2> QED  BY <1>1, <1>2, <2>1, <2>2, GoesOn, GoesOnWith
<1>9. CASE SaveEmptyWork
  <2> DEFINE row == [handler.row EXCEPT !.empties = @ + 1]
  <2>1. row \in TaskRow /\ row.status = handler.row.status
    BY <1>1, TaskUpdates, WrittenRow
  <2>2. task' = [row EXCEPT !.assigned = 0] \/ Transition(row, "failed")
    BY <1>9 DEF SaveEmptyWork, SaveTask, FailTask
  <2>3. handler'.pc = "free"  BY <1>3, <1>9 DEF SaveEmptyWork, Release
  <2> HIDE DEF row
  <2>4. CASE task' = [row EXCEPT !.assigned = 0]
    BY <1>2, <2>1, <2>3, <2>4, WrittenRow
  <2>5. CASE Transition(row, "failed")
    BY <1>2, <2>1, <2>3, <2>5, TransitionMoves
  <2> QED  BY <2>2, <2>4, <2>5
<1>10. CASE SaveRejection
  <2> DEFINE row == [handler.row EXCEPT !.assigned = 0]
  <2>1. row \in TaskRow  BY <1>1, TaskUpdates
  <2>2. Transition(row, "failed")  BY <1>10 DEF SaveRejection, FailTask
  <2>3. handler'.pc = "free"  BY <1>3, <1>10 DEF SaveRejection, Release
  <2> HIDE DEF row
  <2> QED  BY <1>2, <2>1, <2>2, <2>3, TransitionMoves
<1>11. CASE SaveDeadAgent \/ SaveDeadAttempt
  <2>1. task' = task
    BY <1>11 DEF SaveDeadAgent, SaveDeadAttempt
  <2>2. PICK pc \in {"deadAttempt", "deadTask"} : handler' = [handler EXCEPT !.pc = pc]
    BY <1>11 DEF SaveDeadAgent, SaveDeadAttempt, Handle
  <2> QED  BY <1>1, <1>2, <2>1, <2>2, GoesOn, GoesOnWith
<1>12. CASE ClearDeadAssignment
  <2> DEFINE row == [handler.row EXCEPT !.assigned = 0]
  <2>1. row.status = handler.row.status  BY <1>1, WrittenRow
  <2>2. task' = row /\ handler' = [handler EXCEPT !.pc = "judge", !.row = row]
    BY <1>12 DEF ClearDeadAssignment, SaveTask
  <2> HIDE DEF row
  <2> QED  BY <1>1, <1>2, <2>1, <2>2, GoesOn, GoesOnWith
<1>13. CASE FailRejected \/ HandOffCheckpoint
  <2>1. Transition(handler.row, "failed")
    BY <1>13 DEF FailRejected, HandOffCheckpoint, FailTask
  <2>2. handler' = Free \/ handler' = [handler EXCEPT !.pc = "continue"]
    BY <1>13 DEF FailRejected, HandOffCheckpoint, Handle, Release
  <2> QED  BY <1>1, <1>2, <1>3, <2>1, <2>2, GoesOn, GoesOnWith, TransitionMoves
<1>14. CASE ChargeBudget
  <2> DEFINE row == [handler.row EXCEPT !.deaths = @ + 1]
  <2>1. row \in TaskRow /\ row.status = handler.row.status
    BY <1>1, TaskUpdates, WrittenRow
  <2>2. \/ Transition(row, "failed") /\ handler' = Free
        \/ task' = row /\ handler' = [handler EXCEPT !.pc = "count", !.row = row]
    BY <1>14 DEF ChargeBudget, SaveTask, FailTask, Release
  <2> HIDE DEF row
  <2>3. CASE Transition(row, "failed") /\ handler' = Free
    BY <1>2, <1>3, <2>1, <2>3, TransitionMoves
  <2>4. CASE task' = row /\ handler' = [handler EXCEPT !.pc = "count", !.row = row]
    <3>1. /\ handler'.pc = "count" /\ handler'.attempt = handler.attempt
          /\ handler'.by = handler.by /\ handler'.open = handler.open
          /\ handler'.row = row
      BY <1>1, <2>4, GoesOnWith
    <3> QED  BY <1>1, <1>2, <2>1, <2>4, <3>1
  <2> QED  BY <2>2, <2>3, <2>4
<1>15. CASE CountDeath
  <2>1. \/ Transition(handler.row, "failed") /\ handler' = Free
        \/ task' = task /\ handler' = [handler EXCEPT !.pc = "relaunch"]
    BY <1>15 DEF CountDeath, FailTask, Handle, Release
  <2> QED  BY <1>1, <1>2, <1>3, <2>1, GoesOn, GoesOnWith, TransitionMoves
<1>16. CASE Relaunch
  <2>1. \/ task' = [task EXCEPT !.assigned = Len(attempts) + 1]
           /\ handler' = [handler EXCEPT !.pc = "spawn"]
        \/ task' = task /\ handler' = Free
    BY <1>16 DEF Relaunch, Reserve, Handle, Release, rows
  <2>2. CASE task' = task /\ handler' = Free
    BY <1>2, <1>3, <2>2
  <2>3. CASE /\ task' = [task EXCEPT !.assigned = Len(attempts) + 1]
             /\ handler' = [handler EXCEPT !.pc = "spawn"]
    <3>1. task'.status = task.status  BY <1>1, <2>3, WrittenRow
    <3>2. handler'.pc = "spawn" /\ handler'.row = handler.row
      BY <1>1, <2>3, GoesOn
    <3> QED  BY <1>2, <3>1, <3>2
  <2> QED  BY <2>1, <2>2, <2>3
<1> QED  BY <1>4, <1>5, <1>6, <1>7, <1>8, <1>9, <1>10, <1>11, <1>12, <1>13, <1>14,
            <1>15, <1>16 DEF Completing, Dying

\* Nor does any other step make a task done, or assign one that is.
LEMMA DoneStays ==
  ASSUME WorkerTypeOK, DoneInv, [Next]_vars, ~AcceptWork, task'.status = "done"
  PROVE  task.status = "done" /\ task'.assigned = 0
<1>1. /\ task \in TaskRow /\ handler.row \in TaskRow /\ tick.row \in TaskRow
      /\ task.status = "done" => task.assigned = 0
  BY PartsOfTypes, ThreadUpdates DEF DoneInv, DoneByWork
<1>2. CASE UNCHANGED task
  BY <1>1, <1>2
<1>3. CASE task' = [task EXCEPT !.assigned = 0]
  BY <1>1, <1>3, WrittenRow
<1>4. ASSUME NEW row \in TaskRow, NEW status \in {"in_progress", "failed"},
             Transition(row, status)
      PROVE  task.status = "done" /\ task'.assigned = 0
  BY <1>1, <1>4, TransitionMoves
<1>5. CASE Dispatch
  <2>1. CASE DropExit \/ TakeEffect \/ FinalizeExit
    BY <1>2, <2>1 DEF DropExit, TakeEffect, FinalizeExit, rows
  <2> QED  BY <1>5, <2>1, ActingStays DEF Dispatch, DoneInv, Completing
<1>6. CASE Tick
  <2>1. CASE Schedule
    <3>1. task' = [task EXCEPT !.assigned = Len(attempts) + 1]
          /\ task.status # "done"
      BY <2>1 DEF Schedule, Reserve, Schedulable
    <3> QED  BY <1>1, <3>1, WrittenRow
  <2>2. CASE Claim
    <3>1. \/ UNCHANGED task
          \/ \E status \in {"in_progress", "failed"} : Transition(task, status)
      BY <2>2 DEF Claim, FailTask
    <3> QED  BY <1>1, <1>2, <1>4, <3>1
  <2>3. CASE WrapUp \/ Reconcile
    BY <1>2, <1>3, <2>3 DEF WrapUp, Reconcile, Adopted
  <2> QED  BY <1>2, <1>6, <2>1, <2>2, <2>3
           DEF Tick, BeginTick, EndPoll, ScheduleNothing, PollLive, PollExit, rows
<1>7. ASSUME NEW who, NEW n, Launching(who, n)
      PROVE  task.status = "done" /\ task'.assigned = 0
  <2>1. CASE FinalizeSpawn(who, n) \/ DestroySpawn(who, n)
    BY <1>2, <2>1 DEF FinalizeSpawn, DestroySpawn, rows
  <2>2. CASE task' = Unassigned(n)
    BY <1>2, <1>3, <2>2 DEF Unassigned
  <2>3. CASE SpawnFails(who, n)
    <3> DEFINE held == IF who = "tick" THEN tick.row ELSE handler.row
    <3>1. held \in TaskRow  BY <1>1
    <3>2. \/ task' = Unassigned(n)
          \/ task' = [held EXCEPT !.status = "failed", !.assigned = n,
                                  !.version = @ + 1]
      BY <2>3 DEF SpawnFails
    <3> DEFINE v == held.version + 1
    <3>3. CASE task' = [held EXCEPT !.status = "failed", !.assigned = n,
                                    !.version = v]
      <4> HIDE DEF held, v
      <4>1. task'.status = "failed"  BY <3>1, <3>3 DEF TaskRow
      <4> QED  BY <4>1
    <3> QED  BY <2>2, <3>2, <3>3
  <2>4. CASE SpawnTimesOut(who, n)
    BY <2>2, <2>4 DEF SpawnTimesOut
  <2> QED  BY <1>7, <2>1, <2>3, <2>4 DEF Launching
<1>8. CASE FailStuck
  <2> DEFINE row == [task EXCEPT !.deaths = @ + 1]
  <2>1. row \in TaskRow /\ Transition(row, "failed")
    BY <1>1, <1>8, TaskUpdates DEF FailStuck, FailTask
  <2> HIDE DEF row
  <2> QED  BY <1>4, <2>1
<1>9. CASE RetryTask \/ ResumeCheckpoint
  <2>1. task'.status \in {"backlog", "in_progress"}
    <3> DEFINE v == task.version + 1
    <3>1. \/ task' = [task EXCEPT !.status = "backlog", !.version = v,
                                  !.assigned = 0, !.empties = 0]
          \/ task' = [task EXCEPT !.status = "in_progress", !.version = v,
                                  !.assigned = 0]
      BY <1>9 DEF RetryTask, ResumeCheckpoint
    <3> HIDE DEF v
    <3> QED  BY <1>1, <3>1 DEF TaskRow
  <2> QED  BY <2>1
<1>10. CASE RecoverStaleAssignment
  <2>1. task' = [task EXCEPT !.assigned = 0, !.version = @ + 1]
    BY <1>10 DEF RecoverStaleAssignment
  <2> QED  BY <1>1, <2>1, WrittenRow
<1>11. CASE Crash
  BY <1>2, <1>3, <1>11 DEF Crash, Adopted
<1> QED  BY <1>2, <1>5, <1>6, <1>7, <1>8, <1>9, <1>10, <1>11
         DEF Next, PollFails, TakeEvent, SpawnerStarts, SpawnerRefuses, Commit, Exit,
             PauseParent, ResumeParent, rows, vars

\* The agent of an attempt that exited with zero and was put to rest rests.
LEMMA IdleStays ==
  ASSUME WorkerTypeOK, ExitsAreKnown, DispatchIsInformed, [Next]_vars,
         NEW n \in DOMAIN attempts, attempts[n].agent = "idle",
         containers[n].exit = "zero"
  PROVE  attempts'[n].agent = "idle"
<1>1. /\ RowsTyped /\ ContainersTyped
      /\ attempts[n] \in AttemptRow /\ containers[n].state = "exited"
  BY PartsOfTypes DEF RowsTyped, ExitsAreKnown
<1>2. CASE UNCHANGED attempts
  BY <1>2
<1>3. ASSUME NEW m, n # m, NEW row, attempts' = [attempts EXCEPT ![m] = row]
      PROVE  attempts'[n].agent = "idle"
  BY <1>3
<1>4. ASSUME NEW m,
             \/ \E state : Close(m, state)
             \/ attempts' = [attempts EXCEPT ![m].seen = TRUE]
             \/ attempts' = [attempts EXCEPT ![m].agent = "idle", ![m].holds = FALSE]
             \/ attempts' = [attempts EXCEPT ![m].holds = FALSE]
             \/ attempts' = [attempts EXCEPT ![m].state = "failed"]
             \/ attempts' = [attempts EXCEPT ![m].state = "running",
                                             ![m].named = TRUE]
      PROVE  attempts'[n].agent = "idle"
  <2>1. CASE m # n
    BY <1>4, <2>1 DEF Close
  <2>2. CASE m = n
    <3>1. DOMAIN attempts[n] = {"state", "named", "agent", "holds", "seen", "base"}
      BY <1>1 DEF AttemptRow
    <3> QED  BY <1>4, <2>2, <3>1 DEF Close
  <2> QED  BY <2>1, <2>2
<1>5. CASE Dispatch
  <2>1. CASE DropExit \/ TakeEffect \/ Completing
    BY <1>2, <1>4, <2>1
       DEF DropExit, TakeEffect, Completing, CompleteNothing, FindEmptyWork,
           AcceptWork, AcceptTooEarly, RejectWork, SaveIdleAgent, SaveEmptyWork,
           SaveRejection, FinalizeExit, rows
  <2>2. CASE SaveDeadAgent
    <3>1. self # n  BY <2>2 DEF SaveDeadAgent, DispatchIsInformed
    <3>2. attempts' = [attempts EXCEPT ![self].agent = "dead",
                                       ![self].holds = FALSE]
      BY <2>2 DEF SaveDeadAgent
    <3> QED  BY <3>1, <3>2
  <2>3. CASE SaveDeadAttempt
    BY <1>4, <2>3 DEF SaveDeadAttempt
  <2>4. CASE Relaunch
    BY <1>1, <1>2, <2>4, ReserveAdds DEF Relaunch, rows
  <2> QED  BY <1>2, <1>5, <2>1, <2>2, <2>3, <2>4
           DEF Dispatch, Dying, ClearDeadAssignment, FailRejected,
               HandOffCheckpoint, ChargeBudget, CountDeath
<1>6. CASE Tick
  <2>1. CASE Schedule
    BY <1>1, <2>1, ReserveAdds DEF Schedule
  <2>2. CASE WrapUp
    <3>1. PICK stale : /\ attempts' = [m \in DOMAIN attempts |->
                            IF m \in stale THEN [attempts[m] EXCEPT !.agent = "dead"]
                                           ELSE attempts[m]]
                       /\ n \notin stale
      BY <2>2 DEF WrapUp
    <3> QED  BY <3>1
  <2>3. ASSUME NEW m \in tick.polls, PollExit(m)
        PROVE  attempts'[n].agent = "idle"
    BY <1>4, <2>3 DEF PollExit, Observe
  <2> QED  BY <1>2, <1>6, <2>1, <2>2, <2>3
           DEF Tick, BeginTick, EndPoll, ScheduleNothing, Claim, Reconcile,
               PollLive, rows
<1>7. ASSUME NEW who, NEW m, Launching(who, m)
      PROVE  attempts'[n].agent = "idle"
  <2>1. CASE FinalizeSpawn(who, m)
    BY <1>4, <2>1 DEF FinalizeSpawn
  <2>2. CASE DestroySpawn(who, m)
    BY <1>2, <2>2 DEF DestroySpawn, rows
  <2>3. CASE SpawnFails(who, m) \/ SpawnTimesOut(who, m)
    <3>1. containers[m].state \in {"refused", "requested"}
          /\ attempts' = [attempts EXCEPT ![m] = Aborted(m)]
      BY <2>3 DEF SpawnFails, SpawnTimesOut
    <3> QED  BY <1>1, <1>3, <3>1
  <2> QED  BY <1>7, <2>1, <2>2, <2>3 DEF Launching
<1>8. CASE FailStuck
  <2>1. task.assigned # n
        /\ attempts' = [attempts EXCEPT ![task.assigned].agent = "dead",
                                        ![task.assigned].holds = FALSE]
    BY <1>8 DEF FailStuck, Stuck
  <2> QED  BY <2>1
<1>9. CASE RetryTask
  <2>1. attempts'[n] = IF attempts[n].holds
                         THEN [attempts[n] EXCEPT !.holds = FALSE,
                                 !.agent = IF @ = "dead" THEN "idle" ELSE @]
                         ELSE attempts[n]
    BY <1>9 DEF RetryTask
  <2> QED  BY <1>1, <2>1 DEF AttemptRow
<1>10. CASE RecoverStaleAssignment
  BY <1>4, <1>10 DEF RecoverStaleAssignment
<1>11. ASSUME NEW m \in events, TakeEvent(m)
       PROVE  attempts'[n].agent = "idle"
  BY <1>4, <1>11 DEF TakeEvent, Observe
<1> QED  BY <1>2, <1>5, <1>6, <1>7, <1>8, <1>9, <1>10, <1>11
         DEF Next, PollFails, SpawnerStarts, SpawnerRefuses, Commit, Exit,
             PauseParent, ResumeParent, ResumeCheckpoint, Crash, rows, vars

\* A dispatch stays informed.
LEMMA StaysInformed ==
  ASSUME WorkerTypeOK, DoneInv, [Next]_vars
  PROVE  DispatchIsInformed'
<1>1. handler \in HandlerRow /\ task \in TaskRow
  BY PartsOfTypes DEF ThreadsTyped
<1>2. ExitsAreKnown /\ DispatchIsInformed  BY DEF DoneInv
<1>3. CASE handler'.pc = "free"
  BY <1>3 DEF DispatchIsInformed, Acting, At
<1>4. CASE UNCHANGED handler /\ ~AcceptWork
  <2>1. handler.pc # "free" => containers'[self] = containers[self]
    BY <1>2, ExitsStay DEF ExitsAreKnown
  <2>2. task'.status = "done" => task.status = "done"
    BY <1>4, DoneStays
  <2> QED  BY <1>2, <1>4, <2>1, <2>2 DEF DispatchIsInformed, Acting, At, self
<1>5. ASSUME NEW by, NEW n, Observe(by, n), UNCHANGED task
      PROVE  DispatchIsInformed'
  BY <1>5 DEF Observe, DispatchIsInformed, Acting, At
<1>6. CASE TakeEffect
  <2>1. task' = task /\ containers' = containers
    BY <1>6 DEF TakeEffect, rows, world
  <2>2. task.status # "done" /\ handler.row.status # "done"
    BY <1>2, <1>6 DEF TakeEffect, IsEffective, DispatchIsInformed, Ended
  <2>3. /\ self' = self /\ handler'.row = handler.row
        /\ handler'.pc = IF containers[self].exit = "zero" THEN "complete"
                                                           ELSE "deadAgent"
    BY <1>1, <1>6, GoesOn DEF TakeEffect, Handle, self
  <2> QED  BY <2>1, <2>2, <2>3 DEF DispatchIsInformed, Acting, At
<1>7. CASE AcceptWork
  <2>1. handler'.pc = "finalize"  BY <1>1, <1>7, GoesOn DEF AcceptWork, Handle
  <2> QED  BY <2>1 DEF DispatchIsInformed, Acting, At
<1>8. CASE DropExit \/ FinalizeExit
  BY <1>3, <1>8 DEF DropExit, FinalizeExit, Release, Free
<1>9. CASE (Completing \/ Dying) /\ ~AcceptWork /\ ~FinalizeExit
  <2>1. /\ task'.status # "done"
        /\ \/ handler'.pc = "free"
           \/ /\ handler'.pc \notin {"finalize", "decide", "complete", "deadAgent"}
              /\ handler'.row.status # "done"
    BY <1>2, <1>9, ActingStays
  <2> QED  BY <1>3, <2>1 DEF DispatchIsInformed, Acting, At
<1>10. CASE Dispatch
  BY <1>6, <1>7, <1>8, <1>9, <1>10 DEF Dispatch
<1>11. CASE Tick
  <2>1. ASSUME NEW n \in tick.polls, PollExit(n)
        PROVE  DispatchIsInformed'
    BY <1>5, <2>1 DEF PollExit
  <2> QED  BY <1>4, <1>7, <1>11, <2>1
           DEF Tick, BeginTick, EndPoll, Schedule, ScheduleNothing, Claim, WrapUp,
               Reconcile, PollLive
<1>12. ASSUME NEW who, NEW n, Launching(who, n)
       PROVE  DispatchIsInformed'
  <2>1. UNCHANGED handler \/ handler' = Free
    BY <1>12 DEF Launching, FinalizeSpawn, DestroySpawn, SpawnFails, SpawnTimesOut,
                 Launched, Release
  <2> QED  BY <1>3, <1>4, <1>7, <2>1 DEF Free
<1>13. ASSUME NEW n \in events, TakeEvent(n)
       PROVE  DispatchIsInformed'
  BY <1>5, <1>13 DEF TakeEvent
<1>14. CASE Crash
  BY <1>3, <1>14 DEF Crash, Free
<1> QED  BY <1>4, <1>7, <1>10, <1>11, <1>12, <1>13, <1>14
         DEF Next, PollFails, FailStuck, SpawnerStarts, SpawnerRefuses, Commit, Exit,
             PauseParent, ResumeParent, RetryTask, RecoverStaleAssignment,
             ResumeCheckpoint, threads, vars

\* What was pushed stays pushed.
LEMMA HeadGrows ==
  ASSUME WorkerTypeOK, [Next]_vars, head > 0
  PROVE  head' > 0
<1>1. head \in Nat  BY DEF WorkerTypeOK
<1>2. head' = head \/ head' = head + 1
  BY DEF Next, Tick, BeginTick, EndPoll, Schedule, ScheduleNothing, Claim, WrapUp,
         Reconcile, PollLive, PollExit, Dispatch, DropExit, TakeEffect,
         Completing, CompleteNothing, FindEmptyWork, AcceptWork, AcceptTooEarly,
         RejectWork, SaveIdleAgent, SaveEmptyWork, SaveRejection, FinalizeExit,
         Dying, SaveDeadAgent, SaveDeadAttempt, ClearDeadAssignment,
         FailRejected, HandOffCheckpoint, ChargeBudget, CountDeath, Relaunch,
         PollFails, FailStuck, TakeEvent, Commit, Exit, PauseParent, ResumeParent,
         RetryTask, RecoverStaleAssignment, ResumeCheckpoint, Crash, Launching,
         FinalizeSpawn, DestroySpawn, SpawnFails, SpawnTimesOut, SpawnerStarts,
         SpawnerRefuses, world, vars
<1> QED  BY <1>1, <1>2

\* A subtask stays done by work.
LEMMA StaysDoneByWork ==
  ASSUME WorkerTypeOK, DoneInv, [Next]_vars
  PROVE  DoneByWork'
<1>1. ExitsAreKnown /\ DispatchIsInformed /\ DoneByWork  BY DEF DoneInv
<1>2. RowsTyped /\ ContainersTyped /\ task \in TaskRow  BY PartsOfTypes
<1>3. CASE AcceptWork
  <2>1. self \in DOMAIN attempts /\ containers[self].exit = "zero"
    BY <1>1, <1>3 DEF AcceptWork, ExitsAreKnown, DispatchIsInformed, At
  <2>2. containers' = containers /\ head' = head /\ head > 0
    BY <1>3 DEF AcceptWork, world
  <2>3. self \in DOMAIN attempts' /\ attempts'[self].agent = "idle"
    <3>1. attempts' = [attempts EXCEPT ![self].agent = "idle",
                                       ![self].holds = FALSE]
      BY <1>3 DEF AcceptWork
    <3>2. DOMAIN attempts[self] = {"state", "named", "agent", "holds", "seen", "base"}
      <4>1. attempts[self] \in AttemptRow  BY <1>2, <2>1 DEF RowsTyped
      <4> QED  BY <4>1 DEF AttemptRow
    <3> QED  BY <2>1, <3>1, <3>2
  <2>4. task'.assigned = 0
    <3> DEFINE v == task.version + 1
    <3>1. task' = [task EXCEPT !.status = "done", !.version = v,
                               !.assigned = 0, !.rejected = FALSE]
      BY <1>3 DEF AcceptWork
    <3> HIDE DEF v
    <3> QED  BY <1>2, <3>1 DEF TaskRow
  <2> QED  BY <2>1, <2>2, <2>3, <2>4 DEF DoneByWork
<1>4. CASE ~AcceptWork /\ task'.status = "done"
  <2>1. task.status = "done" /\ task'.assigned = 0
    BY <1>4, DoneStays
  <2>2. PICK n \in DOMAIN attempts :
          containers[n].exit = "zero" /\ attempts[n].agent = "idle"
    BY <1>1, <2>1 DEF DoneByWork
  <2>3. n \in DOMAIN attempts' /\ containers'[n] = containers[n]
    BY <1>1, <2>2, ExitsStay DEF ExitsAreKnown
  <2>4. attempts'[n].agent = "idle"
    BY <1>1, <2>2, IdleStays
  <2>5. head' > 0
    BY <1>1, <2>1, HeadGrows DEF DoneByWork
  <2> QED  BY <2>1, <2>2, <2>3, <2>4, <2>5 DEF DoneByWork
<1> QED  BY <1>3, <1>4 DEF DoneByWork

\* A subtask is done only by a worker that exited with zero after something was
\* pushed, and then nobody is assigned to it.
THEOREM DoneOnlyByWork == Spec => []DoneByWork
<1>1. Init => DoneInv
  <2> SUFFICES ASSUME Init  PROVE DoneInv
    OBVIOUS
  <2>1. task.status # "done" /\ handler.pc = "free"
    BY DEF Init, InitialTask, Free
  <2>2. DOMAIN attempts = {} /\ events = {}  BY DEF Init
  <2> QED  BY <2>1, <2>2 DEF DoneInv, DoneByWork, ExitsAreKnown,
              DispatchIsInformed, At, Acting
<1>2. WorkerTypeOK /\ DoneInv /\ [Next]_vars => DoneInv'
  BY ExitsStayKnown, StaysInformed, StaysDoneByWork DEF DoneInv
<1>3. DoneInv => DoneByWork  BY DEF DoneInv
<1> QED  BY <1>1, <1>2, <1>3, WorkersAreTyped, PTL DEF Spec

-----------------------------------------------------------------------------
(* Without the event stream                                                  *)

\* When only the tick consumes exits, a dispatch is the tick's, which polls and
\* waits for it, and a goroutine that waits for a launch does nothing else.
OneThread ==
  /\ events = {}
  /\ handler.pc # "free" => handler.by = "tick" /\ tick.pc = "poll"
  /\ launch["tick"] # 0 => tick.pc = "spawn"
  /\ launch["handler"] # 0 => At("spawn")

\* It stays so.
LEMMA StaysOneThread ==
  ASSUME ~EventStream, WorkerTypeOK, OneThread, [Next]_vars
  PROVE  OneThread'
<1>1. /\ handler \in HandlerRow /\ tick \in TickRow(DOMAIN attempts)
      /\ launch \in [Goroutine -> 0 .. Len(attempts)]
  BY PartsOfTypes DEF ThreadsTyped
<1>2. CASE UNCHANGED <<handler, tick, launch, events>>
  BY <1>2 DEF OneThread, At
<1>3. tick \in [pc : TickPC, polls : SUBSET DOMAIN attempts, row : TaskRow]
  BY <1>1 DEF TickRow
<1>4. ASSUME NEW pc, NEW polls,
             tick' = [tick EXCEPT !.pc = pc] \/ tick' = [tick EXCEPT !.pc = pc, !.polls = polls]
      PROVE  tick'.pc = pc
  BY <1>3, <1>4
<1>5. ASSUME NEW polls, tick' = [tick EXCEPT !.polls = polls]
      PROVE  tick'.pc = tick.pc
  BY <1>3, <1>5
<1>6. CASE Tick \/ PollFails \/ FailStuck
  <2>1. handler.by # "tick" /\ tick.pc # "spawn"
    BY <1>6 DEF Tick, PollFails, FailStuck, BeginTick, EndPoll, Schedule,
                ScheduleNothing, Claim, WrapUp, Reconcile, PollLive, PollExit, TickAt
  <2>2. handler.pc = "free" /\ launch["tick"] = 0 /\ launch["handler"] = 0
        /\ events' = {}
    BY <1>6, <2>1 DEF OneThread, At, Tick, PollFails, FailStuck, BeginTick, EndPoll,
              Schedule, ScheduleNothing, Claim, WrapUp, Reconcile, PollLive, PollExit,
              world
  <2>3. CASE Schedule
    <3>1. launch' = [launch EXCEPT !["tick"] = Len(attempts) + 1]
          /\ handler' = handler
      BY <2>3 DEF Schedule, Reserve
    <3>2. launch'["handler"] = launch["handler"]
      BY <1>1, <3>1 DEF Goroutine
    <3>3. tick'.pc = "spawn"
      BY <1>3, <2>3 DEF Schedule
    <3> QED  BY <2>2, <3>1, <3>2, <3>3 DEF OneThread, At
  <2>4. ASSUME NEW n \in tick.polls, PollExit(n)
        PROVE  OneThread'
    <3>1. launch' = launch /\ handler'.pc = "decide" /\ handler'.by = "tick"
          /\ tick.pc = "poll" /\ tick' = [tick EXCEPT !.polls = tick.polls \ {n}]
      BY <2>4 DEF PollExit, Observe, TickAt
    <3>2. tick'.pc = "poll"  BY <1>5, <3>1
    <3> QED  BY <2>2, <3>1, <3>2 DEF OneThread
  <2>5. CASE UNCHANGED <<handler, launch>>
    BY <2>2, <2>5 DEF OneThread, At
  <2> QED  BY <1>6, <2>3, <2>4, <2>5
           DEF Tick, PollFails, FailStuck, BeginTick, EndPoll, ScheduleNothing,
               Claim, WrapUp, Reconcile, PollLive
<1>7. CASE Dispatch
  <2>1. handler.pc # "free" /\ UNCHANGED <<tick, events>>
    BY <1>7 DEF Dispatch, DropExit, TakeEffect, Completing, CompleteNothing,
           FindEmptyWork, AcceptWork, AcceptTooEarly, RejectWork, SaveIdleAgent,
           SaveEmptyWork, SaveRejection, FinalizeExit, Dying, SaveDeadAgent,
           SaveDeadAttempt, ClearDeadAssignment, FailRejected, HandOffCheckpoint,
           ChargeBudget, CountDeath, Relaunch, At, rows, world
  <2>2. handler.by = "tick" /\ tick.pc = "poll" /\ launch["tick"] = 0
    BY <2>1 DEF OneThread
  <2>3. CASE Reserve("handler") /\ Handle("spawn")
    <3>1. launch'["tick"] = 0
      BY <1>1, <2>2, <2>3 DEF Reserve, Goroutine
    <3>2. handler'.pc = "spawn" /\ handler'.by = "tick"
      BY <1>1, <2>2, <2>3, GoesOn DEF Handle
    <3> QED  BY <2>1, <2>2, <3>1, <3>2 DEF OneThread, At
  <2>4. CASE UNCHANGED launch /\ launch["handler"] = 0
    <3>1. handler'.pc = "free" \/ handler'.by = "tick"
      <4>1. \/ handler' = Free
            \/ \E pc : handler' = [handler EXCEPT !.pc = pc]
            \/ \E pc, row : handler' = [handler EXCEPT !.pc = pc, !.row = row]
        BY <1>7 DEF Dispatch, DropExit, TakeEffect, Completing, CompleteNothing,
             FindEmptyWork, AcceptWork, AcceptTooEarly, RejectWork, SaveIdleAgent,
             SaveEmptyWork, SaveRejection, FinalizeExit, Dying, SaveDeadAgent,
             SaveDeadAttempt, ClearDeadAssignment, FailRejected, HandOffCheckpoint,
             ChargeBudget, CountDeath, Relaunch, Handle, Release
      <4>2. ASSUME NEW pc, handler' = [handler EXCEPT !.pc = pc]
            PROVE  handler'.by = "tick"
        BY <1>1, <2>2, <4>2, GoesOn
      <4>3. ASSUME NEW pc, NEW row,
                   handler' = [handler EXCEPT !.pc = pc, !.row = row]
            PROVE  handler'.by = "tick"
        BY <1>1, <2>2, <4>3, GoesOnWith
      <4>4. CASE handler' = Free
        BY <4>4 DEF Free
      <4> QED  BY <4>1, <4>2, <4>3, <4>4
    <3> QED  BY <2>1, <2>2, <2>4, <3>1 DEF OneThread
  <2>5. launch["handler"] = 0
    <3>1. ~At("spawn")
      BY <1>7 DEF Dispatch, DropExit, TakeEffect, Completing, CompleteNothing,
           FindEmptyWork, AcceptWork, AcceptTooEarly, RejectWork, SaveIdleAgent,
           SaveEmptyWork, SaveRejection, FinalizeExit, Dying, SaveDeadAgent,
           SaveDeadAttempt, ClearDeadAssignment, FailRejected, HandOffCheckpoint,
           ChargeBudget, CountDeath, Relaunch, At
    <3> QED  BY <3>1 DEF OneThread
  <2>6. \/ UNCHANGED launch
        \/ Reserve("handler") /\ Handle("spawn")
    <3>1. CASE Relaunch
      BY <3>1 DEF Relaunch
    <3>2. CASE Dispatch /\ ~Relaunch
      BY <3>2 DEF Dispatch, DropExit, TakeEffect, Completing, CompleteNothing,
         FindEmptyWork, AcceptWork, AcceptTooEarly, RejectWork, SaveIdleAgent,
         SaveEmptyWork, SaveRejection, FinalizeExit, Dying, SaveDeadAgent,
         SaveDeadAttempt, ClearDeadAssignment, FailRejected, HandOffCheckpoint,
         ChargeBudget, CountDeath
    <3> QED  BY <1>7, <3>1, <3>2
  <2> QED  BY <2>3, <2>4, <2>5, <2>6
<1>8. ASSUME NEW who \in Goroutine, NEW n \in DOMAIN attempts, Launching(who, n)
      PROVE  OneThread'
  <2>1. launch[who] # 0 /\ events' = {} /\ \E ok \in BOOLEAN : Launched(who, ok)
    BY <1>8 DEF Launching, FinalizeSpawn, DestroySpawn, SpawnFails, SpawnTimesOut,
                Waits, OneThread, world
  <2>2. launch' = [launch EXCEPT ![who] = 0]
    BY <2>1 DEF Launched
  <2>3. CASE who = "tick"
    <3>1. tick.pc = "spawn" /\ handler.pc = "free" /\ handler' = handler
      BY <2>1, <2>3 DEF OneThread, Launched
    <3>2. launch'["tick"] = 0 /\ launch'["handler"] = launch["handler"]
      BY <1>1, <2>2, <2>3 DEF Goroutine
    <3> QED  BY <2>1, <3>1, <3>2 DEF OneThread, At
  <2>4. CASE who = "handler"
    <3>1. handler' = Free /\ tick' = tick
      BY <2>1, <2>4 DEF Launched, Release
    <3>2. launch'["handler"] = 0 /\ launch'["tick"] = launch["tick"]
      BY <1>1, <2>2, <2>4 DEF Goroutine
    <3> QED  BY <2>1, <3>1, <3>2 DEF OneThread, At, Free
  <2> QED  BY <2>3, <2>4 DEF Goroutine
<1>9. CASE Crash
  BY <1>9 DEF Crash, OneThread, Free, Goroutine
<1>10. ASSUME NEW n \in events, TakeEvent(n)
       PROVE  OneThread'
  BY DEF OneThread
<1> QED  BY <1>2, <1>6, <1>7, <1>8, <1>9, <1>10
         DEF Next, SpawnerStarts, SpawnerRefuses, Commit, Exit, PauseParent,
             ResumeParent, RetryTask, RecoverStaleAssignment, ResumeCheckpoint,
             threads, world, vars

\* Whoever holds a row that may be written holds the charges for the deaths
\* that are counted; while the death at hand is counted, one more.
ChargesAreHeld ==
  /\ DeathsAreCharged
  /\ handler.pc # "free" => deaths <= handler.row.deaths
  /\ At("count") => deaths < task.deaths /\ deaths < handler.row.deaths
  /\ tick.pc = "spawn" => deaths <= tick.row.deaths

\* The charges in a row that is written.
LEMMA WrittenCharges ==
  ASSUME NEW row \in TaskRow
  PROVE  /\ row.deaths \in Nat
         /\ [row EXCEPT !.deaths = @ + 1].deaths = row.deaths + 1
         /\ [row EXCEPT !.empties = @ + 1].deaths = row.deaths
         /\ \A n : [row EXCEPT !.assigned = n].deaths = row.deaths
         /\ \A b : [row EXCEPT !.rejected = b].deaths = row.deaths
         /\ \A v : [row EXCEPT !.assigned = 0, !.version = v].deaths = row.deaths
<1>1. DOMAIN row = {"status", "version", "assigned", "empties", "deaths",
                    "rejected"}
      /\ row.deaths \in Nat
  BY DEF TaskRow
<1>2. /\ \A n : [row EXCEPT !.assigned = n].deaths = row.deaths
      /\ \A b : [row EXCEPT !.rejected = b].deaths = row.deaths
  BY <1>1
<1>3. /\ [row EXCEPT !.empties = @ + 1].deaths = row.deaths
      /\ [row EXCEPT !.deaths = @ + 1].deaths = row.deaths + 1
  BY <1>1
<1>4. \A v : [row EXCEPT !.assigned = 0, !.version = v].deaths = row.deaths
  BY <1>1
<1> QED  BY <1>1, <1>2, <1>3, <1>4

\* Assigning a task charges nothing.
LEMMA AssignmentCharges ==
  ASSUME NEW row \in TaskRow, NEW n, task' = [row EXCEPT !.assigned = n]
  PROVE  task'.deaths = row.deaths
BY DEF TaskRow

\* A transition writes the charges of the row it is given.
LEMMA TransitionCharges ==
  ASSUME NEW row \in TaskRow, NEW status, Transition(row, status)
  PROVE  task' = task \/ task'.deaths = row.deaths
<1> DEFINE v == row.version + 1
<1>1. task' = task \/ task' = [row EXCEPT !.status = status, !.version = v]
  BY DEF Transition
<1> HIDE DEF v
<1> QED  BY <1>1 DEF TaskRow

\* A dispatch keeps the charges.
LEMMA DispatchCharges ==
  ASSUME WorkerTypeOK, OneThread, ChargesAreHeld, Dispatch
  PROVE  ChargesAreHeld'
<1>1. /\ task \in TaskRow /\ handler \in HandlerRow /\ handler.row \in TaskRow
      /\ deaths \in Nat /\ task.deaths \in Nat /\ handler.row.deaths \in Nat
  BY PartsOfTypes, ThreadUpdates, WrittenCharges DEF ThreadsTyped, CountersTyped
<1>2. handler.pc # "free"
  BY DEF Dispatch, DropExit, TakeEffect, Completing, CompleteNothing,
         FindEmptyWork, AcceptWork, AcceptTooEarly, RejectWork, SaveIdleAgent,
         SaveEmptyWork, SaveRejection, FinalizeExit, Dying, SaveDeadAgent,
         SaveDeadAttempt, ClearDeadAssignment, FailRejected, HandOffCheckpoint,
         ChargeBudget, CountDeath, Relaunch, At
<1>3. deaths <= task.deaths /\ deaths <= handler.row.deaths /\ tick.pc = "poll"
  BY <1>2 DEF ChargesAreHeld, DeathsAreCharged, OneThread
<1>4. UNCHANGED tick
  BY DEF Dispatch, DropExit, TakeEffect, Completing, CompleteNothing,
         FindEmptyWork, AcceptWork, AcceptTooEarly, RejectWork, SaveIdleAgent,
         SaveEmptyWork, SaveRejection, FinalizeExit, Dying, SaveDeadAgent,
         SaveDeadAttempt, ClearDeadAssignment, FailRejected, HandOffCheckpoint,
         ChargeBudget, CountDeath, Relaunch
<1>5. CASE handler' = Free /\ deaths' <= task'.deaths
  BY <1>3, <1>4, <1>5 DEF ChargesAreHeld, DeathsAreCharged, Free, At
<1>6. CASE /\ deaths' <= task'.deaths /\ deaths' <= handler'.row.deaths
           /\ handler'.pc # "count"
  BY <1>3, <1>4, <1>6 DEF ChargesAreHeld, DeathsAreCharged, At
<1>7. ASSUME NEW pc, pc # "count", handler' = [handler EXCEPT !.pc = pc],
             UNCHANGED deaths, deaths <= task'.deaths
      PROVE  ChargesAreHeld'
  <2>1. handler'.pc = pc /\ handler'.row = handler.row  BY <1>1, <1>7, GoesOn
  <2> QED  BY <1>3, <1>6, <1>7, <2>1
<1>8. ASSUME NEW pc, NEW row, pc # "count",
             handler' = [handler EXCEPT !.pc = pc, !.row = row],
             UNCHANGED deaths, deaths <= task'.deaths, deaths <= row.deaths
      PROVE  ChargesAreHeld'
  <2>1. handler'.pc = pc /\ handler'.row = row  BY <1>1, <1>8, GoesOnWith
  <2> QED  BY <1>6, <1>8, <2>1
<1>9. CASE DropExit \/ CompleteNothing \/ FinalizeExit
  BY <1>3, <1>5, <1>9 DEF DropExit, CompleteNothing, FinalizeExit, Release, rows
<1>10. CASE TakeEffect \/ SaveIdleAgent \/ SaveDeadAgent \/ SaveDeadAttempt
  <2>1. UNCHANGED <<task, deaths>>
    BY <1>10 DEF TakeEffect, SaveIdleAgent, SaveDeadAgent, SaveDeadAttempt, rows
  <2>2. \E pc : pc # "count" /\ handler' = [handler EXCEPT !.pc = pc]
    BY <1>10 DEF TakeEffect, SaveIdleAgent, SaveDeadAgent, SaveDeadAttempt, Handle
  <2> QED  BY <1>3, <1>7, <2>1, <2>2
<1>11. CASE FindEmptyWork
  BY <1>3, <1>8, <1>11 DEF FindEmptyWork, rows
<1>12. CASE AcceptWork
  <2> DEFINE v == task.version + 1
  <2>1. /\ task' = [task EXCEPT !.status = "done", !.version = v,
                                !.assigned = 0, !.rejected = FALSE]
        /\ handler' = [handler EXCEPT !.pc = "finalize"] /\ UNCHANGED deaths
    BY <1>12 DEF AcceptWork, Handle
  <2> HIDE DEF v
  <2>2. task'.deaths = task.deaths  BY <1>1, <2>1 DEF TaskRow
  <2> QED  BY <1>3, <1>7, <2>1, <2>2
<1>13. CASE AcceptTooEarly
  <2>1. task'.deaths = task.deaths
    BY <1>1, <1>13, WrittenCharges DEF AcceptTooEarly
  <2> QED  BY <1>3, <1>5, <1>13, <2>1 DEF AcceptTooEarly, Release
<1>14. CASE RejectWork
  <2> DEFINE row == [task EXCEPT !.rejected = TRUE]
  <2>1. row.deaths = task.deaths  BY <1>1, WrittenCharges
  <2>2. task' = row /\ handler' = [handler EXCEPT !.pc = "rejectAgent", !.row = row]
        /\ UNCHANGED deaths
    BY <1>14 DEF RejectWork
  <2> HIDE DEF row
  <2> QED  BY <1>3, <1>8, <2>1, <2>2
<1>15. CASE SaveEmptyWork
  <2> DEFINE row == [handler.row EXCEPT !.empties = @ + 1]
  <2>1. row \in TaskRow /\ row.deaths = handler.row.deaths
    BY <1>1, TaskUpdates, WrittenCharges
  <2>2. /\ task' = [row EXCEPT !.assigned = 0] \/ Transition(row, "failed")
        /\ handler' = Free /\ UNCHANGED deaths
    BY <1>15 DEF SaveEmptyWork, SaveTask, FailTask, Release
  <2> HIDE DEF row
  <2>3. task' = task \/ task'.deaths = row.deaths
    <3>1. CASE task' = [row EXCEPT !.assigned = 0]
      BY <2>1, <3>1, AssignmentCharges
    <3>2. CASE Transition(row, "failed")
      BY <2>1, <3>2, TransitionCharges
    <3> QED  BY <2>2, <3>1, <3>2
  <2> QED  BY <1>3, <1>5, <2>1, <2>2, <2>3
<1>16. CASE SaveRejection
  <2> DEFINE row == [handler.row EXCEPT !.assigned = 0]
  <2>1. row \in TaskRow /\ row.deaths = handler.row.deaths
    BY <1>1, TaskUpdates, WrittenCharges
  <2>2. Transition(row, "failed") /\ handler' = Free /\ UNCHANGED deaths
    BY <1>16 DEF SaveRejection, FailTask, Release
  <2> HIDE DEF row
  <2>3. task' = task \/ task'.deaths = row.deaths
    BY <2>1, <2>2, TransitionCharges
  <2> QED  BY <1>3, <1>5, <2>1, <2>2, <2>3
<1>17. CASE ClearDeadAssignment
  <2> DEFINE row == [handler.row EXCEPT !.assigned = 0]
  <2>1. row.deaths = handler.row.deaths  BY <1>1, WrittenCharges
  <2>2. task' = row /\ handler' = [handler EXCEPT !.pc = "judge", !.row = row]
        /\ UNCHANGED deaths
    BY <1>17 DEF ClearDeadAssignment, SaveTask
  <2> HIDE DEF row
  <2> QED  BY <1>3, <1>8, <2>1, <2>2
<1>18. CASE FailRejected \/ HandOffCheckpoint
  <2>1. Transition(handler.row, "failed") /\ UNCHANGED deaths
    BY <1>18 DEF FailRejected, HandOffCheckpoint, FailTask
  <2>2. deaths <= task'.deaths
    BY <1>1, <1>3, <2>1, TransitionCharges
  <2>3. handler' = Free \/ handler' = [handler EXCEPT !.pc = "continue"]
    BY <1>18 DEF FailRejected, HandOffCheckpoint, Handle, Release
  <2> QED  BY <1>5, <1>7, <2>1, <2>2, <2>3
<1>19. CASE ChargeBudget
  <2> DEFINE row == [handler.row EXCEPT !.deaths = @ + 1]
  <2>1. row \in TaskRow /\ row.deaths = handler.row.deaths + 1
    BY <1>1, TaskUpdates, WrittenCharges
  <2>2. \/ Transition(row, "failed") /\ handler' = Free
        \/ task' = row /\ handler' = [handler EXCEPT !.pc = "count", !.row = row]
    BY <1>19 DEF ChargeBudget, SaveTask, FailTask, Release
  <2>3. UNCHANGED deaths  BY <1>19 DEF ChargeBudget
  <2> HIDE DEF row
  <2>4. CASE Transition(row, "failed") /\ handler' = Free
    <3>1. task' = task \/ task'.deaths = row.deaths
      BY <2>1, <2>4, TransitionCharges
    <3> QED  BY <1>1, <1>3, <1>5, <2>1, <2>3, <2>4, <3>1
  <2>5. CASE task' = row /\ handler' = [handler EXCEPT !.pc = "count", !.row = row]
    <3>1. handler'.row = row  BY <1>1, <2>5, GoesOnWith
    <3>2. deaths' < task'.deaths /\ deaths' < handler'.row.deaths
          /\ deaths' <= task'.deaths /\ deaths' <= handler'.row.deaths
      BY <1>1, <1>3, <2>1, <2>3, <2>5, <3>1
    <3> QED  BY <1>3, <1>4, <3>2 DEF ChargesAreHeld, DeathsAreCharged, At
  <2> QED  BY <2>2, <2>4, <2>5
<1>20. CASE CountDeath
  <2>1. deaths < task.deaths /\ deaths < handler.row.deaths
    BY <1>20 DEF CountDeath, ChargesAreHeld
  <2>2. deaths' = deaths + 1  BY <1>20 DEF CountDeath
  <2>3. \/ Transition(handler.row, "failed") /\ handler' = Free
        \/ task' = task /\ handler' = [handler EXCEPT !.pc = "relaunch"]
    BY <1>20 DEF CountDeath, FailTask, Handle, Release
  <2>4. task' = task \/ task'.deaths = handler.row.deaths
    BY <1>1, <2>3, TransitionCharges
  <2>5. deaths' <= task'.deaths
    BY <1>1, <2>1, <2>2, <2>4
  <2>6. CASE handler' = [handler EXCEPT !.pc = "relaunch"]
    <3>1. handler'.pc = "relaunch" /\ handler'.row = handler.row
      BY <1>1, <2>6, GoesOn
    <3>2. deaths' <= handler'.row.deaths  BY <1>1, <2>1, <2>2, <3>1
    <3> QED  BY <1>6, <2>5, <3>1, <3>2
  <2> QED  BY <1>5, <2>3, <2>5, <2>6
<1>21. CASE Relaunch
  <2>1. UNCHANGED deaths
        /\ \/ task' = [task EXCEPT !.assigned = Len(attempts) + 1]
              /\ handler' = [handler EXCEPT !.pc = "spawn"]
           \/ task' = task /\ handler' = Free
    BY <1>21 DEF Relaunch, Reserve, Handle, Release, rows
  <2>2. task'.deaths = task.deaths
    <3>1. CASE task' = [task EXCEPT !.assigned = Len(attempts) + 1]
      BY <1>1, <3>1, AssignmentCharges
    <3> QED  BY <2>1, <3>1
  <2> QED  BY <1>3, <1>5, <1>7, <2>1, <2>2
<1> QED  BY <1>9, <1>10, <1>11, <1>12, <1>13, <1>14, <1>15, <1>16, <1>17, <1>18,
            <1>19, <1>20, <1>21 DEF Dispatch, Completing, Dying

\* No step loses a charge.
LEMMA ChargesStay ==
  ASSUME ~EventStream, WorkerTypeOK, OneThread, ChargesAreHeld, [Next]_vars
  PROVE  ChargesAreHeld'
<1>1. /\ task \in TaskRow /\ handler \in HandlerRow /\ handler.row \in TaskRow
      /\ tick.row \in TaskRow /\ deaths \in Nat
      /\ task.deaths \in Nat /\ handler.row.deaths \in Nat /\ tick.row.deaths \in Nat
      /\ deaths <= task.deaths
  BY PartsOfTypes, ThreadUpdates, WrittenCharges
     DEF ThreadsTyped, CountersTyped, ChargesAreHeld, DeathsAreCharged
<1>2. tick \in [pc : TickPC, polls : SUBSET DOMAIN attempts, row : TaskRow]
  BY PartsOfTypes DEF ThreadsTyped, TickRow
<1>3. CASE UNCHANGED <<handler, tick, deaths>> /\ task'.deaths >= task.deaths
           /\ task'.deaths \in Nat
  BY <1>1, <1>3 DEF ChargesAreHeld, DeathsAreCharged, At
<1>4. CASE UNCHANGED <<handler, tick, deaths, task>>
  BY <1>1, <1>3, <1>4
<1>5. CASE Tick \/ PollFails \/ FailStuck
  <2>1. handler.pc = "free" /\ UNCHANGED deaths
    BY <1>5 DEF Tick, PollFails, FailStuck, BeginTick, EndPoll, Schedule,
                ScheduleNothing, Claim, WrapUp, Reconcile, PollLive, PollExit, TickAt,
                OneThread
  <2>2. CASE UNCHANGED handler /\ tick'.pc # "spawn" /\ deaths <= task'.deaths
    BY <2>1, <2>2 DEF ChargesAreHeld, DeathsAreCharged, At
  <2>3. CASE BeginTick \/ EndPoll \/ ScheduleNothing \/ PollFails
               \/ \E n \in tick.polls : PollLive(n)
    <3>1. UNCHANGED <<handler, task>>
      BY <2>3 DEF BeginTick, EndPoll, ScheduleNothing, PollFails, PollLive, rows
    <3>2. tick'.pc # "spawn"
      BY <1>2, <2>3 DEF BeginTick, EndPoll, ScheduleNothing, PollFails, PollLive,
                        Step, TickAt
    <3> QED  BY <1>1, <2>2, <3>1, <3>2
  <2>4. ASSUME NEW n \in tick.polls, PollExit(n)
        PROVE  ChargesAreHeld'
    <3>1. /\ handler'.row = task /\ handler'.pc = "decide" /\ task' = task
          /\ tick.pc = "poll" /\ tick' = [tick EXCEPT !.polls = tick.polls \ {n}]
      BY <2>4 DEF PollExit, Observe, TickAt
    <3>2. tick'.pc = "poll"  BY <1>2, <3>1
    <3> QED  BY <1>1, <2>1, <3>1, <3>2 DEF ChargesAreHeld, DeathsAreCharged, At
  <2>5. CASE Schedule
    <3>1. /\ task' = [task EXCEPT !.assigned = Len(attempts) + 1]
          /\ tick' = [tick EXCEPT !.pc = "spawn", !.row = task]
          /\ UNCHANGED handler
      BY <2>5 DEF Schedule, Reserve
    <3>2. task'.deaths = task.deaths  BY <1>1, <3>1, WrittenCharges
    <3>3. tick'.row = task  BY <1>2, <3>1
    <3> QED  BY <1>1, <2>1, <3>1, <3>2, <3>3
             DEF ChargesAreHeld, DeathsAreCharged, At
  <2>6. CASE Claim \/ WrapUp \/ Reconcile
    <3>1. UNCHANGED handler /\ \E pc : pc # "spawn" /\ tick' = [tick EXCEPT !.pc = pc]
      BY <2>6 DEF Claim, WrapUp, Reconcile, Step
    <3>2. tick'.pc # "spawn"  BY <1>2, <3>1
    <3>3. \/ task' = task \/ task' = [task EXCEPT !.assigned = 0]
          \/ \E status : Transition(task, status)
      BY <2>6 DEF Claim, WrapUp, Reconcile, Adopted, FailTask
    <3>4. task'.deaths = task.deaths
      <4>1. CASE task' = [task EXCEPT !.assigned = 0]
        BY <1>1, <4>1, AssignmentCharges
      <4>2. ASSUME NEW status, Transition(task, status)
            PROVE  task'.deaths = task.deaths
        BY <1>1, <4>2, TransitionCharges
      <4> QED  BY <3>3, <4>1, <4>2
    <3> QED  BY <1>1, <2>2, <3>1, <3>2, <3>4
  <2>7. CASE FailStuck
    <3> DEFINE row == [task EXCEPT !.deaths = @ + 1]
    <3>1. row \in TaskRow /\ row.deaths = task.deaths + 1
      BY <1>1, TaskUpdates, WrittenCharges
    <3>2. /\ Transition(row, "failed") /\ UNCHANGED handler
          /\ tick' = [tick EXCEPT !.pc = "idle"]
      BY <2>7 DEF FailStuck, FailTask, Step
    <3> HIDE DEF row
    <3>3. task' = task \/ task'.deaths = row.deaths
      BY <3>1, <3>2, TransitionCharges
    <3>4. tick'.pc = "idle"  BY <1>2, <3>2
    <3> QED  BY <1>1, <2>2, <3>1, <3>2, <3>3, <3>4
  <2> QED  BY <1>5, <2>3, <2>4, <2>5, <2>6, <2>7 DEF Tick
<1>6. ASSUME NEW who \in Goroutine, NEW n \in DOMAIN attempts, Launching(who, n)
      PROVE  ChargesAreHeld'
  <2>1. /\ launch[who] # 0 /\ \E ok \in BOOLEAN : Launched(who, ok)
        /\ UNCHANGED deaths
    BY <1>6 DEF Launching, FinalizeSpawn, DestroySpawn, SpawnFails, SpawnTimesOut,
                Waits
  <2> DEFINE held == IF who = "tick" THEN tick.row ELSE handler.row
  <2>2. held \in TaskRow /\ held.deaths \in Nat /\ deaths <= held.deaths
    BY <1>1, <2>1 DEF Goroutine, OneThread, ChargesAreHeld, At
  <2>3. deaths <= task'.deaths
    <3>1. CASE task' = Unassigned(n) \/ task' = task
      <4>1. task' = task \/ task' = [task EXCEPT !.assigned = 0]
        BY <3>1 DEF Unassigned
      <4>2. CASE task' = [task EXCEPT !.assigned = 0]
        <5>1. task'.deaths = task.deaths  BY <1>1, <4>2, AssignmentCharges
        <5> QED  BY <1>1, <5>1
      <4> QED  BY <1>1, <4>1, <4>2
    <3>2. ASSUME NEW v, task' = [held EXCEPT !.status = "failed", !.assigned = n,
                                              !.version = v]
          PROVE  deaths <= task'.deaths
      <4> HIDE DEF held
      <4>1. task'.deaths = held.deaths  BY <2>2, <3>2 DEF TaskRow
      <4> QED  BY <2>2, <4>1
    <3>3. \/ task' = Unassigned(n) \/ task' = task
          \/ \E v : task' = [held EXCEPT !.status = "failed", !.assigned = n,
                                         !.version = v]
      <4>1. CASE SpawnFails(who, n)
        BY <4>1 DEF SpawnFails
      <4>2. CASE FinalizeSpawn(who, n) \/ DestroySpawn(who, n)
                   \/ SpawnTimesOut(who, n)
        BY <4>2 DEF FinalizeSpawn, DestroySpawn, SpawnTimesOut, rows
      <4> QED  BY <1>6, <4>1, <4>2 DEF Launching
    <3> HIDE DEF held
    <3> QED  BY <3>1, <3>2, <3>3
  <2>4. CASE who = "tick"
    <3>1. handler.pc = "free" /\ UNCHANGED handler
          /\ \E pc : pc # "spawn" /\ tick' = [tick EXCEPT !.pc = pc]
      BY <2>1, <2>4 DEF OneThread, Launched, Step
    <3>2. tick'.pc # "spawn"  BY <1>2, <3>1
    <3> QED  BY <2>3, <3>1, <3>2, <2>1 DEF ChargesAreHeld, DeathsAreCharged, At
  <2>5. CASE who = "handler"
    <3>1. handler' = Free /\ UNCHANGED tick /\ tick.pc = "poll"
      BY <2>1, <2>5 DEF OneThread, Launched, Release, At
    <3> QED  BY <2>1, <2>3, <3>1 DEF ChargesAreHeld, DeathsAreCharged, At, Free
  <2> QED  BY <2>4, <2>5 DEF Goroutine
<1>7. CASE RetryTask \/ RecoverStaleAssignment \/ ResumeCheckpoint
  <2>1. UNCHANGED <<handler, tick, deaths>>
    BY <1>7 DEF RetryTask, RecoverStaleAssignment, ResumeCheckpoint, threads
  <2> DEFINE v == task.version + 1
  <2>2. \/ task' = [task EXCEPT !.status = "backlog", !.version = v,
                                !.assigned = 0, !.empties = 0]
        \/ task' = [task EXCEPT !.assigned = 0, !.version = v]
        \/ task' = [task EXCEPT !.status = "in_progress", !.version = v,
                                !.assigned = 0]
    BY <1>7 DEF RetryTask, RecoverStaleAssignment, ResumeCheckpoint
  <2> HIDE DEF v
  <2>3. task'.deaths = task.deaths  BY <1>1, <2>2 DEF TaskRow
  <2> QED  BY <1>1, <1>3, <2>1, <2>3
<1>8. CASE Crash
  <2>1. handler' = Free /\ tick' = IdleTick /\ deaths' = 0
        /\ (task' = task \/ task' = [task EXCEPT !.assigned = 0])
    BY <1>8 DEF Crash, Adopted
  <2>2. task'.deaths = task.deaths
    <3>1. CASE task' = [task EXCEPT !.assigned = 0]
      BY <1>1, <3>1, AssignmentCharges
    <3> QED  BY <2>1, <3>1
  <2> QED  BY <1>1, <2>1, <2>2
           DEF ChargesAreHeld, DeathsAreCharged, At, Free, IdleTick
<1>9. ASSUME NEW n \in events, TakeEvent(n)
      PROVE  ChargesAreHeld'
  BY DEF OneThread
<1> QED  BY <1>4, <1>5, <1>6, <1>7, <1>8, <1>9, DispatchCharges
         DEF Next, SpawnerStarts, SpawnerRefuses, Commit, Exit, PauseParent,
             ResumeParent, rows, threads, vars

\* Where the tick alone consumes exits, no dead worker is replaced that the
\* budget in the row has not been charged for, whatever operators ask and
\* however often the orchestrator restarts.
THEOREM DeathsStayCharged ==
  ASSUME ~EventStream
  PROVE  Spec => []DeathsAreCharged
<1>1. Init => OneThread /\ ChargesAreHeld
  BY DEF Init, OneThread, ChargesAreHeld, DeathsAreCharged, At, Free, IdleTick,
         InitialTask, Goroutine
<1>2. /\ WorkerTypeOK /\ OneThread /\ ChargesAreHeld /\ [Next]_vars
      => OneThread' /\ ChargesAreHeld'
  BY StaysOneThread, ChargesStay
<1>3. ChargesAreHeld => DeathsAreCharged  BY DEF ChargesAreHeld
<1> QED  BY <1>1, <1>2, <1>3, WorkersAreTyped, PTL DEF Spec

=============================================================================
