---------------------------- MODULE AttemptProofs ----------------------------
(***************************************************************************)
(* WorkerAttempts keeps the lease of AttemptLedger, for any number of      *)
(* attempts, faults, restarts and operator requests, and with it the lease *)
(* is exclusive.  The only invariant the refinement needs is that the rows *)
(* of attempts are rows: whether a write finds an attempt open, closed or  *)
(* absent, it maps to a step of the ledger or to none.                     *)
(***************************************************************************)
EXTENDS WorkerAttempts, SequenceTheorems, TLAPS

\* The states of the attempts, as the ledger sees them.
Ledgered == [n \in DOMAIN attempts |-> attempts[n].state]

RowsTyped == attempts \in Seq(AttemptRow) /\ head \in Nat

-----------------------------------------------------------------------------
(* Sequences of attempts under the updates the actions make                  *)

\* Writing one row leaves a sequence of as many rows.
LEMMA RowReplaced ==
  ASSUME RowsTyped, NEW n, NEW row,
         n \in DOMAIN attempts => row \in AttemptRow
  PROVE  /\ [attempts EXCEPT ![n] = row] \in Seq(AttemptRow)
         /\ DOMAIN [attempts EXCEPT ![n] = row] = DOMAIN attempts
<1>1. CASE n \in DOMAIN attempts
  <2>1. n \in 1 .. Len(attempts) /\ attempts \in Seq(AttemptRow)
    BY <1>1 DEF RowsTyped
  <2> QED  BY <1>1, <2>1, ExceptSeq
<1>2. CASE n \notin DOMAIN attempts
  <2>1. [attempts EXCEPT ![n] = row] = attempts  BY <1>2 DEF RowsTyped
  <2> QED  BY <2>1 DEF RowsTyped
<1> QED  BY <1>1, <1>2

\* So does rewriting all of them.
LEMMA RowsMapped ==
  ASSUME RowsTyped, NEW rowsAfter,
         rowsAfter = [n \in DOMAIN attempts |-> rowsAfter[n]],
         \A n \in DOMAIN attempts : rowsAfter[n] \in AttemptRow
  PROVE  rowsAfter \in Seq(AttemptRow)
<1>1. DOMAIN attempts = 1 .. Len(attempts) /\ Len(attempts) \in Nat
  BY DEF RowsTyped
<1>2. rowsAfter \in [1 .. Len(attempts) -> AttemptRow]  BY <1>1
<1> QED  BY <1>1, <1>2, SeqDef

-----------------------------------------------------------------------------
(* What the writes of the actions are to the ledger                          *)

Keeps == RowsTyped' /\ [Ledger!Next]_Ledgered

\* A step that leaves the rows alone.
LEMMA Untouched ==
  ASSUME RowsTyped, UNCHANGED <<attempts, head>>
  PROVE  Keeps
BY DEF RowsTyped, Ledgered, Keeps

\* A step that writes fields of one row and leaves its state alone.
LEMMA Relabelled ==
  ASSUME RowsTyped, head' = head, NEW n, NEW row,
         n \in DOMAIN attempts => row \in AttemptRow /\ row.state = attempts[n].state,
         attempts' = [attempts EXCEPT ![n] = row]
  PROVE  Keeps
<1>1. attempts' \in Seq(AttemptRow) /\ DOMAIN attempts' = DOMAIN attempts
  BY RowReplaced
<1>2. \A m \in DOMAIN attempts : attempts'[m].state = attempts[m].state
  BY DEF RowsTyped
<1>3. Ledgered' = Ledgered  BY <1>1, <1>2 DEF Ledgered
<1> QED  BY <1>1, <1>3 DEF Keeps, RowsTyped

\* The same of many rows at once.
LEMMA RelabelledAll ==
  ASSUME RowsTyped, head' = head,
         attempts' = [n \in DOMAIN attempts |-> attempts'[n]],
         \A n \in DOMAIN attempts :
           attempts'[n] \in AttemptRow /\ attempts'[n].state = attempts[n].state
  PROVE  Keeps
<1>1. attempts' \in Seq(AttemptRow)  BY RowsMapped
<1>2. DOMAIN attempts' = DOMAIN attempts  OBVIOUS
<1>3. Ledgered' = Ledgered  BY <1>2 DEF Ledgered
<1> QED  BY <1>1, <1>3 DEF Keeps, RowsTyped

\* A step that gives one row another state which the ledger allows.
LEMMA Restated ==
  ASSUME RowsTyped, head' = head, NEW n, NEW row,
         n \in DOMAIN attempts =>
           /\ row \in AttemptRow
           /\ \/ row.state = attempts[n].state
              \/ attempts[n].state = "reserved" /\ row.state = "running"
              \/ attempts[n].state \in Ledger!OpenState
                   /\ row.state \in Ledger!ClosedState
              \/ attempts[n].state \in Ledger!ClosedState /\ row.state = "failed",
         attempts' = [attempts EXCEPT ![n] = row]
  PROVE  Keeps
<1>1. CASE n \in DOMAIN attempts /\ row.state # attempts[n].state
  <2>1. attempts' \in Seq(AttemptRow) /\ DOMAIN attempts' = DOMAIN attempts
    BY <1>1, RowReplaced
  <2>2. n \in DOMAIN Ledgered /\ Ledgered[n] = attempts[n].state
    BY <1>1 DEF Ledgered
  <2>3. Ledgered' = [Ledgered EXCEPT ![n] = row.state]
    BY <1>1, <2>1 DEF Ledgered, RowsTyped
  <2>4. Ledger!Start(n) \/ Ledger!Close(n) \/ Ledger!Amend(n)
    BY <1>1, <2>2, <2>3
       DEF Ledger!Start, Ledger!Close, Ledger!Amend, Ledgered
  <2>5. Ledger!Next  BY <2>2, <2>4 DEF Ledger!Next, Ledgered
  <2> QED  BY <2>1, <2>5 DEF Keeps, RowsTyped
<1>2. CASE n \in DOMAIN attempts /\ row.state = attempts[n].state
  BY <1>2, Relabelled
<1>3. CASE n \notin DOMAIN attempts
  BY <1>3, Relabelled
<1> QED  BY <1>1, <1>2, <1>3

-----------------------------------------------------------------------------
(* The actions                                                               *)

\* What a reservation adds is a row.
LEMMA NewAttemptTyped ==
  ASSUME RowsTyped
  PROVE  NewAttempt \in AttemptRow /\ NewAttempt.state = "reserved"
BY DEF RowsTyped, NewAttempt, AttemptRow

\* A reservation ends what was open and opens a new attempt.
LEMMA ReserveKeeps ==
  ASSUME RowsTyped, head' = head, NEW who, Reserve(who)
  PROVE  Keeps
<1> DEFINE closed == [n \in DOMAIN attempts |->
                        IF Open(n) THEN [attempts[n] EXCEPT !.state = "superseded"]
                                   ELSE attempts[n]]
<1>1. \A n \in DOMAIN attempts : closed[n] \in AttemptRow
  <2> SUFFICES ASSUME NEW n \in DOMAIN attempts
               PROVE  closed[n] \in AttemptRow
    OBVIOUS
  <2>1. attempts[n] \in AttemptRow  BY DEF RowsTyped
  <2>2. [attempts[n] EXCEPT !.state = "superseded"] \in AttemptRow
    BY <2>1 DEF AttemptRow
  <2> QED  BY <2>1, <2>2
<1>2. closed \in Seq(AttemptRow)
  BY <1>1, RowsMapped
<1>3. attempts' = Append(closed, NewAttempt)  BY DEF Reserve
<1>4. DOMAIN closed = DOMAIN attempts /\ Len(closed) = Len(attempts)
  BY <1>2 DEF RowsTyped
<1> HIDE DEF closed
<1>5. attempts' \in Seq(AttemptRow)
  BY <1>2, <1>3, NewAttemptTyped
<1>6. /\ Len(attempts') = Len(attempts) + 1
      /\ \A n \in DOMAIN attempts : attempts'[n] = closed[n]
      /\ attempts'[Len(attempts) + 1] = NewAttempt
  BY <1>2, <1>3, <1>4, NewAttemptTyped
<1>7. \A n \in DOMAIN attempts :
        closed[n].state = IF attempts[n].state \in Ledger!OpenState
                            THEN "superseded" ELSE attempts[n].state
  <2> SUFFICES ASSUME NEW n \in DOMAIN attempts
               PROVE  closed[n].state = IF attempts[n].state \in Ledger!OpenState
                                          THEN "superseded" ELSE attempts[n].state
    OBVIOUS
  <2>1. attempts[n] \in AttemptRow  BY DEF RowsTyped
  <2>2. Open(n) <=> attempts[n].state \in Ledger!OpenState
    BY DEF Open, Ledger!OpenState
  <2> QED  BY <2>1, <2>2 DEF closed, AttemptRow
<1> DEFINE after == Ledger!Superseded
<1>8. after \in Seq(Ledger!OpenState \union Ledger!ClosedState)
      /\ Len(after) = Len(attempts)
  <2>1. DOMAIN Ledgered = DOMAIN attempts
        /\ \A n \in DOMAIN attempts : Ledgered[n] = attempts[n].state
    BY DEF Ledgered
  <2>2. after = [n \in DOMAIN attempts |->
                   IF attempts[n].state \in Ledger!OpenState
                     THEN "superseded" ELSE attempts[n].state]
    BY <2>1 DEF Ledger!Superseded, Ledgered
  <2>3. \A n \in DOMAIN attempts :
          attempts[n].state \in Ledger!OpenState \union Ledger!ClosedState
    <3> SUFFICES ASSUME NEW n \in DOMAIN attempts
                 PROVE  attempts[n].state
                          \in Ledger!OpenState \union Ledger!ClosedState
      OBVIOUS
    <3>1. attempts[n] \in AttemptRow  BY DEF RowsTyped
    <3> QED  BY <3>1 DEF AttemptRow, Ledger!OpenState, Ledger!ClosedState
  <2>4. after \in [1 .. Len(attempts) ->
                     Ledger!OpenState \union Ledger!ClosedState]
    BY <2>2, <2>3 DEF RowsTyped, Ledger!ClosedState
  <2> QED  BY <2>4, SeqDef, LenProperties DEF RowsTyped
<1>9. \A n \in DOMAIN attempts : after[n] = closed[n].state
  BY <1>7 DEF Ledger!Superseded, Ledgered
<1> HIDE DEF after
<1>10. Ledgered' = Append(after, "reserved")
  <2>1. DOMAIN attempts' = 1 .. Len(attempts) + 1 /\ Len(attempts) \in Nat
        /\ DOMAIN attempts = 1 .. Len(attempts)
    BY <1>5, <1>6 DEF RowsTyped
  <2>2. Ledgered' = [n \in 1 .. Len(attempts) + 1 |-> attempts'[n].state]
    BY <2>1 DEF Ledgered
  <2>3. \A n \in 1 .. Len(attempts) + 1 :
          attempts'[n].state = IF n = Len(attempts) + 1 THEN "reserved"
                                                        ELSE after[n]
    BY <1>6, <1>9, <2>1, NewAttemptTyped
  <2> DEFINE app == Append(after, "reserved")
             States == Ledger!OpenState \union Ledger!ClosedState
  <2>4. "reserved" \in States  BY DEF Ledger!OpenState
  <2>5. /\ app \in Seq(States)
        /\ Len(app) = Len(attempts) + 1
        /\ \A n \in 1 .. Len(attempts) : app[n] = after[n]
        /\ app[Len(attempts) + 1] = "reserved"
    BY <1>8, <2>4, AppendProperties
  <2> HIDE DEF app, States
  <2>6. app = [n \in 1 .. Len(app) |-> app[n]]
    <3>1. app \in [1 .. Len(app) -> States]  BY <2>5, LenProperties
    <3> QED  BY <3>1
  <2>7. \A n \in 1 .. Len(attempts) + 1 : attempts'[n].state = app[n]
    BY <2>1, <2>3, <2>5
  <2>8. app = [n \in 1 .. Len(attempts) + 1 |-> attempts'[n].state]
    BY <2>5, <2>6, <2>7
  <2> QED  BY <2>2, <2>8 DEF app
<1>11. Ledger!Reserve
  BY <1>10 DEF Ledger!Reserve, Ledgered, after
<1> QED  BY <1>5, <1>11 DEF Keeps, RowsTyped, Ledger!Next

\* Finalising a spawn starts an attempt that was reserved.
LEMMA FinalizeSpawnKeeps ==
  ASSUME RowsTyped, head' = head, NEW who, NEW n, FinalizeSpawn(who, n)
  PROVE  Keeps
<1> DEFINE row == [attempts[n] EXCEPT !.state = "running", !.named = TRUE]
<1>1. attempts' = [attempts EXCEPT ![n] = row] /\ attempts[n].state = "reserved"
  BY DEF FinalizeSpawn
<1>2. n \in DOMAIN attempts => row \in AttemptRow /\ row.state = "running"
  <2> SUFFICES ASSUME n \in DOMAIN attempts
               PROVE  row \in AttemptRow /\ row.state = "running"
    OBVIOUS
  <2>1. attempts[n] \in AttemptRow  BY DEF RowsTyped
  <2> QED  BY <2>1 DEF AttemptRow
<1> HIDE DEF row
<1> QED  BY <1>1, <1>2, Restated

\* A failed spawn closes an attempt that was open, or none.
LEMMA AbortKeeps ==
  ASSUME RowsTyped, head' = head, NEW n,
         attempts' = [attempts EXCEPT ![n] = Aborted(n)]
  PROVE  Keeps
<1>1. n \in DOMAIN attempts =>
        /\ Aborted(n) \in AttemptRow
        /\ \/ Aborted(n).state = attempts[n].state
           \/ attempts[n].state \in Ledger!OpenState
                /\ Aborted(n).state \in Ledger!ClosedState
  <2> SUFFICES ASSUME n \in DOMAIN attempts
               PROVE  /\ Aborted(n) \in AttemptRow
                      /\ \/ Aborted(n).state = attempts[n].state
                         \/ attempts[n].state \in Ledger!OpenState
                              /\ Aborted(n).state \in Ledger!ClosedState
    OBVIOUS
  <2>1. attempts[n] \in AttemptRow  BY DEF RowsTyped
  <2>2. CASE Open(n)
    <3>1. Aborted(n) = [attempts[n] EXCEPT !.state = "aborted", !.named = FALSE,
                                           !.agent = "dead"]
      BY <2>2 DEF Aborted
    <3> QED  BY <2>1, <2>2, <3>1
                DEF Open, AttemptRow, Ledger!OpenState, Ledger!ClosedState
  <2>3. CASE ~Open(n)
    BY <2>1, <2>3 DEF Aborted
  <2> QED  BY <2>2, <2>3
<1> QED  BY <1>1, Restated

\* Releasing a lease closes an attempt if it is open.
LEMMA CloseKeeps ==
  ASSUME RowsTyped, head' = head, NEW n,
         NEW state \in {"completed", "failed"}, Close(n, state)
  PROVE  Keeps
<1> DEFINE row == [attempts[n] EXCEPT !.state = IF Open(n) THEN state ELSE @]
<1>1. attempts' = [attempts EXCEPT ![n] = row]
  BY DEF Close
<1>2. n \in DOMAIN attempts =>
        /\ row \in AttemptRow
        /\ \/ row.state = attempts[n].state
           \/ attempts[n].state \in Ledger!OpenState
                /\ row.state \in Ledger!ClosedState
  <2> SUFFICES ASSUME n \in DOMAIN attempts
               PROVE  /\ row \in AttemptRow
                      /\ \/ row.state = attempts[n].state
                         \/ attempts[n].state \in Ledger!OpenState
                              /\ row.state \in Ledger!ClosedState
    OBVIOUS
  <2>1. attempts[n] \in AttemptRow  BY DEF RowsTyped
  <2> QED  BY <2>1 DEF AttemptRow, Open, Ledger!OpenState, Ledger!ClosedState
<1> HIDE DEF row
<1> QED  BY <1>1, <1>2, Restated

\* The write of a death's handler closes the attempt it is about.
LEMMA SaveDeadAttemptKeeps ==
  ASSUME RowsTyped, SaveDeadAttempt
  PROVE  Keeps
<1> DEFINE row == [attempts[self] EXCEPT !.state = "failed"]
<1>1. attempts' = [attempts EXCEPT ![self] = row] /\ head' = head
  BY DEF SaveDeadAttempt, world
<1>2. self \in DOMAIN attempts =>
        /\ row \in AttemptRow /\ row.state = "failed"
        /\ attempts[self].state \in Ledger!OpenState \union Ledger!ClosedState
  <2> SUFFICES ASSUME self \in DOMAIN attempts
               PROVE  /\ row \in AttemptRow /\ row.state = "failed"
                      /\ attempts[self].state
                           \in Ledger!OpenState \union Ledger!ClosedState
    OBVIOUS
  <2>1. attempts[self] \in AttemptRow  BY DEF RowsTyped
  <2> QED  BY <2>1 DEF AttemptRow, Ledger!OpenState, Ledger!ClosedState
<1>3. "failed" \in Ledger!ClosedState  BY DEF Ledger!ClosedState
<1> HIDE DEF row
<1> QED  BY <1>1, <1>2, <1>3, Restated

\* Steps that write the agent of one attempt, or that its exit was seen.
LEMMA AgentWritesKeep ==
  ASSUME RowsTyped, head' = head, NEW n,
         \/ attempts' = [attempts EXCEPT ![n].seen = TRUE]
         \/ attempts' = [attempts EXCEPT ![n].agent = "idle", ![n].holds = FALSE]
         \/ attempts' = [attempts EXCEPT ![n].agent = "dead", ![n].holds = FALSE]
         \/ attempts' = [attempts EXCEPT ![n].holds = FALSE]
  PROVE  Keeps
<1> DEFINE seen == [attempts[n] EXCEPT !.seen = TRUE]
           idle == [attempts[n] EXCEPT !.agent = "idle", !.holds = FALSE]
           dead == [attempts[n] EXCEPT !.agent = "dead", !.holds = FALSE]
           free == [attempts[n] EXCEPT !.holds = FALSE]
<1>1. \/ attempts' = [attempts EXCEPT ![n] = seen]
      \/ attempts' = [attempts EXCEPT ![n] = idle]
      \/ attempts' = [attempts EXCEPT ![n] = dead]
      \/ attempts' = [attempts EXCEPT ![n] = free]
  BY DEF RowsTyped
<1>2. n \in DOMAIN attempts =>
        \A row \in {seen, idle, dead, free} :
          row \in AttemptRow /\ row.state = attempts[n].state
  <2> SUFFICES ASSUME n \in DOMAIN attempts
               PROVE  \A row \in {seen, idle, dead, free} :
                        row \in AttemptRow /\ row.state = attempts[n].state
    OBVIOUS
  <2>1. attempts[n] \in AttemptRow  BY DEF RowsTyped
  <2>2. seen \in AttemptRow /\ seen.state = attempts[n].state
    BY <2>1 DEF AttemptRow
  <2>3. idle \in AttemptRow /\ idle.state = attempts[n].state
    BY <2>1 DEF AttemptRow
  <2>4. dead \in AttemptRow /\ dead.state = attempts[n].state
    BY <2>1 DEF AttemptRow
  <2>5. free \in AttemptRow /\ free.state = attempts[n].state
    BY <2>1 DEF AttemptRow
  <2> QED  BY <2>2, <2>3, <2>4, <2>5
<1> HIDE DEF seen, idle, dead, free
<1> QED  BY <1>1, <1>2, Relabelled

\* Wrapping up after a tick writes agents only: the ledger does not move.
LEMMA WrapUpKeeps ==
  ASSUME RowsTyped, WrapUp
  PROVE  Keeps
<1>1. head' = head  BY DEF WrapUp, world
<1>2. PICK stale : attempts' = [n \in DOMAIN attempts |->
                     IF n \in stale THEN [attempts[n] EXCEPT !.agent = "dead"]
                                    ELSE attempts[n]]
  BY DEF WrapUp
<1>3. \A n \in DOMAIN attempts :
        attempts'[n] \in AttemptRow /\ attempts'[n].state = attempts[n].state
  <2> SUFFICES ASSUME NEW n \in DOMAIN attempts
               PROVE  attempts'[n] \in AttemptRow
                        /\ attempts'[n].state = attempts[n].state
    OBVIOUS
  <2>1. attempts[n] \in AttemptRow  BY DEF RowsTyped
  <2> DEFINE dead == [attempts[n] EXCEPT !.agent = "dead"]
  <2>2. dead \in AttemptRow /\ dead.state = attempts[n].state
    BY <2>1 DEF AttemptRow
  <2>3. attempts'[n] = dead \/ attempts'[n] = attempts[n]
    BY <1>2
  <2> HIDE DEF dead
  <2> QED  BY <2>1, <2>2, <2>3
<1>4. attempts' = [n \in DOMAIN attempts |-> attempts'[n]]
  BY <1>2
<1> QED  BY <1>1, <1>3, <1>4, RelabelledAll

\* A retry of the task takes assignments away and leaves the states alone.
LEMMA RetryKeeps ==
  ASSUME RowsTyped, RetryTask
  PROVE  Keeps
<1>1. head' = head  BY DEF RetryTask, world
<1>2. attempts' = [n \in DOMAIN attempts |->
        IF attempts[n].holds
          THEN [attempts[n] EXCEPT !.holds = FALSE,
                  !.agent = IF @ = "dead" THEN "idle" ELSE @]
          ELSE attempts[n]]
  BY DEF RetryTask
<1>3. \A n \in DOMAIN attempts :
        attempts'[n] \in AttemptRow /\ attempts'[n].state = attempts[n].state
  <2> SUFFICES ASSUME NEW n \in DOMAIN attempts
               PROVE  attempts'[n] \in AttemptRow
                        /\ attempts'[n].state = attempts[n].state
    OBVIOUS
  <2>1. attempts[n] \in AttemptRow  BY DEF RowsTyped
  <2> DEFINE agent == IF attempts[n].agent = "dead" THEN "idle"
                                                    ELSE attempts[n].agent
             free == [attempts[n] EXCEPT !.holds = FALSE, !.agent = agent]
  <2>2. agent \in {"working", "idle", "dead"}
    BY <2>1 DEF AttemptRow
  <2>3. attempts'[n] = free \/ attempts'[n] = attempts[n]
    BY <1>2
  <2> HIDE DEF agent
  <2>4. free \in AttemptRow /\ free.state = attempts[n].state
    BY <2>1, <2>2 DEF AttemptRow
  <2> HIDE DEF free
  <2> QED  BY <2>1, <2>3, <2>4
<1>4. attempts' = [n \in DOMAIN attempts |-> attempts'[n]]
  BY <1>2
<1> QED  BY <1>1, <1>3, <1>4, RelabelledAll

\* A commit of a worker touches no row.
LEMMA CommitKeeps ==
  ASSUME RowsTyped, NEW n, Commit(n)
  PROVE  Keeps
BY DEF RowsTyped, Commit, rows, Keeps, Ledgered

-----------------------------------------------------------------------------
(* Every step maps to a step of the ledger or to none                        *)

\* Every step of a launch.
LEMMA LaunchKeeps ==
  ASSUME RowsTyped, NEW who, NEW n, Launching(who, n)
  PROVE  Keeps
<1>1. CASE FinalizeSpawn(who, n)
  BY <1>1, FinalizeSpawnKeeps DEF FinalizeSpawn, world
<1>2. CASE DestroySpawn(who, n)
  BY <1>2, Untouched DEF DestroySpawn, rows
<1>3. CASE SpawnFails(who, n)
  BY <1>3, AbortKeeps DEF SpawnFails, world
<1>4. CASE SpawnTimesOut(who, n)
  BY <1>4, AbortKeeps DEF SpawnTimesOut, world
<1> QED  BY <1>1, <1>2, <1>3, <1>4 DEF Launching

\* Every step of handling a completion.
LEMMA CompleteKeeps ==
  ASSUME RowsTyped, Completing
  PROVE  Keeps
<1>1. CASE CompleteNothing \/ FindEmptyWork \/ AcceptTooEarly
             \/ SaveEmptyWork \/ SaveRejection
  BY <1>1, Untouched DEF CompleteNothing, FindEmptyWork, AcceptTooEarly,
                         SaveEmptyWork, SaveRejection, rows, world
<1>2. CASE AcceptWork \/ SaveIdleAgent
  BY <1>2, AgentWritesKeep DEF AcceptWork, SaveIdleAgent, world
<1>3. CASE RejectWork \/ FinalizeExit
  BY <1>3, CloseKeeps DEF RejectWork, FinalizeExit, world
<1> QED  BY <1>1, <1>2, <1>3 DEF Completing

\* Every step of handling a death.
LEMMA DieKeeps ==
  ASSUME RowsTyped, Dying
  PROVE  Keeps
<1>1. CASE SaveDeadAgent
  BY <1>1, AgentWritesKeep DEF SaveDeadAgent, world
<1>2. CASE SaveDeadAttempt
  BY <1>2, SaveDeadAttemptKeeps
<1>3. CASE ClearDeadAssignment \/ FailRejected \/ HandOffCheckpoint
             \/ ChargeBudget \/ CountDeath
  BY <1>3, Untouched DEF ClearDeadAssignment, FailRejected, HandOffCheckpoint,
                         ChargeBudget, CountDeath, world
<1>4. CASE Relaunch
  BY <1>4, Untouched, ReserveKeeps DEF Relaunch, rows, world
<1> QED  BY <1>1, <1>2, <1>3, <1>4 DEF Dying

\* Every step of handling an exit.
LEMMA DispatchKeeps ==
  ASSUME RowsTyped, Dispatch
  PROVE  Keeps
<1>1. CASE DropExit
  <2>1. head' = head  BY <1>1 DEF DropExit, world
  <2>2. \/ \E state \in {"completed", "failed"} : Close(self, state)
        \/ UNCHANGED attempts
    BY <1>1 DEF DropExit
  <2> QED  BY <2>1, <2>2, CloseKeeps, Untouched
<1>2. CASE TakeEffect
  BY <1>2, Untouched DEF TakeEffect, rows, world
<1> QED  BY <1>1, <1>2, CompleteKeeps, DieKeeps DEF Dispatch

\* Every step of the tick.
LEMMA TickKeeps ==
  ASSUME RowsTyped, Tick
  PROVE  Keeps
<1>1. CASE BeginTick \/ EndPoll \/ ScheduleNothing \/ Claim \/ Reconcile
  BY <1>1, Untouched DEF BeginTick, EndPoll, ScheduleNothing, Claim, Reconcile,
                         rows, world
<1>2. CASE Schedule
  BY <1>2, ReserveKeeps DEF Schedule
<1>3. CASE WrapUp
  BY <1>3, WrapUpKeeps
<1>4. ASSUME NEW n \in tick.polls, PollLive(n)
      PROVE  Keeps
  BY <1>4, Untouched DEF PollLive, rows, world
<1>5. ASSUME NEW n \in tick.polls, PollExit(n)
      PROVE  Keeps
  BY <1>5, AgentWritesKeep DEF PollExit, Observe, world
<1> QED  BY <1>1, <1>2, <1>3, <1>4, <1>5 DEF Tick

\* Every step of the orchestrator, the workers and the faults is a step of the
\* ledger or leaves it alone.
LEMMA StepKeeps ==
  ASSUME RowsTyped, [Next]_vars
  PROVE  Keeps
<1>1. CASE PollFails
  BY <1>1, Untouched DEF PollFails, rows, world
<1>2. CASE FailStuck
  BY <1>2, AgentWritesKeep DEF FailStuck, world
<1>3. ASSUME NEW n \in events, TakeEvent(n)
      PROVE  Keeps
  BY <1>3, AgentWritesKeep DEF TakeEvent, Observe
<1>4. ASSUME NEW n, SpawnerStarts(n) \/ SpawnerRefuses(n) \/ Exit(n)
      PROVE  Keeps
  BY <1>4, Untouched DEF SpawnerStarts, SpawnerRefuses, Exit, rows
<1>5. CASE PauseParent \/ ResumeParent \/ ResumeCheckpoint \/ Crash
  BY <1>5, Untouched DEF PauseParent, ResumeParent, ResumeCheckpoint, Crash,
                         rows, world
<1>6. CASE RecoverStaleAssignment
  BY <1>6, AgentWritesKeep DEF RecoverStaleAssignment, world
<1>7. CASE UNCHANGED vars
  BY <1>7, Untouched DEF vars
<1> QED  BY <1>1, <1>2, <1>3, <1>4, <1>5, <1>6, <1>7, TickKeeps, DispatchKeeps,
            LaunchKeeps, CommitKeeps, RetryKeeps DEF Next

-----------------------------------------------------------------------------
(* Theorems                                                                  *)

\* The rows of attempts keep their types, whatever interleaves.
THEOREM RowsAreTyped == Spec => []RowsTyped
<1>1. Init => RowsTyped  BY DEF Init, RowsTyped
<1>2. RowsTyped /\ [Next]_vars => RowsTyped'  BY StepKeeps DEF Keeps
<1> QED  BY <1>1, <1>2, PTL DEF Spec

\* However reservations, aborts, exits, deaths, restarts and operator requests
\* interleave, what they write is a behaviour of the ledger.
THEOREM AttemptsKeepTheLedger == Spec => KeepsTheLedger
<1>1. Init => Ledger!Init  BY DEF Init, Ledger!Init
<1>2. RowsTyped /\ [Next]_vars => [Ledger!Next]_Ledgered
  BY StepKeeps DEF Keeps
<1>3. Ledger!Spec <=> Ledger!Init /\ [][Ledger!Next]_Ledgered
  BY DEF Ledger!Spec, Ledgered
<1> QED  BY <1>1, <1>2, <1>3, RowsAreTyped, PTL DEF Spec, KeepsTheLedger

\* A step of the ledger keeps the lease exclusive: a reservation ends what was
\* open, and what has ended is not opened again.
LEMMA LeaseIsKept ==
  ASSUME Ledger!LedgerTypeOK, Ledger!OnlyLastIsOpen, [Ledger!Next]_Ledgered
  PROVE  Ledger!LedgerTypeOK' /\ Ledger!OnlyLastIsOpen'
<1> DEFINE State == Ledger!OpenState \union Ledger!ClosedState
<1> USE DEF Ledgered
<1>1. /\ Ledgered \in Seq(State) /\ Len(Ledgered) \in Nat
      /\ DOMAIN Ledgered = 1 .. Len(Ledgered)
  BY DEF Ledger!LedgerTypeOK
<1>2. CASE Ledger!Reserve
  <2>1. \A n \in DOMAIN Ledgered :
          Ledger!Superseded[n] \in State /\ Ledger!Superseded[n] \notin Ledger!OpenState
    BY <1>1 DEF Ledger!Superseded, Ledger!OpenState, Ledger!ClosedState
  <2>2. Ledger!Superseded \in [1 .. Len(Ledgered) -> State]
    BY <1>1, <2>1 DEF Ledger!Superseded
  <2>3. "reserved" \in State  BY DEF Ledger!OpenState
  <2>4. Ledgered' = Append(Ledger!Superseded, "reserved")
    BY <1>2 DEF Ledger!Reserve
  <2> HIDE DEF State, Ledgered
  <2>5. Ledger!Superseded \in Seq(State) /\ Len(Ledger!Superseded) = Len(Ledgered)
    BY <1>1, <2>2, SeqDef, LenProperties
  <2>6. /\ Ledgered' \in Seq(State) /\ Len(Ledgered') = Len(Ledgered) + 1
        /\ \A n \in 1 .. Len(Ledgered) : Ledgered'[n] = Ledger!Superseded[n]
    BY <2>5, <2>3, <2>4, AppendProperties
  <2>7. \A n \in DOMAIN Ledgered' :
          Ledgered'[n] \in Ledger!OpenState => n = Len(Ledgered')
    BY <1>1, <2>1, <2>6
  <2> QED  BY <2>6, <2>7 DEF Ledger!LedgerTypeOK, Ledger!OnlyLastIsOpen, State, Ledgered
<1>3. ASSUME NEW n \in DOMAIN Ledgered,
             Ledger!Start(n) \/ Ledger!Close(n) \/ Ledger!Amend(n)
      PROVE  Ledger!LedgerTypeOK' /\ Ledger!OnlyLastIsOpen'
  <2>1. PICK state \in State :
          /\ Ledgered' = [Ledgered EXCEPT ![n] = state]
          /\ state \in Ledger!OpenState => Ledgered[n] \in Ledger!OpenState
    BY <1>3 DEF Ledger!Start, Ledger!Close, Ledger!Amend, Ledger!OpenState,
                Ledger!ClosedState
  <2> HIDE DEF State, Ledgered
  <2>2. Ledgered' \in Seq(State) /\ Len(Ledgered') = Len(Ledgered)
    BY <1>1, <2>1, ExceptSeq
  <2>3. \A m \in DOMAIN Ledgered :
          Ledgered[m] \in Ledger!OpenState => m = Len(Ledgered)
    BY DEF Ledger!OnlyLastIsOpen, Ledgered
  <2>4. \A m \in DOMAIN Ledgered' :
          Ledgered'[m] \in Ledger!OpenState => m = Len(Ledgered')
    BY <1>1, <2>1, <2>2, <2>3
  <2> QED  BY <2>2, <2>4 DEF Ledger!LedgerTypeOK, Ledger!OnlyLastIsOpen, State, Ledgered
<1>4. CASE UNCHANGED Ledgered
  BY <1>4 DEF Ledger!LedgerTypeOK, Ledger!OnlyLastIsOpen
<1> QED  BY <1>2, <1>3, <1>4 DEF Ledger!Next

\* The lease is exclusive in every behaviour of the ledger, of any length.
THEOREM LeaseIsExclusive ==
  Ledger!Spec => [](Ledger!LedgerTypeOK /\ Ledger!OnlyLastIsOpen)
<1>1. Ledger!Init => Ledger!LedgerTypeOK /\ Ledger!OnlyLastIsOpen
  BY DEF Ledger!Init, Ledger!LedgerTypeOK, Ledger!OnlyLastIsOpen
<1>2. /\ Ledger!LedgerTypeOK /\ Ledger!OnlyLastIsOpen /\ [Ledger!Next]_Ledgered
      => Ledger!LedgerTypeOK' /\ Ledger!OnlyLastIsOpen'
  BY LeaseIsKept
<1>3. Ledger!Spec <=> Ledger!Init /\ [][Ledger!Next]_Ledgered
  BY DEF Ledger!Spec, Ledgered
<1> QED  BY <1>1, <1>2, <1>3, PTL

\* At most one attempt of a subtask is open at any time, the one reserved last:
\* the partial unique index on open attempts is never hit.
THEOREM OneOpenAttempt == Spec => []Ledger!OnlyLastIsOpen
<1>1. Spec => Ledger!Spec  BY AttemptsKeepTheLedger DEF KeepsTheLedger
<1> QED  BY <1>1, LeaseIsExclusive, PTL

=============================================================================
