---------------------------- MODULE TurnDelivery -----------------------------
(***************************************************************************)
(* How events and messages wake the C-suite agents (internal/eventbus,     *)
(* internal/watcher, cmd/csuite-watcher/main.go).                          *)
(*                                                                         *)
(* A poller looks for deliveries that are not acknowledged, another for    *)
(* signal files; both hand agents on through channels to goroutines that   *)
(* trigger turns.  A scheduler keeps one turn of an agent running and      *)
(* remembers one more.  Every turn begins with a check for work, which     *)
(* acknowledges the events it finds before the agent has seen them.        *)
(*                                                                         *)
(* Production sets no cooldown between turns, and the safety timer does    *)
(* nothing.                                                                *)
(***************************************************************************)
EXTENDS Naturals, Sequences, FiniteSets, SequencesExt

CONSTANTS
  Agents,      \* who may run turns
  Recipients,  \* for whom the orchestrator records deliveries
  Picky,       \* the agents for whom only task events are relevant
  ChannelSize  \* of the two channels

ASSUME DeliveryAssumption ==
  /\ Picky \subseteq Agents
  /\ ChannelSize \in Nat \ {0}

VARIABLES
  events,    \* the kind of each published event
  bus,       \* the deliveries of each recipient: unacked and acked events
  mail,      \* the inbox of each agent: unread messages, the signal file
  channels,  \* agents notified, the batch in work, and agents to wake
  sched,     \* the scheduler's entry of each agent
  turns,     \* the turn goroutines of each agent: where they are and the events
             \* they took
  fate,      \* history: the events a turn began with, and those that got lost
  stopping   \* whether the watcher is shutting down

turnVars == <<events, bus, mail, channels, sched, turns, fate, stopping>>

-----------------------------------------------------------------------------
(* Types *)

Kinds == {"task", "agent"}

NoChannels == [ notified |-> <<>>, batch |-> {}, wakes |-> <<>> ]

Idle == [ running |-> FALSE, queued |-> FALSE ]

TurnInit ==
  /\ events = <<>>
  /\ bus = [ r \in Recipients \cup Agents |-> [ unacked |-> {}, acked |-> {} ] ]
  /\ mail = [ a \in Agents |-> [ unread |-> FALSE, signal |-> FALSE ] ]
  /\ channels = NoChannels
  /\ sched = [ a \in Agents |-> Idle ]
  /\ turns = [ a \in Agents |-> <<>> ]
  /\ fate = [ a \in Agents |-> [ seen |-> {}, lost |-> {} ] ]
  /\ stopping = FALSE

-----------------------------------------------------------------------------
(* The event bus and the inboxes *)

\* A delivery is recorded once.
Deliver(r, n) == bus' = [ bus EXCEPT ![r].unacked = @ \cup {n} ]

Ack(r, ns) ==
  bus' = [ bus EXCEPT ![r].unacked = @ \ ns,
                      ![r].acked = @ \cup (ns \cap bus[r].unacked) ]

Relevant(a, n) == a \in Picky => events[n] = "task"

\* A message is filed first; a request also leaves a signal.
Receive(a, urgent) ==
  /\ mail' = [ mail EXCEPT ![a] = [ unread |-> TRUE,
                                    signal |-> @.signal \/ urgent ] ]
  /\ UNCHANGED <<events, bus, channels, sched, turns, fate, stopping>>

-----------------------------------------------------------------------------
(* The scheduler *)

At(a, i, pc) == i \in DOMAIN turns[a] /\ turns[a][i].pc = pc

NewTurn == [ pc |-> "check", held |-> {} ]

\* Mutant: a running turn does not keep another from starting.
TriggerAtOnce(a) ==
  /\ sched' = [ sched EXCEPT ![a].running = TRUE ]
  /\ turns' = [ turns EXCEPT ![a] = Append(@, NewTurn) ]

\* Mutant: a trigger during a turn is dropped.
TriggerIfIdle(a) ==
  IF sched[a].running
  THEN UNCHANGED <<sched, turns>>
  ELSE /\ sched' = [ sched EXCEPT ![a].running = TRUE ]
       /\ turns' = [ turns EXCEPT ![a] = Append(@, NewTurn) ]

\* TriggerAgent: start a turn or remember that one is wanted.
Trigger(a) ==
  IF sched[a].running
  THEN /\ sched' = [ sched EXCEPT ![a].queued = TRUE ]
       /\ UNCHANGED turns
  ELSE /\ sched' = [ sched EXCEPT ![a].running = TRUE ]
       /\ turns' = [ turns EXCEPT ![a] = Append(@, NewTurn) ]

\* A turn is over; the one remembered starts.
Complete(a, i) ==
  IF sched[a].queued
  THEN /\ sched' = [ sched EXCEPT ![a].queued = FALSE ]
       /\ turns' = [ turns EXCEPT ![a][i] = NewTurn ]
  ELSE /\ sched' = [ sched EXCEPT ![a] = Idle ]
       /\ turns' = [ turns EXCEPT ![a] = RemoveAt(@, i) ]

-----------------------------------------------------------------------------
(* What wakes an agent *)

\* pollDeliveries hands on all agents with unacknowledged events, and waits
\* while the channel is full.
PollDeliveries ==
  LET waiting == { a \in Agents : bus[a].unacked # {} }
  IN /\ ~stopping /\ waiting # {}
     /\ Len(channels.notified) < ChannelSize
     /\ channels' = [ channels EXCEPT !.notified = Append(@, waiting) ]
     /\ UNCHANGED <<events, bus, mail, sched, turns, fate, stopping>>

\* EventDeliveryTrigger takes a batch when it is through with the last
TakeBatch ==
  /\ ~stopping /\ channels.batch = {} /\ channels.notified # <<>>
  /\ channels' = [ channels EXCEPT !.batch = Head(channels.notified),
                                   !.notified = Tail(@) ]
  /\ UNCHANGED <<events, bus, mail, sched, turns, fate, stopping>>

\* and triggers its agents concurrently.
TriggerFromBatch(a) ==
  /\ a \in channels.batch
  /\ channels' = [ channels EXCEPT !.batch = @ \ {a} ]
  /\ Trigger(a)
  /\ UNCHANGED <<events, bus, mail, fate, stopping>>

\* Mutant: the channel takes any number of wakes.
PollSignalUnbounded(a) ==
  /\ ~stopping /\ mail[a].signal
  /\ mail' = [ mail EXCEPT ![a].signal = FALSE ]
  /\ channels' = [ channels EXCEPT !.wakes = Append(@, a) ]
  /\ UNCHANGED <<events, bus, sched, turns, fate, stopping>>

\* The signal file is removed first; a full channel drops the wake.
PollSignal(a) ==
  /\ ~stopping /\ mail[a].signal
  /\ mail' = [ mail EXCEPT ![a].signal = FALSE ]
  /\ channels' = IF Len(channels.wakes) < ChannelSize
                 THEN [ channels EXCEPT !.wakes = Append(@, a) ] ELSE channels
  /\ UNCHANGED <<events, bus, sched, turns, fate, stopping>>

\* The fan-in goroutine.
Wake ==
  /\ ~stopping /\ channels.wakes # <<>>
  /\ channels' = [ channels EXCEPT !.wakes = Tail(@) ]
  /\ Trigger(Head(channels.wakes))
  /\ UNCHANGED <<events, bus, mail, fate, stopping>>

-----------------------------------------------------------------------------
(* A turn *)

\* The inbox is looked at first: with mail there, events are left alone.
CheckInbox(a, i) ==
  /\ At(a, i, "check")
  /\ turns' = [ turns EXCEPT ![a][i].pc =
                  IF mail[a].unread THEN "launch" ELSE "events" ]
  /\ UNCHANGED <<events, bus, mail, channels, sched, fate, stopping>>

\* The relevant events are taken;
CheckEvents(a, i) ==
  /\ At(a, i, "events")
  /\ turns' = [ turns EXCEPT ![a][i] =
       [ pc |-> "sweep",
         held |-> { n \in bus[a].unacked : Relevant(a, n) } ] ]
  /\ UNCHANGED <<events, bus, mail, channels, sched, fate, stopping>>

\* Mutant: what was not taken is acknowledged, whatever it is.
SweepTheRest(a, i) ==
  /\ At(a, i, "sweep")
  /\ Ack(a, bus[a].unacked \ turns[a][i].held)
  /\ IF turns[a][i].held = {}
     THEN Complete(a, i)
     ELSE /\ turns' = [ turns EXCEPT ![a][i].pc = "ack" ]
          /\ UNCHANGED sched
  /\ UNCHANGED <<events, mail, channels, fate, stopping>>

\* the others, by another query, are acknowledged.
Sweep(a, i) ==
  /\ At(a, i, "sweep")
  /\ Ack(a, { n \in bus[a].unacked : ~Relevant(a, n) })
  /\ IF turns[a][i].held = {}
     THEN Complete(a, i)
     ELSE /\ turns' = [ turns EXCEPT ![a][i].pc = "ack" ]
          /\ UNCHANGED sched
  /\ UNCHANGED <<events, mail, channels, fate, stopping>>

\* Mutant: all that is there is acknowledged.
AckEverything(a, i) ==
  /\ At(a, i, "ack")
  /\ Ack(a, bus[a].unacked)
  /\ turns' = [ turns EXCEPT ![a][i].pc = "launch" ]
  /\ UNCHANGED <<events, mail, channels, sched, fate, stopping>>

\* Those taken are acknowledged before the turn is launched.
AckTaken(a, i) ==
  /\ At(a, i, "ack")
  /\ Ack(a, turns[a][i].held)
  /\ turns' = [ turns EXCEPT ![a][i].pc = "launch" ]
  /\ UNCHANGED <<events, mail, channels, sched, fate, stopping>>

\* The agent begins with a look at its mail.
BeginTurn(a, i) ==
  /\ At(a, i, "launch") /\ ~stopping
  /\ turns' = [ turns EXCEPT ![a][i].pc = "turn" ]
  /\ mail' = [ mail EXCEPT ![a].unread = FALSE ]
  /\ fate' = [ fate EXCEPT ![a].seen = @ \cup turns[a][i].held ]
  /\ UNCHANGED <<events, bus, channels, sched, stopping>>

\* The agent's process does not start: its events are gone, its mail stays.
LaunchFails(a, i) ==
  /\ At(a, i, "launch")
  /\ Complete(a, i)
  /\ fate' = [ fate EXCEPT ![a].lost = @ \cup turns[a][i].held ]
  /\ UNCHANGED <<events, bus, mail, channels, stopping>>

\* The agent is through, or is killed.
EndTurn(a, i) ==
  /\ At(a, i, "turn")
  /\ Complete(a, i)
  /\ UNCHANGED <<events, bus, mail, channels, fate, stopping>>

-----------------------------------------------------------------------------
(* Shutdown and crash of the watcher *)

\* No turn can be launched any more; those wanted still take their events.
Shutdown ==
  /\ ~stopping
  /\ stopping' = TRUE
  /\ channels' = [ NoChannels EXCEPT !.batch = channels.batch ]
  /\ UNCHANGED <<events, bus, mail, sched, turns, fate>>

\* It comes back when all its turns are over.
Reopen ==
  /\ stopping /\ channels.batch = {} /\ \A a \in Agents : turns[a] = <<>>
  /\ stopping' = FALSE
  /\ UNCHANGED <<events, bus, mail, channels, sched, turns, fate>>

\* A crash loses the events of turns that were about to be launched.
Doomed(a) ==
  UNION { turns[a][i].held : i \in { j \in DOMAIN turns[a] : At(a, j, "launch") } }

CrashWatcher ==
  /\ channels' = NoChannels
  /\ sched' = [ a \in Agents |-> Idle ]
  /\ turns' = [ a \in Agents |-> <<>> ]
  /\ fate' = [ a \in Agents |->
                 [ fate[a] EXCEPT !.lost = @ \cup Doomed(a) ] ]
  /\ stopping' = FALSE
  /\ UNCHANGED <<events, bus, mail>>

-----------------------------------------------------------------------------

\* What a turn does by itself.
Prepare(a) ==
  \E i \in DOMAIN turns[a] :
    \/ CheckInbox(a, i) \/ CheckEvents(a, i) \/ Sweep(a, i) \/ AckTaken(a, i)
    \/ BeginTurn(a, i)
    \/ stopping /\ LaunchFails(a, i)

-----------------------------------------------------------------------------
(* Safety *)

\* However its triggers, the ends of its turns and the restarts of the watcher
\* interleave, at most one process of an agent is about at a time, and the
\* scheduler knows (turnScheduler).
OneTurnAtATime ==
  \A a \in Agents : Len(turns[a]) = IF sched[a].running THEN 1 ELSE 0

\* What was acknowledged for an agent and concerns it is in a turn it saw, in
\* one that is being prepared, or in one that failed: an event that arrives
\* between two of the queries of the check is not acknowledged along with the
\* others (FilteredPrecheck.HasWork).
AckedForATurn ==
  \A a \in Agents : \A n \in bus[a].acked : Relevant(a, n) =>
    \/ n \in fate[a].seen \cup fate[a].lost
    \/ \E i \in DOMAIN turns[a] : n \in turns[a][i].held

=============================================================================
