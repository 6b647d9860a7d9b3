---------------------------- MODULE ControlPlane -----------------------------
(***************************************************************************)
(* MutationGuard and TurnDelivery together: the handler of a mutation      *)
(* publishes what it changed, deliveries wake agents, and agents send      *)
(* mutations and messages in their turns (internal/orchestrator/           *)
(* eventbus_integration.go, scripts/csuite-proto.sh).                      *)
(***************************************************************************)
EXTENDS MutationGuard, TurnDelivery

CONSTANT
  Told  \* csuiteAgents, in the order they are told

ASSUME ControlAssumption ==
  /\ Agents \subseteq Actors
  /\ Told \in Seq(Recipients)
  /\ \A i, j \in DOMAIN Told : Told[i] = Told[j] => i = j

VARIABLE
  telling  \* the publications of the server and the tick: the event, and who
           \* is to be told

vars == <<guardVars, turnVars, telling>>

-----------------------------------------------------------------------------
(* Types *)

Publishers == {"server", "tick"}

Nothing == [ event |-> 0, todo |-> <<>> ]

RequestType ==
  [ actor : Actors \cup {"none"}, observed : Nat,
    key : [ actor : Actors \cup {"explicit"}, observed : Nat ] ]

ControlTypeOK ==
  /\ {version, held, rewinds} \subseteq Nat /\ stopping \in BOOLEAN
  /\ \A key \in DOMAIN ledger :
       ledger[key] \in [ request : RequestType, epoch : 0 .. rewinds,
                         outcome : Outcomes \cup {"pending"} ]
  /\ server \in [ pc : {"free", "handle", "publish", "reread", "record",
                         "answer"},
                  request : RequestType, live : BOOLEAN,
                  outcome : Outcomes \cup {"none"} ]
  /\ clients \in [ Actors -> [ pc : {"idle", "sent", "answered"},
                               request : RequestType, resent : BOOLEAN,
                               answer : Answers \cup {"none"} ] ]
  /\ effects \in Seq(RequestType)
  /\ events \in Seq(Kinds)
  /\ \A r \in DOMAIN bus :
       /\ bus[r].unacked \cup bus[r].acked \subseteq DOMAIN events
       /\ bus[r].unacked \cap bus[r].acked = {}
  /\ mail \in [ Agents -> [ unread : BOOLEAN, signal : BOOLEAN ] ]
  /\ \A ns \in ToSet(channels.notified) \cup {channels.batch} : ns \subseteq Agents
  /\ ToSet(channels.wakes) \subseteq Agents
  /\ Len(channels.notified) <= ChannelSize
  /\ Len(channels.wakes) <= ChannelSize
  /\ sched \in [ Agents -> [ running : BOOLEAN, queued : BOOLEAN ] ]
  /\ \A a \in Agents : turns[a] \in
       Seq([ pc : {"check", "events", "sweep", "ack", "launch", "turn"},
             held : SUBSET DOMAIN events ])
  /\ \A g \in Publishers : /\ telling[g].event \in {0} \cup DOMAIN events
                           /\ telling[g].todo \in Seq(Recipients)
  /\ server.live => clients[server.request.actor].pc = "sent"

Init ==
  /\ GuardInit /\ TurnInit
  /\ telling = [ g \in Publishers |-> Nothing ]

-----------------------------------------------------------------------------
(* Publication *)

\* publishTaskTransition: the event first, then a delivery for each recipient.
Publish(g, kind) ==
  /\ telling[g] = Nothing
  /\ events' = Append(events, kind)
  /\ telling' = [ telling EXCEPT ![g] = [ event |-> Len(events) + 1,
                                          todo |-> Told ] ]

Tell(g) ==
  /\ telling[g].todo # <<>>
  /\ Deliver(Head(telling[g].todo), telling[g].event)
  /\ telling' = [ telling EXCEPT ![g] =
                    IF Len(@.todo) = 1 THEN Nothing
                    ELSE [ event |-> @.event, todo |-> Tail(@.todo) ] ]
  /\ UNCHANGED <<guardVars, events, mail, channels, sched, turns, fate, stopping>>

ServerPublishes ==
  /\ server.pc = "publish"
  /\ Publish("server", "task")
  /\ server' = [ server EXCEPT !.pc = "reread" ]
  /\ UNCHANGED <<version, tickVars, ledger, clients, effects, used>>
  /\ UNCHANGED <<bus, mail, channels, sched, turns, fate, stopping>>

\* The handler is through with its publication before it reads the task again.
ServerRereads ==
  /\ telling["server"] = Nothing
  /\ Reread
  /\ UNCHANGED <<turnVars, telling>>

\* The tick tells of a transition of the task, and not of what it saves.
TickMoves ==
  \/ TickSaves /\ UNCHANGED <<turnVars, telling>>
  \/ /\ TickTransition /\ Publish("tick", "task")
     /\ UNCHANGED <<bus, mail, channels, sched, turns, fate, stopping>>

\* It, or who follows the containers, tells of a worker.
TellOfWorker ==
  /\ Input
  /\ Publish("tick", "agent")
  /\ UNCHANGED <<version, tickVars, ledger, server, clients, effects>>
  /\ UNCHANGED <<bus, mail, channels, sched, turns, fate, stopping>>

\* With the process ends what it had not told.
RestartOrchestrator ==
  /\ \/ server.pc # "free" \/ held # version
     \/ \E g \in Publishers : telling[g] # Nothing
  /\ RestartServer
  /\ telling' = [ g \in Publishers |-> Nothing ]
  /\ fate' = [ a \in Agents |-> [ fate[a] EXCEPT !.lost = @ \cup
       { telling[g].event : g \in { h \in Publishers :
                                      a \in ToSet(telling[h].todo) } } ] ]
  /\ UNCHANGED <<events, bus, mail, channels, sched, turns, stopping>>

-----------------------------------------------------------------------------
(* Agents *)

\* An agent acts in its turns; the operator's session is always there.
Acts(a) ==
  a \in Agents => \E i \in DOMAIN turns[a] : At(a, i, "turn")

AgentSends(a) == Acts(a) /\ Send(a) /\ UNCHANGED <<turnVars, telling>>

AgentWrites(a, b) ==
  /\ Acts(a) /\ a # b
  /\ Input
  /\ \E urgent \in BOOLEAN : Receive(b, urgent)
  /\ UNCHANGED <<version, tickVars, ledger, server, clients, effects, telling>>

\* A turn ends when no answer is awaited; when the watcher stops it is killed,
\* and its connection breaks.
AgentEnds(a, i) ==
  /\ EndTurn(a, i)
  /\ clients[a].pc = "sent" => stopping
  /\ clients' = [ clients EXCEPT ![a] = NotAsking ]
  /\ server' = IF server.live /\ server.request.actor = a
               THEN IF server.pc = "answer" THEN Free
                    ELSE [ server EXCEPT !.live = FALSE ]
               ELSE server
  /\ UNCHANGED <<version, tickVars, ledger, effects, used, telling>>

\* A crash of the watcher takes the agents' processes with it.
WatcherFails ==
  /\ Fault
  /\ \/ Shutdown /\ UNCHANGED <<server, clients>>
     \/ /\ CrashWatcher
        /\ clients' = [ a \in Actors |-> IF a \in Agents THEN NotAsking
                                         ELSE clients[a] ]
        /\ server' = IF server.live /\ server.request.actor \in Agents
                     THEN IF server.pc = "answer" THEN Free
                          ELSE [ server EXCEPT !.live = FALSE ]
                     ELSE server
     \/ /\ \E a \in Agents : \E i \in DOMAIN turns[a] : LaunchFails(a, i)
        /\ UNCHANGED <<server, clients>>
  /\ UNCHANGED <<version, tickVars, ledger, effects, telling>>

-----------------------------------------------------------------------------

Serving ==
  \/ Serve /\ UNCHANGED <<turnVars, telling>>
  \/ ServerPublishes \/ ServerRereads

Quietly(A) == A /\ UNCHANGED <<guardVars, telling>>

Next ==
  \/ Serving
  \/ \E g \in Publishers : Tell(g)
  \/ TickMoves \/ TellOfWorker
  \/ \E a \in Actors :
       AgentSends(a) \/ \E b \in Agents : AgentWrites(a, b)
  \/ \E a \in Agents : \E i \in DOMAIN turns[a] : AgentEnds(a, i)
  \/ Quietly(PollDeliveries \/ TakeBatch \/ Wake \/ Reopen)
  \/ \E a \in Agents :
       Quietly(TriggerFromBatch(a) \/ PollSignal(a) \/ Prepare(a))
  \/ Disconnect /\ UNCHANGED <<turnVars, telling>>
  \/ RestartOrchestrator \/ WatcherFails

Spec == Init /\ [][Next]_vars

\* Every goroutine of the orchestrator and the watcher keeps running, and every
\* turn ends: one condition for each goroutine, and one for the two that
\* publish.  Nobody has to send anything.
FairSpec ==
  /\ Spec
  /\ WF_vars(Serving)
  /\ WF_vars(\E g \in Publishers : Tell(g))
  /\ WF_vars(Quietly(PollDeliveries \/ Reopen))
  /\ WF_vars(Quietly(TakeBatch \/ \E a \in Agents : TriggerFromBatch(a)))
  /\ WF_vars(Quietly(Wake))
  /\ \A a \in Agents :
       /\ WF_vars(Quietly(PollSignal(a)))
       /\ WF_vars(\/ Quietly(Prepare(a))
                  \/ \E i \in DOMAIN turns[a] : AgentEnds(a, i))

-----------------------------------------------------------------------------
(* Liveness *)

\* Every event that was published reaches a turn of every agent it concerns,
\* begun after it, unless a restart lost it: again and again nothing is
\* outstanding (pollDeliveries with HasWork and turnScheduler).
EventsAreHeard ==
  []<>(\A a \in Agents \cap ToSet(Told), n \in DOMAIN events :
         Relevant(a, n) => n \in fate[a].seen \cup fate[a].lost)

\* Every signal wakes its agent: as long as nothing fails, a message with a
\* signal is read in a turn (InboxSignalTrigger).  It fails: when the channel is
\* full of wakes of others, the wake is dropped after the signal was removed.
MessagesAreRead ==
  \A a \in Agents :
    (mail[a].unread /\ mail[a].signal) ~> (~mail[a].unread \/ used.faults > 0)

\* What is left of it: as long as nothing fails, an agent for whom a wake found
\* room reads its mail, also what comes before that wake is taken, with no wake of
\* its own, and also if its turn runs already (InboxSignalTrigger, turnScheduler).
WakesAreAnswered ==
  \A a \in Agents :
    (mail[a].unread /\ a \in ToSet(channels.wakes))
      ~> (~mail[a].unread \/ used.faults > 0)

\* Every guarded request is answered, whoever else holds the mutex or died with
\* it: again and again nobody waits (runGuardedTaskMutation).
ClientsAreAnswered ==
  []<>(\A a \in Actors : clients[a].pc # "sent")

=============================================================================
