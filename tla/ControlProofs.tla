----------------------------- MODULE ControlProofs ----------------------------
(***************************************************************************)
(* The safety of ControlPlane, for any number of clients, agents, events,  *)
(* requests and faults.                                                    *)
(*                                                                         *)
(* Guarded mutations: the mutex lets one request run at a time; while it   *)
(* runs its record is in the ledger, so that its key cannot be claimed     *)
(* again, and no commit under that key came before.  Nor did one on that   *)
(* version since the tick last wrote another version back, because a       *)
(* commit leaves the version behind the one it was asked on.  What clients *)
(* are told rests on the records, and a client that was refused has not    *)
(* got its request in the server.                                          *)
(*                                                                         *)
(* Turns: an agent has one process at a time, and an event is acknowledged *)
(* for an agent only on behalf of a turn.  The scheduler's entry counts    *)
(* the turns of an agent, so that the check of a turn has the deliveries   *)
(* of its agent for itself; until that turn is ready to be launched, all   *)
(* that was acknowledged before belongs to turns that began or failed.     *)
(***************************************************************************)
EXTENDS ControlPlane, SequenceTheorems, TLAPS

-----------------------------------------------------------------------------
(* The inductive invariant of the mutations *)

Done(request) == \E i \in DOMAIN effects : effects[i] = request

\* The rewinds before the request was claimed.
Epoch(request) == ledger[request.key].epoch

Recorded ==
  [ request : RequestType, outcome : Outcomes \cup {"pending"}, epoch : Nat ]

ServerRow ==
  [ pc : {"free", "handle", "publish", "reread", "record", "answer"},
    request : RequestType, live : BOOLEAN, outcome : Outcomes \cup {"none"} ]

ClientRow ==
  [ pc : {"idle", "sent", "answered"}, request : RequestType, resent : BOOLEAN,
    answer : Answers \cup {"none"} ]

GuardTyped ==
  /\ version \in Nat /\ held \in Nat /\ rewinds \in Nat
  /\ ledger \in [ DOMAIN ledger -> Recorded ]
  /\ server \in ServerRow
  /\ clients \in [ Actors -> ClientRow ]
  /\ effects \in Seq(RequestType)

\* A client waits for a request of its own, and has no answer before.
Waits(a) ==
  /\ clients[a].pc # "idle" => clients[a].request.actor = a
  /\ clients[a].pc # "answered" => clients[a].answer = "none"

\* The server works for whoever still waits, on what was claimed.
ServerWorks ==
  /\ server.live => LET a == server.request.actor
                    IN /\ server.pc # "free" /\ a \in Actors
                       /\ clients[a].pc = "sent"
                       /\ clients[a].request = server.request
  /\ server.pc = "answer" => server.live
  /\ server.pc # "free" => LET key == server.request.key
                           IN /\ key \in DOMAIN ledger
                              /\ ledger[key].request = server.request
                              /\ server.pc = "handle" =>
                                   ledger[key].outcome = "pending"
  /\ server.pc \notin {"free", "handle"} => server.outcome \in Outcomes
  /\ server.pc # "free" =>
       /\ server.outcome = "succeeded" => Done(server.request)
       /\ server.outcome = "nothing" => ~Done(server.request)

\* A handler that has not committed is the first under its key, and of those
\* claimed between the same rewinds on its version.
HandlerIsFirst ==
  server.pc = "handle" =>
    /\ Epoch(server.request) = rewinds => server.request.observed <= version
    /\ \A i \in DOMAIN effects :
         /\ effects[i].key # server.request.key
         /\ Epoch(effects[i]) = Epoch(server.request) =>
              effects[i].observed # server.request.observed

EffectsAreRecorded ==
  /\ \A i \in DOMAIN effects :
       /\ effects[i].key \in DOMAIN ledger
       /\ ledger[effects[i].key].request = effects[i]
       /\ Epoch(effects[i]) = rewinds => effects[i].observed < version
  /\ \A key \in DOMAIN ledger :
       /\ ledger[key].request.key = key
       /\ ledger[key].epoch <= rewinds
       /\ ledger[key].outcome = "succeeded" => Done(ledger[key].request)
       /\ ledger[key].outcome = "nothing" => ~Done(ledger[key].request)

IsTold(a) ==
  /\ clients[a].answer = "succeeded" => Done(clients[a].request)
  /\ clients[a].answer \in {"nothing", "stale", "conflict"} =>
       /\ ~Done(clients[a].request)
       /\ server.pc = "handle" => server.request # clients[a].request

GuardInv ==
  /\ GuardTyped
  /\ ServerWorks /\ HandlerIsFirst /\ EffectsAreRecorded
  /\ OneEffectPerKey /\ OneEffectBetweenRewinds
  /\ \A a \in Actors : Waits(a) /\ IsTold(a)

-----------------------------------------------------------------------------
(* Facts about requests and commits *)

USE DEF tickVars, Epoch

\* What clients compose are requests.
LEMMA RequestsTyped ==
  /\ ExplicitKey \in [ actor : Actors \cup {"explicit"}, observed : Nat ]
  /\ NoRequest \in RequestType
  /\ \A a \in Actors, n \in Nat :
       /\ DerivedKey(a, n) \in [ actor : Actors \cup {"explicit"}, observed : Nat ]
       /\ Request(a, ExplicitKey, n) \in RequestType
       /\ Request(a, DerivedKey(a, n), n) \in RequestType
BY DEF ExplicitKey, NoRequest, RequestType, Request, DerivedKey

\* A commit adds its request to those done, and no other.
LEMMA CommitAdds ==
  ASSUME effects \in Seq(RequestType), server.request \in RequestType,
         effects' = Append(effects, server.request)
  PROVE  /\ effects' \in Seq(RequestType)
         /\ DOMAIN effects = 1 .. Len(effects) /\ Len(effects) \in Nat
         /\ DOMAIN effects' = 1 .. Len(effects) + 1
         /\ \A i \in DOMAIN effects : effects'[i] = effects[i]
         /\ effects'[Len(effects) + 1] = server.request
BY AppendProperties

\* At first nothing was asked, recorded or done.
LEMMA StartsInInvariant == Init => GuardInv
<1> SUFFICES ASSUME Init PROVE GuardInv  OBVIOUS
<1> USE RequestsTyped DEF Init, GuardInit, Free, NotAsking
<1>1. GuardTyped
  BY DEF GuardTyped, ServerRow, ClientRow, Answers, Outcomes
<1>2. ServerWorks /\ HandlerIsFirst /\ EffectsAreRecorded
  BY DEF ServerWorks, HandlerIsFirst, EffectsAreRecorded
<1>3. OneEffectPerKey /\ OneEffectBetweenRewinds
  BY DEF OneEffectPerKey, OneEffectBetweenRewinds
<1>4. \A a \in Actors : Waits(a) /\ IsTold(a)
  BY DEF Waits, IsTold
<1> QED  BY <1>1, <1>2, <1>3, <1>4 DEF GuardInv

-----------------------------------------------------------------------------
(* Steps of the clients, and what breaks: the ledger stays as it is *)

\* The client keeps what it has, or forgets what it was told.
Harmless(a) ==
  \/ clients'[a] = clients[a]
  \/ clients'[a].answer \in {"none", "lost"} /\ Waits(a)'

\* The request in the server stays, is dropped, or loses its connection.
ServerCopes ==
  /\ server' \in {server, Free, [ server EXCEPT !.live = FALSE ]}
  /\ server'.pc = "answer" => server'.live
  /\ server'.live =>
       LET a == server.request.actor
       IN clients'[a].pc = "sent" /\ clients'[a].request = server.request

\* Clients that ask, give up or lose their connection cannot harm what the
\* ledger and the effects say.
LEMMA ClientsMove ==
  ASSUME GuardInv, UNCHANGED <<version, rewinds, ledger, effects>>,
         held' \in {held, version}, clients' \in [ Actors -> ClientRow ],
         ServerCopes, \A a \in Actors : Harmless(a)
  PROVE  GuardInv'
<1> USE DEF GuardInv
<1>0. /\ Free \in ServerRow
      /\ Free.pc = "free" /\ ~Free.live
  BY RequestsTyped DEF Free, ServerRow
<1>1. GuardTyped'
  <2>1. held' \in Nat
    BY DEF GuardTyped
  <2>2. server' \in ServerRow
    BY <1>0 DEF GuardTyped, ServerRow, ServerCopes
  <2> QED  BY <2>1, <2>2 DEF GuardTyped
<1>2. /\ server'.pc \in {server.pc, "free"}
      /\ server'.live => server.live /\ server' = server
      /\ server'.pc # "free" =>
           /\ server'.request = server.request
           /\ server'.outcome = server.outcome
  BY <1>0 DEF GuardTyped, ServerRow, ClientRow, ServerCopes
<1>3. ServerWorks'
  BY <1>2 DEF ServerWorks, ServerCopes, Done
<1>4. HandlerIsFirst' /\ EffectsAreRecorded'
  BY <1>2 DEF HandlerIsFirst, EffectsAreRecorded, Done
<1>5. OneEffectPerKey' /\ OneEffectBetweenRewinds'
  BY DEF OneEffectPerKey, OneEffectBetweenRewinds
<1>6. ASSUME NEW a \in Actors PROVE Waits(a)' /\ IsTold(a)'
  BY <1>2, <1>6 DEF Waits, IsTold, Harmless, Done
<1> QED  BY <1>1, <1>3, <1>4, <1>5, <1>6

\* Steps elsewhere leave the guard's state alone.
LEMMA GuardUntouched ==
  ASSUME GuardInv, UNCHANGED <<version, tickVars, ledger, server, clients, effects>>
  PROVE  GuardInv'
BY DEF GuardInv, GuardTyped, ServerRow, ClientRow, ServerWorks, HandlerIsFirst, EffectsAreRecorded,
       OneEffectPerKey, OneEffectBetweenRewinds, Waits, IsTold, Done

\* A client sends a request on the version it sees.
LEMMA SendKeeps ==
  ASSUME GuardInv, NEW a \in Actors, Send(a)
  PROVE  GuardInv'
<1>1. PICK key \in {ExplicitKey, DerivedKey(a, version)} :
        clients' = [ clients EXCEPT ![a] =
          [ NotAsking EXCEPT !.pc = "sent",
                             !.request = Request(a, key, version) ] ]
  BY DEF Send
<1>2. Request(a, key, version) \in RequestType
  BY RequestsTyped DEF GuardInv, GuardTyped, ServerRow, ClientRow
<1>3. clients'[a] = [ pc |-> "sent", request |-> Request(a, key, version),
                      resent |-> FALSE, answer |-> "none" ]
      /\ \A b \in Actors \ {a} : clients'[b] = clients[b]
  BY <1>1 DEF NotAsking, GuardInv, GuardTyped, ServerRow, ClientRow
<1>4. clients' \in [ Actors -> ClientRow ]
  <2>1. clients'[a] \in ClientRow
    BY <1>2, <1>3 DEF ClientRow
  <2> QED  BY <1>1, <2>1 DEF GuardInv, GuardTyped, ServerRow, ClientRow
<1>5. \A b \in Actors : Harmless(b)
  BY <1>3 DEF Harmless, Waits, Request
<1>6. ServerCopes
  BY <1>3 DEF ServerCopes, Send, GuardInv, ServerWorks
<1> QED  BY <1>4, <1>5, <1>6, ClientsMove DEF Send

\* A connection that breaks leaves the client with the same request, or with
\* none.
LEMMA BrokenIsHarmless ==
  ASSUME GuardInv, server.live, clients' = Broken(server.request.actor)
  PROVE  /\ clients' \in [ Actors -> ClientRow ]
         /\ \A a \in Actors : Harmless(a)
<1> DEFINE a == server.request.actor
<1>1. /\ a \in Actors /\ clients[a].pc = "sent"
      /\ clients[a].request.actor = a /\ clients[a].answer = "none"
  BY DEF GuardInv, ServerWorks, Waits
<1>2. CASE clients[a].resent
  <2>1. clients' = [ clients EXCEPT ![a].pc = "answered", ![a].answer = "lost" ]
    BY <1>2 DEF Broken, Answered
  <2> QED  BY <1>1, <2>1 DEF Harmless, Waits, GuardInv, GuardTyped, ServerRow, ClientRow, Answers
<1>3. CASE ~clients[a].resent
  <2>1. clients' = [ clients EXCEPT ![a] = [ clients[a] EXCEPT !.resent = TRUE ] ]
    BY <1>3 DEF Broken
  <2>2. [ clients[a] EXCEPT !.resent = TRUE ] \in ClientRow
    BY <1>1 DEF GuardInv, GuardTyped, ClientRow
  <2>3. clients' \in [ Actors -> ClientRow ]
    BY <2>1, <2>2 DEF GuardInv, GuardTyped, ServerRow, ClientRow
  <2>4. /\ clients'[a].pc = "sent" /\ clients'[a].request = clients[a].request
        /\ clients'[a].answer = "none"
        /\ \A b \in Actors \ {a} : clients'[b] = clients[b]
    BY <1>1, <2>1 DEF GuardInv, GuardTyped, ClientRow
  <2> QED  BY <1>1, <2>3, <2>4 DEF Harmless, Waits
<1> QED  BY <1>2, <1>3

\* A connection breaks, and the client asks again or gives up.
LEMMA DisconnectKeeps ==
  ASSUME GuardInv, Disconnect
  PROVE  GuardInv'
<1>1. ServerCopes
  BY RequestsTyped DEF Disconnect, ServerCopes, Free, GuardInv, GuardTyped, ServerRow, ClientRow
<1> QED  BY <1>1, BrokenIsHarmless, ClientsMove DEF Disconnect

\* The server's process ends in the middle of a request.
LEMMA RestartKeeps ==
  ASSUME GuardInv, RestartServer
  PROVE  GuardInv'
<1>1. ServerCopes
  BY DEF RestartServer, ServerCopes, Free
<1>2. CASE server.live
  BY <1>1, <1>2, BrokenIsHarmless, ClientsMove DEF RestartServer
<1>3. CASE ~server.live
  BY <1>1, <1>3, ClientsMove
     DEF RestartServer, Harmless, GuardInv, GuardTyped, ServerRow, ClientRow
<1> QED  BY <1>2, <1>3

\* What an agent whose turn ends, or all of them, leave behind.
Hangup(agents) ==
  /\ clients' = [ a \in Actors |-> IF a \in agents THEN NotAsking
                                   ELSE clients[a] ]
  /\ server' = IF server.live /\ server.request.actor \in agents
               THEN IF server.pc = "answer" THEN Free
                    ELSE [ server EXCEPT !.live = FALSE ]
               ELSE server

\* Agents whose turns are over take their connections with them.
LEMMA HangupKeeps ==
  ASSUME GuardInv, NEW agents, Hangup(agents),
         UNCHANGED <<version, tickVars, ledger, effects>>
  PROVE  GuardInv'
<1>1. NotAsking \in ClientRow
  BY RequestsTyped DEF NotAsking, ClientRow
<1>2. clients' \in [ Actors -> ClientRow ]
  BY <1>1 DEF Hangup, GuardInv, GuardTyped, ServerRow, ClientRow
<1>3. \A a \in Actors : Harmless(a)
  BY DEF Hangup, Harmless, Waits, NotAsking
<1>4. ServerCopes
  BY DEF Hangup, ServerCopes, Free, GuardInv, GuardTyped, ServerRow, ClientRow, ServerWorks
<1> QED  BY <1>2, <1>3, <1>4, ClientsMove

-----------------------------------------------------------------------------
(* Steps of the server *)

\* A request whose client does not know yet is claimed only when its key is new
\* and its version the one of the task.
LEMMA ClaimKeeps ==
  ASSUME GuardInv, NEW a \in Actors, server.pc = "free", clients[a].pc = "sent",
         Known(clients[a].request) = "new", Claim(clients[a].request),
         UNCHANGED <<version, tickVars, clients, effects>>
  PROVE  GuardInv'
<1> DEFINE request == clients[a].request
<1>1. request \in RequestType /\ request.key = request.key
  BY DEF GuardInv, GuardTyped, ServerRow, ClientRow
<1>2. request.key \notin DOMAIN ledger /\ request.observed = version
  BY DEF Known, GuardInv, GuardTyped, Recorded, Outcomes
<1>3. /\ DOMAIN ledger' = DOMAIN ledger \cup {request.key}
      /\ ledger'[request.key] = [ request |-> request, outcome |-> "pending",
                                  epoch |-> rewinds ]
      /\ \A key \in DOMAIN ledger : ledger'[key] = ledger[key]
      /\ ledger' = [ key \in DOMAIN ledger' |-> ledger'[key] ]
  BY <1>2 DEF Claim
<1>4. server' = [ pc |-> "handle", request |-> request, live |-> TRUE,
                  outcome |-> "none" ]
  BY DEF Claim
<1>5. GuardTyped'
  <2>1. \A key \in DOMAIN ledger' : ledger'[key] \in Recorded
    BY <1>1, <1>3 DEF GuardInv, GuardTyped, Recorded
  <2>2. ledger' \in [ DOMAIN ledger' -> Recorded ]
    BY <1>3, <2>1
  <2> QED  BY <1>1, <1>4, <2>2 DEF GuardInv, GuardTyped, ServerRow, ClientRow
<1>6. ServerWorks'
  BY <1>3, <1>4 DEF GuardInv, ServerWorks, Waits
<1>7. HandlerIsFirst'
  <2>1. version \in Nat
    BY DEF GuardInv, GuardTyped
  <2>2. ASSUME NEW i \in DOMAIN effects
        PROVE  /\ effects[i].key # request.key
               /\ Epoch(effects[i])' = Epoch(effects[i])
               /\ effects[i].observed \in Nat
               /\ Epoch(effects[i]) = rewinds => effects[i].observed < version
    <3>1. effects[i] \in RequestType
      BY DEF GuardInv, GuardTyped
    <3>2. /\ effects[i].key \in DOMAIN ledger
          /\ Epoch(effects[i]) = rewinds => effects[i].observed < version
      BY DEF GuardInv, EffectsAreRecorded
    <3> QED  BY <1>2, <1>3, <3>1, <3>2 DEF RequestType
  <2>3. Epoch(request)' = rewinds
    BY <1>3
  <2> QED  BY <1>2, <1>4, <2>1, <2>2, <2>3 DEF HandlerIsFirst
<1>8. EffectsAreRecorded'
  <2>1. \A key \in DOMAIN ledger' :
          ledger'[key].outcome = "succeeded" => key \in DOMAIN ledger
    BY <1>3
  <2>2. \A key \in DOMAIN ledger' : /\ ledger'[key].request.key = key
                                   /\ ledger'[key].epoch <= rewinds
    BY <1>3 DEF GuardInv, GuardTyped, EffectsAreRecorded
  <2> QED  BY <1>2, <1>3, <2>1, <2>2 DEF GuardInv, EffectsAreRecorded, Done
<1>9. OneEffectPerKey' /\ OneEffectBetweenRewinds'
  BY <1>3 DEF GuardInv, EffectsAreRecorded, OneEffectPerKey,
              OneEffectBetweenRewinds
<1>10. ASSUME NEW b \in Actors PROVE Waits(b)' /\ IsTold(b)'
  <2>1. clients[b].answer \in {"nothing", "stale", "conflict"} =>
          clients[b].request.actor = b /\ b # a
    BY DEF GuardInv, GuardTyped, ServerRow, ClientRow, Waits
  <2>2. clients[b].answer \in {"nothing", "stale", "conflict"} => clients[b].request # request
    BY <2>1 DEF GuardInv, Waits
  <2> QED  BY <1>4, <2>2 DEF GuardInv, Waits, IsTold, Done
<1> QED  BY <1>5, <1>6, <1>7, <1>8, <1>9, <1>10 DEF GuardInv

\* A request that is not new is answered from the ledger, or refused because
\* its key or its version rules out that it was ever run.
LEMMA AnswerAtOnceKeeps ==
  ASSUME GuardInv, NEW a \in Actors, server.pc = "free", clients[a].pc = "sent",
         Known(clients[a].request) # "new",
         clients' = Answered(a, Known(clients[a].request)),
         UNCHANGED <<version, tickVars, ledger, server, effects>>
  PROVE  GuardInv'
<1> DEFINE request == clients[a].request
           answer == Known(request)
<1>1. request \in RequestType  BY DEF GuardInv, GuardTyped, ServerRow, ClientRow
<1>2. /\ answer \in Answers
      /\ answer = "succeeded" => Done(request)
      /\ answer \in {"nothing", "stale", "conflict"} => ~Done(request)
  <2>1. CASE request.key \notin DOMAIN ledger
    BY <2>1 DEF Known, Answers, Outcomes, GuardInv, EffectsAreRecorded, Done
  <2>2. CASE request.key \in DOMAIN ledger
    <3> DEFINE record == ledger[request.key]
    <3>1. /\ record.outcome \in Outcomes \cup {"pending"}
          /\ record.outcome = "succeeded" => Done(record.request)
          /\ record.outcome = "nothing" => ~Done(record.request)
          /\ Done(request) => record.request = request
      BY <2>2 DEF GuardInv, GuardTyped, Recorded, EffectsAreRecorded, Done
    <3>2. answer = IF record.request # request THEN "conflict"
                   ELSE IF record.outcome = "pending" THEN "uncertain"
                   ELSE record.outcome
      BY <2>2 DEF Known
    <3> QED  BY <3>1, <3>2 DEF Answers, Outcomes
  <2> QED  BY <2>1, <2>2
<1> HIDE DEF answer
<1>3. clients' = [ clients EXCEPT ![a].pc = "answered", ![a].answer = answer ]
  BY DEF Answered, answer
<1>4. /\ clients'[a].request = request /\ clients'[a].answer = answer
      /\ clients'[a].pc = "answered"
      /\ \A b \in Actors \ {a} : clients'[b] = clients[b]
  BY <1>3 DEF GuardInv, GuardTyped, ServerRow, ClientRow
<1>5. GuardTyped'
  <2>1. clients'[a] \in ClientRow
    BY <1>1, <1>2, <1>4, <1>3 DEF GuardInv, GuardTyped, ClientRow
  <2>2. clients' \in [ Actors -> ClientRow ]
    BY <1>3, <2>1 DEF GuardInv, GuardTyped, ServerRow, ClientRow
  <2> QED  BY <2>2 DEF GuardInv, GuardTyped, ServerRow, ClientRow
<1>6. /\ ServerWorks' /\ HandlerIsFirst' /\ EffectsAreRecorded'
      /\ OneEffectPerKey' /\ OneEffectBetweenRewinds'
  BY DEF GuardInv, ServerWorks, HandlerIsFirst, EffectsAreRecorded, Done,
         OneEffectPerKey, OneEffectBetweenRewinds
<1>7. ASSUME NEW b \in Actors PROVE Waits(b)' /\ IsTold(b)'
  BY <1>2, <1>4 DEF GuardInv, Waits, IsTold, Done
<1> QED  BY <1>5, <1>6, <1>7 DEF GuardInv

\* A handler commits: it is the first under its key and on its version.
LEMMA CommitKeeps ==
  ASSUME GuardInv, Commit
  PROVE  GuardInv'
<1>1. /\ server.pc = "handle" /\ server.request \in RequestType
      /\ version \in Nat /\ version' = version + 1
      /\ server.request.observed \in Nat
      /\ Epoch(server.request) = rewinds => server.request.observed <= version
  BY DEF GuardInv, GuardTyped, ServerRow, ClientRow, Commit, HandlerIsFirst, RequestType
<1>2. /\ effects' \in Seq(RequestType)
      /\ DOMAIN effects = 1 .. Len(effects) /\ Len(effects) \in Nat
      /\ DOMAIN effects' = 1 .. Len(effects) + 1
      /\ \A i \in DOMAIN effects : effects'[i] = effects[i]
      /\ effects'[Len(effects) + 1] = server.request
  BY <1>1, CommitAdds DEF GuardInv, GuardTyped, ServerRow, ClientRow, Commit
<1>3. \A i \in DOMAIN effects' :
        i \in DOMAIN effects \/ i = Len(effects) + 1
  BY <1>2
<1>4. /\ server'.pc \in {"publish", "reread", "record"} /\ server'.outcome = "succeeded"
      /\ server'.request = server.request /\ server'.live = server.live
  BY DEF GuardInv, GuardTyped, ServerRow, ClientRow, Commit
<1>5. GuardTyped'
  <2>1. server' \in ServerRow
    BY DEF GuardInv, GuardTyped, Commit, ServerRow, Outcomes
  <2>2. version' \in Nat
    BY <1>1
  <2> QED  BY <1>2, <2>1, <2>2 DEF GuardInv, GuardTyped, ServerRow, ClientRow, Commit
<1>6. /\ Done(server.request)'
      /\ \A request : /\ Done(request) => Done(request)'
                      /\ Done(request)' => Done(request) \/ request = server.request
  <2>1. Done(server.request)'
    <3>1. Len(effects) + 1 \in DOMAIN effects'  BY <1>2
    <3> QED  BY <1>2, <1>4, <3>1 DEF Done
  <2>2. ASSUME NEW request, Done(request) PROVE Done(request)'
    <3>1. PICK i \in DOMAIN effects : effects[i] = request  BY <2>2 DEF Done
    <3>2. i \in DOMAIN effects' /\ effects'[i] = request  BY <1>2, <3>1
    <3> QED  BY <3>2 DEF Done
  <2>3. ASSUME NEW request, Done(request)', request # server.request
        PROVE  Done(request)
    <3>1. PICK i \in DOMAIN effects' : effects'[i] = request  BY <2>3 DEF Done
    <3>2. i \in DOMAIN effects /\ effects[i] = request  BY <1>2, <1>3, <2>3, <3>1
    <3> QED  BY <3>2 DEF Done
  <2> QED  BY <2>1, <2>2, <2>3
<1>7. ServerWorks'
  <2>1. /\ UNCHANGED <<ledger, clients>> /\ "succeeded" \in Outcomes
        /\ server'.pc \notin {"free", "answer"} /\ server.pc # "free"
    BY <1>1, <1>4 DEF Commit, Outcomes
  <2> QED  BY <1>4, <1>6, <2>1 DEF GuardInv, ServerWorks
<1>8. HandlerIsFirst'
  BY <1>4 DEF HandlerIsFirst
<1>9. EffectsAreRecorded'
  <2>1. ASSUME NEW i \in DOMAIN effects'
        PROVE  /\ effects'[i].key \in DOMAIN ledger
               /\ ledger[effects'[i].key].request = effects'[i]
               /\ Epoch(effects'[i]) = rewinds => effects'[i].observed < version'
    <3>1. CASE i \in DOMAIN effects
      <4>1. /\ effects[i].observed \in Nat
            /\ Epoch(effects[i]) = rewinds => effects[i].observed < version
        <5>1. effects[i] \in RequestType
          BY <1>2, <3>1 DEF GuardInv, GuardTyped
        <5> QED  BY <3>1, <5>1 DEF GuardInv, EffectsAreRecorded, RequestType
      <4>2. /\ effects[i].key \in DOMAIN ledger
            /\ ledger[effects[i].key].request = effects[i]
        BY <1>2, <3>1 DEF GuardInv, EffectsAreRecorded
      <4> QED  BY <1>1, <1>2, <3>1, <4>1, <4>2
    <3>2. CASE i = Len(effects) + 1
      BY <1>1, <1>2, <3>2 DEF GuardInv, ServerWorks
    <3> QED  BY <1>3, <3>1, <3>2
  <2>2. ASSUME NEW key \in DOMAIN ledger, ledger[key].outcome = "nothing"
        PROVE  ~Done(ledger[key].request)'
    <3>1. /\ ledger[key].request.key = key /\ ~Done(ledger[key].request)
          /\ ledger[server.request.key].outcome = "pending"
      BY <1>1, <2>2 DEF GuardInv, EffectsAreRecorded, ServerWorks
    <3>2. ledger[key].request # server.request
      BY <2>2, <3>1
    <3>3. UNCHANGED ledger
      BY DEF Commit
    <3> QED  BY <1>6, <3>1, <3>2, <3>3
  <2> QED  BY <1>6, <2>1, <2>2 DEF GuardInv, EffectsAreRecorded, Commit
<1>10. OneEffectPerKey' /\ OneEffectBetweenRewinds'
  <2> SUFFICES ASSUME NEW i \in DOMAIN effects', NEW j \in DOMAIN effects',
                      \/ effects'[i].key = effects'[j].key
                      \/ /\ effects'[i].observed = effects'[j].observed
                         /\ Epoch(effects'[i]) = Epoch(effects'[j])
               PROVE  i = j
    BY DEF OneEffectPerKey, OneEffectBetweenRewinds, Commit
  <2>1. CASE i \in DOMAIN effects /\ j \in DOMAIN effects
    BY <1>2, <2>1 DEF GuardInv, OneEffectPerKey, OneEffectBetweenRewinds
  <2>2. CASE i \in DOMAIN effects /\ j = Len(effects) + 1
    BY <1>1, <1>2, <2>2 DEF GuardInv, HandlerIsFirst
  <2>3. CASE i = Len(effects) + 1 /\ j \in DOMAIN effects
    BY <1>1, <1>2, <2>3 DEF GuardInv, HandlerIsFirst
  <2> QED  BY <1>3, <2>1, <2>2, <2>3
<1>11. ASSUME NEW a \in Actors PROVE Waits(a)' /\ IsTold(a)'
  BY <1>1, <1>4, <1>6 DEF GuardInv, Waits, IsTold, Commit
<1> QED  BY <1>5, <1>7, <1>8, <1>9, <1>10, <1>11 DEF GuardInv

\* The request goes on to its publication, its record or its answer.
LEMMA ServerGoesOn ==
  ASSUME GuardInv, UNCHANGED <<version, tickVars, ledger, clients, effects>>,
         server.pc # "free",
         NEW pc \in {"reread", "record"}, NEW outcome \in Outcomes,
         outcome = "succeeded" => server.outcome = "succeeded",
         outcome = "nothing" => ~Done(server.request),
         server' = [ server EXCEPT !.pc = pc, !.outcome = outcome ]
  PROVE  GuardInv'
<1>1. /\ server'.pc = pc /\ server'.outcome = outcome
      /\ server'.request = server.request /\ server'.live = server.live
  BY DEF GuardInv, GuardTyped, ServerRow, ClientRow
<1>2. GuardTyped'
  BY DEF GuardInv, GuardTyped, ServerRow, ClientRow
<1>3. ServerWorks' /\ HandlerIsFirst' /\ EffectsAreRecorded'
  BY <1>1 DEF GuardInv, ServerWorks, HandlerIsFirst, EffectsAreRecorded, Done
<1>4. OneEffectPerKey' /\ OneEffectBetweenRewinds'
  BY DEF GuardInv, OneEffectPerKey, OneEffectBetweenRewinds
<1>5. ASSUME NEW a \in Actors PROVE Waits(a)' /\ IsTold(a)'
  BY <1>1 DEF GuardInv, Waits, IsTold, Done
<1> QED  BY <1>2, <1>3, <1>4, <1>5 DEF GuardInv

\* The outcome that is recorded is that of the request under the key.
LEMMA RecordKeeps ==
  ASSUME GuardInv, Record
  PROVE  GuardInv'
<1> DEFINE key == server.request.key
<1>1. /\ server.pc = "record" /\ key \in DOMAIN ledger
      /\ ledger[key].request = server.request /\ server.outcome \in Outcomes
      /\ server.outcome = "succeeded" => Done(server.request)
      /\ server.outcome = "nothing" => ~Done(server.request)
  BY DEF GuardInv, ServerWorks, Record
<1>2. CASE server.live
  <2>1. /\ ledger' = [ ledger EXCEPT ![key].outcome = server.outcome ]
        /\ server' = [ server EXCEPT !.pc = "answer" ]
    BY <1>2 DEF Record
  <2>2. /\ DOMAIN ledger' = DOMAIN ledger
        /\ \A k \in DOMAIN ledger : ledger'[k].request = ledger[k].request
        /\ \A k \in DOMAIN ledger \ {key} : ledger'[k] = ledger[k]
        /\ \A k \in DOMAIN ledger : ledger'[k].epoch = ledger[k].epoch
        /\ ledger'[key].outcome = server.outcome
    BY <1>1, <2>1 DEF GuardInv, GuardTyped, Recorded
  <2>3. /\ server'.pc = "answer" /\ server'.request = server.request
        /\ server'.live = server.live /\ server'.outcome = server.outcome
    BY <2>1 DEF GuardInv, GuardTyped, ServerRow, ClientRow
  <2>4. GuardTyped'
    <3>1. [ ledger[key] EXCEPT !.outcome = server.outcome ] \in Recorded
      BY <1>1 DEF GuardInv, GuardTyped, Recorded
    <3>2. ledger' \in [ DOMAIN ledger' -> Recorded ]
      BY <1>1, <2>1, <3>1 DEF GuardInv, GuardTyped
    <3> QED  BY <2>1, <3>2 DEF GuardInv, GuardTyped, ServerRow, Record
  <2>5. ServerWorks' /\ HandlerIsFirst'
    BY <1>1, <1>2, <2>2, <2>3
       DEF GuardInv, ServerWorks, HandlerIsFirst, Done, Record
  <2>6. EffectsAreRecorded'
    <3>1. \A k \in DOMAIN ledger' :
            /\ ledger'[k].outcome = "succeeded" => Done(ledger'[k].request)
            /\ ledger'[k].outcome = "nothing" => ~Done(ledger'[k].request)
      BY <1>1, <2>2 DEF GuardInv, EffectsAreRecorded
    <3> QED  BY <2>2, <3>1 DEF GuardInv, EffectsAreRecorded, Done, Record
  <2>7. OneEffectPerKey' /\ OneEffectBetweenRewinds'
    BY <2>2 DEF GuardInv, EffectsAreRecorded, OneEffectPerKey,
                OneEffectBetweenRewinds, Record
  <2>8. ASSUME NEW a \in Actors PROVE Waits(a)' /\ IsTold(a)'
    BY <2>3 DEF GuardInv, Waits, IsTold, Done, Record
  <2> QED  BY <2>4, <2>5, <2>6, <2>7, <2>8 DEF GuardInv
<1>3. CASE ~server.live
  <2>1. ServerCopes
    BY <1>3 DEF Record, ServerCopes, Free
  <2>2. \A a \in Actors : Harmless(a)
    BY DEF Record, Harmless
  <2> QED  BY <1>3, <2>1, <2>2, ClientsMove DEF Record, GuardInv, GuardTyped, ServerRow, ClientRow
<1> QED  BY <1>2, <1>3

\* The answer goes to the client who waits for it.
LEMMA AnswerKeeps ==
  ASSUME GuardInv, Answer
  PROVE  GuardInv'
<1> DEFINE a == server.request.actor
<1>1. /\ a \in Actors /\ clients[a].pc = "sent"
      /\ clients[a].request = server.request /\ server.outcome \in Outcomes
      /\ server.outcome = "succeeded" => Done(server.request)
      /\ server.outcome = "nothing" => ~Done(server.request)
  BY DEF GuardInv, ServerWorks, Answer
<1>2. clients' = [ clients EXCEPT ![a].pc = "answered",
                                  ![a].answer = server.outcome ]
  BY DEF Answer, Answered
<1>3. /\ clients'[a].pc = "answered" /\ clients'[a].answer = server.outcome
      /\ clients'[a].request = clients[a].request
      /\ \A b \in Actors \ {a} : clients'[b] = clients[b]
  BY <1>1, <1>2 DEF GuardInv, GuardTyped, ServerRow, ClientRow
<1>4. server' = Free /\ Free.pc = "free" /\ ~Free.live
  BY DEF Answer, Free
<1>5. GuardTyped'
  <2>1. clients' \in [ Actors -> ClientRow ]
    BY <1>1, <1>2 DEF GuardInv, GuardTyped, ServerRow, ClientRow, Answers
  <2>2. Free \in ServerRow
    BY RequestsTyped DEF Free, ServerRow
  <2> QED  BY <1>4, <2>1, <2>2 DEF GuardInv, GuardTyped, ServerRow, ClientRow, Answer
<1>6. ServerWorks' /\ HandlerIsFirst' /\ EffectsAreRecorded'
  BY <1>4 DEF GuardInv, ServerWorks, HandlerIsFirst, EffectsAreRecorded, Done,
              Answer
<1>7. OneEffectPerKey' /\ OneEffectBetweenRewinds'
  BY DEF GuardInv, OneEffectPerKey, OneEffectBetweenRewinds, Answer
<1>8. ASSUME NEW b \in Actors PROVE Waits(b)' /\ IsTold(b)'
  BY <1>1, <1>3, <1>4 DEF GuardInv, Waits, IsTold, Done, Answer, Outcomes
<1> QED  BY <1>5, <1>6, <1>7, <1>8 DEF GuardInv

\* Whatever moves the task on only makes versions older, and a version that is
\* written back begins a new epoch.
LEMMA TickKeeps ==
  ASSUME GuardInv, TickTransition \/ TickSaves
  PROVE  GuardInv'
<1>1. UNCHANGED <<ledger, server, clients, effects>>
  BY DEF TickTransition, TickSaves
<1>2. /\ version \in Nat /\ held \in Nat /\ rewinds \in Nat
      /\ version' \in Nat /\ held' \in Nat /\ rewinds' \in Nat
      /\ \/ version' >= version /\ rewinds' = rewinds
         \/ rewinds' = rewinds + 1
  BY DEF GuardInv, GuardTyped, TickTransition, TickSaves
<1>3. GuardTyped'
  BY <1>1, <1>2 DEF GuardInv, GuardTyped, ServerRow, ClientRow, Recorded
<1>4. /\ server.request.observed \in Nat
      /\ \A i \in DOMAIN effects : effects[i].observed \in Nat
      /\ \A key \in DOMAIN ledger : /\ ledger[key].epoch \in Nat
                                    /\ ledger[key].epoch <= rewinds
  <2>1. server.request \in RequestType /\ effects \in Seq(RequestType)
    BY DEF GuardInv, GuardTyped, ServerRow
  <2>2. \A i \in DOMAIN effects : effects[i] \in RequestType
    BY <2>1
  <2>3. \A key \in DOMAIN ledger : ledger[key] \in Recorded
    BY DEF GuardInv, GuardTyped
  <2> QED  BY <2>1, <2>2, <2>3 DEF RequestType, Recorded, GuardInv, EffectsAreRecorded
<1>5. HandlerIsFirst'
  <2>1. server.pc = "handle" => server.request.key \in DOMAIN ledger
    BY DEF GuardInv, ServerWorks
  <2> QED  BY <1>1, <1>2, <1>4, <2>1 DEF GuardInv, HandlerIsFirst, Epoch
<1>6. EffectsAreRecorded'
  BY <1>1, <1>2, <1>4 DEF GuardInv, EffectsAreRecorded, Done, Epoch
<1>7. /\ ServerWorks' /\ OneEffectPerKey' /\ OneEffectBetweenRewinds'
      /\ \A a \in Actors : (Waits(a) /\ IsTold(a))'
  BY <1>1 DEF GuardInv, ServerWorks, OneEffectPerKey, OneEffectBetweenRewinds,
              Waits, IsTold, Done
<1> QED  BY <1>3, <1>5, <1>6, <1>7 DEF GuardInv

-----------------------------------------------------------------------------
(* Every step of the system *)

\* Every step of the server.
LEMMA ServeKeeps ==
  ASSUME GuardInv, Serve
  PROVE  GuardInv'
<1>1. ASSUME NEW a \in Actors, Accept(a) PROVE GuardInv'
  BY <1>1, ClaimKeeps, AnswerAtOnceKeeps DEF Accept
<1>2. CASE Refuse
  <2>1. ~Done(server.request)
    BY <1>2 DEF Refuse, GuardInv, HandlerIsFirst, Done
  <2> QED  BY <1>2, <2>1, ServerGoesOn DEF Refuse, Outcomes
<1> QED  BY <1>1, <1>2, CommitKeeps, RecordKeeps, AnswerKeeps DEF Serve

\* Every step of the control plane.
LEMMA StepKeeps ==
  ASSUME GuardInv, [Next]_vars
  PROVE  GuardInv'
<1> USE DEF guardVars, vars
<1>1. CASE Serving
  <2>1. CASE ServerPublishes
    <3>1. server' = [ server EXCEPT !.pc = "reread", !.outcome = server.outcome ]
      BY <2>1 DEF ServerPublishes, GuardInv, GuardTyped, ServerRow, ClientRow
    <3>2. /\ server.outcome \in Outcomes
          /\ server.outcome = "nothing" => ~Done(server.request)
      BY <2>1 DEF ServerPublishes, GuardInv, ServerWorks
    <3> QED  BY <2>1, <3>1, <3>2, ServerGoesOn DEF ServerPublishes
  <2>2. CASE ServerRereads
    <3>1. PICK outcome \in {server.outcome, "failed"} :
            server' = [ server EXCEPT !.pc = "record", !.outcome = outcome ]
      BY <2>2 DEF ServerRereads, Reread, GuardInv, GuardTyped, ServerRow
    <3>2. /\ outcome \in Outcomes /\ server.pc # "free"
          /\ outcome = "succeeded" => server.outcome = "succeeded"
          /\ outcome = "nothing" => ~Done(server.request)
      BY <2>2 DEF ServerRereads, Reread, GuardInv, ServerWorks, Outcomes
    <3> QED  BY <2>2, <3>1, <3>2, ServerGoesOn DEF ServerRereads, Reread
  <2> QED  BY <1>1, <2>1, <2>2, ServeKeeps DEF Serving
<1>2. CASE TickMoves \/ TellOfWorker
  BY <1>2, TickKeeps, GuardUntouched DEF TickMoves, TellOfWorker
<1>3. ASSUME NEW a \in Actors,
             AgentSends(a) \/ \E b \in Agents : AgentWrites(a, b)
      PROVE  GuardInv'
  BY <1>3, SendKeeps, GuardUntouched DEF AgentSends, AgentWrites
<1>4. ASSUME NEW a \in Agents, NEW i, AgentEnds(a, i)
      PROVE  GuardInv'
  <2>1. Hangup({a})
    BY <1>4 DEF AgentEnds, Hangup, GuardInv, GuardTyped, ServerRow, ClientRow
  <2> QED  BY <1>4, <2>1, HangupKeeps DEF AgentEnds
<1>5. CASE WatcherFails
  <2>1. CASE UNCHANGED <<server, clients>>
    BY <1>5, <2>1, GuardUntouched DEF WatcherFails
  <2>2. CASE Hangup(Agents)
    BY <1>5, <2>2, HangupKeeps DEF WatcherFails
  <2> QED  BY <1>5, <2>1, <2>2 DEF WatcherFails, Hangup
<1>6. CASE \/ \E g \in Publishers : Tell(g)
           \/ Quietly(PollDeliveries \/ TakeBatch \/ Wake \/ Reopen)
           \/ \E a \in Agents :
                Quietly(TriggerFromBatch(a) \/ PollSignal(a) \/ Prepare(a))
           \/ UNCHANGED vars
  <2>1. UNCHANGED guardVars
    BY <1>6 DEF Tell, Quietly
  <2> QED  BY <2>1, GuardUntouched
<1> QED
  BY <1>1, <1>2, <1>3, <1>4, <1>5, <1>6, DisconnectKeeps, RestartKeeps
     DEF Next, RestartOrchestrator

-----------------------------------------------------------------------------
(* The theorems of the mutations *)

\* The mutex, the pending records and the version check work together as
\* described above (runGuardedTaskMutation).
THEOREM GuardedMutations == Spec => []GuardInv
<1>1. Init => GuardInv  BY StartsInInvariant
<1>2. GuardInv /\ [Next]_vars => GuardInv'  BY StepKeeps
<1> QED  BY <1>1, <1>2, PTL DEF Spec

\* However often a request is resent, its handler commits at most once
\* (guardTaskMutation).
THEOREM KeysAreUsedOnce == Spec => []OneEffectPerKey
<1>1. GuardInv => OneEffectPerKey  BY DEF GuardInv
<1> QED  BY <1>1, GuardedMutations, PTL

\* Of the requests on one version of the task that were admitted between two
\* writes by which the tick brings another version back, one commits at most
\* (runGuardedTaskMutation).
THEOREM VersionsAreUsedOnce == Spec => []OneEffectBetweenRewinds
<1>1. GuardInv => OneEffectBetweenRewinds  BY DEF GuardInv
<1> QED  BY <1>1, GuardedMutations, PTL

\* A client that is told success has had its way, and one that is refused for
\* its key or version has not and will not (replayMutationResponse).
THEOREM ClientsAreToldTheTruth == Spec => []AnswersAreTrue
<1>1. GuardInv => AnswersAreTrue
  <2> SUFFICES ASSUME GuardInv, NEW a \in Actors
               PROVE  LET done == clients[a].request \in ToSet(effects)
                      IN /\ clients[a].answer = "succeeded" => done
                         /\ clients[a].answer \in {"nothing", "stale", "conflict"} => ~done
    BY DEF AnswersAreTrue
  <2>1. clients[a].request \in ToSet(effects) <=> Done(clients[a].request)
    BY DEF ToSet, Done
  <2> QED  BY <2>1 DEF GuardInv, IsTold
<1> QED  BY <1>1, GuardedMutations, PTL

HIDE DEF tickVars, Epoch

-----------------------------------------------------------------------------
(* The inductive invariant of the turns *)

Turn == [ pc : {"check", "events", "sweep", "ack", "launch", "turn"},
          held : SUBSET Nat ]

BusTyped ==
  /\ events \in Seq(Kinds)
  /\ bus \in [ Recipients \cup Agents -> [ unacked : SUBSET DOMAIN events,
                                           acked : SUBSET DOMAIN events ] ]
  /\ telling \in [ Publishers -> [ event : Nat, todo : Seq(Recipients) ] ]
  /\ \A g \in Publishers :
       telling[g].todo # <<>> => telling[g].event \in DOMAIN events

TurnsTyped ==
  /\ channels \in [ notified : Seq(SUBSET Agents), batch : SUBSET Agents,
                    wakes : Seq(Agents) ]
  /\ sched \in [ Agents -> [ running : BOOLEAN, queued : BOOLEAN ] ]
  /\ turns \in [ Agents -> Seq(Turn) ]
  /\ fate \in [ Agents -> [ seen : SUBSET Nat, lost : SUBSET Nat ] ]

\* The scheduler's entry counts the turns of the agent.
OneTurn(a) == Len(turns[a]) = IF sched[a].running THEN 1 ELSE 0

\* A turn began with the event, or it got lost.
Settled(a, n) == n \in fate[a].seen \cup fate[a].lost

\* A turn that is ready has taken the event.
Ready(a, n) ==
  \E i \in DOMAIN turns[a] :
    turns[a][i].pc = "launch" /\ n \in turns[a][i].held

AckedIsTaken(a) ==
  \A n \in bus[a].acked : Relevant(a, n) => Settled(a, n) \/ Ready(a, n)

TurnInv ==
  /\ BusTyped /\ TurnsTyped
  /\ \A a \in Agents : OneTurn(a) /\ AckedIsTaken(a)

-----------------------------------------------------------------------------
(* What a step may do to an agent *)

\* Its turns stay, and nothing that concerns it is acknowledged.
Rests(a) ==
  /\ turns'[a] = turns[a] /\ sched'[a] = sched[a]
  /\ fate[a].seen \subseteq fate'[a].seen /\ fate[a].lost \subseteq fate'[a].lost
  /\ \A n \in bus'[a].acked :
       Relevant(a, n)' => n \in bus[a].acked /\ Relevant(a, n)

\* Only a turn that is not ready is left, or none.
NoneReady(a) ==
  /\ OneTurn(a)'
  /\ \A i \in DOMAIN turns'[a] : turns'[a][i].pc # "launch"

\* An agent that rests keeps what the invariant says of it.
LEMMA RestingIsSafe ==
  ASSUME NEW a \in Agents, OneTurn(a), AckedIsTaken(a), Rests(a)
  PROVE  OneTurn(a)' /\ AckedIsTaken(a)'
BY DEF OneTurn, AckedIsTaken, Rests, Settled, Ready

\* An agent has no turn, or the first only.
LEMMA FirstTurnOnly ==
  ASSUME TurnInv, NEW a \in Agents
  PROVE  /\ turns[a] \in Seq(Turn) /\ sched[a].running \in BOOLEAN
         /\ ~sched[a].running => turns[a] = <<>>
         /\ sched[a].running => Len(turns[a]) = 1
         /\ DOMAIN turns[a] = IF sched[a].running THEN {1} ELSE {}
<1>1. turns[a] \in Seq(Turn) /\ Len(turns[a]) \in 0 .. 1
  BY DEF TurnInv, TurnsTyped, OneTurn
<1>2. DOMAIN turns[a] = 1 .. Len(turns[a])
  BY <1>1
<1>3. Len(turns[a]) = IF sched[a].running THEN 1 ELSE 0
  BY DEF TurnInv, OneTurn
<1>4. sched[a].running \in BOOLEAN
  BY DEF TurnInv, TurnsTyped
<1>5. CASE sched[a].running
  <2>1. Len(turns[a]) = 1 /\ 1 .. 1 = {1}
    BY <1>3, <1>5
  <2>2. DOMAIN turns[a] = {1}
    BY <1>2, <2>1
  <2>3. QED
    BY <1>1, <1>4, <1>5, <2>1, <2>2
<1>6. CASE ~sched[a].running
  <2>1. Len(turns[a]) = 0 /\ 1 .. 0 = {}
    BY <1>3, <1>6
  <2>2. turns[a] = <<>>
    BY <1>1, <2>1, EmptySeq
  <2>3. DOMAIN turns[a] = {}
    BY <1>2, <2>1
  <2>4. QED
    BY <1>1, <1>4, <1>6, <2>2, <2>3
<1> QED  BY <1>4, <1>5, <1>6

\* Replacing the only element of a sequence gives a sequence of one element.
LEMMA ReplaceTheOnly ==
  ASSUME NEW S, NEW s \in Seq(S), Len(s) = 1, NEW e \in S
  PROVE  [ s EXCEPT ![1] = e ] \in Seq(S) /\ Len([ s EXCEPT ![1] = e ]) = 1
<1>1. 1 \in 1 .. Len(s)
  OBVIOUS
<1>2. Len([ s EXCEPT ![1] = e ]) = Len(s)
  BY <1>1, ExceptSeq
<1>3. [ s EXCEPT ![1] = e ] \in Seq(S)
  BY <1>1, ExceptSeq
<1>4. QED
  BY <1>2, <1>3

\* A trigger starts a turn with its check, if there is none.
LEMMA TriggerStarts ==
  ASSUME TurnInv, NEW a \in Agents, Trigger(a)
  PROVE  /\ sched' \in [ Agents -> [ running : BOOLEAN, queued : BOOLEAN ] ]
         /\ turns' \in [ Agents -> Seq(Turn) ]
         /\ \A b \in Agents \ {a} : turns'[b] = turns[b] /\ sched'[b] = sched[b]
         /\ OneTurn(a)'
         /\ \A n : Ready(a, n)' <=> Ready(a, n)
<1> USE DEF TurnInv, TurnsTyped
<1>1. CASE sched[a].running
  <2>1. turns' = turns /\ sched' = [ sched EXCEPT ![a].queued = TRUE ]
    BY <1>1 DEF Trigger
  <2>2. /\ sched' \in [ Agents -> [ running : BOOLEAN, queued : BOOLEAN ] ]
        /\ sched'[a].running = sched[a].running
        /\ \A b \in Agents \ {a} : sched'[b] = sched[b]
    BY <2>1
  <2>3. OneTurn(a)'
    BY <2>1, <2>2 DEF OneTurn
  <2>4. QED
    BY <2>1, <2>2, <2>3 DEF Ready
<1>2. CASE ~sched[a].running
  <2>1. /\ sched' = [ sched EXCEPT ![a].running = TRUE ]
        /\ turns' = [ turns EXCEPT ![a] = Append(@, NewTurn) ]
    BY <1>2 DEF Trigger
  <2>2. turns[a] = <<>> /\ NewTurn \in Turn /\ NewTurn.pc = "check"
    BY <1>2, FirstTurnOnly DEF NewTurn, Turn
  <2>3. turns'[a] = <<NewTurn>>
    BY <2>1, <2>2
  <2>4. /\ turns' \in [ Agents -> Seq(Turn) ]
        /\ DOMAIN turns'[a] = {1} /\ turns'[a][1] = NewTurn /\ Len(turns'[a]) = 1
    BY <2>1, <2>2, <2>3
  <2>5. sched'[a].running
    BY <2>1
  <2>6. \A b \in Agents \ {a} : turns'[b] = turns[b] /\ sched'[b] = sched[b]
    BY <2>1
  <2>7. OneTurn(a)'
    BY <2>4, <2>5 DEF OneTurn
  <2>8. DOMAIN turns[a] = {}
    BY <1>2, FirstTurnOnly
  <2>9. ASSUME NEW n PROVE Ready(a, n)' <=> Ready(a, n)
    BY <2>2, <2>4, <2>8 DEF Ready
  <2>10. sched' \in [ Agents -> [ running : BOOLEAN, queued : BOOLEAN ] ]
    BY <2>1
  <2>11. QED
    BY <2>4, <2>6, <2>7, <2>9, <2>10
<1> QED  BY <1>1, <1>2

\* The end of a turn leaves none, or one that begins with its check.
LEMMA CompleteLeaves ==
  ASSUME TurnInv, NEW a \in Agents, NEW i \in DOMAIN turns[a], Complete(a, i)
  PROVE  /\ sched' \in [ Agents -> [ running : BOOLEAN, queued : BOOLEAN ] ]
         /\ turns' \in [ Agents -> Seq(Turn) ]
         /\ \A b \in Agents \ {a} : turns'[b] = turns[b] /\ sched'[b] = sched[b]
         /\ NoneReady(a)
<1> USE DEF TurnInv, TurnsTyped
<1>1. /\ sched[a].running /\ i = 1 /\ DOMAIN turns[a] = {1}
      /\ turns[a] \in Seq(Turn) /\ Len(turns[a]) = 1
  BY FirstTurnOnly DEF OneTurn
<1>2. NewTurn \in Turn /\ NewTurn.pc = "check"
  BY DEF NewTurn, Turn
<1>3. CASE sched[a].queued
  <2>1. /\ sched' = [ sched EXCEPT ![a].queued = FALSE ]
        /\ turns' = [ turns EXCEPT ![a] = [ @ EXCEPT ![1] = NewTurn ] ]
    BY <1>1, <1>3 DEF Complete
  <2>2. /\ [ turns[a] EXCEPT ![1] = NewTurn ] \in Seq(Turn)
        /\ Len([ turns[a] EXCEPT ![1] = NewTurn ]) = 1
    BY <1>1, <1>2, ReplaceTheOnly
  <2>3. /\ turns'[a] \in Seq(Turn) /\ Len(turns'[a]) = 1
        /\ DOMAIN turns'[a] = {1} /\ turns'[a][1] = NewTurn
    BY <1>1, <2>1, <2>2
  <2>4. QED
    BY <1>1, <1>2, <2>1, <2>3 DEF NoneReady, OneTurn
<1>4. CASE ~sched[a].queued
  <2>1. /\ sched' = [ sched EXCEPT ![a] = Idle ]
        /\ turns' = [ turns EXCEPT ![a] = RemoveAt(@, 1) ]
    BY <1>1, <1>4 DEF Complete
  <2>2. RemoveAt(turns[a], 1) = <<>>
    BY <1>1, SubSeqEmpty DEF RemoveAt
  <2>3. turns'[a] = <<>> /\ Len(turns'[a]) = 0 /\ DOMAIN turns'[a] = {}
    BY <2>1, <2>2
  <2>4. /\ sched' \in [ Agents -> [ running : BOOLEAN, queued : BOOLEAN ] ]
        /\ ~sched'[a].running
    BY <2>1 DEF Idle
  <2>5. turns' \in [ Agents -> Seq(Turn) ]
    <3>1. <<>> \in Seq(Turn)
      BY EmptySeq
    <3>2. turns' = [ turns EXCEPT ![a] = <<>> ]
      BY <2>1, <2>2
    <3> QED  BY <3>1, <3>2
  <2>6. \A b \in Agents \ {a} : turns'[b] = turns[b] /\ sched'[b] = sched[b]
    BY <2>1
  <2>7. NoneReady(a)
    BY <2>3, <2>4 DEF NoneReady, OneTurn
  <2>8. QED
    BY <2>4, <2>5, <2>6, <2>7
<1> QED  BY <1>3, <1>4

-----------------------------------------------------------------------------
(* The steps of a turn *)

\* One agent acts and keeps the invariant, the others rest.
LEMMA OneAgentActs ==
  ASSUME TurnInv, BusTyped', TurnsTyped',
         NEW a \in Agents, OneTurn(a)', AckedIsTaken(a)',
         \A b \in Agents \ {a} : Rests(b)
  PROVE  TurnInv'
<1>1. ASSUME NEW b \in Agents \ {a}
      PROVE  OneTurn(b)' /\ AckedIsTaken(b)'
  BY <1>1, RestingIsSafe DEF TurnInv
<1>2. QED
  BY <1>1 DEF TurnInv

\* An acknowledgement is of one agent's deliveries.
LEMMA AckIsOfOne ==
  ASSUME BusTyped, NEW a \in Agents, NEW ns, Ack(a, ns),
         UNCHANGED <<events, telling>>
  PROVE  /\ BusTyped'
         /\ bus'[a].acked = bus[a].acked \cup (ns \cap bus[a].unacked)
         /\ \A b \in Agents \ {a} : bus'[b] = bus[b]
<1> DEFINE acked == ns \cap bus[a].unacked
<1>1. bus' = [ bus EXCEPT ![a].unacked = @ \ ns, ![a].acked = @ \cup acked ]
  BY DEF Ack
<1>2. acked \in SUBSET DOMAIN events
  BY DEF BusTyped
<1> HIDE DEF acked
<1>3. /\ bus' \in [ Recipients \cup Agents -> [ unacked : SUBSET DOMAIN events,
                                              acked : SUBSET DOMAIN events ] ]
      /\ bus'[a].acked = bus[a].acked \cup acked
      /\ \A b \in Agents \ {a} : bus'[b] = bus[b]
  BY <1>1, <1>2 DEF BusTyped
<1>4. BusTyped'
  BY <1>3 DEF BusTyped
<1>5. QED
  BY <1>3, <1>4 DEF acked

\* A turn that goes on stays the only one.
LEMMA TurnGoesOn ==
  ASSUME TurnInv, NEW a \in Agents, NEW i \in DOMAIN turns[a], NEW t \in Turn,
         turns' = [ turns EXCEPT ![a] = [ @ EXCEPT ![i] = t ] ],
         UNCHANGED sched
  PROVE  /\ turns' \in [ Agents -> Seq(Turn) ]
         /\ \A b \in Agents \ {a} : turns'[b] = turns[b] /\ sched'[b] = sched[b]
         /\ OneTurn(a)'
         /\ i = 1 /\ DOMAIN turns[a] = {1}
         /\ DOMAIN turns'[a] = {1} /\ turns'[a][1] = t
<1>1. /\ turns[a] \in Seq(Turn) /\ Len(turns[a]) = 1 /\ sched[a].running
      /\ i = 1 /\ DOMAIN turns[a] = {1}
  BY FirstTurnOnly
<1>2. turns \in [ Agents -> Seq(Turn) ]
  BY DEF TurnInv, TurnsTyped
<1>3. /\ [ turns[a] EXCEPT ![1] = t ] \in Seq(Turn)
      /\ Len([ turns[a] EXCEPT ![1] = t ]) = 1
  BY <1>1, ReplaceTheOnly
<1>4. turns'[a] = [ turns[a] EXCEPT ![1] = t ]
  BY <1>1, <1>2
<1>5. DOMAIN turns'[a] = {1} /\ turns'[a][1] = t
  BY <1>1, <1>4
<1>6. turns' \in [ Agents -> Seq(Turn) ]
  BY <1>1, <1>2, <1>3
<1>7. OneTurn(a)'
  BY <1>1, <1>3, <1>4 DEF OneTurn
<1>8. QED
  BY <1>1, <1>2, <1>5, <1>6, <1>7

\* While no turn is ready, all that was acknowledged is settled.
LEMMA NoneReadyAllSettled ==
  ASSUME TurnInv, NEW a \in Agents, NEW i \in DOMAIN turns[a],
         turns[a][i].pc # "launch"
  PROVE  \A n \in bus[a].acked : Relevant(a, n) => Settled(a, n)
BY FirstTurnOnly DEF TurnInv, AckedIsTaken, Ready

\* The check of a turn takes events and acknowledges them, and the launch
\* begins the turn.
LEMMA TurnsAdvance ==
  ASSUME TurnInv, NEW a \in Agents, NEW i \in DOMAIN turns[a],
         UNCHANGED telling,
         \/ CheckInbox(a, i) \/ CheckEvents(a, i) \/ AckTaken(a, i)
         \/ BeginTurn(a, i)
  PROVE  TurnInv'
<1> DEFINE turn == turns[a][i]
<1>1. turn \in Turn /\ i = 1
  BY FirstTurnOnly DEF TurnInv, TurnsTyped
<1>2. BusTyped /\ TurnsTyped
  BY DEF TurnInv
<1>3. CASE CheckInbox(a, i)
  <2> DEFINE t == [ turn EXCEPT !.pc =
                      IF mail[a].unread THEN "launch" ELSE "events" ]
  <2>1. /\ turns' = [ turns EXCEPT ![a] = [ @ EXCEPT ![i] = t ] ]
        /\ t \in Turn /\ UNCHANGED <<events, bus, telling, channels, sched, fate>>
        /\ turn.pc # "launch"
    BY <1>1, <1>3 DEF CheckInbox, Turn, At
  <2>2. \A n \in bus[a].acked : Relevant(a, n) => Settled(a, n)
    BY <2>1, NoneReadyAllSettled
  <2>3. AckedIsTaken(a)'
    BY <2>1, <2>2 DEF AckedIsTaken, Relevant, Settled
  <2>4. BusTyped' /\ TurnsTyped'
    BY <1>2, <2>1, TurnGoesOn DEF BusTyped, TurnsTyped
  <2>5. \A b \in Agents \ {a} : Rests(b)
    BY <2>1, TurnGoesOn DEF Rests, Relevant
  <2>6. QED
    BY <2>1, <2>3, <2>4, <2>5, TurnGoesOn, OneAgentActs
<1>4. CASE CheckEvents(a, i)
  <2> DEFINE t == [ pc |-> "sweep",
                    held |-> { n \in bus[a].unacked : Relevant(a, n) } ]
  <2>0. bus[a].unacked \subseteq Nat
    BY <1>2 DEF BusTyped
  <2>1. /\ turns' = [ turns EXCEPT ![a] = [ @ EXCEPT ![i] = t ] ]
        /\ t \in Turn /\ UNCHANGED <<events, bus, telling, channels, sched, fate>>
        /\ turn.pc # "launch"
    BY <2>0, <1>1, <1>4 DEF CheckEvents, Turn, At
  <2>2. \A n \in bus[a].acked : Relevant(a, n) => Settled(a, n)
    BY <2>1, NoneReadyAllSettled
  <2>3. AckedIsTaken(a)'
    BY <2>1, <2>2 DEF AckedIsTaken, Relevant, Settled
  <2>4. BusTyped' /\ TurnsTyped'
    BY <1>2, <2>1, TurnGoesOn DEF BusTyped, TurnsTyped
  <2>5. \A b \in Agents \ {a} : Rests(b)
    BY <2>1, TurnGoesOn DEF Rests, Relevant
  <2>6. QED
    BY <2>1, <2>3, <2>4, <2>5, TurnGoesOn, OneAgentActs
<1>5. CASE AckTaken(a, i)
  <2> DEFINE t == [ turn EXCEPT !.pc = "launch" ]
  <2>1. /\ turns' = [ turns EXCEPT ![a] = [ @ EXCEPT ![i] = t ] ]
        /\ t \in Turn /\ t.pc = "launch" /\ t.held = turn.held
        /\ UNCHANGED <<events, telling, channels, sched, fate>>
        /\ turn.pc # "launch" /\ Ack(a, turn.held)
    BY <1>1, <1>5 DEF AckTaken, Turn, At
  <2>2. \A n \in bus[a].acked : Relevant(a, n) => Settled(a, n)
    BY <2>1, NoneReadyAllSettled
  <2>3. DOMAIN turns'[a] = {1} /\ turns'[a][1] = t
    BY <2>1, TurnGoesOn
  <2>4. \A n \in turn.held : Ready(a, n)'
    BY <2>1, <2>3 DEF Ready
  <2>5. /\ BusTyped' /\ \A b \in Agents \ {a} : bus'[b] = bus[b]
        /\ bus'[a].acked \subseteq bus[a].acked \cup turn.held
    BY <1>2, <2>1, AckIsOfOne
  <2>6. AckedIsTaken(a)'
    BY <2>1, <2>2, <2>4, <2>5 DEF AckedIsTaken, Relevant, Settled
  <2>7. TurnsTyped'
    BY <1>2, <2>1, TurnGoesOn DEF TurnsTyped
  <2>8. \A b \in Agents \ {a} : Rests(b)
    BY <2>1, <2>5, TurnGoesOn DEF Rests, Relevant
  <2>9. QED
    BY <2>1, <2>5, <2>6, <2>7, <2>8, TurnGoesOn, OneAgentActs
<1>6. CASE BeginTurn(a, i)
  <2> DEFINE t == [ turn EXCEPT !.pc = "turn" ]
  <2>1. /\ turns' = [ turns EXCEPT ![a] = [ @ EXCEPT ![i] = t ] ]
        /\ t \in Turn /\ UNCHANGED <<events, bus, telling, channels, sched>>
        /\ fate' = [ fate EXCEPT ![a].seen = @ \cup turn.held ]
    BY <1>1, <1>6 DEF BeginTurn, Turn
  <2>2. /\ fate' \in [ Agents -> [ seen : SUBSET Nat, lost : SUBSET Nat ] ]
        /\ fate'[a].seen = fate[a].seen \cup turn.held
        /\ fate'[a].lost = fate[a].lost
        /\ \A b \in Agents \ {a} : fate'[b] = fate[b]
    <3>1. /\ fate \in [ Agents -> [ seen : SUBSET Nat, lost : SUBSET Nat ] ]
          /\ turn.held \in SUBSET Nat
      BY <1>1, <1>2 DEF TurnsTyped, Turn
    <3>2. fate' = [ fate EXCEPT ![a].seen = @ \cup turn.held ]
      BY <2>1
    <3>3. fate' \in [ Agents -> [ seen : SUBSET Nat, lost : SUBSET Nat ] ]
      BY <3>1, <3>2
    <3>4. QED
      BY <3>1, <3>2, <3>3
  <2>3. DOMAIN turns[a] = {1}
    BY <2>1, TurnGoesOn
  <2>4. \A n : Ready(a, n) => n \in turn.held
    BY <1>1, <2>3 DEF Ready
  <2>5. AckedIsTaken(a)'
    BY <2>1, <2>2, <2>4 DEF TurnInv, AckedIsTaken, Relevant, Settled
  <2>6. BusTyped' /\ TurnsTyped'
    BY <1>2, <2>1, <2>2, TurnGoesOn DEF BusTyped, TurnsTyped
  <2>7. \A b \in Agents \ {a} : Rests(b)
    BY <2>1, <2>2, TurnGoesOn DEF Rests, Relevant
  <2>8. QED
    BY <2>1, <2>5, <2>6, <2>7, TurnGoesOn, OneAgentActs
<1> QED  BY <1>3, <1>4, <1>5, <1>6

\* A turn ends with all settled that was acknowledged.
LEMMA TurnCompletes ==
  ASSUME TurnInv, NEW a \in Agents, NEW i \in DOMAIN turns[a], Complete(a, i),
         UNCHANGED <<events, telling, channels>>, BusTyped',
         fate' \in [ Agents -> [ seen : SUBSET Nat, lost : SUBSET Nat ] ],
         \A n \in bus'[a].acked : Relevant(a, n) => Settled(a, n)',
         \A b \in Agents \ {a} : /\ bus'[b].acked = bus[b].acked
                                 /\ fate'[b] = fate[b]
  PROVE  TurnInv'
<1>1. AckedIsTaken(a)'
  BY DEF AckedIsTaken, Relevant
<1>2. OneTurn(a)'
  BY CompleteLeaves DEF NoneReady
<1>3. TurnsTyped'
  BY CompleteLeaves DEF TurnInv, TurnsTyped
<1>4. \A b \in Agents \ {a} : Rests(b)
  BY CompleteLeaves DEF Rests, Relevant
<1>5. QED
  BY <1>1, <1>2, <1>3, <1>4, OneAgentActs

\* The rest of the events is acknowledged: none that concerns the agent.
LEMMA TurnsSweep ==
  ASSUME TurnInv, NEW a \in Agents, NEW i \in DOMAIN turns[a],
         UNCHANGED telling, Sweep(a, i)
  PROVE  TurnInv'
<1> DEFINE turn == turns[a][i]
           t == [ turn EXCEPT !.pc = "ack" ]
           rest == { n \in bus[a].unacked : ~Relevant(a, n) }
<1>1. turn \in Turn /\ turn.pc = "sweep" /\ BusTyped /\ TurnsTyped
  BY FirstTurnOnly DEF TurnInv, TurnsTyped, Sweep, At
<1>2. Ack(a, rest) /\ UNCHANGED <<events, telling, channels, fate>>
  BY DEF Sweep
<1>3. /\ BusTyped' /\ \A b \in Agents \ {a} : bus'[b] = bus[b]
      /\ bus'[a].acked \subseteq bus[a].acked \cup rest
  <2> HIDE DEF rest
  <2> QED  BY <1>1, <1>2, AckIsOfOne
<1>4. \A n \in bus'[a].acked : Relevant(a, n) => Settled(a, n)
  BY <1>1, <1>3, NoneReadyAllSettled
<1>5. CASE turn.held = {}
  <2>1. Complete(a, i)
    BY <1>5 DEF Sweep
  <2>2. fate' \in [ Agents -> [ seen : SUBSET Nat, lost : SUBSET Nat ] ]
    BY <1>1, <1>2 DEF TurnsTyped
  <2>3. QED
    BY <1>2, <1>3, <1>4, <2>1, <2>2, TurnCompletes DEF Settled
<1>6. CASE turn.held # {}
  <2>1. /\ turns' = [ turns EXCEPT ![a] = [ @ EXCEPT ![i] = t ] ]
        /\ t \in Turn /\ UNCHANGED sched
    BY <1>1, <1>6 DEF Sweep, Turn
  <2>2. AckedIsTaken(a)'
    BY <1>2, <1>4 DEF AckedIsTaken, Relevant, Settled
  <2>3. TurnsTyped'
    BY <1>1, <1>2, <2>1, TurnGoesOn DEF TurnsTyped
  <2>4. \A b \in Agents \ {a} : Rests(b)
    BY <1>2, <1>3, <2>1, TurnGoesOn DEF Rests, Relevant
  <2>5. QED
    BY <1>3, <2>1, <2>2, <2>3, <2>4, TurnGoesOn, OneAgentActs
<1> QED  BY <1>5, <1>6

\* A turn ends, or is not begun and loses what it took.
LEMMA TurnsEnd ==
  ASSUME TurnInv, NEW a \in Agents, NEW i \in DOMAIN turns[a],
         UNCHANGED telling, EndTurn(a, i) \/ LaunchFails(a, i)
  PROVE  TurnInv'
<1> DEFINE turn == turns[a][i]
<1>1. turn \in Turn /\ i = 1 /\ DOMAIN turns[a] = {1} /\ BusTyped /\ TurnsTyped
  BY FirstTurnOnly DEF TurnInv, TurnsTyped
<1>2. Complete(a, i) /\ UNCHANGED <<events, bus, telling, channels>>
  BY DEF EndTurn, LaunchFails
<1>3. BusTyped'
  BY <1>1, <1>2 DEF BusTyped
<1>4. CASE EndTurn(a, i)
  <2>1. turn.pc # "launch" /\ UNCHANGED fate
    BY <1>4 DEF EndTurn, At
  <2>2. \A n \in bus[a].acked : Relevant(a, n) => Settled(a, n)
    BY <2>1, NoneReadyAllSettled
  <2>3. fate' \in [ Agents -> [ seen : SUBSET Nat, lost : SUBSET Nat ] ]
    BY <1>1, <2>1 DEF TurnsTyped
  <2>4. QED
    BY <1>2, <1>3, <2>1, <2>2, <2>3, TurnCompletes DEF Settled
<1>5. CASE LaunchFails(a, i)
  <2>1. fate' = [ fate EXCEPT ![a].lost = @ \cup turn.held ]
    BY <1>5 DEF LaunchFails
  <2>2. /\ fate' \in [ Agents -> [ seen : SUBSET Nat, lost : SUBSET Nat ] ]
        /\ fate'[a].lost = fate[a].lost \cup turn.held
        /\ fate'[a].seen = fate[a].seen
        /\ \A b \in Agents \ {a} : fate'[b] = fate[b]
    <3>1. /\ fate \in [ Agents -> [ seen : SUBSET Nat, lost : SUBSET Nat ] ]
          /\ turn.held \in SUBSET Nat
      BY <1>1 DEF TurnsTyped, Turn
    <3>2. fate' \in [ Agents -> [ seen : SUBSET Nat, lost : SUBSET Nat ] ]
      BY <2>1, <3>1
    <3>3. QED
      BY <2>1, <3>1, <3>2
  <2>3. \A n : Ready(a, n) => n \in turn.held
    BY <1>1 DEF Ready
  <2>4. \A n \in bus[a].acked : Relevant(a, n) => Settled(a, n)'
    BY <2>2, <2>3 DEF TurnInv, AckedIsTaken, Settled
  <2>5. QED
    BY <1>2, <1>3, <2>2, <2>4, TurnCompletes
<1> QED  BY <1>4, <1>5

\* A trigger starts a turn that is not ready, or none.
LEMMA TriggersAreSafe ==
  ASSUME TurnInv, NEW a \in Agents, Trigger(a),
         UNCHANGED <<events, bus, fate, telling>>,
         channels' \in [ notified : Seq(SUBSET Agents), batch : SUBSET Agents,
                         wakes : Seq(Agents) ]
  PROVE  TurnInv'
<1>1. BusTyped' /\ TurnsTyped'
  BY TriggerStarts DEF TurnInv, BusTyped, TurnsTyped
<1>2. OneTurn(a)'
  BY TriggerStarts
<1>3. AckedIsTaken(a)'
  BY TriggerStarts DEF TurnInv, AckedIsTaken, Relevant, Settled
<1>4. \A b \in Agents \ {a} : Rests(b)
  BY TriggerStarts DEF Rests, Relevant
<1>5. QED
  BY <1>1, <1>2, <1>3, <1>4, OneAgentActs

\* With all turns go the events of those that were ready.
LEMMA CrashesAreSafe ==
  ASSUME TurnInv, CrashWatcher, UNCHANGED telling
  PROVE  TurnInv'
<1>1. /\ BusTyped /\ TurnsTyped /\ UNCHANGED <<events, bus, telling>>
      /\ turns' = [ a \in Agents |-> <<>> ]
      /\ sched' = [ a \in Agents |-> Idle ]
      /\ channels' = NoChannels
      /\ fate' = [ a \in Agents |->
                     [ fate[a] EXCEPT !.lost = @ \cup Doomed(a) ] ]
  BY DEF CrashWatcher, TurnInv
<1>2. ASSUME NEW a \in Agents
      PROVE  Doomed(a) \subseteq Nat /\ \A n : Ready(a, n) => n \in Doomed(a)
  <2>1. \A i \in DOMAIN turns[a] : turns[a][i] \in Turn
    BY <1>1, <1>2, FirstTurnOnly DEF TurnsTyped
  <2>2. QED
    BY <2>1 DEF Doomed, Ready, At, Turn
<1>3. fate' \in [ Agents -> [ seen : SUBSET Nat, lost : SUBSET Nat ] ]
  BY <1>1, <1>2 DEF TurnsTyped
<1>4. TurnsTyped'
  BY <1>1, <1>3, EmptySeq DEF TurnsTyped, NoChannels, Idle
<1>5. BusTyped'
  BY <1>1 DEF BusTyped
<1>6. ASSUME NEW a \in Agents
      PROVE  OneTurn(a)' /\ AckedIsTaken(a)'
  <2>1. /\ fate'[a].seen = fate[a].seen
        /\ fate'[a].lost = fate[a].lost \cup Doomed(a)
    BY <1>1, <1>6 DEF TurnsTyped
  <2>2. AckedIsTaken(a)'
    BY <1>1, <1>2, <1>6, <2>1 DEF TurnInv, AckedIsTaken, Relevant, Settled
  <2>3. OneTurn(a)'
    BY <1>1, <1>6, EmptySeq DEF OneTurn, Idle
  <2>4. QED
    BY <2>2, <2>3
<1>7. QED
  BY <1>4, <1>5, <1>6 DEF TurnInv

-----------------------------------------------------------------------------
(* Steps that leave the turns alone *)

\* What hands agents on to the scheduler keeps the channels well formed.
LEMMA ChannelsMove ==
  ASSUME TurnInv, UNCHANGED <<events, bus, sched, turns, fate, telling>>,
         channels' \in [ notified : Seq(SUBSET Agents), batch : SUBSET Agents,
                         wakes : Seq(Agents) ]
  PROVE  TurnInv'
<1>1. BusTyped' /\ TurnsTyped'
  BY DEF TurnInv, BusTyped, TurnsTyped
<1>2. \A a \in Agents : Rests(a)
  BY DEF Rests, Relevant
<1>3. QED
  BY <1>1, <1>2, RestingIsSafe DEF TurnInv

\* A new event leaves what is known of the others.
LEMMA PublishingIsSafe ==
  ASSUME TurnInv, NEW g \in Publishers, NEW kind \in Kinds, Publish(g, kind),
         UNCHANGED <<bus, channels, sched, turns, fate>>
  PROVE  TurnInv'
<1>1. BusTyped /\ TurnsTyped
  BY DEF TurnInv
<1>2. /\ events' \in Seq(Kinds) /\ DOMAIN events \subseteq DOMAIN events'
      /\ \A n \in DOMAIN events : events'[n] = events[n]
      /\ Len(events) + 1 \in Nat /\ Len(events) + 1 \in DOMAIN events'
  BY <1>1, AppendProperties DEF Publish, BusTyped
<1>3. telling' = [ telling EXCEPT ![g] = [ event |-> Len(events) + 1,
                                           todo |-> Told ] ]
  BY DEF Publish
<1>4. BusTyped'
  <2>1. bus' \in [ Recipients \cup Agents ->
                     [ unacked : SUBSET DOMAIN events',
                       acked : SUBSET DOMAIN events' ] ]
    BY <1>1, <1>2 DEF BusTyped
  <2>2. telling' \in [ Publishers -> [ event : Nat, todo : Seq(Recipients) ] ]
    BY <1>1, <1>2, <1>3, ControlAssumption DEF BusTyped
  <2>3. \A h \in Publishers :
          telling'[h].todo # <<>> => telling'[h].event \in DOMAIN events'
    BY <1>1, <1>2, <1>3 DEF BusTyped
  <2>4. QED
    BY <1>2, <2>1, <2>2, <2>3 DEF BusTyped
<1>5. TurnsTyped'
  BY <1>1 DEF TurnsTyped
<1>6. \A a \in Agents : bus[a].acked \subseteq DOMAIN events
  BY <1>1 DEF BusTyped
<1>7. \A a \in Agents : Rests(a)
  BY <1>2, <1>6 DEF Rests, Relevant
<1>8. QED
  BY <1>4, <1>5, <1>7, RestingIsSafe DEF TurnInv

\* A delivery is not acknowledged yet.
LEMMA TellingIsSafe ==
  ASSUME TurnInv, NEW g \in Publishers, Tell(g)
  PROVE  TurnInv'
<1> DEFINE rest == IF Len(telling[g].todo) = 1 THEN Nothing
                   ELSE [ event |-> telling[g].event,
                          todo  |-> Tail(telling[g].todo) ]
           r == Head(telling[g].todo)
<1>1. /\ BusTyped /\ TurnsTyped /\ telling[g].todo # <<>>
      /\ Deliver(r, telling[g].event)
      /\ telling' = [ telling EXCEPT ![g] = rest ]
      /\ UNCHANGED <<events, channels, sched, turns, fate>>
  BY DEF TurnInv, Tell
<1>2. /\ telling[g] \in [ event : Nat, todo : Seq(Recipients) ]
      /\ telling[g].event \in DOMAIN events
  BY <1>1 DEF BusTyped
<1>3. r \in Recipients /\ Tail(telling[g].todo) \in Seq(Recipients)
  BY <1>1, <1>2, HeadTailProperties
<1>4. /\ rest \in [ event : Nat, todo : Seq(Recipients) ]
      /\ rest.todo # <<>> => rest.event \in DOMAIN events
  BY <1>2, <1>3, EmptySeq DEF Nothing
<1>5. /\ bus' \in [ Recipients \cup Agents -> [ unacked : SUBSET DOMAIN events,
                                                acked : SUBSET DOMAIN events ] ]
      /\ \A a \in Agents : bus'[a].acked = bus[a].acked
  <2> HIDE DEF r
  <2> QED  BY <1>1, <1>2, <1>3 DEF BusTyped, Deliver
<1>6. BusTyped'
  <2> HIDE DEF rest, r
  <2>1. telling' \in [ Publishers -> [ event : Nat, todo : Seq(Recipients) ] ]
    BY <1>1, <1>4 DEF BusTyped
  <2>2. \A h \in Publishers :
          telling'[h].todo # <<>> => telling'[h].event \in DOMAIN events
    BY <1>1, <1>4 DEF BusTyped
  <2>3. QED
    BY <1>1, <1>5, <2>1, <2>2 DEF BusTyped
<1>7. TurnsTyped'
  BY <1>1 DEF TurnsTyped
<1>8. \A a \in Agents : Rests(a)
  BY <1>1, <1>5 DEF Rests, Relevant
<1>9. QED
  BY <1>6, <1>7, <1>8, RestingIsSafe DEF TurnInv

\* With the orchestrator's process ends what it had not told.
LEMMA RestartsAreSafe ==
  ASSUME TurnInv, RestartOrchestrator
  PROVE  TurnInv'
<1> DEFINE untold(a) == { telling[g].event : g \in { h \in Publishers :
                            a \in ToSet(telling[h].todo) } }
<1>1. /\ BusTyped /\ TurnsTyped
      /\ UNCHANGED <<events, bus, channels, sched, turns>>
      /\ telling' = [ g \in Publishers |-> Nothing ]
      /\ fate' = [ a \in Agents |->
                     [ fate[a] EXCEPT !.lost = @ \cup untold(a) ] ]
  BY DEF TurnInv, RestartOrchestrator
<1>2. \A a \in Agents : untold(a) \subseteq Nat
  BY <1>1 DEF BusTyped
<1> HIDE DEF untold
<1>3. /\ fate' \in [ Agents -> [ seen : SUBSET Nat, lost : SUBSET Nat ] ]
      /\ \A a \in Agents : /\ fate'[a].seen = fate[a].seen
                           /\ fate[a].lost \subseteq fate'[a].lost
  BY <1>1, <1>2 DEF TurnsTyped
<1>4. BusTyped' /\ TurnsTyped'
  BY <1>1, <1>3, EmptySeq DEF BusTyped, TurnsTyped, Nothing
<1>5. \A a \in Agents : Rests(a)
  BY <1>1, <1>3 DEF Rests, Relevant
<1>6. QED
  BY <1>4, <1>5, RestingIsSafe DEF TurnInv

-----------------------------------------------------------------------------
(* The theorems of the turns *)

\* At first there are no turns and no deliveries.
LEMMA StartsQuiet == Init => TurnInv
<1> SUFFICES ASSUME Init PROVE TurnInv  OBVIOUS
<1>1. BusTyped
  BY EmptySeq DEF Init, TurnInit, BusTyped, Nothing
<1>2. TurnsTyped
  BY EmptySeq DEF Init, TurnInit, TurnsTyped, NoChannels, Idle
<1>3. \A a \in Agents : OneTurn(a) /\ AckedIsTaken(a)
  BY EmptySeq DEF Init, TurnInit, OneTurn, AckedIsTaken, Idle
<1> QED  BY <1>1, <1>2, <1>3 DEF TurnInv

\* Every step of the orchestrator, the watcher and the agents keeps the
\* invariant.
LEMMA TurnsStep ==
  ASSUME TurnInv, [Next]_vars
  PROVE  TurnInv'
<1>0. /\ channels \in [ notified : Seq(SUBSET Agents), batch : SUBSET Agents,
                        wakes : Seq(Agents) ]
      /\ BusTyped
  BY DEF TurnInv, TurnsTyped
<1>1. CASE UNCHANGED vars
  BY <1>0, <1>1, ChannelsMove DEF vars, turnVars
<1>2. CASE Serving
  <2>1. CASE ServerPublishes
    BY <2>1, PublishingIsSafe DEF ServerPublishes, Publishers, Kinds
  <2>2. CASE UNCHANGED <<turnVars, telling>>
    BY <1>0, <2>2, ChannelsMove DEF turnVars
  <2>3. QED
    BY <1>2, <2>1, <2>2 DEF Serving, ServerRereads
<1>3. ASSUME NEW g \in Publishers, Tell(g) PROVE TurnInv'
  BY <1>3, TellingIsSafe
<1>4. CASE TickMoves \/ TellOfWorker
  <2>1. CASE UNCHANGED <<turnVars, telling>>
    BY <1>0, <2>1, ChannelsMove DEF turnVars
  <2>2. ASSUME NEW kind \in Kinds, Publish("tick", kind),
               UNCHANGED <<bus, channels, sched, turns, fate>>
        PROVE  TurnInv'
    BY <2>2, PublishingIsSafe DEF Publishers
  <2>3. QED
    BY <1>4, <2>1, <2>2 DEF TickMoves, TellOfWorker, Kinds
<1>5. ASSUME NEW a \in Actors, AgentSends(a) \/ \E b \in Agents : AgentWrites(a, b)
      PROVE  TurnInv'
  BY <1>0, <1>5, ChannelsMove DEF AgentSends, AgentWrites, Receive, turnVars
<1>6. ASSUME NEW a \in Agents, NEW i \in DOMAIN turns[a], AgentEnds(a, i)
      PROVE  TurnInv'
  BY <1>6, TurnsEnd DEF AgentEnds
<1>7. CASE Quietly(PollDeliveries \/ TakeBatch \/ Wake \/ Reopen)
  <2>1. UNCHANGED telling
    BY <1>7 DEF Quietly
  <2>2. CASE PollDeliveries
    <3> DEFINE waiting == { b \in Agents : bus[b].unacked # {} }
    <3>1. Append(channels.notified, waiting) \in Seq(SUBSET Agents)
      BY <1>0, AppendProperties
    <3>2. channels' =
            [ channels EXCEPT !.notified = Append(channels.notified, waiting) ]
      BY <2>2 DEF PollDeliveries
    <3> HIDE DEF waiting
    <3>3. QED
      BY <1>0, <2>1, <2>2, <3>1, <3>2, ChannelsMove DEF PollDeliveries
  <2>3. CASE TakeBatch
    BY <1>0, <2>1, <2>3, ChannelsMove, HeadTailProperties DEF TakeBatch
  <2>4. CASE Wake
    <3>1. /\ Head(channels.wakes) \in Agents
          /\ channels' \in [ notified : Seq(SUBSET Agents),
                             batch : SUBSET Agents, wakes : Seq(Agents) ]
      BY <1>0, <2>4, HeadTailProperties DEF Wake
    <3>2. QED
      BY <2>1, <2>4, <3>1, TriggersAreSafe DEF Wake
  <2>5. CASE Reopen
    BY <1>0, <2>1, <2>5, ChannelsMove DEF Reopen
  <2>6. QED
    BY <1>7, <2>2, <2>3, <2>4, <2>5 DEF Quietly
<1>8. ASSUME NEW a \in Agents,
             Quietly(TriggerFromBatch(a) \/ PollSignal(a) \/ Prepare(a))
      PROVE  TurnInv'
  <2>1. UNCHANGED telling
    BY <1>8 DEF Quietly
  <2>2. CASE TriggerFromBatch(a)
    BY <1>0, <2>1, <2>2, TriggersAreSafe DEF TriggerFromBatch
  <2>3. CASE PollSignal(a)
    BY <1>0, <2>1, <2>3, ChannelsMove, AppendProperties DEF PollSignal
  <2>4. CASE Prepare(a)
    BY <2>1, <2>4, TurnsAdvance, TurnsSweep, TurnsEnd DEF Prepare
  <2>5. QED
    BY <1>8, <2>2, <2>3, <2>4 DEF Quietly
<1>9. CASE Disconnect /\ UNCHANGED <<turnVars, telling>>
  BY <1>0, <1>9, ChannelsMove DEF turnVars
<1>10. CASE RestartOrchestrator
  BY <1>10, RestartsAreSafe
<1>11. CASE WatcherFails
  <2>1. UNCHANGED telling
    BY <1>11 DEF WatcherFails
  <2>2. CASE Shutdown
    BY <1>0, <2>1, <2>2, ChannelsMove, EmptySeq DEF Shutdown, NoChannels
  <2>3. CASE CrashWatcher
    BY <2>1, <2>3, CrashesAreSafe
  <2>4. ASSUME NEW a \in Agents, NEW i \in DOMAIN turns[a], LaunchFails(a, i)
        PROVE  TurnInv'
    BY <2>1, <2>4, TurnsEnd
  <2>5. QED
    BY <1>11, <2>2, <2>3, <2>4 DEF WatcherFails
<1> QED
  BY <1>1, <1>2, <1>3, <1>4, <1>5, <1>6, <1>7, <1>8, <1>9, <1>10, <1>11
  DEF Next

\* The scheduler counts the turns of each agent, and what was acknowledged for
\* an agent is with a turn or lost, in every behaviour of the control plane.
THEOREM TurnCorrectness == Spec => []TurnInv
<1>1. Init => TurnInv
  BY StartsQuiet
<1>2. TurnInv /\ [Next]_vars => TurnInv'
  BY TurnsStep
<1> QED  BY <1>1, <1>2, PTL DEF Spec

\* At most one process of an agent is about at a time, however triggers, ends
\* of turns, shutdowns and crashes of the watcher interleave.
THEOREM TurnsAreExclusive == Spec => []OneTurnAtATime
<1>1. TurnInv => OneTurnAtATime
  BY DEF TurnInv, OneTurn, OneTurnAtATime
<1> QED  BY <1>1, TurnCorrectness, PTL

\* No event is acknowledged for an agent it concerns but on behalf of a turn,
\* also when it arrives between two queries of the check.
THEOREM AcknowledgedIsTaken == Spec => []AckedForATurn
<1>1. TurnInv => AckedForATurn
  BY DEF TurnInv, AckedIsTaken, Settled, Ready, AckedForATurn
<1> QED  BY <1>1, TurnCorrectness, PTL

-----------------------------------------------------------------------------
(* The types of the control plane *)

\* An event is delivered to nobody twice, acknowledged or not: it is new when
\* it is published, and each is told once.
DeliveredOnce ==
  /\ \A r \in Recipients \cup Agents : bus[r].unacked \cap bus[r].acked = {}
  /\ \A g \in Publishers :
       /\ \A i, j \in DOMAIN telling[g].todo :
            telling[g].todo[i] = telling[g].todo[j] => i = j
       /\ \A i \in DOMAIN telling[g].todo :
            telling[g].event \notin bus[telling[g].todo[i]].unacked
                                    \cup bus[telling[g].todo[i]].acked
  /\ \A g, h \in Publishers :
       g # h /\ telling[g].todo # <<>> /\ telling[h].todo # <<>>
         => telling[g].event # telling[h].event

ChannelsBounded ==
  /\ stopping \in BOOLEAN
  /\ mail \in [ Agents -> [ unread : BOOLEAN, signal : BOOLEAN ] ]
  /\ Len(channels.notified) <= ChannelSize /\ Len(channels.wakes) <= ChannelSize

\* A turn takes events that were published.
HoldsEvents(a) == \A i \in DOMAIN turns[a] : turns[a][i].held \subseteq DOMAIN events

EventsExist ==
  /\ \A a \in Agents : HoldsEvents(a)
  /\ \A g \in Publishers : telling[g].event \in {0} \cup DOMAIN events

ControlInv ==
  /\ GuardInv /\ TurnInv /\ DeliveredOnce /\ ChannelsBounded /\ EventsExist

\* What is acknowledged was waiting.
LEMMA AckKeepsDeliveries ==
  ASSUME DeliveredOnce, BusTyped, NEW a \in Agents, NEW ns, Ack(a, ns),
         UNCHANGED telling
  PROVE  DeliveredOnce'
<1> DEFINE acked == ns \cap bus[a].unacked
           left == bus[a].unacked \ ns
<1>1. bus' = [ bus EXCEPT ![a].unacked = left, ![a].acked = @ \cup acked ]
  BY DEF Ack
<1>2. /\ left \cap (bus[a].acked \cup acked) = {}
      /\ left \cup (bus[a].acked \cup acked) = bus[a].unacked \cup bus[a].acked
  BY DEF DeliveredOnce
<1>3. bus \in [ Recipients \cup Agents -> [ unacked : SUBSET DOMAIN events,
                                            acked : SUBSET DOMAIN events ] ]
  BY DEF BusTyped
<1> HIDE DEF acked, left
<1>4. /\ bus'[a].unacked = left /\ bus'[a].acked = bus[a].acked \cup acked
      /\ \A r \in (Recipients \cup Agents) \ {a} : bus'[r] = bus[r]
  BY <1>1, <1>3
<1>5. \A r \in Recipients \cup Agents :
        /\ bus'[r].unacked \cap bus'[r].acked = {}
        /\ bus'[r].unacked \cup bus'[r].acked = bus[r].unacked \cup bus[r].acked
  BY <1>2, <1>4 DEF DeliveredOnce
<1>6. \A g \in Publishers : \A i \in DOMAIN telling[g].todo :
        telling[g].todo[i] \in Recipients
  BY DEF BusTyped
<1>7. QED
  BY <1>5, <1>6 DEF DeliveredOnce

\* A new event was delivered to nobody.
LEMMA PublishKeepsDeliveries ==
  ASSUME DeliveredOnce, BusTyped, EventsExist, NEW g \in Publishers, NEW kind,
         Publish(g, kind), UNCHANGED bus
  PROVE  DeliveredOnce'
<1> DEFINE n == Len(events) + 1
<1>1. /\ telling' = [ telling EXCEPT ![g] = [ event |-> n, todo |-> Told ] ]
      /\ telling \in [ Publishers -> [ event : Nat, todo : Seq(Recipients) ] ]
  BY DEF Publish, BusTyped
<1>2. /\ DOMAIN events = 1 .. Len(events) /\ Len(events) \in Nat
      /\ n \notin {0} \cup DOMAIN events
  BY DEF BusTyped
<1>3. \A r \in Recipients \cup Agents :
        n \notin bus[r].unacked \cup bus[r].acked
  BY <1>2 DEF BusTyped
<1> HIDE DEF n
<1>4. /\ telling'[g].event = n /\ telling'[g].todo = Told
      /\ \A h \in Publishers \ {g} : telling'[h] = telling[h]
  BY <1>1
<1>5. \A h \in Publishers \ {g} : telling'[h].event # n
  BY <1>2, <1>4 DEF EventsExist
<1>6. \A i \in DOMAIN Told : Told[i] \in Recipients
  BY ControlAssumption
<1>7. ASSUME NEW h \in Publishers
      PROVE  /\ \A i, j \in DOMAIN telling'[h].todo :
                  telling'[h].todo[i] = telling'[h].todo[j] => i = j
             /\ \A i \in DOMAIN telling'[h].todo :
                  telling'[h].event \notin bus'[telling'[h].todo[i]].unacked
                                           \cup bus'[telling'[h].todo[i]].acked
  <2>1. CASE h = g
    BY <1>3, <1>4, <1>6, <2>1, ControlAssumption
  <2>2. CASE h # g
    BY <1>4, <2>2 DEF DeliveredOnce
  <2>3. QED
    BY <2>1, <2>2
<1>8. \A h, k \in Publishers :
        h # k /\ telling'[h].todo # <<>> /\ telling'[k].todo # <<>>
          => telling'[h].event # telling'[k].event
  BY <1>4, <1>5 DEF DeliveredOnce
<1>9. QED
  BY <1>7, <1>8 DEF DeliveredOnce

\* Who is told is told first, and the others are still to be told.
LEMMA TellKeepsDeliveries ==
  ASSUME DeliveredOnce, BusTyped, NEW g \in Publishers, Tell(g)
  PROVE  DeliveredOnce'
<1> DEFINE todo == telling[g].todo
           r == Head(todo)
           n == telling[g].event
           rest == IF Len(todo) = 1 THEN Nothing
                   ELSE [ event |-> n, todo |-> Tail(todo) ]
<1>1. /\ todo \in Seq(Recipients) /\ todo # <<>> /\ n \in Nat
      /\ telling \in [ Publishers -> [ event : Nat, todo : Seq(Recipients) ] ]
      /\ bus \in [ Recipients \cup Agents -> [ unacked : SUBSET DOMAIN events,
                                               acked : SUBSET DOMAIN events ] ]
  BY DEF BusTyped, Tell
<1>2. /\ r = todo[1] /\ 1 \in DOMAIN todo /\ r \in Recipients
      /\ Len(todo) \in Nat /\ DOMAIN todo = 1 .. Len(todo)
  BY <1>1, EmptySeq
<1>3. /\ \A i \in DOMAIN rest.todo :
           /\ i + 1 \in DOMAIN todo /\ i + 1 # 1 /\ i \in Nat
           /\ rest.todo[i] = todo[i + 1]
      /\ rest.todo # <<>> => rest.event = n
      /\ \A i \in DOMAIN rest.todo : rest.event = n
  <2>1. CASE Len(todo) = 1
    BY <2>1, EmptySeq DEF Nothing
  <2>2. CASE Len(todo) # 1
    <3>1. /\ Tail(todo) \in Seq(Recipients) /\ Len(Tail(todo)) = Len(todo) - 1
          /\ \A i \in 1 .. Len(Tail(todo)) : Tail(todo)[i] = todo[i + 1]
      BY <1>1, HeadTailProperties
    <3>2. DOMAIN Tail(todo) = 1 .. Len(todo) - 1
      BY <3>1
    <3>3. QED
      BY <1>2, <2>2, <3>1, <3>2
  <2>3. QED
    BY <2>1, <2>2
<1>4. \A i, j \in DOMAIN todo : todo[i] = todo[j] => i = j
  BY DEF DeliveredOnce
<1>5. bus' = [ bus EXCEPT ![r].unacked = @ \cup {n} ]
  BY DEF Tell, Deliver
<1>6. telling' = [ telling EXCEPT ![g] = rest ]
  BY DEF Tell
<1>7. n \notin bus[r].unacked \cup bus[r].acked
  BY <1>2 DEF DeliveredOnce
<1>8. \A i \in DOMAIN todo : /\ n \notin bus[todo[i]].unacked \cup bus[todo[i]].acked
                             /\ todo[i] \in Recipients
  BY <1>1 DEF DeliveredOnce
<1>9. \A h \in Publishers \ {g} : telling[h].todo # <<>> => telling[h].event # n
  BY <1>1 DEF DeliveredOnce
<1> DEFINE us == bus[r].unacked
<1>10. /\ bus'[r].unacked = us \cup {n} /\ bus'[r].acked = bus[r].acked
       /\ \A q \in (Recipients \cup Agents) \ {r} : bus'[q] = bus[q]
  <2> HIDE DEF r, n
  <2> QED  BY <1>1, <1>2, <1>5
<1> HIDE DEF rest, todo, r, n
<1>11. /\ telling'[g] = rest
       /\ \A h \in Publishers \ {g} : telling'[h] = telling[h]
  BY <1>1, <1>6
<1>12. \A q \in Recipients \cup Agents : bus'[q].unacked \cap bus'[q].acked = {}
  BY <1>2, <1>7, <1>10 DEF DeliveredOnce
<1>13. /\ \A i, j \in DOMAIN rest.todo : rest.todo[i] = rest.todo[j] => i = j
       /\ \A i \in DOMAIN rest.todo :
            /\ rest.todo[i] # r /\ rest.todo[i] \in Recipients /\ rest.event = n
            /\ n \notin bus[rest.todo[i]].unacked \cup bus[rest.todo[i]].acked
  BY <1>2, <1>3, <1>4, <1>8
<1>14. ASSUME NEW h \in Publishers, NEW i \in DOMAIN telling'[h].todo
       PROVE  telling'[h].event \notin bus'[telling'[h].todo[i]].unacked
                                       \cup bus'[telling'[h].todo[i]].acked
  <2>1. CASE h = g
    BY <1>10, <1>11, <1>13, <2>1
  <2>2. CASE h # g
    <3>1. /\ telling'[h] = telling[h] /\ telling[h].todo \in Seq(Recipients)
          /\ i \in DOMAIN telling[h].todo
      BY <1>1, <1>11, <1>14, <2>2
    <3>2. telling[h].todo[i] \in Recipients /\ telling[h].event # n
      BY <1>9, <2>2, <3>1, EmptySeq
    <3>3. telling[h].event \notin bus[telling[h].todo[i]].unacked
                                  \cup bus[telling[h].todo[i]].acked
      BY <3>1 DEF DeliveredOnce
    <3>4. QED
      BY <1>10, <3>1, <3>2, <3>3
  <2>3. QED
    BY <2>1, <2>2
<1>15. ASSUME NEW h \in Publishers
       PROVE  \A i, j \in DOMAIN telling'[h].todo :
                telling'[h].todo[i] = telling'[h].todo[j] => i = j
  BY <1>11, <1>13 DEF DeliveredOnce
<1>16. \A h, k \in Publishers :
         h # k /\ telling'[h].todo # <<>> /\ telling'[k].todo # <<>>
           => telling'[h].event # telling'[k].event
  BY <1>3, <1>9, <1>11 DEF DeliveredOnce
<1>17. QED
  BY <1>12, <1>14, <1>15, <1>16 DEF DeliveredOnce

\* Who publishes nothing delivers nothing twice.
LEMMA QuietKeepsDeliveries ==
  ASSUME DeliveredOnce, UNCHANGED bus,
         UNCHANGED telling \/ telling' = [ g \in Publishers |-> Nothing ]
  PROVE  DeliveredOnce'
<1>1. CASE UNCHANGED telling
  BY <1>1 DEF DeliveredOnce
<1>2. CASE telling' = [ g \in Publishers |-> Nothing ]
  BY <1>2, EmptySeq DEF DeliveredOnce, Nothing
<1>3. QED
  BY <1>1, <1>2

\* No step delivers an event twice.
LEMMA DeliveriesStep ==
  ASSUME TurnInv, DeliveredOnce, EventsExist, [Next]_vars
  PROVE  DeliveredOnce'
<1>0. BusTyped
  BY DEF TurnInv
<1>1. ASSUME NEW a \in Agents, NEW i, Sweep(a, i) \/ AckTaken(a, i),
             UNCHANGED telling
      PROVE  DeliveredOnce'
  <2>1. PICK ns : Ack(a, ns)
    BY <1>1 DEF Sweep, AckTaken
  <2>2. QED
    BY <1>0, <1>1, <2>1, AckKeepsDeliveries
<1>2. CASE ServerPublishes
  BY <1>0, <1>2, PublishKeepsDeliveries DEF ServerPublishes, Publishers
<1>3. CASE TickMoves \/ TellOfWorker
  <2>1. CASE UNCHANGED <<turnVars, telling>>
    BY <2>1, QuietKeepsDeliveries DEF turnVars
  <2>2. ASSUME NEW kind, Publish("tick", kind), UNCHANGED bus
        PROVE  DeliveredOnce'
    BY <1>0, <2>2, PublishKeepsDeliveries DEF Publishers
  <2>3. QED
    BY <1>3, <2>1, <2>2 DEF TickMoves, TellOfWorker
<1>4. CASE \E g \in Publishers : Tell(g)
  BY <1>0, <1>4, TellKeepsDeliveries
<1>5. CASE RestartOrchestrator
  BY <1>5, QuietKeepsDeliveries DEF RestartOrchestrator
<1>6. ASSUME UNCHANGED <<bus, telling>> PROVE DeliveredOnce'
  BY <1>6, QuietKeepsDeliveries
<1>7. CASE \/ Serving
           \/ Disconnect /\ UNCHANGED <<turnVars, telling>>
           \/ UNCHANGED vars
           \/ \E a \in Actors :
                AgentSends(a) \/ \E b \in Agents : AgentWrites(a, b)
  BY <1>2, <1>6, <1>7
     DEF Serving, ServerRereads, turnVars, vars, AgentSends, AgentWrites, Receive
<1>8. CASE \/ WatcherFails
           \/ \E a \in Agents : \E i \in DOMAIN turns[a] : AgentEnds(a, i)
  BY <1>6, <1>8
     DEF WatcherFails, Shutdown, CrashWatcher, LaunchFails, AgentEnds, EndTurn
<1>9. CASE Quietly(PollDeliveries \/ TakeBatch \/ Wake \/ Reopen)
  BY <1>6, <1>9 DEF Quietly, PollDeliveries, TakeBatch, Wake, Reopen
<1>10. ASSUME NEW a \in Agents,
              Quietly(TriggerFromBatch(a) \/ PollSignal(a) \/ Prepare(a))
       PROVE  DeliveredOnce'
  <2>1. UNCHANGED telling
    BY <1>10 DEF Quietly
  <2>2. CASE TriggerFromBatch(a) \/ PollSignal(a)
    BY <1>6, <2>1, <2>2 DEF TriggerFromBatch, PollSignal
  <2>3. ASSUME NEW i, \/ CheckInbox(a, i) \/ CheckEvents(a, i) \/ BeginTurn(a, i)
                      \/ LaunchFails(a, i)
        PROVE  UNCHANGED bus
    BY <2>3 DEF CheckInbox, CheckEvents, BeginTurn, LaunchFails
  <2>4. CASE Prepare(a)
    BY <1>1, <1>6, <2>1, <2>3, <2>4 DEF Prepare
  <2>5. QED
    BY <1>10, <2>2, <2>4 DEF Quietly
<1> QED
  BY <1>2, <1>3, <1>4, <1>5, <1>7, <1>8, <1>9, <1>10 DEF Next

\* A trigger, or the end of a turn, starts a turn that holds nothing.
LEMMA FreshTurnsHoldNothing ==
  ASSUME TurnInv, NEW a \in Agents, \A b \in Agents : HoldsEvents(b),
         UNCHANGED events,
         Trigger(a) \/ \E i \in DOMAIN turns[a] : Complete(a, i)
  PROVE  \A b \in Agents : HoldsEvents(b)'
<1>1. /\ turns \in [ Agents -> Seq(Turn) ]
      /\ NewTurn.held = {}
  BY DEF TurnInv, TurnsTyped, NewTurn
<1>2. CASE Trigger(a)
  <2>1. CASE sched[a].running
    BY <1>2, <2>1 DEF Trigger, HoldsEvents
  <2>2. CASE ~sched[a].running
    <3>1. turns' = [ turns EXCEPT ![a] = Append(@, NewTurn) ]
      BY <1>2, <2>2 DEF Trigger
    <3>2. turns[a] = <<>>
      BY <2>2, FirstTurnOnly
    <3>3. turns'[a] = <<NewTurn>> /\ \A b \in Agents \ {a} : turns'[b] = turns[b]
      BY <1>1, <3>1, <3>2
    <3>4. DOMAIN turns'[a] = {1} /\ turns'[a][1].held = {}
      BY <1>1, <3>3
    <3>5. QED
      BY <3>3, <3>4 DEF HoldsEvents
  <2>3. QED
    BY <2>1, <2>2
<1>3. ASSUME NEW i \in DOMAIN turns[a], Complete(a, i)
      PROVE  \A b \in Agents : HoldsEvents(b)'
  <2>1. /\ i = 1 /\ DOMAIN turns[a] = {1}
        /\ turns[a] \in Seq(Turn) /\ Len(turns[a]) = 1
    BY FirstTurnOnly
  <2>2. CASE sched[a].queued
    <3>1. turns' = [ turns EXCEPT ![a] = [ @ EXCEPT ![1] = NewTurn ] ]
      BY <1>3, <2>1, <2>2 DEF Complete
    <3>2. /\ DOMAIN turns'[a] = {1} /\ turns'[a][1] = NewTurn
          /\ \A b \in Agents \ {a} : turns'[b] = turns[b]
      BY <1>1, <2>1, <3>1
    <3>3. QED
      BY <1>1, <3>2 DEF HoldsEvents
  <2>3. CASE ~sched[a].queued
    <3>1. turns' = [ turns EXCEPT ![a] = RemoveAt(@, 1) ]
      BY <1>3, <2>1, <2>3 DEF Complete
    <3>2. RemoveAt(turns[a], 1) = <<>>
      BY <2>1, SubSeqEmpty DEF RemoveAt
    <3>3. turns'[a] = <<>> /\ \A b \in Agents \ {a} : turns'[b] = turns[b]
      BY <1>1, <3>1, <3>2
    <3>4. QED
      BY <3>3 DEF HoldsEvents
  <2>4. QED
    BY <2>2, <2>3
<1>4. QED
  BY <1>2, <1>3

\* A turn that goes on holds what it held, or events that wait for its agent.
LEMMA AdvancingTurnsHoldEvents ==
  ASSUME TurnInv, NEW a \in Agents, NEW i \in DOMAIN turns[a], NEW t,
         \A b \in Agents : HoldsEvents(b), t.held \subseteq DOMAIN events,
         UNCHANGED events,
         turns' = [ turns EXCEPT ![a] = [ @ EXCEPT ![i] = t ] ]
  PROVE  \A b \in Agents : HoldsEvents(b)'
<1>1. /\ turns \in [ Agents -> Seq(Turn) ] /\ i = 1 /\ DOMAIN turns[a] = {1}
      /\ turns[a] \in Seq(Turn)
  BY FirstTurnOnly DEF TurnInv, TurnsTyped
<1>2. /\ DOMAIN turns'[a] = {1} /\ turns'[a][1] = t
      /\ \A b \in Agents \ {a} : turns'[b] = turns[b]
  BY <1>1
<1>3. QED
  BY <1>2 DEF HoldsEvents

\* Each step of a turn takes, keeps or gives up events.
LEMMA TurnsHoldEvents ==
  ASSUME TurnInv, EventsExist, NEW a \in Agents, NEW i \in DOMAIN turns[a],
         \/ CheckInbox(a, i) \/ CheckEvents(a, i) \/ Sweep(a, i)
         \/ AckTaken(a, i) \/ BeginTurn(a, i) \/ LaunchFails(a, i)
         \/ EndTurn(a, i)
  PROVE  (\A b \in Agents : HoldsEvents(b)') /\ UNCHANGED events
<1> DEFINE turn == turns[a][i]
           new(t) == turns' = [ turns EXCEPT ![a] = [ @ EXCEPT ![i] = t ] ]
<1>1. /\ \A b \in Agents : HoldsEvents(b)
      /\ turn \in Turn /\ turn.held \subseteq DOMAIN events
  BY FirstTurnOnly DEF EventsExist, HoldsEvents, TurnInv, TurnsTyped
<1>2. UNCHANGED events
  BY DEF CheckInbox, CheckEvents, Sweep, AckTaken, BeginTurn, LaunchFails,
         EndTurn
<1>3. CASE Complete(a, i)
  BY <1>1, <1>2, <1>3, FreshTurnsHoldNothing
<1>4. CASE CheckEvents(a, i)
  <2> DEFINE t == [ pc |-> "sweep",
                    held |-> { n \in bus[a].unacked : Relevant(a, n) } ]
  <2>1. t.held \subseteq DOMAIN events /\ new(t)
    BY <1>4 DEF CheckEvents, TurnInv, BusTyped
  <2> HIDE DEF t
  <2>2. QED
    BY <1>1, <1>2, <2>1, AdvancingTurnsHoldEvents
<1>5. ASSUME NEW pc, new([ turn EXCEPT !.pc = pc ])
      PROVE  \A b \in Agents : HoldsEvents(b)'
  <2> DEFINE t == [ turn EXCEPT !.pc = pc ]
  <2>1. t.held = turn.held
    BY <1>1 DEF Turn
  <2>2. new(t)
    BY <1>5
  <2> HIDE DEF t
  <2>3. QED
    BY <1>1, <1>2, <2>1, <2>2, AdvancingTurnsHoldEvents
<1>6. CASE Sweep(a, i)
  BY <1>3, <1>5, <1>6 DEF Sweep
<1>7. QED
  BY <1>2, <1>3, <1>4, <1>5, <1>6
     DEF CheckInbox, AckTaken, BeginTurn, LaunchFails, EndTurn

\* A new event exists; no turn holds it yet.
LEMMA PublishedEventsExist ==
  ASSUME TurnInv, EventsExist, NEW g \in Publishers, NEW kind,
         Publish(g, kind), UNCHANGED turns
  PROVE  EventsExist'
<1>1. /\ events' = Append(events, kind) /\ events \in Seq(Kinds)
      /\ telling \in [ Publishers -> [ event : Nat, todo : Seq(Recipients) ] ]
      /\ telling' = [ telling EXCEPT ![g] = [ event |-> Len(events) + 1,
                                              todo |-> Told ] ]
  BY DEF Publish, TurnInv, BusTyped
<1>2. DOMAIN events' = DOMAIN events \cup {Len(events) + 1}
  BY <1>1
<1>3. \A h \in Publishers : telling'[h].event = Len(events) + 1
                              \/ telling'[h].event = telling[h].event
  BY <1>1
<1>4. QED
  BY <1>2, <1>3 DEF EventsExist, HoldsEvents

\* Steps that publish and take nothing.
LEMMA EventsStay ==
  ASSUME EventsExist, UNCHANGED events, \A b \in Agents : HoldsEvents(b)',
         \A g \in Publishers : telling'[g].event \in {0, telling[g].event}
  PROVE  EventsExist'
BY DEF EventsExist

\* What is told or held is an event, after every step.
LEMMA EventsStep ==
  ASSUME TurnInv, EventsExist, [Next]_vars
  PROVE  EventsExist'
<1>0. /\ \A b \in Agents : HoldsEvents(b)
      /\ channels.wakes \in Seq(Agents)
      /\ telling \in [ Publishers -> [ event : Nat, todo : Seq(Recipients) ] ]
  BY DEF EventsExist, TurnInv, TurnsTyped, BusTyped
<1>1. ASSUME UNCHANGED <<events, turns>>,
             \A g \in Publishers : telling'[g].event \in {0, telling[g].event}
      PROVE  EventsExist'
  BY <1>0, <1>1, EventsStay DEF HoldsEvents
<1>2. ASSUME UNCHANGED <<events, turns, telling>> PROVE EventsExist'
  BY <1>1, <1>2
<1>3. CASE Serving \/ TickMoves \/ TellOfWorker
  <2>1. CASE UNCHANGED <<turnVars, telling>>
    BY <1>2, <2>1 DEF turnVars
  <2>2. ASSUME NEW g \in Publishers, NEW kind, Publish(g, kind), UNCHANGED turns
        PROVE  EventsExist'
    BY <2>2, PublishedEventsExist
  <2>3. QED
    BY <1>3, <2>1, <2>2
       DEF Serving, ServerPublishes, ServerRereads, TickMoves, TellOfWorker,
           Publishers
<1>4. CASE \E g \in Publishers : Tell(g)
  <2>1. PICK g \in Publishers : Tell(g)
    BY <1>4
  <2> DEFINE rest == IF Len(telling[g].todo) = 1 THEN Nothing
                     ELSE [ event |-> telling[g].event,
                            todo |-> Tail(telling[g].todo) ]
  <2>2. telling' = [ telling EXCEPT ![g] = rest ] /\ UNCHANGED <<events, turns>>
    BY <2>1 DEF Tell
  <2>3. rest.event \in {0, telling[g].event}
    BY DEF Nothing
  <2> HIDE DEF rest
  <2>4. QED
    BY <1>0, <1>1, <2>2, <2>3
<1>5. CASE RestartOrchestrator
  BY <1>1, <1>5 DEF RestartOrchestrator, Nothing
<1>6. CASE \/ Disconnect /\ UNCHANGED <<turnVars, telling>>
           \/ UNCHANGED vars
           \/ \E a \in Actors :
                AgentSends(a) \/ \E b \in Agents : AgentWrites(a, b)
  BY <1>2, <1>6 DEF turnVars, vars, AgentSends, AgentWrites, Receive
<1>7. ASSUME NEW a \in Agents, NEW i \in DOMAIN turns[a], UNCHANGED telling,
             \/ CheckInbox(a, i) \/ CheckEvents(a, i) \/ Sweep(a, i)
             \/ AckTaken(a, i) \/ BeginTurn(a, i) \/ LaunchFails(a, i)
             \/ EndTurn(a, i)
      PROVE  EventsExist'
  BY <1>7, TurnsHoldEvents, EventsStay
<1>8. ASSUME NEW a \in Agents, Trigger(a), UNCHANGED <<events, telling>>
      PROVE  EventsExist'
  <2>1. \A b \in Agents : HoldsEvents(b)'
    BY <1>0, <1>8, FreshTurnsHoldNothing
  <2>2. QED
    BY <1>8, <2>1, EventsStay
<1>9. ASSUME NEW a \in Agents, NEW i \in DOMAIN turns[a], AgentEnds(a, i)
      PROVE  EventsExist'
  BY <1>7, <1>9 DEF AgentEnds
<1>10. CASE WatcherFails
  <2>1. UNCHANGED telling
    BY <1>10 DEF WatcherFails
  <2>2. CASE Shutdown
    BY <1>2, <2>1, <2>2 DEF Shutdown
  <2>3. CASE CrashWatcher
    <3>1. UNCHANGED events /\ \A b \in Agents : HoldsEvents(b)'
      BY <2>3, EmptySeq DEF CrashWatcher, HoldsEvents
    <3>2. QED
      BY <2>1, <3>1, EventsStay
  <2>4. ASSUME NEW a \in Agents, NEW i \in DOMAIN turns[a], LaunchFails(a, i)
        PROVE  EventsExist'
    BY <1>7, <2>1, <2>4
  <2>5. QED
    BY <1>10, <2>2, <2>3, <2>4 DEF WatcherFails
<1>11. CASE Quietly(PollDeliveries \/ TakeBatch \/ Wake \/ Reopen)
  <2>1. UNCHANGED telling
    BY <1>11 DEF Quietly
  <2>2. CASE PollDeliveries \/ TakeBatch \/ Reopen
    BY <1>2, <2>1, <2>2 DEF PollDeliveries, TakeBatch, Reopen
  <2>3. CASE Wake
    <3>1. Head(channels.wakes) \in Agents
      BY <1>0, <2>3, HeadTailProperties DEF Wake
    <3>2. QED
      BY <1>8, <2>1, <2>3, <3>1 DEF Wake
  <2>4. QED
    BY <1>11, <2>2, <2>3 DEF Quietly
<1>12. ASSUME NEW a \in Agents,
              Quietly(TriggerFromBatch(a) \/ PollSignal(a) \/ Prepare(a))
       PROVE  EventsExist'
  <2>1. UNCHANGED telling
    BY <1>12 DEF Quietly
  <2>2. CASE TriggerFromBatch(a)
    BY <1>8, <2>1, <2>2 DEF TriggerFromBatch
  <2>3. CASE PollSignal(a)
    BY <1>2, <2>1, <2>3 DEF PollSignal
  <2>4. CASE Prepare(a)
    BY <1>7, <2>1, <2>4 DEF Prepare
  <2>5. QED
    BY <1>12, <2>2, <2>3, <2>4 DEF Quietly
<1> QED
  BY <1>3, <1>4, <1>5, <1>6, <1>9, <1>10, <1>11, <1>12 DEF Next

-----------------------------------------------------------------------------
(* The channels *)

\* Handing on takes from the channels what it hands on.
LEMMA ShorterChannels ==
  ASSUME TurnInv, ChannelsBounded, UNCHANGED <<stopping, mail>>,
         \/ channels' = [ channels EXCEPT !.batch = Head(channels.notified),
                                          !.notified = Tail(@) ]
              /\ channels.notified # <<>>
         \/ channels' = [ channels EXCEPT !.wakes = Tail(@) ]
              /\ channels.wakes # <<>>
         \/ \E a : channels' = [ channels EXCEPT !.batch = @ \ {a} ]
         \/ UNCHANGED channels
  PROVE  ChannelsBounded'
<1>1. /\ channels \in [ notified : Seq(SUBSET Agents), batch : SUBSET Agents,
                        wakes : Seq(Agents) ]
      /\ ChannelSize \in Nat
  BY DeliveryAssumption DEF TurnInv, TurnsTyped
<1>2. /\ Len(channels.notified) \in Nat /\ Len(channels.wakes) \in Nat
      /\ channels.notified # <<>> =>
           Len(Tail(channels.notified)) = Len(channels.notified) - 1
      /\ channels.wakes # <<>> =>
           Len(Tail(channels.wakes)) = Len(channels.wakes) - 1
  BY <1>1, HeadTailProperties
<1>3. /\ Len(channels'.notified) <= ChannelSize
      /\ Len(channels'.wakes) <= ChannelSize
  <2>1. /\ channels'.notified \in {channels.notified, Tail(channels.notified)}
        /\ channels'.wakes \in {channels.wakes, Tail(channels.wakes)}
        /\ channels'.notified # channels.notified => channels.notified # <<>>
        /\ channels'.wakes # channels.wakes => channels.wakes # <<>>
    BY <1>1
  <2>2. /\ Len(channels.notified) <= ChannelSize
        /\ Len(channels.wakes) <= ChannelSize
    BY DEF ChannelsBounded
  <2>3. QED
    BY <1>1, <1>2, <2>1, <2>2
<1>4. QED
  BY <1>3 DEF ChannelsBounded

\* The channels hold no more than they take, after every step.
LEMMA ChannelsStep ==
  ASSUME TurnInv, ChannelsBounded, [Next]_vars
  PROVE  ChannelsBounded'
<1>0. /\ channels \in [ notified : Seq(SUBSET Agents), batch : SUBSET Agents,
                        wakes : Seq(Agents) ]
      /\ ChannelSize \in Nat
      /\ Len(NoChannels.notified) = 0 /\ Len(NoChannels.wakes) = 0
      /\ DOMAIN NoChannels = {"notified", "batch", "wakes"}
  BY DeliveryAssumption DEF TurnInv, TurnsTyped, NoChannels
<1>1. ASSUME UNCHANGED <<channels, mail, stopping>> PROVE ChannelsBounded'
  BY <1>1 DEF ChannelsBounded
<1>2. CASE \/ Serving \/ TickMoves \/ TellOfWorker \/ RestartOrchestrator
           \/ \E g \in Publishers : Tell(g)
           \/ Disconnect /\ UNCHANGED <<turnVars, telling>>
           \/ UNCHANGED vars
           \/ \E a \in Actors : AgentSends(a)
  BY <1>1, <1>2
     DEF Serving, ServerPublishes, ServerRereads, TickMoves, TellOfWorker,
         RestartOrchestrator, Tell, turnVars, vars, AgentSends
<1>3. ASSUME NEW a \in Agents, NEW urgent \in BOOLEAN, Receive(a, urgent)
      PROVE  ChannelsBounded'
  <2>1. /\ mail \in [ Agents -> [ unread : BOOLEAN, signal : BOOLEAN ] ]
        /\ mail' = [ mail EXCEPT ![a] = [ unread |-> TRUE,
                                          signal |-> @.signal \/ urgent ] ]
    BY <1>3 DEF ChannelsBounded, Receive
  <2>2. (mail[a].signal \/ urgent) \in BOOLEAN
    BY <2>1
  <2> DEFINE signal == mail[a].signal \/ urgent
  <2> HIDE DEF signal
  <2>3. signal \in BOOLEAN
    BY <2>2 DEF signal
  <2>4. mail' = [ mail EXCEPT ![a] = [ unread |-> TRUE, signal |-> signal ] ]
    BY <2>1 DEF signal
  <2>5. mail' \in [ Agents -> [ unread : BOOLEAN, signal : BOOLEAN ] ]
    BY <2>1, <2>3, <2>4
  <2>6. QED
    BY <1>3, <2>5 DEF Receive, ChannelsBounded
<1>4. ASSUME NEW a \in Actors, NEW b \in Agents, AgentWrites(a, b)
      PROVE  ChannelsBounded'
  BY <1>3, <1>4 DEF AgentWrites
<1>5. CASE WatcherFails
  <2>1. CASE Shutdown
    BY <1>0, <2>1 DEF Shutdown, ChannelsBounded
  <2>2. CASE CrashWatcher
    <3>1. channels' = NoChannels /\ stopping' = FALSE /\ UNCHANGED mail
      BY <2>2 DEF CrashWatcher
    <3>2. /\ Len(channels'.notified) <= ChannelSize
          /\ Len(channels'.wakes) <= ChannelSize
      BY <1>0, <3>1
    <3>3. QED
      BY <3>1, <3>2 DEF ChannelsBounded
  <2>3. ASSUME NEW a \in Agents, NEW i, LaunchFails(a, i)
        PROVE  ChannelsBounded'
    BY <1>1, <2>3 DEF LaunchFails
  <2>4. QED
    BY <1>5, <2>1, <2>2, <2>3 DEF WatcherFails
<1>6. ASSUME NEW a \in Agents, NEW i, AgentEnds(a, i)
      PROVE  ChannelsBounded'
  BY <1>1, <1>6 DEF AgentEnds, EndTurn
<1>7. CASE PollDeliveries
  <2> DEFINE waiting == { a \in Agents : bus[a].unacked # {} }
  <2>1. /\ channels' = [ channels EXCEPT !.notified = Append(@, waiting) ]
        /\ Len(channels.notified) < ChannelSize
        /\ UNCHANGED <<mail, stopping>>
    BY <1>7 DEF PollDeliveries
  <2>2. Len(Append(channels.notified, waiting)) = Len(channels.notified) + 1
    BY <1>0, AppendProperties
  <2> HIDE DEF waiting
  <2>3. /\ Len(channels'.notified) <= ChannelSize
        /\ channels'.wakes = channels.wakes
    BY <1>0, <2>1, <2>2
  <2>4. QED
    BY <2>1, <2>3 DEF ChannelsBounded
<1>8. CASE TakeBatch \/ Wake
  BY <1>8, ShorterChannels DEF TakeBatch, Wake
<1>9. CASE Reopen
  BY <1>0, <1>9 DEF Reopen, ChannelsBounded
<1>10. ASSUME NEW a \in Agents, TriggerFromBatch(a) PROVE ChannelsBounded'
  BY <1>10, ShorterChannels DEF TriggerFromBatch
<1>11. ASSUME NEW a \in Agents, PollSignal(a) PROVE ChannelsBounded'
  <2>1. /\ mail \in [ Agents -> [ unread : BOOLEAN, signal : BOOLEAN ] ]
        /\ mail' = [ mail EXCEPT ![a].signal = FALSE ]
        /\ UNCHANGED stopping
    BY <1>11 DEF ChannelsBounded, PollSignal
  <2>2. mail' \in [ Agents -> [ unread : BOOLEAN, signal : BOOLEAN ] ]
    BY <2>1
  <2>3. CASE Len(channels.wakes) < ChannelSize
    <3>1. channels' = [ channels EXCEPT !.wakes = Append(@, a) ]
      BY <1>11, <2>3 DEF PollSignal
    <3>2. Len(Append(channels.wakes, a)) = Len(channels.wakes) + 1
      BY <1>0, AppendProperties
    <3>3. /\ Len(channels'.wakes) <= ChannelSize
          /\ channels'.notified = channels.notified
      BY <1>0, <2>3, <3>1, <3>2
    <3>4. QED
      BY <2>1, <2>2, <3>3 DEF ChannelsBounded
  <2>4. CASE ~(Len(channels.wakes) < ChannelSize)
    BY <1>11, <2>1, <2>2, <2>4 DEF PollSignal, ChannelsBounded
  <2>5. QED
    BY <2>3, <2>4
<1>12. ASSUME NEW a \in Agents, Prepare(a) PROVE ChannelsBounded'
  <2>1. ASSUME NEW i, BeginTurn(a, i) PROVE ChannelsBounded'
    <3>1. /\ mail \in [ Agents -> [ unread : BOOLEAN, signal : BOOLEAN ] ]
          /\ mail' = [ mail EXCEPT ![a].unread = FALSE ]
          /\ UNCHANGED <<channels, stopping>>
      BY <2>1 DEF ChannelsBounded, BeginTurn
    <3>2. mail' \in [ Agents -> [ unread : BOOLEAN, signal : BOOLEAN ] ]
      BY <3>1
    <3>3. QED
      BY <3>1, <3>2 DEF ChannelsBounded
  <2>2. ASSUME NEW i, \/ CheckInbox(a, i) \/ CheckEvents(a, i) \/ Sweep(a, i)
                      \/ AckTaken(a, i) \/ LaunchFails(a, i)
        PROVE  ChannelsBounded'
    BY <1>1, <2>2 DEF CheckInbox, CheckEvents, Sweep, AckTaken, LaunchFails
  <2>3. QED
    BY <1>12, <2>1, <2>2 DEF Prepare
<1> QED
  BY <1>2, <1>4, <1>5, <1>6, <1>7, <1>8, <1>9, <1>10, <1>11, <1>12
  DEF Next, Quietly

-----------------------------------------------------------------------------
(* The theorem *)

\* At first there are no events and no requests.
LEMMA StartsWithTypes == Init => ControlInv
<1> SUFFICES ASSUME Init PROVE ControlInv  OBVIOUS
<1>1. GuardInv /\ TurnInv
  BY StartsInInvariant, StartsQuiet
<1>2. DeliveredOnce
  BY EmptySeq DEF Init, TurnInit, DeliveredOnce, Nothing
<1>3. ChannelsBounded
  <2>1. mail \in [ Agents -> [ unread : BOOLEAN, signal : BOOLEAN ] ]
    BY DEF Init, TurnInit
  <2>2. stopping \in BOOLEAN /\ ChannelSize \in Nat
    BY DeliveryAssumption DEF Init, TurnInit
  <2>3. channels = NoChannels
    BY DEF Init, TurnInit
  <2>4. Len(channels.notified) = 0 /\ Len(channels.wakes) = 0
    BY <2>3 DEF NoChannels
  <2>5. QED
    BY <2>1, <2>2, <2>4 DEF ChannelsBounded
<1>4. EventsExist
  BY EmptySeq DEF Init, TurnInit, EventsExist, HoldsEvents, Nothing
<1> QED  BY <1>1, <1>2, <1>3, <1>4 DEF ControlInv

\* The guard, the turns and the deliveries keep their invariants together: no
\* event is delivered twice, no channel overflows, and whatever is told or held
\* was published.
THEOREM ControlCorrectness == Spec => []ControlInv
<1>1. ControlInv /\ [Next]_vars => ControlInv'
  BY StepKeeps, TurnsStep, DeliveriesStep, EventsStep, ChannelsStep
  DEF ControlInv
<1> QED  BY <1>1, StartsWithTypes, PTL DEF Spec

\* A sequence that is a set's is one of those of its elements.
LEMMA ElementsOfSeq ==
  ASSUME NEW S, NEW s \in Seq(S)
  PROVE  ToSet(s) \subseteq S
BY DEF ToSet

\* A sequence of turns that hold events of the bus.
LEMMA TurnsWithEvents ==
  ASSUME NEW E, NEW s \in Seq(Turn), \A i \in DOMAIN s : s[i].held \subseteq E
  PROVE  s \in Seq([ pc : {"check", "events", "sweep", "ack", "launch", "turn"},
                     held : SUBSET E ])
<1> DEFINE R == [ pc : {"check", "events", "sweep", "ack", "launch", "turn"},
                  held : SUBSET E ]
<1>1. \A i \in 1 .. Len(s) : s[i] \in R
  <2>1. DOMAIN s = 1 .. Len(s) /\ \A i \in DOMAIN s : s[i] \in Turn
    OBVIOUS
  <2>2. \A t \in Turn : t.held \subseteq E => t \in R
    BY DEF Turn
  <2>3. QED
    BY <2>1, <2>2
<1>2. s \in [ 1 .. Len(s) -> R ] /\ Len(s) \in Nat
  BY <1>1
<1> HIDE DEF R
<1>3. s \in Seq(R)
  BY <1>2, SeqDef
<1> QED  BY <1>3 DEF R

\* The state of the control plane has its types, the channels their bounds, no
\* delivery is both acknowledged and not, and a request that is connected is
\* awaited, in every behaviour.
THEOREM ControlTypes == Spec => []ControlTypeOK
<1>1. ASSUME ControlInv PROVE ControlTypeOK
  <2>1. GuardTyped /\ ServerWorks /\ BusTyped /\ TurnsTyped /\ DeliveredOnce
        /\ ChannelsBounded /\ EventsExist
    BY <1>1 DEF ControlInv, GuardInv, TurnInv
  <2>2. /\ {version, held, rewinds} \subseteq Nat /\ stopping \in BOOLEAN
        /\ effects \in Seq(RequestType)
        /\ server \in ServerRow /\ clients \in [ Actors -> ClientRow ]
        /\ \A key \in DOMAIN ledger :
             ledger[key] \in [ request : RequestType, epoch : 0 .. rewinds,
                               outcome : Outcomes \cup {"pending"} ]
    <3>1. \A key \in DOMAIN ledger : ledger[key] \in Recorded
      BY <2>1 DEF GuardTyped
    <3>2. \A key \in DOMAIN ledger : ledger[key].epoch <= rewinds
      BY <1>1 DEF ControlInv, GuardInv, EffectsAreRecorded
    <3>3. rewinds \in Nat
      BY <2>1 DEF GuardTyped
    <3>4. \A key \in DOMAIN ledger : ledger[key].epoch \in 0 .. rewinds
      BY <3>1, <3>2, <3>3 DEF Recorded
    <3>5. QED
      BY <2>1, <3>1, <3>4 DEF GuardTyped, ChannelsBounded, Recorded
  <2>3. \A r \in DOMAIN bus :
          /\ bus[r].unacked \cup bus[r].acked \subseteq DOMAIN events
          /\ bus[r].unacked \cap bus[r].acked = {}
    BY <2>1 DEF BusTyped, DeliveredOnce
  <2>4. /\ \A ns \in ToSet(channels.notified) \cup {channels.batch} :
             ns \subseteq Agents
        /\ ToSet(channels.wakes) \subseteq Agents
    <3>1. /\ channels.notified \in Seq(SUBSET Agents)
          /\ channels.batch \subseteq Agents /\ channels.wakes \in Seq(Agents)
      BY <2>1 DEF TurnsTyped
    <3>2. /\ ToSet(channels.notified) \subseteq SUBSET Agents
          /\ ToSet(channels.wakes) \subseteq Agents
      BY <3>1, ElementsOfSeq
    <3>3. QED
      BY <3>1, <3>2
  <2>5. \A a \in Agents : turns[a] \in
          Seq([ pc : {"check", "events", "sweep", "ack", "launch", "turn"},
                held : SUBSET DOMAIN events ])
    <3>1. \A a \in Agents : turns[a] \in Seq(Turn)
      BY <2>1 DEF TurnsTyped
    <3>2. \A a \in Agents : \A i \in DOMAIN turns[a] :
            turns[a][i].held \subseteq DOMAIN events
      BY <2>1 DEF EventsExist, HoldsEvents
    <3>3. QED
      BY <3>1, <3>2, TurnsWithEvents
  <2>6. \A g \in Publishers : /\ telling[g].event \in {0} \cup DOMAIN events
                              /\ telling[g].todo \in Seq(Recipients)
    BY <2>1 DEF BusTyped, EventsExist
  <2>7. server.live => clients[server.request.actor].pc = "sent"
    BY <2>1 DEF ServerWorks
  <2>8. events \in Seq(Kinds)
    BY <2>1 DEF BusTyped
  <2>9. /\ mail \in [ Agents -> [ unread : BOOLEAN, signal : BOOLEAN ] ]
        /\ Len(channels.notified) <= ChannelSize
        /\ Len(channels.wakes) <= ChannelSize
        /\ sched \in [ Agents -> [ running : BOOLEAN, queued : BOOLEAN ] ]
    BY <2>1 DEF ChannelsBounded, TurnsTyped
  <2>10. QED
    BY <2>2, <2>3, <2>4, <2>5, <2>6, <2>7, <2>8, <2>9
    DEF ControlTypeOK, ServerRow, ClientRow
<1>2. QED  BY <1>1, ControlCorrectness, PTL

=============================================================================
