---------------------------- MODULE MutationGuard ----------------------------
(***************************************************************************)
(* Guarded mutations of one task: the client that sends them               *)
(* (pkg/orchclient/gate.go) and the ledger that answers them               *)
(* (internal/orchhttp/mutation_guard.go, gate_handlers.go).                *)
(*                                                                         *)
(* One mutex serialises all guarded requests.  Each leaves a pending record *)
(* before its handler runs, and the handler itself compares only what it   *)
(* read, not what the client observed.  The bookkeeping uses the context   *)
(* of the connection, so that a client who leaves keeps the record pending *)
(* whatever the handler did.                                               *)
(*                                                                         *)
(* The tick moves the task too, by comparing the version it loaded or by   *)
(* writing back the whole row as it loaded it, with its old version.  When *)
(* it loaded is left open: at any time since it last wrote the row.        *)
(***************************************************************************)
EXTENDS Naturals, Sequences, FiniteSets, SequencesExt

CONSTANTS
  Actors,     \* who sends mutations
  MaxInputs,  \* bounds of the checked instance: requests, messages and moves
              \* of the tick,
  MaxFaults   \* lost connections, restarts, turns that do not start

ASSUME GuardAssumption ==
  /\ Actors # {}
  /\ {MaxInputs, MaxFaults} \subseteq Nat

VARIABLES
  version,  \* state_version of the task
  held,     \* the oldest version in a row that the tick may work with
  rewinds,  \* history: how often the tick wrote another version back
  ledger,   \* task_mutation_records: what was asked under a key, its outcome,
            \* and (history) the rewinds there had been before
  server,   \* the request that holds mutationMu, and where it is
  clients,  \* the request each actor waits for
  effects,  \* history: the requests whose handler committed, in order
  used      \* how much of the bounds is used up

tickVars == <<held, rewinds>>
guardVars == <<version, tickVars, ledger, server, clients, effects, used>>

-----------------------------------------------------------------------------

\* A client derives the key from who asks for what on which version, or is
\* given one explicitly.
ExplicitKey == [ actor |-> "explicit", observed |-> 0 ]
DerivedKey(a, observed) == [ actor |-> a, observed |-> observed ]

Request(a, key, observed) ==
  [ actor |-> a, key |-> key, observed |-> observed ]

NoRequest == Request("none", ExplicitKey, 0)
Free == [ pc |-> "free", request |-> NoRequest, live |-> FALSE,
          outcome |-> "none" ]
NotAsking == [ pc |-> "idle", request |-> NoRequest, resent |-> FALSE,
               answer |-> "none" ]

\* Of an answer in the two hundreds the body says whether anything was done.
Outcomes == {"succeeded", "nothing", "failed"}
Answers == Outcomes \cup {"stale", "conflict", "uncertain", "lost"}

GuardInit ==
  /\ version = 1
  /\ held = 1 /\ rewinds = 0
  /\ ledger = <<>>
  /\ server = Free
  /\ clients = [ a \in Actors |-> NotAsking ]
  /\ effects = <<>>
  /\ used = [ inputs |-> 0, faults |-> 0 ]

Input ==
  /\ used.inputs < MaxInputs
  /\ used' = [ used EXCEPT !.inputs = @ + 1 ]

Fault ==
  /\ used.faults < MaxFaults
  /\ used' = [ used EXCEPT !.faults = @ + 1 ]

-----------------------------------------------------------------------------
(* The client *)

Send(a) ==
  /\ clients[a].pc # "sent"
  /\ Input
  /\ \E key \in {ExplicitKey, DerivedKey(a, version)} :
       clients' = [ clients EXCEPT ![a] =
         [ NotAsking EXCEPT !.pc = "sent",
                            !.request = Request(a, key, version) ] ]
  /\ UNCHANGED <<version, tickVars, ledger, server, effects>>

\* The answer of the server, or of the transport.
Answered(a, answer) ==
  [ clients EXCEPT ![a].pc = "answered", ![a].answer = answer ]

\* A connection that breaks is tried once more, with the same key.
Broken(a) ==
  IF clients[a].resent THEN Answered(a, "lost")
                       ELSE [ clients EXCEPT ![a].resent = TRUE ]

Disconnect ==
  /\ server.live
  /\ Fault
  /\ clients' = Broken(server.request.actor)
  /\ server' = IF server.pc = "answer" THEN Free
               ELSE [ server EXCEPT !.live = FALSE ]
  /\ UNCHANGED <<version, tickVars, ledger, effects>>

-----------------------------------------------------------------------------
(* The ledger *)

\* The record is there before the handler runs.
Claim(request) ==
  /\ ledger' = [ key \in DOMAIN ledger \cup {request.key} |->
                   IF key = request.key
                   THEN [ request |-> request, outcome |-> "pending",
                          epoch |-> rewinds ]
                   ELSE ledger[key] ]
  /\ server' = [ pc |-> "handle", request |-> request, live |-> TRUE,
                 outcome |-> "none" ]

\* Mutant: a key that was used for another request counts as new.
KnownOfSame(request) ==
  LET record == ledger[request.key]
  IN IF request.key \in DOMAIN ledger /\ record.request = request
     THEN IF record.outcome = "pending" THEN "uncertain" ELSE record.outcome
     ELSE IF request.observed # version THEN "stale" ELSE "new"

\* Mutant: a key answers whatever is asked under it.
KnownWhateverIsAsked(request) ==
  LET record == ledger[request.key]
  IN IF request.key \in DOMAIN ledger
     THEN IF record.outcome = "pending" THEN "uncertain" ELSE record.outcome
     ELSE IF request.observed # version THEN "stale" ELSE "new"

\* What is known of a request without running it.
Known(request) ==
  LET record == ledger[request.key]
  IN IF request.key \notin DOMAIN ledger
     THEN IF request.observed # version THEN "stale" ELSE "new"
     ELSE IF record.request # request THEN "conflict"
     ELSE IF record.outcome = "pending" THEN "uncertain" ELSE record.outcome

Accept(a) ==
  /\ server.pc = "free" /\ clients[a].pc = "sent"
  /\ LET request == clients[a].request
     IN IF Known(request) = "new"
        THEN Claim(request) /\ UNCHANGED clients
        ELSE /\ clients' = Answered(a, Known(request))
             /\ UNCHANGED <<ledger, server>>
  /\ UNCHANGED <<version, tickVars, effects, used>>

\* Mutant: what is committed leaves the version alone.
CommitUnversioned ==
  /\ server.pc = "handle"
  /\ effects' = Append(effects, server.request)
  /\ \E pc \in {"publish", "reread", "record"} :
       server' = [ server EXCEPT !.pc = pc, !.outcome = "succeeded" ]
  /\ UNCHANGED <<version, tickVars, ledger, clients, used>>

\* The handler commits: the version it compares is one it read itself.  Most
\* changes of status are published, archiving only reads the task again, and a
\* comment or an audit event does neither.
Commit ==
  /\ server.pc = "handle"
  /\ version' = version + 1
  /\ effects' = Append(effects, server.request)
  /\ \E pc \in {"publish", "reread", "record"} :
       server' = [ server EXCEPT !.pc = pc, !.outcome = "succeeded" ]
  /\ UNCHANGED <<tickVars, ledger, clients, used>>

\* It refuses: the status does not fit, or the task moved on while it worked; or
\* it answers that there was nothing to do, as for an archived task or a recovery
\* that is not safe.
Refuse ==
  /\ server.pc = "handle"
  /\ \E outcome \in {"failed", "nothing"} :
       server' = [ server EXCEPT !.pc = "record", !.outcome = outcome ]
  /\ UNCHANGED <<version, tickVars, ledger, clients, effects, used>>

\* After a change of status the task is read again for the answer, which may
\* fail.
Reread ==
  /\ server.pc = "reread"
  /\ \/ server' = [ server EXCEPT !.pc = "record" ] /\ UNCHANGED used
     \/ Fault /\ server' = [ server EXCEPT !.pc = "record", !.outcome = "failed" ]
  /\ UNCHANGED <<version, tickVars, ledger, clients, effects>>

\* Mutant: a request whose connection is gone keeps the mutex.
RecordIfConnected ==
  /\ server.pc = "record" /\ server.live
  /\ ledger' = [ ledger EXCEPT
       ![server.request.key].outcome = server.outcome ]
  /\ server' = [ server EXCEPT !.pc = "answer" ]
  /\ UNCHANGED <<version, tickVars, clients, effects, used>>

\* The outcome is recorded, unless the connection is gone.
Record ==
  /\ server.pc = "record"
  /\ IF server.live
     THEN /\ ledger' = [ ledger EXCEPT
               ![server.request.key].outcome = server.outcome ]
          /\ server' = [ server EXCEPT !.pc = "answer" ]
     ELSE server' = Free /\ UNCHANGED ledger
  /\ UNCHANGED <<version, tickVars, clients, effects, used>>

Answer ==
  /\ server.pc = "answer"
  /\ clients' = Answered(server.request.actor, server.outcome)
  /\ server' = Free
  /\ UNCHANGED <<version, tickVars, ledger, effects, used>>

\* The process ends, and with it the request it serves and the row it held.
RestartServer ==
  /\ Fault
  /\ clients' = IF server.live THEN Broken(server.request.actor) ELSE clients
  /\ server' = Free
  /\ held' = version
  /\ UNCHANGED <<version, rewinds, ledger, effects>>

-----------------------------------------------------------------------------
(* The tick *)

\* A transition fails if the version is no longer the one that was loaded, and
\* changes nothing then.
TickTransition ==
  /\ Input
  /\ version' = version + 1 /\ held' = version'
  /\ UNCHANGED <<rewinds, ledger, server, clients, effects>>

\* db.Save writes all columns of a row that was loaded minutes ago, and compares
\* nothing.
TickSaves ==
  /\ version' \in held .. version - 1
  /\ held' = version' /\ rewinds' = rewinds + 1
  /\ UNCHANGED <<ledger, server, clients, effects, used>>

-----------------------------------------------------------------------------

Serve ==
  \/ \E a \in Actors : Accept(a)
  \/ Commit \/ Refuse \/ Record \/ Answer

-----------------------------------------------------------------------------
(* Safety *)

\* Whatever is resent, after whatever was lost, the handlers of the requests
\* under one key commit at most once (guardTaskMutation: the pending record
\* before dispatch).
OneEffectPerKey ==
  \A i, j \in DOMAIN effects :
    effects[i].key = effects[j].key => i = j

\* Optimistic concurrency: of several clients who looked at the same version of a
\* task only one has its way (guardTaskMutation).  It fails: the tick may write
\* back the row with the version they looked at.
OneEffectPerVersion ==
  \A i, j \in DOMAIN effects :
    effects[i].observed = effects[j].observed => i = j

\* What is left of it: though the handlers do not look at what was observed, and
\* transitions of the tick come between, of the requests on one version that are
\* admitted between two of those writes only one has its way
\* (runGuardedTaskMutation: the version check under the mutex).
OneEffectBetweenRewinds ==
  \A i, j \in DOMAIN effects :
    /\ effects[i].observed = effects[j].observed
    /\ ledger[effects[i].key].epoch = ledger[effects[j].key].epoch
    => i = j

\* A client that is told success has had its way, and one that is told that
\* nothing was done, that it was too late or reused a key has not
\* (replayMutationResponse).  "failed", "uncertain" and "lost" leave it open.
AnswersAreTrue ==
  \A a \in Actors :
    LET done == clients[a].request \in ToSet(effects)
    IN /\ clients[a].answer = "succeeded" => done
       /\ clients[a].answer \in {"nothing", "stale", "conflict"} => ~done

=============================================================================
