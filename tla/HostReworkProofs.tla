-------------------------- MODULE HostReworkProofs --------------------------
(***************************************************************************)
(* Host rework is exclusive, every transition is one the state machine     *)
(* accepts, and artifacts are built on their base and repairs on what they *)
(* repair: theorems about Delivery, for every value of its constants.      *)
(***************************************************************************)
EXTENDS DeliveryProofs

-----------------------------------------------------------------------------
(* The steps that take the task from one status to another, and those that *)
(* leave it where it is                                                    *)

\* Steps that write neither the status, artifacts nor sessions.
Resting ==
  \/ StartRework \/ BeginGate \/ DiscardGateResult \/ FinishSubtasks
  \/ ComposeRequest \/ CommentTask \/ BranchAdvances \/ TargetAdvances \/ Crash

\* A step that rests leaves the status and the rows that matter here alone.
LEMMA RestingEffect ==
  ASSUME TypeInv, Resting
  PROVE  /\ task'.status = task.status
         /\ UNCHANGED <<artifacts, sessions, attempt>>
<1>1. CASE CommentTask
  BY <1>1, StayTypes DEF CommentTask, TypeInv
<1>2. CASE ~CommentTask
  BY <1>2 DEF Resting, StartRework, BeginGate, DiscardGateResult,
     FinishSubtasks, ComposeRequest, BranchAdvances, TargetAdvances, Crash
<1>3. QED
  BY <1>1, <1>2

\* Steps of the tick and of workers on a task that is not in host_rework.
Moving ==
  \/ FinishQuickFix \/ FailWork \/ PrepareDelivery \/ FailEmptyFeature
  \/ FailOnConstraints \/ PauseOnConstraints \/ ProcessQuickFix
  \/ BeginGateMismatch \/ FreezeDeliveryArtifact
  \/ RecordPreliminaryGateFailure \/ RetryPausedPreliminaryGate \/ ResumeTask
  \/ RetryTask

\* Where such a step leads: neither into host_rework nor out of it, by a
\* transition the machine has.
LEMMA MovingEffect ==
  ASSUME TypeInv, Moving
  PROVE  /\ task'.status \in ValidTransitions[task.status]
         /\ {task.status, task'.status} \cap {"host_rework"} = {}
         /\ UNCHANGED <<sessions, attempt>>
<1>1. CASE FinishQuickFix \/ FailWork \/ PrepareDelivery \/ FailEmptyFeature
           \/ FailOnConstraints \/ PauseOnConstraints
  <2>1. /\ task.status = "in_progress"
        /\ task'.status \in {"testing_ready", "failed", "paused"}
    BY <1>1, MoveToTypes
    DEF FinishQuickFix, FailWork, PrepareDelivery, FailEmptyFeature,
        FailOnConstraints, PauseOnConstraints, TypeInv, TaskStatus
  <2>2. UNCHANGED <<sessions, attempt>>
    BY <1>1 DEF FinishQuickFix, FailWork, PrepareDelivery, FailEmptyFeature,
                FailOnConstraints, PauseOnConstraints
  <2>3. QED
    BY <2>1, <2>2 DEF ValidTransitions
<1>2. CASE BeginGateMismatch \/ FreezeDeliveryArtifact
  <2>1. /\ task.status = "testing_ready"
        /\ task'.status \in {"paused", "verification_ready"}
        /\ UNCHANGED <<sessions, attempt>>
    BY <1>2, MoveToTypes
    DEF BeginGateMismatch, FreezeDeliveryArtifact, TypeInv, TaskStatus
  <2>2. QED
    BY <2>1 DEF ValidTransitions
<1>3. CASE RecordPreliminaryGateFailure
  <2>1. PICK outcome \in GateFailures : MoveTo(FailureTarget(outcome))
    BY <1>3 DEF RecordPreliminaryGateFailure
  <2>2. FailureTarget(outcome) \in {"in_progress", "paused"}
    BY DEF FailureTarget
  <2>3. task'.status \in {"in_progress", "paused"}
    BY <2>1, <2>2, MoveToTypes DEF TypeInv, TaskStatus
  <2>4. QED
    BY <1>3, <2>3 DEF RecordPreliminaryGateFailure, ValidTransitions
<1>4. CASE RetryPausedPreliminaryGate \/ ResumeTask
  <2>1. /\ task.status = "paused"
        /\ task'.status \in {"testing_ready", "backlog"}
        /\ UNCHANGED <<sessions, attempt>>
    BY <1>4, MoveToTypes
    DEF RetryPausedPreliminaryGate, ResumeTask, TypeInv, TaskStatus
  <2>2. QED
    BY <2>1 DEF ValidTransitions
<1>5. CASE ProcessQuickFix \/ RetryTask
  <2>1. \/ task.status = "backlog" /\ task'.status = "in_progress"
        \/ task.status = "failed" /\ task'.status = "backlog"
    BY <1>5 DEF ProcessQuickFix, RetryTask, TypeInv, TypeOK, TaskRow
  <2>2. UNCHANGED <<sessions, attempt>>
    BY <1>5 DEF ProcessQuickFix, RetryTask
  <2>3. QED
    BY <2>1, <2>2 DEF ValidTransitions
<1>6. QED
  BY <1>1, <1>2, <1>3, <1>4, <1>5 DEF Moving

\* Steps of clients and policies on a parked delivery.
Deciding(a) ==
  \/ \E key : \/ VerifyPassed(a, key) \/ AuthorizeIntegration(a, key)
              \/ RejectDriftedArtifact(a, key)
  \/ \E key, actor, mode : \/ VerifyFailed(a, mode, actor, key)
                           \/ RequestDeliveryRework(a, mode, actor, key)

\* Steps that close a session.
Closing(s) ==
  \E actor, commit :
    SubmitHostRework(s, actor, commit) \/ AbandonHostRework(s, actor)

\* There are no other steps.
LEMMA StepsOfDelivery ==
  ASSUME Next
  PROVE  \/ Resting \/ Moving \/ Archive
         \/ \E a \in CurrentArtifacts : Deciding(a)
         \/ \E s \in ActiveSessions : Closing(s)
<1>1. CASE StartTickStep
  <2>1. CASE ProcessVerificationReady \/ ProcessIntegrationReady
    BY <2>1 DEF ProcessVerificationReady, ProcessIntegrationReady, Deciding
  <2>2. QED
    BY <1>1, <2>1 DEF StartTickStep, Resting, Moving
<1>2. CASE DeliverRequest
  <2>1. PICK i \in DOMAIN requests :
          \/ DeliverVerify(i) \/ DeliverFail(i) \/ DeliverRework(i)
          \/ DeliverIntegrate(i) \/ DeliverSubmit(i) \/ DeliverAbandon(i)
    BY <1>2 DEF DeliverRequest
  <2>2. CASE DeliverVerify(i) \/ DeliverIntegrate(i)
    BY <2>2 DEF DeliverVerify, DeliverIntegrate, MatchesArtifact, Deciding
  <2>3. CASE DeliverFail(i) \/ DeliverRework(i)
    BY <2>3 DEF DeliverFail, DeliverRework, MatchesArtifact, Deciding
  <2>4. CASE DeliverSubmit(i)
    BY <2>4 DEF DeliverSubmit, SubmitHostRework, OwnsSession, Closing
  <2>5. CASE DeliverAbandon(i)
    BY <2>5 DEF DeliverAbandon, AbandonHostRework, OwnsSession, Closing
  <2>6. QED
    BY <2>1, <2>2, <2>3, <2>4, <2>5
<1>3. CASE Next /\ ~StartTickStep /\ ~DeliverRequest
  BY <1>3 DEF Next, EndGate, WorkerStep, ClientStep, OperatorStep, WorldStep,
              Resting, Moving
<1>4. QED
  BY <1>1, <1>2, <1>3

-----------------------------------------------------------------------------
(* Transitions                                                             *)

\* A decision moves a parked delivery along the machine.
LEMMA DecidingMoves ==
  ASSUME TypeInv, NEW a \in CurrentArtifacts, Deciding(a)
  PROVE  /\ task.status \in {"verification_ready", "integration_ready"}
         /\ task'.status \in ValidTransitions[task.status]
<1>1. CASE \E key : VerifyPassed(a, key)
  <2>1. /\ task.status = "verification_ready"
        /\ task'.status = "integration_ready"
    BY <1>1, MoveToTypes DEF VerifyPassed, TypeInv, TaskStatus
  <2>2. QED
    BY <2>1 DEF ValidTransitions
<1>2. CASE \E key : \/ AuthorizeIntegration(a, key)
                    \/ RejectDriftedArtifact(a, key)
  <2>1. /\ task.status = "integration_ready"
        /\ task'.status \in {"merging", "in_progress"}
    BY <1>2, MoveToTypes
    DEF AuthorizeIntegration, RejectDriftedArtifact, CanAuthorize, TypeInv,
        TaskStatus
  <2>2. QED
    BY <2>1 DEF ValidTransitions
<1>3. CASE \E key, actor, mode :
             \/ VerifyFailed(a, mode, actor, key)
             \/ RequestDeliveryRework(a, mode, actor, key)
  <2>1. /\ task.status \in {"verification_ready", "integration_ready"}
        /\ task'.status \in {"host_rework", "in_progress"}
    BY <1>3, MoveToTypes
    DEF VerifyFailed, RequestDeliveryRework, SendBack, TypeInv, TaskStatus
  <2>2. QED
    BY <2>1 DEF ValidTransitions
<1>4. QED
  BY <1>1, <1>2, <1>3 DEF Deciding

\* The end of a session gives the task back.
LEMMA ClosingMoves ==
  ASSUME TypeInv, NEW s \in ActiveSessions, Closing(s)
  PROVE  /\ task.status = "host_rework"
         /\ task'.status \in {"testing_ready", "in_progress"}
         /\ UNCHANGED <<artifacts, attempt>>
BY MoveToTypes
DEF Closing, SubmitHostRework, AbandonHostRework, OwnsSession, TypeInv,
    TaskStatus

\* What may be archived may be cancelled.
LEMMA ArchiveMoves ==
  ASSUME TypeInv, Archive
  PROVE  /\ task'.status = "cancelled"
         /\ task'.status \in ValidTransitions[task.status]
<1>1. task'.status = "cancelled" /\ task.status \in ArchiveAllowed
  BY MoveToTypes DEF Archive, TypeInv, TaskStatus
<1>2. QED
  BY <1>1 DEF ArchiveAllowed, ValidTransitions

\* No step asks the state machine for a transition it rejects.
LEMMA TransitionStep ==
  ASSUME TypeInv, [Next]_vars, task'.status # task.status
  PROVE  task'.status \in ValidTransitions[task.status]
<1>1. CASE UNCHANGED vars
  BY <1>1 DEF vars
<1>2. CASE \E s \in ActiveSessions : Closing(s)
  <2>1. /\ task.status = "host_rework"
        /\ task'.status \in {"testing_ready", "in_progress"}
    BY <1>2, ClosingMoves
  <2>2. QED
    BY <2>1 DEF ValidTransitions
<1>3. QED
  BY <1>1, <1>2, StepsOfDelivery, RestingEffect, MovingEffect, DecidingMoves,
     ArchiveMoves

\* In every behaviour, whatever clients, operators and the tick do to each
\* other, a handler asks only for transitions the status machine accepts, so
\* that none loses the evidence it writes with them.
THEOREM TransitionsAreLegal == Spec => TransitionsAreValid
<1>1. TypeInv /\ [Next]_vars =>
        [task'.status # task.status
           => task'.status \in ValidTransitions[task.status]]_vars
  BY TransitionStep
<1>2. QED
  BY <1>1, TypeCorrectness, PTL DEF Spec, TransitionsAreValid

-----------------------------------------------------------------------------
(* Host rework                                                             *)
(*                                                                         *)
(* The property is inductive with OneCurrent of the evidence: the artifact *)
(* that is sent back is the newest.  MergeProofs uses the lemmas again,    *)
(* where there are merger attempts.                                        *)

\* No session at the start.
LEMMA HostReworkInit == Init => HostReworkIsExclusive
BY DEF Init, HostReworkIsExclusive, ActiveSessions

\* Where no session was or is due, artifacts and attempts may change.
LEMMA NoSession ==
  ASSUME HostReworkIsExclusive, UNCHANGED sessions,
         {task.status, task'.status} \cap {"host_rework"} = {}
  PROVE  HostReworkIsExclusive'
BY DEF HostReworkIsExclusive, ActiveSessions

\* A session that ends is no longer active, and no other becomes so.
LEMMA SessionEnds ==
  ASSUME TypeInv, HostReworkIsExclusive, task.status = "host_rework",
         task'.status # "host_rework", UNCHANGED attempt,
         NEW s \in ActiveSessions,
         NEW state \in SessionState \ {"active"},
         NEW replacement \in CommitOrNone,
         ResolveSession(s, state, replacement)
  PROVE  HostReworkIsExclusive'
<1>1. sessions \in Seq(Session) /\ sessions' \in Seq(Session)
  BY ResolveSessionTypes DEF TypeInv, TypeOK
<1>2. s = Len(sessions) /\ ActiveSessions = {s}
  BY DEF HostReworkIsExclusive
<1>3. /\ DOMAIN sessions' = DOMAIN sessions
      /\ sessions'[s].state = state
      /\ \A r \in DOMAIN sessions \ {s} : sessions'[r] = sessions[r]
  BY <1>1 DEF ResolveSession, ActiveSessions, Session
<1>4. ActiveSessions' = {}
  BY <1>2, <1>3 DEF ActiveSessions
<1>5. QED
  BY <1>4 DEF HostReworkIsExclusive

\* A session that starts is the only one, on the newest artifact, which is not
\* current any more.
LEMMA SentBackStarts ==
  ASSUME TypeInv, OneCurrent, HostReworkIsExclusive,
         NEW a \in CurrentArtifacts,
         NEW mode, NEW actor, NEW key, SendBack(a, mode, actor, key),
         task.status # "host_rework"
  PROVE  HostReworkIsExclusive'
<1>1. a = Len(artifacts) /\ CurrentArtifacts' = {} /\ Len(artifacts') = a
      /\ UNCHANGED attempt
  BY InvalidateEffect DEF OneCurrent, SendBack, TypeInv
<1>2. ActiveSessions = {}
  BY DEF HostReworkIsExclusive
<1>3. CASE StageRework /\ MoveTo("in_progress")
  <2>1. task'.status = "in_progress"
    BY <1>3, MoveToTypes DEF TypeInv, TaskStatus
  <2>2. QED
    BY <1>1, <1>3, <2>1, NoSession DEF StageRework
<1>4. CASE StartHostRework(a, actor) /\ MoveTo("host_rework")
  <2> DEFINE new == [artifact |-> a, prior |-> artifacts[a].commit,
                     owner |-> actor, state |-> "active",
                     replacement |-> NoCommit]
  <2>1. task'.status = "host_rework"
    BY <1>4, MoveToTypes DEF TypeInv, TaskStatus
  <2>2. sessions' = Append(sessions, new) /\ sessions \in Seq(Session)
    BY <1>4 DEF StartHostRework, TypeInv, TypeOK
  <2>3. /\ Len(sessions') = Len(sessions) + 1
        /\ DOMAIN sessions' = DOMAIN sessions \union {Len(sessions')}
        /\ sessions'[Len(sessions')] = new
        /\ \A r \in DOMAIN sessions : sessions'[r] = sessions[r]
    BY <2>2
  <2>4. new.state = "active" /\ new.artifact = a
    OBVIOUS
  <2> HIDE DEF new
  <2>5. ActiveSessions' = {Len(sessions')}
    BY <1>2, <2>3, <2>4 DEF ActiveSessions
  <2>6. QED
    BY <1>1, <1>4, <2>1, <2>3, <2>4, <2>5
    DEF HostReworkIsExclusive, StartHostRework
<1>5. QED
  BY <1>3, <1>4 DEF SendBack

\* Decisions on a parked delivery.
LEMMA HostReworkDecided ==
  ASSUME TypeInv, OneCurrent, HostReworkIsExclusive,
         NEW a \in CurrentArtifacts,
         Deciding(a)
  PROVE  HostReworkIsExclusive'
<1>1. task.status # "host_rework"
  BY DecidingMoves
<1>2. CASE \E key : \/ VerifyPassed(a, key) \/ AuthorizeIntegration(a, key)
                    \/ RejectDriftedArtifact(a, key)
  <2>1. UNCHANGED <<sessions, attempt>> /\ task'.status # "host_rework"
    BY <1>2, MoveToTypes
    DEF VerifyPassed, AuthorizeIntegration, RejectDriftedArtifact, TypeInv,
        TaskStatus
  <2>2. QED
    BY <1>1, <2>1, NoSession
<1>3. CASE \E key, actor, mode :
             \/ VerifyFailed(a, mode, actor, key)
             \/ RequestDeliveryRework(a, mode, actor, key)
  BY <1>1, <1>3, SentBackStarts DEF VerifyFailed, RequestDeliveryRework
<1>4. QED
  BY <1>2, <1>3 DEF Deciding

\* Submitting and abandoning close the session.
LEMMA HostReworkClosed ==
  ASSUME TypeInv, HostReworkIsExclusive, NEW s \in ActiveSessions, Closing(s)
  PROVE  HostReworkIsExclusive'
<1>1. /\ task.status = "host_rework" /\ task'.status # "host_rework"
      /\ UNCHANGED attempt
  BY ClosingMoves
<1>2. \E commit \in CommitOrNone :
        \/ ResolveSession(s, "submitted", commit)
        \/ ResolveSession(s, "orchestrated", commit)
  BY DEF Closing, SubmitHostRework, AbandonHostRework, TypeInv, TypeOK, Git,
         CommitOrNone
<1>3. QED
  BY <1>1, <1>2, SessionEnds DEF SessionState

\* Archiving cancels the session with the task.
LEMMA HostReworkArchived ==
  ASSUME TypeInv, HostReworkIsExclusive, Archive
  PROVE  HostReworkIsExclusive'
<1>1. task'.status = "cancelled" /\ UNCHANGED attempt
  BY ArchiveMoves DEF Archive
<1>2. CASE ArchiveHostRework
  <2>1. PICK s \in ActiveSessions : ResolveSession(s, "cancelled", NoCommit)
    BY <1>2 DEF ArchiveHostRework
  <2>2. QED
    BY <1>1, <1>2, <2>1, SessionEnds
    DEF ArchiveHostRework, SessionState, CommitOrNone
<1>3. CASE ArchiveParkedDelivery \/ ArchiveOther
  BY <1>1, <1>3, NoSession DEF ArchiveParkedDelivery, ArchiveOther
<1>4. QED
  BY <1>2, <1>3 DEF Archive

\* Every step preserves the invariant.
LEMMA HostReworkStep ==
  TypeInv /\ OneCurrent /\ HostReworkIsExclusive /\ [Next]_vars
    => HostReworkIsExclusive'
<1> SUFFICES ASSUME TypeInv, OneCurrent, HostReworkIsExclusive, [Next]_vars
             PROVE  HostReworkIsExclusive'
  OBVIOUS
<1>1. CASE Resting \/ UNCHANGED vars
  <2>1. /\ task'.status = task.status
        /\ UNCHANGED <<artifacts, sessions, attempt>>
    BY <1>1, RestingEffect DEF vars
  <2>2. QED
    BY <2>1 DEF HostReworkIsExclusive, ActiveSessions,
                CurrentArtifacts
<1>2. CASE Moving
  BY <1>2, MovingEffect, NoSession
<1>3. QED
  BY <1>1, <1>2, StepsOfDelivery, HostReworkDecided, HostReworkClosed,
     HostReworkArchived

\* A task is in host_rework exactly while one session is active, for the
\* newest artifact, which is no longer current; no merger attempt is open.
THEOREM HostReworkSafety == Spec => []HostReworkIsExclusive
<1>1. EvidenceInv => OneCurrent
  BY DEF EvidenceInv
<1>2. QED
  BY <1>1, HostReworkInit, HostReworkStep, TypeCorrectness,
     EvidenceCorrectness, PTL DEF Spec

-----------------------------------------------------------------------------
(* Decisions, for MergeProofs                                              *)

\* A row is written with the next version or not at all.
LEMMA RowIsWrittenOnce ==
  ASSUME TypeInv, [Next]_vars
  PROVE  \/ UNCHANGED <<task, rowWrites>>
         \/ task'.version = task.version + 1 /\ rowWrites' = rowWrites + 1
<1>1. task \in TaskRow
  BY DEF TypeInv, TypeOK
<1>2. ASSUME NEW status, MoveTo(status)
      PROVE  task'.version = task.version + 1 /\ rowWrites' = rowWrites + 1
  BY <1>1, <1>2 DEF MoveTo, TaskRow
<1>3. CASE Resting
  BY <1>2, <1>3 DEF Resting, StartRework, BeginGate, DiscardGateResult,
     FinishSubtasks, ComposeRequest, CommentTask, BranchAdvances,
     TargetAdvances, Crash
<1>4. CASE ProcessQuickFix \/ RetryTask
  BY <1>1, <1>4 DEF ProcessQuickFix, RetryTask, TaskRow
<1>5. CASE Moving /\ ~ProcessQuickFix /\ ~RetryTask
  BY <1>2, <1>5 DEF Moving, FinishQuickFix, FailWork, PrepareDelivery,
     FailEmptyFeature, FailOnConstraints, PauseOnConstraints,
     BeginGateMismatch, FreezeDeliveryArtifact, RecordPreliminaryGateFailure,
     RetryPausedPreliminaryGate, ResumeTask
<1>6. CASE \E a \in CurrentArtifacts : Deciding(a)
  BY <1>2, <1>6 DEF Deciding, VerifyPassed, AuthorizeIntegration,
     RejectDriftedArtifact, VerifyFailed, RequestDeliveryRework, SendBack
<1>7. CASE Archive \/ \E s \in ActiveSessions : Closing(s)
  BY <1>2, <1>7 DEF Archive, Closing, SubmitHostRework, AbandonHostRework
<1>8. CASE UNCHANGED vars
  BY <1>8 DEF vars
<1>9. QED
  BY <1>3, <1>4, <1>5, <1>6, <1>7, <1>8, StepsOfDelivery

\* Only ComposeRequest adds a request, and no step changes one.
LEMMA WhoComposes ==
  ASSUME [Next]_vars
  PROVE  UNCHANGED requests \/ ComposeRequest
<1>1. CASE Resting
  BY <1>1 DEF Resting, StartRework, BeginGate, DiscardGateResult,
     FinishSubtasks, CommentTask, BranchAdvances, TargetAdvances, Crash
<1>2. CASE Moving
  BY <1>2 DEF Moving, FinishQuickFix, FailWork, PrepareDelivery,
     FailEmptyFeature, FailOnConstraints, PauseOnConstraints, ProcessQuickFix,
     BeginGateMismatch, FreezeDeliveryArtifact, RecordPreliminaryGateFailure,
     RetryPausedPreliminaryGate, ResumeTask, RetryTask
<1>3. CASE \E a \in CurrentArtifacts : Deciding(a)
  BY <1>3 DEF Deciding, VerifyPassed, AuthorizeIntegration,
     RejectDriftedArtifact, VerifyFailed, RequestDeliveryRework, SendBack
<1>4. CASE Archive \/ \E s \in ActiveSessions : Closing(s)
  BY <1>4 DEF Archive, Closing, SubmitHostRework, AbandonHostRework
<1>5. CASE UNCHANGED vars
  BY <1>5 DEF vars
<1>6. QED
  BY <1>1, <1>2, <1>3, <1>4, <1>5, StepsOfDelivery

\* A decision adds its own key, and no other.
LEMMA DecisionsAddTheirKey ==
  ASSUME NEW a, NEW key, NEW actor, NEW mode,
         \/ VerifyPassed(a, key) \/ VerifyFailed(a, mode, actor, key)
         \/ AuthorizeIntegration(a, key) \/ RejectDriftedArtifact(a, key)
         \/ RequestDeliveryRework(a, mode, actor, key)
  PROVE  DecisionKeys' \subseteq DecisionKeys \union {key}
<1>1. ASSUME NEW old, NEW new, new.key = key
      PROVE  Keys(old \union {new}) = Keys(old) \union {key}
  BY <1>1 DEF Keys
<1>2. CASE VerifyPassed(a, key)
  BY <1>1, <1>2 DEF VerifyPassed, DecisionKeys
<1>3. CASE VerifyFailed(a, mode, actor, key)
  <2>1. /\ Keys(verifications') = Keys(verifications) \union {key}
        /\ Keys(reworks') = Keys(reworks) \union {key}
        /\ UNCHANGED authorizations
    BY <1>1, <1>3 DEF VerifyFailed, SendBack
  <2>2. QED
    BY <2>1 DEF DecisionKeys
<1>4. CASE AuthorizeIntegration(a, key)
  <2>1. PICK new : /\ new.key = key
                   /\ authorizations' = authorizations \union {new}
                   /\ UNCHANGED <<verifications, reworks>>
    BY <1>4 DEF AuthorizeIntegration
  <2>2. QED
    BY <1>1, <2>1 DEF DecisionKeys
<1>5. CASE RequestDeliveryRework(a, mode, actor, key)
  <2>1. PICK new : /\ new.key = key /\ reworks' = reworks \union {new}
                   /\ UNCHANGED <<verifications, authorizations>>
    BY <1>5 DEF RequestDeliveryRework, SendBack
  <2>2. QED
    BY <1>1, <2>1 DEF DecisionKeys
<1>6. CASE RejectDriftedArtifact(a, key)
  BY <1>6 DEF RejectDriftedArtifact, records, DecisionKeys
<1>7. QED
  BY <1>2, <1>3, <1>4, <1>5, <1>6

\* A client's key appears only by the delivery of its request.
LEMMA ClientDecides ==
  ASSUME [Next]_vars, NEW i \in DOMAIN requests,
         ClientKey(i) \in DecisionKeys' \ DecisionKeys
  PROVE  MatchesTask(requests[i])
<1>1. ~UNCHANGED records
  BY DEF records, DecisionKeys
<1>2. CASE ProcessVerificationReady \/ ProcessIntegrationReady
  <2>1. PICK a \in CurrentArtifacts :
          \/ VerifyPassed(a, LocalKey(a))
          \/ AuthorizeIntegration(a, AutoKey(a))
          \/ RejectDriftedArtifact(a, AutoKey(a))
    BY <1>2 DEF ProcessVerificationReady, ProcessIntegrationReady
  <2>2. ClientKey(i) \in {LocalKey(a), AutoKey(a)}
    BY <2>1, DecisionsAddTheirKey
  <2>3. QED
    BY <2>2 DEF ClientKey, LocalKey, AutoKey
<1>3. ASSUME NEW j \in DOMAIN requests,
             \/ DeliverVerify(j) \/ DeliverFail(j) \/ DeliverRework(j)
             \/ DeliverIntegrate(j)
      PROVE  MatchesTask(requests[i])
  <2>1. /\ DecisionKeys' \subseteq DecisionKeys \union {ClientKey(j)}
        /\ MatchesTask(requests[j])
    BY <1>3, DecisionsAddTheirKey
    DEF DeliverVerify, DeliverFail, DeliverRework, DeliverIntegrate
  <2>2. <<"client", i>> = <<"client", j>>
    BY <2>1 DEF ClientKey
  <2>3. QED
    BY <2>1, <2>2
<1>4. CASE DeliverRequest
  <2>1. ASSUME NEW j \in DOMAIN requests, DeliverSubmit(j) \/ DeliverAbandon(j)
        PROVE  UNCHANGED records
    BY <2>1 DEF DeliverSubmit, SubmitHostRework, DeliverAbandon,
       AbandonHostRework
  <2>2. QED
    BY <1>1, <1>3, <1>4, <2>1 DEF DeliverRequest
<1>5. CASE /\ [Next]_vars /\ ~DeliverRequest
           /\ ~ProcessVerificationReady /\ ~ProcessIntegrationReady
  <2>1. UNCHANGED records
    BY <1>5 DEF Next, StartTickStep, EndGate, WorkerStep, ClientStep,
       OperatorStep, WorldStep, StartRework, PrepareDelivery,
       FailEmptyFeature, FailOnConstraints, PauseOnConstraints,
       ProcessQuickFix, BeginGate, BeginGateMismatch, FreezeDeliveryArtifact,
       RecordPreliminaryGateFailure, DiscardGateResult, FinishSubtasks,
       FinishQuickFix, FailWork, ComposeRequest, Archive, CommentTask,
       RetryPausedPreliminaryGate, ResumeTask, RetryTask, BranchAdvances,
       TargetAdvances, Crash, vars
  <2>2. QED
    BY <1>1, <2>1
<1>6. QED
  BY <1>2, <1>4, <1>5

-----------------------------------------------------------------------------
(* Ancestry.  An ancestor is only meaningful for commits that exist, so    *)
(* each part of the invariant says that too.                               *)

Descends(history, base, commit) ==
  commit \in DOMAIN history /\ IsAncestor(history, base, commit)

CandidateDescends ==
  gate.candidate # NoCandidate =>
    Descends(git.history, gate.candidate.base, gate.candidate.commit)

ArtifactsDescend ==
  \A a \in DOMAIN artifacts :
    Descends(git.history, artifacts[a].base, artifacts[a].commit)

ReplacementsDescend ==
  \A s \in DOMAIN sessions :
    sessions[s].state = "submitted" =>
      /\ sessions[s].replacement # sessions[s].prior
      /\ Descends(git.history, sessions[s].prior, sessions[s].replacement)

AncestryInv ==
  CandidateDescends /\ ArtifactsDescend /\ ReplacementsDescend

\* Nothing there yet but the first commit, which the branch names.
LEMMA AncestryInit == Init => AncestryInv
BY DEF Init, AncestryInv, CandidateDescends, ArtifactsDescend,
       ReplacementsDescend, NoCommit

-----------------------------------------------------------------------------
(* Commits are for ever                                                    *)

HistoryGrows ==
  \A c \in DOMAIN git.history :
    c \in DOMAIN git.history' /\ git.history'[c] = git.history[c]

\* Who writes refs, and who gives the gate a candidate.
LEMMA WhoWrites ==
  ASSUME TypeInv, Next
  PROVE  /\ \/ UNCHANGED git
            \/ BranchAdvances \/ TargetAdvances \/ RetryTask \/ ProcessQuickFix
         /\ gate'.candidate \in {gate.candidate, NoCandidate} \/ BeginGate
<1>1. gate \in Gate
  BY DEF TypeInv, TypeOK
<1>2. CASE Resting
  <2>1. CASE DiscardGateResult \/ Crash
    BY <1>1, <2>1 DEF DiscardGateResult, Crash, Gate
  <2>2. CASE Resting /\ ~DiscardGateResult /\ ~Crash
    BY <2>2 DEF Resting, StartRework, BeginGate, FinishSubtasks,
       ComposeRequest, CommentTask, BranchAdvances, TargetAdvances
  <2>3. QED
    BY <1>2, <2>1, <2>2
<1>3. CASE Moving
  <2>1. CASE BeginGateMismatch \/ FreezeDeliveryArtifact
             \/ RecordPreliminaryGateFailure
    BY <1>1, <2>1 DEF BeginGateMismatch, FreezeDeliveryArtifact,
       RecordPreliminaryGateFailure, Gate
  <2>2. CASE FinishQuickFix \/ FailWork \/ PrepareDelivery
             \/ FailEmptyFeature \/ FailOnConstraints \/ PauseOnConstraints
             \/ RetryPausedPreliminaryGate \/ ResumeTask
    BY <2>2 DEF FinishQuickFix, FailWork, PrepareDelivery, FailEmptyFeature,
       FailOnConstraints, PauseOnConstraints, RetryPausedPreliminaryGate,
       ResumeTask
  <2>3. CASE ProcessQuickFix \/ RetryTask
    BY <2>3 DEF ProcessQuickFix, RetryTask
  <2>4. QED
    BY <1>3, <2>1, <2>2, <2>3 DEF Moving
<1>4. CASE \E a \in CurrentArtifacts : Deciding(a)
  BY <1>4 DEF Deciding, VerifyPassed, AuthorizeIntegration,
     RejectDriftedArtifact, VerifyFailed, RequestDeliveryRework, SendBack
<1>5. CASE Archive \/ \E s \in ActiveSessions : Closing(s)
  BY <1>5 DEF Archive, Closing, SubmitHostRework, AbandonHostRework
<1>6. QED
  BY <1>2, <1>3, <1>4, <1>5, StepsOfDelivery

\* Commits are added, and none changes its ancestors.
LEMMA HistoryStep ==
  ASSUME TypeInv, [Next]_vars
  PROVE  HistoryGrows
<1>1. /\ git \in Git /\ git.history \in Seq(SUBSET Commit)
      /\ git.target \in DOMAIN git.history
  BY DEF TypeInv, TypeOK, Refs, Git
<1>2. CASE BranchAdvances \/ TargetAdvances
  <2>1. PICK parent \in DOMAIN git.history :
          git'.history = WithCommit(git.history, {parent})
    BY <1>1, <1>2 DEF BranchAdvances, TargetAdvances, Git
  <2>2. {parent} \in SUBSET DOMAIN git.history
    OBVIOUS
  <2>3. \A c \in DOMAIN git.history :
          /\ c \in DOMAIN WithCommit(git.history, {parent})
          /\ WithCommit(git.history, {parent})[c] = git.history[c]
    BY <1>1, <2>2, WithCommitExtends
  <2>4. QED
    BY <2>1, <2>3 DEF HistoryGrows
<1>3. CASE RetryTask \/ ProcessQuickFix
  BY <1>1, <1>3 DEF RetryTask, ProcessQuickFix, Git, HistoryGrows
<1>4. CASE UNCHANGED git
  BY <1>4 DEF HistoryGrows
<1>5. CASE UNCHANGED vars
  BY <1>4, <1>5 DEF vars
<1>6. QED
  BY <1>2, <1>3, <1>4, <1>5, WhoWrites

\* So what descends from a commit does so for ever.
LEMMA DescentIsForEver ==
  ASSUME HistoryGrows, NEW base, NEW commit,
         Descends(git.history, base, commit)
  PROVE  Descends(git.history', base, commit)
BY DEF HistoryGrows, Descends, IsAncestor

-----------------------------------------------------------------------------
(* Each part                                                               *)

\* The gate begins on a candidate it has checked against the refs.
LEMMA CandidateStep ==
  ASSUME TypeInv, CandidateDescends, [Next]_vars
  PROVE  CandidateDescends'
<1>1. HistoryGrows
  BY HistoryStep
<1>2. CASE gate'.candidate \in {gate.candidate, NoCandidate}
  BY <1>1, <1>2, DescentIsForEver DEF CandidateDescends
<1>3. CASE BeginGate
  <2> DEFINE candidate == CandidateOf(EnsuredAcceptance)
  <2>1. gate' = [gate EXCEPT !.candidate = candidate] /\ gate \in Gate
    BY <1>3 DEF BeginGate, TypeInv, TypeOK
  <2>2. gate'.candidate = candidate
    BY <2>1 DEF Gate
  <2>3. /\ candidate.commit = git.branch /\ git.branch # NoCommit
        /\ IsAncestor(git.history, candidate.base, candidate.commit)
    BY <1>3 DEF BeginGate, CandidateMatchesGit
  <2>4. Descends(git.history, candidate.base, candidate.commit)
    BY <2>3 DEF Descends, TypeInv, Refs
  <2>5. QED
    BY <1>1, <2>2, <2>4, DescentIsForEver DEF CandidateDescends
<1>4. CASE UNCHANGED vars
  BY <1>2, <1>4 DEF vars
<1>5. QED
  BY <1>2, <1>3, <1>4, WhoWrites

\* A frozen artifact is the candidate of the gate; the others keep their
\* commits, current or not.
LEMMA ArtifactStep ==
  ASSUME TypeInv, CandidateDescends, ArtifactsDescend, [Next]_vars
  PROVE  ArtifactsDescend'
<1>1. HistoryGrows
  BY HistoryStep
<1>2. CASE UNCHANGED artifacts
  BY <1>1, <1>2, DescentIsForEver DEF ArtifactsDescend
<1>3. ASSUME NEW a \in CurrentArtifacts, Invalidate(a)
      PROVE  ArtifactsDescend'
  <2>1. DOMAIN artifacts' = DOMAIN artifacts
    BY <1>3 DEF Invalidate
  <2>2. QED
    BY <1>1, <1>3, <2>1, InvalidateEffect, DescentIsForEver
    DEF ArtifactsDescend, TypeInv
<1>4. CASE FreezeDeliveryArtifact
  <2> DEFINE new == [commit  |-> gate.candidate.commit,
                     base    |-> gate.candidate.base,
                     baseRef |-> gate.candidate.baseRef, state |-> "current"]
  <2>1. artifacts' = Append(artifacts, new) /\ artifacts \in Seq(Artifact)
        /\ gate.candidate # NoCandidate
    BY <1>4 DEF FreezeDeliveryArtifact, GateIdle, TypeInv, TypeOK
  <2>2. Descends(git.history', new.base, new.commit)
    BY <1>1, <2>1, DescentIsForEver DEF CandidateDescends
  <2> HIDE DEF new
  <2>3. \A a \in DOMAIN artifacts' :
          \/ a \in DOMAIN artifacts /\ artifacts'[a] = artifacts[a]
          \/ artifacts'[a] = new
    BY <2>1
  <2>4. QED
    BY <1>1, <2>2, <2>3, DescentIsForEver DEF ArtifactsDescend
<1>5. CASE Moving /\ ~FreezeDeliveryArtifact
  BY <1>2, <1>5 DEF Moving, FinishQuickFix, FailWork, PrepareDelivery,
     FailEmptyFeature, FailOnConstraints, PauseOnConstraints, ProcessQuickFix,
     BeginGateMismatch, RecordPreliminaryGateFailure,
     RetryPausedPreliminaryGate, ResumeTask, RetryTask
<1>6. ASSUME NEW a \in CurrentArtifacts, Deciding(a)
      PROVE  ArtifactsDescend'
  <2>1. UNCHANGED artifacts \/ Invalidate(a)
    BY <1>6 DEF Deciding, VerifyPassed, AuthorizeIntegration,
       RejectDriftedArtifact, VerifyFailed, RequestDeliveryRework, SendBack
  <2>2. QED
    BY <1>2, <1>3, <2>1
<1>7. CASE Archive
  BY <1>2, <1>3, <1>7
  DEF Archive, ArchiveParkedDelivery, ArchiveHostRework, ArchiveOther
<1>8. CASE UNCHANGED vars
  BY <1>2, <1>8 DEF vars
<1>9. QED
  BY <1>2, <1>4, <1>5, <1>6, <1>7, <1>8, StepsOfDelivery, RestingEffect,
     ClosingMoves

\* A submission is checked against the branch; a session that was submitted is
\* not opened again.
LEMMA ReplacementStep ==
  ASSUME TypeInv, ReplacementsDescend, [Next]_vars
  PROVE  ReplacementsDescend'
<1>1. HistoryGrows /\ sessions \in Seq(Session)
  BY HistoryStep DEF TypeInv, TypeOK
<1>2. CASE UNCHANGED sessions
  BY <1>1, <1>2, DescentIsForEver DEF ReplacementsDescend
<1>3. ASSUME NEW s \in ActiveSessions, NEW state, NEW replacement,
             ResolveSession(s, state, replacement),
             state = "submitted" =>
               /\ replacement # sessions[s].prior
               /\ Descends(git.history, sessions[s].prior, replacement)
      PROVE  ReplacementsDescend'
  <2>1. s \in DOMAIN sessions /\ sessions[s] \in Session
    BY <1>1 DEF ActiveSessions
  <2>2. /\ DOMAIN sessions' = DOMAIN sessions
        /\ sessions'[s].state = state
        /\ sessions'[s].replacement = replacement
        /\ sessions'[s].prior = sessions[s].prior
        /\ \A r \in DOMAIN sessions \ {s} : sessions'[r] = sessions[r]
    BY <1>1, <1>3, <2>1 DEF ResolveSession, Session
  <2>3. QED
    BY <1>1, <1>3, <2>2, DescentIsForEver DEF ReplacementsDescend
<1>4. ASSUME NEW a, NEW actor, StartHostRework(a, actor)
      PROVE  ReplacementsDescend'
  <2>1. PICK new : /\ sessions' = Append(sessions, new)
                   /\ new.state = "active"
    BY <1>4 DEF StartHostRework
  <2>2. \A s \in DOMAIN sessions' :
          \/ s \in DOMAIN sessions /\ sessions'[s] = sessions[s]
          \/ sessions'[s] = new
    BY <1>1, <2>1
  <2>3. QED
    BY <1>1, <2>1, <2>2, DescentIsForEver DEF ReplacementsDescend
<1>5. ASSUME NEW a \in CurrentArtifacts, Deciding(a)
      PROVE  ReplacementsDescend'
  <2>1. UNCHANGED sessions \/ \E actor : StartHostRework(a, actor)
    BY <1>5 DEF Deciding, VerifyPassed, AuthorizeIntegration,
       RejectDriftedArtifact, VerifyFailed, RequestDeliveryRework, SendBack,
       StageRework
  <2>2. QED
    BY <1>2, <1>4, <2>1
<1>6. ASSUME NEW s \in ActiveSessions, Closing(s)
      PROVE  ReplacementsDescend'
  <2>1. CASE \E actor : AbandonHostRework(s, actor)
    BY <1>3, <2>1 DEF AbandonHostRework
  <2>2. ASSUME NEW actor, NEW commit, SubmitHostRework(s, actor, commit)
        PROVE  ReplacementsDescend'
    <3>1. /\ commit = git.branch /\ commit \notin {NoCommit, sessions[s].prior}
          /\ IsAncestor(git.history, sessions[s].prior, commit)
          /\ ResolveSession(s, "submitted", commit)
      BY <2>2 DEF SubmitHostRework, OwnsSession
    <3>2. Descends(git.history, sessions[s].prior, commit)
      BY <3>1 DEF Descends, TypeInv, Refs
    <3>3. QED
      BY <1>3, <3>1, <3>2
  <2>3. QED
    BY <1>6, <2>1, <2>2 DEF Closing
<1>7. CASE Archive
  BY <1>2, <1>3, <1>7
  DEF Archive, ArchiveParkedDelivery, ArchiveHostRework, ArchiveOther
<1>8. CASE UNCHANGED vars
  BY <1>2, <1>8 DEF vars
<1>9. QED
  BY <1>2, <1>5, <1>6, <1>7, <1>8, StepsOfDelivery, RestingEffect,
     MovingEffect

-----------------------------------------------------------------------------

\* The ancestry of candidates, artifacts and replacements is an invariant.
THEOREM AncestryCorrectness == Spec => []AncestryInv
<1>1. TypeInv /\ AncestryInv /\ [Next]_vars => AncestryInv'
  BY CandidateStep, ArtifactStep, ReplacementStep DEF AncestryInv
<1>2. QED
  BY <1>1, AncestryInit, TypeCorrectness, PTL DEF Spec

\* Every artifact is built on the base it records, although the refs move
\* while the gate runs, the branch is rewritten and retries recreate it.
THEOREM ArtifactsAreBuiltOnTheirBase == Spec => []ArtifactsContainTheirBase
<1>1. AncestryInv => ArtifactsContainTheirBase
  BY DEF AncestryInv, ArtifactsDescend, Descends, ArtifactsContainTheirBase
<1>2. QED
  BY <1>1, AncestryCorrectness, PTL

\* Every replacement a host submitted is a proper descendant of the artifact
\* it replaces, although the branch may be reset or rebased at any time.
THEOREM RepairsAreDescendants == Spec => []RepairsDescend
<1>1. AncestryInv => RepairsDescend
  BY DEF AncestryInv, ReplacementsDescend, Descends, RepairsDescend
<1>2. QED
  BY <1>1, AncestryCorrectness, PTL

=============================================================================
