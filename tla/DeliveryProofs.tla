--------------------------- MODULE DeliveryProofs ---------------------------
(***************************************************************************)
(* Theorems about Delivery, for every value of its constants.              *)
(***************************************************************************)
EXTENDS Delivery, TLAPS

-----------------------------------------------------------------------------
(* The refs name commits that exist.  Without this a commit read out of the *)
(* history of a ref would not be known to be a commit.                     *)

Refs ==
  /\ git.target \in DOMAIN git.history
  /\ git.branch \in DOMAIN git.history \union {NoCommit}

TypeInv == TypeOK /\ Refs

-----------------------------------------------------------------------------
(* Lemmas about the operators the actions are built from                   *)

\* A move of the task leaves a well-formed row.
LEMMA MoveToTypes ==
  ASSUME TypeOK, NEW status \in TaskStatus, MoveTo(status)
  PROVE  task' \in TaskRow /\ rowWrites' \in Nat /\ task'.status = status
<1>1. task' = [status |-> status, version |-> task.version + 1,
               base |-> task.base]
  BY DEF TypeOK, MoveTo, TaskRow
<1>2. task.version + 1 \in Nat \ {0} /\ task.base \in CommitOrNone
  BY DEF TypeOK, TaskRow
<1>3. QED
  BY <1>1, <1>2 DEF TypeOK, MoveTo, TaskRow

\* A comment moves the version alone.
LEMMA StayTypes ==
  ASSUME TypeOK, MoveTo(task.status)
  PROVE  task' \in TaskRow /\ rowWrites' \in Nat /\ task'.status = task.status
<1>1. task' = [status |-> task.status, version |-> task.version + 1,
               base |-> task.base]
  BY DEF TypeOK, MoveTo, TaskRow
<1>2. task.version + 1 \in Nat \ {0} /\ task.base \in CommitOrNone
      /\ task.status \in TaskStatus
  BY DEF TypeOK, TaskRow
<1>3. QED
  BY <1>1, <1>2 DEF TypeOK, MoveTo, TaskRow

\* What a current artifact is.
LEMMA CurrentIsArtifact ==
  ASSUME TypeOK, NEW a \in CurrentArtifacts
  PROVE  /\ a \in DOMAIN artifacts
         /\ a \in Nat \ {0}
         /\ artifacts[a] \in Artifact
         /\ artifacts[a].commit \in Commit
<1>1. artifacts \in Seq(Artifact) /\ a \in DOMAIN artifacts
  BY DEF TypeOK, CurrentArtifacts
<1>2. artifacts[a] \in Artifact /\ a \in Nat \ {0}
  BY <1>1
<1>3. QED
  BY <1>1, <1>2 DEF Artifact

\* Invalidating an artifact changes nothing but whether it is current.
LEMMA InvalidateEffect ==
  ASSUME TypeOK, NEW a \in CurrentArtifacts, Invalidate(a)
  PROVE  /\ artifacts' \in Seq(Artifact)
         /\ Len(artifacts') = Len(artifacts)
         /\ \A b \in DOMAIN artifacts :
              /\ artifacts'[b].commit = artifacts[b].commit
              /\ artifacts'[b].base = artifacts[b].base
              /\ artifacts'[b].baseRef = artifacts[b].baseRef
         /\ CurrentArtifacts' = CurrentArtifacts \ {a}
<1>1. artifacts \in Seq(Artifact) /\ a \in DOMAIN artifacts
  BY DEF TypeOK, CurrentArtifacts
<1> DEFINE invalid == [commit |-> artifacts[a].commit,
                       base |-> artifacts[a].base,
                       baseRef |-> artifacts[a].baseRef, state |-> "invalidated"]
<1>2. PICK old \in Artifact : old = artifacts[a]
  BY <1>1
<1>3. invalid \in Artifact /\ artifacts' = [artifacts EXCEPT ![a] = invalid]
  <2>1. invalid \in Artifact
    BY <1>2 DEF Artifact
  <2>2. [old EXCEPT !.state = "invalidated"]
          = [commit |-> old.commit, base |-> old.base,
             baseRef |-> old.baseRef, state |-> "invalidated"]
    BY DEF Artifact
  <2>3. artifacts' = [artifacts EXCEPT ![a] = [old EXCEPT !.state = "invalidated"]]
    BY <1>2 DEF Invalidate
  <2>4. QED
    BY <1>2, <2>1, <2>2, <2>3
<1>4. artifacts' \in Seq(Artifact) /\ Len(artifacts') = Len(artifacts)
  BY <1>1, <1>3
<1>5. \A b \in DOMAIN artifacts :
        artifacts'[b] = IF b = a THEN invalid ELSE artifacts[b]
  BY <1>1, <1>3
<1>6. DOMAIN artifacts' = DOMAIN artifacts
  BY <1>1, <1>3
<1>7. CurrentArtifacts' = CurrentArtifacts \ {a}
  BY <1>5, <1>6 DEF CurrentArtifacts
<1>8. QED
  BY <1>4, <1>5, <1>7

\* Creating a commit extends the history by one entry and keeps the others.
LEMMA WithCommitExtends ==
  ASSUME NEW h \in Seq(SUBSET Commit), NEW parents \in SUBSET DOMAIN h
  PROVE  /\ WithCommit(h, parents) \in Seq(SUBSET Commit)
         /\ DOMAIN WithCommit(h, parents) = DOMAIN h \union {NextCommit(h)}
         /\ NextCommit(h) \in Commit
         /\ NextCommit(h) \notin DOMAIN h
         /\ \A c \in DOMAIN h : WithCommit(h, parents)[c] = h[c]
<1>1. NextCommit(h) = Len(h) + 1 /\ NextCommit(h) \in Commit
  BY DEF NextCommit, Commit
<1>2. UNION { h[p] : p \in parents } \subseteq Commit
  OBVIOUS
<1>3. {NextCommit(h)} \union UNION { h[p] : p \in parents } \in SUBSET Commit
  BY <1>1, <1>2
<1>4. QED
  BY <1>1, <1>3 DEF WithCommit

\* The artifact a client sees is a number, current if there is a current one.
LEMMA ArtifactSeenTypes ==
  ASSUME TypeOK
  PROVE  /\ ArtifactSeen \in Nat
         /\ ArtifactSeen # 0 => ArtifactSeen \in CurrentArtifacts
<1>1. \A a \in CurrentArtifacts : a \in Nat \ {0}
  BY CurrentIsArtifact
<1>2. CASE CurrentArtifacts = {}
  BY <1>2 DEF ArtifactSeen
<1>3. CASE CurrentArtifacts # {}
  <2>1. ArtifactSeen = CHOOSE a \in CurrentArtifacts : TRUE
    BY <1>3 DEF ArtifactSeen
  <2>2. ArtifactSeen \in CurrentArtifacts
    BY <1>3, <2>1
  <2>3. QED
    BY <1>1, <2>2
<1>4. QED
  BY <1>2, <1>3

\* Idempotency keys of clients and of the policies.
LEMMA KeyTypes ==
  ASSUME NEW n \in Nat \ {0}
  PROVE  ClientKey(n) \in Key /\ LocalKey(n) \in Key /\ AutoKey(n) \in Key
<1>1. ClientKey(n) \in Key
  BY DEF ClientKey, Key
<1>2. LocalKey(n) \in Key
  BY DEF LocalKey, Key
<1>3. AutoKey(n) \in Key
  BY DEF AutoKey, Key
<1>4. QED
  BY <1>1, <1>2, <1>3

-----------------------------------------------------------------------------
(* Type correctness                                                        *)

\* The used-up part of a bound stays a number.
LEMMA RoundsTypes ==
  ASSUME TypeOK, EntersTestingReady
  PROVE  used' \in Used
<1>1. used' = [used EXCEPT !.rounds = used.rounds + 1]
  BY DEF EntersTestingReady
<1>2. used \in Used /\ used.rounds + 1 \in Nat
  BY DEF TypeOK, Used
<1>3. QED
  BY <1>1, <1>2 DEF Used

\* The initial rows are well formed.
LEMMA TypeInit == Init => TypeInv
<1>1. <<{1}>> \in Seq(SUBSET Commit) /\ DOMAIN <<{1}>> = {1}
  BY DEF Commit
<1> SUFFICES ASSUME Init
             PROVE  TypeInv
  OBVIOUS
<1>2. task \in TaskRow
  BY DEF Init, TaskRow, TaskStatus, CommitOrNone, Commit
<1>3. work \in Work
  BY DEF Init, Work, WorkState, CommitOrNone, Commit
<1>4. git \in Git /\ Refs
  BY <1>1 DEF Init, Git, Refs, CommitOrNone, Commit
<1>5. acceptance \in Acceptance
  BY DEF Init, Acceptance, BaseRef, CommitOrNone, NoCommit
<1>6. gate \in Gate /\ used \in Used
  BY DEF Init, Gate, GateOutcome, Used
<1>7. QED
  BY <1>2, <1>3, <1>4, <1>5, <1>6
  DEF Init, TypeInv, TypeOK

\* The acceptance a gate works on names commits that exist.
LEMMA EnsuredTypes ==
  ASSUME TypeInv, git.branch # NoCommit
  PROVE  EnsuredAcceptance \in Acceptance
<1>1. git.branch \in Commit /\ task.base \in CommitOrNone
      /\ acceptance \in Acceptance /\ acceptance.heads \in SUBSET Commit
  BY DEF TypeInv, TypeOK, Git, CommitOrNone, TaskRow, Acceptance
<1>2. [heads |-> acceptance.heads \union {git.branch}, head |-> git.branch,
       base |-> task.base, baseRef |-> "target", submitted |-> NoCommit]
        \in Acceptance
  BY <1>1 DEF Acceptance, CommitOrNone, BaseRef
<1>3. QED
  BY <1>1, <1>2 DEF EnsuredAcceptance

\* A candidate that matches Git is a commit on top of a base that is one.
LEMMA CandidateTypes ==
  ASSUME TypeInv, git.branch # NoCommit, NEW accepted \in Acceptance,
         CandidateMatchesGit(CandidateOf(accepted))
  PROVE  CandidateOf(accepted) \in Candidate
<1> DEFINE c == CandidateOf(accepted)
<1>1. git.branch \in DOMAIN git.history
      /\ git.history \in Seq(SUBSET Commit) /\ git.branch \in Commit
  BY DEF TypeInv, TypeOK, Refs, Git, CommitOrNone
<1>2. git.history[git.branch] \in SUBSET Commit
  BY <1>1
<1>3. c.commit \in Commit /\ c.base \in Commit
  BY <1>1, <1>2 DEF CandidateMatchesGit, IsAncestor
<1>4. c = [commit |-> c.commit, base |-> c.base, baseRef |-> accepted.baseRef]
      /\ accepted.baseRef \in BaseRef
  BY DEF CandidateOf, Acceptance
<1>5. QED
  BY <1>3, <1>4 DEF Candidate

\* The operations on a delivery, called by a client or by a policy.
LEMMA VerifyPassedTypes ==
  ASSUME TypeInv, NEW a, NEW key \in Key, VerifyPassed(a, key)
  PROVE  TypeInv'
<1>1. a \in CurrentArtifacts
  BY DEF VerifyPassed, IsCurrent
<1>2. task' \in TaskRow /\ rowWrites' \in Nat
  BY MoveToTypes DEF VerifyPassed, TypeInv, TaskStatus
<1>3. verifications' \subseteq Verification
  BY <1>1, CurrentIsArtifact
  DEF VerifyPassed, TypeInv, TypeOK, Verification
<1>4. QED
  BY <1>2, <1>3 DEF VerifyPassed, TypeInv, TypeOK, Refs

\* Sending a delivery back leaves well-formed rows.
LEMMA SendBackTypes ==
  ASSUME TypeInv, NEW a \in CurrentArtifacts, NEW mode \in ReworkMode,
         NEW actor \in Actors, NEW key \in Key, SendBack(a, mode, actor, key),
         verifications' \subseteq Verification
  PROVE  TypeInv'
<1>1. task' \in TaskRow /\ rowWrites' \in Nat
  BY MoveToTypes DEF SendBack, TypeInv, TaskStatus
<1>2. artifacts' \in Seq(Artifact)
  BY InvalidateEffect DEF SendBack, TypeInv
<1>3. reworks' \subseteq Rework
  BY CurrentIsArtifact DEF SendBack, TypeInv, TypeOK, Rework
<1>4. sessions' \in Seq(Session)
  <2>1. [artifact |-> a, prior |-> artifacts[a].commit, owner |-> actor,
         state |-> "active", replacement |-> NoCommit] \in Session
    BY CurrentIsArtifact
    DEF TypeInv, Session, SessionState, CommitOrNone
  <2>2. sessions \in Seq(Session)
    BY DEF TypeInv, TypeOK
  <2>3. CASE StartHostRework(a, actor)
    BY <2>1, <2>2, <2>3 DEF StartHostRework
  <2>4. CASE StageRework
    BY <2>2, <2>4 DEF StageRework
  <2>5. QED
    BY <2>3, <2>4 DEF SendBack
<1>5. work' \in Work
  BY DEF SendBack, StartHostRework, StageRework, TypeInv, TypeOK, Work,
         WorkState, CommitOrNone
<1>6. QED
  BY <1>1, <1>2, <1>3, <1>4, <1>5
  DEF SendBack, TypeInv, TypeOK, Refs

\* So do a failed verdict and a request for rework, which contain it.
LEMMA VerifyFailedTypes ==
  ASSUME TypeInv, NEW a, NEW mode \in ReworkMode, NEW actor \in Actors,
         NEW key \in Key, VerifyFailed(a, mode, actor, key)
  PROVE  TypeInv'
<1>1. a \in CurrentArtifacts
  BY DEF VerifyFailed, IsCurrent
<1>2. verifications' \subseteq Verification
  BY <1>1, CurrentIsArtifact
  DEF VerifyFailed, TypeInv, TypeOK, Verification
<1>3. QED
  BY <1>1, <1>2, SendBackTypes DEF VerifyFailed

\* See VerifyFailedTypes.
LEMMA RequestDeliveryReworkTypes ==
  ASSUME TypeInv, NEW a, NEW mode \in ReworkMode, NEW actor \in Actors,
         NEW key \in Key, RequestDeliveryRework(a, mode, actor, key)
  PROVE  TypeInv'
<1>1. a \in CurrentArtifacts
  BY DEF RequestDeliveryRework, IsCurrent
<1>2. verifications' \subseteq Verification
  BY DEF RequestDeliveryRework, TypeInv, TypeOK
<1>3. QED
  BY <1>1, <1>2, SendBackTypes DEF RequestDeliveryRework

\* An authorization copies the artifact's commit and base.
LEMMA AuthorizeIntegrationTypes ==
  ASSUME TypeInv, NEW a, NEW key \in Key, AuthorizeIntegration(a, key)
  PROVE  TypeInv'
<1>1. a \in CurrentArtifacts
  BY DEF AuthorizeIntegration, CanAuthorize, IsCurrent
<1>2. task' \in TaskRow /\ rowWrites' \in Nat
  BY MoveToTypes DEF AuthorizeIntegration, TypeInv, TaskStatus
<1>3. authorizations' \subseteq Authorization
  <2>1. PICK v \in PassingVerifications(a) :
          authorizations' = authorizations \union
            {[artifact |-> a, commit |-> artifacts[a].commit,
              base |-> artifacts[a].base, baseRef |-> artifacts[a].baseRef,
              verification |-> v.key, key |-> key]}
    BY DEF AuthorizeIntegration
  <2>2. v.key \in Key
    BY DEF PassingVerifications, TypeInv, TypeOK, Verification
  <2>3. artifacts[a] \in Artifact /\ a \in Nat \ {0}
    BY <1>1, CurrentIsArtifact DEF TypeInv
  <2>4. [artifact |-> a, commit |-> artifacts[a].commit,
         base |-> artifacts[a].base, baseRef |-> artifacts[a].baseRef,
         verification |-> v.key, key |-> key] \in Authorization
    BY <2>2, <2>3 DEF Authorization, Artifact
  <2>5. QED
    BY <2>1, <2>4 DEF TypeInv, TypeOK
<1>4. QED
  BY <1>2, <1>3 DEF AuthorizeIntegration, TypeInv, TypeOK, Refs

\* Rejecting a drifted artifact changes its state only.
LEMMA RejectDriftedArtifactTypes ==
  ASSUME TypeInv, NEW a, NEW key, RejectDriftedArtifact(a, key)
  PROVE  TypeInv'
<1>1. a \in CurrentArtifacts
  BY DEF RejectDriftedArtifact, CanAuthorize, IsCurrent
<1>2. task' \in TaskRow /\ rowWrites' \in Nat
  BY MoveToTypes DEF RejectDriftedArtifact, TypeInv, TaskStatus
<1>3. artifacts' \in Seq(Artifact)
  BY <1>1, InvalidateEffect DEF RejectDriftedArtifact, TypeInv
<1>4. QED
  BY <1>2, <1>3 DEF RejectDriftedArtifact, TypeInv, TypeOK, Refs, records

\* Resolving a session leaves a well-formed sequence of sessions.
LEMMA ResolveSessionTypes ==
  ASSUME TypeInv, NEW s \in ActiveSessions, NEW state \in SessionState,
         NEW replacement \in CommitOrNone, ResolveSession(s, state, replacement)
  PROVE  sessions' \in Seq(Session)
<1>1. sessions \in Seq(Session) /\ s \in DOMAIN sessions
  BY DEF TypeInv, TypeOK, ActiveSessions
<1>2. PICK old \in Session : old = sessions[s]
  BY <1>1
<1> DEFINE new == [artifact |-> old.artifact, prior |-> old.prior,
                   owner |-> old.owner, state |-> state,
                   replacement |-> replacement]
<1>3. new \in Session
  BY DEF Session
<1>4. sessions' = [sessions EXCEPT ![s] = new]
  <2> DEFINE mid == [artifact |-> old.artifact, prior |-> old.prior,
                     owner |-> old.owner, state |-> state,
                     replacement |-> old.replacement]
  <2>1. [old EXCEPT !.state = state] = mid
    BY DEF Session
  <2>2. [mid EXCEPT !.replacement = replacement] = new
    OBVIOUS
  <2>3. sessions' = [[sessions EXCEPT ![s].state = state]
                       EXCEPT ![s].replacement = replacement]
    BY DEF ResolveSession
  <2>4. QED
    BY <1>1, <1>2, <2>1, <2>2, <2>3
<1>5. QED
  BY <1>1, <1>3, <1>4

\* A submitted commit is one the feature ref names.
LEMMA SubmitHostReworkTypes ==
  ASSUME TypeInv, NEW s, NEW actor, NEW commit,
         SubmitHostRework(s, actor, commit)
  PROVE  TypeInv'
<1>1. s \in ActiveSessions /\ commit \in CommitOrNone
  BY DEF SubmitHostRework, OwnsSession, TypeInv, TypeOK, Git
<1>2. task' \in TaskRow /\ rowWrites' \in Nat /\ used' \in Used
  BY MoveToTypes, RoundsTypes DEF SubmitHostRework, TypeInv, TaskStatus
<1>3. sessions' \in Seq(Session)
  BY <1>1, ResolveSessionTypes DEF SubmitHostRework, SessionState
<1>4. acceptance' \in Acceptance
  <2>1. acceptance' = [heads |-> acceptance.heads, head |-> acceptance.head,
                       base |-> acceptance.base,
                       baseRef |-> acceptance.baseRef, submitted |-> commit]
    BY DEF SubmitHostRework, TypeInv, TypeOK, Acceptance
  <2>2. QED
    BY <1>1, <2>1 DEF TypeInv, TypeOK, Acceptance
<1>5. QED
  BY <1>2, <1>3, <1>4
  DEF SubmitHostRework, TypeInv, TypeOK, Refs, records

\* An abandoned session has no replacement.
LEMMA AbandonHostReworkTypes ==
  ASSUME TypeInv, NEW s, NEW actor, AbandonHostRework(s, actor)
  PROVE  TypeInv'
<1>1. s \in ActiveSessions
  BY DEF AbandonHostRework, OwnsSession
<1>2. task' \in TaskRow /\ rowWrites' \in Nat
  BY MoveToTypes DEF AbandonHostRework, TypeInv, TaskStatus
<1>3. sessions' \in Seq(Session)
  BY <1>1, ResolveSessionTypes
  DEF AbandonHostRework, SessionState, CommitOrNone
<1>4. QED
  BY <1>2, <1>3 DEF AbandonHostRework, TypeInv, TypeOK, Refs, records

\* Requests the clients deliver.
LEMMA DeliverRequestTypes ==
  ASSUME TypeInv, DeliverRequest
  PROVE  TypeInv'
<1>1. PICK i \in DOMAIN requests :
        \/ DeliverVerify(i) \/ DeliverFail(i) \/ DeliverRework(i)
        \/ DeliverIntegrate(i) \/ DeliverSubmit(i) \/ DeliverAbandon(i)
  BY DEF DeliverRequest
<1>2. i \in Nat \ {0} /\ requests[i] \in Request
  BY DEF TypeInv, TypeOK
<1>3. ClientKey(i) \in Key
  BY <1>2, KeyTypes
<1>4. PICK r \in Request : r = requests[i]
  BY <1>2
<1>5. r.actor \in Actors
  BY DEF Request
<1>6. CASE DeliverVerify(i)
  BY <1>3, <1>4, <1>6, VerifyPassedTypes DEF DeliverVerify
<1>7. CASE DeliverFail(i)
  <2>1. VerifyFailed(r.artifact, r.mode, r.actor, ClientKey(i))
    BY <1>4, <1>7 DEF DeliverFail
  <2>2. r.mode \in ReworkMode
    BY <2>1 DEF VerifyFailed, SendBack, ReworkMode
  <2>3. QED
    BY <1>3, <1>5, <2>1, <2>2, VerifyFailedTypes
<1>8. CASE DeliverRework(i)
  <2>1. RequestDeliveryRework(r.artifact, r.mode, r.actor, ClientKey(i))
    BY <1>4, <1>8 DEF DeliverRework
  <2>2. r.mode \in ReworkMode
    BY <2>1 DEF RequestDeliveryRework, SendBack, ReworkMode
  <2>3. QED
    BY <1>3, <1>5, <2>1, <2>2, RequestDeliveryReworkTypes
<1>9. CASE DeliverIntegrate(i)
  BY <1>3, <1>4, <1>9, AuthorizeIntegrationTypes, RejectDriftedArtifactTypes
  DEF DeliverIntegrate
<1>10. CASE DeliverSubmit(i)
  BY <1>4, <1>10, SubmitHostReworkTypes DEF DeliverSubmit
<1>11. CASE DeliverAbandon(i)
  BY <1>4, <1>11, AbandonHostReworkTypes DEF DeliverAbandon
<1>12. QED
  BY <1>1, <1>6, <1>7, <1>8, <1>9, <1>10, <1>11

\* A request is composed of what the client saw.
LEMMA ComposeRequestTypes ==
  ASSUME TypeInv, ComposeRequest
  PROVE  TypeInv'
<1>1. PICK op \in OpsOffered, actor \in Actors :
        \E mode \in ModesOf(op) :
          requests' = Append(requests,
                        [op       |-> op,
                         mode     |-> mode,
                         actor    |-> actor,
                         version  |-> task.version,
                         artifact |-> ArtifactSeen,
                         commit   |-> CommitSeen(op),
                         session  |-> Len(sessions),
                         observed |-> rowWrites])
  BY DEF ComposeRequest
<1>2. op \in RequestOp /\ ModesOf(op) \subseteq ReworkMode \union {"none"}
  BY DEF OpsOffered, RequestOp, ModesOf, ReworkMode
<1>3. task.version \in Nat /\ Len(sessions) \in Nat /\ rowWrites \in Nat
  BY DEF TypeInv, TypeOK, TaskRow
<1>4. ArtifactSeen \in Nat
  BY ArtifactSeenTypes DEF TypeInv
<1>5. CommitSeen(op) \in CommitOrNone
  <2>1. git.branch \in CommitOrNone /\ NoCommit \in CommitOrNone
    BY DEF TypeInv, TypeOK, Git, CommitOrNone
  <2>2. ArtifactSeen # 0 => artifacts[ArtifactSeen].commit \in Commit
    BY ArtifactSeenTypes, CurrentIsArtifact DEF TypeInv
  <2>3. QED
    BY <2>1, <2>2 DEF CommitSeen, CommitOrNone
<1>6. requests' \in Seq(Request)
  BY <1>1, <1>2, <1>3, <1>4, <1>5 DEF TypeInv, TypeOK, Request
<1>7. QED
  BY <1>6 DEF ComposeRequest, TypeInv, TypeOK, Refs, records

\* The steps of the tick, but for the gate's.
LEMMA StartTickTypes ==
  ASSUME TypeInv, StartTickStep
  PROVE  TypeInv'
<1>1. CASE StartRework
  BY <1>1 DEF StartRework, TypeInv, TypeOK, Refs, records, Work, WorkState,
              Git
<1>2. CASE PrepareDelivery
  <2>1. task' \in TaskRow /\ rowWrites' \in Nat /\ used' \in Used
    BY <1>2, MoveToTypes, RoundsTypes
    DEF PrepareDelivery, TypeInv, TaskStatus
  <2>2. QED
    BY <1>2, <2>1 DEF PrepareDelivery, TypeInv, TypeOK, Refs, records
<1>3. CASE FailEmptyFeature \/ FailOnConstraints
  <2>1. task' \in TaskRow /\ rowWrites' \in Nat
    BY <1>3, MoveToTypes
    DEF FailEmptyFeature, FailOnConstraints, TypeInv, TaskStatus
  <2>2. QED
    BY <1>3, <2>1
    DEF FailEmptyFeature, FailOnConstraints, TypeInv, TypeOK, Refs, records
<1>4. CASE PauseOnConstraints
  <2>1. task' \in TaskRow /\ rowWrites' \in Nat
    BY <1>4, MoveToTypes DEF PauseOnConstraints, TypeInv, TaskStatus
  <2>2. QED
    BY <1>4, <2>1 DEF PauseOnConstraints, TypeInv, TypeOK, Refs, records
<1>5. CASE ProcessQuickFix
  <2> DEFINE created == task.base = NoCommit
             branch == IF created THEN git.target ELSE git.branch
  <2>1. /\ git' = [git EXCEPT !.branch = branch]
        /\ task' = [task EXCEPT !.status = "in_progress", !.version = @ + 1,
                                !.base = IF created THEN branch ELSE @]
        /\ \/ work' = NoWork
           \/ work' = [state |-> "running", base |-> branch]
        /\ rowWrites' = rowWrites + 1
    BY <1>5 DEF ProcessQuickFix
  <2>2. branch \in CommitOrNone /\ (created => branch \in Commit)
    BY DEF TypeInv, TypeOK, Git, CommitOrNone
  <2>3. task' = [status |-> "in_progress", version |-> task.version + 1,
                 base |-> IF created THEN branch ELSE task.base]
    BY <2>1 DEF TypeInv, TypeOK, TaskRow
  <2>4. task' \in TaskRow
    <3>1. task.version + 1 \in Nat \ {0} /\ task.base \in CommitOrNone
      BY DEF TypeInv, TypeOK, TaskRow
    <3>2. QED
      BY <2>2, <2>3, <3>1 DEF TaskRow, TaskStatus
  <2>5. git' \in Git /\ Refs'
    BY <2>1, <2>2 DEF TypeInv, TypeOK, Refs, Git
  <2>6. work' \in Work /\ rowWrites' \in Nat
    BY <2>1, <2>2 DEF TypeInv, TypeOK, NoWork, Work, WorkState, CommitOrNone
  <2>7. QED
    BY <1>5, <2>4, <2>5, <2>6 DEF ProcessQuickFix, TypeInv, TypeOK, records
<1>6. CASE BeginGate
  <2>1. EnsuredAcceptance \in Acceptance
    BY <1>6, EnsuredTypes DEF BeginGate
  <2>2. CandidateOf(EnsuredAcceptance) \in Candidate
    BY <1>6, <2>1, CandidateTypes DEF BeginGate
  <2>3. gate' \in Gate
    BY <1>6, <2>2 DEF BeginGate, TypeInv, TypeOK, Gate
  <2>4. QED
    BY <1>6, <2>1, <2>3 DEF BeginGate, TypeInv, TypeOK, Refs, records
<1>7. CASE BeginGateMismatch
  <2>1. task' \in TaskRow /\ rowWrites' \in Nat
    BY <1>7, MoveToTypes DEF BeginGateMismatch, TypeInv, TaskStatus
  <2>2. EnsuredAcceptance \in Acceptance
    BY <1>7, EnsuredTypes DEF BeginGateMismatch
  <2>3. gate' \in Gate
    BY <1>7 DEF BeginGateMismatch, TypeInv, TypeOK, Gate, GateOutcome
  <2>4. QED
    BY <1>7, <2>1, <2>2, <2>3
    DEF BeginGateMismatch, TypeInv, TypeOK, Refs, records
<1>8. CASE ProcessVerificationReady
  BY <1>8, CurrentIsArtifact, KeyTypes, VerifyPassedTypes
  DEF ProcessVerificationReady, TypeInv
<1>9. CASE ProcessIntegrationReady
  <2>1. PICK a \in CurrentArtifacts :
          \/ AuthorizeIntegration(a, AutoKey(a))
          \/ RejectDriftedArtifact(a, AutoKey(a))
    BY <1>9 DEF ProcessIntegrationReady
  <2>2. AutoKey(a) \in Key
    BY CurrentIsArtifact, KeyTypes DEF TypeInv
  <2>3. QED
    BY <2>1, <2>2, AuthorizeIntegrationTypes, RejectDriftedArtifactTypes
<1>10. QED
  BY <1>1, <1>2, <1>3, <1>4, <1>5, <1>6, <1>7, <1>8, <1>9 DEF StartTickStep

\* What a gate may record when it ends.
LEMMA EndGateTypes ==
  ASSUME TypeInv, EndGate
  PROVE  TypeInv'
<1>1. CASE FreezeDeliveryArtifact
  <2>1. task' \in TaskRow /\ rowWrites' \in Nat
    BY <1>1, MoveToTypes DEF FreezeDeliveryArtifact, TypeInv, TaskStatus
  <2>2. gate.candidate \in Candidate
    BY <1>1 DEF FreezeDeliveryArtifact, GateIdle, TypeInv, TypeOK, Gate
  <2>3. [commit |-> gate.candidate.commit, base |-> gate.candidate.base,
         baseRef |-> gate.candidate.baseRef, state |-> "current"] \in Artifact
    BY <2>2 DEF Candidate, Artifact
  <2>4. artifacts' \in Seq(Artifact)
    BY <1>1, <2>3 DEF FreezeDeliveryArtifact, TypeInv, TypeOK
  <2>5. gate' \in Gate
    BY <1>1 DEF FreezeDeliveryArtifact, Gate, GateOutcome
  <2>6. QED
    BY <1>1, <2>1, <2>4, <2>5
    DEF FreezeDeliveryArtifact, TypeInv, TypeOK, Refs, records
<1>2. CASE RecordPreliminaryGateFailure
  <2>1. PICK outcome \in GateFailures :
          /\ gate' = [candidate |-> NoCandidate, outcome |-> outcome]
          /\ MoveTo(FailureTarget(outcome))
    BY <1>2 DEF RecordPreliminaryGateFailure
  <2>2. FailureTarget(outcome) \in TaskStatus
    BY DEF FailureTarget, TaskStatus
  <2>3. task' \in TaskRow /\ rowWrites' \in Nat
    BY <2>1, <2>2, MoveToTypes DEF TypeInv
  <2>4. gate' \in Gate
    BY <2>1 DEF GateFailures, Gate, GateOutcome
  <2>5. QED
    BY <1>2, <2>3, <2>4
    DEF RecordPreliminaryGateFailure, TypeInv, TypeOK, Refs, records
<1>3. CASE DiscardGateResult
  <2>1. gate' \in Gate
    BY <1>3 DEF DiscardGateResult, TypeInv, TypeOK, Gate
  <2>2. QED
    BY <1>3, <2>1 DEF DiscardGateResult, TypeInv, TypeOK, Refs, records
<1>4. QED
  BY <1>1, <1>2, <1>3 DEF EndGate

\* What a worker may leave behind.
LEMMA WorkerTypes ==
  ASSUME TypeInv, WorkerStep
  PROVE  TypeInv'
<1>1. NoWork \in Work
  BY DEF NoWork, Work, WorkState, CommitOrNone
<1>2. CASE FinishSubtasks
  BY <1>1, <1>2 DEF FinishSubtasks, TypeInv, TypeOK, Refs, records
<1>3. CASE FinishQuickFix
  <2>1. task' \in TaskRow /\ rowWrites' \in Nat /\ used' \in Used
    BY <1>3, MoveToTypes, RoundsTypes
    DEF FinishQuickFix, TypeInv, TaskStatus
  <2>2. acceptance' \in Acceptance
    BY <1>3 DEF FinishQuickFix, TypeInv, TypeOK, Acceptance, Git,
                CommitOrNone, Work, BaseRef
  <2>3. QED
    BY <1>1, <1>3, <2>1, <2>2
    DEF FinishQuickFix, TypeInv, TypeOK, Refs, records
<1>4. CASE FailWork
  <2>1. task' \in TaskRow /\ rowWrites' \in Nat
    BY <1>4, MoveToTypes DEF FailWork, TypeInv, TaskStatus
  <2>2. QED
    BY <1>1, <1>4, <2>1 DEF FailWork, TypeInv, TypeOK, Refs, records
<1>5. QED
  BY <1>2, <1>3, <1>4 DEF WorkerStep

\* Counting a restart.
LEMMA RestartsTypes ==
  ASSUME TypeOK, Restarts
  PROVE  used' \in Used
<1>1. used' = [rounds |-> used.rounds, comments |-> used.comments,
               restarts |-> used.restarts + 1, crashes |-> used.crashes]
  BY DEF TypeOK, Restarts, Used
<1>2. QED
  BY <1>1 DEF TypeOK, Used

\* The operations of operators.
LEMMA OperatorTypes ==
  ASSUME TypeInv, OperatorStep
  PROVE  TypeInv'
<1>1. CASE Archive
  <2>1. task' \in TaskRow /\ rowWrites' \in Nat
    BY <1>1, MoveToTypes DEF Archive, TypeInv, TaskStatus
  <2>2. artifacts' \in Seq(Artifact) /\ sessions' \in Seq(Session)
    <3>1. CASE ArchiveParkedDelivery
      BY <3>1, InvalidateEffect DEF ArchiveParkedDelivery, TypeInv, TypeOK
    <3>2. CASE ArchiveHostRework
      BY <3>2, ResolveSessionTypes
      DEF ArchiveHostRework, TypeInv, TypeOK, SessionState, CommitOrNone
    <3>3. CASE ArchiveOther
      BY <3>3 DEF ArchiveOther, TypeInv, TypeOK
    <3>4. QED
      BY <1>1, <3>1, <3>2, <3>3 DEF Archive
  <2>3. QED
    BY <1>1, <2>1, <2>2 DEF Archive, TypeInv, TypeOK, Refs, records
<1>2. CASE CommentTask
  <2>1. task' \in TaskRow /\ rowWrites' \in Nat
    BY <1>2, StayTypes DEF CommentTask, TypeInv
  <2>2. used' \in Used
    <3>1. used' = [used EXCEPT !.comments = used.comments + 1]
      BY <1>2 DEF CommentTask
    <3>2. used \in Used /\ used.comments + 1 \in Nat
      BY DEF TypeInv, TypeOK, Used
    <3>3. QED
      BY <3>1, <3>2 DEF Used
  <2>3. QED
    BY <1>2, <2>1, <2>2 DEF CommentTask, TypeInv, TypeOK, Refs, records
<1>3. CASE RetryPausedPreliminaryGate
  <2>1. task' \in TaskRow /\ rowWrites' \in Nat /\ used' \in Used
    BY <1>3, MoveToTypes, RoundsTypes
    DEF RetryPausedPreliminaryGate, TypeInv, TaskStatus
  <2>2. QED
    BY <1>3, <2>1
    DEF RetryPausedPreliminaryGate, TypeInv, TypeOK, Refs, records
<1>4. CASE ResumeTask
  <2>1. task' \in TaskRow /\ rowWrites' \in Nat
    BY <1>4, MoveToTypes DEF ResumeTask, TypeInv, TaskStatus
  <2>2. used' \in Used
    BY <1>4, RestartsTypes DEF ResumeTask, TypeInv
  <2>3. QED
    BY <1>4, <2>1, <2>2 DEF ResumeTask, TypeInv, TypeOK, Refs, records
<1>5. CASE RetryTask
  <2>1. task' = [status |-> "backlog", version |-> task.version + 1,
                 base |-> NoCommit]
    BY <1>5 DEF RetryTask, TypeInv, TypeOK, TaskRow
  <2>2. task.version + 1 \in Nat \ {0}
    BY DEF TypeInv, TypeOK, TaskRow
  <2>3. task' \in TaskRow
    BY <2>1, <2>2 DEF TaskRow, TaskStatus, CommitOrNone
  <2>4. git' \in Git /\ Refs'
    BY <1>5 DEF RetryTask, TypeInv, TypeOK, Refs, Git, CommitOrNone
  <2>5. used' \in Used /\ rowWrites' \in Nat
    BY <1>5, RestartsTypes DEF RetryTask, TypeInv, TypeOK
  <2>6. QED
    BY <1>5, <2>3, <2>4, <2>5 DEF RetryTask, TypeInv, TypeOK, records
<1>6. QED
  BY <1>1, <1>2, <1>3, <1>4, <1>5 DEF OperatorStep

\* New commits extend the history, and the refs name commits in it.
LEMMA WorldTypes ==
  ASSUME TypeInv, WorldStep
  PROVE  TypeInv'
<1>1. git.history \in Seq(SUBSET Commit) /\ git \in Git
  BY DEF TypeInv, TypeOK, Git
<1>2. CASE BranchAdvances
  <2>1. PICK parent \in DOMAIN git.history :
          git' = [git EXCEPT !.history = WithCommit(git.history, {parent}),
                             !.branch = NextCommit(git.history)]
    BY <1>2 DEF BranchAdvances
  <2>2. git' = [history |-> WithCommit(git.history, {parent}),
                target |-> git.target, branch |-> NextCommit(git.history)]
    BY <1>1, <2>1 DEF Git
  <2>3. {parent} \in SUBSET DOMAIN git.history
    OBVIOUS
  <2> DEFINE h == WithCommit(git.history, {parent})
             c == NextCommit(git.history)
  <2>4. /\ h \in Seq(SUBSET Commit) /\ c \in Commit
        /\ DOMAIN h = DOMAIN git.history \union {c}
    BY <1>1, <2>3, WithCommitExtends DEF Git
  <2>5. /\ git.target \in Commit /\ git.target \in DOMAIN git.history
        /\ git'.history = h /\ git'.target = git.target /\ git'.branch = c
    BY <1>1, <2>2 DEF Git, TypeInv, Refs
  <2> HIDE DEF h, c
  <2>6. git' \in Git
    BY <2>2, <2>4, <2>5 DEF Git, CommitOrNone, h, c
  <2>7. Refs'
    BY <2>4, <2>5 DEF Refs
  <2>8. QED
    BY <1>2, <2>6, <2>7 DEF BranchAdvances, TypeInv, TypeOK, records
<1>3. CASE TargetAdvances
  <2>1. git' = [history |-> WithCommit(git.history, {git.target}),
                target |-> NextCommit(git.history), branch |-> git.branch]
    BY <1>1, <1>3 DEF TargetAdvances, Git
  <2>2. {git.target} \in SUBSET DOMAIN git.history
    BY DEF TypeInv, Refs
  <2> DEFINE h == WithCommit(git.history, {git.target})
             c == NextCommit(git.history)
  <2>3. /\ h \in Seq(SUBSET Commit) /\ c \in Commit
        /\ DOMAIN h = DOMAIN git.history \union {c}
    BY <1>1, <2>2, WithCommitExtends DEF Git
  <2>4. /\ git.branch \in CommitOrNone
        /\ git.branch \in DOMAIN git.history \union {NoCommit}
        /\ git'.history = h /\ git'.target = c /\ git'.branch = git.branch
    BY <1>1, <2>1 DEF Git, TypeInv, Refs
  <2> HIDE DEF h, c
  <2>5. git' \in Git
    BY <2>1, <2>3, <2>4 DEF Git, h, c
  <2>6. Refs'
    BY <2>3, <2>4 DEF Refs
  <2>7. QED
    BY <1>3, <2>5, <2>6 DEF TargetAdvances, TypeInv, TypeOK, records
<1>4. QED
  BY <1>2, <1>3 DEF WorldStep

\* Every step leaves well-formed rows.
LEMMA TypeStep == TypeInv /\ [Next]_vars => TypeInv'
<1> SUFFICES ASSUME TypeInv, [Next]_vars
             PROVE  TypeInv'
  OBVIOUS
<1>1. CASE Crash
  <2>1. gate' \in Gate /\ used' \in Used
    BY <1>1 DEF Crash, TypeInv, TypeOK, Gate, Used
  <2>2. QED
    BY <1>1, <2>1 DEF Crash, TypeInv, TypeOK, Refs, records
<1>2. CASE UNCHANGED vars
  BY <1>2 DEF vars, TypeInv, TypeOK, Refs, records
<1>3. QED
  BY <1>1, <1>2, StartTickTypes, EndGateTypes, WorkerTypes,
     ComposeRequestTypes, DeliverRequestTypes, OperatorTypes, WorldTypes
  DEF Next, ClientStep

\* In every behaviour of the delivery protocol all rows are well formed, and
\* the target and feature refs name commits that exist.
THEOREM TypeCorrectness == Spec => []TypeInv
<1>1. Init => TypeInv
  BY TypeInit
<1>2. TypeInv /\ [Next]_vars => TypeInv'
  BY TypeStep
<1>3. QED
  BY <1>1, <1>2, PTL DEF Spec

\* The type invariant the runs check.
COROLLARY TypeSafety == Spec => []TypeOK
<1>1. TypeInv => TypeOK
  BY DEF TypeInv
<1>2. QED
  BY <1>1, TypeCorrectness, PTL

-----------------------------------------------------------------------------
(* Evidence                                                                *)
(*                                                                         *)
(* The two evidence properties are inductive together with two facts about *)
(* the rows they speak of: at most the newest artifact is current, and     *)
(* every record is about an artifact that exists, at its commit.           *)

OneCurrent == CurrentArtifacts \subseteq {Len(artifacts)}

RecordsReferToArtifacts ==
  /\ \A v \in verifications :
       v.artifact \in DOMAIN artifacts /\ v.commit = artifacts[v.artifact].commit
  /\ \A i \in authorizations : i.artifact \in DOMAIN artifacts
  /\ \A r \in reworks : r.artifact \in DOMAIN artifacts

EvidenceInv ==
  /\ OneCurrent
  /\ RecordsReferToArtifacts
  /\ ParkedDeliveryHasEvidence
  /\ EvidenceIsConsistent

\* The statuses in which ParkedDeliveryHasEvidence asks for something.
Evidenced == {"verification_ready", "integration_ready", "merging"}

\* No rows, and a status that needs none.
LEMMA EvidenceInit == Init => EvidenceInv
BY DEF Init, EvidenceInv, OneCurrent, RecordsReferToArtifacts,
       ParkedDeliveryHasEvidence, EvidenceIsConsistent, CurrentArtifacts,
       IsCurrent

\* A step that leaves artifacts and records alone, and the status too unless
\* it takes the task to one that needs no evidence.
LEMMA EvidenceFrame ==
  ASSUME EvidenceInv, UNCHANGED <<artifacts, records>>,
         task'.status = task.status \/ task'.status \notin Evidenced
  PROVE  EvidenceInv'
<1>1. /\ CurrentArtifacts' = CurrentArtifacts
      /\ \A a : /\ VerdictsOn(a)' = VerdictsOn(a)
                /\ IntentsOn(a)' = IntentsOn(a)
                /\ ReworksOn(a)' = ReworksOn(a)
                /\ PassingVerifications(a)' = PassingVerifications(a)
  BY DEF records, CurrentArtifacts, VerdictsOn, IntentsOn, ReworksOn,
         PassingVerifications
<1>2. OneCurrent' /\ RecordsReferToArtifacts'
  BY <1>1 DEF EvidenceInv, OneCurrent, RecordsReferToArtifacts, records
<1>3. EvidenceIsConsistent'
  BY <1>1 DEF EvidenceInv, EvidenceIsConsistent, IsCurrent, records
<1>4. ParkedDeliveryHasEvidence'
  BY <1>1 DEF EvidenceInv, ParkedDeliveryHasEvidence, Evidenced, records
<1>5. QED
  BY <1>2, <1>3, <1>4 DEF EvidenceInv

\* A step that invalidates the current artifact, leaves the records alone and
\* takes the task to a status that needs no evidence.
LEMMA EvidenceInvalidated ==
  ASSUME TypeInv, EvidenceInv, NEW a \in CurrentArtifacts, Invalidate(a),
         UNCHANGED records, task'.status \notin Evidenced
  PROVE  EvidenceInv'
<1>1. /\ Len(artifacts') = Len(artifacts)
      /\ DOMAIN artifacts' = DOMAIN artifacts
      /\ \A b \in DOMAIN artifacts :
           /\ artifacts'[b].commit = artifacts[b].commit
           /\ artifacts'[b].base = artifacts[b].base
      /\ CurrentArtifacts' \subseteq CurrentArtifacts
  BY InvalidateEffect DEF TypeInv, TypeOK
<1>2. \A b : /\ ReworksOn(b)' = ReworksOn(b)
             /\ PassingVerifications(b)' = PassingVerifications(b)
  BY DEF records, ReworksOn, PassingVerifications
<1>3. OneCurrent' /\ RecordsReferToArtifacts'
  BY <1>1 DEF EvidenceInv, OneCurrent, RecordsReferToArtifacts, records
<1>4. EvidenceIsConsistent'
  BY <1>1, <1>2
  DEF EvidenceInv, EvidenceIsConsistent, IsCurrent, records,
      RecordsReferToArtifacts
<1>5. ParkedDeliveryHasEvidence'
  BY DEF ParkedDeliveryHasEvidence, Evidenced
<1>6. QED
  BY <1>3, <1>4, <1>5 DEF EvidenceInv

\* A new artifact: no record speaks of it yet.
LEMMA EvidenceFrozen ==
  ASSUME TypeInv, EvidenceInv, FreezeDeliveryArtifact
  PROVE  EvidenceInv'
<1> DEFINE new == [commit  |-> gate.candidate.commit,
                   base    |-> gate.candidate.base,
                   baseRef |-> gate.candidate.baseRef, state |-> "current"]
<1>1. artifacts' = Append(artifacts, new) /\ CurrentArtifacts = {}
      /\ UNCHANGED records /\ task'.status = "verification_ready"
  BY MoveToTypes DEF FreezeDeliveryArtifact, TypeInv, TaskStatus
<1>2. /\ Len(artifacts') = Len(artifacts) + 1
      /\ DOMAIN artifacts' = DOMAIN artifacts \union {Len(artifacts) + 1}
      /\ Len(artifacts) + 1 \notin DOMAIN artifacts
      /\ \A b \in DOMAIN artifacts : artifacts'[b] = artifacts[b]
      /\ artifacts'[Len(artifacts) + 1] = new
  BY <1>1 DEF TypeInv, TypeOK
<1>3. CurrentArtifacts' = {Len(artifacts')}
  BY <1>1, <1>2 DEF CurrentArtifacts
<1>4. \A b : /\ ReworksOn(b)' = ReworksOn(b)
             /\ VerdictsOn(b)' = VerdictsOn(b)
             /\ PassingVerifications(b)' = PassingVerifications(b)
  BY <1>1 DEF records, ReworksOn, VerdictsOn, PassingVerifications
<1>5. /\ \A v \in verifications' : v.artifact # Len(artifacts')
      /\ \A r \in reworks' : r.artifact # Len(artifacts')
  BY <1>1, <1>2 DEF EvidenceInv, RecordsReferToArtifacts, records
<1>6. OneCurrent' /\ RecordsReferToArtifacts'
  BY <1>1, <1>2, <1>3
  DEF EvidenceInv, OneCurrent, RecordsReferToArtifacts, records
<1>7. EvidenceIsConsistent'
  <2>1. EvidenceIsConsistent /\ RecordsReferToArtifacts
    BY DEF EvidenceInv
  <2>2. \A i \in authorizations' :
          /\ ReworksOn(i.artifact)' = {}
          /\ \E v \in PassingVerifications(i.artifact)' :
               v.key = i.verification /\ v.commit = i.commit
    BY <1>1, <1>4, <2>1 DEF EvidenceIsConsistent, records
  <2>3. \A i \in authorizations' :
          /\ i.commit = artifacts'[i.artifact].commit
          /\ i.base = artifacts'[i.artifact].base
    BY <1>1, <1>2, <2>1
    DEF EvidenceIsConsistent, RecordsReferToArtifacts, records
  <2>4. \A r \in reworks' : ~IsCurrent(r.artifact)'
    BY <1>3, <1>5 DEF IsCurrent
  <2>5. QED
    BY <1>1, <2>1, <2>2, <2>3, <2>4 DEF EvidenceIsConsistent, records
<1>8. ParkedDeliveryHasEvidence'
  BY <1>1, <1>3, <1>5 DEF ParkedDeliveryHasEvidence, VerdictsOn, ReworksOn
<1>9. QED
  BY <1>6, <1>7, <1>8 DEF EvidenceInv

\* The current artifact of a parked delivery is the newest one, and in
\* verification_ready and integration_ready nothing is authorised on it.
LEMMA NothingAuthorisedYet ==
  ASSUME EvidenceInv, NEW a \in CurrentArtifacts,
         task.status \in {"verification_ready", "integration_ready"}
  PROVE  a = Len(artifacts) /\ IntentsOn(a) = {}
<1>1. a = Len(artifacts)
  BY DEF EvidenceInv, OneCurrent
<1>2. CASE task.status = "integration_ready"
  BY <1>1, <1>2 DEF EvidenceInv, ParkedDeliveryHasEvidence
<1>3. CASE task.status = "verification_ready"
  <2>1. VerdictsOn(a) = {}
    BY <1>1, <1>3 DEF EvidenceInv, ParkedDeliveryHasEvidence
  <2>2. PassingVerifications(a) = {}
    BY <2>1 DEF VerdictsOn, PassingVerifications
  <2>3. QED
    BY <1>1, <2>2 DEF EvidenceInv, EvidenceIsConsistent, IntentsOn
<1>4. QED
  BY <1>1, <1>2, <1>3

\* A passing verdict on an artifact nobody had judged.
LEMMA EvidenceVerified ==
  ASSUME TypeInv, EvidenceInv, NEW a, NEW key, VerifyPassed(a, key)
  PROVE  EvidenceInv'
<1> DEFINE verdict == [artifact |-> a, commit |-> artifacts[a].commit,
                       result |-> "passed", key |-> key]
<1>1. /\ a \in CurrentArtifacts /\ task.status = "verification_ready"
      /\ verifications' = verifications \union {verdict}
      /\ UNCHANGED <<artifacts, authorizations, reworks>>
      /\ task'.status = "integration_ready"
  BY MoveToTypes DEF VerifyPassed, IsCurrent, TypeInv, TaskStatus
<1>2. a = Len(artifacts) /\ IntentsOn(a) = {} /\ a \in DOMAIN artifacts
  BY <1>1, NothingAuthorisedYet DEF CurrentArtifacts
<1>3. VerdictsOn(a) = {} /\ ReworksOn(a) = {} /\ CurrentArtifacts = {a}
  BY <1>1, <1>2 DEF EvidenceInv, ParkedDeliveryHasEvidence
<1>4. /\ CurrentArtifacts' = CurrentArtifacts
      /\ VerdictsOn(a)' = {verdict}
      /\ \A b : /\ IntentsOn(b)' = IntentsOn(b)
                /\ ReworksOn(b)' = ReworksOn(b)
                /\ PassingVerifications(b) \subseteq PassingVerifications(b)'
  BY <1>1, <1>3 DEF CurrentArtifacts, VerdictsOn, IntentsOn, ReworksOn,
                    PassingVerifications
<1>5. OneCurrent' /\ RecordsReferToArtifacts'
  BY <1>1, <1>2, <1>4 DEF EvidenceInv, OneCurrent, RecordsReferToArtifacts
<1>6. EvidenceIsConsistent'
  <2>1. \A v, w \in verifications' : v.artifact = w.artifact => v = w
    BY <1>1, <1>3 DEF EvidenceInv, EvidenceIsConsistent, VerdictsOn
  <2>2. QED
    BY <1>1, <1>4, <2>1 DEF EvidenceInv, EvidenceIsConsistent, IsCurrent
<1>7. ParkedDeliveryHasEvidence'
  <2>1. verdict \in verifications' /\ verdict.result = "passed"
    BY <1>1
  <2>2. QED
    BY <1>1, <1>2, <1>3, <1>4, <2>1 DEF ParkedDeliveryHasEvidence
<1>8. QED
  BY <1>5, <1>6, <1>7 DEF EvidenceInv

\* An authorization of an artifact that had none, on its one passing verdict.
LEMMA EvidenceAuthorized ==
  ASSUME TypeInv, EvidenceInv, NEW a, NEW key, AuthorizeIntegration(a, key)
  PROVE  EvidenceInv'
<1>1. /\ a \in CurrentArtifacts /\ task.status = "integration_ready"
      /\ UNCHANGED <<artifacts, verifications, reworks>>
      /\ task'.status = "merging"
  BY MoveToTypes
  DEF AuthorizeIntegration, CanAuthorize, IsCurrent, TypeInv, TaskStatus
<1>2. PICK v \in PassingVerifications(a) :
        authorizations' = authorizations \union
          {[artifact |-> a, commit |-> artifacts[a].commit,
            base |-> artifacts[a].base, baseRef |-> artifacts[a].baseRef,
            verification |-> v.key, key |-> key]}
  BY DEF AuthorizeIntegration
<1> DEFINE intent == [artifact |-> a, commit |-> artifacts[a].commit,
                      base |-> artifacts[a].base,
                      baseRef |-> artifacts[a].baseRef,
                      verification |-> v.key, key |-> key]
<1>3. a = Len(artifacts) /\ IntentsOn(a) = {} /\ a \in DOMAIN artifacts
  BY <1>1, NothingAuthorisedYet DEF CurrentArtifacts
<1>4. /\ CurrentArtifacts = {a} /\ ReworksOn(a) = {}
      /\ \E w \in verifications : w.result = "passed" /\ VerdictsOn(a) = {w}
  BY <1>1, <1>3 DEF EvidenceInv, ParkedDeliveryHasEvidence
<1>5. /\ CurrentArtifacts' = CurrentArtifacts
      /\ IntentsOn(a)' = {intent}
      /\ \A b : /\ VerdictsOn(b)' = VerdictsOn(b)
                /\ ReworksOn(b)' = ReworksOn(b)
                /\ PassingVerifications(b)' = PassingVerifications(b)
  BY <1>1, <1>2, <1>3 DEF CurrentArtifacts, VerdictsOn, IntentsOn, ReworksOn,
                          PassingVerifications
<1>6. OneCurrent' /\ RecordsReferToArtifacts'
  BY <1>1, <1>2, <1>3, <1>5
  DEF EvidenceInv, OneCurrent, RecordsReferToArtifacts
<1>7. EvidenceIsConsistent'
  <2>1. \A i, j \in authorizations' : i.artifact = j.artifact => i = j
    BY <1>2, <1>3 DEF EvidenceInv, EvidenceIsConsistent, IntentsOn
  <2>2. v.commit = intent.commit /\ v.key = intent.verification
    BY DEF PassingVerifications, EvidenceInv, RecordsReferToArtifacts
  <2>3. \A i \in authorizations' :
          /\ ReworksOn(i.artifact)' = {}
          /\ \E w \in PassingVerifications(i.artifact)' :
               w.key = i.verification /\ w.commit = i.commit
          /\ i.commit = artifacts'[i.artifact].commit
          /\ i.base = artifacts'[i.artifact].base
    BY <1>1, <1>2, <1>4, <1>5, <2>2 DEF EvidenceInv, EvidenceIsConsistent
  <2>4. QED
    BY <1>1, <1>5, <2>1, <2>3
    DEF EvidenceInv, EvidenceIsConsistent, IsCurrent
<1>8. ParkedDeliveryHasEvidence'
  <2>1. intent \in authorizations'
    BY <1>2
  <2>2. QED
    BY <1>1, <1>3, <1>4, <1>5, <2>1 DEF ParkedDeliveryHasEvidence
<1>9. QED
  BY <1>6, <1>7, <1>8 DEF EvidenceInv

\* A delivery that is sent back: with a failed verdict on an artifact nobody
\* had judged, or with none.
LEMMA EvidenceSentBack ==
  ASSUME TypeInv, EvidenceInv, NEW a \in CurrentArtifacts, NEW mode,
         NEW actor, NEW key, SendBack(a, mode, actor, key),
         task.status \in {"verification_ready", "integration_ready"},
         \/ UNCHANGED verifications
         \/ /\ task.status = "verification_ready"
            /\ verifications' = verifications \union
                 {[artifact |-> a, commit |-> artifacts[a].commit,
                   result |-> "failed", key |-> key]}
  PROVE  EvidenceInv'
<1>1. /\ UNCHANGED authorizations
      /\ Invalidate(a)
      /\ reworks' = reworks \union {[artifact |-> a,
                                     commit |-> artifacts[a].commit,
                                     mode |-> mode, key |-> key]}
      /\ task'.status \notin Evidenced
  BY MoveToTypes DEF SendBack, TypeInv, TaskStatus, Evidenced
<1>2. /\ Len(artifacts') = Len(artifacts)
      /\ DOMAIN artifacts' = DOMAIN artifacts
      /\ \A b \in DOMAIN artifacts :
           /\ artifacts'[b].commit = artifacts[b].commit
           /\ artifacts'[b].base = artifacts[b].base
      /\ CurrentArtifacts' = CurrentArtifacts \ {a}
      /\ a \in DOMAIN artifacts
  BY <1>1, InvalidateEffect DEF TypeInv, TypeOK, CurrentArtifacts
<1>3. a = Len(artifacts) /\ IntentsOn(a) = {}
  BY NothingAuthorisedYet
<1>4. OneCurrent' /\ RecordsReferToArtifacts'
  <2>1. OneCurrent'
    BY <1>2 DEF EvidenceInv, OneCurrent
  <2>2. \A w \in verifications' :
          /\ w.artifact \in DOMAIN artifacts'
          /\ w.commit = artifacts'[w.artifact].commit
    BY <1>2 DEF EvidenceInv, RecordsReferToArtifacts
  <2>3. QED
    BY <1>1, <1>2, <2>1, <2>2 DEF EvidenceInv, RecordsReferToArtifacts
<1>5. EvidenceIsConsistent'
  <2>1. \A v, w \in verifications' : v.artifact = w.artifact => v = w
    <3>1. CASE UNCHANGED verifications
      BY <3>1 DEF EvidenceInv, EvidenceIsConsistent
    <3>2. CASE task.status = "verification_ready"
      <4>1. VerdictsOn(a) = {}
        BY <1>3, <3>2 DEF EvidenceInv, ParkedDeliveryHasEvidence
      <4>2. QED
        BY <4>1 DEF EvidenceInv, EvidenceIsConsistent, VerdictsOn
    <3>3. QED
      BY <3>1, <3>2
  <2>2. \A i \in authorizations :
          /\ i.artifact # a
          /\ ReworksOn(i.artifact)' = {}
          /\ PassingVerifications(i.artifact)
               \subseteq PassingVerifications(i.artifact)'
    <3>1. verifications \subseteq verifications'
      OBVIOUS
    <3>2. QED
      BY <1>1, <1>3, <3>1
      DEF EvidenceInv, EvidenceIsConsistent, IntentsOn, ReworksOn,
          PassingVerifications
  <2>3. \A i \in authorizations' :
          /\ ReworksOn(i.artifact)' = {}
          /\ \E w \in PassingVerifications(i.artifact)' :
               w.key = i.verification /\ w.commit = i.commit
          /\ i.commit = artifacts'[i.artifact].commit
          /\ i.base = artifacts'[i.artifact].base
    BY <1>1, <1>2, <2>2
    DEF EvidenceInv, EvidenceIsConsistent, RecordsReferToArtifacts
  <2>4. \A r \in reworks' : ~IsCurrent(r.artifact)'
    BY <1>1, <1>2 DEF EvidenceInv, EvidenceIsConsistent, IsCurrent
  <2>5. QED
    BY <1>1, <2>1, <2>3, <2>4 DEF EvidenceInv, EvidenceIsConsistent
<1>6. ParkedDeliveryHasEvidence'
  BY <1>1 DEF ParkedDeliveryHasEvidence, Evidenced
<1>7. QED
  BY <1>4, <1>5, <1>6 DEF EvidenceInv

\* VerifyDelivery with a failed verdict is a SendBack.
LEMMA EvidenceFailed ==
  ASSUME TypeInv, EvidenceInv, NEW a, NEW mode, NEW actor, NEW key,
         VerifyFailed(a, mode, actor, key)
  PROVE  EvidenceInv'
BY EvidenceSentBack DEF VerifyFailed, IsCurrent

\* RequestDeliveryRework is a SendBack.
LEMMA EvidenceReworked ==
  ASSUME TypeInv, EvidenceInv, NEW a, NEW mode, NEW actor, NEW key,
         RequestDeliveryRework(a, mode, actor, key)
  PROVE  EvidenceInv'
BY EvidenceSentBack DEF RequestDeliveryRework, IsCurrent

\* An artifact that drifted is invalidated with the transition.
LEMMA EvidenceRejected ==
  ASSUME TypeInv, EvidenceInv, NEW a, NEW key, RejectDriftedArtifact(a, key)
  PROVE  EvidenceInv'
<1>1. /\ a \in CurrentArtifacts /\ Invalidate(a) /\ UNCHANGED records
      /\ task'.status \notin Evidenced
  BY MoveToTypes
  DEF RejectDriftedArtifact, CanAuthorize, IsCurrent, TypeInv, TaskStatus,
      Evidenced
<1>2. QED
  BY <1>1, EvidenceInvalidated

\* Archiving invalidates the artifact of a parked delivery, and in every other
\* status leaves the rows alone.
LEMMA EvidenceArchived ==
  ASSUME TypeInv, EvidenceInv, Archive
  PROVE  EvidenceInv'
<1>1. task'.status \notin Evidenced /\ UNCHANGED records
  BY MoveToTypes DEF Archive, TypeInv, TaskStatus, Evidenced
<1>2. CASE UNCHANGED artifacts
  BY <1>1, <1>2, EvidenceFrame
<1>3. CASE ArchiveParkedDelivery
  <2>1. PICK a \in CurrentArtifacts : Invalidate(a)
    BY <1>3 DEF ArchiveParkedDelivery
  <2>2. QED
    BY <1>1, <2>1, EvidenceInvalidated
<1>4. QED
  BY <1>2, <1>3 DEF Archive, ArchiveHostRework, ArchiveOther

\* Requests of clients, delivered at any time and any number of times.
LEMMA EvidenceClient ==
  ASSUME TypeInv, EvidenceInv, ClientStep
  PROVE  EvidenceInv'
<1>1. CASE ComposeRequest
  BY <1>1, EvidenceFrame DEF ComposeRequest
<1>2. CASE DeliverRequest
  <2>1. PICK i \in DOMAIN requests :
          \/ DeliverVerify(i) \/ DeliverFail(i) \/ DeliverRework(i)
          \/ DeliverIntegrate(i) \/ DeliverSubmit(i) \/ DeliverAbandon(i)
    BY <1>2 DEF DeliverRequest
  <2>2. CASE DeliverVerify(i)
    BY <2>2, EvidenceVerified DEF DeliverVerify
  <2>3. CASE DeliverFail(i)
    BY <2>3, EvidenceFailed DEF DeliverFail
  <2>4. CASE DeliverRework(i)
    BY <2>4, EvidenceReworked DEF DeliverRework
  <2>5. CASE DeliverIntegrate(i)
    BY <2>5, EvidenceAuthorized, EvidenceRejected DEF DeliverIntegrate
  <2>6. CASE DeliverSubmit(i)
    <3>1. task'.status \notin Evidenced /\ UNCHANGED <<artifacts, records>>
      BY <2>6, MoveToTypes
      DEF DeliverSubmit, SubmitHostRework, TypeInv, TaskStatus, Evidenced
    <3>2. QED
      BY <3>1, EvidenceFrame
  <2>7. CASE DeliverAbandon(i)
    <3>1. task'.status \notin Evidenced /\ UNCHANGED <<artifacts, records>>
      BY <2>7, MoveToTypes
      DEF DeliverAbandon, AbandonHostRework, TypeInv, TaskStatus, Evidenced
    <3>2. QED
      BY <3>1, EvidenceFrame
  <2>8. QED
    BY <2>1, <2>2, <2>3, <2>4, <2>5, <2>6, <2>7
<1>3. QED
  BY <1>1, <1>2 DEF ClientStep

\* The steps of the tick: three touch the rows, the others take the task to a
\* status that needs no evidence or leave it where it is.
LEMMA EvidenceTick ==
  ASSUME TypeInv, EvidenceInv, StartTickStep
  PROVE  EvidenceInv'
<1>1. CASE ProcessVerificationReady
  BY <1>1, EvidenceVerified DEF ProcessVerificationReady
<1>2. CASE ProcessIntegrationReady
  <2>1. PICK a \in CurrentArtifacts :
          \/ AuthorizeIntegration(a, AutoKey(a))
          \/ RejectDriftedArtifact(a, AutoKey(a))
    BY <1>2 DEF ProcessIntegrationReady
  <2>2. QED
    BY <2>1, EvidenceAuthorized, EvidenceRejected
<1>3. CASE StartRework \/ BeginGate
  BY <1>3, EvidenceFrame DEF StartRework, BeginGate
<1>4. CASE \/ PrepareDelivery \/ FailEmptyFeature
           \/ FailOnConstraints \/ PauseOnConstraints \/ BeginGateMismatch
  <2>1. task'.status \notin Evidenced /\ UNCHANGED <<artifacts, records>>
    BY <1>4, MoveToTypes
    DEF PrepareDelivery, FailEmptyFeature, FailOnConstraints,
        PauseOnConstraints, BeginGateMismatch, TypeInv, TaskStatus, Evidenced
  <2>2. QED
    BY <2>1, EvidenceFrame
<1>5. CASE ProcessQuickFix
  <2>1. task'.status = "in_progress" /\ UNCHANGED <<artifacts, records>>
    BY <1>5 DEF ProcessQuickFix, TypeInv, TypeOK, TaskRow
  <2>2. QED
    BY <2>1, EvidenceFrame DEF Evidenced
<1>6. QED
  BY <1>1, <1>2, <1>3, <1>4, <1>5 DEF StartTickStep

\* The end of a gate, workers, operators, Git and restarts.
LEMMA EvidenceOther ==
  ASSUME TypeInv, EvidenceInv,
         EndGate \/ WorkerStep \/ OperatorStep \/ WorldStep \/ Crash
  PROVE  EvidenceInv'
<1>1. CASE FreezeDeliveryArtifact
  BY <1>1, EvidenceFrozen
<1>2. CASE Archive
  BY <1>2, EvidenceArchived
<1>3. CASE DiscardGateResult \/ FinishSubtasks \/ BranchAdvances
           \/ TargetAdvances \/ Crash
  BY <1>3, EvidenceFrame
  DEF DiscardGateResult, FinishSubtasks, BranchAdvances, TargetAdvances, Crash
<1>4. CASE CommentTask
  <2>1. task'.status = task.status /\ UNCHANGED <<artifacts, records>>
    BY <1>4, StayTypes DEF CommentTask, TypeInv
  <2>2. QED
    BY <2>1, EvidenceFrame
<1>5. CASE FinishQuickFix \/ FailWork \/ RetryPausedPreliminaryGate
           \/ ResumeTask
  <2>1. task'.status \notin Evidenced /\ UNCHANGED <<artifacts, records>>
    BY <1>5, MoveToTypes
    DEF FinishQuickFix, FailWork, RetryPausedPreliminaryGate, ResumeTask,
        TypeInv, TaskStatus, Evidenced
  <2>2. QED
    BY <2>1, EvidenceFrame
<1>6. CASE RecordPreliminaryGateFailure
  <2>1. PICK outcome \in GateFailures : MoveTo(FailureTarget(outcome))
    BY <1>6 DEF RecordPreliminaryGateFailure
  <2>2. /\ FailureTarget(outcome) \in TaskStatus
        /\ FailureTarget(outcome) \notin Evidenced
    BY DEF FailureTarget, TaskStatus, Evidenced
  <2>3. task'.status \notin Evidenced
    BY <2>1, <2>2, MoveToTypes DEF TypeInv
  <2>4. QED
    BY <1>6, <2>3, EvidenceFrame DEF RecordPreliminaryGateFailure
<1>7. CASE RetryTask
  <2>1. task'.status = "backlog" /\ UNCHANGED <<artifacts, records>>
    BY <1>7 DEF RetryTask, TypeInv, TypeOK, TaskRow
  <2>2. QED
    BY <2>1, EvidenceFrame DEF Evidenced
<1>8. QED
  BY <1>1, <1>2, <1>3, <1>4, <1>5, <1>6, <1>7
  DEF EndGate, WorkerStep, OperatorStep, WorldStep

\* Every step preserves the invariant.
LEMMA EvidenceStep == TypeInv /\ EvidenceInv /\ [Next]_vars => EvidenceInv'
<1> SUFFICES ASSUME TypeInv, EvidenceInv, [Next]_vars
             PROVE  EvidenceInv'
  OBVIOUS
<1>1. CASE UNCHANGED vars
  BY <1>1, EvidenceFrame DEF vars
<1>2. QED
  BY <1>1, EvidenceClient, EvidenceTick, EvidenceOther DEF Next

\* Together the evidence properties are an invariant of the protocol.
THEOREM EvidenceCorrectness == Spec => []EvidenceInv
<1>1. TypeInv /\ EvidenceInv /\ [Next]_vars => EvidenceInv'
  BY EvidenceStep
<1>2. QED
  BY <1>1, EvidenceInit, TypeCorrectness, PTL DEF Spec

\* A parked delivery always has exactly the evidence its status stands for,
\* whatever clients repeat or delay, and whichever policies run beside them.
THEOREM ParkedDeliverySafety == Spec => []ParkedDeliveryHasEvidence
<1>1. EvidenceInv => ParkedDeliveryHasEvidence
  BY DEF EvidenceInv
<1>2. QED
  BY <1>1, EvidenceCorrectness, PTL

\* An artifact is judged at most once and authorised at most once, on a
\* passing verdict on the same commit, and never after it was sent back.
THEOREM EvidenceSafety == Spec => []EvidenceIsConsistent
<1>1. EvidenceInv => EvidenceIsConsistent
  BY DEF EvidenceInv
<1>2. QED
  BY <1>1, EvidenceCorrectness, PTL

=============================================================================
