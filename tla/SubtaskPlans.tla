---------------------------- MODULE SubtaskPlans ----------------------------
(***************************************************************************)
(* The pure part of plan execution (internal/orchestrator: scheduler.go,   *)
(* subtask_scheduling.go, plan_validation.go, parent_readiness.go,         *)
(* test_writing.go, task_processing.go).                                   *)
(*                                                                         *)
(* An entry of a plan is [phase, deps, testsFor, files]; deps and testsFor *)
(* are sequences of entry numbers.  The children of a task are a sequence  *)
(* of rows in the order they were created, so that the number of a row is  *)
(* its identity and the greater number is the newer row.  A title is the   *)
(* number of the entry with a revision; files are a set of paths.          *)
(***************************************************************************)
EXTENDS Naturals, Sequences, FiniteSets, SequencesExt, TLC

Phases == {"test", "implementation", "integration", ""}

PlanEntry == [ phase : Phases, deps : Seq(Nat), testsFor : Seq(Nat),
               files : SUBSET STRING ]

\* The statuses a wave group does not wait for.
Settled == {"done", "failed", "rejected", "cancelled"}

With(rows, status) == { n \in DOMAIN rows : rows[n].status = status }

-----------------------------------------------------------------------------
(* Plans *)

\* The rules of ValidatePlan that are errors and not warnings: dependencies
\* without a cycle; once any entry has a phase, one test for every
\* implementation (an exception stands for the test), tests that do not wait
\* for implementations; an implementation has at most two files, and is their
\* only owner among implementations.
ValidPlan(entries, exempt) ==
  LET N == DOMAIN entries
      In(phase) == { n \in N : entries[n].phase = phase }
      Reach == [ n \in N |->
        FoldLeft(LAMBDA seen, i :
                   seen \cup UNION { ToSet(entries[m].deps) : m \in seen },
                 ToSet(entries[n].deps), [ i \in N |-> i ]) ]
  IN /\ N # {}
     /\ \A n \in N : ToSet(entries[n].deps) \subseteq N /\ n \notin Reach[n]
     /\ In("") # N =>
          /\ \A n \in In("test") :
               /\ Len(entries[n].testsFor) = 1
               /\ ToSet(entries[n].testsFor) \subseteq In("implementation")
               /\ ToSet(entries[n].deps) \cap In("implementation") = {}
          /\ \A n, m \in In("test") :
               n # m => entries[n].testsFor # entries[m].testsFor
          /\ \A n \in In("implementation") \ exempt :
               \E m \in In("test") : entries[m].testsFor = <<n>>
     /\ \A n \in In("implementation") : Cardinality(entries[n].files) <= 2
     /\ \A n, m \in In("implementation") :
          n # m => entries[n].files \cap entries[m].files = {}

\* Dependencies and those of a set that are not among them.  (Only what is in the
\* list, and whether twice, is ever looked at, and not its order.)
Extended(deps, more) == deps \o SetToSeq(more \ ToSet(deps))

\* An implementation waits for the test that covers it, an integration for
\* every implementation.
MergeTDDDependencies(entries) ==
  LET In(phase) == { m \in DOMAIN entries : entries[m].phase = phase }
      Covering(n) == { m \in In("test") : entries[m].testsFor = <<n>> }
  IN [ n \in DOMAIN entries |->
         Extended(entries[n].deps, IF entries[n].phase = "integration"
                                   THEN In("implementation") ELSE Covering(n)) ]

\* The rows an approved plan creates.
Materialize(entries) ==
  LET deps == MergeTDDDependencies(entries)
  IN [ n \in DOMAIN entries |->
         [ entry |-> n, rev |-> 0, phase |-> entries[n].phase,
           status |-> "backlog", deps |-> deps[n],
           testsFor |-> entries[n].testsFor, files |-> entries[n].files,
           priority |-> Len(entries) - n + 1,
           assigned |-> FALSE, kind |-> "none" ] ]

-----------------------------------------------------------------------------
(* The wave schedule *)

\* The rows that share a file with a row, or wait for it, or it for them.
Neighbours(rows, n) ==
  { m \in DOMAIN rows \ {n} : \/ rows[n].files \cap rows[m].files # {}
                              \/ m \in ToSet(rows[n].deps)
                              \/ n \in ToSet(rows[m].deps) }

\* In how many pairs of the conflict graph a row is.
Degree(rows, n) == Cardinality(Neighbours(rows, n))

\* The rows that wait for none of those left.
Unblocked(rows, left) ==
  { n \in left : ToSet(rows[n].deps) \cap left = {} }

\* The orders of the rows that may come out.  From the queue comes a row of the
\* greatest degree; a sort that is not stable leaves open which.  Rows that wait
\* for each other never get there, and follow as they were created.
TopologicalSortByDegree(rows) ==
  { order \in SetToSeqs(DOMAIN rows) :
      LET Open(i) == Unblocked(rows, { order[j] : j \in i .. Len(order) })
      IN \E queued \in 0 .. Len(order) :
           /\ \A i \in 1 .. queued :
                /\ order[i] \in Open(i)
                /\ \A n \in Open(i) : Degree(rows, n) <= Degree(rows, order[i])
           /\ queued < Len(order) => Open(queued + 1) = {}
           /\ \A i, j \in queued + 1 .. Len(order) :
                i < j => order[i] < order[j] }

\* Mutant: the group of a row ignores the groups of its dependencies.
ColourOfIgnoringOrder(rows, colours, n) ==
  Min((0 .. Len(rows))
        \ { colours[m] : m \in Neighbours(rows, n) \cap DOMAIN colours })

\* The first colour above those of the dependencies that no neighbour has.
ColourOf(rows, colours, n) ==
  LET Coloured(S) == { colours[m] : m \in S \cap DOMAIN colours }
      least == Max({0} \cup { c + 1 : c \in Coloured(ToSet(rows[n].deps)) })
  IN Min((least .. Len(rows)) \ Coloured(Neighbours(rows, n)))

\* The schedules that may be built: the group of each row, in some order found
\* in view of those before it.  Without any files all rows are in one group.
BuildSchedule(rows) ==
  LET orders == TopologicalSortByDegree(rows)
      Earlier(order, i) == { order[j] : j \in 1 .. i - 1 }
  IN IF \A n \in DOMAIN rows : rows[n].files = {}
     THEN {[ n \in DOMAIN rows |-> 0 ]}
     ELSE { schedule \in [ DOMAIN rows -> 0 .. Len(rows) - 1 ] :
              \E order \in orders : \A i \in DOMAIN order :
                schedule[order[i]] =
                  ColourOf(rows, Restrict(schedule, Earlier(order, i)), order[i]) }

-----------------------------------------------------------------------------
(* Dispatch *)

\* At least three tenths of the smaller set of files is shared.
Conflict(a, b) ==
  /\ a # {} /\ b # {}
  /\ 10 * Cardinality(a \cap b) >= 3 * Min({Cardinality(a), Cardinality(b)})

\* So few files that one shared file is a conflict, whatever it is shared with:
\* three tenths of three are less than one.
Few(files) == Cardinality(files) <= 3

\* The rows found done must be as many as the dependencies listed, so one that is
\* listed twice is never met.
DependenciesMet(rows, deps) ==
  IsInjective(deps) /\ ToSet(deps) \subseteq With(rows, "done")

WaveBlocked(rows, schedule, n) ==
  /\ n \in DOMAIN schedule
  /\ \E m \in DOMAIN schedule : /\ schedule[m] < schedule[n]
                                /\ rows[m].status \notin Settled

Running(rows) == { n \in With(rows, "in_progress") : rows[n].assigned }

\* Mutant: the phase is not looked at.
CandidatesOfAnyPhase(rows, phase) ==
  { n \in With(rows, "backlog") \cup With(rows, "in_progress") :
      rows[n].status = "in_progress" => ~rows[n].assigned }

\* Rows without a worker, of one phase while tests are written,
Candidates(rows, phase) ==
  { n \in With(rows, "backlog") \cup With(rows, "in_progress") :
      /\ rows[n].status = "in_progress" => ~rows[n].assigned
      /\ phase # "" => rows[n].phase = phase }

\* which are looked at by falling priority.
Before(rows, n, m) ==
  \/ rows[n].priority > rows[m].priority
  \/ rows[n].priority = rows[m].priority /\ n < m

\* Mutant: dependencies are not looked at.
DispatchableAnyway(rows, schedule, phase, n) ==
  /\ phase = "" => ~WaveBlocked(rows, schedule, n)
  /\ \A m \in Running(rows) : ~Conflict(rows[n].files, rows[m].files)

\* Waves do not hold back the tests.
Dispatchable(rows, schedule, phase, n) ==
  /\ DependenciesMet(rows, rows[n].deps)
  /\ phase = "" => ~WaveBlocked(rows, schedule, n)
  /\ \A m \in Running(rows) : ~Conflict(rows[n].files, rows[m].files)

Free(rows, schedule, phase) ==
  { n \in Candidates(rows, phase) : Dispatchable(rows, schedule, phase, n) }

\* Mutant: candidates are compared with running rows only.
AcceptedAlone(rows, schedule, phase) == {Free(rows, schedule, phase)}

\* The candidates accepted together (one set): each is compared with all the
\* files of those accepted before it.
Accepted(rows, schedule, phase) ==
  { accepted \in SUBSET Free(rows, schedule, phase) :
      \A n \in Free(rows, schedule, phase) :
        n \in accepted <=>
          ~Conflict(rows[n].files,
                    UNION { rows[m].files :
                              m \in { a \in accepted : Before(rows, a, n) } }) }

\* Mutant: dependencies keep naming the rejected test.
RepairNothing(rows) == rows

\* A rejected test among the dependencies of other work is replaced by the
\* newest done test of the same implementation.
RepairDependencies(rows) ==
  LET Revisions(n) == { m \in With(rows, "done") :
                          /\ rows[m].phase = "test"
                          /\ n \in ToSet(rows[m].testsFor) }
      Repaired(n, d) == IF /\ rows[d].phase = "test"
                           /\ rows[d].status = "rejected"
                        THEN Max(Revisions(n)) ELSE d
  IN [ n \in DOMAIN rows |->
         IF rows[n].phase = "test" \/ Revisions(n) = {} THEN rows[n]
         ELSE [ rows[n] EXCEPT
                  !.deps = [ i \in DOMAIN @ |-> Repaired(n, @[i]) ] ] ]

-----------------------------------------------------------------------------
(* Readiness of the parent *)

\* A rejected test all of whose implementations have a done test.
Superseded(rows) ==
  { n \in With(rows, "rejected") :
      /\ rows[n].phase = "test"
      /\ rows[n].testsFor # <<>>
      /\ \A i \in ToSet(rows[n].testsFor) :
           \E m \in With(rows, "done") :
             rows[m].phase = "test" /\ i \in ToSet(rows[m].testsFor) }

\* Mutant: any cancelled child is history.
IgnorableCancelled(row) == row.status = "cancelled"

\* A cancellation that stands for work replaced and not for work stopped.
Ignorable(row) == row.status = "cancelled" /\ row.kind = "none"

\* The tests of the current round: a rejected one with a newer revision is not.
ActiveTests(rows) ==
  { n \in DOMAIN rows :
      /\ rows[n].phase = "test"
      /\ rows[n].status = "rejected" =>
           \A m \in DOMAIN rows :
             rows[m].phase = "test" /\ rows[m].entry = rows[n].entry => m <= n }

\* A test that waits for an implementation is left for later.
FutureTest(rows, n) ==
  /\ rows[n].phase = "test" /\ rows[n].status = "backlog"
  /\ \E d \in ToSet(rows[n].deps) :
       rows[d].phase = "implementation" /\ rows[d].status # "done"

WithDependencies(rows, S) ==
  FoldLeft(LAMBDA T, i : T \cup UNION { ToSet(rows[n].deps) : n \in T },
           S, rows)

Required(rows, target) ==
  IF target = "test_review"
  THEN WithDependencies(rows,
         { n \in ActiveTests(rows) : ~FutureTest(rows, n) })
  ELSE DOMAIN rows \ Superseded(rows)

Ready(rows, target) ==
  /\ Required(rows, target) # {}
  /\ \A n \in Required(rows, target) :
       \/ Ignorable(rows[n])
       \/ /\ rows[n].status = "done"
          /\ \A d \in ToSet(rows[n].deps) : rows[d].status = "done"

\* What one look at the tests of a task in test_writing comes to.  A test in
\* the backlog whose dependencies are not done does not hold the others up.
TestsVerdict(rows) ==
  LET Waits(n) == /\ rows[n].status = "backlog"
                  /\ ~DependenciesMet(rows, rows[n].deps)
      All(statuses) == \A n \in ActiveTests(rows) :
                         rows[n].status \in statuses \/ Waits(n)
  IN CASE All({"done", "cancelled"}) ->
            IF Ready(rows, "test_review") THEN "ready" ELSE "blocked"
       [] ~All({"done", "cancelled"}) /\ All(Settled) -> "failed"
       [] OTHER -> "wait"

\* What stops a feature: a child that failed, was cancelled because of one, or
\* is a rejected test nothing replaces.
Stopping(rows) ==
  With(rows, "failed") \cup (With(rows, "rejected") \ Superseded(rows))
    \cup { n \in With(rows, "cancelled") : rows[n].kind = "dependency_failure" }

FeatureVerdict(rows) ==
  CASE \A n \in DOMAIN rows : \/ rows[n].status = "done"
                              \/ Ignorable(rows[n])
                              \/ n \in Superseded(rows) ->
         IF Ready(rows, "testing_ready") THEN "ready" ELSE "blocked"
    [] Stopping(rows) # {} -> "failed"
    [] OTHER -> "wait"

SiblingIsRunning(row) ==
  /\ row.status \notin Settled
  /\ row.status = "in_progress" \/ row.assigned

NotStarted(rows) ==
  { n \in DOMAIN rows :
      rows[n].status \notin Settled /\ ~SiblingIsRunning(rows[n]) }

\* Once one child failed, those that have not started are cancelled, each in a
\* write of its own.
CancelBlockedSiblings(rows, written) ==
  [ n \in DOMAIN rows |->
      IF n \notin written THEN rows[n]
      ELSE [ rows[n] EXCEPT !.status = "cancelled",
                            !.kind = "dependency_failure" ] ]

-----------------------------------------------------------------------------
(* Rejected tests *)

\* The newest done test of each title and implementation.
ReplacementSources(rows) ==
  LET Tests == { n \in With(rows, "done") : rows[n].phase = "test" }
      Lane(n) == { m \in Tests : /\ rows[m].entry = rows[n].entry
                                 /\ rows[m].testsFor = rows[n].testsFor }
  IN { Max(Lane(n)) : n \in Tests }

\* Done tests are rejected; a copy of each source starts over in the backlog.
RejectTests(rows, round, sources) ==
  LET Clone(n) == [ rows[n] EXCEPT !.rev = round, !.status = "backlog",
                                   !.assigned = FALSE ]
  IN [ n \in DOMAIN rows |->
         IF rows[n].phase = "test" /\ rows[n].status = "done"
         THEN [ rows[n] EXCEPT !.status = "rejected" ] ELSE rows[n] ]
     \o [ i \in DOMAIN sources |-> Clone(sources[i]) ]
=============================================================================
