----------------------------- MODULE TaskStates -----------------------------
(***************************************************************************)
(* The task status machine of internal/state/machine.go: the statuses a    *)
(* task may have and the transitions the guarded persistence boundary      *)
(* accepts.  A handler that asks for any other transition gets an error    *)
(* and its whole transaction is rolled back.                               *)
(***************************************************************************)

TaskStatus ==
  { "classifying", "backlog", "planning", "needs_clarification",
    "plan_review", "test_writing", "test_review", "in_progress",
    "testing_ready", "verification_ready", "host_rework",
    "integration_ready", "merging", "paused", "done", "failed",
    "rejected", "cancelled" }

ValidTransitions ==
  [ classifying         |-> {"backlog", "failed", "paused", "cancelled"},
    backlog             |-> {"planning", "in_progress", "failed", "paused",
                             "cancelled"},
    planning            |-> {"needs_clarification", "plan_review", "failed",
                             "paused", "cancelled"},
    needs_clarification |-> {"planning", "plan_review", "cancelled"},
    plan_review         |-> {"test_writing", "in_progress", "planning",
                             "cancelled"},
    test_writing        |-> {"test_review", "in_progress", "failed", "paused",
                             "planning", "cancelled"},
    test_review         |-> {"in_progress", "test_writing", "planning",
                             "failed", "cancelled"},
    in_progress         |-> {"backlog", "testing_ready", "failed", "paused",
                             "cancelled"},
    testing_ready       |-> {"verification_ready", "in_progress", "planning",
                             "failed", "paused", "cancelled"},
    verification_ready  |-> {"integration_ready", "host_rework",
                             "in_progress", "cancelled"},
    host_rework         |-> {"testing_ready", "in_progress", "cancelled"},
    integration_ready   |-> {"merging", "host_rework", "in_progress",
                             "cancelled"},
    merging             |-> {"done", "failed", "testing_ready",
                             "integration_ready", "in_progress", "cancelled"},
    paused              |-> {"classifying", "backlog", "planning",
                             "in_progress", "test_writing", "testing_ready",
                             "needs_clarification", "cancelled"},
    done                |-> {},
    failed              |-> {"classifying", "backlog", "in_progress",
                             "test_writing", "cancelled"},
    rejected            |-> {"cancelled"},
    cancelled           |-> {} ]

\* A status no transition leaves.
Terminal == { s \in TaskStatus : ValidTransitions[s] = {} }

=============================================================================
