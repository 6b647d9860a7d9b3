-------------------------- MODULE MCPlanExecution ---------------------------
(***************************************************************************)
(* An instance of PlanExecution for TLC, with two plans: two tests that    *)
(* share a file, and their implementations; an exempt implementation, an   *)
(* entry without a phase that shares a file with it, and an integration    *)
(* with more than three files, with assumptions to clarify.                *)
(***************************************************************************)
EXTENDS PlanExecution

Entry(phase, deps, testsFor, files) ==
  [ phase |-> phase, deps |-> deps, testsFor |-> testsFor, files |-> files ]

MCPlans ==
  << [ entries |-> << Entry("test", <<>>, <<3>>, {"t"}),
                      Entry("test", <<>>, <<4>>, {"t"}),
                      Entry("implementation", <<>>, <<>>, {"p"}),
                      Entry("implementation", <<>>, <<>>, {"q"}) >>,
       exempt |-> {}, assumptions |-> FALSE ],
     [ entries |-> << Entry("implementation", <<>>, <<>>, {"p", "q"}),
                      Entry("", <<>>, <<>>, {"q", "r"}),
                      Entry("integration", <<>>, <<>>, {"p", "s", "u", "v"}) >>,
       exempt |-> {1}, assumptions |-> TRUE ] >>

=============================================================================
