--------------------------- MODULE MCControlPlane ----------------------------
(***************************************************************************)
(* ControlPlane on a small instance: two agents, of whom one is told of    *)
(* what happens and cares for task events only, and an operator.           *)
(***************************************************************************)
EXTENDS ControlPlane

Personas == {"mike", "ross"}
Everyone == Personas \cup {"robin"}
PersonasTold == <<"mike">>
TaskOnly == {"mike"}

=============================================================================
