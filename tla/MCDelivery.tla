----------------------------- MODULE MCDelivery -----------------------------
(***************************************************************************)
(* Delivery on small instances; the constants are in the .cfg files.       *)
(***************************************************************************)
EXTENDS Delivery, TLC

\* Client identities are interchangeable.
ActorSymmetry == Permutations(Actors)
=============================================================================
