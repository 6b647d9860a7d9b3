-------------------------- MODULE MCWorkerAttempts --------------------------
(***************************************************************************)
(* Instances of WorkerAttempts for TLC; the configurations give the        *)
(* constants.                                                              *)
(***************************************************************************)
EXTENDS WorkerAttempts

=============================================================================
