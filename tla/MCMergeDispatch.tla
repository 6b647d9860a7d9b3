--------------------------- MODULE MCMergeDispatch ---------------------------
(***************************************************************************)
(* MergeDispatch on small instances; the constants are in the .cfg files.  *)
(***************************************************************************)
EXTENDS MergeDispatch
=============================================================================
