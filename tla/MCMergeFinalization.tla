------------------------ MODULE MCMergeFinalization ------------------------
(***************************************************************************)
(* Instances of MergeFinalization for TLC.                                 *)
(***************************************************************************)
EXTENDS MergeFinalization

CONSTANTS w1, w2
=============================================================================
