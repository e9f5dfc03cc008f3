---------------------------- MODULE MCSourceSync ----------------------------
(***************************************************************************)
(* Instances of SourceSync for TLC.                                        *)
(***************************************************************************)
EXTENDS SourceSync

CONSTANTS p1, p2, p3
=============================================================================
