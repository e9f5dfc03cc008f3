------------------------------ MODULE MCWorker ------------------------------
(* A small instance of Worker for TLC.                                     *)
EXTENDS Worker

CONSTANTS i1, i2, i3

SamePriority == [i \in {i1, i2, i3} |-> 0]
=============================================================================
