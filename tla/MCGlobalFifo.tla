---------------------------- MODULE MCGlobalFifo ----------------------------
(***************************************************************************)
(* Instances of GlobalFifo for TLC.  The tasks are interchangeable, so the *)
(* runs without a liveness property use their permutations as symmetry.    *)
(***************************************************************************)
EXTENDS GlobalFifo, TLC

TaskSymmetry == Permutations(Tasks)
=============================================================================
