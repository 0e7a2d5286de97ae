------------------------- MODULE MCOperatorWorkflow -------------------------
(***************************************************************************)
(* Instances of OperatorWorkflow for TLC.                                  *)
(***************************************************************************)
EXTENDS OperatorWorkflow, TLC

\* The two operators are interchangeable.
Symmetry == Permutations(Procs)
=============================================================================
