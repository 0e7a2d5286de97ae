--------------------------- MODULE MCControlPlane ---------------------------
(***************************************************************************)
(* Instances of ControlPlane for TLC.                                      *)
(***************************************************************************)
EXTENDS ControlPlane, TLC

\* Campaigns shorter than the seven operations of the code: one operation, and
\* two, the least that has a first, a next and a last one.
OneOperation == <<"program">>
TwoOperations == <<"program", "power_cycle">>

\* A claim for the whole campaign, and one for the reconciliation only.
FullStages == {Operations}
BothStages == {Operations, {"reconciliation"}}

\* Lanes, plans and targets are interchangeable, and so are transactions,
\* assets and logical identifiers.
Symmetry == Permutations(Lanes) \cup Permutations(Plans) \cup Permutations(Targets)
              \cup Permutations(Transactions) \cup Permutations(Assets)
              \cup Permutations(LogicalIDs)
=============================================================================
