----------------------------- MODULE MCBTreeMap -----------------------------
(***************************************************************************)
(* The instance of the run BTreeMap: what the theorems about BTree ask of  *)
(* the sizes is true of it.                                                *)
(***************************************************************************)
EXTENDS MCBTree

ASSUME MapAssumption == SeparatorsFit /\ LeavesFit /\ SimilarCells(1, 1)
=============================================================================
