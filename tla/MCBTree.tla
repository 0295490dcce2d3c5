------------------------------ MODULE MCBTree ------------------------------
(***************************************************************************)
(* Small instances of BTree for TLC.  The module of the proofs is extended *)
(* so that TLC checks the inductive invariant as well.                     *)
(***************************************************************************)
EXTENDS BTreeRefinement

CONSTANTS slim, fat, big

\* Every key and every payload of one size: a node holds Room of them.
Uniform == [k \in Key |-> 1]
\* slim is an ordinary payload, big one that no page can hold.
BigSize == [v \in Val |-> IF v = big THEN Room ELSE 0]

\* Two fat cells are too much for a page, a fat and an ordinary one are not.
FatSize == [v \in Val |-> IF v = fat THEN 2 ELSE 0]
=============================================================================
