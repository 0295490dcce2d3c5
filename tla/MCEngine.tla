------------------------------ MODULE MCEngine ------------------------------
(***************************************************************************)
(* Small instances of Engine for TLC.                                      *)
(***************************************************************************)
EXTENDS EngineProofs, TLC

CONSTANTS null, i1, r1, i2, long

\* 1 and 1.0 are the same to Compare, and not the same bytes.
MCClass ==
  [v \in Value |-> CASE v = null -> 0 [] v \in {i1, r1} -> 1 [] v = i2 -> 2 [] v = long -> 3]
\* A row with the long value fits in a page, but not its index entry.
MCSize == [v \in Value |-> IF v = long THEN 3 ELSE 1]

MCRows == {<<i1, i2>>, <<r1, null>>}
All == Value \X Value
MCWheres == {All, {row \in All : row[1] = i1}}
\* SET a = 1, and SET a = 2, b to the long value.
MCAssigns == {[row \in All |-> <<i1, row[2]>>], [row \in All |-> <<i2, long>>]}
MCColLists == {<<1>>, <<2, 1>>}

\* Names are interchangeable.
Names == Permutations(Tables) \cup Permutations(Indexes)
=============================================================================
