------------------------------ MODULE MCPager ------------------------------
(***************************************************************************)
(* Small instances of Pager for TLC.  The module of the proofs is extended *)
(* so that TLC checks the inductive invariant as well.                     *)
(***************************************************************************)
EXTENDS PagerProofs, TLC

CONSTANTS z, a, b \* page contents: z is Zero

\* Nothing distinguishes one non-zero content from another.
Contents == Permutations({a, b})
=============================================================================
