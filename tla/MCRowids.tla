------------------------------ MODULE MCRowids ------------------------------
(***************************************************************************)
(* A small instance of Rowids for TLC.                                     *)
(***************************************************************************)
EXTENDS Rowids

CONSTANT u \* the payload

\* Every cell is of one size: a node holds Room of them.
Uniform == [k \in Key |-> 1]
Nothing == [v \in Val |-> 0]
=============================================================================
