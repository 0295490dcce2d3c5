------------------------------ MODULE MCQuery ------------------------------
(***************************************************************************)
(* Small instances of Query for TLC.                                       *)
(***************************************************************************)
EXTENDS QueryProofs

CONSTANTS null, i1, r1, i2

\* 1 and 1.0 are one class.
MCClass == [v \in Value |-> CASE v = null -> 0 [] v \in {i1, r1} -> 1 [] v = i2 -> 2]

\* Two columns; the tables have up to three rows.
MCRows == {<<null, i2>>, <<i1, i1>>, <<r1, i2>>, <<i2, null>>}
MCContents == UNION {[1 .. n -> MCRows] : n \in 0 .. 3}

\* No index, one, a longer and a shorter one with the same leading column, and
\* one on each column.
MCSchemas ==
  {<< >>, <<[cols |-> <<1, 2>>], [cols |-> <<1>>]>>, <<[cols |-> <<2>>], [cols |-> <<1>>]>>}

\* b IS NOT NULL, or what else is not a comparison.
NotNull == Other([row \in MCRows |-> IF row[2] = null THEN 0 ELSE 1])

Parts ==
  {Comparison(1, op, r1, FALSE) : op \in Ops}
    \cup {Comparison(1, "<", i2, TRUE), Comparison(1, ">=", null, FALSE),
          Comparison(2, "<=", i2, FALSE), Comparison(2, "=", i2, TRUE), NotNull}
MCClauses ==
  {<< >>} \cup {<<c>> : c \in Parts} \cup {<<c, d>> : c, d \in Parts}
    \cup {<<Comparison(1, ">", i1, FALSE), d, Comparison(1, "<=", i2, FALSE)>> : d \in Parts}

MCOrders == {<< >>, <<[col |-> 1, desc |-> TRUE]>>,
             <<[col |-> 2, desc |-> FALSE], [col |-> 1, desc |-> TRUE]>>}
MCLimits == {[count |-> -1, offset |-> 0], [count |-> 1, offset |-> 1]}
=============================================================================
