------------------------------ MODULE Planner ------------------------------
(***************************************************************************)
(* How internal/planner turns a WHERE clause into a scan of one index and  *)
(* a filter over what the scan does not enforce, and how internal/exec     *)
(* evaluates the clause on a row.                                          *)
(*                                                                         *)
(* A clause is the sequence of its AND-ed conjuncts.  Either a conjunct    *)
(* compares a column with a literal, on either side, or it is any other    *)
(* expression, given by its truth value on every row.                      *)
(***************************************************************************)
EXTENDS Integers, Sequences

CONSTANTS
  Value, \* the values a column may hold, and literals
  Null,  \* one of them
  Class  \* value -> its class under values.Compare, in its order

ASSUME PlannerAssumption ==
  /\ Null \in Value
  /\ Class \in [Value -> Int] /\ \A v \in Value \ {Null} : Class[Null] < Class[v]

Ops == {"=", "<>", "<", "<=", ">", ">="}

Holds(op, x, y) ==
  CASE op = "=" -> x = y
    [] op = "<>" -> x # y
    [] op = "<" -> x < y
    [] op = "<=" -> x <= y
    [] op = ">" -> x > y
    [] op = ">=" -> x >= y

\* column op literal, or, flipped, literal op column.
Comparison(col, op, lit, flipped) ==
  [kind |-> "compare", col |-> col, op |-> op, lit |-> lit, flipped |-> flipped]
Other(truth) == [kind |-> "other", truth |-> truth]

\* A clause as the parser can give it, over rows with the columns of cols.
IsClause(where, cols) ==
  /\ DOMAIN where \subseteq Nat
  /\ \A i \in DOMAIN where :
       where[i].kind = "compare" =>
         /\ where[i].col \in cols /\ where[i].op \in Ops
         /\ where[i].lit \in Value /\ where[i].flipped \in BOOLEAN

\* truth(Eval(c, row)): 1, 0, or -1 for null.
Eval(c, row) ==
  IF c.kind = "other" THEN c.truth[row]
  ELSE LET x == row[c.col]
           holds == IF c.flipped THEN Holds(c.op, Class[c.lit], Class[x])
                                 ELSE Holds(c.op, Class[x], Class[c.lit])
       IN  IF x = Null \/ c.lit = Null THEN -1 ELSE IF holds THEN 1 ELSE 0

\* The filter over the conjuncts at positions I: and3 of them all is true.
Passes(where, I, row) == \A i \in I : Eval(where[i], row) = 1

-----------------------------------------------------------------------------
Mirror(op) ==
  CASE op = "<" -> ">" [] op = ">" -> "<" [] op = "<=" -> ">=" [] op = ">=" -> "<="
    [] OTHER -> op

\* match's operator, as if the column stood on the left.
Op(c) == IF c.flipped THEN Mirror(c.op) ELSE c.op

\* A null literal holds for no row, yet sorts below every value.
Usable(c) == c.kind = "compare" /\ c.op # "<>" /\ c.lit # Null

\* The conjuncts that bound the leading column of an index.
Leading(where, ix) == {i \in DOMAIN where : Usable(where[i]) /\ where[i].col = ix.cols[1]}

Equal(where, I) == {i \in I : Op(where[i]) = "="}
Lows(where, I) == {i \in I : Op(where[i]) \in {">", ">="}}
Highs(where, I) == {i \in I : Op(where[i]) \in {"<", "<="}}

Score(where, I) ==
  IF Equal(where, I) # {} THEN 3
  ELSE IF Lows(where, I) # {} /\ Highs(where, I) # {} THEN 2
  ELSE IF Lows(where, I) \cup Highs(where, I) # {} THEN 1 ELSE 0

\* The first of the indexes, in the order of their names, that scores best; 0
\* when none can be used.
Best(where, indexes) ==
  LET score(k) == Score(where, Leading(where, indexes[k]))
      usable == {k \in DOMAIN indexes : score(k) > 0}
  IN  IF usable = {} THEN 0
      ELSE CHOOSE k \in usable :
             \A j \in usable : score(j) <= score(k) /\ (score(j) = score(k) => k <= j)

First(I) == CHOOSE i \in I : \A j \in I : i <= j

\* A bound is the conjunct it comes from: none or one.
Only(I) == IF I = {} THEN {} ELSE {First(I)}

LowBound(where, I) == Only(IF Equal(where, I) # {} THEN Equal(where, I) ELSE Lows(where, I))
HighBound(where, I) == Only(IF Equal(where, I) # {} THEN Equal(where, I) ELSE Highs(where, I))

Inclusive(c) == Op(c) \in {"=", "<=", ">="}

\* Mutant: a second bound on the same side is dropped from the filter.
ScanDropsAll(where, indexes) ==
  LET k == Best(where, indexes)
      I == IF k = 0 THEN {} ELSE Leading(where, indexes[k])
  IN  [index |-> k, low |-> LowBound(where, I), high |-> HighBound(where, I),
       rest |-> DOMAIN where \ I]

\* The plan: an index or 0 for the table, its bounds, and the conjuncts left to
\* the filter.
Scan(where, indexes) ==
  LET k == Best(where, indexes)
      I == IF k = 0 THEN {} ELSE Leading(where, indexes[k])
      low == LowBound(where, I)
      high == HighBound(where, I)
  IN  [index |-> k, low |-> low, high |-> high, rest |-> DOMAIN where \ (low \cup high)]

-----------------------------------------------------------------------------
(* The index cursor's bounds on a leading column x.                        *)

\* Seek places the cursor before the first entry not below the low bound, and
\* Next passes over those equal to an exclusive one.
FromLow(where, low, x) ==
  \A i \in low : LET y == Class[where[i].lit]
                 IN  Class[x] >= y /\ (Class[x] = y => Inclusive(where[i]))

\* Next stops at the first entry past the high bound.
ToHigh(where, high, x) ==
  \A i \in high : LET y == Class[where[i].lit]
                  IN  Class[x] <= y /\ (Class[x] = y => Inclusive(where[i]))
=============================================================================
