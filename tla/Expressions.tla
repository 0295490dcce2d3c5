----------------------------- MODULE Expressions -----------------------------
(***************************************************************************)
(* Names and expressions: exec/scope.go, the column part of exec/exec.go   *)
(* and its Eval, over the trees of Parser.                                 *)
(*                                                                         *)
(* A scope is a sequence of columns [table, name].  A row is a sequence of *)
(* values.  Eval returns a value, or Error.                                *)
(***************************************************************************)
EXTENDS Values, Lexer, Parser, FiniteSets

EqualFold(v, w) == Fold(v) = Fold(w)

-----------------------------------------------------------------------------
(* Scopes.                                                                 *)

\* Mutant: a qualifier is compared with its case.
MeantCase(scope, ref) ==
  {i \in DOMAIN scope : /\ EqualFold(scope[i].name, ref.name)
                        /\ ref.table \in {<< >>, scope[i].table}}

\* The columns a reference may mean; one is found, more are ambiguous.
Meant(scope, ref) ==
  {i \in DOMAIN scope : /\ EqualFold(scope[i].name, ref.name)
                        /\ ref.table = << >> \/ EqualFold(scope[i].table, ref.table)}
Resolves(scope, ref) == Cardinality(Meant(scope, ref)) = 1
Resolve(scope, ref) == CHOOSE i \in Meant(scope, ref) : TRUE

\* The positions a star stands for; none is an error.
Expand(scope, star) ==
  SelectSeq([i \in DOMAIN scope |-> i],
            LAMBDA i : star.star = << >> \/ EqualFold(scope[i].table, star.star))

\* An alias hides the table's name.
ScanScope(table, alias, names) ==
  [i \in DOMAIN names |-> [table |-> IF alias # << >> THEN alias ELSE table, name |-> names[i]]]

\* Every column named resolves.  A star is not looked at.
Validate(tree, scope) ==
  Walk(tree, LAMBDA e, below : /\ IsColumnRef(e) => Resolves(scope, e)
                               /\ \A b \in DOMAIN below : below[b])

\* The expressions one result column stands for, or none where it is refused.
\* A star's columns are looked up again by name, row by row.
BindColumn(expr, scope) ==
  IF IsStar(expr)
  THEN LET cols == Expand(scope, expr)
       IN  [i \in DOMAIN cols |-> ColumnRef(scope[cols[i]].table, scope[cols[i]].name)]
  ELSE IF Validate(expr, scope) THEN <<expr>> ELSE << >>

BindColumns(cols, scope) == [i \in DOMAIN cols |-> BindColumn(cols[i].expr, scope)]
Bound(cols, scope) == \A i \in DOMAIN cols : BindColumn(cols[i].expr, scope) # << >>

-----------------------------------------------------------------------------
(* Literals.                                                               *)

DigitValue(c) == CHOOSE n \in 0 .. 9 : Digit(n) = c
NumberOf(digits) == FoldLeft(LAMBDA n, c : 10 * n + DigitValue(c), 0, digits)

ParseInt(text) == IF NumberOf(text) > MaxInt THEN Error ELSE NewInteger(NumberOf(text))

\* To the nearest half: digits, a point, digits, an exponent.
ParseFloat(text) ==
  LET mark == Past(text, 1, Digits \cup {"."})
      mantissa == SubSeq(text, 1, mark - 1)
      point == Past(mantissa, 1, Digits)
      digits == SelectSeq(mantissa, LAMBDA c : c # ".")
      places == IF point = mark THEN 0 ELSE mark - 1 - point
      signed == CharAt(text, mark + 1) \in {"+", "-"}
      written == NumberOf(SubSeq(text, IF signed THEN mark + 2 ELSE mark + 1, Len(text)))
      exponent == (IF CharAt(text, mark + 1) = "-" THEN -written ELSE written) - places
      n == NumberOf(digits)
  IN  NewReal(IF exponent >= 0 THEN 2 * n * 10 ^ exponent
              ELSE (4 * n + 10 ^ (-exponent)) \div (2 * 10 ^ (-exponent)))

\* Only a literal: a sign makes an expression.
EvalConst(e) ==
  IF ~IsLiteral(e) THEN Error
  ELSE CASE e.literal = "INT" -> ParseInt(e.text)
         [] e.literal = "FLOAT" -> ParseFloat(e.text)
         [] e.literal = "STRING" -> NewText(e.text)
         [] e.literal = "NULL" -> NewNull

-----------------------------------------------------------------------------
\* Both sides of a Binary are evaluated, whatever the first one is.  NOT is the
\* only unary operator there is.
EvalNode(e, below, row, scope) ==
  CASE IsLiteral(e) -> EvalConst(e)
    [] IsColumnRef(e) -> IF Resolves(scope, e) THEN row[Resolve(scope, e)] ELSE Error
    [] IsUnary(e) ->
         LET v == below.operand
         IN  IF e.op # "NOT" \/ v = Error THEN Error ELSE Not3(v)
    [] IsBinary(e) ->
         LET l == below.left
             r == below.right
         IN  IF l = Error \/ r = Error THEN Error ELSE Apply(e.op, l, r)
    [] OTHER -> Error
Eval(tree, row, scope) == Walk(tree, LAMBDA e, below : EvalNode(e, below, row, scope))
=============================================================================
