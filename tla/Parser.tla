------------------------------- MODULE Parser -------------------------------
(***************************************************************************)
(* internal/parser over the syntax trees of internal/ast: recursive        *)
(* descent for statements, precedence climbing for expressions.            *)
(*                                                                         *)
(* The parser is a record with toks and pos, `err', and `vals', what its   *)
(* calls have returned and nobody has used yet.  Each operator takes it to *)
(* its next state, and leaves one with an error alone: the first error     *)
(* ends the parsing.  Where the code calls itself, a function says of each *)
(* position what is read from there.                                       *)
(***************************************************************************)
EXTENDS Naturals, SequencesExt

\* Syntax trees.  None is Go's nil, and the empty text of a name left out.
None == [none |-> TRUE]
Literal(kind, text) == [literal |-> kind, text |-> text]
ColumnRef(table, name) == [table |-> table, name |-> name]
Star(table) == [star |-> table]
Unary(op, operand) == [op |-> op, operand |-> operand]
Binary(op, left, right) == [op |-> op, left |-> left, right |-> right]

IsLiteral(e) == "literal" \in DOMAIN e
IsColumnRef(e) == "name" \in DOMAIN e
IsStar(e) == "star" \in DOMAIN e
IsUnary(e) == "operand" \in DOMAIN e
IsBinary(e) == "left" \in DOMAIN e

\* What a walk makes of a tree: of each node, from what it has made of those below.
Branches == {"left", "right", "operand"}
Walk(tree, Of(_, _)) ==
  LET node[path \in Seq(Branches)] ==
        IF path = << >> THEN tree ELSE node[Front(path)][Last(path)]
      made[path \in Seq(Branches)] ==
        Of(node[path], [b \in Branches \cap DOMAIN node[path] |-> made[Append(path, b)]])
  IN  made[<< >>]

-----------------------------------------------------------------------------
(* What calls return.                                                      *)

Failed(r) == [r EXCEPT !.err = TRUE]
Returns(r, val) == IF r.err THEN r ELSE [r EXCEPT !.vals = Append(@, val)]

\* The last n values, and one value made of them.
Latest(r, n) == SubSeq(r.vals, Len(r.vals) - n + 1, Len(r.vals))
Makes(r, n, Value(_)) ==
  IF r.err THEN r
  ELSE [r EXCEPT !.vals = Append(SubSeq(@, 1, Len(@) - n), Value(Latest(r, n)))]
Gathers(r, n) == Makes(r, n, LAMBDA v : v)

\* A call of its own from a position, the caller with what it has returned, and the
\* call where the function `read' has what is read from each position.
StartAt(toks, pos) == [toks |-> toks, pos |-> pos, err |-> FALSE, vals |-> << >>]
Resume(r, called) == [called EXCEPT !.vals = r.vals \o @]
Call(c, read) == IF c.err THEN c ELSE Resume(c, read[c.pos])
Everywhere(toks, Item(_)) == [pos \in DOMAIN toks |-> Item(StartAt(toks, pos))]

-----------------------------------------------------------------------------
(* Tokens.                                                                 *)

Peek(c) == c.toks[c.pos]
Advance(c) == [c EXCEPT !.pos = IF @ < Len(c.toks) THEN @ + 1 ELSE @]

Sees(c, kind) == ~c.err /\ Peek(c).kind = kind
Accept(c, kind) == IF Sees(c, kind) THEN Advance(c) ELSE c
Skip(c, kind) == IF Sees(c, kind) THEN Advance(c) ELSE Failed(c)
ParseName(c) == IF Sees(c, "IDENT") THEN Returns(Advance(c), Peek(c).text) ELSE Failed(c)

-----------------------------------------------------------------------------
(* Expressions.                                                            *)

InfixBP(kind) ==
  CASE kind = "OR" -> 10
    [] kind = "AND" -> 20
    [] kind \in {"EQ", "NEQ", "LT", "LTE", "GT", "GTE", "IS"} -> 40
    [] kind \in {"PLUS", "MINUS"} -> 50
    [] kind \in {"STAR", "SLASH", "PERCENT"} -> 60
    [] kind = "CONCAT" -> 70
    [] OTHER -> 0
\* Mutant: NOT binds as tightly as a sign.
PrefixBPTight(kind) == 100
PrefixBP(kind) == IF kind = "NOT" THEN 30 ELSE 100

\* The call that reads an expression.
Inner(c, minBP, read) == IF c.err THEN c ELSE Resume(c, read[c.pos][minBP])

\* A name, one with a qualifier, or all columns of a table.
ParseColumnRef(c) ==
  LET name == Peek(c).text
      next == Advance(c)
  IN  IF ~Sees(next, "DOT") THEN Returns(next, ColumnRef(<< >>, name))
      ELSE IF Sees(Advance(next), "STAR") THEN Returns(Advance(Advance(next)), Star(name))
      ELSE Makes(ParseName(Advance(next)), 1, LAMBDA v : ColumnRef(name, v[1]))

ParsePrefix(c, read) ==
  LET token == Peek(c)
  IN  CASE token.kind = "IDENT" -> ParseColumnRef(c)
        [] token.kind \in {"INT", "FLOAT", "STRING", "NULL"} ->
             Returns(Advance(c), Literal(token.kind, token.text))
        [] token.kind = "LPAREN" -> Skip(Inner(Advance(c), 0, read), "RPAREN")
        [] token.kind \in {"MINUS", "NOT"} ->
             Makes(Inner(Advance(c), PrefixBP(token.kind), read), 1,
                   LAMBDA v : Unary(token.kind, v[1]))
        [] OTHER -> Failed(c)

\* NULL or NOT NULL after IS.
ParseNull(c) ==
  LET IsNull(e) == Binary("IS", e, Literal("NULL", <<"NULL">>))
  IN  Makes(Advance(Accept(c, "NOT")), 1,
            LAMBDA v : IF Sees(c, "NOT") THEN Unary("NOT", IsNull(v[1])) ELSE IsNull(v[1]))

\* An operator that binds tighter than minBP, after the left operand.  Before any
\* other right side of IS a NOT is dropped.
ParseInfix(c, minBP, read) ==
  LET op == Peek(c).kind
      right == IF op = "IS" THEN Accept(Advance(c), "NOT") ELSE Advance(c)
  IN  IF c.err \/ InfixBP(op) <= minBP THEN c
      ELSE IF op = "IS" /\ Sees(right, "NULL") THEN ParseNull(Advance(c))
      ELSE Makes(Inner(right, InfixBP(op), read), 2, LAMBDA v : Binary(op, v[1], v[2]))

\* An expression has no more operators than there are.
Operators(toks) == Cardinality({i \in DOMAIN toks : InfixBP(toks[i].kind) > 0})

\* As many operators as bind tighter, after what is read first.
ParseOperators(c, minBP, read) ==
  LET upTo[n \in 0 .. Operators(c.toks)] ==
        IF n = 0 THEN c ELSE ParseInfix(upTo[n - 1], minBP, read)
  IN  upTo[Operators(c.toks)]

\* The expressions from each position on.
Expressions(toks) ==
  LET read[pos \in DOMAIN toks] ==
        LET first == ParsePrefix(StartAt(toks, pos), read)
        IN  [minBP \in 0 .. 100 |-> ParseOperators(first, minBP, read)]
  IN  read
ParseExpr(c, minBP) == Inner(c, minBP, Expressions(c.toks))

-----------------------------------------------------------------------------
(* The parts of statements.                                                *)

\* An expression after a keyword, or None.
ParseClause(c, kind) == IF Sees(c, kind) THEN ParseExpr(Advance(c), 0) ELSE Returns(c, None)

\* A name after a keyword, or the empty one.
ParseAlias(c) == IF Sees(c, "AS") THEN ParseName(Advance(c)) ELSE Returns(c, << >>)

ParseResultColumn(c) ==
  IF Sees(c, "STAR") THEN Returns(Advance(c), [expr |-> Star(<< >>), alias |-> << >>])
  ELSE Makes(ParseAlias(ParseExpr(c, 0)), 2, LAMBDA v : [expr |-> v[1], alias |-> v[2]])

ParseDirection(c) ==
  IF Sees(c, "DESC") THEN Returns(Advance(c), TRUE) ELSE Returns(Accept(c, "ASC"), FALSE)
ParseOrderTerm(c) ==
  Makes(ParseDirection(ParseExpr(c, 0)), 2, LAMBDA v : [expr |-> v[1], desc |-> v[2]])

ParseAssign(c) ==
  Makes(ParseExpr(Skip(ParseName(c), "EQ"), 0), 2, LAMBDA v : [column |-> v[1], value |-> v[2]])

\* PRIMARY KEY and NOT NULL, in any order and number: the set of those there are.
ParseConstraint(c) ==
  Skip(Advance(c), IF Sees(c, "PRIMARY") THEN "KEY" ELSE "NULL")
Constraints(toks) ==
  LET read[pos \in DOMAIN toks] ==
        LET c == StartAt(toks, pos)
        IN  IF Sees(c, "PRIMARY") \/ Sees(c, "NOT")
            THEN Call(Returns(ParseConstraint(c), Peek(c).kind), read)
            ELSE c
  IN  read
ParseConstraints(c) ==
  LET all == Call(c, Constraints(c.toks))
  IN  Makes(all, Len(all.vals) - Len(c.vals), LAMBDA v : ToSet(v))

ParseColumnDef(c) ==
  Makes(ParseConstraints(ParseName(ParseName(c))), 3,
        LAMBDA v : [name |-> v[1], type |-> v[2], primaryKey |-> "PRIMARY" \in v[3],
                    notNull |-> "NOT" \in v[3]])

\* One item, and another after each comma.
Items(toks, item) ==
  LET read[pos \in DOMAIN toks] ==
        IF Sees(item[pos], "COMMA") THEN Call(Advance(item[pos]), read) ELSE item[pos]
  IN  read
ParseList(c, item) ==
  LET all == Call(c, Items(c.toks, item))
  IN  Gathers(all, Len(all.vals) - Len(c.vals))
Parenthesised(c, item) == Skip(ParseList(Skip(c, "LPAREN"), item), "RPAREN")
ParseNames(c) == Parenthesised(c, Everywhere(c.toks, ParseName))

ParseValue(c) == ParseExpr(c, 0)
ParseRow(c) == Parenthesised(c, Everywhere(c.toks, ParseValue))

-----------------------------------------------------------------------------
(* Statements; c stands at the keyword.                                    *)

ParseFrom(c) ==
  IF Sees(c, "FROM") THEN ParseAlias(ParseName(Advance(c)))
  ELSE Returns(Returns(c, << >>), << >>)
ParseOrder(c) ==
  IF Sees(c, "ORDER")
  THEN ParseList(Skip(Advance(c), "BY"), Everywhere(c.toks, ParseOrderTerm))
  ELSE Returns(c, << >>)
ParseLimit(c) ==
  IF Sees(c, "LIMIT") THEN ParseClause(ParseClause(c, "LIMIT"), "OFFSET")
  ELSE Returns(Returns(c, None), None)

ParseSelect(c) ==
  LET from == ParseFrom(ParseList(Advance(c), Everywhere(c.toks, ParseResultColumn)))
  IN  Makes(ParseLimit(ParseOrder(ParseClause(from, "WHERE"))), 7,
            LAMBDA v : [stmt |-> "select", columns |-> v[1], from |-> v[2], alias |-> v[3],
                        where |-> v[4], order |-> v[5], limit |-> v[6], offset |-> v[7]])

ParseInto(c) == IF Sees(c, "LPAREN") THEN ParseNames(c) ELSE Returns(c, << >>)
ParseInsert(c) ==
  LET columns == ParseInto(ParseName(Skip(Advance(c), "INTO")))
  IN  Makes(ParseList(Skip(columns, "VALUES"), Everywhere(c.toks, ParseRow)), 3,
            LAMBDA v : [stmt |-> "insert", table |-> v[1], columns |-> v[2], rows |-> v[3]])

ParseUpdate(c) ==
  LET assigns == ParseList(Skip(ParseName(Advance(c)), "SET"), Everywhere(c.toks, ParseAssign))
  IN  Makes(ParseClause(assigns, "WHERE"), 3,
            LAMBDA v : [stmt |-> "update", table |-> v[1], assigns |-> v[2], where |-> v[3]])

ParseDelete(c) ==
  Makes(ParseClause(ParseName(Skip(Advance(c), "FROM")), "WHERE"), 2,
        LAMBDA v : [stmt |-> "delete", table |-> v[1], where |-> v[2]])

ParseCreateIndex(c) ==
  LET name == ParseName(Skip(Accept(c, "UNIQUE"), "INDEX"))
  IN  Makes(ParseNames(ParseName(Skip(name, "ON"))), 3,
            LAMBDA v : [stmt |-> "createindex", name |-> v[1], table |-> v[2], columns |-> v[3],
                        unique |-> Sees(c, "UNIQUE")])

ParseCreate(c) ==
  IF Sees(Advance(c), "UNIQUE") \/ Sees(Advance(c), "INDEX") THEN ParseCreateIndex(Advance(c))
  ELSE Makes(Parenthesised(ParseName(Skip(Advance(c), "TABLE")),
                           Everywhere(c.toks, ParseColumnDef)), 2,
             LAMBDA v : [stmt |-> "create", table |-> v[1], columns |-> v[2]])

ParseTxn(c, stmt) == Returns(Accept(Advance(c), "TRANSACTION"), [stmt |-> stmt])

ParseExplain(c, read) ==
  LET next == Advance(c)
      of == IF Sees(next, "QUERY") THEN Skip(Advance(next), "PLAN") ELSE next
  IN  Makes(Call(of, read), 1, LAMBDA v : [stmt |-> "explain", of |-> v[1]])

ParseStmt(c, read) ==
  LET kind == Peek(c).kind
  IN  CASE kind = "SELECT" -> ParseSelect(c)
        [] kind = "INSERT" -> ParseInsert(c)
        [] kind = "UPDATE" -> ParseUpdate(c)
        [] kind = "DELETE" -> ParseDelete(c)
        [] kind = "CREATE" -> ParseCreate(c)
        [] kind = "EXPLAIN" -> ParseExplain(c, read)
        [] kind = "BEGIN" -> ParseTxn(c, "begin")
        [] kind \in {"COMMIT", "END"} -> ParseTxn(c, "commit")
        [] kind = "ROLLBACK" -> ParseTxn(c, "rollback")
        [] OTHER -> Failed(c)

StatementFrom(toks) ==
  LET read[pos \in DOMAIN toks] == ParseStmt(StartAt(toks, pos), read)
  IN  read

\* The statement that the tokens are, or None.
Whole(c) == IF Sees(c, "EOF") THEN c.vals[1] ELSE None
Parse(toks) == Whole(Accept(StatementFrom(toks)[1], "SEMICOLON"))
=============================================================================
