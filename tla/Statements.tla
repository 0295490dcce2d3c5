----------------------------- MODULE Statements -----------------------------
(***************************************************************************)
(* What each statement of internal/engine does to a session, a statement   *)
(* at a time, and what a SELECT answers: from syntax trees down to the     *)
(* records of the rows.  Engine has the steps inside of a statement, and   *)
(* Query those of a scan.                                                  *)
(*                                                                         *)
(* A session is [cat, claimed, pages]: the catalog, the names the store    *)
(* has indexes for, and the pages [schema, trees, next], where a table's   *)
(* tree is the sequence of its records and next the next page to allocate. *)
(* An index's tree has what Engine shows it to have.                       *)
(***************************************************************************)
EXTENDS Catalog, Expressions

CONSTANTS PageSize

ASSUME StatementsAssumption == PageSize \in Nat \ {0}

\* How a statement ends; each operator below gives the set of its endings.
Done(s, rows) == {[ok |-> TRUE, session |-> s, rows |-> rows]}
Fails(s) == {[ok |-> FALSE, session |-> s, rows |-> << >>]}

With(f, k, v) == [j \in DOMAIN f \cup {k} |-> IF j = k THEN v ELSE f[j]]

Zeros(n) == [i \in 1 .. n |-> 0]
EmptyPages == [schema |-> Zeros(PageSize), trees |-> << >>, next |-> 1]

\* The catalog is read from the page, and every index attached.
Reload(pages) ==
  LET cat == CHOOSE c \in Unmarshal(pages.schema) : TRUE
  IN  [cat |-> cat, claimed |-> {x.name : x \in cat.indexes}, pages |-> pages]

\* Mutant: the page keeps only what was written.
WriteSchemaShort(s) ==
  UNION {Done([s EXCEPT !.pages.schema = form], << >>) : form \in Marshals(s.cat)}
WriteSchema(s) ==
  UNION {IF Len(form) > PageSize THEN Fails(s)
         ELSE Done([s EXCEPT !.pages.schema = form \o Zeros(PageSize - Len(form))], << >>) :
         form \in Marshals(s.cat)}

\* The rows of a table, and the names of its columns.
Records(s, t) == s.pages.trees[t.root]
Rows(s, t) == [i \in DOMAIN Records(s, t) |-> Decode(Records(s, t)[i])]
Names(t) == [i \in DOMAIN t.columns |-> t.columns[i].name]

-----------------------------------------------------------------------------
(* CREATE TABLE and CREATE INDEX.                                          *)

ExecCreate(s, st) ==
  LET t == [name |-> Fold(st.table), columns |-> st.columns, root |-> s.pages.next]
  IN  IF Get(s.cat, st.table) # {} THEN Fails(s)
      ELSE WriteSchema([s EXCEPT !.cat = Create(@, t), !.pages.next = @ + 1,
                                 !.pages.trees = With(@, t.root, << >>)])

\* The columns of an index, by their positions in the table; 0 for one it has not.
Positions(t, names) == [i \in DOMAIN names |-> ColumnIndex(t, names[i])]
KeyCols(t, x, row) == [i \in DOMAIN x.columns |-> row[Positions(t, x.columns)[i]]]

\* checkUnique: no other row agrees, and a null agrees with none.
Collide(k, j) == \A i \in DOMAIN k : Compare(k[i], j[i]) = 0
CheckUnique(t, x, row, others) ==
  LET key == KeyCols(t, x, row)
  IN  \/ ~x.unique \/ \E i \in DOMAIN key : IsNull(key[i])
      \/ \A other \in others : ~Collide(key, KeyCols(t, x, other))

\* Rows read before it fails are in the new tree only, which nobody will find;
\* its name stays taken until the next rollback.
ExecCreateIndex(s, st) ==
  LET t == CHOOSE u \in Get(s.cat, st.table) : TRUE
      x == [name |-> Fold(st.name), table |-> st.table, columns |-> st.columns,
            unique |-> st.unique, root |-> s.pages.next]
      claims == [s EXCEPT !.claimed = @ \cup {x.name}, !.pages.next = @ + 1]
      rows == Rows(s, t)
  IN  IF \/ Get(s.cat, st.table) = {} \/ GetIndex(s.cat, st.name) # {}
         \/ \E i \in DOMAIN st.columns : Positions(t, st.columns)[i] = 0
         \/ x.name \in s.claimed
      THEN Fails(s)
      ELSE IF \E i \in DOMAIN rows : ~CheckUnique(t, x, rows[i], {rows[j] : j \in 1 .. i - 1})
      THEN Fails(claims)
      ELSE WriteSchema([claims EXCEPT !.cat = CreateIndex(@, x)])

-----------------------------------------------------------------------------
(* INSERT.  The columns it names are not looked at.                        *)

TableIndexes(s, t) == {x \in s.cat.indexes : Fold(x.table) = t.name}

InsertRow(s, t, list) ==
  LET row == [i \in DOMAIN list |-> EvalConst(list[i])]
      rows == Rows(s, t)
  IN  IF \/ Len(row) # Len(t.columns) \/ \E i \in DOMAIN row : row[i] = Error
         \/ \E x \in TableIndexes(s, t) :
              ~CheckUnique(t, x, row, {rows[j] : j \in DOMAIN rows})
      THEN Fails(s)
      ELSE Done([s EXCEPT !.pages.trees[t.root] = Append(@, Encode(row))], << >>)

\* One step after the other, until one fails.
Then(ends, Step(_)) == UNION {IF end.ok THEN Step(end.session) ELSE {end} : end \in ends}
InsertRows(s, t, lists) ==
  LET first[n \in 0 .. Len(lists)] ==
        IF n = 0 THEN Done(s, << >>)
        ELSE Then(first[n - 1], LAMBDA r : InsertRow(r, t, lists[n]))
  IN  first[Len(lists)]

ExecInsert(s, st) ==
  IF Get(s.cat, st.table) = {} THEN Fails(s)
  ELSE UNION {InsertRows(s, t, st.rows) : t \in Get(s.cat, st.table)}

-----------------------------------------------------------------------------
(* Scans: the positions of the rows the clause is true of, in the order of *)
(* the table or, where there is an index, in any.                          *)

Holds(where, row, scope) == IF where = None THEN NewInteger(1) ELSE Eval(where, row, scope)
Matches(where, rows, scope) == {i \in DOMAIN rows : Truth(Holds(where, rows[i], scope)) = 1}
Evaluates(where, rows, scope) == \A i \in DOMAIN rows : Holds(where, rows[i], scope) # Error

\* The members of a set of positions, from the least up.
Ascending(S) ==
  [i \in 1 .. Cardinality(S) |-> CHOOSE p \in S : Cardinality({q \in S : q <= p}) = i]

Orders(s, t, positions) ==
  IF IndexesFor(s.cat, t.name) = {} THEN {Ascending(positions)} ELSE SetToSeqs(positions)

-----------------------------------------------------------------------------
(* DELETE and UPDATE collect their rows first.                             *)

ExecDelete(s, st) ==
  LET t == CHOOSE u \in Get(s.cat, st.table) : TRUE
      scope == ScanScope(t.name, << >>, Names(t))
      gone == Matches(st.where, Rows(s, t), scope)
      keeps == Ascending(DOMAIN Rows(s, t) \ gone)
  IN  IF \/ Get(s.cat, st.table) = {} \/ ~Validate(st.where, scope)
         \/ ~Evaluates(st.where, Rows(s, t), scope)
      THEN Fails(s)
      ELSE Done([s EXCEPT !.pages.trees[t.root] = [i \in DOMAIN keeps |-> @[keeps[i]]]], << >>)

\* The last assignment to a column counts; all see the old row.
Assigned(t, assigns, row, scope) ==
  [c \in DOMAIN row |->
    LET to == {i \in DOMAIN assigns : ColumnIndex(t, assigns[i].column) = c}
    IN  IF to = {} THEN row[c]
        ELSE Eval(assigns[CHOOSE i \in to : \A j \in to : j <= i].value, row, scope)]

\* Every value is computed, also one that another takes the place of.
Computes(assigns, row, scope) ==
  \A i \in DOMAIN assigns : Eval(assigns[i].value, row, scope) # Error

\* sameKey compares encodings.
Clashes(s, t, i, row) ==
  \E x \in TableIndexes(s, t) :
    /\ Encode(KeyCols(t, x, row)) # Encode(KeyCols(t, x, Rows(s, t)[i]))
    /\ ~CheckUnique(t, x, row, {Rows(s, t)[j] : j \in DOMAIN Rows(s, t) \ {i}})

UpdateRow(s, t, i, row) ==
  IF Clashes(s, t, i, row) THEN Fails(s)
  ELSE Done([s EXCEPT !.pages.trees[t.root][i] = Encode(row)], << >>)
UpdateRows(s, t, order, new) ==
  LET first[n \in 0 .. Len(order)] ==
        IF n = 0 THEN Done(s, << >>)
        ELSE Then(first[n - 1], LAMBDA r : UpdateRow(r, t, order[n], new[order[n]]))
  IN  first[Len(order)]

ExecUpdate(s, st) ==
  LET t == CHOOSE u \in Get(s.cat, st.table) : TRUE
      scope == ScanScope(t.name, << >>, Names(t))
      rows == Rows(s, t)
      found == Matches(st.where, rows, scope)
  IN  IF \/ Get(s.cat, st.table) = {}
         \/ \E i \in DOMAIN st.assigns : ColumnIndex(t, st.assigns[i].column) = 0
         \/ ~Validate(st.where, scope) \/ ~Evaluates(st.where, rows, scope)
         \/ \E i \in found : ~Computes(st.assigns, rows[i], scope)
      THEN Fails(s)
      ELSE UNION {UpdateRows(s, t, order,
                             [i \in found |-> Assigned(t, st.assigns, rows[i], scope)]) :
                  order \in Orders(s, t, found)}
-----------------------------------------------------------------------------
(* SELECT: the planner's part.                                             *)

\* A position in ORDER BY, an alias, or an expression over the table's columns.
Position(e) == IF ParseInt(e.text) = Error THEN 0 ELSE ParseInt(e.text)[2]
OrderExpr(e, columns) ==
  LET named == {i \in DOMAIN columns : columns[i].alias # << >> /\ IsColumnRef(e)
                                        /\ EqualFold(columns[i].alias, e.name)}
  IN  IF IsLiteral(e) /\ e.literal = "INT"
      THEN IF \/ \E i \in DOMAIN columns : IsStar(columns[i].expr)
              \/ Position(e) \notin DOMAIN columns
           THEN None ELSE columns[Position(e)].expr
      ELSE IF named # {} /\ e.table = << >> THEN columns[Min(named)].expr ELSE e

SortKeysFor(st) ==
  [i \in DOMAIN st.order |-> [expr |-> OrderExpr(st.order[i].expr, st.columns),
                             desc |-> st.order[i].desc]]

IntLiteral(tree) ==
  Walk(tree, LAMBDA e, below :
               IF IsUnary(e) /\ e.op = "MINUS"
               THEN IF below.operand = Error THEN Error ELSE NewInteger(Wrap(-below.operand[2]))
               ELSE IF IsLiteral(e) /\ e.literal = "INT" THEN ParseInt(e.text) ELSE Error)

\* No limit, or a negative one, is -1; a negative offset is none.
LimitFor(st) == IF st.limit = None THEN -1 ELSE Max({IntLiteral(st.limit)[2], -1})
OffsetFor(st) == IF st.offset = None THEN 0 ELSE Max({IntLiteral(st.offset)[2], 0})

Plannable(s, st) ==
  /\ st.from = << >> \/ Get(s.cat, st.from) # {}
  /\ \A i \in DOMAIN st.order : SortKeysFor(st)[i].expr # None
  /\ \A e \in {st.limit, st.offset} : e = None \/ IntLiteral(e) # Error

\* EXPLAIN plans a statement and runs nothing.
ExecExplain(s, st) ==
  IF CASE st.of.stmt = "select" -> Plannable(s, st.of)
       [] st.of.stmt \in {"update", "delete"} -> Get(s.cat, st.of.table) # {}
       [] OTHER -> FALSE
  THEN Done(s, << >>) ELSE Fails(s)

-----------------------------------------------------------------------------
(* SELECT: the operators.                                                  *)

\* The sort's order of two rows: by the keys, each up or down.
KeyLess(keys, x, y) ==
  LET differ == {i \in DOMAIN keys : Compare(x[i], y[i]) # 0}
  IN  differ # {} /\ (Compare(x[Min(differ)], y[Min(differ)]) < 0) # keys[Min(differ)].desc

KeyValues(keys, row, scope) == [i \in DOMAIN keys |-> Eval(keys[i].expr, row, scope)]

\* A stable sort of the positions in `order' by the keys k.
Sorted(order, keys, k) ==
  LET Before(i, j) == KeyLess(keys, k[order[i]], k[order[j]])
      places == SetToSortSeq(DOMAIN order,
                             LAMBDA i, j : Before(i, j) \/ (i < j /\ ~Before(j, i)))
  IN  [i \in DOMAIN order |-> order[places[i]]]

Projected(columns, row, scope) ==
  LET exprs == FlattenSeq(BindColumns(columns, scope))
  IN  [i \in DOMAIN exprs |-> Eval(exprs[i], row, scope)]

InError(row) == Error \in ToSet(row)

\* The rows up to the first one where the clause is in error.
Reached(order, holds) ==
  SubSeq(order, 1, Min({n - 1 : n \in {m \in DOMAIN order : holds[order[m]] = Error}}
                         \cup {Len(order)}))

\* What is projected of the rows that come in.  `behind': an error is next.
Output(s, st, scope, rows, input, behind) ==
  LET wanted == OffsetFor(st) + LimitFor(st)
      all == LimitFor(st) < 0 \/ Len(input) < wanted
      out == [i \in 1 .. (IF all THEN Len(input) ELSE wanted) |->
               Projected(st.columns, rows[input[i]], scope)]
  IN  IF (all /\ behind) \/ \E i \in DOMAIN out : InError(out[i]) THEN Fails(s)
      ELSE Done(s, SubSeq(out, OffsetFor(st) + 1, Len(out)))

\* The limit pulls rows until it has enough, and so does not see an error behind
\* them; the sort pulls all of them first.
Pulled(s, st, scope, rows, input, behind) ==
  LET keys == SortKeysFor(st)
      k == [i \in ToSet(input) |-> KeyValues(keys, rows[i], scope)]
  IN  IF keys # << >> /\ (behind \/ \E i \in DOMAIN k : InError(k[i])) THEN Fails(s)
      ELSE Output(s, st, scope, rows, IF keys = << >> THEN input ELSE Sorted(input, keys, k),
                  behind)

Answer(s, st, scope, rows, order) ==
  LET holds == [i \in DOMAIN rows |-> Holds(st.where, rows[i], scope)]
      passed == SelectSeq(Reached(order, holds), LAMBDA i : Truth(holds[i]) = 1)
  IN  Pulled(s, st, scope, rows, passed, \E i \in DOMAIN holds : holds[i] = Error)

Readable(st, scope) ==
  /\ Validate(st.where, scope) /\ Bound(st.columns, scope)
  /\ \A i \in DOMAIN st.order : Validate(SortKeysFor(st)[i].expr, scope)

ExecSelect(s, st) ==
  LET t == CHOOSE u \in Get(s.cat, st.from) : TRUE
      scope == IF st.from = << >> THEN << >> ELSE ScanScope(t.name, st.alias, Names(t))
      rows == IF st.from = << >> THEN << << >> >> ELSE Rows(s, t)
      orders == IF st.from = << >> THEN {<<1>>} ELSE Orders(s, t, DOMAIN rows)
  IN  IF ~Plannable(s, st) \/ ~Readable(st, scope) THEN Fails(s)
      ELSE UNION {Answer(s, st, scope, rows, order) : order \in orders}

-----------------------------------------------------------------------------
\* dispatch: what a statement that is not about transactions may end with.
Dispatch(s, st) ==
  CASE st.stmt = "create" -> ExecCreate(s, st)
    [] st.stmt = "createindex" -> ExecCreateIndex(s, st)
    [] st.stmt = "insert" -> ExecInsert(s, st)
    [] st.stmt = "update" -> ExecUpdate(s, st)
    [] st.stmt = "delete" -> ExecDelete(s, st)
    [] st.stmt = "select" -> ExecSelect(s, st)
    [] st.stmt = "explain" -> ExecExplain(s, st)
=============================================================================
