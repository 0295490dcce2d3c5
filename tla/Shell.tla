-------------------------------- MODULE Shell --------------------------------
(***************************************************************************)
(* internal/repl over lexer, parser and engine: a session of typed lines,  *)
(* a statement per step.                                                   *)
(***************************************************************************)
EXTENDS Statements

CONSTANTS
  Lines,   \* what is typed
  Probes,  \* statements that change nothing, typed on one of Files
  Files,   \* the databases there may be at first: pages
  MaxRows, \* bounds: rows of a table, pages allocated, lines in the buffer
  MaxPages, MaxPending

\* The pages of a database: its schema is in the first, and every table has a tree.
IsDatabase(pages) ==
  /\ pages = [schema |-> pages.schema, trees |-> pages.trees, next |-> pages.next]
  /\ pages.next \in 1 .. MaxPages + 1 /\ DOMAIN pages.trees \subseteq 1 .. pages.next - 1
  /\ \A root \in DOMAIN pages.trees : pages.trees[root] \in Seq(Seq(Int))
  /\ \E cat \in Unmarshal(pages.schema) :
       /\ cat.tables \subseteq Tables /\ cat.indexes \subseteq Indexes
       /\ IsFiniteSet(cat.tables) /\ IsFiniteSet(cat.indexes)
       /\ \A t \in cat.tables : t.root \in DOMAIN pages.trees
       /\ \E form \in Marshals(cat) :
            /\ Len(form) <= PageSize
            /\ pages.schema = form \o Zeros(PageSize - Len(form))

ASSUME ShellAssumption ==
  /\ MaxRows \in Nat /\ MaxPages \in Nat /\ MaxPending \in Nat
  /\ "\n" \in Characters /\ Lines \cup Probes \subseteq Seq(Characters)
  /\ \A c \in DOMAIN LowerCase : LowerCase[c] \in Characters
  /\ \A file \in Files : IsDatabase(file)

VARIABLES
  running, \* a process has the file open
  buf,     \* Scanner.buf: the lines of a statement that is not complete
  session, \* Engine's catalog and the pages as the pager's cache shows them
  saved,   \* the pages as the last commit left them
  inTxn,   \* Engine.inTxn
  last     \* what the last line has executed: [typed, text, stmt, ok, rows], or Nothing

vars == <<running, buf, session, saved, inTxn, last>>

Nothing == [typed |-> << >>, text |-> << >>, stmt |-> None, ok |-> TRUE, rows |-> << >>]

Init ==
  /\ running = TRUE /\ buf = << >> /\ inTxn = FALSE /\ last = Nothing
  /\ saved \in Files /\ session = Reload(saved)

-----------------------------------------------------------------------------
(* Scanner.                                                                *)

Trim(text, n) == SubSeq(text, 1, Min({m \in 0 .. n : \A i \in m + 1 .. n : text[i] \in Spaces}))
TrimRight(text) == Trim(text, Len(text))
TrimSpace(text) == Reverse(TrimRight(Reverse(TrimRight(text))))

\* The buffer with one line more.
Push(line) == IF buf = << >> THEN line ELSE buf \o <<"\n">> \o line

\* A statement ends where a line does, with a semicolon, whatever that is part of.
Complete(typed) == TrimRight(typed) # << >> /\ Last(TrimRight(typed)) = Semicolon
Text(typed) == TrimSpace(Front(TrimRight(typed)))

Pending == buf # << >>
IsQuit(line) == TrimSpace(line) \in {<<".", "exit">>, <<".", "quit">>, <<".", "q">>}

-----------------------------------------------------------------------------
(* Lines.                                                                  *)

\* Close rolls an open transaction back, and so does the recovery after a kill.
Ends ==
  /\ running /\ running' = FALSE
  /\ buf' = << >> /\ inTxn' = FALSE /\ last' = Nothing
  /\ session' = [cat |-> NewCatalog, claimed |-> {}, pages |-> saved]
  /\ UNCHANGED saved

Quit(line) == ~Pending /\ IsQuit(line) /\ Ends

Open ==
  /\ ~running /\ running' = TRUE
  /\ session' = Reload(saved)
  /\ UNCHANGED <<buf, saved, inTxn, last>>

Read(line) == running /\ (Pending \/ ~IsQuit(line))

Continue(line) ==
  /\ Read(line) /\ ~Complete(Push(line)) /\ Len(Push(line)) <= MaxPending
  /\ buf' = Push(line) /\ last' = Nothing
  /\ UNCHANGED <<running, session, saved, inTxn>>

\* A semicolon alone is not executed.
Empty(line) ==
  /\ Read(line) /\ Complete(Push(line)) /\ Text(Push(line)) = << >>
  /\ buf' = << >> /\ last' = Nothing
  /\ UNCHANGED <<running, session, saved, inTxn>>

-----------------------------------------------------------------------------
(* Statements: Exec.                                                       *)

\* The lexer and the parser; None where one of them complains.
Checked(toks) == IF LexFails(toks) THEN None ELSE Parse(toks)
Statement(text) == Checked(Lex(text))

Report(typed, st, ok, rows) ==
  /\ last' = [typed |-> typed, text |-> Text(typed), stmt |-> st, ok |-> ok, rows |-> rows]
  /\ buf' = << >> /\ UNCHANGED running

Refuse(typed, st) ==
  /\ st = None
  /\ Report(typed, st, FALSE, << >>)
  /\ UNCHANGED <<session, saved, inTxn>>

Begin(typed, st) ==
  /\ st.stmt = "begin"
  /\ Report(typed, st, ~inTxn, << >>)
  /\ inTxn' = TRUE /\ UNCHANGED <<session, saved>>

Commit(typed, st) ==
  /\ st.stmt = "commit"
  /\ Report(typed, st, inTxn, << >>)
  /\ inTxn' = FALSE /\ saved' = IF inTxn THEN session.pages ELSE saved
  /\ UNCHANGED session

Rollback(typed, st) ==
  /\ st.stmt = "rollback"
  /\ Report(typed, st, inTxn, << >>)
  /\ inTxn' = FALSE /\ session' = IF inTxn THEN Reload(saved) ELSE session
  /\ UNCHANGED saved

Transactions == {"begin", "commit", "rollback"}

\* Within the bounds.
Small(s) ==
  /\ s.pages.next <= MaxPages + 1
  /\ \A root \in DOMAIN s.pages.trees : Len(s.pages.trees[root]) <= MaxRows

\* A statement of its own transaction is committed or undone; in one that has
\* begun, what a failing one has done stays.
Run(typed, st) ==
  /\ st.stmt \notin Transactions
  /\ \E end \in Dispatch(session, st) :
       /\ Small(end.session)
       /\ Report(typed, st, end.ok, end.rows)
       /\ session' = IF end.ok \/ inTxn THEN end.session ELSE Reload(saved)
       /\ saved' = IF end.ok /\ ~inTxn THEN end.session.pages ELSE saved
  /\ UNCHANGED inTxn

Submit(line) ==
  /\ Read(line) /\ Complete(Push(line)) /\ Text(Push(line)) # << >>
  /\ \E typed \in {Push(line)} : \E st \in {Statement(Text(typed))} :
       IF st = None THEN Refuse(typed, st)
       ELSE Begin(typed, st) \/ Commit(typed, st) \/ Rollback(typed, st) \/ Run(typed, st)

\* Where probes are typed.
Still == ~inTxn /\ buf = << >> /\ saved \in Files /\ session = Reload(saved)

Enter(line) == Quit(line) \/ Continue(line) \/ Empty(line) \/ Submit(line)

Next ==
  \/ Ends \/ Open
  \/ \E line \in Lines \cup Probes : (line \in Probes => Still) /\ Enter(line)

Spec == Init /\ [][Next]_vars
-----------------------------------------------------------------------------
(* Trees and texts.                                                        *)

\* A token as it counts: names and literals with their text.
Shown(token) ==
  IF token.kind \in {"IDENT", "INT", "FLOAT", "STRING"} THEN token
  ELSE [kind |-> token.kind, text |-> << >>]
Mark(kind) == <<[kind |-> kind, text |-> << >>]>>
Name(text) == <<[kind |-> "IDENT", text |-> text]>>

IsNull3(e) == IsBinary(e) /\ e.op = "IS" /\ IsLiteral(e.right) /\ e.right.literal = "NULL"
IsNotNull(e) == IsUnary(e) /\ e.op = "NOT" /\ IsNull3(e.operand)

\* How tightly SQL binds an expression: OR, AND, NOT, comparisons, sums,
\* products, ||, signs, and what needs no parentheses.
Level(e) ==
  CASE IsNotNull(e) -> 4
    [] IsUnary(e) /\ ~IsNotNull(e) -> IF e.op = "NOT" THEN 3 ELSE 8
    [] IsBinary(e) ->
         CHOOSE n \in 1 .. 7 :
           e.op \in <<{"OR"}, {"AND"}, {}, Comparisons \cup {"IS"}, {"PLUS", "MINUS"},
                      {"STAR", "SLASH", "PERCENT"}, {"CONCAT"}>>[n]
    [] OTHER -> 9

\* The tokens of an expression, in parentheses where they are needed and nowhere else.
RenderNode(e, below) ==
  LET At(b, level) ==
        IF Level(e[b]) >= level THEN below[b] ELSE Mark("LPAREN") \o below[b] \o Mark("RPAREN")
  IN  CASE IsLiteral(e) -> <<Shown([kind |-> e.literal, text |-> e.text])>>
        [] IsColumnRef(e) ->
             (IF e.table = << >> THEN << >> ELSE Name(e.table) \o Mark("DOT")) \o Name(e.name)
        [] IsStar(e) ->
             (IF e.star = << >> THEN << >> ELSE Name(e.star) \o Mark("DOT")) \o Mark("STAR")
        [] IsNotNull(e) -> Front(below.operand) \o Mark("NOT") \o Mark("NULL")
        [] IsUnary(e) /\ ~IsNotNull(e) -> Mark(e.op) \o At("operand", Level(e))
        [] IsBinary(e) -> At("left", Level(e)) \o Mark(e.op) \o At("right", Level(e) + 1)
Render(tree) == Walk(tree, RenderNode)

\* The expression stands in the tokens after the keyword, and ends where it does.
Stands(e, keyword, tokens) ==
  LET text == Render(e)
  IN  \E p \in 1 .. Len(tokens) - Len(text) - 1 :
        /\ tokens[p].kind = keyword
        /\ SubSeq(tokens, p + 1, p + Len(text)) = text
        /\ tokens[p + Len(text) + 1].kind \in {"COMMA", "AS", "FROM", "ORDER", "LIMIT", "EOF"}

Executed == last.stmt # None
Tokens == LET tokens == Lex(last.text) IN [i \in DOMAIN tokens |-> Shown(tokens[i])]

-----------------------------------------------------------------------------
(* Properties.                                                             *)

TypeOK ==
  /\ running \in BOOLEAN /\ inTxn \in BOOLEAN
  /\ Len(buf) <= MaxPending
  /\ DOMAIN session = {"cat", "claimed", "pages"}
  /\ \A pages \in {session.pages, saved} :
       /\ Len(pages.schema) = PageSize /\ pages.next \in 1 .. MaxPages + 1
       /\ DOMAIN pages.trees \subseteq 1 .. pages.next - 1
  /\ last.ok \in BOOLEAN /\ DOMAIN last = DOMAIN Nothing

\* An expression is executed as SQL reads it: the tree the parser builds by its
\* binding powers (parser.go's infixBP and prefixBP) is the one whose text, with
\* the fewest parentheses, was typed.
ParsesAsWritten ==
  Executed =>
    /\ last.stmt.stmt = "select" => Stands(last.stmt.columns[1].expr, "SELECT", Tokens)
    /\ "where" \in DOMAIN last.stmt /\ last.stmt.where # None =>
         Stands(last.stmt.where, "WHERE", Tokens)

\* What ends a statement in the scanner ends it in the lexer too: no half of a
\* statement is executed because a string or a quoted name had a semicolon at
\* the end of a line (scanner.go leaves that to the lexer).  Inside of a comment
\* it does end one: there the semicolon changes no token.
WholeStatements ==
  Executed =>
    LET whole == Lex(TrimRight(last.typed))
    IN  whole \in {Front(Lex(last.text)) \o Lex(<<Semicolon>>), Lex(last.text)}

\* Kleene's logic: false 0, unknown 1, true 2.
Truth3(v) == CASE Truth(v) = 0 -> 0 [] Truth(v) = -1 -> 1 [] Truth(v) = 1 -> 2
Meaning(tree, row, scope) ==
  Walk(tree, LAMBDA e, below :
    CASE IsBinary(e) /\ e.op = "AND" -> Min({below.left, below.right})
      [] IsBinary(e) /\ e.op = "OR" -> Max({below.left, below.right})
      [] IsUnary(e) /\ e.op = "NOT" -> 2 - below.operand
      [] OTHER -> Truth3(Eval(e, row, scope)))

True(st, row, scope) == st.where = None \/ Meaning(st.where, row, scope) = 2

Count(v, seq) == Cardinality({i \in DOMAIN seq : seq[i] = v})

\* What a statement st may do to the rows of its table and answer from them.
Obeys(st, before, after, scope, answer) ==
  LET chosen == SelectSeq(before, LAMBDA row : True(st, row, scope))
      due == [i \in DOMAIN chosen |-> Projected(st.columns, chosen[i], scope)]
  IN  CASE st.stmt = "delete" ->
             after = SelectSeq(before, LAMBDA row : ~True(st, row, scope))
        [] st.stmt = "update" ->
             /\ DOMAIN after = DOMAIN before
             /\ \A i \in DOMAIN before : ~True(st, before[i], scope) => after[i] = before[i]
        [] st.stmt = "select" ->
             /\ after = before
             /\ \A i \in DOMAIN answer : Count(answer[i], answer) <= Count(answer[i], due)
             /\ st.limit = None => Len(answer) = Len(due)


\* Names of tables, columns, aliases and indexes have no case: a statement whose
\* names are in lower case ends and answers as the one typed (catalog.go:61-88,
\* scope.go:19-25, storage.go:162-190).
FoldName(token) == IF token.kind = "IDENT" THEN [token EXCEPT !.text = Fold(@)] ELSE token
Folded(text) == FoldLeft(LAMBDA seen, token : Append(seen, FoldName(token)), << >>, Lex(text))
CaseBlind ==
  [][last' # last /\ last'.stmt # None /\ last'.stmt.stmt \notin Transactions =>
       \E st \in {Parse(Folded(last'.text))} : \E end \in Dispatch(session, st) :
         end.ok = last'.ok /\ end.rows = last'.rows]_vars

\* The catalog is in its page: whatever order the maps are walked in, reading the
\* page gives the catalog back, and outside of a transaction the page has the
\* session's, unless that has grown past the page (catalog.go:90-242,
\* engine.go:42-79).  It does in a transaction, which keeps what a CREATE did before
\* it failed (README.md:167); the session then shows a table no restart will find.
SchemaSurvives ==
  /\ \A form \in Marshals(session.cat) : \A pad \in 0 .. 1 :
       Unmarshal(form \o Zeros(pad)) = {session.cat}
  /\ running => \E stored \in Unmarshal(session.pages.schema) :
       \/ stored = session.cat
       \/ /\ stored.tables \subseteq session.cat.tables
          /\ stored.indexes \subseteq session.cat.indexes
          /\ \A form \in Marshals(session.cat) : Len(form) > PageSize
  /\ running /\ ~inTxn => session.pages = saved

StoredRows == UNION {ToSet(Rows(session, t)) : t \in session.cat.tables}
StoredValues == UNION {ToSet(row) : row \in StoredRows}

\* A row reads back as it was written, whatever an UPDATE computes from stored
\* values, and a record that is cut short is refused (record.go:12-103).
RecordsReadBack ==
  /\ \A a, b \in StoredValues : \A v \in {Apply("MINUS", a, b), Apply("CONCAT", a, b)} :
       Decode(Encode(<<a, v, b>>)) = <<a, v, b>>
  /\ \A row \in StoredRows : \A n \in 1 .. Len(Encode(row)) - 1 :
       Decode(SubSeq(Encode(row), 1, n)) = <<Error>>

\* Stored values are in one order, which trees and ORDER BY rely on: Compare is
\* total and transitive (compare.go).  An integer that a real cannot hold exactly
\* is left out; with it, it is not.
CompareIsOrder == Ordered({v \in StoredValues : Exact(v)})

\* Quotient and remainder belong together, at the ends of the integers too, and
\* no divisor stops the process (arithmetic.go).
DivisionAgrees == \A a, b \in {v \in StoredValues : IsInteger(v)} : Divides(a, b)

\* Each row is in the answer for one of: the clause, NOT the clause, and the
\* clause IS NULL (README.md's "three-valued NULL logic", exec.go:444-448).
Partition ==
  Executed /\ last.ok /\ last.stmt.stmt = "select" /\ last.stmt.where # None
           /\ last.stmt.from # << >> =>
    LET p == last.stmt.where
        t == CHOOSE u \in Get(session.cat, last.stmt.from) : TRUE
        cases == {p, Unary("NOT", p), Binary("IS", p, Literal("NULL", << >>))}
    IN  \A row \in ToSet(Rows(session, t)) :
          Cardinality({q \in cases :
            Truth(Eval(q, row, ScanScope(t.name, last.stmt.alias, Names(t)))) = 1}) = 1
=============================================================================
