------------------------------ MODULE Catalog ------------------------------
(***************************************************************************)
(* internal/catalog: the tables and indexes of a database, found by names  *)
(* in any case.  SchemaPage has their form.                                *)
(***************************************************************************)
EXTENDS SchemaPage, Lexer

NewCatalog == [tables |-> {}, indexes |-> {}]

\* None or one.  Names are kept in lower case.
Get(c, name) == {t \in c.tables : t.name = Fold(name)}
GetIndex(c, name) == {x \in c.indexes : x.name = Fold(name)}
\* An index keeps the name of its table as it was written.
IndexesFor(c, table) == {x \in c.indexes : Fold(x.table) = Fold(table)}

\* The first column with the name; 0 when there is none.
ColumnIndex(t, name) == SelectInSeq(t.columns, LAMBDA col : Fold(col.name) = Fold(name))

Create(c, t) == [c EXCEPT !.tables = @ \cup {t}]
CreateIndex(c, x) == [c EXCEPT !.indexes = @ \cup {x}]

=============================================================================
