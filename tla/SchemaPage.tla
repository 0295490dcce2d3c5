----------------------------- MODULE SchemaPage -----------------------------
(***************************************************************************)
(* The schema page of internal/catalog: the tables and indexes of a        *)
(* database as numbers and bytes, as in Record.  The code's maps are sets  *)
(* here, of Tables and of Indexes, which have their columns by their       *)
(* names.                                                                  *)
(***************************************************************************)
EXTENDS Record, FiniteSets, SequencesExt

Texts == Seq(Characters)
Columns == [name : Texts, type : Texts, primaryKey : BOOLEAN, notNull : BOOLEAN]
Tables == [name : Texts, root : Nat, columns : Seq(Columns)]
Indexes == [name : Texts, table : Texts, root : Nat, unique : BOOLEAN, columns : Seq(Texts)]

AppendString(s) == <<Len(s)>> \o Bytes(s)
Flag(set, weight) == IF set THEN weight ELSE 0

\* Mutant: both flags have the same bit.
ColumnFormFlags(col) ==
  AppendString(col.name) \o AppendString(col.type) \o <<Flag(col.primaryKey \/ col.notNull, 1)>>
ColumnForm(col) ==
  AppendString(col.name) \o AppendString(col.type)
    \o <<Flag(col.primaryKey, 1) + Flag(col.notNull, 2)>>
TableForm(t) ==
  AppendString(t.name) \o <<t.root, Len(t.columns)>>
    \o FlattenSeq([i \in DOMAIN t.columns |-> ColumnForm(t.columns[i])])
IndexForm(x) ==
  AppendString(x.name) \o AppendString(x.table) \o <<x.root, Flag(x.unique, 1), Len(x.columns)>>
    \o FlattenSeq([i \in DOMAIN x.columns |-> AppendString(x.columns[i])])

\* The maps' values in the order in which they are walked.
CatalogForm(ts, xs) ==
  <<Len(ts)>> \o FlattenSeq([i \in DOMAIN ts |-> TableForm(ts[i])])
    \o <<Len(xs)>> \o FlattenSeq([i \in DOMAIN xs |-> IndexForm(xs[i])])
\* Go walks a map in any order.
Marshals(c) == {CatalogForm(ts, xs) : ts \in SetToSeqs(c.tables), xs \in SetToSeqs(c.indexes)}

-----------------------------------------------------------------------------
(* Reading.  A reader of b says of each position what is read there and    *)
(* where the next thing begins: at 0 after an error, where all is refused. *)

Refused == [val |-> << >>, at |-> 0]
From(last, val) == IF last.at = 0 THEN Refused ELSE [val |-> val, at |-> last.at]
Places(b) == 0 .. Len(b) + 1

ReadNumber(b) ==
  [at \in Places(b) |->
     IF at \in 1 .. Len(b) THEN [val |-> b[at], at |-> at + 1] ELSE Refused]

ReadString(b) ==
  [at \in Places(b) |->
     IF at \in 1 .. Len(b) /\ b[at] <= Len(b) - at
     THEN [val |-> Chars(SubSeq(b, at + 1, at + b[at])), at |-> at + b[at] + 1]
     ELSE Refused]

\* A count has been read, and as many items follow.
ReadMany(count, item) ==
  LET read[n \in 0 .. count.val] ==
        IF n = 0 THEN [val |-> << >>, at |-> count.at]
        ELSE LET next == item[read[n - 1].at]
             IN  From(next, Append(read[n - 1].val, next.val))
  IN  IF count.at = 0 THEN Refused ELSE read[count.val]

ReadColumn(b) ==
  [at \in Places(b) |->
     LET name == ReadString(b)[at]
         type == ReadString(b)[name.at]
         flag == ReadNumber(b)[type.at]
     IN  From(flag, [name |-> name.val, type |-> type.val, primaryKey |-> flag.val % 2 = 1,
                     notNull |-> (flag.val \div 2) % 2 = 1])]

ReadTable(b) ==
  [at \in Places(b) |->
     LET name == ReadString(b)[at]
         root == ReadNumber(b)[name.at]
         columns == ReadMany(ReadNumber(b)[root.at], ReadColumn(b))
     IN  From(columns, [name |-> name.val, root |-> root.val, columns |-> columns.val])]

ReadIndex(b) ==
  [at \in Places(b) |->
     LET name == ReadString(b)[at]
         table == ReadString(b)[name.at]
         root == ReadNumber(b)[table.at]
         flag == ReadNumber(b)[root.at]
         columns == ReadMany(ReadNumber(b)[flag.at], ReadString(b))
     IN  From(columns, [name |-> name.val, table |-> table.val, root |-> root.val,
                        unique |-> flag.val % 2 = 1, columns |-> columns.val])]

\* The catalog; none when the buffer ends too early.  What follows is not read.
Unmarshal(b) ==
  LET tables == ReadMany(ReadNumber(b)[1], ReadTable(b))
      indexes == ReadMany(ReadNumber(b)[tables.at], ReadIndex(b))
  IN  IF indexes.at = 0 THEN {}
      ELSE {[tables |-> ToSet(tables.val), indexes |-> ToSet(indexes.val)]}
=============================================================================
