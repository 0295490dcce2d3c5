------------------------------- MODULE Engine -------------------------------
(***************************************************************************)
(* internal/engine over internal/storage and internal/catalog: statements  *)
(* that write, in autocommit or inside BEGIN ... COMMIT, with the session's *)
(* memory beside the pages and rebuilt from them after a rollback.         *)
(*                                                                         *)
(* A statement applies its rows one step at a time.  An error, and the end *)
(* of the process, may come between any two of them; an error also between *)
(* the writes of one row.  The pager is what Pager proves of it: a commit  *)
(* takes effect as a whole, a rollback or a reopening shows the last one.  *)
(***************************************************************************)
EXTENDS Storage

CONSTANTS
  Tables, Indexes, \* names
  Width,    \* the number of columns
  Rows,     \* the rows statements insert
  Wheres,   \* the sets of rows a WHERE clause holds for
  Assigns,  \* the functions from rows to rows an UPDATE applies
  ColLists, \* the column lists of CREATE INDEX
  SchemaRoom, \* how many tables and indexes the schema page can hold
  Faults,   \* what may go wrong: "call", an expression or a page the code finds
            \* in error; "collect" and "build", a page under the table scan of
            \* UPDATE and DELETE or of CREATE INDEX, which takes it for the end
  MaxRowId, MaxTrees \* bounds: rows numbered, trees allocated

Row == [1 .. Width -> Value]

ASSUME EngineAssumption ==
  /\ Width \in Nat /\ Rows \subseteq Row /\ Assigns \subseteq [Row -> Row]
  /\ ColLists \subseteq Seq(1 .. Width)
  /\ Faults \subseteq {"call", "collect", "build"}
  /\ SchemaRoom \in Nat /\ MaxRowId \in Nat /\ MaxTrees \in Nat

Faulty == "call" \in Faults

VARIABLES
  image,   \* the pages: [schema, trees, next], as the pager's cache shows them; next is
           \* the page the pager allocates next
  saved,   \* the pages as the last commit left them
  cat,     \* Engine.cat: [tables: name -> root, indexes: name -> definition]
  tables,  \* Store.tables: name -> [root, nextID, indexes]
  indexes, \* Store.indexes: name -> [root, cols, unique]
  mode,    \* inTxn: "auto" or "txn"; "failed": the client will roll back
  stmt     \* the statement that runs: [kind, table, todo] and its index.  INSERT goes
           \* through a sequence of rows, the others through a set

memory == <<cat, tables, indexes>>
vars == <<image, saved, memory, mode, stmt>>

NoStmt == [kind |-> "none"]
Idle == stmt = NoStmt
Ready == Idle /\ mode # "failed"

With(f, k, v) == [j \in DOMAIN f \cup {k} |-> IF j = k THEN v ELSE f[j]]

NoSchema == [tables |-> << >>, indexes |-> << >>]
SchemaFits(c) == Cardinality(DOMAIN c.tables) + Cardinality(DOMAIN c.indexes) <= SchemaRoom

\* The largest rowid of a tree of one leaf; Rowids has the case of more.
MaxRowID(tree) == IF tree = {} THEN 0 ELSE Max({e.id : e \in tree})

-----------------------------------------------------------------------------
(* Memory, as reload builds it from the pages.                             *)

AttachedIndexes(img) ==
  [n \in DOMAIN img.schema.indexes |->
    LET ix == img.schema.indexes[n]
    IN  [root |-> ix.root, cols |-> ix.cols, unique |-> ix.unique]]

AttachedTables(img) ==
  [t \in DOMAIN img.schema.tables |->
    [root |-> img.schema.tables[t], nextID |-> MaxRowID(img.trees[img.schema.tables[t]]),
     indexes |-> {AttachedIndexes(img)[n] :
                    n \in {m \in DOMAIN img.schema.indexes : img.schema.indexes[m].table = t}}]]

\* Mutant: Store.Rollback does not clear its tables.
UndoKeepsTables ==
  /\ image' = saved /\ UNCHANGED saved
  /\ cat' = saved.schema
  /\ tables' = [t \in DOMAIN tables \cup DOMAIN saved.schema.tables |->
                 IF t \in DOMAIN saved.schema.tables THEN AttachedTables(saved)[t] ELSE tables[t]]
  /\ indexes' = AttachedIndexes(saved)

\* The pager's rollback, or its recovery at Open, and reload.
Undo ==
  /\ image' = saved /\ UNCHANGED saved
  /\ cat' = saved.schema
  /\ tables' = AttachedTables(saved) /\ indexes' = AttachedIndexes(saved)

Init ==
  /\ image = [schema |-> NoSchema, trees |-> << >>, next |-> 1] /\ saved = image
  /\ cat = NoSchema /\ tables = << >> /\ indexes = << >>
  /\ mode = "auto" /\ stmt = NoStmt

Reopen == Undo /\ mode' = "auto" /\ stmt' = NoStmt

Begin == Ready /\ mode = "auto" /\ mode' = "txn" /\ UNCHANGED <<image, saved, memory, stmt>>

Commit ==
  /\ Ready /\ mode = "txn"
  /\ mode' = "auto" /\ saved' = image
  /\ UNCHANGED <<image, memory, stmt>>

Rollback == Idle /\ mode # "auto" /\ Undo /\ mode' = "auto" /\ UNCHANGED stmt

-----------------------------------------------------------------------------
(* How a statement ends.                                                   *)

Succeed ==
  /\ stmt' = NoStmt /\ mode' = mode
  /\ saved' = IF mode = "auto" THEN image' ELSE saved

\* Refused before this step wrote anything: UNIQUE, or a name that exists.
Refused ==
  /\ stmt' = NoStmt /\ mode' = mode
  /\ IF mode = "auto" THEN Undo ELSE UNCHANGED <<image, saved, memory>>

\* Mutant: a failed statement rolls the pages back, and does not reload.
FailsNoReload(img, c, ts, ixs) ==
  /\ stmt' = NoStmt
  /\ IF mode = "auto" THEN mode' = mode /\ image' = saved
     ELSE mode' = "failed" /\ image' = img
  /\ cat' = c /\ tables' = ts /\ indexes' = ixs
  /\ UNCHANGED saved

\* Any other error, with what it leaves behind inside a transaction.
Fails(img, c, ts, ixs) ==
  /\ stmt' = NoStmt
  /\ IF mode = "auto" THEN mode' = mode /\ Undo
     ELSE /\ mode' = "failed" /\ image' = img
          /\ cat' = c /\ tables' = ts /\ indexes' = ixs
          /\ UNCHANGED saved

\* An error between two steps: an expression, a page that cannot be read.
StatementFails == Faulty /\ ~Idle /\ Fails(image, cat, tables, indexes)

\* A statement that is refused at once: no such table or column.
Rejected == Ready /\ Refused

-----------------------------------------------------------------------------
(* CREATE TABLE and CREATE INDEX.                                          *)

\* img: the pages, with a page that was allocated.
WriteSchema(c, ts, ixs, img) ==
  \/ /\ SchemaFits(c)
     /\ image' = [img EXCEPT !.schema = c]
     /\ cat' = c /\ tables' = ts /\ indexes' = ixs
     /\ Succeed
  \/ /\ Faulty \/ ~SchemaFits(c)
     /\ Fails(img, c, ts, ixs)

Allocated ==
  [schema |-> image.schema, trees |-> With(image.trees, image.next, {}), next |-> image.next + 1]

CreateTable(t) ==
  /\ Ready /\ t \notin DOMAIN cat.tables /\ image.next <= MaxTrees
  /\ WriteSchema([cat EXCEPT !.tables = With(@, t, image.next)],
                 With(tables, t, [root |-> image.next, nextID |-> 0, indexes |-> {}]),
                 indexes, Allocated)

\* What a scan yields: btreeCursor.Err does not tell of the tree's cursor, and
\* seqScan does not ask.
Scanned(rows, fault) ==
  IF fault \in Faults THEN {{e \in rows : e.id <= n} : n \in 0 .. MaxRowId} ELSE {rows}

StartCreateIndex(n, t, cols, unique) ==
  /\ Ready /\ t \in DOMAIN cat.tables
  /\ n \notin DOMAIN cat.indexes /\ n \notin DOMAIN indexes /\ image.next <= MaxTrees
  /\ image' = Allocated
  /\ indexes' = With(indexes, n, [root |-> image.next, cols |-> cols, unique |-> unique])
  /\ \E rows \in Scanned(image.trees[tables[t].root], "build") :
       stmt' = [kind |-> "index", table |-> t, name |-> n, todo |-> rows]
  /\ UNCHANGED <<saved, cat, tables, mode>>

\* One row that BuildIndex scans, by rowid.
AddKey(row, ix, W) ==
  \/ /\ ~CheckUnique(image.trees, ix, row.vals, 0)
     /\ Refused
  \/ /\ CheckUnique(image.trees, ix, row.vals, 0)
     /\ \A w \in W : Fits(w)
     /\ image' = [image EXCEPT !.trees = Apply(@, W)]
     /\ stmt' = [stmt EXCEPT !.todo = @ \ {row}]
     /\ UNCHANGED <<saved, memory, mode>>
  \/ /\ CheckUnique(image.trees, ix, row.vals, 0)
     /\ Faulty \/ \E w \in W : ~Fits(w)
     /\ Fails(image, cat, tables, indexes)

BuildIndex ==
  /\ stmt.kind = "index"
  /\ \E row \in stmt.todo :
       /\ \A other \in stmt.todo : row.id <= other.id
       /\ AddKey(row, indexes[stmt.name], PutKeys({indexes[stmt.name]}, row.vals, row.id))

FinishCreateIndex ==
  /\ stmt.kind = "index" /\ stmt.todo = {}
  /\ LET ix == indexes[stmt.name]
     IN  WriteSchema([cat EXCEPT !.indexes = With(@, stmt.name,
                        [table |-> stmt.table, root |-> ix.root, cols |-> ix.cols,
                         unique |-> ix.unique])],
                     [tables EXCEPT ![stmt.table].indexes = @ \cup {ix}],
                     indexes, image)

-----------------------------------------------------------------------------
(* INSERT, UPDATE and DELETE.                                              *)

Start(kind, t, todo) ==
  /\ stmt' = [kind |-> kind, table |-> t, todo |-> todo]
  /\ UNCHANGED <<image, saved, memory, mode>>

StartInsert(t, rows) ==
  /\ Ready /\ t \in DOMAIN cat.tables /\ t \in DOMAIN tables
  /\ tables[t].nextID + Len(rows) <= MaxRowId
  /\ Start("insert", t, rows)

\* The rows a scan collects before the first is changed.  They are changed in the
\* order of the scan, which may be the table's or an index's: any.
Collected(t, where) ==
  Scanned({e \in image.trees[tables[t].root] : e.vals \in where}, "collect")

StartUpdate(t, where, assign) ==
  /\ Ready /\ t \in DOMAIN cat.tables /\ t \in DOMAIN tables
  /\ \E rows \in Collected(t, where) :
       Start("update", t, {Entry(assign[e.vals], e.id) : e \in rows})

StartDelete(t, where) ==
  /\ Ready /\ t \in DOMAIN cat.tables /\ t \in DOMAIN tables
  /\ \E rows \in Collected(t, where) : Start("delete", t, rows)

\* A row verb: refused, done, or given up half way; left: the rows after this one.
Verb(refused, stages, ts, left) ==
  \/ refused /\ Refused
  \/ /\ ~refused /\ \A w \in Writes(stages) : Fits(w)
     /\ image' = [image EXCEPT !.trees = Apply(@, Writes(stages))]
     /\ tables' = ts
     /\ stmt' = [stmt EXCEPT !.todo = left]
     /\ UNCHANGED <<saved, cat, indexes, mode>>
  \/ /\ ~refused
     /\ \E W \in Partial(stages, Faulty) :
          Fails([image EXCEPT !.trees = Apply(@, W)], cat, ts, indexes)

table == tables[stmt.table]

InsertRow ==
  /\ stmt.kind = "insert" /\ stmt.todo # << >>
  /\ LET row == Head(stmt.todo)
         id == table.nextID + 1
     IN  Verb(\E ix \in table.indexes : ~CheckUnique(image.trees, ix, row, 0),
              InsertStages(table, id, row), [tables EXCEPT ![stmt.table].nextID = id],
              Tail(stmt.todo))

Stored(id) == CHOOSE e \in image.trees[table.root] : e.id = id

UpdateRow ==
  /\ stmt.kind = "update"
  /\ \E new \in stmt.todo :
       LET old == Stored(new.id).vals
       IN  Verb(\E ix \in Moved(table, old, new.vals) :
                  ~CheckUnique(image.trees, ix, new.vals, new.id),
                UpdateStages(table, new.id, old, new.vals), tables, stmt.todo \ {new})

DeleteRow ==
  /\ stmt.kind = "delete"
  /\ \E row \in stmt.todo :
       Verb(FALSE, DeleteStages(table, row.id, Stored(row.id).vals), tables, stmt.todo \ {row})

\* Every row is done.
Finish ==
  /\ \/ stmt.kind = "insert" /\ stmt.todo = << >>
     \/ stmt.kind \in {"update", "delete"} /\ stmt.todo = {}
  /\ UNCHANGED <<image, memory>>
  /\ Succeed

-----------------------------------------------------------------------------
Next ==
  \/ Begin \/ Commit \/ Rollback \/ Reopen \/ Rejected \/ StatementFails
  \/ BuildIndex \/ FinishCreateIndex \/ InsertRow \/ UpdateRow \/ DeleteRow \/ Finish
  \/ \E t \in Tables :
       \/ CreateTable(t)
       \/ \E n \in Indexes, cols \in ColLists, unique \in BOOLEAN :
            StartCreateIndex(n, t, cols, unique)
       \/ \E r \in Rows : StartInsert(t, <<r>>)
       \/ \E r, s \in Rows : StartInsert(t, <<r, s>>)
       \/ \E where \in Wheres : StartDelete(t, where) \/ \E f \in Assigns : StartUpdate(t, where, f)

Spec == Init /\ [][Next]_vars

-----------------------------------------------------------------------------
Defs == [root : Nat, cols : ColLists, unique : BOOLEAN]

SchemaOK(c) ==
  /\ DOMAIN c.tables \subseteq Tables /\ DOMAIN c.indexes \subseteq Indexes
  /\ \A t \in DOMAIN c.tables : c.tables[t] \in 1 .. MaxTrees
  /\ \A n \in DOMAIN c.indexes :
       c.indexes[n] \in [table : DOMAIN c.tables, root : 1 .. MaxTrees, cols : ColLists,
                         unique : BOOLEAN]

TypeOK ==
  /\ \A img \in {image, saved} :
       /\ SchemaOK(img.schema)
       /\ img.next \in 1 .. MaxTrees + 1 /\ DOMAIN img.trees = 1 .. img.next - 1
       /\ \A r \in DOMAIN img.trees : \A e \in img.trees[r] :
            e.id \in 1 .. MaxRowId /\ e.vals \in Seq(Value)
  /\ SchemaOK(cat)
  /\ DOMAIN tables = DOMAIN cat.tables /\ DOMAIN indexes \subseteq Indexes
  /\ \A t \in DOMAIN tables :
       /\ tables[t].root \in DOMAIN image.trees /\ tables[t].nextID \in 0 .. MaxRowId
       /\ \A ix \in tables[t].indexes : ix \in Defs /\ ix.root \in DOMAIN image.trees
  /\ mode \in {"auto", "txn", "failed"}
  /\ stmt.kind \in {"none", "insert", "update", "delete", "index"}

\* After every row of every statement each index of a table has exactly the
\* entries a full scan would give it: Table's verbs move the indexes with the
\* rows (storage.go:37-103), and reload attaches all of them (engine.go:62-80).
IndexConsistent ==
  mode # "failed" =>
    \A t \in DOMAIN tables : \A ix \in tables[t].indexes :
      image.trees[ix.root] =
        {Entry(KeyCols(ix, e.vals), e.id) : e \in image.trees[tables[t].root]}

\* What the session knows is what a reopened database would: the schema page is
\* written with every change of the catalog, and rows are numbered above all
\* that the table has, whatever was rolled back or refused in between.
MemoryMatchesPages ==
  mode # "failed" =>
    /\ cat = image.schema
    /\ DOMAIN tables = DOMAIN cat.tables
    /\ \A t \in DOMAIN tables :
         /\ tables[t].nextID >= AttachedTables(image)[t].nextID
         /\ [tables[t] EXCEPT !.nextID = 0] = [AttachedTables(image)[t] EXCEPT !.nextID = 0]
    /\ \A n \in DOMAIN cat.indexes : indexes[n] = AttachedIndexes(image)[n]
    /\ mode = "auto" /\ Idle => image = saved

\* The rows and indexes of a set of pages under a catalog.
Shown(img, c) ==
  [rows |-> [t \in DOMAIN c.tables |-> img.trees[c.tables[t]]],
   indexes |-> [n \in DOMAIN c.indexes |->
                  [table |-> c.indexes[n].table, cols |-> c.indexes[n].cols,
                   unique |-> c.indexes[n].unique]]]

\* The engine implements the relations: its index trees enforce UNIQUE between
\* rows, and a statement that fails on its own leaves nothing (engine.go:94-123).
Promised == INSTANCE Relations WITH
  stable <- Shown(saved, saved.schema),
  work <- IF mode = "failed" THEN Shown(saved, saved.schema) ELSE Shown(image, cat),
  busy <- ~Idle

RefinesRelations == Promised!Spec
=============================================================================
