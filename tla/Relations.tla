----------------------------- MODULE Relations -----------------------------
(***************************************************************************)
(* What sqlette promises of its tables, with no page, tree or index entry: *)
(* rows under rowids, UNIQUE constraints between rows, and statements that *)
(* run inside transactions.  A statement outside of a transaction takes    *)
(* effect as a whole or not at all.                                        *)
(***************************************************************************)
EXTENDS Integers

CONSTANTS Null, Class

VARIABLES
  stable, \* what a reopened database shows
  work,   \* what the session's statements see
  mode,   \* "auto", "txn", or "failed": a transaction to be rolled back
  busy    \* a statement has begun to write

vars == <<stable, work, mode, busy>>

\* A database: the rows of each table, and the indexes.
Empty == [rows |-> << >>, indexes |-> << >>]

\* No two rows of a table agree on the columns of a unique index.
Alike(cols, x, y) ==
  \A i \in DOMAIN cols : x[cols[i]] # Null /\ Class[x[cols[i]]] = Class[y[cols[i]]]
Lawful(db) ==
  \A n \in DOMAIN db.indexes :
    LET ix == db.indexes[n]
    IN  ix.unique =>
          \A r, s \in db.rows[ix.table] : Alike(ix.cols, r.vals, s.vals) => r.id = s.id

With(f, k, v) == [j \in DOMAIN f \cup {k} |-> IF j = k THEN v ELSE f[j]]

Init == stable = Empty /\ work = Empty /\ mode = "auto" /\ busy = FALSE

\* A statement ends: outside of a transaction it is committed.
Settle ==
  /\ busy' = FALSE /\ mode' = mode
  /\ stable' = IF mode = "auto" THEN work' ELSE stable

CreateTable(t) ==
  /\ mode # "failed" /\ ~busy /\ t \notin DOMAIN work.rows
  /\ work' = [work EXCEPT !.rows = With(@, t, {})]
  /\ Settle

StartWrite == mode # "failed" /\ ~busy /\ busy' = TRUE /\ UNCHANGED <<stable, work, mode>>

\* A statement writes its rows one by one, and none against the law.
WriteRows(t, R) ==
  /\ busy
  /\ work' = [work EXCEPT !.rows[t] = R]
  /\ Lawful(work')
  /\ UNCHANGED <<stable, mode, busy>>

InsertRow(t, row) ==
  /\ \A r \in work.rows[t] : r.id # row.id
  /\ WriteRows(t, work.rows[t] \cup {row})
UpdateRow(t, id, vals) ==
  \E r \in work.rows[t] :
    /\ r.id = id
    /\ WriteRows(t, (work.rows[t] \ {r}) \cup {[r EXCEPT !.vals = vals]})
DeleteRow(t, id) == \E r \in work.rows[t] : r.id = id /\ WriteRows(t, work.rows[t] \ {r})

CreateIndex(n, ix) ==
  /\ busy /\ n \notin DOMAIN work.indexes
  /\ work' = [work EXCEPT !.indexes = With(@, n, ix)]
  /\ Lawful(work')
  /\ Settle

EndWrite == busy /\ UNCHANGED work /\ Settle

\* An error undoes the statement; inside a transaction, a UNIQUE failure keeps
\* the rows written before it, and any other asks for a rollback of the whole.
Refuse ==
  /\ busy' = FALSE
  /\ UNCHANGED <<stable, mode>>
  /\ work' = IF mode = "auto" THEN stable ELSE work
Fail == mode = "txn" /\ mode' = "failed" /\ busy' = FALSE /\ work' = stable /\ UNCHANGED stable

Begin == mode = "auto" /\ ~busy /\ mode' = "txn" /\ UNCHANGED <<stable, work, busy>>
Commit == mode = "txn" /\ ~busy /\ mode' = "auto" /\ stable' = work /\ UNCHANGED <<work, busy>>

\* ROLLBACK, or the process ends and the file is opened again.
Restore == mode' = "auto" /\ busy' = FALSE /\ work' = stable /\ UNCHANGED stable

\* Any names, rows and columns the state before or after shows.
Next ==
  \/ StartWrite \/ EndWrite \/ Refuse \/ Fail \/ Begin \/ Commit \/ Restore
  \/ \E t \in DOMAIN work'.rows : CreateTable(t)
  \/ \E n \in DOMAIN work'.indexes : CreateIndex(n, work'.indexes[n])
  \/ \E t \in DOMAIN work.rows :
       \/ \E row \in work'.rows[t] :
            InsertRow(t, row) \/ UpdateRow(t, row.id, row.vals)
       \/ \E row \in work.rows[t] : DeleteRow(t, row.id)

Spec == Init /\ [][Next]_vars
=============================================================================
