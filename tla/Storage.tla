------------------------------ MODULE Storage ------------------------------
(***************************************************************************)
(* The rows of a table and the entries of its indexes: internal/storage's  *)
(* Table and Index over B+trees of one kind, sets of entries.              *)
(*                                                                         *)
(* A row verb is a sequence of stages, each a set of writes to trees.  The *)
(* writes of a stage go in the order of the table's index list, which is   *)
(* the order of a Go map once the indexes have been attached: any order.   *)
(***************************************************************************)
EXTENDS Integers, Sequences, FiniteSets, FiniteSetsExt

CONSTANTS
  Value,   \* the values a column may hold, one for each encoding
  Null,    \* one of them
  Class,   \* value -> its class under values.Compare: 1 and 1.0 have one
  Size,    \* value -> bytes of its encoding
  RowRoom, \* bytes of a row that one page can hold
  KeyRoom  \* bytes of indexed columns that one page can hold, with the rowid

ASSUME StorageAssumption ==
  /\ Null \in Value
  /\ Class \in [Value -> Int] /\ \A v \in Value : Class[v] = Class[Null] => v = Null
  /\ Size \in [Value -> Nat] /\ RowRoom \in Nat /\ KeyRoom \in Nat

\* A row in a table's tree, or an entry in an index: columns and a rowid.
Entry(vals, id) == [vals |-> vals, id |-> id]

KeyCols(ix, row) == [i \in DOMAIN ix.cols |-> row[ix.cols[i]]]

\* Compare finds no difference: not that the encodings are equal.
SamePrefix(x, y) == \A i \in DOMAIN x : Class[x[i]] = Class[y[i]]

\* The key of a tree: the rowid of a table, the whole tuple of an index.
SameKey(e, f) == e.id = f.id /\ SamePrefix(e.vals, f.vals)

\* Mutant: values are compared by their encodings.
CheckUniqueBytes(trees, ix, row, self) ==
  LET cols == KeyCols(ix, row)
  IN  \/ ~ix.unique
      \/ \E i \in DOMAIN cols : cols[i] = Null
      \/ \A e \in trees[ix.root] : cols = e.vals => e.id = self

\* No other row has these columns.  A null is never equal to another.
CheckUnique(trees, ix, row, self) ==
  LET cols == KeyCols(ix, row)
  IN  \/ ~ix.unique
      \/ \E i \in DOMAIN cols : cols[i] = Null
      \/ \A e \in trees[ix.root] : SamePrefix(cols, e.vals) => e.id = self

\* sameKey compares encodings.
Moved(t, old, row) == {ix \in t.indexes : KeyCols(ix, old) # KeyCols(ix, row)}

Put(root, entry, room) == [root |-> root, put |-> TRUE, entry |-> entry, room |-> room]
Del(root, entry) == [root |-> root, put |-> FALSE, entry |-> entry]

PutKeys(ixs, row, id) == {Put(ix.root, Entry(KeyCols(ix, row), id), KeyRoom) : ix \in ixs}
DelKeys(ixs, row, id) == {Del(ix.root, Entry(KeyCols(ix, row), id)) : ix \in ixs}

InsertStages(t, id, row) ==
  <<{Put(t.root, Entry(row, id), RowRoom)}, PutKeys(t.indexes, row, id)>>

\* Mutant: the entries of the old row stay.
UpdateLeavesKeys(t, id, old, row) ==
  <<{Del(t.root, Entry(old, id))}, {Put(t.root, Entry(row, id), RowRoom)},
    PutKeys(Moved(t, old, row), row, id)>>

\* The tree's Update is a delete and an insert.
UpdateStages(t, id, old, row) ==
  <<DelKeys(Moved(t, old, row), old, id), {Del(t.root, Entry(old, id))},
    {Put(t.root, Entry(row, id), RowRoom)}, PutKeys(Moved(t, old, row), row, id)>>

\* Mutant: the entries of a deleted row stay.
DeleteLeavesKeys(t, id, old) == <<{Del(t.root, Entry(old, id))}>>

DeleteStages(t, id, old) ==
  <<{Del(t.root, Entry(old, id))}, DelKeys(t.indexes, old, id)>>

\* The B+tree refuses what does not fit in a page.
Fits(w) ==
  w.put => MapThenSumSet(LAMBDA i : Size[w.entry.vals[i]], DOMAIN w.entry.vals) <= w.room

Writes(stages) == UNION {stages[i] : i \in DOMAIN stages}

\* What may have been written when the verb returns an error: the stages before
\* one that is not completed, because a write does not fit or, when io, a page
\* cannot be read or journaled.
Partial(stages, io) ==
  UNION {{(UNION {stages[j] : j \in 1 .. i - 1}) \cup W : W \in SUBSET {w \in stages[i] : Fits(w)}} :
         i \in {j \in DOMAIN stages :
                  /\ \A k \in 1 .. j - 1 : \A w \in stages[k] : Fits(w)
                  /\ io \/ \E w \in stages[j] : ~Fits(w)}}

\* No tree is written to again what was put into it: deletes come first.
Apply(trees, W) ==
  [r \in DOMAIN trees |->
    {e \in trees[r] : \A w \in W : w.root = r /\ ~w.put => ~SameKey(w.entry, e)}
      \cup {w.entry : w \in {x \in W : x.put /\ x.root = r}}]
=============================================================================
