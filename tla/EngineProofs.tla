---------------------------- MODULE EngineProofs ----------------------------
(***************************************************************************)
(* The engine keeps its indexes and its memory in step with the pages: for *)
(* every schema, row, statement and order of errors, restarts and rows.    *)
(* First what the row verbs of storage.go come to, then the engine.        *)
(*                                                                         *)
(* One of its own faults is left out: an error that BuildIndex's scan      *)
(* takes for the end of the table makes an index without some of the rows. *)
(***************************************************************************)
EXTENDS Engine, WellFoundedInduction, TLAPS

\* The entries an index should have.
IndexOf(ix, rows) == {Entry(KeyCols(ix, e.vals), e.id) : e \in rows}

\* Rows with rowids of their own.
Numbered(rows) == \A e, f \in rows : e.id = f.id => e = f

\* A table and its indexes, each with a tree of its own.
Separate(t) ==
  \A ix \in t.indexes : ix.root # t.root /\ \A jx \in t.indexes : ix.root = jx.root => ix = jx

-----------------------------------------------------------------------------
(* One write after the other.                                              *)

LEMMA StagesOfTwo ==
  ASSUME NEW A, NEW B
  PROVE  Writes(<<A, B>>) = A \cup B
<1>1. DOMAIN <<A, B>> = {1, 2}
  OBVIOUS
<1> QED
  BY <1>1 DEF Writes

LEMMA StagesOfFour ==
  ASSUME NEW A, NEW B, NEW C, NEW D
  PROVE  Writes(<<A, B, C, D>>) = A \cup B \cup C \cup D
<1> DEFINE s == <<A, B, C, D>>
<1>1. DOMAIN s = {1, 2, 3, 4} /\ s[1] = A /\ s[2] = B /\ s[3] = C /\ s[4] = D
  OBVIOUS
<1> HIDE DEF s
<1>2. Writes(s) = UNION {s[i] : i \in {1, 2, 3, 4}}
  BY <1>1 DEF Writes
<1>3. {s[i] : i \in {1, 2, 3, 4}} = {A, B, C, D}
  BY <1>1
<1>4. UNION {A, B, C, D} = A \cup B \cup C \cup D
  OBVIOUS
<1>5. Writes(s) = A \cup B \cup C \cup D
  BY <1>2, <1>3, <1>4, Zenon
<1> QED
  BY <1>5 DEF s

\* A tree that is not written to stays.
LEMMA ApplyElsewhere ==
  ASSUME NEW trees, NEW W, NEW r \in DOMAIN trees, \A w \in W : w.root # r
  PROVE  Apply(trees, W)[r] = trees[r]
  BY DEF Apply

\* A deleted key is gone, and no other.
LEMMA IndexForgets ==
  ASSUME NEW ix, NEW rows, Numbered(rows), NEW old \in rows
  PROVE  {k \in IndexOf(ix, rows) : ~SameKey(Entry(KeyCols(ix, old.vals), old.id), k)}
           = IndexOf(ix, rows \ {old})
<1> DEFINE key(e) == Entry(KeyCols(ix, e.vals), e.id)
<1>1. SameKey(key(old), key(old))
  BY DEF SameKey, SamePrefix
<1>2. \A e \in rows : SameKey(key(old), key(e)) => e = old
  BY DEF SameKey, Entry, Numbered
<1> QED
  BY <1>1, <1>2 DEF IndexOf

LEMMA TableForgets ==
  ASSUME NEW rows, Numbered(rows), NEW old \in rows
  PROVE  {e \in rows : ~SameKey(Entry(old.vals, old.id), e)} = rows \ {old}
<1>1. SameKey(Entry(old.vals, old.id), old)
  BY DEF SameKey, SamePrefix, Entry
<1>2. \A e \in rows : SameKey(Entry(old.vals, old.id), e) => e = old
  BY DEF SameKey, Entry, Numbered
<1> QED
  BY <1>1, <1>2

\* A tree that is written to as a verb does it: one put, one delete, or both.
LEMMA ApplyPut ==
  ASSUME NEW trees, NEW W, NEW r \in DOMAIN trees, NEW e, NEW room,
         {x \in W : x.root = r} = {Put(r, e, room)}
  PROVE  Apply(trees, W)[r] = trees[r] \cup {e}
<1> DEFINE p == Put(r, e, room)
<1>1. p.entry = e /\ p.put /\ p.root = r
  BY DEF Put
<1> HIDE DEF p
<1>2. \A w \in W : w.root = r <=> w = p
  BY <1>1 DEF p
<1>3. p \in W
  BY DEF p
<1>4. {x \in W : x.put /\ x.root = r} = {p}
  BY <1>1, <1>2, <1>3
<1>5. {w.entry : w \in {p}} = {e}
  BY <1>1
<1>6. {f \in trees[r] : \A w \in W : w.root = r /\ ~w.put => ~SameKey(w.entry, f)} = trees[r]
  BY <1>1, <1>2
<1> QED
  BY <1>4, <1>5, <1>6 DEF Apply

LEMMA ApplyDel ==
  ASSUME NEW trees, NEW W, NEW r \in DOMAIN trees, NEW d,
         {x \in W : x.root = r} = {Del(r, d)}
  PROVE  Apply(trees, W)[r] = {f \in trees[r] : ~SameKey(d, f)}
<1> DEFINE p == Del(r, d)
<1>1. p.entry = d /\ ~p.put /\ p.root = r
  BY DEF Del
<1> HIDE DEF p
<1>2. \A w \in W : w.root = r <=> w = p
  BY <1>1 DEF p
<1>3. p \in W
  BY DEF p
<1>4. {x \in W : x.put /\ x.root = r} = {}
  BY <1>1, <1>2
<1>5. {f \in trees[r] : \A w \in W : w.root = r /\ ~w.put => ~SameKey(w.entry, f)}
        = {f \in trees[r] : ~SameKey(d, f)}
  BY <1>1, <1>2, <1>3
<1> QED
  BY <1>4, <1>5 DEF Apply

LEMMA ApplyBoth ==
  ASSUME NEW trees, NEW W, NEW r \in DOMAIN trees, NEW d, NEW e, NEW room,
         {x \in W : x.root = r} = {Del(r, d), Put(r, e, room)}
  PROVE  Apply(trees, W)[r] = {f \in trees[r] : ~SameKey(d, f)} \cup {e}
<1> DEFINE p == Del(r, d)
           q == Put(r, e, room)
<1>1. p.entry = d /\ ~p.put /\ p.root = r /\ q.entry = e /\ q.put /\ q.root = r
  BY DEF Del, Put
<1> HIDE DEF p, q
<1>2. \A w \in W : w.root = r <=> w = p \/ w = q
  BY <1>1 DEF p, q
<1>3. p \in W /\ q \in W
  BY DEF p, q
<1>4. {x \in W : x.put /\ x.root = r} = {q}
  BY <1>1, <1>2, <1>3
<1>5. {w.entry : w \in {q}} = {e}
  BY <1>1
<1>6. {f \in trees[r] : \A w \in W : w.root = r /\ ~w.put => ~SameKey(w.entry, f)}
        = {f \in trees[r] : ~SameKey(d, f)}
  BY <1>1, <1>2, <1>3
<1> QED
  BY <1>4, <1>5, <1>6 DEF Apply

-----------------------------------------------------------------------------
(* The verbs.                                                              *)

\* The trees of a table before a verb.
Consistent(trees, t) ==
  /\ t.root \in DOMAIN trees /\ Numbered(trees[t.root])
  /\ \A ix \in t.indexes :
       ix.root \in DOMAIN trees /\ trees[ix.root] = IndexOf(ix, trees[t.root])

\* The trees T after it, when the table has these rows.
Follows(T, trees, t, rows) ==
  /\ DOMAIN T = DOMAIN trees
  /\ T[t.root] = rows
  /\ \A ix \in t.indexes : T[ix.root] = IndexOf(ix, rows)
  /\ \A r \in DOMAIN trees :
       r # t.root /\ (\A ix \in t.indexes : r # ix.root) => T[r] = trees[r]

\* INSERT (storage.go:37-62) adds the row and an entry to each index.
THEOREM InsertFollows ==
  ASSUME NEW trees, NEW t, NEW id, NEW row, Separate(t), Consistent(trees, t)
  PROVE  Follows(Apply(trees, Writes(InsertStages(t, id, row))), trees, t,
                 trees[t.root] \cup {Entry(row, id)})
<1> DEFINE W == Writes(InsertStages(t, id, row))
           key(ix) == Entry(KeyCols(ix, row), id)
           new == Entry(row, id)
           rows == trees[t.root] \cup {new}
<1>1. W = {Put(t.root, Entry(row, id), RowRoom)} \cup PutKeys(t.indexes, row, id)
  BY StagesOfTwo DEF InsertStages
<1> HIDE DEF W
<1>2. Apply(trees, W)[t.root] = rows
  <2>1. {x \in W : x.root = t.root} = {Put(t.root, Entry(row, id), RowRoom)}
    BY <1>1 DEF PutKeys, Put, Separate
  <2> QED
    BY <2>1, ApplyPut DEF Consistent
<1>3. ASSUME NEW ix \in t.indexes
      PROVE  Apply(trees, W)[ix.root] = IndexOf(ix, rows)
  <2>1. {x \in W : x.root = ix.root} = {Put(ix.root, key(ix), KeyRoom)}
    BY <1>1 DEF PutKeys, Put, Separate
  <2>2. Apply(trees, W)[ix.root] = trees[ix.root] \cup {key(ix)}
    BY <2>1, ApplyPut DEF Consistent
  <2>3. IndexOf(ix, rows) = IndexOf(ix, trees[t.root]) \cup {key(ix)}
    <3>1. key(ix) = Entry(KeyCols(ix, new.vals), new.id)
      BY DEF Entry
    <3> HIDE DEF key, new
    <3> QED
      BY <3>1 DEF IndexOf
  <2> QED
    BY <2>2, <2>3 DEF Consistent
<1>4. ASSUME NEW r \in DOMAIN trees, r # t.root, \A ix \in t.indexes : r # ix.root
      PROVE  Apply(trees, W)[r] = trees[r]
  <2>1. \A w \in W : w.root # r
    BY <1>1, <1>4 DEF PutKeys, Put
  <2> QED
    BY <2>1, ApplyElsewhere
<1>5. DOMAIN Apply(trees, W) = DOMAIN trees
  BY DEF Apply
<1> QED
  BY <1>2, <1>3, <1>4, <1>5 DEF Follows, W

\* DELETE (storage.go:94-103) takes them away.
THEOREM DeleteFollows ==
  ASSUME NEW trees, NEW t, Separate(t), Consistent(trees, t), NEW old \in trees[t.root]
  PROVE  Follows(Apply(trees, Writes(DeleteStages(t, old.id, old.vals))), trees, t,
                 trees[t.root] \ {old})
<1> DEFINE W == Writes(DeleteStages(t, old.id, old.vals))
           key(ix) == Entry(KeyCols(ix, old.vals), old.id)
           rows == trees[t.root] \ {old}
<1>1. W = {Del(t.root, Entry(old.vals, old.id))} \cup DelKeys(t.indexes, old.vals, old.id)
  BY StagesOfTwo DEF DeleteStages
<1> HIDE DEF W
<1>2. Apply(trees, W)[t.root] = rows
  <2>1. {x \in W : x.root = t.root} = {Del(t.root, Entry(old.vals, old.id))}
    BY <1>1 DEF DelKeys, Del, Separate
  <2>2. Apply(trees, W)[t.root]
          = {e \in trees[t.root] : ~SameKey(Entry(old.vals, old.id), e)}
    BY <2>1, ApplyDel DEF Consistent
  <2> QED
    BY <2>2, TableForgets DEF Consistent
<1>3. ASSUME NEW ix \in t.indexes
      PROVE  Apply(trees, W)[ix.root] = IndexOf(ix, rows)
  <2>1. {x \in W : x.root = ix.root} = {Del(ix.root, key(ix))}
    BY <1>1 DEF DelKeys, Del, Separate
  <2>2. Apply(trees, W)[ix.root] = {k \in trees[ix.root] : ~SameKey(key(ix), k)}
    BY <2>1, ApplyDel DEF Consistent
  <2> QED
    BY <2>2, IndexForgets DEF Consistent
<1>4. ASSUME NEW r \in DOMAIN trees, r # t.root, \A ix \in t.indexes : r # ix.root
      PROVE  Apply(trees, W)[r] = trees[r]
  <2>1. \A w \in W : w.root # r
    BY <1>1, <1>4 DEF DelKeys, Del
  <2> QED
    BY <2>1, ApplyElsewhere
<1>5. DOMAIN Apply(trees, W) = DOMAIN trees
  BY DEF Apply
<1> QED
  BY <1>2, <1>3, <1>4, <1>5 DEF Follows, W

\* UPDATE (storage.go:64-92) changes the row, and moves the entries of the
\* indexes whose columns have changed; the others' are what they should be.
THEOREM UpdateFollows ==
  ASSUME NEW trees, NEW t, Separate(t), Consistent(trees, t), NEW old \in trees[t.root], NEW row
  PROVE  Follows(Apply(trees, Writes(UpdateStages(t, old.id, old.vals, row))), trees, t,
                 (trees[t.root] \ {old}) \cup {Entry(row, old.id)})
<1> DEFINE M == Moved(t, old.vals, row)
           W == Writes(UpdateStages(t, old.id, old.vals, row))
           new == Entry(row, old.id)
           rows == (trees[t.root] \ {old}) \cup {new}
           was(ix) == Entry(KeyCols(ix, old.vals), old.id)
           is(ix) == Entry(KeyCols(ix, row), old.id)
<1>1. W = DelKeys(M, old.vals, old.id) \cup {Del(t.root, Entry(old.vals, old.id))}
            \cup {Put(t.root, new, RowRoom)} \cup PutKeys(M, row, old.id)
  BY StagesOfFour DEF UpdateStages
<1>2. M \subseteq t.indexes
  BY DEF Moved
<1> HIDE DEF W, M
<1>3. Apply(trees, W)[t.root] = rows
  <2>1. {x \in W : x.root = t.root}
          = {Del(t.root, Entry(old.vals, old.id)), Put(t.root, new, RowRoom)}
    BY <1>1, <1>2 DEF DelKeys, PutKeys, Del, Put, Separate
  <2>2. Apply(trees, W)[t.root]
          = {e \in trees[t.root] : ~SameKey(Entry(old.vals, old.id), e)} \cup {new}
    BY <2>1, ApplyBoth DEF Consistent
  <2>3. {e \in trees[t.root] : ~SameKey(Entry(old.vals, old.id), e)} = trees[t.root] \ {old}
    BY TableForgets DEF Consistent
  <2> QED
    BY <2>2, <2>3
<1>4. ASSUME NEW ix \in t.indexes
      PROVE  Apply(trees, W)[ix.root] = IndexOf(ix, rows)
  <2>1. IndexOf(ix, rows) = IndexOf(ix, trees[t.root] \ {old}) \cup {is(ix)}
    <3>1. is(ix) = Entry(KeyCols(ix, new.vals), new.id)
      BY DEF Entry
    <3> HIDE DEF is, new
    <3> QED
      BY <3>1 DEF IndexOf
  <2>2. CASE ix \in M
    <3>1. {x \in W : x.root = ix.root} = {Del(ix.root, was(ix)), Put(ix.root, is(ix), KeyRoom)}
      BY <1>1, <1>2, <2>2 DEF DelKeys, PutKeys, Del, Put, Separate
    <3>2. Apply(trees, W)[ix.root] = {k \in trees[ix.root] : ~SameKey(was(ix), k)} \cup {is(ix)}
      BY <3>1, ApplyBoth DEF Consistent
    <3>3. {k \in trees[ix.root] : ~SameKey(was(ix), k)} = IndexOf(ix, trees[t.root] \ {old})
      BY IndexForgets DEF Consistent
    <3> QED
      BY <3>2, <3>3, <2>1
  <2>3. CASE ix \notin M
    <3>1. \A w \in W : w.root # ix.root
      BY <1>1, <1>2, <2>3 DEF DelKeys, PutKeys, Del, Put, Separate
    <3>2. Apply(trees, W)[ix.root] = trees[ix.root]
      BY <3>1, ApplyElsewhere DEF Consistent
    <3>3. KeyCols(ix, old.vals) = KeyCols(ix, row)
      BY <2>3 DEF Moved, M
    <3>4. IndexOf(ix, trees[t.root]) = IndexOf(ix, trees[t.root] \ {old}) \cup {was(ix)}
      BY DEF IndexOf
    <3> QED
      BY <3>2, <3>3, <3>4, <2>1 DEF Consistent
  <2> QED
    BY <2>2, <2>3
<1>5. ASSUME NEW r \in DOMAIN trees, r # t.root, \A ix \in t.indexes : r # ix.root
      PROVE  Apply(trees, W)[r] = trees[r]
  <2>1. \A w \in W : w.root # r
    BY <1>1, <1>2, <1>5 DEF DelKeys, PutKeys, Del, Put
  <2> QED
    BY <2>1, ApplyElsewhere
<1>6. DOMAIN Apply(trees, W) = DOMAIN trees
  BY DEF Apply
<1> QED
  BY <1>3, <1>4, <1>5, <1>6 DEF Follows, W

-----------------------------------------------------------------------------
(* What holds of the engine's state.                                       *)

\* Two rows that a unique index on cols may not both have.
Same(cols, x, y) ==
  \A i \in DOMAIN cols : x[cols[i]] # Null /\ Class[x[cols[i]]] = Class[y[cols[i]]]
Unique(ix, rows) ==
  ix.unique => \A r, s \in rows : Same(ix.cols, r.vals, s.vals) => r.id = s.id

\* A table's tree: rows under positive rowids, one of which is the largest.
TreeOK(tree) ==
  /\ Numbered(tree) /\ MaxRowID(tree) \in Nat
  /\ \A e \in tree :
       /\ e = Entry(e.vals, e.id) /\ e.vals \in Row
       /\ e.id \in Nat /\ 0 < e.id /\ e.id <= MaxRowID(tree)

\* An index and the rows it is on.
IndexOK(ix, trees, rows) ==
  /\ ix.cols \in ColLists /\ ix.root \in DOMAIN trees
  /\ trees[ix.root] = IndexOf(ix, rows) /\ Unique(ix, rows)

\* Pages as a commit may leave them: every table and index has a tree of its own.
PagesOK(img) ==
  LET ts == img.schema.tables
      ixs == img.schema.indexes
  IN  /\ img = [schema |-> img.schema, trees |-> img.trees, next |-> img.next]
      /\ img.schema = [tables |-> ts, indexes |-> ixs]
      /\ img.next \in Nat /\ \A r \in DOMAIN img.trees : r \in Nat /\ r < img.next
      /\ \A t \in DOMAIN ts : ts[t] \in DOMAIN img.trees /\ TreeOK(img.trees[ts[t]])
      /\ \A t, u \in DOMAIN ts : ts[t] = ts[u] => t = u
      /\ \A n \in DOMAIN ixs :
           /\ ixs[n] = [table |-> ixs[n].table, root |-> ixs[n].root, cols |-> ixs[n].cols,
                        unique |-> ixs[n].unique]
           /\ ixs[n].table \in DOMAIN ts
           /\ IndexOK(ixs[n], img.trees, img.trees[ts[ixs[n].table]])
           /\ \A m \in DOMAIN ixs : ixs[n].root = ixs[m].root => n = m
           /\ \A t \in DOMAIN ts : ixs[n].root # ts[t]

\* The memory that goes with these pages: a table may number its rows higher,
\* and a refused CREATE INDEX leaves its name among the store's indexes.
MemoryOK(img, c, ts, ixs) ==
  /\ c = img.schema
  /\ DOMAIN ts = DOMAIN c.tables
  /\ \A t \in DOMAIN ts :
       /\ ts[t] = [root |-> c.tables[t], nextID |-> ts[t].nextID,
                   indexes |-> AttachedTables(img)[t].indexes]
       /\ ts[t].nextID \in Nat /\ MaxRowID(img.trees[c.tables[t]]) <= ts[t].nextID
  /\ \A n \in DOMAIN c.indexes : n \in DOMAIN ixs /\ ixs[n] = AttachedIndexes(img)[n]

\* The rows a statement has left are rows of its table.
TodoOK(img, ts, ixs, s) ==
  /\ s.kind = "insert" =>
       /\ s = [kind |-> "insert", table |-> s.table, todo |-> s.todo]
       /\ s.table \in DOMAIN ts /\ s.todo \in Seq(Row)
  /\ s.kind \in {"update", "delete"} =>
       /\ s = [kind |-> s.kind, table |-> s.table, todo |-> s.todo]
       /\ s.table \in DOMAIN ts /\ Numbered(s.todo)
       /\ \A e \in s.todo :
            e.vals \in Row /\ \E f \in img.trees[ts[s.table].root] : f.id = e.id
  /\ s.kind = "index" =>
       /\ s = [kind |-> "index", table |-> s.table, name |-> s.name, todo |-> s.todo]
       /\ s.table \in DOMAIN ts
       /\ s.name \in DOMAIN ixs /\ s.name \notin DOMAIN img.schema.indexes
       /\ LET ix == ixs[s.name]
              rows == img.trees[ts[s.table].root]
          IN  /\ ix = [root |-> ix.root, cols |-> ix.cols, unique |-> ix.unique]
              /\ s.todo \subseteq rows
              /\ IndexOK(ix, img.trees, rows \ s.todo)
              /\ \A t \in DOMAIN img.schema.tables : ix.root # img.schema.tables[t]
              /\ \A n \in DOMAIN img.schema.indexes : ix.root # img.schema.indexes[n].root

IInv ==
  /\ mode \in {"auto", "txn", "failed"} /\ PagesOK(saved)
  /\ mode # "failed" =>
       PagesOK(image) /\ MemoryOK(image, cat, tables, indexes) /\ TodoOK(image, tables, indexes, stmt)
  /\ mode = "failed" => Idle
  /\ mode = "auto" /\ Idle => image = saved

-----------------------------------------------------------------------------
(* Rowids.                                                                 *)

\* A set of numbers with a bound has a largest one.
LEMMA LargestId ==
  ASSUME NEW tree, NEW n \in Nat, \A e \in tree : e.id \in Nat /\ e.id <= n
  PROVE  /\ MaxRowID(tree) \in Nat /\ MaxRowID(tree) <= n
         /\ \A e \in tree : e.id <= MaxRowID(tree)
<1>1. CASE tree = {}
  BY <1>1 DEF MaxRowID
<1>2. CASE tree # {}
  <2> DEFINE ids == {e.id : e \in tree}
             gaps == {n - i : i \in ids}
             Less == {ss \in Nat \X Nat : ss[1] < ss[2]}
  <2>1. ids # {} /\ \A i \in ids : i \in Nat /\ i <= n
    BY <1>2
  <2> HIDE DEF ids
  <2>2. gaps \in SUBSET Nat /\ gaps # {}
    BY <2>1
  <2>3. IsWellFoundedOn(Less, Nat)
    BY NatLessThanWellFounded, Zenon DEF OpToRel
  <2> HIDE DEF Less, gaps
  <2>4. PICK g \in gaps : \A h \in gaps : ~ (<<h, g>> \in Less)
    BY <2>2, <2>3, WFMin
  <2>5. \A h \in gaps : g <= h
    <3> SUFFICES ASSUME NEW h \in gaps PROVE g <= h
      OBVIOUS
    <3>1. <<h, g>> \notin Less /\ h \in Nat /\ g \in Nat
      BY <2>2, <2>4
    <3> QED
      BY <3>1 DEF Less
  <2>6. PICK x \in ids : g = n - x
    BY <2>4 DEF gaps
  <2>7. \A y \in ids : x >= y
    <3> SUFFICES ASSUME NEW y \in ids PROVE x >= y
      OBVIOUS
    <3>1. g <= n - y
      BY <2>5 DEF gaps
    <3>2. x \in Nat /\ y \in Nat
      BY <2>1
    <3> QED
      BY <3>1, <3>2, <2>6
  <2>8. Max(ids) \in ids /\ \A y \in ids : Max(ids) >= y
    BY <2>6, <2>7 DEF Max
  <2>9. MaxRowID(tree) = Max(ids)
    BY <1>2 DEF MaxRowID, ids
  <2>10. Max(ids) \in Nat /\ Max(ids) <= n
    BY <2>1, <2>8
  <2>11. \A e \in tree : e.id \in ids
    BY DEF ids
  <2>12. \A y \in ids : y <= Max(ids)
    BY <2>1, <2>8, <2>10
  <2> QED
    BY <2>9, <2>10, <2>11, <2>12
<1> QED
  BY <1>1, <1>2

\* The trees the verbs leave.
LEMMA TreeGrows ==
  ASSUME NEW tree, TreeOK(tree), NEW n \in Nat, MaxRowID(tree) <= n, NEW row \in Row
  PROVE  TreeOK(tree \cup {Entry(row, n + 1)}) /\ MaxRowID(tree \cup {Entry(row, n + 1)}) <= n + 1
<1> DEFINE new == Entry(row, n + 1)
           all == tree \cup {new}
<1>1. new.vals = row /\ new.id = n + 1 /\ new = Entry(new.vals, new.id)
  BY DEF Entry
<1> HIDE DEF new
<1>2. \A e \in tree : e.id \in Nat /\ 0 < e.id /\ e.id <= n
  BY DEF TreeOK
<1>3. \A e \in all : e.id \in Nat /\ 0 < e.id /\ e.id <= n + 1
  BY <1>1, <1>2
<1> HIDE DEF all
<1>4. MaxRowID(all) \in Nat /\ MaxRowID(all) <= n + 1 /\ \A e \in all : e.id <= MaxRowID(all)
  BY <1>3, LargestId
<1>5. Numbered(all)
  BY <1>1, <1>2 DEF all, Numbered, TreeOK
<1>6. \A e \in all : e = Entry(e.vals, e.id) /\ e.vals \in Row
  BY <1>1 DEF all, TreeOK
<1> QED
  BY <1>3, <1>4, <1>5, <1>6 DEF TreeOK, all, new

LEMMA TreeShrinks ==
  ASSUME NEW tree, TreeOK(tree), NEW less \in SUBSET tree
  PROVE  TreeOK(less) /\ MaxRowID(less) <= MaxRowID(tree)
<1>1. \A e \in less : e.id \in Nat /\ e.id <= MaxRowID(tree)
  BY DEF TreeOK
<1>2. MaxRowID(less) \in Nat /\ MaxRowID(less) <= MaxRowID(tree)
      /\ \A e \in less : e.id <= MaxRowID(less)
  BY <1>1, LargestId DEF TreeOK
<1> QED
  BY <1>2 DEF TreeOK, Numbered

LEMMA TreeChanges ==
  ASSUME NEW tree, TreeOK(tree), NEW old \in tree, NEW row \in Row
  PROVE  /\ TreeOK((tree \ {old}) \cup {Entry(row, old.id)})
         /\ MaxRowID((tree \ {old}) \cup {Entry(row, old.id)}) <= MaxRowID(tree)
<1> DEFINE new == Entry(row, old.id)
           all == (tree \ {old}) \cup {new}
<1>1. new.vals = row /\ new.id = old.id /\ new = Entry(new.vals, new.id)
  BY DEF Entry
<1> HIDE DEF new
<1>2. \A e \in all : e.id \in Nat /\ 0 < e.id /\ e.id <= MaxRowID(tree)
  BY <1>1 DEF TreeOK
<1> HIDE DEF all
<1>3. MaxRowID(all) \in Nat /\ MaxRowID(all) <= MaxRowID(tree)
      /\ \A e \in all : e.id <= MaxRowID(all)
  BY <1>2, LargestId DEF TreeOK
<1>4. Numbered(all)
  BY <1>1 DEF all, Numbered, TreeOK
<1>5. \A e \in all : e = Entry(e.vals, e.id) /\ e.vals \in Row
  BY <1>1 DEF all, TreeOK
<1> QED
  BY <1>2, <1>3, <1>4, <1>5 DEF TreeOK, all, new

-----------------------------------------------------------------------------
(* UNIQUE.                                                                 *)

LEMMA Columns ==
  ASSUME NEW cols \in ColLists, NEW row \in Row, NEW i \in DOMAIN cols
  PROVE  row[cols[i]] \in Value
<1> DEFINE S == 1 .. Width
<1>1. cols \in Seq(S)
  BY EngineAssumption
<1> HIDE DEF S
<1>2. i \in 1 .. Len(cols)
  BY <1>1
<1>3. cols[i] \in S
  BY <1>1, <1>2
<1> QED
  BY <1>3 DEF Row, S

\* What the check has let pass agrees with no other row.
LEMMA CheckedIsApart ==
  ASSUME NEW ix, NEW trees, NEW rows, ix.cols \in ColLists, trees[ix.root] = IndexOf(ix, rows),
         ix.unique, NEW row \in Row, NEW self, CheckUnique(trees, ix, row, self),
         NEW e \in rows, e.vals \in Row, Same(ix.cols, row, e.vals) \/ Same(ix.cols, e.vals, row)
  PROVE  e.id = self
<1> DEFINE mine == KeyCols(ix, row)
           theirs == KeyCols(ix, e.vals)
           key == Entry(theirs, e.id)
<1>1. key \in trees[ix.root] /\ key.vals = theirs /\ key.id = e.id
  BY DEF IndexOf, Entry
<1>2. DOMAIN mine = DOMAIN ix.cols /\ DOMAIN theirs = DOMAIN ix.cols
  BY DEF KeyCols
<1>3. \A i \in DOMAIN ix.cols : mine[i] = row[ix.cols[i]] /\ theirs[i] = e.vals[ix.cols[i]]
  BY DEF KeyCols
<1>4. \A i \in DOMAIN ix.cols : mine[i] \in Value /\ theirs[i] \in Value
  BY <1>3, Columns
<1> HIDE DEF mine, theirs, key
<1>5. \A i \in DOMAIN ix.cols : mine[i] # Null /\ Class[mine[i]] = Class[theirs[i]]
  BY <1>3, <1>4, StorageAssumption DEF Same
<1>6. SamePrefix(mine, key.vals)
  BY <1>1, <1>2, <1>5 DEF SamePrefix
<1> QED
  BY <1>1, <1>2, <1>5, <1>6 DEF CheckUnique, mine

\* A row that is added.
LEMMA UniqueGrows ==
  ASSUME NEW ix, NEW trees, NEW rows, ix.cols \in ColLists, trees[ix.root] = IndexOf(ix, rows),
         \A e \in rows : e.vals \in Row /\ e.id \in Nat /\ 0 < e.id,
         Unique(ix, rows), NEW row \in Row, NEW n, CheckUnique(trees, ix, row, 0)
  PROVE  Unique(ix, rows \cup {Entry(row, n)})
<1> DEFINE new == Entry(row, n)
<1>1. new.vals = row
  BY DEF Entry
<1> HIDE DEF new
<1> SUFFICES ASSUME ix.unique, NEW r \in rows \cup {new}, NEW s \in rows \cup {new},
                    Same(ix.cols, r.vals, s.vals)
             PROVE  r.id = s.id
  BY DEF Unique, new
<1>2. CASE r \in rows /\ s \in rows
  BY <1>2 DEF Unique
<1>3. CASE r = new /\ s \in rows
  <2>1. s.vals \in Row /\ Same(ix.cols, row, s.vals)
    BY <1>1, <1>3
  <2>2. s.id = 0
    BY <1>3, <2>1, CheckedIsApart
  <2> QED
    BY <1>3, <2>2
<1>4. CASE r \in rows /\ s = new
  <2>1. r.vals \in Row /\ Same(ix.cols, r.vals, row)
    BY <1>1, <1>4
  <2>2. r.id = 0
    BY <1>4, <2>1, CheckedIsApart
  <2> QED
    BY <1>4, <2>2
<1> QED
  BY <1>2, <1>3, <1>4

\* A row that is changed, checked when the index has to move its entry.
LEMMA UniqueChanges ==
  ASSUME NEW ix, NEW trees, NEW rows, ix.cols \in ColLists, trees[ix.root] = IndexOf(ix, rows),
         Numbered(rows), \A e \in rows : e.vals \in Row, Unique(ix, rows),
         NEW old \in rows, NEW row \in Row,
         KeyCols(ix, old.vals) = KeyCols(ix, row) \/ CheckUnique(trees, ix, row, old.id)
  PROVE  Unique(ix, (rows \ {old}) \cup {Entry(row, old.id)})
<1> DEFINE new == Entry(row, old.id)
           rest == rows \ {old}
<1>1. new.vals = row /\ new.id = old.id
  BY DEF Entry
<1> HIDE DEF new
<1> SUFFICES ASSUME ix.unique, NEW r \in rest \cup {new}, NEW s \in rest \cup {new},
                    Same(ix.cols, r.vals, s.vals)
             PROVE  r.id = s.id
  BY DEF Unique, new
<1>2. CASE r \in rest /\ s \in rest
  BY <1>2 DEF Unique
<1>3. CASE KeyCols(ix, old.vals) = KeyCols(ix, row)
  <2>1. \A i \in DOMAIN ix.cols : old.vals[ix.cols[i]] = row[ix.cols[i]]
    <3>1. \A i \in DOMAIN ix.cols : KeyCols(ix, old.vals)[i] = old.vals[ix.cols[i]]
                                    /\ KeyCols(ix, row)[i] = row[ix.cols[i]]
      BY DEF KeyCols
    <3> QED
      BY <1>3, <3>1
  <2>2. CASE r = new /\ s \in rest
    <3>1. Same(ix.cols, old.vals, s.vals)
      BY <1>1, <2>1, <2>2 DEF Same
    <3>2. old.id = s.id
      BY <2>2, <3>1 DEF Unique
    <3> QED
      BY <1>1, <2>2, <3>2
  <2>3. CASE r \in rest /\ s = new
    <3>1. Same(ix.cols, r.vals, old.vals)
      BY <1>1, <2>1, <2>3 DEF Same
    <3>2. r.id = old.id
      BY <2>3, <3>1 DEF Unique
    <3> QED
      BY <1>1, <2>3, <3>2
  <2> QED
    BY <1>2, <2>2, <2>3
<1>4. CASE CheckUnique(trees, ix, row, old.id)
  <2>1. CASE r = new /\ s \in rest
    <3>1. s.id = old.id
      BY <1>1, <1>4, <2>1, CheckedIsApart
    <3> QED
      BY <1>1, <2>1, <3>1
  <2>2. CASE r \in rest /\ s = new
    <3>1. r.id = old.id
      BY <1>1, <1>4, <2>2, CheckedIsApart
    <3> QED
      BY <1>1, <2>2, <3>1
  <2> QED
    BY <1>2, <2>1, <2>2
<1> QED
  BY <1>3, <1>4

-----------------------------------------------------------------------------
(* Memory beside the pages.                                                *)

LEMMA IndexOfCols ==
  ASSUME NEW ix, NEW jx, ix.cols = jx.cols, NEW rows
  PROVE  IndexOf(ix, rows) = IndexOf(jx, rows)
<1>1. \A row : KeyCols(ix, row) = KeyCols(jx, row)
  BY DEF KeyCols
<1> QED
  BY <1>1 DEF IndexOf

\* An index as the store has it.
LEMMA AttachedIndex ==
  ASSUME NEW img, NEW n \in DOMAIN img.schema.indexes
  PROVE  LET ix == AttachedIndexes(img)[n]
             def == img.schema.indexes[n]
         IN  ix = [root |-> def.root, cols |-> def.cols, unique |-> def.unique]
  BY DEF AttachedIndexes

\* reload (engine.go:62-80) builds the memory from the pages.
LEMMA Reload ==
  ASSUME NEW img, PagesOK(img)
  PROVE  MemoryOK(img, img.schema, AttachedTables(img), AttachedIndexes(img))
<1> DEFINE ts == AttachedTables(img)
           roots == img.schema.tables
<1>1. DOMAIN ts = DOMAIN roots
  BY Zenon DEF AttachedTables
<1>2. ASSUME NEW t \in DOMAIN ts
      PROVE  /\ ts[t] = [root |-> roots[t], nextID |-> ts[t].nextID, indexes |-> ts[t].indexes]
             /\ ts[t].nextID = MaxRowID(img.trees[roots[t]])
  BY <1>2 DEF AttachedTables
<1>3. ASSUME NEW t \in DOMAIN ts
      PROVE  MaxRowID(img.trees[roots[t]]) \in Nat
  BY <1>1 DEF PagesOK, TreeOK
<1>4. DOMAIN AttachedIndexes(img) = DOMAIN img.schema.indexes
  BY DEF AttachedIndexes
<1> HIDE DEF ts
<1> QED
  BY <1>1, <1>2, <1>3, <1>4 DEF MemoryOK, ts

\* A table of the store, and the trees it stands for.
LEMMA AttachedTable ==
  ASSUME NEW img, NEW c, NEW ts, NEW ixs, PagesOK(img), MemoryOK(img, c, ts, ixs),
         NEW t \in DOMAIN ts
  PROVE  /\ t \in DOMAIN img.schema.tables /\ ts[t].root = img.schema.tables[t]
         /\ ts[t].indexes = {AttachedIndexes(img)[n] :
              n \in {m \in DOMAIN img.schema.indexes : img.schema.indexes[m].table = t}}
         /\ ts[t].root \in DOMAIN img.trees /\ TreeOK(img.trees[ts[t].root])
         /\ ts[t].nextID \in Nat /\ MaxRowID(img.trees[ts[t].root]) <= ts[t].nextID
<1>1. t \in DOMAIN img.schema.tables
  BY DEF MemoryOK
<1>2. ts[t] = [root |-> img.schema.tables[t], nextID |-> ts[t].nextID,
               indexes |-> AttachedTables(img)[t].indexes]
  BY DEF MemoryOK
<1>3. ts[t].root = img.schema.tables[t] /\ ts[t].indexes = AttachedTables(img)[t].indexes
  BY <1>2
<1>4. AttachedTables(img)[t].indexes = {AttachedIndexes(img)[n] :
              n \in {m \in DOMAIN img.schema.indexes : img.schema.indexes[m].table = t}}
  BY <1>1 DEF AttachedTables
<1>5. img.schema.tables[t] \in DOMAIN img.trees /\ TreeOK(img.trees[img.schema.tables[t]])
  BY <1>1 DEF PagesOK
<1>6. ts[t].nextID \in Nat /\ MaxRowID(img.trees[img.schema.tables[t]]) <= ts[t].nextID
  BY DEF MemoryOK
<1> QED
  BY <1>1, <1>3, <1>4, <1>5, <1>6

LEMMA ItsIndexes ==
  ASSUME NEW img, NEW c, NEW ts, NEW ixs, PagesOK(img), MemoryOK(img, c, ts, ixs),
         NEW t \in DOMAIN ts
  PROVE  /\ \A ix \in ts[t].indexes : IndexOK(ix, img.trees, img.trees[ts[t].root])
         /\ Separate(ts[t]) /\ Consistent(img.trees, ts[t])
<1> DEFINE defs == img.schema.indexes
           rows == img.trees[ts[t].root]
<1>1. ASSUME NEW ix \in ts[t].indexes
      PROVE  \E n \in DOMAIN defs :
               /\ ix = AttachedIndexes(img)[n] /\ defs[n].table = t
               /\ ix.root = defs[n].root /\ ix.cols = defs[n].cols /\ ix.unique = defs[n].unique
  <2>1. PICK n \in DOMAIN defs : ix = AttachedIndexes(img)[n] /\ defs[n].table = t
    BY AttachedTable
  <2>2. ix = [root |-> defs[n].root, cols |-> defs[n].cols, unique |-> defs[n].unique]
    BY <2>1, AttachedIndex
  <2>3. ix.root = defs[n].root /\ ix.cols = defs[n].cols /\ ix.unique = defs[n].unique
    BY <2>2
  <2> QED
    BY <2>1, <2>3
<1>2. ASSUME NEW n \in DOMAIN defs, defs[n].table = t
      PROVE  /\ IndexOK(defs[n], img.trees, rows)
             /\ \A m \in DOMAIN defs : defs[n].root = defs[m].root => n = m
             /\ defs[n].root # ts[t].root
  <2>1. IndexOK(defs[n], img.trees, img.trees[img.schema.tables[t]])
    BY <1>2 DEF PagesOK
  <2>2. \A m \in DOMAIN defs : defs[n].root = defs[m].root => n = m
    BY DEF PagesOK
  <2>3. t \in DOMAIN img.schema.tables /\ ts[t].root = img.schema.tables[t]
    BY AttachedTable
  <2>4. defs[n].root # img.schema.tables[t]
    BY <2>3 DEF PagesOK
  <2> QED
    BY <2>1, <2>2, <2>3, <2>4
<1>3. ASSUME NEW ix \in ts[t].indexes
      PROVE  IndexOK(ix, img.trees, rows)
  <2>1. PICK n \in DOMAIN defs :
               /\ ix = AttachedIndexes(img)[n] /\ defs[n].table = t
               /\ ix.root = defs[n].root /\ ix.cols = defs[n].cols /\ ix.unique = defs[n].unique
    BY <1>1
  <2>2. IndexOK(defs[n], img.trees, rows)
    BY <1>2, <2>1
  <2>3. IndexOf(ix, rows) = IndexOf(defs[n], rows)
    BY <2>1, IndexOfCols
  <2> QED
    BY <2>1, <2>2, <2>3 DEF IndexOK, Unique
<1>4. Separate(ts[t])
  BY <1>1, <1>2 DEF Separate
<1>5. Consistent(img.trees, ts[t])
  BY <1>3, AttachedTable DEF Consistent, IndexOK, TreeOK
<1> QED
  BY <1>3, <1>4, <1>5

\* Both depend on the schema alone, but for the rowids.
LEMMA AttachedBySchema ==
  ASSUME NEW img, NEW new, new.schema = img.schema
  PROVE  /\ AttachedIndexes(new) = AttachedIndexes(img)
         /\ \A t \in DOMAIN img.schema.tables :
              AttachedTables(new)[t].indexes = AttachedTables(img)[t].indexes
<1>1. AttachedIndexes(new) = AttachedIndexes(img)
  BY DEF AttachedIndexes
<1>2. ASSUME NEW t \in DOMAIN img.schema.tables
      PROVE  AttachedTables(new)[t].indexes = AttachedTables(img)[t].indexes
  <2> DEFINE its(i) == {AttachedIndexes(i)[n] :
               n \in {m \in DOMAIN i.schema.indexes : i.schema.indexes[m].table = t}}
  <2>1. AttachedTables(img)[t].indexes = its(img)
    BY DEF AttachedTables
  <2>2. AttachedTables(new)[t].indexes = its(new)
    BY DEF AttachedTables
  <2> QED
    BY <1>1, <2>1, <2>2
<1> QED
  BY <1>1, <1>2

\* A row verb has made rows the rows of table t, in the pages new and the memory
\* us; no unique index of the table refuses them.
RowsWritten(img, c, ts, ixs, t, T, rows, us, new) ==
  /\ PagesOK(img) /\ MemoryOK(img, c, ts, ixs)
  /\ t \in DOMAIN ts /\ Follows(T, img.trees, ts[t], rows) /\ TreeOK(rows)
  /\ \A ix \in ts[t].indexes : Unique(ix, rows)
  /\ DOMAIN us = DOMAIN ts /\ \A u \in DOMAIN ts : u # t => us[u] = ts[u]
  /\ us[t] = [root |-> ts[t].root, nextID |-> us[t].nextID, indexes |-> ts[t].indexes]
  /\ us[t].nextID \in Nat /\ MaxRowID(rows) <= us[t].nextID
  /\ new = [img EXCEPT !.trees = T]

\* It leaves pages and memory as they should be, and the other tables alone.
RowsAreThere(img, c, ixs, t, T, rows, us, new) ==
  /\ new.schema = img.schema /\ new.trees = T /\ new.next = img.next
  /\ PagesOK(new) /\ MemoryOK(new, c, us, ixs)
  /\ t \in DOMAIN img.schema.tables
  /\ \A u \in DOMAIN img.schema.tables :
       T[img.schema.tables[u]] = IF u = t THEN rows ELSE img.trees[img.schema.tables[u]]

LEMMA VerbKeeps ==
  ASSUME NEW img, NEW c, NEW ts, NEW ixs, NEW t, NEW T, NEW rows, NEW us, NEW new,
         RowsWritten(img, c, ts, ixs, t, T, rows, us, new)
  PROVE  RowsAreThere(img, c, ixs, t, T, rows, us, new)
<1> DEFINE roots == img.schema.tables
           defs == img.schema.indexes
<1>1. new = [schema |-> img.schema, trees |-> T, next |-> img.next]
  <2>1. img = [schema |-> img.schema, trees |-> img.trees, next |-> img.next]
    BY DEF RowsWritten, PagesOK
  <2> QED
    BY <2>1 DEF RowsWritten
<1>2. new.schema = img.schema /\ new.trees = T /\ new.next = img.next
  BY <1>1
<1>0. /\ PagesOK(img) /\ MemoryOK(img, c, ts, ixs)
      /\ t \in DOMAIN ts /\ Follows(T, img.trees, ts[t], rows) /\ TreeOK(rows)
      /\ \A ix \in ts[t].indexes : Unique(ix, rows)
      /\ DOMAIN us = DOMAIN ts /\ \A u \in DOMAIN ts : u # t => us[u] = ts[u]
      /\ us[t] = [root |-> ts[t].root, nextID |-> us[t].nextID, indexes |-> ts[t].indexes]
      /\ us[t].nextID \in Nat /\ MaxRowID(rows) <= us[t].nextID
  BY DEF RowsWritten
<1> USE <1>0
<1>3. DOMAIN T = DOMAIN img.trees /\ T[roots[t]] = rows /\ t \in DOMAIN roots
  BY AttachedTable DEF Follows
<1>4. ASSUME NEW ix \in ts[t].indexes
      PROVE  /\ T[ix.root] = IndexOf(ix, rows) /\ Unique(ix, rows)
             /\ \E n \in DOMAIN defs : defs[n].table = t /\ ix.root = defs[n].root
  <2>1. PICK n \in DOMAIN defs : ix = AttachedIndexes(img)[n] /\ defs[n].table = t
    BY AttachedTable
  <2>2. ix = [root |-> defs[n].root, cols |-> defs[n].cols, unique |-> defs[n].unique]
    BY <2>1, AttachedIndex
  <2>3. ix.root = defs[n].root
    BY <2>2
  <2> QED
    BY <2>1, <2>3 DEF Follows
<1>5. ASSUME NEW u \in DOMAIN roots, u # t
      PROVE  T[roots[u]] = img.trees[roots[u]]
  <2>1. roots[u] \in DOMAIN img.trees /\ roots[u] # roots[t]
    BY <1>3, <1>5 DEF PagesOK
  <2>2. ASSUME NEW ix \in ts[t].indexes
        PROVE  ix.root # roots[u]
    <3>1. PICK n \in DOMAIN defs : ix.root = defs[n].root
      BY <1>4
    <3>2. \A m \in DOMAIN defs : \A v \in DOMAIN roots : defs[m].root # roots[v]
      BY DEF PagesOK
    <3> QED
      BY <3>1, <3>2
  <2>3. ts[t].root = roots[t]
    BY AttachedTable
  <2> QED
    BY <2>1, <2>2, <2>3 DEF Follows
<1>6. ASSUME NEW n \in DOMAIN defs, defs[n].table = t
      PROVE  T[defs[n].root] = IndexOf(defs[n], rows) /\ Unique(defs[n], rows)
  <2> DEFINE ix == AttachedIndexes(img)[n]
  <2>1. ix \in ts[t].indexes
    BY <1>6, AttachedTable
  <2>2. ix = [root |-> defs[n].root, cols |-> defs[n].cols, unique |-> defs[n].unique]
    BY AttachedIndex
  <2> HIDE DEF ix
  <2>3. ix.root = defs[n].root /\ ix.cols = defs[n].cols /\ ix.unique = defs[n].unique
    BY <2>2
  <2>4. IndexOf(ix, rows) = IndexOf(defs[n], rows)
    BY <2>3, IndexOfCols
  <2>5. T[ix.root] = IndexOf(ix, rows) /\ Unique(ix, rows)
    BY <1>4, <2>1
  <2> QED
    BY <2>3, <2>4, <2>5 DEF Unique
<1>7. ASSUME NEW n \in DOMAIN defs, defs[n].table # t
      PROVE  T[defs[n].root] = img.trees[defs[n].root]
  <2>1. defs[n].root \in DOMAIN img.trees /\ defs[n].root # roots[t]
    BY <1>3 DEF PagesOK, IndexOK
  <2>2. ASSUME NEW ix \in ts[t].indexes
        PROVE  ix.root # defs[n].root
    <3>1. PICK m \in DOMAIN defs : defs[m].table = t /\ ix.root = defs[m].root
      BY <1>4
    <3>2. defs[m].root = defs[n].root => m = n
      BY DEF PagesOK
    <3> QED
      BY <3>1, <3>2, <1>7
  <2>3. ts[t].root = roots[t]
    BY AttachedTable
  <2> QED
    BY <2>1, <2>2, <2>3 DEF Follows
<1>8. PagesOK(new)
  <2>1. ASSUME NEW u \in DOMAIN roots
        PROVE  roots[u] \in DOMAIN T /\ TreeOK(T[roots[u]])
    <3>1. roots[u] \in DOMAIN img.trees /\ TreeOK(img.trees[roots[u]])
      BY DEF PagesOK
    <3> QED
      BY <3>1, <1>3, <1>5
  <2>2. ASSUME NEW n \in DOMAIN defs
        PROVE  IndexOK(defs[n], T, T[roots[defs[n].table]]) /\ defs[n].table \in DOMAIN roots
    <3>1. IndexOK(defs[n], img.trees, img.trees[roots[defs[n].table]])
          /\ defs[n].table \in DOMAIN roots
      BY DEF PagesOK
    <3>2. CASE defs[n].table = t
      BY <3>1, <3>2, <1>3, <1>6 DEF IndexOK
    <3>3. CASE defs[n].table # t
      BY <3>1, <3>3, <1>3, <1>5, <1>7 DEF IndexOK
    <3> QED
      BY <3>2, <3>3
  <2>3. \A r \in DOMAIN T : r \in Nat /\ r < img.next
    BY <1>3 DEF PagesOK
  <2> QED
    BY <1>1, <1>2, <2>1, <2>2, <2>3 DEF PagesOK
<1>9. MemoryOK(new, c, us, ixs)
  <2>1. c = new.schema /\ c = img.schema /\ DOMAIN us = DOMAIN c.tables
    BY <1>2 DEF MemoryOK
  <2>2. \A n \in DOMAIN c.indexes : n \in DOMAIN ixs /\ ixs[n] = AttachedIndexes(new)[n]
    BY <1>2, AttachedBySchema DEF MemoryOK
  <2>3. ASSUME NEW u \in DOMAIN us
        PROVE  /\ us[u] = [root |-> roots[u], nextID |-> us[u].nextID,
                           indexes |-> AttachedTables(new)[u].indexes]
               /\ us[u].nextID \in Nat /\ MaxRowID(T[roots[u]]) <= us[u].nextID
    <3>1. AttachedTables(new)[u].indexes = AttachedTables(img)[u].indexes
      <4>1. u \in DOMAIN roots
        BY <2>1
      <4>2. \A v \in DOMAIN roots :
              AttachedTables(new)[v].indexes = AttachedTables(img)[v].indexes
        BY <1>2, AttachedBySchema
      <4> QED
        BY <4>1, <4>2
    <3>2. /\ ts[u] = [root |-> roots[u], nextID |-> ts[u].nextID,
                      indexes |-> AttachedTables(img)[u].indexes]
          /\ ts[u].nextID \in Nat /\ MaxRowID(img.trees[roots[u]]) <= ts[u].nextID
      BY <2>1 DEF MemoryOK
    <3>3. CASE u = t
      <4>1. ts[t].root = roots[t] /\ ts[t].indexes = AttachedTables(img)[t].indexes
        BY <3>2, <3>3
      <4> QED
        BY <4>1, <3>1, <3>3, <1>3
    <3>4. CASE u # t
      BY <3>1, <3>2, <3>4, <1>5, <2>1
    <3> QED
      BY <3>3, <3>4
  <2> QED
    BY <2>1, <2>2, <2>3, <1>2 DEF MemoryOK
<1>10. \A u \in DOMAIN roots : T[roots[u]] = IF u = t THEN rows ELSE img.trees[roots[u]]
  BY <1>3, <1>5
<1> QED
  BY <1>2, <1>3, <1>8, <1>9, <1>10 DEF RowsAreThere

-----------------------------------------------------------------------------
(* How a statement ends or goes on.                                        *)

\* A row verb that is not done, or done: its table has these rows then.
GaveUp == Refused \/ \E img, ts : Fails(img, cat, ts, indexes)
Wrote(t, rows) ==
  /\ UNCHANGED <<saved, cat, mode>> /\ mode # "failed" /\ ~Idle /\ ~Idle'
  /\ t \in DOMAIN cat.tables
  /\ \A u \in DOMAIN cat.tables :
       image'.trees[cat.tables[u]] = IF u = t THEN rows ELSE image.trees[cat.tables[u]]

\* A step of CREATE INDEX that no row and no index of a table shows.
Kept ==
  /\ UNCHANGED <<saved, cat, mode>> /\ mode # "failed" /\ ~Idle'
  /\ \A u \in DOMAIN cat.tables : image'.trees[cat.tables[u]] = image.trees[cat.tables[u]]

LEMMA UndoKeeps ==
  ASSUME IInv, Undo, stmt' = NoStmt, mode' = "auto"
  PROVE  IInv'
<1>1. PagesOK(saved) /\ image' = saved /\ saved' = saved
  BY DEF IInv, Undo
<1>2. MemoryOK(image', cat', tables', indexes')
  BY <1>1, Reload DEF Undo
<1>3. TodoOK(image', tables', indexes', stmt')
  BY DEF TodoOK, NoStmt
<1> QED
  BY <1>1, <1>2, <1>3 DEF IInv

LEMMA FailsKeeps ==
  ASSUME IInv, mode # "failed", NEW img, NEW c, NEW ts, NEW ixs, Fails(img, c, ts, ixs)
  PROVE  IInv'
<1>1. CASE mode = "auto"
  BY <1>1, UndoKeeps DEF Fails
<1>2. CASE mode # "auto"
  BY <1>2 DEF Fails, IInv, Idle
<1> QED
  BY <1>1, <1>2

LEMMA RefusedKeeps ==
  ASSUME IInv, mode # "failed", Refused
  PROVE  IInv'
<1>1. CASE mode = "auto"
  BY <1>1, UndoKeeps DEF Refused
<1>2. CASE mode # "auto"
  <2>1. UNCHANGED <<image, saved, cat, tables, indexes, mode>> /\ stmt' = NoStmt
    BY <1>2 DEF Refused, memory
  <2>2. TodoOK(image', tables', indexes', stmt')
    BY <2>1 DEF TodoOK, NoStmt
  <2> QED
    BY <1>2, <2>1, <2>2 DEF IInv
<1> QED
  BY <1>1, <1>2

LEMMA SucceedKeeps ==
  ASSUME IInv, mode # "failed", Succeed, PagesOK(image'), MemoryOK(image', cat', tables', indexes')
  PROVE  IInv'
<1>1. TodoOK(image', tables', indexes', stmt')
  BY DEF TodoOK, NoStmt, Succeed
<1>2. PagesOK(saved')
  BY DEF Succeed, IInv
<1> QED
  BY <1>1, <1>2 DEF IInv, Succeed

LEMMA GoesOn ==
  ASSUME IInv, mode # "failed", UNCHANGED <<saved, mode>>, stmt'.kind # "none",
         PagesOK(image'), MemoryOK(image', cat', tables', indexes'),
         TodoOK(image', tables', indexes', stmt')
  PROVE  IInv' /\ ~Idle'
<1>1. ~Idle'
  BY DEF Idle, NoStmt
<1> QED
  BY <1>1 DEF IInv

LEMMA TodoExcept ==
  ASSUME NEW s, s = [kind |-> s.kind, table |-> s.table, todo |-> s.todo], NEW left
  PROVE  [s EXCEPT !.todo = left] = [kind |-> s.kind, table |-> s.table, todo |-> left]
  OBVIOUS

LEMMA IndexesExcept ==
  ASSUME NEW x, NEW r, NEW n, NEW is, x = [root |-> r, nextID |-> n, indexes |-> is], NEW more
  PROVE  [x EXCEPT !.indexes = @ \cup more] = [root |-> r, nextID |-> n, indexes |-> is \cup more]
<1>1. x.indexes = is
  OBVIOUS
<1>2. [x EXCEPT !.indexes = x.indexes \cup more] = [x EXCEPT !.indexes = is \cup more]
  BY <1>1
<1> QED
  BY <1>2

LEMMA TableShape ==
  ASSUME NEW img, NEW c, NEW ts, NEW ixs, MemoryOK(img, c, ts, ixs), NEW t \in DOMAIN ts
  PROVE  ts[t] = [root |-> ts[t].root, nextID |-> ts[t].nextID, indexes |-> ts[t].indexes]
<1>1. PICK r, n, ixd : ts[t] = [root |-> r, nextID |-> n, indexes |-> ixd]
  BY DEF MemoryOK
<1> QED
  BY <1>1

-----------------------------------------------------------------------------
(* INSERT, UPDATE and DELETE.                                              *)

LEMMA InsertRowKeeps ==
  ASSUME IInv, InsertRow
  PROVE  /\ IInv'
         /\ \/ GaveUp
            \/ Wrote(stmt.table, image.trees[table.root]
                 \cup {Entry(Head(stmt.todo), table.nextID + 1)})
<1> DEFINE t == stmt.table
           row == Head(stmt.todo)
           id == table.nextID + 1
           rows == image.trees[table.root]
<1>1. mode # "failed"
  BY DEF InsertRow, IInv, Idle, NoStmt
<1>2. PagesOK(image) /\ MemoryOK(image, cat, tables, indexes) /\ TodoOK(image, tables, indexes, stmt)
  BY <1>1 DEF IInv
<1>3. /\ stmt = [kind |-> "insert", table |-> stmt.table, todo |-> stmt.todo]
      /\ t \in DOMAIN tables /\ stmt.todo \in Seq(Row) /\ stmt.todo # << >>
  BY <1>2 DEF InsertRow, TodoOK
<1>4. row \in Row /\ Tail(stmt.todo) \in Seq(Row)
  BY <1>3
<1>5. CASE Refused
  BY <1>1, <1>5, RefusedKeeps DEF GaveUp
<1>6. ASSUME NEW img, NEW ts, Fails(img, cat, ts, indexes)
      PROVE  IInv' /\ GaveUp
  BY <1>1, <1>6, FailsKeeps DEF GaveUp
<1>7. ASSUME ~\E ix \in table.indexes : ~CheckUnique(image.trees, ix, row, 0),
             image' = [image EXCEPT !.trees = Apply(@, Writes(InsertStages(table, id, row)))],
             tables' = [tables EXCEPT ![stmt.table].nextID = id],
             stmt' = [stmt EXCEPT !.todo = Tail(stmt.todo)],
             UNCHANGED <<saved, cat, indexes, mode>>
      PROVE  IInv' /\ Wrote(t, rows \cup {Entry(row, id)})
  <2> DEFINE T == Apply(image.trees, Writes(InsertStages(table, id, row)))
             more == rows \cup {Entry(row, id)}
  <2>1. /\ TreeOK(rows) /\ table.nextID \in Nat /\ MaxRowID(rows) <= table.nextID
        /\ \A ix \in table.indexes : IndexOK(ix, image.trees, rows)
        /\ Separate(table) /\ Consistent(image.trees, table)
    BY <1>2, <1>3, AttachedTable, ItsIndexes DEF table
  <2>2. Follows(T, image.trees, table, more)
    BY <2>1, InsertFollows
  <2>3. TreeOK(more) /\ MaxRowID(more) <= id
    BY <1>4, <2>1, TreeGrows
  <2>4. ASSUME NEW ix \in table.indexes
        PROVE  Unique(ix, more)
    BY <1>4, <1>7, <2>1, UniqueGrows DEF IndexOK, TreeOK
  <2>5. /\ table = [root |-> table.root, nextID |-> table.nextID, indexes |-> table.indexes]
        /\ DOMAIN tables' = DOMAIN tables
    BY <1>2, <1>3, <1>7, TableShape DEF table
  <2>6. /\ \A u \in DOMAIN tables : u # t => tables'[u] = tables[u]
        /\ tables'[t] = [root |-> table.root, nextID |-> id, indexes |-> table.indexes]
    BY <1>3, <1>7, <2>5 DEF table
  <2>7. id \in Nat
    BY <2>1
  <2>8. image' = [image EXCEPT !.trees = T]
    BY <1>7
  <2> HIDE DEF T, more, id
  <2>9. /\ PagesOK(image') /\ MemoryOK(image', cat', tables', indexes')
        /\ image'.trees = T /\ t \in DOMAIN image.schema.tables
        /\ \A u \in DOMAIN image.schema.tables : T[image.schema.tables[u]] =
               IF u = t THEN more ELSE image.trees[image.schema.tables[u]]
    <3>1. tables'[t].nextID = id
      BY <2>6
    <3>2. RowsWritten(image, cat, tables, indexes, t, T, more, tables', image')
      BY <1>2, <1>3, <2>2, <2>3, <2>4, <2>5, <2>6, <2>7, <2>8, <3>1 DEF RowsWritten, table
    <3>3. RowsAreThere(image, cat, indexes, t, T, more, tables', image')
      BY <3>2, VerbKeeps
    <3> QED
      BY <1>7, <3>3 DEF RowsAreThere
  <2>10. stmt' = [kind |-> "insert", table |-> t, todo |-> Tail(stmt.todo)]
    <3>1. stmt = [kind |-> stmt.kind, table |-> stmt.table, todo |-> stmt.todo]
          /\ stmt.kind = "insert"
      BY <1>3
    <3> QED
      BY <1>7, <3>1, TodoExcept
  <2>11. TodoOK(image', tables', indexes', stmt')
    BY <1>3, <1>4, <2>5, <2>10 DEF TodoOK
  <2>12. IInv' /\ ~Idle'
    BY <1>1, <1>7, <2>9, <2>10, <2>11, GoesOn
  <2>13. ~Idle /\ cat = image.schema
    BY <1>2 DEF InsertRow, Idle, NoStmt, MemoryOK
  <2> QED
    BY <1>1, <1>7, <2>9, <2>12, <2>13 DEF Wrote, more, id
<1> QED
  BY <1>5, <1>6, <1>7 DEF InsertRow, Verb

LEMMA StoredIsThere ==
  ASSUME NEW id, \E f \in image.trees[table.root] : f.id = id
  PROVE  Stored(id) \in image.trees[table.root] /\ Stored(id).id = id
  BY DEF Stored

LEMMA UpdateRowKeeps ==
  ASSUME IInv, UpdateRow
  PROVE  /\ IInv'
         /\ \/ GaveUp
            \/ \E new : \E old \in image.trees[table.root] :
                 /\ old.id = new.id
                 /\ Wrote(stmt.table,
                          (image.trees[table.root] \ {old}) \cup {Entry(new.vals, new.id)})
<1> DEFINE t == stmt.table
           rows == image.trees[table.root]
<1>1. mode # "failed"
  BY DEF UpdateRow, IInv, Idle, NoStmt
<1>2. PagesOK(image) /\ MemoryOK(image, cat, tables, indexes) /\ TodoOK(image, tables, indexes, stmt)
  BY <1>1 DEF IInv
<1>3. /\ stmt.kind = "update"
      /\ stmt = [kind |-> stmt.kind, table |-> stmt.table, todo |-> stmt.todo]
      /\ t \in DOMAIN tables /\ Numbered(stmt.todo)
      /\ \A e \in stmt.todo : e.vals \in Row /\ \E f \in rows : f.id = e.id
  BY <1>2 DEF UpdateRow, TodoOK, table
<1>4. PICK new \in stmt.todo :
        Verb(\E ix \in Moved(table, Stored(new.id).vals, new.vals) :
               ~CheckUnique(image.trees, ix, new.vals, new.id),
             UpdateStages(table, new.id, Stored(new.id).vals, new.vals), tables, stmt.todo \ {new})
  BY DEF UpdateRow
<1> DEFINE old == Stored(new.id)
<1>5. CASE Refused
  BY <1>1, <1>5, RefusedKeeps DEF GaveUp
<1>6. ASSUME NEW img, Fails(img, cat, tables, indexes)
      PROVE  IInv' /\ GaveUp
  BY <1>1, <1>6, FailsKeeps DEF GaveUp
<1>7. ASSUME ~\E ix \in Moved(table, old.vals, new.vals) :
                ~CheckUnique(image.trees, ix, new.vals, new.id),
             image' = [image EXCEPT !.trees =
                         Apply(@, Writes(UpdateStages(table, new.id, old.vals, new.vals)))],
             tables' = tables,
             stmt' = [stmt EXCEPT !.todo = stmt.todo \ {new}],
             UNCHANGED <<saved, cat, indexes, mode>>
      PROVE  /\ IInv' /\ old \in rows /\ old.id = new.id
             /\ Wrote(t, (rows \ {old}) \cup {Entry(new.vals, new.id)})
  <2> DEFINE T == Apply(image.trees, Writes(UpdateStages(table, new.id, old.vals, new.vals)))
             after == (rows \ {old}) \cup {Entry(new.vals, new.id)}
  <2>1. old \in rows /\ old.id = new.id /\ new.vals \in Row
    BY <1>3, StoredIsThere
  <2> HIDE DEF old
  <2>2. /\ TreeOK(rows) /\ table.nextID \in Nat /\ MaxRowID(rows) <= table.nextID
        /\ \A ix \in table.indexes : IndexOK(ix, image.trees, rows)
        /\ Separate(table) /\ Consistent(image.trees, table)
    BY <1>2, <1>3, AttachedTable, ItsIndexes DEF table
  <2>3. Follows(T, image.trees, table, after)
    BY <2>1, <2>2, UpdateFollows
  <2>4. TreeOK(after) /\ MaxRowID(after) <= table.nextID
    <3>1. TreeOK(after) /\ MaxRowID(after) <= MaxRowID(rows)
      BY <2>1, <2>2, TreeChanges
    <3>2. MaxRowID(after) \in Nat /\ MaxRowID(rows) \in Nat
      BY <3>1, <2>2 DEF TreeOK
    <3> QED
      BY <3>1, <3>2, <2>2
  <2>5. ASSUME NEW ix \in table.indexes
        PROVE  Unique(ix, after)
    <3>1. KeyCols(ix, old.vals) = KeyCols(ix, new.vals)
          \/ CheckUnique(image.trees, ix, new.vals, old.id)
      BY <1>7, <2>1 DEF Moved
    <3>2. /\ ix.cols \in ColLists /\ image.trees[ix.root] = IndexOf(ix, rows) /\ Unique(ix, rows)
          /\ Numbered(rows) /\ \A e \in rows : e.vals \in Row
      BY <2>2 DEF IndexOK, TreeOK
    <3> QED
      BY <2>1, <3>1, <3>2, UniqueChanges
  <2>6. table = [root |-> table.root, nextID |-> table.nextID, indexes |-> table.indexes]
    BY <1>2, <1>3, TableShape DEF table
  <2>7. image' = [image EXCEPT !.trees = T]
    BY <1>7
  <2> HIDE DEF T, after
  <2>8. /\ PagesOK(image') /\ MemoryOK(image', cat', tables', indexes')
        /\ image'.trees = T /\ t \in DOMAIN image.schema.tables
        /\ \A u \in DOMAIN image.schema.tables : T[image.schema.tables[u]] =
               IF u = t THEN after ELSE image.trees[image.schema.tables[u]]
    <3>1. RowsWritten(image, cat, tables, indexes, t, T, after, tables', image')
      BY <1>2, <1>3, <2>2, <2>3, <2>4, <2>5, <2>6, <2>7, <1>7 DEF RowsWritten, table
    <3>2. RowsAreThere(image, cat, indexes, t, T, after, tables', image')
      BY <3>1, VerbKeeps
    <3> QED
      BY <1>7, <3>2 DEF RowsAreThere
  <2>9. stmt' = [kind |-> "update", table |-> t, todo |-> stmt.todo \ {new}]
    BY <1>3, <1>7, TodoExcept
  <2>10. TodoOK(image', tables', indexes', stmt')
    <3>1. T[table.root] = after
      BY <2>3 DEF Follows
    <3>2. ASSUME NEW e \in stmt.todo \ {new}
          PROVE  \E f \in after : f.id = e.id
      <4>1. PICK f \in rows : f.id = e.id
        BY <1>3
      <4>2. f # old
        BY <4>1, <1>3, <2>1 DEF Numbered
      <4> QED
        BY <4>1, <4>2 DEF after
    <3>3. /\ stmt'.kind = "update" /\ stmt'.table = t /\ stmt'.todo = stmt.todo \ {new}
          /\ stmt' = [kind |-> stmt'.kind, table |-> stmt'.table, todo |-> stmt'.todo]
      BY <2>9
    <3>4. Numbered(stmt'.todo)
      BY <1>3, <3>3 DEF Numbered
    <3>5. image'.trees[tables'[stmt'.table].root] = after
      BY <1>7, <2>8, <3>1, <3>3 DEF table
    <3> QED
      BY <1>3, <1>7, <3>2, <3>3, <3>4, <3>5 DEF TodoOK
  <2>11. IInv' /\ ~Idle'
    BY <1>1, <1>7, <2>8, <2>9, <2>10, GoesOn
  <2>12. ~Idle /\ cat = image.schema
    BY <1>2, <1>3 DEF Idle, NoStmt, MemoryOK
  <2> QED
    BY <1>1, <1>7, <2>1, <2>8, <2>11, <2>12 DEF Wrote, after, old
<1> QED
  BY <1>4, <1>5, <1>6, <1>7 DEF Verb

LEMMA DeleteRowKeeps ==
  ASSUME IInv, DeleteRow
  PROVE  /\ IInv'
         /\ \/ GaveUp
            \/ \E old \in image.trees[table.root] :
                 Wrote(stmt.table, image.trees[table.root] \ {old})
<1> DEFINE t == stmt.table
           rows == image.trees[table.root]
<1>1. mode # "failed"
  BY DEF DeleteRow, IInv, Idle, NoStmt
<1>2. PagesOK(image) /\ MemoryOK(image, cat, tables, indexes) /\ TodoOK(image, tables, indexes, stmt)
  BY <1>1 DEF IInv
<1>3. /\ stmt.kind = "delete"
      /\ stmt = [kind |-> stmt.kind, table |-> stmt.table, todo |-> stmt.todo]
      /\ t \in DOMAIN tables /\ Numbered(stmt.todo)
      /\ \A e \in stmt.todo : e.vals \in Row /\ \E f \in rows : f.id = e.id
  BY <1>2 DEF DeleteRow, TodoOK, table
<1>4. PICK row \in stmt.todo :
        Verb(FALSE, DeleteStages(table, row.id, Stored(row.id).vals), tables, stmt.todo \ {row})
  BY DEF DeleteRow
<1> DEFINE old == Stored(row.id)
<1>5. ASSUME NEW img, Fails(img, cat, tables, indexes)
      PROVE  IInv' /\ GaveUp
  BY <1>1, <1>5, FailsKeeps DEF GaveUp
<1>6. ASSUME image' = [image EXCEPT !.trees =
                         Apply(@, Writes(DeleteStages(table, row.id, old.vals)))],
             tables' = tables,
             stmt' = [stmt EXCEPT !.todo = stmt.todo \ {row}],
             UNCHANGED <<saved, cat, indexes, mode>>
      PROVE  IInv' /\ old \in rows /\ Wrote(t, rows \ {old})
  <2> DEFINE T == Apply(image.trees, Writes(DeleteStages(table, row.id, old.vals)))
             after == rows \ {old}
  <2>1. old \in rows /\ old.id = row.id
    BY <1>3, StoredIsThere
  <2> HIDE DEF old
  <2>2. /\ TreeOK(rows) /\ table.nextID \in Nat /\ MaxRowID(rows) <= table.nextID
        /\ \A ix \in table.indexes : IndexOK(ix, image.trees, rows)
        /\ Separate(table) /\ Consistent(image.trees, table)
    BY <1>2, <1>3, AttachedTable, ItsIndexes DEF table
  <2>3. Follows(T, image.trees, table, after)
    BY <2>1, <2>2, DeleteFollows
  <2>4. TreeOK(after) /\ MaxRowID(after) <= table.nextID
    <3>1. TreeOK(after) /\ MaxRowID(after) <= MaxRowID(rows)
      BY <2>2, TreeShrinks
    <3>2. MaxRowID(after) \in Nat /\ MaxRowID(rows) \in Nat
      BY <3>1, <2>2 DEF TreeOK
    <3> QED
      BY <3>1, <3>2, <2>2
  <2>5. ASSUME NEW ix \in table.indexes
        PROVE  Unique(ix, after)
    BY <2>2 DEF IndexOK, Unique
  <2>6. table = [root |-> table.root, nextID |-> table.nextID, indexes |-> table.indexes]
    BY <1>2, <1>3, TableShape DEF table
  <2>7. image' = [image EXCEPT !.trees = T]
    BY <1>6
  <2> HIDE DEF T, after
  <2>8. /\ PagesOK(image') /\ MemoryOK(image', cat', tables', indexes')
        /\ image'.trees = T /\ t \in DOMAIN image.schema.tables
        /\ \A u \in DOMAIN image.schema.tables : T[image.schema.tables[u]] =
               IF u = t THEN after ELSE image.trees[image.schema.tables[u]]
    <3>1. RowsWritten(image, cat, tables, indexes, t, T, after, tables', image')
      BY <1>2, <1>3, <2>2, <2>3, <2>4, <2>5, <2>6, <2>7, <1>6 DEF RowsWritten, table
    <3>2. RowsAreThere(image, cat, indexes, t, T, after, tables', image')
      BY <3>1, VerbKeeps
    <3> QED
      BY <1>6, <3>2 DEF RowsAreThere
  <2>9. stmt' = [kind |-> "delete", table |-> t, todo |-> stmt.todo \ {row}]
    BY <1>3, <1>6, TodoExcept
  <2>10. TodoOK(image', tables', indexes', stmt')
    <3>1. T[table.root] = after
      BY <2>3 DEF Follows
    <3>2. ASSUME NEW e \in stmt.todo \ {row}
          PROVE  \E f \in after : f.id = e.id
      <4>1. PICK f \in rows : f.id = e.id
        BY <1>3
      <4>2. f # old
        BY <4>1, <1>3, <2>1 DEF Numbered
      <4> QED
        BY <4>1, <4>2 DEF after
    <3>3. /\ stmt'.kind = "delete" /\ stmt'.table = t /\ stmt'.todo = stmt.todo \ {row}
          /\ stmt' = [kind |-> stmt'.kind, table |-> stmt'.table, todo |-> stmt'.todo]
      BY <2>9
    <3>4. Numbered(stmt'.todo)
      BY <1>3, <3>3 DEF Numbered
    <3>5. image'.trees[tables'[stmt'.table].root] = after
      BY <1>6, <2>8, <3>1, <3>3 DEF table
    <3> QED
      BY <1>3, <1>6, <3>2, <3>3, <3>4, <3>5 DEF TodoOK
  <2>11. IInv' /\ ~Idle'
    BY <1>1, <1>6, <2>8, <2>9, <2>10, GoesOn
  <2>12. ~Idle /\ cat = image.schema
    BY <1>2, <1>3 DEF Idle, NoStmt, MemoryOK
  <2> QED
    BY <1>1, <1>6, <2>1, <2>8, <2>11, <2>12 DEF Wrote, after, old
<1> QED
  BY <1>4, <1>5, <1>6 DEF Verb

-----------------------------------------------------------------------------
(* CREATE TABLE and CREATE INDEX.                                          *)

LEMMA EmptyTree == TreeOK({}) /\ MaxRowID({}) = 0
  BY DEF TreeOK, Numbered, MaxRowID

\* A page that is allocated belongs to no table and no index.
LEMMA AllocatedKeeps ==
  ASSUME PagesOK(image), MemoryOK(image, cat, tables, indexes)
  PROVE  /\ PagesOK(Allocated) /\ MemoryOK(Allocated, cat, tables, indexes)
         /\ Allocated.schema = image.schema
         /\ image.next \in DOMAIN Allocated.trees /\ Allocated.trees[image.next] = {}
         /\ \A r \in DOMAIN image.trees : r \in DOMAIN Allocated.trees
              /\ Allocated.trees[r] = image.trees[r] /\ r # image.next
<1> DEFINE trees == With(image.trees, image.next, {})
           roots == image.schema.tables
           defs == image.schema.indexes
<1>1. Allocated = [schema |-> image.schema, trees |-> trees, next |-> image.next + 1]
  BY DEF Allocated
<1>2. DOMAIN trees = DOMAIN image.trees \cup {image.next} /\ trees[image.next] = {}
      /\ \A r \in DOMAIN image.trees : r # image.next => trees[r] = image.trees[r]
  BY DEF With
<1>3. \A r \in DOMAIN image.trees : r \in Nat /\ r < image.next /\ image.next \in Nat
  BY DEF PagesOK
<1>4. \A r \in DOMAIN image.trees : trees[r] = image.trees[r] /\ r # image.next
  BY <1>2, <1>3
<1> HIDE DEF trees
<1>5. Allocated.schema = image.schema /\ Allocated.trees = trees
      /\ Allocated.next = image.next + 1
  BY <1>1
<1>6. PagesOK(Allocated)
  <2>1. \A r \in DOMAIN trees : r \in Nat /\ r < image.next + 1
    <3>1. image.next \in Nat
      BY DEF PagesOK
    <3> QED
      BY <1>2, <1>3, <3>1
  <2>2. \A t \in DOMAIN roots : roots[t] \in DOMAIN trees /\ TreeOK(trees[roots[t]])
    BY <1>2, <1>4 DEF PagesOK
  <2>3. \A n \in DOMAIN defs : IndexOK(defs[n], trees, trees[roots[defs[n].table]])
    <3> SUFFICES ASSUME NEW n \in DOMAIN defs
                 PROVE  IndexOK(defs[n], trees, trees[roots[defs[n].table]])
      OBVIOUS
    <3>1. /\ IndexOK(defs[n], image.trees, image.trees[roots[defs[n].table]])
          /\ roots[defs[n].table] \in DOMAIN image.trees
      BY DEF PagesOK
    <3> QED
      BY <3>1, <1>2, <1>4 DEF IndexOK
  <2>4. image.next + 1 \in Nat
    BY DEF PagesOK
  <2> QED
    BY <1>1, <1>5, <2>1, <2>2, <2>3, <2>4 DEF PagesOK
<1>7. MemoryOK(Allocated, cat, tables, indexes)
  <2>1. \A t \in DOMAIN roots : trees[roots[t]] = image.trees[roots[t]]
    BY <1>4 DEF PagesOK
  <2>2. /\ AttachedIndexes(Allocated) = AttachedIndexes(image)
        /\ \A t \in DOMAIN roots :
             AttachedTables(Allocated)[t].indexes = AttachedTables(image)[t].indexes
    BY <1>5, AttachedBySchema
  <2> QED
    BY <1>5, <2>1, <2>2 DEF MemoryOK
<1> QED
  BY <1>2, <1>4, <1>5, <1>6, <1>7

\* What makes a schema page and trees a database, by its parts.
PartsOK(roots, defs, trees, next) ==
  /\ next \in Nat /\ \A r \in DOMAIN trees : r \in Nat /\ r < next
  /\ \A t \in DOMAIN roots : roots[t] \in DOMAIN trees /\ TreeOK(trees[roots[t]])
  /\ \A t, u \in DOMAIN roots : roots[t] = roots[u] => t = u
  /\ \A n \in DOMAIN defs :
       /\ defs[n] = [table |-> defs[n].table, root |-> defs[n].root,
                     cols |-> defs[n].cols, unique |-> defs[n].unique]
       /\ defs[n].table \in DOMAIN roots
       /\ IndexOK(defs[n], trees, trees[roots[defs[n].table]])
       /\ \A t \in DOMAIN roots : defs[n].root # roots[t]
  /\ \A n, m \in DOMAIN defs : defs[n].root = defs[m].root => n = m

LEMMA PagesAre ==
  ASSUME NEW roots, NEW defs, NEW trees, NEW next, PartsOK(roots, defs, trees, next),
         NEW img, img.schema = [tables |-> roots, indexes |-> defs],
         img = [schema |-> img.schema, trees |-> trees, next |-> next]
  PROVE  PagesOK(img)
<1>1. img.schema.tables = roots /\ img.schema.indexes = defs
  OBVIOUS
<1>2. img.trees = trees /\ img.next = next
  OBVIOUS
<1> QED
  BY <1>1, <1>2 DEF PagesOK, PartsOK

\* The schema page c lists one more table t, with an empty tree.
TableListed(img, ts, ixs, r, t, c, new) ==
  /\ PagesOK(img) /\ MemoryOK(img, img.schema, ts, ixs)
  /\ r \in DOMAIN img.trees /\ img.trees[r] = {}
  /\ \A u \in DOMAIN img.schema.tables : img.schema.tables[u] # r
  /\ \A n \in DOMAIN img.schema.indexes : img.schema.indexes[n].root # r
  /\ t \notin DOMAIN img.schema.tables
  /\ c = [img.schema EXCEPT !.tables = With(@, t, r)]
  /\ new = [img EXCEPT !.schema = c]

LEMMA TableAdded ==
  ASSUME NEW img, NEW ts, NEW ixs, NEW r, NEW t, NEW c, NEW new,
         TableListed(img, ts, ixs, r, t, c, new)
  PROVE  /\ PagesOK(new)
         /\ MemoryOK(new, c, With(ts, t, [root |-> r, nextID |-> 0, indexes |-> {}]), ixs)
<1> DEFINE roots == img.schema.tables
           defs == img.schema.indexes
           more == With(roots, t, r)
           us == With(ts, t, [root |-> r, nextID |-> 0, indexes |-> {}])
<1>1. c = [tables |-> more, indexes |-> defs]
  <2>1. img.schema = [tables |-> roots, indexes |-> defs]
    BY DEF TableListed, PagesOK
  <2> QED
    BY <2>1 DEF TableListed
<1>2. new = [schema |-> c, trees |-> img.trees, next |-> img.next]
  <2>1. img = [schema |-> img.schema, trees |-> img.trees, next |-> img.next]
    BY DEF TableListed, PagesOK
  <2> QED
    BY <2>1 DEF TableListed
<1>0. /\ PagesOK(img) /\ MemoryOK(img, img.schema, ts, ixs)
      /\ r \in DOMAIN img.trees /\ img.trees[r] = {}
      /\ \A u \in DOMAIN roots : roots[u] # r
      /\ \A n \in DOMAIN defs : defs[n].root # r
      /\ t \notin DOMAIN roots
  BY DEF TableListed
<1> USE <1>0
<1>3. DOMAIN more = DOMAIN roots \cup {t} /\ more[t] = r
      /\ \A u \in DOMAIN roots : u # t /\ more[u] = roots[u]
  BY DEF With
<1> HIDE DEF more
<1>4. new.schema = c /\ new.trees = img.trees /\ new.next = img.next
      /\ c.tables = more /\ c.indexes = defs
  BY <1>1, <1>2
<1>5. \A n \in DOMAIN defs : defs[n].table \in DOMAIN roots
  BY DEF PagesOK
<1>6. PagesOK(new)
  <2>1. \A u \in DOMAIN more : more[u] \in DOMAIN img.trees /\ TreeOK(img.trees[more[u]])
    BY <1>3, EmptyTree DEF PagesOK
  <2>2. \A u, v \in DOMAIN more : more[u] = more[v] => u = v
    BY <1>3 DEF PagesOK
  <2>3. \A n \in DOMAIN defs :
          /\ IndexOK(defs[n], img.trees, img.trees[more[defs[n].table]])
          /\ \A u \in DOMAIN more : defs[n].root # more[u]
    <3> SUFFICES ASSUME NEW n \in DOMAIN defs
                 PROVE  /\ IndexOK(defs[n], img.trees, img.trees[more[defs[n].table]])
                        /\ \A u \in DOMAIN more : defs[n].root # more[u]
      OBVIOUS
    <3>1. /\ IndexOK(defs[n], img.trees, img.trees[roots[defs[n].table]])
          /\ \A u \in DOMAIN roots : defs[n].root # roots[u]
      BY DEF PagesOK
    <3>2. more[defs[n].table] = roots[defs[n].table]
      BY <1>3, <1>5
    <3> QED
      BY <1>3, <3>1, <3>2
  <2> QED
    <3>1. new.schema = [tables |-> more, indexes |-> defs]
      BY <1>1, <1>4
    <3>2. new = [schema |-> new.schema, trees |-> img.trees, next |-> img.next]
      BY <1>2, <1>4
    <3>3. img.next \in Nat /\ \A q \in DOMAIN img.trees : q \in Nat /\ q < img.next
      BY DEF PagesOK
    <3>4. /\ \A n \in DOMAIN defs :
               /\ defs[n] = [table |-> defs[n].table, root |-> defs[n].root,
                             cols |-> defs[n].cols, unique |-> defs[n].unique]
               /\ defs[n].table \in DOMAIN more
          /\ \A n, m \in DOMAIN defs : defs[n].root = defs[m].root => n = m
      BY <1>3, <1>5 DEF PagesOK
    <3>5. PartsOK(more, defs, img.trees, img.next)
      BY <2>1, <2>2, <2>3, <3>3, <3>4 DEF PartsOK
    <3> QED
      BY <3>1, <3>2, <3>5, PagesAre
<1>7. MemoryOK(new, c, us, ixs)
  <2>1. AttachedIndexes(new) = AttachedIndexes(img)
    BY <1>4 DEF AttachedIndexes
  <2>2. DOMAIN us = DOMAIN ts \cup {t} /\ us[t] = [root |-> r, nextID |-> 0, indexes |-> {}]
        /\ \A u \in DOMAIN ts : u # t => us[u] = ts[u]
    BY DEF With
  <2> HIDE DEF us
  <2>3. DOMAIN ts = DOMAIN roots
    BY DEF MemoryOK
  <2>4. ASSUME NEW u \in DOMAIN more
        PROVE  AttachedTables(new)[u].indexes =
                 {AttachedIndexes(img)[n] : n \in {m \in DOMAIN defs : defs[m].table = u}}
    <3> DEFINE its == {AttachedIndexes(new)[n] :
                 n \in {m \in DOMAIN new.schema.indexes : new.schema.indexes[m].table = u}}
    <3>1. u \in DOMAIN new.schema.tables
      BY <1>4
    <3>2. AttachedTables(new)[u].indexes = its
      BY <3>1 DEF AttachedTables
    <3>3. new.schema.indexes = defs
      BY <1>4
    <3>4. its = {AttachedIndexes(img)[n] : n \in {m \in DOMAIN defs : defs[m].table = u}}
      BY <3>3, <2>1
    <3> QED
      BY <3>2, <3>4
  <2>5. AttachedTables(new)[t].indexes = {}
    BY <1>3, <1>5, <2>4
  <2>6. ASSUME NEW u \in DOMAIN roots
        PROVE  AttachedTables(new)[u].indexes = AttachedTables(img)[u].indexes
    <3>1. AttachedTables(img)[u].indexes =
            {AttachedIndexes(img)[n] : n \in {m \in DOMAIN defs : defs[m].table = u}}
      BY DEF AttachedTables
    <3> QED
      BY <1>3, <2>4, <3>1
  <2>7. ASSUME NEW u \in DOMAIN us
        PROVE  /\ us[u] = [root |-> more[u], nextID |-> us[u].nextID,
                           indexes |-> AttachedTables(new)[u].indexes]
               /\ us[u].nextID \in Nat /\ MaxRowID(img.trees[more[u]]) <= us[u].nextID
    <3>1. CASE u = t
      <4>1. us[t].nextID = 0
        BY <2>2
      <4>2. MaxRowID(img.trees[more[t]]) = 0
        BY <1>3, EmptyTree
      <4>3. us[t] = [root |-> more[t], nextID |-> us[t].nextID,
                     indexes |-> AttachedTables(new)[t].indexes]
        BY <4>1, <1>3, <2>2, <2>5
      <4>4. us[t].nextID \in Nat /\ MaxRowID(img.trees[more[t]]) <= us[t].nextID
        BY <4>1, <4>2
      <4> QED
        BY <3>1, <4>3, <4>4
    <3>2. CASE u # t
      BY <3>2, <1>3, <2>2, <2>3, <2>6 DEF MemoryOK
    <3> QED
      BY <3>1, <3>2
  <2>8. \A n \in DOMAIN defs : n \in DOMAIN ixs /\ ixs[n] = AttachedIndexes(new)[n]
    BY <2>1 DEF MemoryOK
  <2>9. DOMAIN us = DOMAIN more
    BY <1>3, <2>2, <2>3
  <2> QED
    BY <1>4, <2>7, <2>8, <2>9 DEF MemoryOK
<1> QED
  BY <1>6, <1>7

LEMMA CreateTableKeeps ==
  ASSUME IInv, NEW t, CreateTable(t)
  PROVE  IInv'
<1> DEFINE c == [cat EXCEPT !.tables = With(@, t, image.next)]
           ts == With(tables, t, [root |-> image.next, nextID |-> 0, indexes |-> {}])
<1>1. mode # "failed" /\ t \notin DOMAIN cat.tables
  BY DEF CreateTable, Ready
<1>2. PagesOK(image) /\ MemoryOK(image, cat, tables, indexes) /\ cat = image.schema
  BY <1>1 DEF IInv, MemoryOK
<1>3. CASE Fails(Allocated, c, ts, indexes)
  BY <1>1, <1>3, FailsKeeps
<1>4. CASE /\ image' = [Allocated EXCEPT !.schema = c]
           /\ cat' = c /\ tables' = ts /\ indexes' = indexes
           /\ Succeed
  <2>1. /\ PagesOK(Allocated) /\ MemoryOK(Allocated, Allocated.schema, tables, indexes)
        /\ Allocated.schema = image.schema
        /\ image.next \in DOMAIN Allocated.trees /\ Allocated.trees[image.next] = {}
        /\ \A r \in DOMAIN image.trees : r # image.next
    BY <1>2, AllocatedKeeps
  <2>2. /\ \A u \in DOMAIN image.schema.tables : image.schema.tables[u] # image.next
        /\ \A n \in DOMAIN image.schema.indexes : image.schema.indexes[n].root # image.next
    BY <1>2, <2>1 DEF PagesOK, IndexOK
  <2>3. PagesOK(image') /\ MemoryOK(image', c, ts, indexes)
    <3> HIDE DEF c
    <3>1. c = [Allocated.schema EXCEPT !.tables = With(@, t, image.next)]
      BY <1>2, <2>1 DEF c
    <3>2. TableListed(Allocated, tables, indexes, image.next, t, c, image')
      BY <1>1, <1>2, <1>4, <2>1, <2>2, <3>1 DEF TableListed
    <3> QED
      BY <3>2, TableAdded
  <2> QED
    BY <1>1, <1>4, <2>3, SucceedKeeps
<1> QED
  BY <1>3, <1>4 DEF CreateTable, WriteSchema

\* Building an index (storage.go:117-134) starts from all rows of the table.
LEMMA StartCreateIndexKeeps ==
  ASSUME IInv, "build" \notin Faults, NEW n, NEW t, NEW cols \in ColLists, NEW unique,
         StartCreateIndex(n, t, cols, unique)
  PROVE  IInv' /\ Kept
<1> DEFINE ix == [root |-> image.next, cols |-> cols, unique |-> unique]
           rows == image.trees[tables[t].root]
           ixs == With(indexes, n, ix)
<1>1. /\ mode # "failed" /\ t \in DOMAIN cat.tables
      /\ n \notin DOMAIN cat.indexes /\ n \notin DOMAIN indexes
      /\ image' = Allocated /\ indexes' = ixs
      /\ stmt' = [kind |-> "index", table |-> t, name |-> n, todo |-> rows]
      /\ UNCHANGED <<saved, cat, tables, mode>>
  BY DEF StartCreateIndex, Ready, Scanned
<1>2. PagesOK(image) /\ MemoryOK(image, cat, tables, indexes) /\ cat = image.schema
      /\ t \in DOMAIN tables
  BY <1>1 DEF IInv, MemoryOK
<1>3. /\ PagesOK(Allocated) /\ MemoryOK(Allocated, cat, tables, indexes)
      /\ Allocated.schema = image.schema
      /\ image.next \in DOMAIN Allocated.trees /\ Allocated.trees[image.next] = {}
      /\ \A r \in DOMAIN image.trees : r \in DOMAIN Allocated.trees
              /\ Allocated.trees[r] = image.trees[r] /\ r # image.next
  BY <1>2, AllocatedKeeps
<1>4. DOMAIN ixs = DOMAIN indexes \cup {n} /\ ixs[n] = ix
      /\ \A m \in DOMAIN indexes : ixs[m] = indexes[m]
  BY <1>1 DEF With
<1> HIDE DEF ixs
<1>5. MemoryOK(image', cat', tables', indexes')
  BY <1>1, <1>3, <1>4 DEF MemoryOK
<1>6. tables[t].root \in DOMAIN image.trees
  BY <1>2, AttachedTable
<1>7. IndexOK(ix, image'.trees, rows \ rows)
  <2>1. rows \ rows = {}
    OBVIOUS
  <2>2. IndexOf(ix, {}) = {} /\ Unique(ix, {})
    BY DEF IndexOf, Unique
  <2> QED
    BY <1>1, <1>3, <2>1, <2>2 DEF IndexOK
<1>8. /\ \A u \in DOMAIN image.schema.tables : ix.root # image.schema.tables[u]
      /\ \A m \in DOMAIN image.schema.indexes : ix.root # image.schema.indexes[m].root
  BY <1>2, <1>3 DEF PagesOK, IndexOK
<1>9. TodoOK(image', tables', indexes', stmt')
  <2>1. /\ stmt'.kind = "index" /\ stmt'.table = t /\ stmt'.name = n /\ stmt'.todo = rows
    BY <1>1
  <2>2. /\ image'.schema = image.schema /\ image'.trees[tables'[t].root] = rows
        /\ indexes'[n] = ix
    BY <1>1, <1>3, <1>4, <1>6
  <2>3. n \in DOMAIN indexes' /\ n \notin DOMAIN image'.schema.indexes /\ t \in DOMAIN tables'
    BY <1>1, <1>2, <1>4, <2>2
  <2>4. stmt' = [kind |-> "index", table |-> stmt'.table, name |-> stmt'.name, todo |-> stmt'.todo]
    BY <1>1
  <2>5. ix = [root |-> ix.root, cols |-> ix.cols, unique |-> ix.unique]
    OBVIOUS
  <2> HIDE DEF ix
  <2> QED
    BY <1>7, <1>8, <2>1, <2>2, <2>3, <2>4, <2>5 DEF TodoOK
<1>10. IInv' /\ ~Idle'
  BY <1>1, <1>3, <1>5, <1>9, GoesOn
<1>11. \A u \in DOMAIN cat.tables : image'.trees[cat.tables[u]] = image.trees[cat.tables[u]]
  BY <1>1, <1>2, <1>3 DEF PagesOK
<1> QED
  BY <1>1, <1>10, <1>11 DEF Kept

\* A write to a tree that belongs to no table and no index.
LEMMA OutsideKeeps ==
  ASSUME NEW img, NEW c, NEW ts, NEW ixs, PagesOK(img), MemoryOK(img, c, ts, ixs),
         NEW T, DOMAIN T = DOMAIN img.trees,
         \A u \in DOMAIN img.schema.tables :
           T[img.schema.tables[u]] = img.trees[img.schema.tables[u]],
         \A n \in DOMAIN img.schema.indexes :
           T[img.schema.indexes[n].root] = img.trees[img.schema.indexes[n].root],
         NEW new, new = [img EXCEPT !.trees = T]
  PROVE  /\ PagesOK(new) /\ MemoryOK(new, c, ts, ixs)
         /\ new.schema = img.schema /\ new.trees = T
<1>1. new = [schema |-> img.schema, trees |-> T, next |-> img.next]
  <2>1. img = [schema |-> img.schema, trees |-> img.trees, next |-> img.next]
    BY DEF PagesOK
  <2> QED
    BY <2>1
<1>2. new.schema = img.schema /\ new.trees = T /\ new.next = img.next
  BY <1>1
<1>3. \A n \in DOMAIN img.schema.indexes :
        IndexOK(img.schema.indexes[n], T, T[img.schema.tables[img.schema.indexes[n].table]])
  BY DEF PagesOK, IndexOK
<1>4. PagesOK(new)
  BY <1>1, <1>2, <1>3 DEF PagesOK
<1>5. /\ AttachedIndexes(new) = AttachedIndexes(img)
      /\ \A t \in DOMAIN img.schema.tables :
           AttachedTables(new)[t].indexes = AttachedTables(img)[t].indexes
  BY <1>2, AttachedBySchema
<1>6. MemoryOK(new, c, ts, ixs)
  BY <1>2, <1>5 DEF MemoryOK
<1> QED
  BY <1>2, <1>4, <1>6

LEMMA BuildIndexKeeps ==
  ASSUME IInv, BuildIndex
  PROVE  IInv' /\ (GaveUp \/ Kept)
<1> DEFINE ix == indexes[stmt.name]
           rows == image.trees[tables[stmt.table].root]
<1>1. mode # "failed"
  BY DEF BuildIndex, IInv, Idle, NoStmt
<1>2. PagesOK(image) /\ MemoryOK(image, cat, tables, indexes) /\ TodoOK(image, tables, indexes, stmt)
  BY <1>1 DEF IInv
<1>3. /\ stmt.kind = "index"
      /\ stmt = [kind |-> "index", table |-> stmt.table, name |-> stmt.name, todo |-> stmt.todo]
      /\ stmt.table \in DOMAIN tables
      /\ stmt.name \in DOMAIN indexes /\ stmt.name \notin DOMAIN image.schema.indexes
      /\ ix = [root |-> ix.root, cols |-> ix.cols, unique |-> ix.unique]
      /\ stmt.todo \subseteq rows
      /\ IndexOK(ix, image.trees, rows \ stmt.todo)
      /\ \A t \in DOMAIN image.schema.tables : ix.root # image.schema.tables[t]
      /\ \A n \in DOMAIN image.schema.indexes : ix.root # image.schema.indexes[n].root
  BY <1>2 DEF BuildIndex, TodoOK
<1>4. PICK row \in stmt.todo : AddKey(row, ix, PutKeys({ix}, row.vals, row.id))
  BY DEF BuildIndex
<1>5. CASE Refused
  BY <1>1, <1>5, RefusedKeeps DEF GaveUp
<1>6. CASE Fails(image, cat, tables, indexes)
  BY <1>1, <1>6, FailsKeeps DEF GaveUp
<1>7. ASSUME CheckUnique(image.trees, ix, row.vals, 0),
             image' = [image EXCEPT !.trees = Apply(@, PutKeys({ix}, row.vals, row.id))],
             stmt' = [stmt EXCEPT !.todo = stmt.todo \ {row}],
             UNCHANGED <<saved, memory, mode>>
      PROVE  IInv' /\ Kept
  <2> DEFINE W == PutKeys({ix}, row.vals, row.id)
             key == Entry(KeyCols(ix, row.vals), row.id)
             T == Apply(image.trees, W)
             done == rows \ stmt.todo
  <2> HIDE DEF ix
  <2>1. ix.root \in DOMAIN image.trees /\ image.trees[ix.root] = IndexOf(ix, done)
        /\ ix.cols \in ColLists /\ Unique(ix, done)
    BY <1>3 DEF IndexOK
  <2>2. TreeOK(rows) /\ tables[stmt.table].root = image.schema.tables[stmt.table]
        /\ stmt.table \in DOMAIN image.schema.tables
    BY <1>2, <1>3, AttachedTable
  <2>3. {x \in W : x.root = ix.root} = {Put(ix.root, key, KeyRoom)}
    BY DEF PutKeys, Put
  <2>4. \A w \in W : w.root = ix.root
    BY DEF PutKeys, Put
  <2> HIDE DEF W, key
  <2>5. T[ix.root] = image.trees[ix.root] \cup {key}
    BY <2>1, <2>3, ApplyPut
  <2>6. DOMAIN T = DOMAIN image.trees
        /\ \A r \in DOMAIN image.trees : r # ix.root => T[r] = image.trees[r]
    <3>1. DOMAIN T = DOMAIN image.trees
      BY DEF Apply
    <3>2. ASSUME NEW r \in DOMAIN image.trees, r # ix.root
          PROVE  T[r] = image.trees[r]
      BY <2>4, <3>2, ApplyElsewhere
    <3> QED
      BY <3>1, <3>2
  <2>7. image' = [image EXCEPT !.trees = T]
    BY <1>7 DEF W
  <2> HIDE DEF T
  <2>8. /\ \A u \in DOMAIN image.schema.tables :
             T[image.schema.tables[u]] = image.trees[image.schema.tables[u]]
        /\ \A n \in DOMAIN image.schema.indexes :
             T[image.schema.indexes[n].root] = image.trees[image.schema.indexes[n].root]
    BY <1>2, <1>3, <2>6 DEF PagesOK, IndexOK
  <2>9. /\ PagesOK(image') /\ MemoryOK(image', cat, tables, indexes)
        /\ image'.schema = image.schema /\ image'.trees = T
    BY <1>2, <2>6, <2>7, <2>8, OutsideKeeps
  <2>10. UNCHANGED <<cat, tables, indexes>>
    BY <1>7 DEF memory
  <2>11. image'.trees[tables[stmt.table].root] = rows
    BY <2>2, <2>8, <2>9
  <2>12. row \in rows /\ row.vals \in Row /\ row = Entry(row.vals, row.id)
    BY <1>3, <2>2 DEF TreeOK
  <2>13. rows \ (stmt.todo \ {row}) = done \cup {Entry(row.vals, row.id)}
    BY <2>12
  <2>14. IndexOK(ix, T, done \cup {Entry(row.vals, row.id)})
    <3>1. IndexOf(ix, done \cup {Entry(row.vals, row.id)}) = IndexOf(ix, done) \cup {key}
      <4> DEFINE new == Entry(row.vals, row.id)
      <4>1. key = Entry(KeyCols(ix, new.vals), new.id)
        BY DEF key, Entry
      <4> HIDE DEF key, new
      <4>2. IndexOf(ix, done \cup {new}) = IndexOf(ix, done) \cup {key}
        BY <4>1 DEF IndexOf
      <4> QED
        BY <4>2 DEF new
    <3>2. \A e \in done : e.vals \in Row /\ e.id \in Nat /\ 0 < e.id
      BY <2>2 DEF TreeOK
    <3>3. Unique(ix, done \cup {Entry(row.vals, row.id)})
      BY <1>7, <2>1, <2>12, <3>2, UniqueGrows DEF ix
    <3> QED
      BY <2>1, <2>5, <2>6, <3>1, <3>3 DEF IndexOK
  <2>15. stmt' = [kind |-> "index", table |-> stmt.table, name |-> stmt.name,
                  todo |-> stmt.todo \ {row}]
    BY <1>3, <1>7
  <2>16. TodoOK(image', tables', indexes', stmt')
    <3>1. /\ stmt'.kind = "index" /\ stmt'.table = stmt.table /\ stmt'.name = stmt.name
          /\ stmt'.todo = stmt.todo \ {row}
          /\ stmt' = [kind |-> "index", table |-> stmt'.table, name |-> stmt'.name,
                      todo |-> stmt'.todo]
      BY <2>15
    <3>2. indexes'[stmt'.name] = ix /\ image'.trees[tables'[stmt'.table].root] = rows
      BY <2>10, <2>11, <3>1 DEF ix
    <3>3. IndexOK(ix, image'.trees, rows \ stmt'.todo)
      BY <2>9, <2>13, <2>14, <3>1
    <3>4. stmt'.todo \subseteq rows
      BY <1>3, <3>1
    <3> QED
      BY <1>3, <2>9, <2>10, <3>1, <3>2, <3>3, <3>4 DEF TodoOK
  <2>17. IInv' /\ ~Idle'
    BY <1>1, <1>7, <2>9, <2>10, <2>15, <2>16, GoesOn
  <2>18. cat = image.schema
    BY <1>2 DEF MemoryOK
  <2> QED
    BY <1>1, <1>7, <2>8, <2>9, <2>10, <2>17, <2>18 DEF Kept
<1> QED
  BY <1>4, <1>5, <1>6, <1>7 DEF AddKey

\* The schema page c lists one more index ix, complete, of table t.
IndexListed(img, ts, ixs, t, n, ix, c, new, us) ==
  /\ PagesOK(img) /\ MemoryOK(img, img.schema, ts, ixs)
  /\ t \in DOMAIN ts /\ n \in DOMAIN ixs /\ n \notin DOMAIN img.schema.indexes
  /\ ix = ixs[n] /\ ix = [root |-> ix.root, cols |-> ix.cols, unique |-> ix.unique]
  /\ IndexOK(ix, img.trees, img.trees[ts[t].root])
  /\ \A u \in DOMAIN img.schema.tables : ix.root # img.schema.tables[u]
  /\ \A m \in DOMAIN img.schema.indexes : ix.root # img.schema.indexes[m].root
  /\ c = [img.schema EXCEPT !.indexes = With(@, n,
            [table |-> t, root |-> ix.root, cols |-> ix.cols, unique |-> ix.unique])]
  /\ new = [img EXCEPT !.schema = c]
  /\ DOMAIN us = DOMAIN ts /\ \A u \in DOMAIN ts : u # t => us[u] = ts[u]
  /\ us[t] = [root |-> ts[t].root, nextID |-> ts[t].nextID, indexes |-> ts[t].indexes \cup {ix}]

LEMMA IndexAdded ==
  ASSUME NEW img, NEW ts, NEW ixs, NEW t, NEW n, NEW ix, NEW c, NEW new, NEW us,
         IndexListed(img, ts, ixs, t, n, ix, c, new, us)
  PROVE  PagesOK(new) /\ MemoryOK(new, c, us, ixs)
<1> DEFINE roots == img.schema.tables
           defs == img.schema.indexes
           def == [table |-> t, root |-> ix.root, cols |-> ix.cols, unique |-> ix.unique]
           more == With(defs, n, def)
<1>1. c = [tables |-> roots, indexes |-> more]
  <2>1. img.schema = [tables |-> roots, indexes |-> defs]
    BY DEF IndexListed, PagesOK
  <2> QED
    BY <2>1 DEF IndexListed
<1>2. new = [schema |-> c, trees |-> img.trees, next |-> img.next]
  <2>1. img = [schema |-> img.schema, trees |-> img.trees, next |-> img.next]
    BY DEF IndexListed, PagesOK
  <2> QED
    BY <2>1 DEF IndexListed
<1>0. /\ PagesOK(img) /\ MemoryOK(img, img.schema, ts, ixs)
      /\ t \in DOMAIN ts /\ n \in DOMAIN ixs /\ n \notin DOMAIN defs
      /\ ix = ixs[n] /\ ix = [root |-> ix.root, cols |-> ix.cols, unique |-> ix.unique]
      /\ IndexOK(ix, img.trees, img.trees[ts[t].root])
      /\ \A u \in DOMAIN roots : ix.root # roots[u]
      /\ \A m \in DOMAIN defs : ix.root # defs[m].root
      /\ DOMAIN us = DOMAIN ts /\ \A u \in DOMAIN ts : u # t => us[u] = ts[u]
      /\ us[t] = [root |-> ts[t].root, nextID |-> ts[t].nextID, indexes |-> ts[t].indexes \cup {ix}]
  BY DEF IndexListed
<1> USE <1>0
<1>3. DOMAIN more = DOMAIN defs \cup {n} /\ more[n] = def
      /\ \A m \in DOMAIN defs : m # n /\ more[m] = defs[m]
  BY DEF With
<1>4. def.table = t /\ def.root = ix.root /\ def.cols = ix.cols /\ def.unique = ix.unique
      /\ def = [table |-> def.table, root |-> def.root, cols |-> def.cols, unique |-> def.unique]
  OBVIOUS
<1> HIDE DEF more, def
<1>5. new.schema = c /\ new.trees = img.trees /\ new.next = img.next
      /\ c.tables = roots /\ c.indexes = more
  BY <1>1, <1>2
<1>6. t \in DOMAIN roots /\ ts[t].root = roots[t] /\ DOMAIN ts = DOMAIN roots
  <2>1. t \in DOMAIN roots /\ ts[t].root = roots[t]
    BY AttachedTable
  <2>2. DOMAIN ts = DOMAIN roots
    BY DEF MemoryOK
  <2> QED
    BY <2>1, <2>2
<1>7. PagesOK(new)
  <2>1. ASSUME NEW m \in DOMAIN more
        PROVE  /\ more[m] = [table |-> more[m].table, root |-> more[m].root,
                             cols |-> more[m].cols, unique |-> more[m].unique]
               /\ more[m].table \in DOMAIN roots
               /\ IndexOK(more[m], img.trees, img.trees[roots[more[m].table]])
               /\ \A u \in DOMAIN roots : more[m].root # roots[u]
    <3>1. CASE m = n
      <4>1. IndexOf(def, img.trees[roots[t]]) = IndexOf(ix, img.trees[roots[t]])
        BY <1>4, IndexOfCols
      <4>2. IndexOK(def, img.trees, img.trees[roots[t]])
        BY <4>1, <1>4, <1>6 DEF IndexOK, Unique
      <4> QED
        BY <3>1, <4>2, <1>3, <1>4, <1>6
    <3>2. CASE m # n
      BY <3>2, <1>3 DEF PagesOK
    <3> QED
      BY <3>1, <3>2
  <2>2. \A m, k \in DOMAIN more : more[m].root = more[k].root => m = k
    <3>1. \A m, k \in DOMAIN defs : defs[m].root = defs[k].root => m = k
      BY DEF PagesOK
    <3> QED
      BY <3>1, <1>3, <1>4
  <2>3. /\ img.next \in Nat /\ \A r \in DOMAIN img.trees : r \in Nat /\ r < img.next
        /\ \A u \in DOMAIN roots : roots[u] \in DOMAIN img.trees /\ TreeOK(img.trees[roots[u]])
        /\ \A u, v \in DOMAIN roots : roots[u] = roots[v] => u = v
    BY DEF PagesOK
  <2> QED
    <3>1. new.schema = [tables |-> roots, indexes |-> more]
      BY <1>1, <1>5
    <3>2. new = [schema |-> new.schema, trees |-> img.trees, next |-> img.next]
      BY <1>2, <1>5
    <3>3. PartsOK(roots, more, img.trees, img.next)
      BY <2>1, <2>2, <2>3 DEF PartsOK
    <3> QED
      BY <3>1, <3>2, <3>3, PagesAre
<1>8. MemoryOK(new, c, us, ixs)
  <2> DEFINE A == AttachedIndexes(new)
             B == AttachedIndexes(img)
  <2>1. A[n] = ix /\ \A m \in DOMAIN defs : A[m] = B[m]
    <3>1. A[n] = [root |-> more[n].root, cols |-> more[n].cols, unique |-> more[n].unique]
      BY <1>3, <1>5 DEF AttachedIndexes
    <3>2. A[n] = ix
      BY <3>1, <1>3, <1>4
    <3>3. ASSUME NEW m \in DOMAIN defs
          PROVE  A[m] = B[m]
      BY <1>3, <1>5 DEF AttachedIndexes
    <3> QED
      BY <3>2, <3>3
  <2>2. ASSUME NEW u \in DOMAIN roots
        PROVE  AttachedTables(new)[u].indexes = {A[k] : k \in {m \in DOMAIN more : more[m].table = u}}
    <3> DEFINE its == {A[k] : k \in {m \in DOMAIN new.schema.indexes : new.schema.indexes[m].table = u}}
    <3>1. u \in DOMAIN new.schema.tables
      BY <1>5
    <3>2. AttachedTables(new)[u].indexes = its
      BY <3>1 DEF AttachedTables
    <3>3. new.schema.indexes = more
      BY <1>5
    <3> HIDE DEF A
    <3>4. its = {A[k] : k \in {m \in DOMAIN more : more[m].table = u}}
      BY <3>3
    <3> QED
      BY <3>2, <3>4
  <2>3. ASSUME NEW u \in DOMAIN roots
        PROVE  AttachedTables(img)[u].indexes = {B[k] : k \in {m \in DOMAIN defs : defs[m].table = u}}
    BY DEF AttachedTables
  <2> HIDE DEF A, B
  <2>4. {m \in DOMAIN more : more[m].table = t} = {m \in DOMAIN defs : defs[m].table = t} \cup {n}
    BY <1>3, <1>4
  <2>5. AttachedTables(new)[t].indexes = AttachedTables(img)[t].indexes \cup {ix}
    <3> DEFINE its == {m \in DOMAIN defs : defs[m].table = t}
    <3>1. AttachedTables(new)[t].indexes = {A[k] : k \in its \cup {n}}
      BY <2>2, <2>4, <1>6
    <3>2. AttachedTables(img)[t].indexes = {B[k] : k \in its}
      BY <2>3, <1>6
    <3>3. \A k \in its : A[k] = B[k]
      BY <2>1
    <3> HIDE DEF its
    <3>4. {A[k] : k \in its \cup {n}} = {B[k] : k \in its} \cup {ix}
      BY <3>3, <2>1
    <3> QED
      BY <3>1, <3>2, <3>4
  <2>6. ASSUME NEW u \in DOMAIN roots, u # t
        PROVE  AttachedTables(new)[u].indexes = AttachedTables(img)[u].indexes
    <3> DEFINE its == {m \in DOMAIN defs : defs[m].table = u}
    <3>1. {m \in DOMAIN more : more[m].table = u} = its
      BY <2>6, <1>3, <1>4
    <3>2. \A k \in its : A[k] = B[k]
      BY <2>1
    <3>3. AttachedTables(new)[u].indexes = {A[k] : k \in its}
      BY <2>2, <3>1
    <3>4. AttachedTables(img)[u].indexes = {B[k] : k \in its}
      BY <2>3
    <3> HIDE DEF its
    <3> QED
      BY <3>2, <3>3, <3>4
  <2>7. DOMAIN us = DOMAIN roots /\ (\A u \in DOMAIN roots : u # t => us[u] = ts[u])
    BY <1>6
  <2>8. ASSUME NEW u \in DOMAIN roots
        PROVE  /\ ts[u] = [root |-> roots[u], nextID |-> ts[u].nextID,
                           indexes |-> AttachedTables(img)[u].indexes]
               /\ ts[u].nextID \in Nat /\ MaxRowID(img.trees[roots[u]]) <= ts[u].nextID
    BY <1>6 DEF MemoryOK
  <2>9. us[t] = [root |-> roots[t], nextID |-> ts[t].nextID,
                 indexes |-> AttachedTables(new)[t].indexes]
    <3>1. ts[t] = [root |-> roots[t], nextID |-> ts[t].nextID,
                   indexes |-> AttachedTables(img)[t].indexes]
      BY <2>8, <1>6
    <3>2. ts[t].root = roots[t] /\ ts[t].indexes = AttachedTables(img)[t].indexes
      BY <3>1
    <3> QED
      BY <3>2, <2>5
  <2>10. us[t].nextID = ts[t].nextID
    BY <2>9
  <2>11. ASSUME NEW u \in DOMAIN us
         PROVE  /\ us[u] = [root |-> roots[u], nextID |-> us[u].nextID,
                            indexes |-> AttachedTables(new)[u].indexes]
                /\ us[u].nextID \in Nat /\ MaxRowID(img.trees[roots[u]]) <= us[u].nextID
    <3>1. CASE u = t
      BY <3>1, <1>6, <2>8, <2>9, <2>10
    <3>2. CASE u # t
      <4>1. u \in DOMAIN roots /\ us[u] = ts[u]
        BY <3>2, <2>7
      <4>2. AttachedTables(new)[u].indexes = AttachedTables(img)[u].indexes
        BY <3>2, <4>1, <2>6
      <4> QED
        BY <4>1, <4>2, <2>8
    <3> QED
      BY <3>1, <3>2
  <2>12. \A m \in DOMAIN more : m \in DOMAIN ixs /\ ixs[m] = A[m]
    BY <1>3, <2>1 DEF MemoryOK, B
  <2> QED
    <3>1. c = new.schema /\ DOMAIN us = DOMAIN c.tables
      BY <1>5, <2>7
    <3>2. c.tables = roots /\ c.indexes = more /\ new.trees = img.trees
      BY <1>5
    <3>3. \A m \in DOMAIN c.indexes : m \in DOMAIN ixs /\ ixs[m] = AttachedIndexes(new)[m]
      BY <2>12, <3>2 DEF A
    <3>4. \A u \in DOMAIN us :
            /\ us[u] = [root |-> c.tables[u], nextID |-> us[u].nextID,
                        indexes |-> AttachedTables(new)[u].indexes]
            /\ us[u].nextID \in Nat /\ MaxRowID(new.trees[c.tables[u]]) <= us[u].nextID
      <4> SUFFICES ASSUME NEW u \in DOMAIN us
                   PROVE  /\ us[u] = [root |-> c.tables[u], nextID |-> us[u].nextID,
                                      indexes |-> AttachedTables(new)[u].indexes]
                          /\ us[u].nextID \in Nat
                          /\ MaxRowID(new.trees[c.tables[u]]) <= us[u].nextID
        OBVIOUS
      <4>1. c.tables[u] = roots[u] /\ new.trees[c.tables[u]] = img.trees[roots[u]]
        BY <3>2
      <4>2. us[u] = [root |-> c.tables[u], nextID |-> us[u].nextID,
                     indexes |-> AttachedTables(new)[u].indexes]
        BY <2>11, <4>1
      <4>3. us[u].nextID \in Nat /\ MaxRowID(new.trees[c.tables[u]]) <= us[u].nextID
        BY <2>11, <4>1
      <4> QED
        BY <4>2, <4>3
    <3> QED
      BY <3>1, <3>3, <3>4 DEF MemoryOK
<1> QED
  BY <1>7, <1>8

LEMMA FinishCreateIndexKeeps ==
  ASSUME IInv, FinishCreateIndex
  PROVE  IInv'
<1> DEFINE ix == indexes[stmt.name]
           rows == image.trees[tables[stmt.table].root]
           c == [cat EXCEPT !.indexes = With(@, stmt.name,
                   [table |-> stmt.table, root |-> ix.root, cols |-> ix.cols,
                    unique |-> ix.unique])]
           ts == [tables EXCEPT ![stmt.table].indexes = @ \cup {ix}]
<1>1. mode # "failed"
  BY DEF FinishCreateIndex, IInv, Idle, NoStmt
<1>2. PagesOK(image) /\ MemoryOK(image, cat, tables, indexes) /\ TodoOK(image, tables, indexes, stmt)
      /\ cat = image.schema
  BY <1>1 DEF IInv, MemoryOK
<1>3. /\ stmt.table \in DOMAIN tables
      /\ stmt.name \in DOMAIN indexes /\ stmt.name \notin DOMAIN image.schema.indexes
      /\ ix = [root |-> ix.root, cols |-> ix.cols, unique |-> ix.unique]
      /\ IndexOK(ix, image.trees, rows \ stmt.todo) /\ stmt.todo = {}
      /\ \A t \in DOMAIN image.schema.tables : ix.root # image.schema.tables[t]
      /\ \A n \in DOMAIN image.schema.indexes : ix.root # image.schema.indexes[n].root
  BY <1>2 DEF FinishCreateIndex, TodoOK
<1>4. CASE Fails(image, c, ts, indexes)
  BY <1>1, <1>4, FailsKeeps
<1>5. CASE /\ image' = [image EXCEPT !.schema = c]
           /\ cat' = c /\ tables' = ts /\ indexes' = indexes
           /\ Succeed
  <2>1. rows \ stmt.todo = rows
    BY <1>3
  <2>2. PagesOK(image') /\ MemoryOK(image', c, ts, indexes)
    <3> HIDE DEF ix
    <3>1. IndexOK(ix, image.trees, rows)
      BY <1>3, <2>1
    <3>2. MemoryOK(image, image.schema, tables, indexes) /\ ix = indexes[stmt.name]
      BY <1>2 DEF ix
    <3>3. c = [image.schema EXCEPT !.indexes = With(@, stmt.name,
                 [table |-> stmt.table, root |-> ix.root, cols |-> ix.cols,
                  unique |-> ix.unique])]
      BY <1>2
    <3>4. /\ DOMAIN ts = DOMAIN tables
          /\ \A u \in DOMAIN tables : u # stmt.table => ts[u] = tables[u]
          /\ ts[stmt.table] = [root |-> tables[stmt.table].root,
                nextID |-> tables[stmt.table].nextID,
                indexes |-> tables[stmt.table].indexes \cup {ix}]
      <4>1. tables[stmt.table] = [root |-> tables[stmt.table].root,
              nextID |-> tables[stmt.table].nextID, indexes |-> tables[stmt.table].indexes]
        BY <1>2, <1>3, TableShape
      <4>2. ts[stmt.table] = [tables[stmt.table] EXCEPT !.indexes = @ \cup {ix}]
        BY <1>3
      <4>3. DOMAIN ts = DOMAIN tables
            /\ \A u \in DOMAIN tables : u # stmt.table => ts[u] = tables[u]
        OBVIOUS
      <4> QED
        BY <4>1, <4>2, <4>3, IndexesExcept
    <3> HIDE DEF c, ts
    <3>5. image' = [image EXCEPT !.schema = c]
      BY <1>5
    <3>6. IndexListed(image, tables, indexes, stmt.table, stmt.name, ix, c, image', ts)
      BY <1>2, <1>3, <3>1, <3>2, <3>3, <3>4, <3>5 DEF IndexListed
    <3> QED
      BY <3>6, IndexAdded
  <2> QED
    BY <1>1, <1>5, <2>2, SucceedKeeps
<1> QED
  BY <1>4, <1>5 DEF FinishCreateIndex, WriteSchema

-----------------------------------------------------------------------------
(* The invariant.                                                          *)

LEMMA StartKeeps ==
  ASSUME IInv, Ready, NEW kind, NEW t, NEW todo, Start(kind, t, todo), kind # "none",
         TodoOK(image, tables, indexes, [kind |-> kind, table |-> t, todo |-> todo])
  PROVE  IInv'
<1>1. /\ mode # "failed" /\ UNCHANGED <<image, saved, cat, tables, indexes, mode>>
      /\ stmt' = [kind |-> kind, table |-> t, todo |-> todo]
  BY DEF Ready, Start, memory
<1>2. stmt'.kind # "none"
  BY <1>1
<1>3. TodoOK(image', tables', indexes', stmt')
  BY <1>1
<1>4. PagesOK(image') /\ MemoryOK(image', cat', tables', indexes')
  BY <1>1 DEF IInv
<1> QED
  BY <1>1, <1>2, <1>3, <1>4, GoesOn

LEMMA StartInsertKeeps ==
  ASSUME IInv, NEW t, NEW rows \in Seq(Row), StartInsert(t, rows)
  PROVE  IInv'
<1> DEFINE s == [kind |-> "insert", table |-> t, todo |-> rows]
<1>1. TodoOK(image, tables, indexes, s)
  BY DEF StartInsert, TodoOK
<1> QED
  BY <1>1, StartKeeps DEF StartInsert

LEMMA CollectedIsThere ==
  ASSUME IInv, Ready, NEW t \in DOMAIN tables, NEW where, NEW rows \in Collected(t, where)
  PROVE  /\ rows \subseteq image.trees[tables[t].root] /\ Numbered(rows)
         /\ \A e \in rows : e.vals \in Row
<1>1. rows \subseteq image.trees[tables[t].root]
  BY DEF Collected, Scanned
<1>2. TreeOK(image.trees[tables[t].root])
  BY AttachedTable DEF IInv, Ready
<1> QED
  BY <1>1, <1>2 DEF TreeOK, Numbered

LEMMA StartUpdateKeeps ==
  ASSUME IInv, NEW t, NEW where, NEW assign \in Assigns, StartUpdate(t, where, assign)
  PROVE  IInv'
<1>1. Ready /\ t \in DOMAIN tables
  BY DEF StartUpdate
<1>2. PICK rows \in Collected(t, where) :
        Start("update", t, {Entry(assign[e.vals], e.id) : e \in rows})
  BY DEF StartUpdate
<1> DEFINE todo == {Entry(assign[e.vals], e.id) : e \in rows}
           s == [kind |-> "update", table |-> t, todo |-> todo]
<1>3. /\ rows \subseteq image.trees[tables[t].root] /\ Numbered(rows)
      /\ \A e \in rows : e.vals \in Row
  BY <1>1, CollectedIsThere
<1>4. \A e \in todo : \E f \in rows : e.id = f.id /\ e = Entry(assign[f.vals], f.id)
  BY DEF Entry
<1>5. \A e \in todo : e.vals \in Row
  <2>1. assign \in [Row -> Row]
    BY EngineAssumption
  <2>2. \A e \in rows : assign[e.vals] \in Row
    BY <1>3, <2>1
  <2> QED
    BY <2>2 DEF Entry
<1>6. Numbered(todo)
  BY <1>3, <1>4 DEF Numbered
<1>7. TodoOK(image, tables, indexes, s)
  <2> HIDE DEF todo
  <2> QED
    BY <1>1, <1>3, <1>4, <1>5, <1>6 DEF TodoOK
<1> QED
  BY <1>1, <1>2, <1>7, StartKeeps

LEMMA StartDeleteKeeps ==
  ASSUME IInv, NEW t, NEW where, StartDelete(t, where)
  PROVE  IInv'
<1>1. Ready /\ t \in DOMAIN tables
  BY DEF StartDelete
<1>2. PICK rows \in Collected(t, where) : Start("delete", t, rows)
  BY DEF StartDelete
<1>3. /\ rows \subseteq image.trees[tables[t].root] /\ Numbered(rows)
      /\ \A e \in rows : e.vals \in Row
  BY <1>1, CollectedIsThere
<1>4. TodoOK(image, tables, indexes, [kind |-> "delete", table |-> t, todo |-> rows])
  BY <1>1, <1>3 DEF TodoOK
<1> QED
  BY <1>1, <1>2, <1>4, StartKeeps

LEMMA FinishKeeps ==
  ASSUME IInv, Finish
  PROVE  IInv'
<1>1. mode # "failed"
  BY DEF Finish, IInv, Idle, NoStmt
<1>2. PagesOK(image') /\ MemoryOK(image', cat', tables', indexes')
  BY <1>1 DEF Finish, IInv, memory
<1> QED
  BY <1>1, <1>2, SucceedKeeps DEF Finish

LEMMA TransactionKeeps ==
  ASSUME IInv, Begin \/ Commit \/ Rollback \/ Reopen
  PROVE  IInv'
<1>1. CASE Begin
  BY <1>1 DEF Begin, IInv, Ready, Idle, memory
<1>2. CASE Commit
  BY <1>2 DEF Commit, IInv, Ready, Idle, memory
<1>3. CASE Rollback
  BY <1>3, UndoKeeps DEF Rollback, Idle
<1>4. CASE Reopen
  BY <1>4, UndoKeeps DEF Reopen
<1> QED
  BY <1>1, <1>2, <1>3, <1>4

LEMMA InitIInv == Init => IInv
<1> SUFFICES ASSUME Init PROVE IInv
  OBVIOUS
<1>1. /\ image.schema = [tables |-> << >>, indexes |-> << >>] /\ image.trees = << >>
      /\ image.next = 1 /\ saved = image /\ cat = image.schema /\ tables = << >>
      /\ image = [schema |-> image.schema, trees |-> image.trees, next |-> image.next]
  BY DEF Init, NoSchema
<1>2. DOMAIN << >> = {}
  OBVIOUS
<1>3. PagesOK(image)
  BY <1>1, <1>2 DEF PagesOK
<1>4. MemoryOK(image, cat, tables, indexes)
  BY <1>1, <1>2 DEF MemoryOK
<1>5. TodoOK(image, tables, indexes, stmt)
  BY DEF Init, NoStmt, TodoOK
<1> QED
  BY <1>1, <1>3, <1>4, <1>5 DEF IInv, Init

\* Every action keeps the invariant.
LEMMA NextIInv ==
  ASSUME IInv, [Next]_vars, "build" \notin Faults
  PROVE  IInv'
<1>1. CASE UNCHANGED vars
  BY <1>1 DEF vars, memory, IInv, Idle
<1>2. CASE Begin \/ Commit \/ Rollback \/ Reopen
  BY <1>2, TransactionKeeps
<1>3. CASE Rejected
  BY <1>3, RefusedKeeps DEF Rejected, Ready
<1>4. CASE StatementFails
  BY <1>4, FailsKeeps DEF StatementFails, IInv
<1>5. CASE BuildIndex \/ FinishCreateIndex
  BY <1>5, BuildIndexKeeps, FinishCreateIndexKeeps
<1>6. CASE InsertRow \/ UpdateRow \/ DeleteRow \/ Finish
  BY <1>6, InsertRowKeeps, UpdateRowKeeps, DeleteRowKeeps, FinishKeeps
<1>7. ASSUME NEW t, CreateTable(t)
      PROVE  IInv'
  BY <1>7, CreateTableKeeps
<1>8. ASSUME NEW n, NEW t, NEW cols \in ColLists, NEW unique, StartCreateIndex(n, t, cols, unique)
      PROVE  IInv'
  BY <1>8, StartCreateIndexKeeps
<1>9. ASSUME NEW t, NEW r \in Rows, NEW s \in Rows, StartInsert(t, <<r>>) \/ StartInsert(t, <<r, s>>)
      PROVE  IInv'
  <2>1. <<r>> \in Seq(Row) /\ <<r, s>> \in Seq(Row)
    BY EngineAssumption
  <2> QED
    BY <1>9, <2>1, StartInsertKeeps
<1>10. ASSUME NEW t, NEW where, StartDelete(t, where)
       PROVE  IInv'
  BY <1>10, StartDeleteKeeps
<1>11. ASSUME NEW t, NEW where, NEW f \in Assigns, StartUpdate(t, where, f)
       PROVE  IInv'
  BY <1>11, StartUpdateKeeps
<1> QED
  BY <1>1, <1>2, <1>3, <1>4, <1>5, <1>6, <1>7, <1>8, <1>9, <1>10, <1>11 DEF Next

\* Between any two steps the pages are a database, the last commit's and, but for a
\* failed transaction, the ones in use; memory is theirs, and a statement that runs
\* has left rows of its table only (engine.go:62-123, storage.go:37-134).
THEOREM Inductive ==
  ASSUME "build" \notin Faults
  PROVE  Spec => []IInv
<1>1. IInv /\ [Next]_vars => IInv'
  BY NextIInv
<1> QED
  BY <1>1, InitIInv, PTL DEF Spec

\* No row is ever missing from an index of its table, and no entry is left behind:
\* Table's verbs and BuildIndex (storage.go:37-134), reload (engine.go:62-80).
THEOREM IndexesFollowRows ==
  ASSUME "build" \notin Faults
  PROVE  Spec => []IndexConsistent
<1>1. IInv => IndexConsistent
  <2> SUFFICES ASSUME IInv, mode # "failed", NEW t \in DOMAIN tables, NEW ix \in tables[t].indexes
               PROVE  image.trees[ix.root] = IndexOf(ix, image.trees[tables[t].root])
    BY DEF IndexConsistent, IndexOf
  <2>1. IndexOK(ix, image.trees, image.trees[tables[t].root])
    BY ItsIndexes DEF IInv
  <2> QED
    BY <2>1 DEF IndexOK
<1> QED
  BY <1>1, Inductive, PTL

\* Catalog, tables and indexes in memory are those a reopened database would have
\* (engine.go:62-123), and rowids are given out above all that a table holds.
THEOREM MemoryFollowsPages ==
  ASSUME "build" \notin Faults
  PROVE  Spec => []MemoryMatchesPages
<1>1. IInv => MemoryMatchesPages
  <2> SUFFICES ASSUME IInv, mode # "failed"
               PROVE  MemoryMatchesPages
    BY DEF MemoryMatchesPages
  <2>1. PagesOK(image) /\ MemoryOK(image, cat, tables, indexes)
    BY DEF IInv
  <2>2. ASSUME NEW t \in DOMAIN tables
        PROVE  /\ tables[t].nextID >= AttachedTables(image)[t].nextID
               /\ [tables[t] EXCEPT !.nextID = 0] = [AttachedTables(image)[t] EXCEPT !.nextID = 0]
    <3> DEFINE a == AttachedTables(image)[t]
    <3>1. /\ tables[t] = [root |-> cat.tables[t], nextID |-> tables[t].nextID, indexes |-> a.indexes]
          /\ tables[t].nextID \in Nat
          /\ MaxRowID(image.trees[cat.tables[t]]) <= tables[t].nextID
      BY <2>1 DEF MemoryOK
    <3>2. cat = image.schema /\ t \in DOMAIN cat.tables
      BY <2>1 DEF MemoryOK
    <3>3. a = [root |-> cat.tables[t], nextID |-> MaxRowID(image.trees[cat.tables[t]]),
               indexes |-> a.indexes]
      BY <3>2 DEF AttachedTables
    <3>4. MaxRowID(image.trees[cat.tables[t]]) \in Nat
      BY <2>1, <3>2 DEF PagesOK, TreeOK
    <3> HIDE DEF a
    <3>5. a.nextID = MaxRowID(image.trees[cat.tables[t]])
      BY <3>3
    <3>6. [tables[t] EXCEPT !.nextID = 0] = [root |-> cat.tables[t], nextID |-> 0, indexes |-> a.indexes]
      BY <3>1
    <3>7. [a EXCEPT !.nextID = 0] = [root |-> cat.tables[t], nextID |-> 0, indexes |-> a.indexes]
      BY <3>3
    <3> QED
      BY <3>1, <3>4, <3>5, <3>6, <3>7 DEF a
  <2>3. mode = "auto" /\ Idle => image = saved
    BY DEF IInv
  <2> QED
    BY <2>1, <2>2, <2>3 DEF MemoryMatchesPages, MemoryOK
<1> QED
  BY <1>1, Inductive, PTL

-----------------------------------------------------------------------------
(* Types.  What a failed statement leaves inside a transaction has them too. *)

EntryTyped(e) == e.id \in 1 .. MaxRowId /\ e.vals \in Seq(Value)

\* A schema, or the catalog, and the trees its roots are in.
CatTyped(c, trees) ==
  /\ SchemaOK(c) /\ c = [tables |-> c.tables, indexes |-> c.indexes]
  /\ \A t \in DOMAIN c.tables : c.tables[t] \in DOMAIN trees
  /\ \A n \in DOMAIN c.indexes : c.indexes[n].root \in DOMAIN trees

ImageTyped(img) ==
  /\ img = [schema |-> img.schema, trees |-> img.trees, next |-> img.next]
  /\ img.next \in 1 .. MaxTrees + 1 /\ DOMAIN img.trees = 1 .. img.next - 1
  /\ \A r \in DOMAIN img.trees : \A e \in img.trees[r] : EntryTyped(e)
  /\ CatTyped(img.schema, img.trees)

DefTyped(ix, trees) == ix \in Defs /\ ix.root \in DOMAIN trees

TableTyped(tab, trees) ==
  /\ tab = [root |-> tab.root, nextID |-> tab.nextID, indexes |-> tab.indexes]
  /\ tab.root \in DOMAIN trees /\ tab.nextID \in 0 .. MaxRowId
  /\ \A ix \in tab.indexes : DefTyped(ix, trees)

MemoryTyped(trees, c, ts, ixs) ==
  /\ CatTyped(c, trees)
  /\ DOMAIN ts = DOMAIN c.tables /\ \A t \in DOMAIN ts : TableTyped(ts[t], trees)
  /\ DOMAIN ixs \subseteq Indexes /\ \A n \in DOMAIN ixs : DefTyped(ixs[n], trees)

\* The rows of an INSERT that are left fit under the bound.
StmtTyped(ts, s) ==
  /\ s.kind \in {"none", "insert", "update", "delete", "index"}
  /\ s.kind = "insert" => ts[s.table].nextID + Len(s.todo) <= MaxRowId

TypeInv ==
  /\ ImageTyped(image) /\ ImageTyped(saved)
  /\ MemoryTyped(image.trees, cat, tables, indexes)
  /\ StmtTyped(tables, stmt)

\* They are about where the trees are, and not what is in them.
LEMMA MoreTrees ==
  ASSUME NEW trees, NEW more, DOMAIN trees \subseteq DOMAIN more
  PROVE  /\ \A c : CatTyped(c, trees) => CatTyped(c, more)
         /\ \A ix : DefTyped(ix, trees) => DefTyped(ix, more)
         /\ \A tab : TableTyped(tab, trees) => TableTyped(tab, more)
         /\ \A c, ts, ixs : MemoryTyped(trees, c, ts, ixs) => MemoryTyped(more, c, ts, ixs)
<1>1. \A c : CatTyped(c, trees) => CatTyped(c, more)
  BY DEF CatTyped
<1>2. \A ix : DefTyped(ix, trees) => DefTyped(ix, more)
  BY DEF DefTyped
<1>3. \A tab : TableTyped(tab, trees) => TableTyped(tab, more)
  BY <1>2 DEF TableTyped
<1>4. ASSUME NEW c, NEW ts, NEW ixs, MemoryTyped(trees, c, ts, ixs)
      PROVE  MemoryTyped(more, c, ts, ixs)
  BY <1>1, <1>2, <1>3, <1>4 DEF MemoryTyped
<1> QED
  BY <1>1, <1>2, <1>3, <1>4

\* reload finds every root among the trees, and every rowid under the bound.
LEMMA ReloadTyped ==
  ASSUME NEW img, ImageTyped(img)
  PROVE  MemoryTyped(img.trees, img.schema, AttachedTables(img), AttachedIndexes(img))
<1> DEFINE roots == img.schema.tables
           defs == img.schema.indexes
           ts == AttachedTables(img)
           ixs == AttachedIndexes(img)
<1>1. CatTyped(img.schema, img.trees)
  BY DEF ImageTyped
<1>2. DOMAIN ixs = DOMAIN defs /\ DOMAIN ixs \subseteq Indexes
  BY <1>1 DEF AttachedIndexes, CatTyped, SchemaOK
<1>3. ASSUME NEW n \in DOMAIN defs
      PROVE  DefTyped(ixs[n], img.trees)
  <2>1. ixs[n] = [root |-> defs[n].root, cols |-> defs[n].cols, unique |-> defs[n].unique]
    BY AttachedIndex
  <2>2. /\ defs[n].root \in 1 .. MaxTrees /\ defs[n].cols \in ColLists
        /\ defs[n].unique \in BOOLEAN /\ defs[n].root \in DOMAIN img.trees
    BY <1>1 DEF CatTyped, SchemaOK
  <2>3. defs[n].root \in Nat
    BY <2>2, EngineAssumption
  <2> HIDE DEF ixs
  <2> QED
    BY <2>1, <2>2, <2>3 DEF DefTyped, Defs
<1>4. ASSUME NEW t \in DOMAIN roots
      PROVE  TableTyped(ts[t], img.trees)
  <2> DEFINE its == {ixs[n] : n \in {m \in DOMAIN defs : defs[m].table = t}}
             top == MaxRowID(img.trees[roots[t]])
  <2>1. ts[t] = [root |-> roots[t], nextID |-> top, indexes |-> its]
    BY DEF AttachedTables
  <2>2. \A ix \in its : DefTyped(ix, img.trees)
    BY <1>3
  <2>3. roots[t] \in DOMAIN img.trees
    BY <1>1 DEF CatTyped
  <2>4. top \in 0 .. MaxRowId
    <3>1. MaxRowId \in Nat
      BY EngineAssumption
    <3>2. \A e \in img.trees[roots[t]] : e.id \in Nat /\ e.id <= MaxRowId
      BY <2>3, <3>1 DEF ImageTyped, EntryTyped
    <3>3. top \in Nat /\ top <= MaxRowId
      BY <3>1, <3>2, LargestId
    <3> QED
      BY <3>1, <3>3
  <2> HIDE DEF its, top, ts
  <2> QED
    BY <2>1, <2>2, <2>3, <2>4 DEF TableTyped
<1>5. DOMAIN ts = DOMAIN roots
  BY DEF AttachedTables
<1> HIDE DEF ts, ixs
<1> QED
  BY <1>1, <1>2, <1>3, <1>4, <1>5 DEF MemoryTyped, ts, ixs

-----------------------------------------------------------------------------
(* How a statement ends, with types.                                       *)

LEMMA UndoTyped ==
  ASSUME TypeInv, Undo, stmt' = NoStmt
  PROVE  TypeInv'
<1>1. ImageTyped(saved) /\ image' = saved /\ saved' = saved /\ cat' = saved.schema
      /\ tables' = AttachedTables(saved) /\ indexes' = AttachedIndexes(saved)
  BY DEF TypeInv, Undo
<1>2. MemoryTyped(image.trees, cat, tables, indexes)'
  BY <1>1, ReloadTyped
<1>3. StmtTyped(tables', stmt')
  BY DEF StmtTyped, NoStmt
<1> QED
  BY <1>1, <1>2, <1>3 DEF TypeInv

LEMMA FailsTyped ==
  ASSUME TypeInv, NEW img, NEW c, NEW ts, NEW ixs, Fails(img, c, ts, ixs),
         ImageTyped(img), MemoryTyped(img.trees, c, ts, ixs)
  PROVE  TypeInv'
<1>1. CASE mode = "auto"
  BY <1>1, UndoTyped DEF Fails
<1>2. CASE mode # "auto"
  <2>1. /\ image' = img /\ saved' = saved /\ cat' = c /\ tables' = ts /\ indexes' = ixs
        /\ stmt' = NoStmt
    BY <1>2 DEF Fails
  <2>2. StmtTyped(tables', stmt')
    BY <2>1 DEF StmtTyped, NoStmt
  <2> QED
    BY <2>1, <2>2 DEF TypeInv
<1> QED
  BY <1>1, <1>2

LEMMA RefusedTyped ==
  ASSUME TypeInv, Refused
  PROVE  TypeInv'
<1>1. CASE mode = "auto"
  BY <1>1, UndoTyped DEF Refused
<1>2. CASE mode # "auto"
  <2>1. UNCHANGED <<image, saved, cat, tables, indexes>> /\ stmt' = NoStmt
    BY <1>2 DEF Refused, memory
  <2>2. StmtTyped(tables', stmt')
    BY <2>1 DEF StmtTyped, NoStmt
  <2> QED
    BY <2>1, <2>2 DEF TypeInv
<1> QED
  BY <1>1, <1>2

LEMMA SucceedTyped ==
  ASSUME TypeInv, Succeed, ImageTyped(image'), MemoryTyped(image'.trees, cat', tables', indexes')
  PROVE  TypeInv'
<1>1. StmtTyped(tables', stmt')
  BY DEF StmtTyped, NoStmt, Succeed
<1>2. ImageTyped(saved')
  BY DEF Succeed, TypeInv
<1> QED
  BY <1>1, <1>2 DEF TypeInv

-----------------------------------------------------------------------------
(* Writes with types: the values of a row, under its rowid.                *)

WritesTyped(W) == \A w \in W : w.put => EntryTyped(w.entry)

LEMMA KeyColsTyped ==
  ASSUME NEW ix, ix.cols \in ColLists, NEW row \in Row
  PROVE  KeyCols(ix, row) \in Seq(Value)
<1> DEFINE key == KeyCols(ix, row)
           n == Len(ix.cols)
<1>1. ix.cols \in Seq(1 .. Width)
  BY EngineAssumption
<1>2. n \in Nat /\ DOMAIN ix.cols = 1 .. n
  BY <1>1
<1>3. \A i \in 1 .. n : row[ix.cols[i]] \in Value
  BY <1>2, Columns
<1>4. key = [i \in 1 .. n |-> row[ix.cols[i]]]
  BY <1>2 DEF KeyCols
<1> HIDE DEF key, n
<1>5. key \in [1 .. n -> Value]
  BY <1>3, <1>4
<1> QED
  BY <1>2, <1>5 DEF key

LEMMA RowIsSeq == Row \subseteq Seq(Value)
<1>1. Width \in Nat
  BY EngineAssumption
<1> QED
  BY <1>1 DEF Row

\* The stages of the verbs.
LEMMA PutsTyped ==
  ASSUME NEW row \in Row, NEW id \in 1 .. MaxRowId, NEW root, NEW room,
         NEW ixs, \A ix \in ixs : ix.cols \in ColLists
  PROVE  WritesTyped({Put(root, Entry(row, id), room)}) /\ WritesTyped(PutKeys(ixs, row, id))
<1>1. \A vals \in Seq(Value) : EntryTyped(Entry(vals, id))
  BY DEF EntryTyped, Entry
<1>2. EntryTyped(Entry(row, id))
  BY <1>1, RowIsSeq
<1>3. \A ix \in ixs : EntryTyped(Entry(KeyCols(ix, row), id))
  BY <1>1, KeyColsTyped
<1> QED
  BY <1>2, <1>3 DEF WritesTyped, PutKeys, Put

LEMMA DelsTyped ==
  ASSUME NEW old, NEW id, NEW root, NEW ixs
  PROVE  WritesTyped({Del(root, Entry(old, id))}) /\ WritesTyped(DelKeys(ixs, old, id))
  BY DEF WritesTyped, DelKeys, Del

\* Whatever part of the stages is written.
LEMMA PartsTyped ==
  ASSUME NEW stages, \A i \in DOMAIN stages : WritesTyped(stages[i])
  PROVE  /\ WritesTyped(Writes(stages))
         /\ \A io : DOMAIN stages = 1 .. Len(stages) /\ Len(stages) \in Nat =>
              \A W \in Partial(stages, io) : WritesTyped(W)
<1>1. WritesTyped(Writes(stages))
  BY DEF Writes, WritesTyped
<1>2. ASSUME NEW io, DOMAIN stages = 1 .. Len(stages), Len(stages) \in Nat,
             NEW W \in Partial(stages, io)
      PROVE  WritesTyped(W)
  <2> DEFINE before(i) == UNION {stages[j] : j \in 1 .. i - 1}
             fits(i) == {w \in stages[i] : Fits(w)}
             halts == {j \in DOMAIN stages :
                         /\ \A k \in 1 .. j - 1 : \A w \in stages[k] : Fits(w)
                         /\ io \/ \E w \in stages[j] : ~Fits(w)}
  <2>1. PICK i \in DOMAIN stages : W \in {before(i) \cup V : V \in SUBSET fits(i)}
    <3>1. W \in UNION {{before(i) \cup V : V \in SUBSET fits(i)} : i \in halts}
      BY <1>2, Zenon DEF Partial
    <3>2. halts \subseteq DOMAIN stages
      OBVIOUS
    <3> HIDE DEF halts, before, fits
    <3> QED
      BY <3>1, <3>2
  <2>2. PICK V \in SUBSET fits(i) : W = before(i) \cup V
    BY <2>1
  <2>3. \A w \in V : w \in stages[i]
    BY <2>2
  <2>4. \A w \in before(i) : \E j \in DOMAIN stages : w \in stages[j]
    <3>1. 1 .. i - 1 \subseteq DOMAIN stages
      BY <1>2
    <3> QED
      BY <3>1
  <2> HIDE DEF before, fits
  <2>5. \A w \in W : \E j \in DOMAIN stages : w \in stages[j]
    BY <2>2, <2>3, <2>4
  <2> QED
    BY <2>5 DEF WritesTyped
<1> QED
  BY <1>1, <1>2

LEMMA StagesTyped ==
  ASSUME NEW t, \A ix \in t.indexes : ix.cols \in ColLists,
         NEW id \in 1 .. MaxRowId, NEW row \in Row, NEW old, NEW stages,
         \/ stages = InsertStages(t, id, row)
         \/ stages = UpdateStages(t, id, old, row)
         \/ stages = DeleteStages(t, id, old)
  PROVE  WritesTyped(Writes(stages)) /\ \A io : \A W \in Partial(stages, io) : WritesTyped(W)
<1> DEFINE M == Moved(t, old, row)
           putRow == {Put(t.root, Entry(row, id), RowRoom)}
           delRow == {Del(t.root, Entry(old, id))}
<1>1. \A ix \in M : ix.cols \in ColLists
  BY DEF Moved
<1> HIDE DEF M
<1>2. /\ WritesTyped(putRow) /\ WritesTyped(delRow)
      /\ WritesTyped(PutKeys(t.indexes, row, id)) /\ WritesTyped(PutKeys(M, row, id))
      /\ WritesTyped(DelKeys(t.indexes, old, id)) /\ WritesTyped(DelKeys(M, old, id))
  BY <1>1, PutsTyped, DelsTyped
<1> HIDE DEF putRow, delRow
<1>3. \/ stages = <<putRow, PutKeys(t.indexes, row, id)>>
      \/ stages = <<DelKeys(M, old, id), delRow, putRow, PutKeys(M, row, id)>>
      \/ stages = <<delRow, DelKeys(t.indexes, old, id)>>
  BY DEF InsertStages, UpdateStages, DeleteStages, M, putRow, delRow
<1>4. /\ DOMAIN stages = 1 .. Len(stages) /\ Len(stages) \in Nat
      /\ \A i \in DOMAIN stages : WritesTyped(stages[i])
  <2>1. ASSUME NEW A, NEW B, WritesTyped(A), WritesTyped(B), stages = <<A, B>>
        PROVE  /\ DOMAIN stages = 1 .. Len(stages) /\ Len(stages) \in Nat
               /\ \A i \in DOMAIN stages : WritesTyped(stages[i])
    <3>1. Len(stages) = 2 /\ DOMAIN stages = 1 .. 2 /\ stages[1] = A /\ stages[2] = B
      BY <2>1
    <3> QED
      BY <2>1, <3>1
  <2>2. ASSUME NEW A, NEW B, NEW C, NEW D, stages = <<A, B, C, D>>,
               WritesTyped(A), WritesTyped(B), WritesTyped(C), WritesTyped(D)
        PROVE  /\ DOMAIN stages = 1 .. Len(stages) /\ Len(stages) \in Nat
               /\ \A i \in DOMAIN stages : WritesTyped(stages[i])
    <3>1. /\ Len(stages) = 4 /\ DOMAIN stages = 1 .. 4
          /\ stages[1] = A /\ stages[2] = B /\ stages[3] = C /\ stages[4] = D
      BY <2>2
    <3> QED
      BY <2>2, <3>1
  <2> QED
    BY <1>2, <1>3, <2>1, <2>2
<1> QED
  BY <1>4, PartsTyped

\* They leave the trees where they are.
LEMMA ApplyTyped ==
  ASSUME NEW img, ImageTyped(img), NEW W, WritesTyped(W)
  PROVE  LET new == [img EXCEPT !.trees = Apply(@, W)]
         IN  /\ ImageTyped(new) /\ DOMAIN new.trees = DOMAIN img.trees
<1> DEFINE T == Apply(img.trees, W)
           new == [img EXCEPT !.trees = Apply(@, W)]
<1>1. DOMAIN T = DOMAIN img.trees
  BY DEF Apply
<1>2. ASSUME NEW r \in DOMAIN T, NEW e \in T[r]
      PROVE  EntryTyped(e)
  <2>1. e \in img.trees[r] \/ \E w \in W : w.put /\ w.root = r /\ e = w.entry
    BY <1>1, <1>2 DEF Apply
  <2> QED
    BY <1>1, <2>1 DEF ImageTyped, WritesTyped
<1>3. new = [schema |-> img.schema, trees |-> T, next |-> img.next]
  <2>1. img = [schema |-> img.schema, trees |-> img.trees, next |-> img.next]
    BY DEF ImageTyped
  <2>2. new = [img EXCEPT !.trees = T]
    OBVIOUS
  <2> HIDE DEF T
  <2> QED
    BY <2>1, <2>2
<1> HIDE DEF T, new
<1>4. new.schema = img.schema /\ new.trees = T /\ new.next = img.next
  BY <1>3
<1>5. CatTyped(img.schema, T)
  BY <1>1, MoreTrees DEF ImageTyped
<1>6. ImageTyped(new)
  BY <1>1, <1>2, <1>3, <1>4, <1>5 DEF ImageTyped
<1> QED
  BY <1>1, <1>4, <1>6 DEF new

-----------------------------------------------------------------------------
(* INSERT, UPDATE and DELETE, with types.                                  *)

LEMMA VerbTyped ==
  ASSUME TypeInv, NEW refused, NEW stages, NEW ts, NEW left, Verb(refused, stages, ts, left),
         WritesTyped(Writes(stages)), \A io : \A W \in Partial(stages, io) : WritesTyped(W),
         MemoryTyped(image.trees, cat, ts, indexes), StmtTyped(ts, [stmt EXCEPT !.todo = left])
  PROVE  TypeInv'
<1>1. ASSUME NEW W, WritesTyped(W), NEW img, img = [image EXCEPT !.trees = Apply(@, W)]
      PROVE  ImageTyped(img) /\ MemoryTyped(img.trees, cat, ts, indexes)
  <2>1. ImageTyped(img) /\ DOMAIN img.trees = DOMAIN image.trees
    BY <1>1, ApplyTyped DEF TypeInv
  <2> QED
    BY <2>1, MoreTrees
<1>2. CASE Refused
  BY <1>2, RefusedTyped
<1>3. CASE /\ image' = [image EXCEPT !.trees = Apply(@, Writes(stages))]
           /\ tables' = ts /\ stmt' = [stmt EXCEPT !.todo = left]
           /\ UNCHANGED <<saved, cat, indexes, mode>>
  <2>1. ImageTyped(image') /\ MemoryTyped(image'.trees, cat, ts, indexes)
    BY <1>1, <1>3
  <2> QED
    BY <1>3, <2>1 DEF TypeInv
<1>4. ASSUME NEW io, NEW W \in Partial(stages, io),
             Fails([image EXCEPT !.trees = Apply(@, W)], cat, ts, indexes)
      PROVE  TypeInv'
  BY <1>1, <1>4, FailsTyped
<1> QED
  BY <1>2, <1>3, <1>4 DEF Verb

\* What the row verbs may rely on.
LEMMA RunningTyped ==
  ASSUME IInv, TypeInv, stmt.kind \in {"insert", "update", "delete"}
  PROVE  /\ PagesOK(image) /\ MemoryOK(image, cat, tables, indexes)
         /\ TodoOK(image, tables, indexes, stmt) /\ stmt.table \in DOMAIN tables
         /\ stmt = [kind |-> stmt.kind, table |-> stmt.table, todo |-> stmt.todo]
         /\ TableTyped(table, image.trees) /\ \A ix \in table.indexes : ix.cols \in ColLists
         /\ \A e \in image.trees[table.root] : e.id \in 1 .. MaxRowId
<1>1. mode # "failed"
  BY DEF IInv, Idle, NoStmt
<1>2. /\ PagesOK(image) /\ MemoryOK(image, cat, tables, indexes)
      /\ TodoOK(image, tables, indexes, stmt)
  BY <1>1 DEF IInv
<1>3. /\ stmt.table \in DOMAIN tables
      /\ stmt = [kind |-> stmt.kind, table |-> stmt.table, todo |-> stmt.todo]
  BY <1>2 DEF TodoOK
<1>4. TableTyped(table, image.trees)
  BY <1>3 DEF TypeInv, MemoryTyped, table
<1>5. \A ix \in table.indexes : ix.cols \in ColLists
  BY <1>4 DEF TableTyped, DefTyped, Defs
<1>6. \A e \in image.trees[table.root] : e.id \in 1 .. MaxRowId
  BY <1>4 DEF TableTyped, TypeInv, ImageTyped, EntryTyped
<1> QED
  BY <1>2, <1>3, <1>4, <1>5, <1>6

LEMMA InsertRowTyped ==
  ASSUME IInv, TypeInv, InsertRow
  PROVE  TypeInv'
<1> DEFINE row == Head(stmt.todo)
           id == table.nextID + 1
           ts == [tables EXCEPT ![stmt.table].nextID = id]
           left == Tail(stmt.todo)
           stages == InsertStages(table, id, row)
<1>1. stmt.kind = "insert" /\ stmt.todo # << >>
  BY DEF InsertRow
<1>2. /\ stmt.table \in DOMAIN tables /\ TodoOK(image, tables, indexes, stmt)
      /\ stmt = [kind |-> stmt.kind, table |-> stmt.table, todo |-> stmt.todo]
      /\ TableTyped(table, image.trees) /\ \A ix \in table.indexes : ix.cols \in ColLists
  BY <1>1, RunningTyped
<1>3. stmt.todo \in Seq(Row)
  BY <1>1, <1>2 DEF TodoOK
<1>4. row \in Row /\ Len(left) = Len(stmt.todo) - 1 /\ Len(stmt.todo) \in Nat
      /\ Len(stmt.todo) # 0
  BY <1>1, <1>3
<1>5. table.nextID + Len(stmt.todo) <= MaxRowId
  BY <1>1 DEF TypeInv, StmtTyped, table
<1>6. table.nextID \in Nat /\ MaxRowId \in Nat
  BY <1>2, EngineAssumption DEF TableTyped
<1>7. id \in 1 .. MaxRowId /\ id + Len(left) <= MaxRowId
  <2> HIDE DEF left
  <2> QED
    BY <1>4, <1>5, <1>6
<1>8. WritesTyped(Writes(stages)) /\ \A io : \A W \in Partial(stages, io) : WritesTyped(W)
  <2> HIDE DEF id, row
  <2> QED
    BY <1>2, <1>4, <1>7, StagesTyped
<1>9. /\ DOMAIN ts = DOMAIN tables /\ \A u \in DOMAIN tables : u # stmt.table => ts[u] = tables[u]
      /\ ts[stmt.table] = [root |-> table.root, nextID |-> id, indexes |-> table.indexes]
  <2>1. table = [root |-> table.root, nextID |-> table.nextID, indexes |-> table.indexes]
    BY <1>2 DEF TableTyped
  <2>2. ts[stmt.table] = [table EXCEPT !.nextID = id]
    BY <1>2 DEF table
  <2>3. [table EXCEPT !.nextID = id]
          = [root |-> table.root, nextID |-> id, indexes |-> table.indexes]
    <3> HIDE DEF id
    <3> QED
      BY <2>1
  <2> QED
    BY <2>2, <2>3
<1> HIDE DEF ts, id, stages, row, left
<1>10. TableTyped(ts[stmt.table], image.trees)
  BY <1>2, <1>6, <1>7, <1>9 DEF TableTyped
<1>11. MemoryTyped(image.trees, cat, ts, indexes)
  BY <1>9, <1>10 DEF TypeInv, MemoryTyped
<1>12. StmtTyped(ts, [stmt EXCEPT !.todo = left])
  <2>1. [stmt EXCEPT !.todo = left] = [kind |-> stmt.kind, table |-> stmt.table, todo |-> left]
    BY <1>2, TodoExcept
  <2>2. ts[stmt.table].nextID = id
    BY <1>9
  <2> QED
    BY <1>1, <1>7, <2>1, <2>2 DEF StmtTyped
<1>13. Verb(\E ix \in table.indexes : ~CheckUnique(image.trees, ix, row, 0), stages, ts, left)
  BY DEF InsertRow, row, id, ts, left, stages
<1> QED
  BY <1>8, <1>11, <1>12, <1>13, VerbTyped

LEMMA UpdateRowTyped ==
  ASSUME IInv, TypeInv, UpdateRow
  PROVE  TypeInv'
<1>1. stmt.kind = "update"
  BY DEF UpdateRow
<1>2. /\ TodoOK(image, tables, indexes, stmt)
      /\ stmt = [kind |-> stmt.kind, table |-> stmt.table, todo |-> stmt.todo]
      /\ \A ix \in table.indexes : ix.cols \in ColLists
      /\ \A e \in image.trees[table.root] : e.id \in 1 .. MaxRowId
  BY <1>1, RunningTyped
<1>3. PICK new \in stmt.todo :
        Verb(\E ix \in Moved(table, Stored(new.id).vals, new.vals) :
               ~CheckUnique(image.trees, ix, new.vals, new.id),
             UpdateStages(table, new.id, Stored(new.id).vals, new.vals), tables, stmt.todo \ {new})
  BY DEF UpdateRow
<1> DEFINE stages == UpdateStages(table, new.id, Stored(new.id).vals, new.vals)
<1>4. new.vals \in Row /\ new.id \in 1 .. MaxRowId
  BY <1>1, <1>2 DEF TodoOK, table
<1>5. WritesTyped(Writes(stages)) /\ \A io : \A W \in Partial(stages, io) : WritesTyped(W)
  BY <1>2, <1>4, StagesTyped
<1>6. StmtTyped(tables, [stmt EXCEPT !.todo = stmt.todo \ {new}])
  <2>1. [stmt EXCEPT !.todo = stmt.todo \ {new}]
          = [kind |-> stmt.kind, table |-> stmt.table, todo |-> stmt.todo \ {new}]
    BY <1>2, TodoExcept
  <2> QED
    BY <1>1, <2>1 DEF StmtTyped
<1>7. MemoryTyped(image.trees, cat, tables, indexes)
  BY DEF TypeInv
<1> HIDE DEF stages
<1> QED
  BY <1>3, <1>5, <1>6, <1>7, VerbTyped DEF stages

LEMMA DeleteRowTyped ==
  ASSUME IInv, TypeInv, DeleteRow
  PROVE  TypeInv'
<1>1. stmt.kind = "delete"
  BY DEF DeleteRow
<1>2. /\ TodoOK(image, tables, indexes, stmt)
      /\ stmt = [kind |-> stmt.kind, table |-> stmt.table, todo |-> stmt.todo]
      /\ \A ix \in table.indexes : ix.cols \in ColLists
      /\ \A e \in image.trees[table.root] : e.id \in 1 .. MaxRowId
  BY <1>1, RunningTyped
<1>3. PICK gone \in stmt.todo :
        Verb(FALSE, DeleteStages(table, gone.id, Stored(gone.id).vals), tables, stmt.todo \ {gone})
  BY DEF DeleteRow
<1> DEFINE stages == DeleteStages(table, gone.id, Stored(gone.id).vals)
<1>4. gone.vals \in Row /\ gone.id \in 1 .. MaxRowId
  BY <1>1, <1>2 DEF TodoOK, table
<1>5. WritesTyped(Writes(stages)) /\ \A io : \A W \in Partial(stages, io) : WritesTyped(W)
  BY <1>2, <1>4, StagesTyped
<1>6. StmtTyped(tables, [stmt EXCEPT !.todo = stmt.todo \ {gone}])
  <2>1. [stmt EXCEPT !.todo = stmt.todo \ {gone}]
          = [kind |-> stmt.kind, table |-> stmt.table, todo |-> stmt.todo \ {gone}]
    BY <1>2, TodoExcept
  <2> QED
    BY <1>1, <2>1 DEF StmtTyped
<1>7. MemoryTyped(image.trees, cat, tables, indexes)
  BY DEF TypeInv
<1> HIDE DEF stages
<1> QED
  BY <1>3, <1>5, <1>6, <1>7, VerbTyped DEF stages

-----------------------------------------------------------------------------
(* CREATE TABLE and CREATE INDEX, with types.                              *)

LEMMA AllocatedTyped ==
  ASSUME TypeInv, image.next <= MaxTrees
  PROVE  /\ ImageTyped(Allocated) /\ MemoryTyped(Allocated.trees, cat, tables, indexes)
         /\ image.next \in 1 .. MaxTrees /\ image.next \in DOMAIN Allocated.trees
<1> DEFINE T == With(image.trees, image.next, {})
           n == image.next
<1>1. /\ MaxTrees \in Nat /\ n \in 1 .. MaxTrees + 1 /\ DOMAIN image.trees = 1 .. n - 1
      /\ \A r \in DOMAIN image.trees : \A e \in image.trees[r] : EntryTyped(e)
      /\ CatTyped(image.schema, image.trees)
  BY EngineAssumption DEF TypeInv, ImageTyped
<1>2. n \in 1 .. MaxTrees /\ n + 1 \in 1 .. MaxTrees + 1 /\ (1 .. n - 1) \cup {n} = 1 .. (n + 1) - 1
  BY <1>1
<1>3. DOMAIN T = 1 .. (n + 1) - 1
  BY <1>1, <1>2 DEF With
<1>4. \A r \in DOMAIN T : \A e \in T[r] : EntryTyped(e)
  BY <1>1 DEF With
<1>5. Allocated = [schema |-> image.schema, trees |-> T, next |-> n + 1]
  BY DEF Allocated
<1> HIDE DEF T
<1>6. Allocated.schema = image.schema /\ Allocated.trees = T /\ Allocated.next = n + 1
  BY <1>5
<1>7. DOMAIN image.trees \subseteq DOMAIN T /\ n \in DOMAIN T
  BY <1>1, <1>2, <1>3
<1>8. CatTyped(image.schema, T) /\ MemoryTyped(T, cat, tables, indexes)
  BY <1>1, <1>7, MoreTrees DEF TypeInv
<1>9. ImageTyped(Allocated)
  BY <1>2, <1>3, <1>4, <1>5, <1>6, <1>8 DEF ImageTyped
<1> QED
  BY <1>2, <1>6, <1>7, <1>8, <1>9

\* WriteSchema puts the catalog's own schema in the pages.
LEMMA SchemaTyped ==
  ASSUME TypeInv, NEW c, NEW ts, NEW ixs, NEW img, WriteSchema(c, ts, ixs, img),
         ImageTyped(img), MemoryTyped(img.trees, c, ts, ixs)
  PROVE  TypeInv'
<1>1. CASE Fails(img, c, ts, ixs)
  BY <1>1, FailsTyped
<1>2. CASE /\ image' = [img EXCEPT !.schema = c]
           /\ cat' = c /\ tables' = ts /\ indexes' = ixs /\ Succeed
  <2>1. img = [schema |-> img.schema, trees |-> img.trees, next |-> img.next]
    BY DEF ImageTyped
  <2>2. image' = [schema |-> c, trees |-> img.trees, next |-> img.next]
    BY <1>2, <2>1
  <2>3. image'.schema = c /\ image'.trees = img.trees /\ image'.next = img.next
    BY <2>2
  <2>4. ImageTyped(image')
    BY <2>2, <2>3 DEF ImageTyped, MemoryTyped
  <2> QED
    BY <1>2, <2>3, <2>4, SucceedTyped
<1> QED
  BY <1>1, <1>2 DEF WriteSchema

LEMMA CreateTableTyped ==
  ASSUME TypeInv, NEW t \in Tables, CreateTable(t)
  PROVE  TypeInv'
<1> DEFINE r == image.next
           new == [root |-> r, nextID |-> 0, indexes |-> {}]
           roots == With(cat.tables, t, r)
           c == [cat EXCEPT !.tables = With(@, t, r)]
           ts == With(tables, t, new)
           T == Allocated.trees
<1>1. /\ ImageTyped(Allocated) /\ MemoryTyped(T, cat, tables, indexes)
      /\ r \in 1 .. MaxTrees /\ r \in DOMAIN T
  BY AllocatedTyped DEF CreateTable
<1>2. CatTyped(cat, T) /\ cat = [tables |-> cat.tables, indexes |-> cat.indexes]
  BY <1>1 DEF MemoryTyped, CatTyped
<1>3. DOMAIN roots = DOMAIN cat.tables \cup {t} /\ roots[t] = r
      /\ \A u \in DOMAIN cat.tables : u # t => roots[u] = cat.tables[u]
  BY DEF With
<1>4. DOMAIN ts = DOMAIN tables \cup {t} /\ ts[t] = new
      /\ \A u \in DOMAIN tables : u # t => ts[u] = tables[u]
  BY DEF With
<1>5. c = [tables |-> roots, indexes |-> cat.indexes]
  <2>1. c = [cat EXCEPT !.tables = roots]
    OBVIOUS
  <2> HIDE DEF c, roots
  <2> QED
    BY <1>2, <2>1
<1>6. TableTyped(new, T)
  <2>1. 0 \in 0 .. MaxRowId
    BY EngineAssumption
  <2> HIDE DEF r, T
  <2> QED
    BY <1>1, <2>1 DEF TableTyped
<1>7. CreateTable(t) => WriteSchema(c, ts, indexes, Allocated)
  BY DEF CreateTable
<1> HIDE DEF c, roots, ts, r, T, new
<1>8. c.tables = roots /\ c.indexes = cat.indexes
  BY <1>5
<1>9. SchemaOK(c)
  <2>1. /\ DOMAIN roots \subseteq Tables /\ DOMAIN cat.indexes \subseteq Indexes
        /\ \A u \in DOMAIN roots : roots[u] \in 1 .. MaxTrees
    BY <1>1, <1>2, <1>3 DEF CatTyped, SchemaOK
  <2>2. \A n \in DOMAIN cat.indexes :
          cat.indexes[n] \in [table : DOMAIN roots, root : 1 .. MaxTrees, cols : ColLists,
                              unique : BOOLEAN]
    BY <1>2, <1>3 DEF CatTyped, SchemaOK
  <2> QED
    BY <1>8, <2>1, <2>2 DEF SchemaOK
<1>10. CatTyped(c, T)
  BY <1>1, <1>2, <1>3, <1>5, <1>8, <1>9 DEF CatTyped
<1>11. MemoryTyped(T, c, ts, indexes)
  BY <1>1, <1>3, <1>4, <1>6, <1>8, <1>10 DEF MemoryTyped
<1> QED
  BY <1>1, <1>7, <1>11, SchemaTyped DEF T

LEMMA StartCreateIndexTyped ==
  ASSUME TypeInv, NEW n \in Indexes, NEW t, NEW cols \in ColLists, NEW unique \in BOOLEAN,
         StartCreateIndex(n, t, cols, unique)
  PROVE  TypeInv'
<1> DEFINE ix == [root |-> image.next, cols |-> cols, unique |-> unique]
           ixs == With(indexes, n, ix)
<1>1. /\ ImageTyped(Allocated) /\ MemoryTyped(Allocated.trees, cat, tables, indexes)
      /\ image.next \in 1 .. MaxTrees /\ image.next \in DOMAIN Allocated.trees
  BY AllocatedTyped DEF StartCreateIndex
<1>2. /\ image' = Allocated /\ indexes' = ixs /\ UNCHANGED <<saved, cat, tables>>
      /\ stmt'.kind = "index"
  BY DEF StartCreateIndex
<1>3. DefTyped(ix, Allocated.trees)
  <2>1. image.next \in Nat
    BY <1>1, EngineAssumption
  <2> QED
    BY <1>1, <2>1 DEF DefTyped, Defs
<1>4. DOMAIN ixs = DOMAIN indexes \cup {n} /\ ixs[n] = ix
      /\ \A m \in DOMAIN indexes : m # n => ixs[m] = indexes[m]
  BY DEF With
<1> HIDE DEF ix, ixs
<1>5. MemoryTyped(Allocated.trees, cat, tables, ixs)
  BY <1>1, <1>3, <1>4 DEF MemoryTyped
<1> QED
  BY <1>1, <1>2, <1>5 DEF TypeInv, StmtTyped

\* What is left of CREATE INDEX.
LEMMA IndexingTyped ==
  ASSUME IInv, TypeInv, stmt.kind = "index"
  PROVE  /\ mode # "failed" /\ stmt.table \in DOMAIN tables /\ stmt.table \in DOMAIN cat.tables
         /\ stmt = [kind |-> "index", table |-> stmt.table, name |-> stmt.name, todo |-> stmt.todo]
         /\ stmt.name \in DOMAIN indexes /\ stmt.name \in Indexes
         /\ DefTyped(indexes[stmt.name], image.trees)
         /\ indexes[stmt.name] = [root |-> indexes[stmt.name].root,
              cols |-> indexes[stmt.name].cols, unique |-> indexes[stmt.name].unique]
         /\ \A row \in stmt.todo : row.id \in 1 .. MaxRowId /\ row.vals \in Row
<1>1. mode # "failed"
  BY DEF IInv, Idle, NoStmt
<1>2. /\ PagesOK(image) /\ MemoryOK(image, cat, tables, indexes)
      /\ TodoOK(image, tables, indexes, stmt)
  BY <1>1 DEF IInv
<1>3. /\ stmt.table \in DOMAIN tables /\ stmt.name \in DOMAIN indexes
      /\ stmt = [kind |-> "index", table |-> stmt.table, name |-> stmt.name, todo |-> stmt.todo]
      /\ indexes[stmt.name] = [root |-> indexes[stmt.name].root,
              cols |-> indexes[stmt.name].cols, unique |-> indexes[stmt.name].unique]
      /\ stmt.todo \subseteq image.trees[tables[stmt.table].root]
  BY <1>2 DEF TodoOK
<1>4. /\ stmt.table \in DOMAIN cat.tables /\ stmt.name \in Indexes
      /\ DefTyped(indexes[stmt.name], image.trees)
      /\ TableTyped(tables[stmt.table], image.trees)
  BY <1>3 DEF TypeInv, MemoryTyped
<1>5. ASSUME NEW row \in stmt.todo
      PROVE  row.id \in 1 .. MaxRowId /\ row.vals \in Row
  <2>1. TreeOK(image.trees[tables[stmt.table].root])
    BY <1>2, <1>3, AttachedTable
  <2>2. row.vals \in Row
    BY <1>3, <2>1 DEF TreeOK
  <2>3. row.id \in 1 .. MaxRowId
    BY <1>3, <1>4 DEF TableTyped, TypeInv, ImageTyped, EntryTyped
  <2> QED
    BY <2>2, <2>3
<1> QED
  BY <1>1, <1>3, <1>4, <1>5

LEMMA BuildIndexTyped ==
  ASSUME IInv, TypeInv, BuildIndex
  PROVE  TypeInv'
<1>1. stmt.kind = "index"
  BY DEF BuildIndex
<1> DEFINE ix == indexes[stmt.name]
<1>2. PICK row \in stmt.todo : AddKey(row, ix, PutKeys({ix}, row.vals, row.id))
  BY DEF BuildIndex
<1> DEFINE W == PutKeys({ix}, row.vals, row.id)
<1>3. /\ row.id \in 1 .. MaxRowId /\ row.vals \in Row /\ ix.cols \in ColLists
      /\ stmt = [kind |-> "index", table |-> stmt.table, name |-> stmt.name, todo |-> stmt.todo]
  BY <1>1, IndexingTyped DEF DefTyped, Defs
<1>4. WritesTyped(W)
  BY <1>3, PutsTyped
<1> HIDE DEF W
<1>5. CASE Refused
  BY <1>5, RefusedTyped
<1>6. CASE Fails(image, cat, tables, indexes)
  BY <1>6, FailsTyped DEF TypeInv
<1>7. CASE /\ image' = [image EXCEPT !.trees = Apply(@, W)]
           /\ stmt' = [stmt EXCEPT !.todo = @ \ {row}]
           /\ UNCHANGED <<saved, memory, mode>>
  <2>1. ImageTyped(image') /\ DOMAIN image'.trees = DOMAIN image.trees
    BY <1>4, <1>7, ApplyTyped DEF TypeInv
  <2>2. MemoryTyped(image'.trees, cat, tables, indexes)
    BY <2>1, MoreTrees DEF TypeInv
  <2>3. stmt'.kind = "index"
    BY <1>3, <1>7
  <2> QED
    BY <1>7, <2>1, <2>2, <2>3 DEF TypeInv, StmtTyped, memory
<1> QED
  BY <1>2, <1>5, <1>6, <1>7 DEF AddKey, W

LEMMA FinishCreateIndexTyped ==
  ASSUME IInv, TypeInv, FinishCreateIndex
  PROVE  TypeInv'
<1> DEFINE n == stmt.name
           t == stmt.table
           ix == indexes[n]
           def == [table |-> t, root |-> ix.root, cols |-> ix.cols, unique |-> ix.unique]
           defs == With(cat.indexes, n, def)
           c == [cat EXCEPT !.indexes = With(@, n, def)]
           ts == [tables EXCEPT ![t].indexes = @ \cup {ix}]
<1>1. /\ t \in DOMAIN tables /\ t \in DOMAIN cat.tables /\ n \in Indexes
      /\ DefTyped(ix, image.trees)
  BY IndexingTyped DEF FinishCreateIndex
<1>2. CatTyped(cat, image.trees) /\ cat = [tables |-> cat.tables, indexes |-> cat.indexes]
      /\ MemoryTyped(image.trees, cat, tables, indexes)
  BY DEF TypeInv, MemoryTyped, CatTyped
<1>3. DOMAIN defs = DOMAIN cat.indexes \cup {n} /\ defs[n] = def
      /\ \A m \in DOMAIN cat.indexes : m # n => defs[m] = cat.indexes[m]
  BY DEF With
<1>4. c = [tables |-> cat.tables, indexes |-> defs]
  <2>1. c = [cat EXCEPT !.indexes = defs]
    OBVIOUS
  <2> HIDE DEF c, defs
  <2> QED
    BY <1>2, <2>1
<1>5. /\ DOMAIN ts = DOMAIN tables /\ \A u \in DOMAIN tables : u # t => ts[u] = tables[u]
      /\ ts[t] = [root |-> tables[t].root, nextID |-> tables[t].nextID,
                  indexes |-> tables[t].indexes \cup {ix}]
  <2>1. tables[t] = [root |-> tables[t].root, nextID |-> tables[t].nextID,
                     indexes |-> tables[t].indexes]
    BY <1>1, <1>2 DEF MemoryTyped, TableTyped
  <2>2. ts[t] = [tables[t] EXCEPT !.indexes = @ \cup {ix}]
    BY <1>1
  <2>3. DOMAIN ts = DOMAIN tables /\ \A u \in DOMAIN tables : u # t => ts[u] = tables[u]
    OBVIOUS
  <2> HIDE DEF ix
  <2> QED
    BY <2>1, <2>2, <2>3, IndexesExcept
<1>6. FinishCreateIndex => WriteSchema(c, ts, indexes, image)
  BY DEF FinishCreateIndex
<1> HIDE DEF c, ts, defs, n, t
<1>7. c.tables = cat.tables /\ c.indexes = defs
  BY <1>4
<1>8. ix.root \in 1 .. MaxTrees /\ ix.root \in DOMAIN image.trees
      /\ ix.cols \in ColLists /\ ix.unique \in BOOLEAN
  <2>1. DOMAIN image.trees = 1 .. image.next - 1 /\ image.next \in 1 .. MaxTrees + 1
        /\ MaxTrees \in Nat
    BY EngineAssumption DEF TypeInv, ImageTyped
  <2>2. ix.root \in DOMAIN image.trees /\ ix.cols \in ColLists /\ ix.unique \in BOOLEAN
    BY <1>1 DEF DefTyped, Defs
  <2> HIDE DEF ix
  <2> QED
    BY <2>1, <2>2
<1> HIDE DEF ix
<1>9. def \in [table : DOMAIN cat.tables, root : 1 .. MaxTrees, cols : ColLists, unique : BOOLEAN]
      /\ def.root = ix.root
  BY <1>1, <1>8
<1> HIDE DEF def
<1>10. SchemaOK(c)
  BY <1>1, <1>2, <1>3, <1>7, <1>9 DEF CatTyped, SchemaOK
<1>11. CatTyped(c, image.trees)
  BY <1>2, <1>3, <1>4, <1>7, <1>8, <1>9, <1>10 DEF CatTyped
<1>12. TableTyped(ts[t], image.trees)
  <2>1. TableTyped(tables[t], image.trees)
    BY <1>1, <1>2 DEF MemoryTyped
  <2>2. ts[t].root = tables[t].root /\ ts[t].nextID = tables[t].nextID
        /\ ts[t].indexes = tables[t].indexes \cup {ix}
    BY <1>5
  <2> QED
    BY <1>1, <1>5, <2>1, <2>2 DEF TableTyped
<1>13. MemoryTyped(image.trees, c, ts, indexes)
  BY <1>2, <1>5, <1>7, <1>11, <1>12 DEF MemoryTyped
<1> QED
  BY <1>6, <1>13, SchemaTyped DEF TypeInv

-----------------------------------------------------------------------------
(* Types are kept.                                                         *)

LEMMA StartTyped ==
  ASSUME TypeInv, NEW kind, NEW t, NEW todo, Start(kind, t, todo),
         StmtTyped(tables, [kind |-> kind, table |-> t, todo |-> todo])
  PROVE  TypeInv'
  BY DEF Start, TypeInv, memory

LEMMA StatementStartsTyped ==
  ASSUME TypeInv, NEW t, NEW where, NEW rows, NEW assign,
         StartInsert(t, rows) \/ StartUpdate(t, where, assign) \/ StartDelete(t, where)
  PROVE  TypeInv'
<1>1. ASSUME StartInsert(t, rows)
      PROVE  TypeInv'
  <2> DEFINE s == [kind |-> "insert", table |-> t, todo |-> rows]
  <2>1. tables[t].nextID + Len(rows) <= MaxRowId /\ Start("insert", t, rows)
    BY <1>1 DEF StartInsert
  <2>2. s.kind = "insert" /\ s.table = t /\ s.todo = rows
    OBVIOUS
  <2> HIDE DEF s
  <2>3. StmtTyped(tables, s)
    BY <2>1, <2>2 DEF StmtTyped
  <2> QED
    BY <2>1, <2>3, StartTyped DEF s
<1>2. ASSUME NEW kind \in {"update", "delete"}, NEW todo, Start(kind, t, todo)
      PROVE  TypeInv'
  <2>1. StmtTyped(tables, [kind |-> kind, table |-> t, todo |-> todo])
    BY DEF StmtTyped
  <2> QED
    BY <1>2, <2>1, StartTyped
<1> QED
  BY <1>1, <1>2 DEF StartUpdate, StartDelete

LEMMA TransactionTyped ==
  ASSUME TypeInv, Begin \/ Commit \/ Rollback \/ Reopen
  PROVE  TypeInv'
<1>1. CASE Begin
  BY <1>1 DEF Begin, TypeInv, memory
<1>2. CASE Commit
  BY <1>2 DEF Commit, TypeInv, memory
<1>3. CASE Rollback
  BY <1>3, UndoTyped DEF Rollback, Idle
<1>4. CASE Reopen
  BY <1>4, UndoTyped DEF Reopen
<1> QED
  BY <1>1, <1>2, <1>3, <1>4

LEMMA FinishTyped ==
  ASSUME TypeInv, Finish
  PROVE  TypeInv'
  BY SucceedTyped DEF Finish, TypeInv, memory

LEMMA InitTyped == Init => TypeInv
<1> SUFFICES ASSUME Init PROVE TypeInv
  OBVIOUS
<1>1. /\ image.schema = [tables |-> << >>, indexes |-> << >>] /\ image.trees = << >>
      /\ image.next = 1 /\ saved = image /\ cat = image.schema /\ tables = << >>
      /\ indexes = << >> /\ stmt.kind = "none"
      /\ image = [schema |-> image.schema, trees |-> image.trees, next |-> image.next]
  BY DEF Init, NoSchema, NoStmt
<1>2. DOMAIN << >> = {} /\ 1 .. 1 - 1 = {}
  OBVIOUS
<1>3. CatTyped(cat, image.trees)
  BY <1>1, <1>2 DEF CatTyped, SchemaOK
<1>4. ImageTyped(image)
  <2>1. 1 \in 1 .. MaxTrees + 1
    BY EngineAssumption
  <2> QED
    BY <1>1, <1>2, <1>3, <2>1 DEF ImageTyped
<1>5. MemoryTyped(image.trees, cat, tables, indexes)
  BY <1>1, <1>2, <1>3 DEF MemoryTyped
<1> QED
  BY <1>1, <1>4, <1>5 DEF TypeInv, StmtTyped

LEMMA NextTyped ==
  ASSUME IInv, TypeInv, [Next]_vars
  PROVE  TypeInv'
<1>1. CASE UNCHANGED vars
  BY <1>1 DEF vars, memory, TypeInv
<1>2. CASE Begin \/ Commit \/ Rollback \/ Reopen
  BY <1>2, TransactionTyped
<1>3. CASE Rejected
  BY <1>3, RefusedTyped DEF Rejected
<1>4. CASE StatementFails
  BY <1>4, FailsTyped DEF StatementFails, TypeInv
<1>5. CASE BuildIndex \/ FinishCreateIndex
  BY <1>5, BuildIndexTyped, FinishCreateIndexTyped
<1>6. CASE InsertRow \/ UpdateRow \/ DeleteRow \/ Finish
  BY <1>6, InsertRowTyped, UpdateRowTyped, DeleteRowTyped, FinishTyped
<1>7. ASSUME NEW t \in Tables, CreateTable(t)
      PROVE  TypeInv'
  BY <1>7, CreateTableTyped
<1>8. ASSUME NEW n \in Indexes, NEW t, NEW cols \in ColLists, NEW unique \in BOOLEAN,
             StartCreateIndex(n, t, cols, unique)
      PROVE  TypeInv'
  BY <1>8, StartCreateIndexTyped
<1>9. ASSUME NEW t, NEW where, NEW rows, NEW f,
             StartInsert(t, rows) \/ StartUpdate(t, where, f) \/ StartDelete(t, where)
      PROVE  TypeInv'
  BY <1>9, StatementStartsTyped
<1> QED
  BY <1>1, <1>2, <1>3, <1>4, <1>5, <1>6, <1>7, <1>8, <1>9 DEF Next

\* After any error, restart or rollback every root that the schema page or the
\* store's memory names is a tree of the pages, and rowids and columns are in
\* bounds (storage.go, engine.go:62-123).
THEOREM TypesHold ==
  ASSUME "build" \notin Faults
  PROVE  Spec => []TypeOK
<1>1. IInv /\ TypeInv /\ [Next]_vars => TypeInv'
  BY NextTyped
<1>2. IInv /\ TypeInv => TypeOK
  <2> SUFFICES ASSUME IInv, TypeInv
               PROVE  TypeOK
    OBVIOUS
  <2>1. ASSUME NEW img \in {image, saved}
        PROVE  /\ SchemaOK(img.schema)
               /\ img.next \in 1 .. MaxTrees + 1 /\ DOMAIN img.trees = 1 .. img.next - 1
               /\ \A r \in DOMAIN img.trees : \A e \in img.trees[r] :
                    e.id \in 1 .. MaxRowId /\ e.vals \in Seq(Value)
    <3>1. ImageTyped(img)
      BY DEF TypeInv
    <3> QED
      BY <3>1 DEF ImageTyped, CatTyped, EntryTyped
  <2>2. /\ SchemaOK(cat) /\ DOMAIN tables = DOMAIN cat.tables /\ DOMAIN indexes \subseteq Indexes
        /\ \A t \in DOMAIN tables : TableTyped(tables[t], image.trees)
    BY DEF TypeInv, MemoryTyped, CatTyped
  <2>3. \A t \in DOMAIN tables :
          /\ tables[t].root \in DOMAIN image.trees /\ tables[t].nextID \in 0 .. MaxRowId
          /\ \A ix \in tables[t].indexes : ix \in Defs /\ ix.root \in DOMAIN image.trees
    BY <2>2 DEF TableTyped, DefTyped
  <2>4. mode \in {"auto", "txn", "failed"}
    BY DEF IInv
  <2>5. stmt.kind \in {"none", "insert", "update", "delete", "index"}
    BY DEF TypeInv, StmtTyped
  <2> QED
    BY <2>1, <2>2, <2>3, <2>4, <2>5 DEF TypeOK
<1> QED
  BY <1>1, <1>2, InitTyped, Inductive, PTL DEF Spec
-----------------------------------------------------------------------------
(* The engine with its pages, trees, indexes and memory implements the     *)
(* relations of Relations: rows under rowids that no unique constraint is  *)
(* broken by, and statements that take effect as a whole or not at all.    *)

\* What the mapping of Promised shows.
Stable == Shown(saved, saved.schema)
Work == IF mode = "failed" THEN Shown(saved, saved.schema) ELSE Shown(image, cat)

-----------------------------------------------------------------------------
(* What a set of pages shows.                                              *)

LEMMA DefFields ==
  ASSUME NEW x, NEW t, NEW c, NEW u, x = [table |-> t, cols |-> c, unique |-> u]
  PROVE  x.table = t /\ x.cols = c /\ x.unique = u
  OBVIOUS

\* The indexes enforce the law: theirs are the rows, and no two of them agree.
LEMMA PagesLawful ==
  ASSUME NEW img, PagesOK(img), NEW db, db = Shown(img, img.schema)
  PROVE  Promised!Lawful(db)
<1> DEFINE roots == img.schema.tables
           defs == img.schema.indexes
<1>1. db.rows = [t \in DOMAIN roots |-> img.trees[roots[t]]]
  BY DEF Shown
<1>2. db.indexes = [n \in DOMAIN defs |->
        [table |-> defs[n].table, cols |-> defs[n].cols, unique |-> defs[n].unique]]
  BY DEF Shown
<1> SUFFICES ASSUME NEW n \in DOMAIN db.indexes, db.indexes[n].unique,
                    NEW r \in db.rows[db.indexes[n].table], NEW s \in db.rows[db.indexes[n].table],
                    Promised!Alike(db.indexes[n].cols, r.vals, s.vals)
             PROVE  r.id = s.id
  BY DEF Promised!Lawful
<1>3. n \in DOMAIN defs /\ db.indexes[n] =
        [table |-> defs[n].table, cols |-> defs[n].cols, unique |-> defs[n].unique]
  BY <1>2
<1>4. /\ db.indexes[n].table = defs[n].table /\ db.indexes[n].cols = defs[n].cols
      /\ db.indexes[n].unique = defs[n].unique
  <2> DEFINE ix == db.indexes[n]
             def == defs[n]
  <2>1. ix = [table |-> def.table, cols |-> def.cols, unique |-> def.unique]
    BY <1>3
  <2> HIDE DEF ix, def
  <2>2. ix.table = def.table /\ ix.cols = def.cols /\ ix.unique = def.unique
    BY <2>1, DefFields
  <2> QED
    BY <2>2 DEF ix, def
<1>5. defs[n].table \in DOMAIN roots /\ Unique(defs[n], img.trees[roots[defs[n].table]])
  BY <1>3 DEF PagesOK, IndexOK
<1>6. db.rows[defs[n].table] = img.trees[roots[defs[n].table]]
  BY <1>1, <1>5
<1>7. Same(defs[n].cols, r.vals, s.vals)
  <2>1. Promised!Alike(defs[n].cols, r.vals, s.vals)
    BY <1>4
  <2>2. \A cols, x, y : Promised!Alike(cols, x, y) => Same(cols, x, y)
    BY DEF Promised!Alike, Same
  <2> QED
    BY <2>1, <2>2
<1>8. r \in img.trees[roots[defs[n].table]] /\ s \in img.trees[roots[defs[n].table]]
  BY <1>4, <1>6
<1>9. defs[n].unique
  BY <1>4
<1> HIDE DEF roots, defs
<1> QED
  BY <1>5, <1>7, <1>8, <1>9 DEF Unique

LEMMA ShownSame ==
  ASSUME NEW img, NEW new, NEW c,
         \A u \in DOMAIN c.tables : new.trees[c.tables[u]] = img.trees[c.tables[u]]
  PROVE  Shown(new, c) = Shown(img, c)
<1>1. [u \in DOMAIN c.tables |-> new.trees[c.tables[u]]]
        = [u \in DOMAIN c.tables |-> img.trees[c.tables[u]]]
  OBVIOUS
<1> QED
  BY <1>1 DEF Shown

-----------------------------------------------------------------------------
(* Steps that no row shows.                                                *)

LEMMA Views ==
  ASSUME IInv, mode # "failed"
  PROVE  Work = Shown(image, image.schema) /\ Work = Shown(image, cat) /\ cat = image.schema
  BY DEF Work, IInv, MemoryOK

\* The statement starts, or goes on in trees that are not shown.
LEMMA KeptStep ==
  ASSUME IInv, Kept
  PROVE  [Promised!Next]_(Promised!vars)
<1>1. UNCHANGED <<Stable, mode>> /\ mode # "failed" /\ ~Idle'
  BY DEF Kept, Stable
<1>2. Shown(image', cat) = Shown(image, cat)
  BY ShownSame DEF Kept
<1>3. UNCHANGED Work
  BY <1>2 DEF Kept, Work
<1>4. CASE Idle
  <2>1. Promised!StartWrite
    BY <1>1, <1>3, <1>4 DEF Promised!StartWrite, Stable, Work
  <2> QED
    BY <2>1 DEF Promised!Next
<1>5. CASE ~Idle
  BY <1>1, <1>3, <1>5 DEF Promised!vars, Stable, Work
<1> QED
  BY <1>4, <1>5

LEMMA StartStep ==
  ASSUME Ready, NEW kind, NEW t, NEW todo, Start(kind, t, todo), kind # "none"
  PROVE  Promised!Next
<1>1. UNCHANGED <<image, saved, cat, mode>> /\ mode # "failed" /\ Idle
  BY DEF Start, Ready, memory
<1>2. ~Idle'
  BY DEF Start, Idle, NoStmt
<1>3. UNCHANGED <<Stable, Work>>
  BY <1>1 DEF Stable, Work
<1>4. Promised!StartWrite
  BY <1>1, <1>2, <1>3 DEF Promised!StartWrite, Stable, Work
<1> QED
  BY <1>4 DEF Promised!Next

LEMMA UndoViews ==
  ASSUME Undo, mode' # "failed"
  PROVE  Stable' = Stable /\ Work' = Stable
  BY DEF Undo, Stable, Work

LEMMA FailsStep ==
  ASSUME IInv, mode # "failed", NEW img, NEW c, NEW ts, NEW ixs, Fails(img, c, ts, ixs)
  PROVE  Promised!Next
<1>1. Idle'
  BY DEF Fails, Idle
<1>2. CASE mode = "auto"
  <2>1. Stable' = Stable /\ Work' = Stable /\ mode' = mode
    BY <1>2, UndoViews DEF Fails
  <2>2. Promised!Refuse
    BY <1>1, <1>2, <2>1 DEF Promised!Refuse, Stable, Work
  <2> QED
    BY <2>2 DEF Promised!Next
<1>3. CASE mode # "auto"
  <2>1. mode = "txn" /\ mode' = "failed" /\ saved' = saved
    BY <1>3 DEF Fails, IInv
  <2>2. Stable' = Stable /\ Work' = Stable
    BY <2>1 DEF Stable, Work
  <2>3. Promised!Fail
    BY <1>1, <2>1, <2>2 DEF Promised!Fail, Stable, Work
  <2> QED
    BY <2>3 DEF Promised!Next
<1> QED
  BY <1>2, <1>3

LEMMA RefusedStep ==
  ASSUME mode # "failed", Refused
  PROVE  Promised!Next
<1>1. Idle' /\ mode' = mode
  BY DEF Refused, Idle
<1>2. Stable' = Stable /\ Work' = IF mode = "auto" THEN Stable ELSE Work
  <2>1. CASE mode = "auto"
    BY <1>1, <2>1, UndoViews DEF Refused
  <2>2. CASE mode # "auto"
    BY <1>1, <2>2 DEF Refused, memory, Stable, Work
  <2> QED
    BY <2>1, <2>2
<1>3. Promised!Refuse
  BY <1>1, <1>2 DEF Promised!Refuse, Stable, Work
<1> QED
  BY <1>3 DEF Promised!Next

LEMMA GaveUpStep ==
  ASSUME IInv, mode # "failed", GaveUp
  PROVE  Promised!Next
  BY RefusedStep, FailsStep DEF GaveUp

LEMMA TransactionStep ==
  ASSUME IInv, Begin \/ Commit \/ Rollback \/ Reopen
  PROVE  Promised!Next
<1>1. CASE Begin
  <2>1. UNCHANGED <<image, saved, cat, stmt>> /\ mode = "auto" /\ mode' = "txn" /\ Idle
    BY <1>1 DEF Begin, Ready, memory
  <2>2. UNCHANGED <<Stable, Work, Idle>>
    BY <2>1 DEF Stable, Work, Idle
  <2>3. Promised!Begin
    BY <2>1, <2>2 DEF Promised!Begin, Stable, Work
  <2> QED
    BY <2>3 DEF Promised!Next
<1>2. CASE Commit
  <2>1. UNCHANGED <<image, cat, stmt>> /\ mode = "txn" /\ mode' = "auto" /\ Idle /\ saved' = image
    BY <1>2 DEF Commit, Ready, memory
  <2>2. UNCHANGED <<Work, Idle>> /\ Stable' = Work
    BY <2>1, Views DEF Stable, Work, Idle
  <2>3. Promised!Commit
    BY <2>1, <2>2 DEF Promised!Commit, Stable, Work
  <2> QED
    BY <2>3 DEF Promised!Next
<1>3. CASE Rollback \/ Reopen
  <2>1. mode' = "auto" /\ Idle' /\ Undo
    BY <1>3 DEF Rollback, Reopen, Idle
  <2>2. Promised!Restore
    BY <2>1, UndoViews DEF Promised!Restore, Stable, Work
  <2> QED
    BY <2>2 DEF Promised!Next
<1> QED
  BY <1>1, <1>2, <1>3

\* A statement that is done: committed on its own, outside of a transaction.
LEMMA SucceedSettles ==
  ASSUME IInv', mode # "failed", Succeed
  PROVE  /\ mode' = mode /\ Idle'
         /\ Stable' = IF mode = "auto" THEN Work' ELSE Stable
<1>1. mode' = mode /\ Idle' /\ saved' = IF mode = "auto" THEN image' ELSE saved
  BY DEF Succeed, Idle
<1>2. CASE mode = "auto"
  <2>1. PagesOK(image') /\ cat' = image'.schema
    BY <1>1, <1>2 DEF IInv, MemoryOK
  <2> QED
    BY <1>1, <1>2, <2>1 DEF Stable, Work
<1>3. CASE mode # "auto"
  BY <1>1, <1>3 DEF Stable
<1> QED
  BY <1>1, <1>2, <1>3

LEMMA FinishStep ==
  ASSUME IInv, IInv', Finish
  PROVE  Promised!Next
<1>1. mode # "failed" /\ ~Idle /\ UNCHANGED <<image, cat>> /\ Succeed
  BY DEF Finish, IInv, Idle, NoStmt, memory
<1>2. mode' = mode /\ Idle' /\ Stable' = IF mode = "auto" THEN Work' ELSE Stable
  BY <1>1, SucceedSettles
<1>3. UNCHANGED Work
  BY <1>1, <1>2 DEF Work
<1>4. Promised!EndWrite
  BY <1>1, <1>2, <1>3 DEF Promised!EndWrite, Promised!Settle, Stable, Work
<1> QED
  BY <1>4 DEF Promised!Next

-----------------------------------------------------------------------------
(* Steps that change rows or the schema.                                   *)

LEMMA WroteViews ==
  ASSUME IInv, IInv', NEW t, NEW rows, Wrote(t, rows)
  PROVE  /\ UNCHANGED <<Stable, mode, Idle>> /\ ~Idle
         /\ Work' = [Work EXCEPT !.rows[t] = rows] /\ Promised!Lawful(Work')
         /\ t \in DOMAIN Work.rows /\ Work.rows[t] = image.trees[cat.tables[t]]
         /\ Work'.rows[t] = rows
<1>1. UNCHANGED <<saved, cat, mode>> /\ mode # "failed" /\ ~Idle /\ ~Idle' /\ t \in DOMAIN cat.tables
  BY DEF Wrote
<1>2. Work = Shown(image, cat) /\ Work' = Shown(image', cat)
  BY <1>1 DEF Work
<1>3. Work' = [Work EXCEPT !.rows[t] = rows]
  <2>1. \A u \in DOMAIN cat.tables :
          image'.trees[cat.tables[u]] = IF u = t THEN rows ELSE image.trees[cat.tables[u]]
    BY DEF Wrote
  <2> DEFINE was == [u \in DOMAIN cat.tables |-> image.trees[cat.tables[u]]]
             is == [u \in DOMAIN cat.tables |-> image'.trees[cat.tables[u]]]
             ixs == [n \in DOMAIN cat.indexes |->
                      [table |-> cat.indexes[n].table, cols |-> cat.indexes[n].cols,
                       unique |-> cat.indexes[n].unique]]
  <2>2. Work = [rows |-> was, indexes |-> ixs] /\ Work' = [rows |-> is, indexes |-> ixs]
    BY <1>2 DEF Shown
  <2>3. is = [was EXCEPT ![t] = rows]
    BY <1>1, <2>1
  <2> HIDE DEF was, is, ixs
  <2> QED
    BY <2>2, <2>3
<1>4. PagesOK(image') /\ cat' = image'.schema
  BY <1>1 DEF IInv, MemoryOK
<1>5. Promised!Lawful(Work')
  BY <1>1, <1>2, <1>4, PagesLawful
<1>6. t \in DOMAIN Work.rows /\ Work.rows[t] = image.trees[cat.tables[t]]
  BY <1>1, <1>2 DEF Shown
<1>7. Work'.rows[t] = image'.trees[cat.tables[t]]
  BY <1>1, <1>2 DEF Shown
<1>8. image'.trees[cat.tables[t]] = rows
  BY <1>1 DEF Wrote
<1>9. UNCHANGED <<Stable, mode>> /\ Idle' = Idle
  BY <1>1 DEF Stable, Idle
<1> QED
  BY <1>1, <1>3, <1>5, <1>6, <1>7, <1>8, <1>9

\* The table of a statement, in memory and in the pages.
LEMMA ItsTable ==
  ASSUME IInv, stmt.kind \in {"insert", "update", "delete"}
  PROVE  /\ mode # "failed" /\ stmt.table \in DOMAIN cat.tables
         /\ table.root = cat.tables[stmt.table] /\ TreeOK(image.trees[table.root])
         /\ table.nextID \in Nat /\ MaxRowID(image.trees[table.root]) <= table.nextID
<1>1. mode # "failed"
  BY DEF IInv, Idle, NoStmt
<1>2. PagesOK(image) /\ MemoryOK(image, cat, tables, indexes) /\ stmt.table \in DOMAIN tables
      /\ cat = image.schema
  BY <1>1 DEF IInv, TodoOK, MemoryOK
<1> QED
  BY <1>1, <1>2, AttachedTable DEF table

LEMMA InsertRowStep ==
  ASSUME IInv, IInv', InsertRow
  PROVE  Promised!Next
<1> DEFINE t == stmt.table
           rows == image.trees[table.root]
           new == Entry(Head(stmt.todo), table.nextID + 1)
<1>1. /\ mode # "failed" /\ t \in DOMAIN cat.tables
      /\ table.root = cat.tables[t] /\ TreeOK(rows)
      /\ table.nextID \in Nat /\ MaxRowID(rows) <= table.nextID
  BY ItsTable DEF InsertRow
<1>2. CASE GaveUp
  BY <1>1, <1>2, GaveUpStep
<1>3. CASE Wrote(t, rows \cup {new})
  <2>1. \A r \in rows : r.id # new.id
    BY <1>1 DEF TreeOK, Entry
  <2> HIDE DEF new
  <2>2. /\ UNCHANGED <<Stable, mode, Idle>> /\ ~Idle
        /\ Work' = [Work EXCEPT !.rows[t] = rows \cup {new}] /\ Promised!Lawful(Work')
        /\ t \in DOMAIN Work.rows /\ Work.rows[t] = rows /\ Work'.rows[t] = rows \cup {new}
    BY <1>1, <1>3, WroteViews
  <2>3. Promised!InsertRow(t, new)
    BY <2>1, <2>2 DEF Promised!InsertRow, Promised!WriteRows, Stable, Work
  <2>4. new \in Work'.rows[t]
    BY <2>2
  <2> QED
    BY <2>2, <2>3, <2>4 DEF Promised!Next, Work
<1> QED
  BY <1>2, <1>3, InsertRowKeeps

LEMMA UpdateRowStep ==
  ASSUME IInv, IInv', UpdateRow
  PROVE  Promised!Next
<1> DEFINE t == stmt.table
           rows == image.trees[table.root]
<1>1. mode # "failed" /\ t \in DOMAIN cat.tables /\ table.root = cat.tables[t] /\ TreeOK(rows)
  BY ItsTable DEF UpdateRow
<1>2. CASE GaveUp
  BY <1>1, <1>2, GaveUpStep
<1>3. ASSUME NEW new, NEW old \in rows, old.id = new.id,
             Wrote(t, (rows \ {old}) \cup {Entry(new.vals, new.id)})
      PROVE  Promised!Next
  <2> DEFINE row == Entry(new.vals, new.id)
  <2>1. [old EXCEPT !.vals = row.vals] = row /\ row.id = old.id
    <3>1. old = [vals |-> old.vals, id |-> old.id]
      BY <1>1 DEF TreeOK, Entry
    <3>2. row = [vals |-> row.vals, id |-> old.id] /\ row.id = old.id
      BY <1>3 DEF Entry
    <3> HIDE DEF row
    <3> QED
      BY <3>1, <3>2
  <2> HIDE DEF row
  <2>2. Wrote(t, (rows \ {old}) \cup {row})
    BY <1>3 DEF row
  <2>3. /\ UNCHANGED <<Stable, mode, Idle>> /\ ~Idle
        /\ Work' = [Work EXCEPT !.rows[t] = (rows \ {old}) \cup {row}] /\ Promised!Lawful(Work')
        /\ t \in DOMAIN Work.rows /\ Work.rows[t] = rows
        /\ Work'.rows[t] = (rows \ {old}) \cup {row}
    BY <1>1, <2>2, WroteViews
  <2>4. Promised!WriteRows(t, (Work.rows[t] \ {old}) \cup {[old EXCEPT !.vals = row.vals]})
    BY <2>1, <2>3 DEF Promised!WriteRows, Stable, Work
  <2>5. old \in Work.rows[t] /\ old.id = row.id
    BY <2>1, <2>3
  <2>6. Promised!UpdateRow(t, row.id, row.vals)
    BY <2>4, <2>5 DEF Promised!UpdateRow, Work
  <2>7. row \in Work'.rows[t]
    BY <2>3
  <2> QED
    BY <2>3, <2>6, <2>7 DEF Promised!Next, Work
<1> QED
  BY <1>2, <1>3, UpdateRowKeeps

LEMMA DeleteRowStep ==
  ASSUME IInv, IInv', DeleteRow
  PROVE  Promised!Next
<1> DEFINE t == stmt.table
           rows == image.trees[table.root]
<1>1. mode # "failed" /\ t \in DOMAIN cat.tables /\ table.root = cat.tables[t]
  BY ItsTable DEF DeleteRow
<1>2. CASE GaveUp
  BY <1>1, <1>2, GaveUpStep
<1>3. ASSUME NEW old \in rows, Wrote(t, rows \ {old})
      PROVE  Promised!Next
  <2>1. /\ UNCHANGED <<Stable, mode, Idle>> /\ ~Idle
        /\ Work' = [Work EXCEPT !.rows[t] = rows \ {old}] /\ Promised!Lawful(Work')
        /\ t \in DOMAIN Work.rows /\ Work.rows[t] = rows
    BY <1>1, <1>3, WroteViews
  <2>2. Promised!WriteRows(t, Work.rows[t] \ {old})
    BY <2>1 DEF Promised!WriteRows, Stable, Work
  <2>3. old \in Work.rows[t]
    BY <2>1
  <2>4. Promised!DeleteRow(t, old.id)
    BY <2>2, <2>3 DEF Promised!DeleteRow, Work
  <2> QED
    BY <2>1, <2>3, <2>4 DEF Promised!Next, Work
<1> QED
  BY <1>2, <1>3, DeleteRowKeeps

LEMMA CreateTableStep ==
  ASSUME IInv, IInv', NEW t, CreateTable(t)
  PROVE  Promised!Next
<1> DEFINE c == [cat EXCEPT !.tables = With(@, t, image.next)]
           ts == With(tables, t, [root |-> image.next, nextID |-> 0, indexes |-> {}])
<1>1. mode # "failed" /\ Idle /\ t \notin DOMAIN cat.tables
  BY DEF CreateTable, Ready
<1>2. CASE Fails(Allocated, c, ts, indexes)
  BY <1>1, <1>2, FailsStep
<1>3. CASE /\ image' = [Allocated EXCEPT !.schema = c]
           /\ cat' = c /\ tables' = ts /\ indexes' = indexes
           /\ Succeed
  <2>1. PagesOK(image) /\ MemoryOK(image, cat, tables, indexes) /\ cat = image.schema
    BY <1>1 DEF IInv, MemoryOK
  <2>2. c.tables = With(cat.tables, t, image.next) /\ c.indexes = cat.indexes
    <3>1. cat = [tables |-> cat.tables, indexes |-> cat.indexes]
      BY <2>1 DEF PagesOK
    <3> QED
      BY <3>1
  <2>3. image'.trees = Allocated.trees
    BY <1>3 DEF Allocated
  <2>4. /\ Allocated.trees[image.next] = {}
        /\ \A u \in DOMAIN cat.tables : Allocated.trees[cat.tables[u]] = image.trees[cat.tables[u]]
    BY <2>1, AllocatedKeeps DEF PagesOK
  <2>5. Work = Shown(image, cat) /\ Work' = Shown(image', c)
    BY <1>1, <1>3 DEF Work, Succeed
  <2> HIDE DEF c
  <2>6. /\ Work' = [Work EXCEPT !.rows = Promised!With(@, t, {})]
        /\ t \notin DOMAIN Work.rows /\ t \in DOMAIN Work'.rows
    <3>1. \A u \in DOMAIN cat.tables : image'.trees[cat.tables[u]] = image.trees[cat.tables[u]]
      BY <2>3, <2>4
    <3>2. image'.trees[image.next] = {}
      BY <2>3, <2>4
    <3> DEFINE was == [u \in DOMAIN cat.tables |-> image.trees[cat.tables[u]]]
               is == [u \in DOMAIN c.tables |-> image'.trees[c.tables[u]]]
               ixs == [n \in DOMAIN cat.indexes |->
                        [table |-> cat.indexes[n].table, cols |-> cat.indexes[n].cols,
                         unique |-> cat.indexes[n].unique]]
    <3>3. Work = [rows |-> was, indexes |-> ixs] /\ Work' = [rows |-> is, indexes |-> ixs]
      BY <2>2, <2>5 DEF Shown
    <3>4. DOMAIN c.tables = DOMAIN cat.tables \cup {t} /\ c.tables[t] = image.next
          /\ \A u \in DOMAIN cat.tables : u # t /\ c.tables[u] = cat.tables[u]
      BY <1>1, <2>2 DEF With
    <3>5. is = Promised!With(was, t, {})
      BY <3>1, <3>2, <3>4 DEF Promised!With
    <3>6. t \notin DOMAIN was /\ t \in DOMAIN is
      BY <1>1, <3>4
    <3> HIDE DEF was, is, ixs
    <3> QED
      BY <3>3, <3>5, <3>6
  <2>7. mode' = mode /\ Idle' /\ Stable' = IF mode = "auto" THEN Work' ELSE Stable
    BY <1>1, <1>3, SucceedSettles
  <2>8. Promised!CreateTable(t)
    BY <1>1, <2>6, <2>7 DEF Promised!CreateTable, Promised!Settle, Stable, Work
  <2> QED
    BY <2>6, <2>8 DEF Promised!Next, Work
<1> QED
  BY <1>2, <1>3 DEF CreateTable, WriteSchema

LEMMA FinishCreateIndexStep ==
  ASSUME IInv, IInv', FinishCreateIndex
  PROVE  Promised!Next
<1> DEFINE n == stmt.name
           ix == indexes[n]
           def == [table |-> stmt.table, root |-> ix.root, cols |-> ix.cols, unique |-> ix.unique]
           c == [cat EXCEPT !.indexes = With(@, n, def)]
           ts == [tables EXCEPT ![stmt.table].indexes = @ \cup {ix}]
           shown == [table |-> def.table, cols |-> def.cols, unique |-> def.unique]
<1>1. mode # "failed" /\ ~Idle /\ stmt.kind = "index"
  BY DEF FinishCreateIndex, IInv, Idle, NoStmt
<1>2. PagesOK(image) /\ cat = image.schema /\ n \notin DOMAIN cat.indexes
  BY <1>1 DEF IInv, MemoryOK, TodoOK
<1>3. CASE Fails(image, c, ts, indexes)
  BY <1>1, <1>3, FailsStep
<1>4. CASE /\ image' = [image EXCEPT !.schema = c]
           /\ cat' = c /\ tables' = ts /\ indexes' = indexes
           /\ Succeed
  <2> HIDE DEF def
  <2>1. c.tables = cat.tables /\ c.indexes = With(cat.indexes, n, def)
    <3>1. cat = [tables |-> cat.tables, indexes |-> cat.indexes]
      BY <1>2 DEF PagesOK
    <3> QED
      BY <3>1
  <2>2. image'.trees = image.trees
    <3>1. image = [schema |-> image.schema, trees |-> image.trees, next |-> image.next]
      BY <1>2 DEF PagesOK
    <3> QED
      BY <1>4, <3>1
  <2>3. mode' = mode /\ Idle' /\ Stable' = IF mode = "auto" THEN Work' ELSE Stable
    BY <1>1, <1>4, SucceedSettles
  <2>4. Work = Shown(image, cat) /\ Work' = Shown(image', c)
    BY <1>1, <1>4, <2>3 DEF Work
  <2> HIDE DEF c
  <2>5. /\ Work' = [Work EXCEPT !.indexes = Promised!With(@, n, shown)]
        /\ n \notin DOMAIN Work.indexes /\ n \in DOMAIN Work'.indexes
        /\ Work'.indexes[n] = shown
    <3> DEFINE rows == [u \in DOMAIN cat.tables |-> image.trees[cat.tables[u]]]
               show(i) == [table |-> i.table, cols |-> i.cols, unique |-> i.unique]
               was == [m \in DOMAIN cat.indexes |-> show(cat.indexes[m])]
               is == [m \in DOMAIN c.indexes |-> show(c.indexes[m])]
    <3>1. Work = [rows |-> rows, indexes |-> was] /\ Work' = [rows |-> rows, indexes |-> is]
      BY <2>1, <2>2, <2>4 DEF Shown
    <3>2. DOMAIN c.indexes = DOMAIN cat.indexes \cup {n} /\ c.indexes[n] = def
          /\ \A m \in DOMAIN cat.indexes : m # n /\ c.indexes[m] = cat.indexes[m]
      BY <1>2, <2>1 DEF With
    <3>3. is = Promised!With(was, n, show(def))
      BY <3>2 DEF Promised!With
    <3>4. n \notin DOMAIN was /\ n \in DOMAIN is /\ is[n] = show(def)
      BY <1>2, <3>2
    <3> HIDE DEF rows, was, is
    <3> QED
      BY <3>1, <3>3, <3>4
  <2>6. Promised!Lawful(Work')
    <3>1. PagesOK(image') /\ cat' = image'.schema
      BY <1>1, <2>3 DEF IInv, MemoryOK
    <3> QED
      BY <1>4, <2>4, <3>1, PagesLawful
  <2>7. Promised!CreateIndex(n, Work'.indexes[n])
    BY <1>1, <2>3, <2>5, <2>6 DEF Promised!CreateIndex, Promised!Settle, Stable, Work
  <2> QED
    BY <2>5, <2>7 DEF Promised!Next, Work
<1> QED
  BY <1>3, <1>4 DEF FinishCreateIndex, WriteSchema

-----------------------------------------------------------------------------
(* The refinement.                                                         *)

LEMMA RefinementInit == Init => Promised!Init
<1> SUFFICES ASSUME Init PROVE Promised!Init
  OBVIOUS
<1>1. Shown(saved, saved.schema) = Promised!Empty /\ Shown(image, cat) = Promised!Empty
  <2>1. saved.schema.tables = << >> /\ saved.schema.indexes = << >> /\ cat = saved.schema
    BY DEF Init, NoSchema
  <2>2. DOMAIN << >> = {}
    OBVIOUS
  <2> QED
    BY <2>1, <2>2 DEF Shown, Promised!Empty
<1> QED
  BY <1>1 DEF Promised!Init, Init, Idle

LEMMA RefinementStep ==
  ASSUME IInv, IInv', [Next]_vars, "build" \notin Faults
  PROVE  [Promised!Next]_(Promised!vars)
<1>1. CASE UNCHANGED vars
  BY <1>1 DEF vars, memory, Promised!vars, Idle
<1>2. CASE Begin \/ Commit \/ Rollback \/ Reopen
  BY <1>2, TransactionStep
<1>3. CASE Rejected
  BY <1>3, RefusedStep DEF Rejected, Ready
<1>4. CASE StatementFails
  BY <1>4, FailsStep DEF StatementFails, IInv
<1>5. CASE BuildIndex
  <2>1. mode # "failed"
    BY <1>5 DEF BuildIndex, IInv, Idle, NoStmt
  <2> QED
    BY <1>5, <2>1, BuildIndexKeeps, GaveUpStep, KeptStep
<1>6. CASE InsertRow \/ UpdateRow \/ DeleteRow
  BY <1>6, InsertRowStep, UpdateRowStep, DeleteRowStep
<1>7. CASE FinishCreateIndex \/ Finish
  BY <1>7, FinishCreateIndexStep, FinishStep
<1>8. ASSUME NEW t, CreateTable(t)
      PROVE  Promised!Next
  BY <1>8, CreateTableStep
<1>9. ASSUME NEW n, NEW t, NEW cols \in ColLists, NEW unique, StartCreateIndex(n, t, cols, unique)
      PROVE  [Promised!Next]_(Promised!vars)
  BY <1>9, StartCreateIndexKeeps, KeptStep
<1>10. ASSUME NEW t, NEW rows, StartInsert(t, rows)
       PROVE  Promised!Next
  BY <1>10, StartStep DEF StartInsert
<1>11. ASSUME NEW t, NEW where, StartDelete(t, where)
       PROVE  Promised!Next
  BY <1>11, StartStep DEF StartDelete
<1>12. ASSUME NEW t, NEW where, NEW f, StartUpdate(t, where, f)
       PROVE  Promised!Next
  BY <1>12, StartStep DEF StartUpdate
<1> QED
  BY <1>1, <1>2, <1>3, <1>4, <1>5, <1>6, <1>7, <1>8, <1>9, <1>10, <1>11, <1>12 DEF Next

\* Seen through its statements the engine is the database of Relations: every
\* row a verb writes obeys the UNIQUE indexes, and an error of a statement on its
\* own, or the end of the process, leaves what was committed (engine.go:94-123).
THEOREM EngineRefines ==
  ASSUME "build" \notin Faults
  PROVE  Spec => RefinesRelations
<1>1. IInv /\ IInv' /\ [Next]_vars => [Promised!Next]_(Promised!vars)
  BY RefinementStep
<1> QED
  BY <1>1, RefinementInit, Inductive, PTL DEF Spec, RefinesRelations, Promised!Spec
=============================================================================
