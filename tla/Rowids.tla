------------------------------- MODULE Rowids -------------------------------
(***************************************************************************)
(* How storage.Table numbers its rows: nextID counts up in memory, and is  *)
(* set again from the tree whenever the table is attached, which happens   *)
(* at Open and after every ROLLBACK.                                       *)
(***************************************************************************)
EXTENDS BTree

VARIABLE nextID \* the rowid given last

tvars == <<vars, nextID>>

\* MaxRowID walks down the last child of every node.
Rightmost[p \in Nat] ==
  IF disk[p].leaf THEN p ELSE Rightmost[disk[p].cells[Last(DOMAIN disk[p].cells)]]

MaxRowID ==
  LET ids == DOMAIN disk[Rightmost[Root]].cells IN IF ids = {} THEN 0 ELSE Last(ids)

TInit == Init /\ nextID = 0

TableInsert(v) ==
  /\ nextID + 1 \in Key
  /\ nextID' = nextID + 1
  /\ Start("insert", nextID', v)

\* Rollback, then AttachTable over the restored pages.
Attach == Restore /\ nextID' = MaxRowID

TNext ==
  \/ Attach
  \/ Shared /\ UNCHANGED nextID
  \/ \E v \in Val : TableInsert(v)

TSpec == TInit /\ [][TNext]_tvars

\* A row is inserted under a rowid that no other row has.
FreshRowid == op = "insert" /\ path = <<Root>> /\ pend = {} => key \notin Keys(page)
=============================================================================
