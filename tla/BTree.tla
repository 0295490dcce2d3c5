------------------------------- MODULE BTree -------------------------------
(***************************************************************************)
(* The B+tree of internal/btree over pages of the pager: search, insert    *)
(* with its splits on the way back up, delete, update and cursors, inside  *)
(* transactions that may fail, roll back or be lost in a crash.            *)
(*                                                                         *)
(* A node is the value of one page.  Its slotted cells are a function from *)
(* keys to payloads (leaf) or to child pages (interior), walked in key     *)
(* order.  Each load of a page is a step, and so is each node changed on   *)
(* the way up: an I/O error can end the call between any two of them.      *)
(***************************************************************************)
EXTENDS Integers, Sequences, FiniteSets, FiniteSetsExt, Folds

CONSTANTS
  Key,      \* rowids, or the positions of index keys in their order
  Val,      \* payloads
  None,     \* no argument
  KeySize,  \* bytes a key takes in a leaf, its slot and length included
  ValSize,  \* bytes a payload takes
  SepSize,  \* bytes a separator takes in an interior node, child included
  Room,     \* bytes of a page after its header
  Faulty,   \* TRUE: a call of the pager may return an error
  MaxOps    \* bound: calls per transaction

ASSUME BTreeAssumption ==
  /\ Key \subseteq Int /\ Key # {}
  /\ KeySize \in [Key -> Nat] /\ SepSize \in [Key -> Nat] /\ ValSize \in [Val -> Nat]
  /\ None \notin Key \cup Val
  /\ Room \in Nat /\ MaxOps \in Nat
  /\ Faulty \in BOOLEAN

\* The first page of the tree, its root for ever.  0 stands for no page.
Root == 1

VARIABLES
  page,     \* page number -> node, as the cache shows them
  disk,     \* page number -> node, as the last commit left them
  captured, \* the pages pager.Write or Allocate has been called for
  mode,     \* "idle", "txn", or "failed": a call has returned an error
  op,       \* the call in progress
  key, val, \* its arguments
  path,     \* the pages of its recursion, root first
  pend,     \* the separators a split hands to the level above: none or one
  rest,     \* the cells the cursor has left in its leaf
  out,      \* the answer of Get, Delete, Update or Next
  ops       \* calls made in this transaction

store == <<page, disk, captured>>
args == <<key, val>>
vars == <<store, args, mode, op, path, pend, rest, out, ops>>

-----------------------------------------------------------------------------
(* Nodes.  span is history: the keys the tree sends to this page.          *)

Leaf(c, sib, s) == [leaf |-> TRUE, cells |-> c, extra |-> sib, span |-> s]
Interior(c, first, s) == [leaf |-> FALSE, cells |-> c, extra |-> first, span |-> s]

With(c, k, v) == [j \in DOMAIN c \cup {k} |-> IF j = k THEN v ELSE c[j]]
Without(c, k) == [j \in DOMAIN c \ {k} |-> c[j]]
Only(c, K) == [j \in DOMAIN c \cap K |-> c[j]]

Below(K, k) == {j \in K : j < k}
From(K, k) == {j \in K : j >= k}
Above(K, k) == {j \in K : j > k}

First(K) == CHOOSE k \in K : \A j \in K : k <= j
Last(K) == CHOOSE k \in K : \A j \in K : j <= k

\* The cell in the middle of a full node's cells and the new one.
Median(K) == CHOOSE k \in K : Cardinality(Below(K, k)) = Cardinality(K) \div 2

\* What the cells of a leaf take.
LeafSize(c) == [k \in DOMAIN c |-> KeySize[k] + ValSize[c[k]]]

Fits(size, K) == MapThenSumSet(LAMBDA k : size[k], K) <= Room
LeafFits(c) == Fits(LeafSize(c), DOMAIN c)
InteriorFits(c) == Fits(SepSize, DOMAIN c)

\* The cells c inserted into an empty node in key order.  A cell that does not
\* fit is dropped: the splits ignore what insertLeaf and insertInterior return.
Pack(c, AllFit(_)) ==
  IF AllFit(c) THEN c
  ELSE Only(c, MapThenFoldSet(
                 LAMBDA k, L : IF AllFit(Only(c, L \cup {k})) THEN L \cup {k} ELSE L,
                 {}, LAMBDA k : k, Last, DOMAIN c))
PackLeaf(c) == Pack(c, LeafFits)
PackInterior(c) == Pack(c, InteriorFits)

\* Mutant: a key equal to a separator is looked for to its left.
ChildLeft(n, k) ==
  LET seps == {s \in DOMAIN n.cells : s < k}
  IN  IF seps = {} THEN n.extra ELSE n.cells[Last(seps)]

\* The child of interior node n that key k belongs to.
ChildPage(n, k) ==
  LET seps == {s \in DOMAIN n.cells : s <= k}
  IN  IF seps = {} THEN n.extra ELSE n.cells[Last(seps)]

\* The page number pager.Allocate gives next.
NewPage == Cardinality(DOMAIN page) + 1

\* The map the leaves hold together.
Keys(pg) == UNION {DOMAIN pg[p].cells : p \in {q \in DOMAIN pg : pg[q].leaf}}
Contents(pg) ==
  [k \in Keys(pg) |-> LET p == CHOOSE q \in DOMAIN pg : pg[q].leaf /\ k \in DOMAIN pg[q].cells
                      IN  pg[p].cells[k]]

NoAnswer == [found |-> FALSE]
Found(b) == [found |-> b]
Payload(v) == [found |-> TRUE, val |-> v]
Cell(c, k) == [found |-> TRUE, key |-> k, val |-> c[k]]

-----------------------------------------------------------------------------
NoCall ==
  /\ op' = "none" /\ key' = None /\ val' = None
  /\ path' = << >> /\ pend' = {} /\ rest' = {}

Init ==
  /\ page = <<Leaf(<< >>, 0, Key)>> /\ disk = page /\ captured = {}
  /\ mode = "idle" /\ op = "none" /\ path = << >> /\ pend = {} /\ rest = {}
  /\ key = None /\ val = None
  /\ out = NoAnswer /\ ops = 0

Begin ==
  /\ mode = "idle"
  /\ mode' = "txn" /\ ops' = 0
  /\ UNCHANGED <<store, args, op, path, pend, rest, out>>

\* The pager writes the pages it was told of, and no other.
Commit ==
  /\ mode = "txn" /\ op = "none"
  /\ mode' = "idle" /\ captured' = {}
  /\ disk' = [p \in DOMAIN page |-> IF p \in captured THEN page[p] ELSE disk[p]]
  /\ UNCHANGED <<page, args, op, path, pend, rest, out, ops>>

\* Mutant: the pages of the transaction stay dirty.
RestoreDirty ==
  /\ page' = disk
  /\ mode' = "idle" /\ NoCall
  /\ UNCHANGED <<disk, captured, out, ops>>

\* ROLLBACK, or a crash and the next Open.
Restore ==
  /\ page' = disk /\ captured' = {}
  /\ mode' = "idle" /\ NoCall
  /\ UNCHANGED <<disk, out, ops>>

Start(o, k, v) ==
  /\ mode = "txn" /\ op = "none" /\ ops < MaxOps
  /\ op' = o /\ key' = k /\ val' = v /\ path' = <<Root>>
  /\ out' = NoAnswer /\ ops' = ops + 1
  /\ UNCHANGED <<store, mode, pend, rest>>

\* storage inserts only keys that are not there.
Insert(k, v) == k \notin Keys(page) /\ Start("insert", k, v)
Delete(k) == Start("delete", k, None)
Update(k, v) == Start("update", k, v)
Get(k) == Start("get", k, None)
Seek(k) == Start("seek", k, None)
Cursor == Start("first", None, None)

\* The call returns an error.  What it has changed stays until the ROLLBACK
\* that the engine does for a failed statement.
Return(m) == NoCall /\ mode' = m /\ UNCHANGED ops

-----------------------------------------------------------------------------
(* Down: one page is loaded, and the next one chosen.                      *)

Top == path[Len(path)]
node == page[Top]
AtLeaf(o) == op = o /\ pend = {} /\ node.leaf

\* insertKey refuses such a cell before it looks at the tree.
TooLarge == op = "insert" /\ KeySize[key] + ValSize[val] > Room

\* Mutant: the descent loads the same page again.
DescendStays ==
  /\ op \in {"insert", "delete", "update", "get", "seek", "first"} /\ pend = {} /\ ~node.leaf
  /\ ~TooLarge
  /\ UNCHANGED vars

Descend ==
  /\ op \in {"insert", "delete", "update", "get", "seek", "first"} /\ pend = {} /\ ~node.leaf
  /\ ~TooLarge
  /\ path' = Append(path, IF op = "first" THEN node.extra ELSE ChildPage(node, key))
  /\ UNCHANGED <<store, args, mode, op, pend, rest, out, ops>>

GetFromLeaf ==
  /\ AtLeaf("get")
  /\ out' = IF key \in DOMAIN node.cells THEN Payload(node.cells[key]) ELSE NoAnswer
  /\ Return("txn")
  /\ UNCHANGED store

\* Mutant: the pager is not told of the page before it is repacked.
DeleteUncaptured ==
  /\ AtLeaf("delete")
  /\ out' = Found(key \in DOMAIN node.cells)
  /\ page' = [page EXCEPT ![Top].cells = Without(@, key)]
  /\ Return("txn")
  /\ UNCHANGED <<disk, captured>>

DeleteFromLeaf ==
  /\ AtLeaf("delete")
  /\ out' = Found(key \in DOMAIN node.cells)
  /\ IF key \in DOMAIN node.cells
     THEN /\ captured' = captured \cup {Top}
          /\ page' = [page EXCEPT ![Top].cells = Without(@, key)]
     ELSE UNCHANGED <<page, captured>>
  /\ Return("txn")
  /\ UNCHANGED disk

\* Mutant: the row is inserted again over the one that is there.
UpdateKeepsRow ==
  /\ AtLeaf("update") /\ key \in DOMAIN node.cells
  /\ out' = Found(TRUE)
  /\ op' = "insert" /\ path' = <<Root>>
  /\ UNCHANGED <<store, args, mode, pend, rest, ops>>

\* Update deletes the row and inserts it again.
UpdateFromLeaf ==
  /\ AtLeaf("update")
  /\ out' = Found(key \in DOMAIN node.cells)
  /\ IF key \in DOMAIN node.cells
     THEN /\ captured' = captured \cup {Top}
          /\ page' = [page EXCEPT ![Top].cells = Without(@, key)]
          /\ op' = "insert" /\ path' = <<Root>>
          /\ UNCHANGED <<args, mode, pend, rest, ops>>
     ELSE /\ Return("txn")
          /\ UNCHANGED <<page, captured>>
  /\ UNCHANGED disk

InsertTooLarge ==
  /\ TooLarge
  /\ Return("failed")
  /\ UNCHANGED <<store, out>>

InsertInLeaf ==
  /\ AtLeaf("insert") /\ ~TooLarge
  /\ LeafFits(With(node.cells, key, val))
  /\ captured' = captured \cup {Top}
  /\ page' = [page EXCEPT ![Top].cells = With(@, key, val)]
  /\ Return("txn")
  /\ UNCHANGED <<disk, out>>

-----------------------------------------------------------------------------
(* Up: a split hands a separator and the new page to the level above.      *)

\* n becomes left, a new page holds right, and the level above must be told.
Split(sep, left, right) ==
  /\ page' = With([page EXCEPT ![Top] = left], NewPage, right)
  /\ captured' = captured \cup {Top, NewPage}
  /\ pend' = {[sep |-> sep, page |-> NewPage]}
  /\ path' = SubSeq(path, 1, Len(path) - 1)
  /\ UNCHANGED <<disk, args, mode, op, rest, out, ops>>

SplitLeaf ==
  /\ AtLeaf("insert") /\ ~TooLarge
  /\ LET all == With(node.cells, key, val)
         sep == Median(DOMAIN all)
     IN  /\ ~LeafFits(all)
         /\ Split(sep, Leaf(PackLeaf(Only(all, Below(DOMAIN all, sep))), NewPage,
                            Below(node.span, sep)),
                       Leaf(PackLeaf(Only(all, From(DOMAIN all, sep))), node.extra,
                            From(node.span, sep)))

InsertInParent ==
  /\ op = "insert" /\ path # << >>
  /\ \E s \in pend :
       /\ InteriorFits(With(node.cells, s.sep, s.page))
       /\ page' = [page EXCEPT ![Top].cells = With(@, s.sep, s.page)]
  /\ captured' = captured \cup {Top}
  /\ Return("txn")
  /\ UNCHANGED <<disk, out>>

\* The median separator moves up, and its child is the right node's first.
SplitInterior ==
  /\ op = "insert" /\ path # << >>
  /\ \E s \in pend :
       LET all == With(node.cells, s.sep, s.page)
           sep == Median(DOMAIN all)
       IN  /\ ~InteriorFits(all)
           /\ Split(sep, Interior(PackInterior(Only(all, Below(DOMAIN all, sep))),
                                  node.extra, Below(node.span, sep)),
                         Interior(PackInterior(Only(all, Above(DOMAIN all, sep))),
                                  all[sep], From(node.span, sep)))

\* Mutant: the page that takes over the root's content is made a leaf.
GrowRootLeaf ==
  /\ op = "insert" /\ path = << >>
  /\ \E s \in pend :
       page' = With([page EXCEPT ![Root] = Interior(With(<< >>, s.sep, s.page), NewPage, Key)],
                    NewPage, [page[Root] EXCEPT !.leaf = TRUE])
  /\ captured' = captured \cup {Root, NewPage}
  /\ Return("txn")
  /\ UNCHANGED <<disk, out>>

\* The root keeps its page: its content moves to a new one.
GrowRoot ==
  /\ op = "insert" /\ path = << >>
  /\ \E s \in pend :
       page' = With([page EXCEPT ![Root] = Interior(With(<< >>, s.sep, s.page), NewPage, Key)],
                    NewPage, page[Root])
  /\ captured' = captured \cup {Root, NewPage}
  /\ Return("txn")
  /\ UNCHANGED <<disk, out>>

-----------------------------------------------------------------------------
(* Cursors.                                                                *)

SeekInLeaf ==
  /\ AtLeaf("seek") \/ AtLeaf("first")
  /\ rest' = IF op = "first" THEN DOMAIN node.cells ELSE From(DOMAIN node.cells, key)
  /\ op' = "scan"
  /\ UNCHANGED <<store, args, mode, path, pend, out, ops>>

NextCell ==
  /\ op = "scan" /\ rest # {}
  /\ out' = Cell(node.cells, First(rest))
  /\ rest' = rest \ {First(rest)}
  /\ UNCHANGED <<store, args, mode, op, path, pend, ops>>

\* Past the last cell the cursor moves on, and over empty leaves.
NextLeaf ==
  /\ op = "scan" /\ rest = {} /\ node.extra # 0
  /\ path' = <<node.extra>>
  /\ rest' = DOMAIN page[node.extra].cells
  /\ UNCHANGED <<store, args, mode, op, pend, out, ops>>

NextEnd ==
  /\ op = "scan" /\ rest = {} /\ node.extra = 0
  /\ out' = NoAnswer
  /\ UNCHANGED <<store, args, mode, op, path, pend, rest, ops>>

CloseCursor ==
  /\ op = "scan"
  /\ out' = NoAnswer
  /\ Return("txn")
  /\ UNCHANGED store

\* The pager returns an error: from Get on the way down or along the leaves,
\* from Write before a node is changed.
Fail ==
  /\ Faulty /\ op # "none"
  /\ Return("failed")
  /\ UNCHANGED <<store, out>>

-----------------------------------------------------------------------------
Working ==
  \/ Descend \/ GetFromLeaf \/ DeleteFromLeaf \/ UpdateFromLeaf \/ InsertTooLarge \/ InsertInLeaf
  \/ SplitLeaf \/ InsertInParent \/ SplitInterior \/ GrowRoot \/ SeekInLeaf

\* All but the two steps that a table builds on: see Rowids.
Shared ==
  \/ Begin \/ Commit \/ Cursor \/ Working
  \/ NextCell \/ NextLeaf \/ NextEnd \/ CloseCursor \/ Fail
  \/ \E k \in Key : Delete(k) \/ Get(k) \/ Seek(k) \/ \E v \in Val : Update(k, v)

Next == Shared \/ Restore \/ \E k \in Key, v \in Val : Insert(k, v)

Spec == Init /\ [][Next]_vars

\* A call that has begun is carried on, in one thread.
FairSpec == Spec /\ WF_vars(Working)

-----------------------------------------------------------------------------
Pages == DOMAIN page
Leaves == {p \in Pages : page[p].leaf}

TypeOK ==
  /\ Pages = 1 .. Cardinality(Pages) /\ DOMAIN disk \subseteq Pages /\ captured \subseteq Pages
  /\ \A p \in Pages :
       /\ page[p].leaf \in BOOLEAN /\ page[p].extra \in Pages \cup {0} /\ page[p].span \subseteq Key
       /\ page[p].cells \in [DOMAIN page[p].cells -> IF page[p].leaf THEN Val ELSE Pages]
       /\ DOMAIN page[p].cells \subseteq Key
  /\ mode \in {"idle", "txn", "failed"}
  /\ op \in {"none", "insert", "delete", "update", "get", "seek", "first", "scan"}
  /\ key \in Key \cup {None} /\ val \in Val \cup {None}
  /\ path \in Seq(Pages) /\ ops \in 0 .. MaxOps
  /\ pend \subseteq [sep : Key, page : Pages] /\ rest \subseteq Key

\* Every key is searched for in the one page that may hold it, on every level,
\* except that a key of a page just split off is still searched for to its left:
\* that is what the separator handed up will mend.
Routed ==
  /\ page[Root].span \cup UNION {page[s.page].span : s \in {t \in pend : path = << >>}} = Key
  /\ \A p \in Pages \ Leaves : \A k \in page[p].span :
       \/ k \in page[ChildPage(page[p], k)].span
       \/ path # << >> /\ p = Top /\ \E s \in pend : k >= s.sep /\ k \in page[s.page].span
  /\ \A p \in Leaves : DOMAIN page[p].cells \subseteq page[p].span
  /\ \A p, q \in Leaves : p # q => page[p].span \cap page[q].span = {}

\* The leaves are chained in key order, from the one with the least keys on.
Chained ==
  \A p \in Leaves :
    LET later == {k \in Key : \A j \in page[p].span : j < k}
        q == page[p].extra
    IN  IF q = 0 THEN later = {}
        ELSE q \in Leaves /\ page[q].span # {} /\ First(page[q].span) = First(later)

TreeInv == mode # "failed" => Routed /\ Chained

\* All leaves are on one level.
Height[p \in Pages] == IF page[p].leaf THEN 0 ELSE 1 + Height[page[p].extra]
Balanced ==
  \A p \in Pages \ Leaves : \A k \in DOMAIN page[p].cells :
    Height[page[p].cells[k]] = Height[page[p].extra]

\* The tree, with its splits, its rollbacks and the pages the pager wrote for
\* it, implements the ordered map.
Ordered == INSTANCE OrderedMap WITH
  stable <- Contents(disk), work <- Contents(page),
  todo <- IF op = "scan"
          THEN rest \cup {k \in Keys(page) : \A j \in node.span : j < k} ELSE {}

RefinesMap == Ordered!Spec

\* An insert that goes on or succeeds has lost no key, and has added its own: a
\* split keeps every cell (splitLeaf and splitInterior, btree.go:159-231).
KeysStay ==
  [][op = "insert" /\ mode' = "txn" =>
       /\ Keys(page) \subseteq Keys(page')
       /\ op' = "none" \/ pend' # {} => key \in Keys(page')]_vars

\* Every call comes to an end, whatever splits it causes.
CallsReturn == op \notin {"none", "scan"} ~> op \in {"none", "scan"}
=============================================================================
