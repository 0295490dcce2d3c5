-------------------------- MODULE BTreeRefinement --------------------------
(***************************************************************************)
(* The B+tree of internal/btree implements the ordered map of OrderedMap,  *)
(* and its splits lose no cell, when the halves of a full node fit.        *)
(***************************************************************************)
EXTENDS BTreeProofs

-----------------------------------------------------------------------------
(* The map a tree holds.                                                   *)

\* A leaf has the cell of k, with payload v.
Has(t, k, v) == \E p \in Outer(t) : k \in DOMAIN t[p].cells /\ t[p].cells[k] = v

\* No key is in two leaves.
Apart(t) == \A p, q \in Outer(t) : p # q => DOMAIN t[p].cells \cap DOMAIN t[q].cells = {}

LEMMA ContentsIs ==
  ASSUME NEW t, Apart(t)
  PROVE  /\ Contents(t) = [k \in Keys(t) |-> Contents(t)[k]] /\ DOMAIN Contents(t) = Keys(t)
         /\ \A k : k \in Keys(t) <=> Has(t, k, Contents(t)[k])
         /\ \A k, v : Has(t, k, v) <=> k \in Keys(t) /\ Contents(t)[k] = v
<1> DEFINE at(k) == CHOOSE q \in DOMAIN t : t[q].leaf /\ k \in DOMAIN t[q].cells
<1>1. Contents(t) = [k \in Keys(t) |-> t[at(k)].cells[k]]
  BY DEF Contents
<1>2. \A k : k \in Keys(t) <=> \E q \in Outer(t) : k \in DOMAIN t[q].cells
  BY DEF Keys, Outer
<1>3. ASSUME NEW k, NEW p \in Outer(t), k \in DOMAIN t[p].cells
      PROVE  k \in Keys(t) /\ Contents(t)[k] = t[p].cells[k]
  <2>1. at(k) \in Outer(t) /\ k \in DOMAIN t[at(k)].cells
    BY <1>3 DEF Outer
  <2> HIDE DEF at
  <2>2. at(k) = p
    BY <1>3, <2>1 DEF Apart
  <2> QED
    BY <1>1, <1>2, <1>3, <2>2
<1> HIDE DEF at
<1>4. \A k, v : Has(t, k, v) => k \in Keys(t) /\ Contents(t)[k] = v
  BY <1>3 DEF Has
<1>5. \A k \in Keys(t) : Has(t, k, Contents(t)[k])
  BY <1>2, <1>3 DEF Has
<1>6. Contents(t) = [k \in Keys(t) |-> Contents(t)[k]] /\ DOMAIN Contents(t) = Keys(t)
  BY <1>1
<1> QED
  BY <1>4, <1>5, <1>6

\* u holds what t holds, and v under k.
LEMMA ContentsAdded ==
  ASSUME NEW t, Apart(t), NEW u, Apart(u), NEW k, NEW v, k \notin Keys(t),
         \A j, w : Has(u, j, w) <=> Has(t, j, w) \/ (j = k /\ w = v)
  PROVE  Contents(u) = Ordered!With(Contents(t), k, v) /\ Keys(u) = Keys(t) \cup {k}
<1> DEFINE c == Contents(t)
           d == Contents(u)
<1>1. /\ d = [j \in Keys(u) |-> d[j]] /\ DOMAIN c = Keys(t)
      /\ \A j : j \in Keys(t) <=> Has(t, j, c[j])
      /\ \A j, w : Has(t, j, w) <=> j \in Keys(t) /\ c[j] = w
      /\ \A j : j \in Keys(u) <=> Has(u, j, d[j])
      /\ \A j, w : Has(u, j, w) <=> j \in Keys(u) /\ d[j] = w
  BY ContentsIs
<1> HIDE DEF c, d
<1>2. ASSUME NEW j PROVE j \in Keys(u) <=> j \in Keys(t) \cup {k}
  BY <1>1
<1>3. ASSUME NEW j \in Keys(u) PROVE d[j] = IF j = k THEN v ELSE c[j]
  BY <1>1, <1>2
<1>4. Keys(u) = Keys(t) \cup {k}
  BY <1>2
<1>5. d = [j \in DOMAIN c \cup {k} |-> IF j = k THEN v ELSE c[j]]
  BY <1>1, <1>3, <1>4
<1> QED
  BY <1>4, <1>5 DEF Ordered!With, c, d

\* u holds what t holds, but for k.
LEMMA ContentsRemoved ==
  ASSUME NEW t, Apart(t), NEW u, Apart(u), NEW k,
         \A j, w : Has(u, j, w) <=> Has(t, j, w) /\ j # k
  PROVE  Contents(u) = Ordered!Without(Contents(t), k) /\ Keys(u) = Keys(t) \ {k}
<1> DEFINE c == Contents(t)
           d == Contents(u)
<1>1. /\ d = [j \in Keys(u) |-> d[j]] /\ DOMAIN c = Keys(t)
      /\ \A j : j \in Keys(t) <=> Has(t, j, c[j])
      /\ \A j, w : Has(t, j, w) <=> j \in Keys(t) /\ c[j] = w
      /\ \A j : j \in Keys(u) <=> Has(u, j, d[j])
      /\ \A j, w : Has(u, j, w) <=> j \in Keys(u) /\ d[j] = w
  BY ContentsIs
<1> HIDE DEF c, d
<1>2. ASSUME NEW j PROVE j \in Keys(u) <=> j \in Keys(t) \ {k}
  BY <1>1
<1>3. ASSUME NEW j \in Keys(u) PROVE d[j] = c[j]
  BY <1>1, <1>2
<1>4. Keys(u) = Keys(t) \ {k}
  BY <1>2
<1>5. d = [j \in DOMAIN c \ {k} |-> c[j]]
  BY <1>1, <1>3, <1>4
<1> QED
  BY <1>4, <1>5 DEF Ordered!Without, c, d

\* u holds what t holds.
LEMMA ContentsSame ==
  ASSUME NEW t, Apart(t), NEW u, Apart(u), \A j, w : Has(u, j, w) <=> Has(t, j, w)
  PROVE  Contents(u) = Contents(t) /\ Keys(u) = Keys(t)
<1> DEFINE c == Contents(t)
           d == Contents(u)
<1>1. /\ d = [j \in Keys(u) |-> d[j]] /\ c = [j \in Keys(t) |-> c[j]]
      /\ \A j : j \in Keys(t) <=> Has(t, j, c[j])
      /\ \A j, w : Has(t, j, w) <=> j \in Keys(t) /\ c[j] = w
      /\ \A j : j \in Keys(u) <=> Has(u, j, d[j])
      /\ \A j, w : Has(u, j, w) <=> j \in Keys(u) /\ d[j] = w
  BY ContentsIs
<1> HIDE DEF c, d
<1>2. ASSUME NEW j PROVE j \in Keys(u) <=> j \in Keys(t)
  BY <1>1
<1>3. ASSUME NEW j \in Keys(u) PROVE d[j] = c[j]
  BY <1>1, <1>2
<1>4. Keys(u) = Keys(t)
  BY <1>2
<1>5. d = c
  BY <1>1, <1>3, <1>4
<1> QED
  BY <1>4, <1>5 DEF c, d

\* The leaves of a tree whose keys are routed have no key in common.
LEMMA ApartNow ==
  ASSUME Routed
  PROVE  Apart(page)
<1>1. Leaves = Outer(page)
  BY DEF Leaves, Pages, Outer
<1>2. /\ \A p \in Outer(page) : DOMAIN page[p].cells \subseteq page[p].span
      /\ \A p, q \in Outer(page) : p # q => page[p].span \cap page[q].span = {}
  BY <1>1 DEF Routed
<1> QED
  BY <1>2 DEF Apart

\* A key is in no other leaf than the one whose span it is in.
LEMMA KeysAt ==
  ASSUME Routed, NEW p \in Outer(page), NEW k \in page[p].span
  PROVE  /\ k \in Keys(page) <=> k \in DOMAIN page[p].cells
         /\ \A v : Has(page, k, v) <=> k \in DOMAIN page[p].cells /\ page[p].cells[k] = v
<1>1. Leaves = Outer(page)
  BY DEF Leaves, Pages, Outer
<1>2. \A q \in Outer(page) : k \in DOMAIN page[q].cells => q = p
  BY <1>1 DEF Routed
<1> QED
  BY <1>2 DEF Has, Keys, Outer

LEMMA KeysOf ==
  ASSUME NEW t
  PROVE  \A k : k \in Keys(t) <=> \E p \in Outer(t) : k \in DOMAIN t[p].cells
BY DEF Keys, Outer

-----------------------------------------------------------------------------
(* What a step does to the map.                                            *)

\* The cell of k in cells c has payload v; another leaf than p has such a cell.
In(c, k, v) == k \in DOMAIN c /\ c[k] = v
Elsewhere(t, p, k, v) == \E q \in Outer(t) : q # p /\ In(t[q].cells, k, v)

LEMMA HasIn ==
  ASSUME NEW t, NEW p \in Outer(t)
  PROVE  \A k, v : Has(t, k, v) <=> In(t[p].cells, k, v) \/ Elsewhere(t, p, k, v)
BY DEF Has, In, Elsewhere

LEMMA HasWritten ==
  ASSUME NEW t, NEW p \in Outer(t), NEW n, n.leaf = TRUE, NEW u, u = With(t, p, n)
  PROVE  \A k, v : Has(u, k, v) <=> In(n.cells, k, v) \/ Elsewhere(t, p, k, v)
<1>1. p \in Outer(u) /\ u[p] = n
  BY DEF With, Outer
<1>2. \A q : q \in Outer(u) /\ q # p <=> q \in Outer(t) /\ q # p
  BY DEF With, Outer
<1>3. \A q \in Outer(t) : q # p => u[q] = t[q]
  BY DEF With, Outer
<1>4. \A k, v : Elsewhere(u, p, k, v) <=> Elsewhere(t, p, k, v)
  BY <1>2, <1>3 DEF Elsewhere
<1> QED
  BY <1>1, <1>4, HasIn

\* n is a leaf with cells c.
Holds(n, c) == n.leaf = TRUE /\ n.cells = c

LEMMA HasHalves ==
  ASSUME NEW t, NEW p \in Outer(t), NEW r, r \notin DOMAIN t, NEW left, NEW cl, Holds(left, cl),
         NEW right, NEW cr, Holds(right, cr), NEW u, u = With(With(t, p, left), r, right)
  PROVE  \A k, v : Has(u, k, v) <=> In(cl, k, v) \/ In(cr, k, v) \/ Elsewhere(t, p, k, v)
<1>0. left.leaf = TRUE /\ left.cells = cl /\ right.leaf = TRUE /\ right.cells = cr
  BY DEF Holds
<1>1. r # p
  BY DEF Outer
<1>2. p \in Outer(u) /\ u[p] = left /\ r \in Outer(u) /\ u[r] = right
  BY <1>0, <1>1 DEF With, Outer
<1>3. \A q : q \in Outer(u) /\ q # p /\ q # r <=> q \in Outer(t) /\ q # p
  BY DEF With, Outer
<1>4. \A q \in Outer(t) : q # p => u[q] = t[q]
  BY DEF With, Outer
<1>5. \A k, v : Elsewhere(u, p, k, v) <=> In(cr, k, v) \/ Elsewhere(t, p, k, v)
  BY <1>0, <1>1, <1>2, <1>3, <1>4 DEF Elsewhere
<1>6. \A k, v : Has(u, k, v) <=> In(u[p].cells, k, v) \/ Elsewhere(u, p, k, v)
  BY <1>2, HasIn
<1> QED
  BY <1>0, <1>2, <1>5, <1>6

\* Interior nodes hold nothing of the map.
Inward(n) == n.leaf = FALSE

LEMMA HasOutside ==
  ASSUME NEW t, NEW u, Outer(u) = Outer(t), \A p \in Outer(t) : u[p] = t[p]
  PROVE  \A k, v : Has(u, k, v) <=> Has(t, k, v)
BY DEF Has

LEMMA HasGrown ==
  ASSUME NEW t, Root \in DOMAIN t, NEW r, r \notin DOMAIN t, NEW n, Inward(n),
         NEW m, m = t[Root], NEW u, u = With(With(t, Root, n), r, m)
  PROVE  \A k, v : Has(u, k, v) <=> Has(t, k, v)
<1> DEFINE f == [p \in DOMAIN t |-> IF p = Root THEN r ELSE p]
<1>1. r # Root
  OBVIOUS
<1>2. u[Root] = n /\ u[r] = t[Root] /\ (\A p \in DOMAIN t : p # Root => u[p] = t[p])
      /\ DOMAIN u = DOMAIN t \cup {r}
  BY <1>1 DEF With
<1>3. \A p \in Outer(t) : f[p] \in Outer(u) /\ u[f[p]] = t[p]
  BY <1>1, <1>2 DEF Outer, Inward
<1>4. \A q \in Outer(u) : \E p \in Outer(t) : u[q] = t[p]
  BY <1>1, <1>2 DEF Outer, Inward
<1> HIDE DEF f
<1>5. ASSUME NEW k, NEW v PROVE Has(u, k, v) <=> Has(t, k, v)
  BY <1>3, <1>4 DEF Has
<1> QED
  BY <1>5

\* Cells written, removed, and taken apart at a key.
LEMMA InWith ==
  ASSUME NEW c, NEW k, NEW v
  PROVE  \A j, w : In(With(c, k, v), j, w) <=> (j # k /\ In(c, j, w)) \/ (j = k /\ w = v)
BY DEF In, With

LEMMA InWithout ==
  ASSUME NEW c, NEW k
  PROVE  \A j, w : In(Without(c, k), j, w) <=> j # k /\ In(c, j, w)
BY DEF In, Without

LEMMA InParts ==
  ASSUME NEW c, DOMAIN c \in SUBSET Int, NEW k \in Int
  PROVE  \A j, w : In(c, j, w) <=> \/ In(Only(c, Below(DOMAIN c, k)), j, w)
                                  \/ In(Only(c, From(DOMAIN c, k)), j, w)
<1> DEFINE b == Below(DOMAIN c, k)
           a == From(DOMAIN c, k)
<1>1. \A j : j \in DOMAIN c <=> j \in DOMAIN c /\ (j \in b \/ j \in a)
  BY Parts
<1> HIDE DEF a, b
<1>2. \A j : /\ j \in DOMAIN Only(c, b) <=> j \in DOMAIN c /\ j \in b
             /\ j \in DOMAIN Only(c, a) <=> j \in DOMAIN c /\ j \in a
  BY DEF Only
<1>3. \A j : /\ j \in DOMAIN Only(c, b) => Only(c, b)[j] = c[j]
             /\ j \in DOMAIN Only(c, a) => Only(c, a)[j] = c[j]
  BY OnlyIs
<1> QED
  BY <1>1, <1>2, <1>3 DEF In, a, b

\* What must hold of the halves of a full leaf: they fit.
LeavesFit ==
  \A K \in SUBSET Key : \A c \in [K -> Val], k \in K :
    /\ IsFiniteSet(K) /\ LeafFits(Without(c, k)) /\ KeySize[k] + ValSize[c[k]] <= Room
    => LeafFits(Only(c, Below(K, Median(K)))) /\ LeafFits(Only(c, From(K, Median(K))))

LeavesIn(t) == \A p \in Outer(t) : LeafFits(t[p].cells)

\* The call in progress: the key of an insert is not in the tree until its cell
\* is written, the first leaf has nothing before it, and the cursor's cells are
\* those of its leaf.
CallMap ==
  /\ op = "insert" => (key \in Keys(page) <=> pend # {})
  /\ op = "first" => \A j \in node.span, k \in Key : k <= j => k \in node.span
  /\ op = "scan" => rest \subseteq DOMAIN node.cells

MapInv == LeavesIn(disk) /\ LeavesIn(page) /\ CallMap

\* The place of a call that works on one leaf.
LEMMA AtLeafIs ==
  ASSUME TypeInv, Shaped, op \notin {"none", "scan"}, pend = {}, node.leaf
  PROVE  /\ path # << >> /\ Top \in Outer(page) /\ node = page[Top] /\ WellFormed(page) /\ Routed
         /\ op # "first" => key \in Key /\ key \in node.span
         /\ IsCells(node.cells, Val) /\ mode = "txn"
<1>1. path # << >> /\ mode = "txn"
  BY DEF TypeInv, PathTypes, CallInv
<1>2. Top \in Outer(page) /\ node = page[Top] /\ Len(path) \in 1 .. Len(path) /\ IsCells(node.cells, Val)
      /\ node.span \subseteq Key
  BY <1>1, TopIs DEF Outer, Pages
<1>3. WellFormed(page) /\ Routed
  BY WholeTree DEF Shaped
<1>4. op # "first" => key \in node.span
  BY <1>1, <1>2 DEF Shaped, PathInv, Top, node
<1> QED
  BY <1>1, <1>2, <1>3, <1>4

\* The leaf p that key k belongs to, with and without a cell for it.
Spot(p, k) == p \in Outer(page) /\ k \in page[p].span
LeafMore(p, k, v) == Leaf(With(page[p].cells, k, v), page[p].extra, page[p].span)
LeafLess(p, k) == Leaf(Without(page[p].cells, k), page[p].extra, page[p].span)

LEMMA NotElsewhere ==
  ASSUME Routed, NEW p, NEW k, Spot(p, k)
  PROVE  \A w : ~Elsewhere(page, p, k, w)
<1>1. Leaves = Outer(page)
  BY DEF Leaves, Pages, Outer
<1>2. \A q \in Outer(page) : k \in DOMAIN page[q].cells => q = p
  BY <1>1 DEF Routed, Spot
<1> QED
  BY <1>2 DEF Elsewhere, In

\* A cell is taken out of a leaf.
LEMMA HasLess ==
  ASSUME Routed, NEW p, NEW k, Spot(p, k), NEW u, u = With(page, p, LeafLess(p, k))
  PROVE  \A j, w : Has(u, j, w) <=> Has(page, j, w) /\ j # k
<1> DEFINE c == Without(page[p].cells, k)
<1>1. LeafLess(p, k).leaf = TRUE /\ LeafLess(p, k).cells = c /\ p \in Outer(page)
  BY DEF LeafLess, Leaf, Spot
<1>2. \A j, w : In(c, j, w) <=> j # k /\ In(page[p].cells, j, w)
  BY InWithout
<1> HIDE DEF c
<1>3. \A j, w : Has(page, j, w) <=> In(page[p].cells, j, w) \/ Elsewhere(page, p, j, w)
  BY <1>1, HasIn
<1> DEFINE n == LeafLess(p, k)
<1>4. n.leaf = TRUE /\ u = With(page, p, n) /\ p \in Outer(page) /\ n.cells = c
  BY <1>1
<1> HIDE DEF n
<1>5. \A j, w : Has(u, j, w) <=> In(n.cells, j, w) \/ Elsewhere(page, p, j, w)
  BY <1>4, HasWritten
<1>6. \A j, w : Has(u, j, w) <=> In(c, j, w) \/ Elsewhere(page, p, j, w)
  BY <1>4, <1>5
<1> QED
  BY <1>2, <1>3, <1>6, NotElsewhere

\* A cell is written into a leaf, in a tree without its key.
LEMMA HasMore ==
  ASSUME Routed, NEW p, NEW k, Spot(p, k), k \notin Keys(page), NEW v,
         NEW u, u = With(page, p, LeafMore(p, k, v))
  PROVE  \A j, w : Has(u, j, w) <=> Has(page, j, w) \/ (j = k /\ w = v)
<1> DEFINE c == With(page[p].cells, k, v)
<1>1. LeafMore(p, k, v).leaf = TRUE /\ LeafMore(p, k, v).cells = c /\ p \in Outer(page)
  BY DEF LeafMore, Leaf, Spot
<1>2. \A j, w : In(c, j, w) <=> (j # k /\ In(page[p].cells, j, w)) \/ (j = k /\ w = v)
  BY InWith
<1>3. \A w : ~Has(page, k, w)
  BY <1>1, KeysAt DEF Spot
<1> HIDE DEF c
<1>4. \A j, w : Has(page, j, w) <=> In(page[p].cells, j, w) \/ Elsewhere(page, p, j, w)
  BY <1>1, HasIn
<1> DEFINE n == LeafMore(p, k, v)
<1>5. n.leaf = TRUE /\ u = With(page, p, n) /\ p \in Outer(page) /\ n.cells = c
  BY <1>1
<1> HIDE DEF n
<1>6. \A j, w : Has(u, j, w) <=> In(n.cells, j, w) \/ Elsewhere(page, p, j, w)
  BY <1>5, HasWritten
<1>7. \A j, w : Has(u, j, w) <=> In(c, j, w) \/ Elsewhere(page, p, j, w)
  BY <1>5, <1>6
<1> QED
  BY <1>2, <1>3, <1>4, <1>7, NotElsewhere

-----------------------------------------------------------------------------
(* Steps that write.                                                       *)

LEMMA WithoutFits ==
  ASSUME NEW c, IsCells(c, Val), LeafFits(c), NEW k \in DOMAIN c
  PROVE  LeafFits(Without(c, k))
<1> DEFINE d == Without(c, k)
           S == DOMAIN c \ {k}
<1>1. IsFiniteSet(DOMAIN c) /\ \A j \in DOMAIN c : LeafSize(c)[j] \in Nat
  BY BTreeAssumption DEF IsCells, LeafSize
<1>2. Fits(LeafSize(c), S)
  BY <1>1, FitsWithout DEF LeafFits
<1>3. DOMAIN d = S /\ \A j \in S : LeafSize(d)[j] = LeafSize(c)[j]
  BY DEF Without, LeafSize
<1>4. IsFiniteSet(S)
  BY <1>1, FS_Subset
<1> HIDE DEF d, S
<1>5. Total(LeafSize(d), S) = Total(LeafSize(c), S)
  BY <1>3, <1>4, TotalAgrees
<1> QED
  BY <1>2, <1>3, <1>5 DEF LeafFits, Fits, Total, d

\* The leaves of a tree with one of them written.
LEMMA LeavesWritten ==
  ASSUME NEW t, LeavesIn(t), NEW p \in Outer(t), NEW n, n.leaf = TRUE, LeafFits(n.cells),
         NEW u, u = With(t, p, n)
  PROVE  LeavesIn(u)
<1>1. u[p] = n /\ \A q \in Outer(u) : q # p => q \in Outer(t) /\ u[q] = t[q]
  BY DEF With, Outer
<1> QED
  BY <1>1 DEF LeavesIn

LEMMA InsertMap ==
  ASSUME TypeInv, Shaped, MapInv, Apart(page'), InsertInLeaf
  PROVE  /\ Contents(page') = Ordered!With(Contents(page), key, val) /\ LeavesIn(page')
         /\ key \notin Keys(page) /\ key \in Keys(page') /\ Keys(page) \subseteq Keys(page')
<1>1. op = "insert" /\ pend = {} /\ node.leaf /\ LeafFits(With(node.cells, key, val))
  BY DEF InsertInLeaf, AtLeaf
<1>2. /\ path # << >> /\ Top \in Outer(page) /\ node = page[Top] /\ Routed /\ key \in node.span
      /\ key \notin Keys(page)
  BY <1>1, AtLeafIs DEF MapInv, CallMap
<1>3. PICK u : u = page'
  OBVIOUS
<1>4. u = With(page, Top, LeafMore(Top, key, val)) /\ Spot(Top, key)
  BY <1>2, <1>3, PageSteps DEF LeafMore, Spot
<1>5. \A j, w : Has(u, j, w) <=> Has(page, j, w) \/ (j = key /\ w = val)
  BY <1>2, <1>4, HasMore
<1>6. Contents(u) = Ordered!With(Contents(page), key, val) /\ Keys(u) = Keys(page) \cup {key}
  BY <1>2, <1>3, <1>5, ApartNow, ContentsAdded
<1>7. LeavesIn(u)
  <2>1. LeafMore(Top, key, val).leaf = TRUE /\ LeafFits(LeafMore(Top, key, val).cells)
    BY <1>1, <1>2 DEF LeafMore, Leaf
  <2> QED
    BY <1>2, <1>4, <2>1, LeavesWritten DEF MapInv
<1> QED
  BY <1>2, <1>3, <1>6, <1>7

LEMMA DeleteMap ==
  ASSUME TypeInv, Shaped, MapInv, Apart(page'), DeleteFromLeaf \/ UpdateFromLeaf
  PROVE  /\ Contents(page') = Ordered!Without(Contents(page), key) /\ LeavesIn(page')
         /\ key \notin Keys(page') /\ out' = [found |-> key \in DOMAIN Contents(page)]
         /\ key \in Key /\ mode = "txn"
<1>1. op \in {"delete", "update"} /\ pend = {} /\ node.leaf
  BY DEF DeleteFromLeaf, UpdateFromLeaf, AtLeaf
<1>2. /\ path # << >> /\ Top \in Outer(page) /\ node = page[Top] /\ Routed /\ key \in node.span
      /\ IsCells(node.cells, Val) /\ key \in Key /\ mode = "txn"
  BY <1>1, AtLeafIs
<1>3. PICK u : u = page'
  OBVIOUS
<1>4. Apart(page) /\ Apart(u)
  BY <1>2, <1>3, ApartNow
<1>5. key \in Keys(page) <=> key \in DOMAIN node.cells
  BY <1>2, KeysAt
<1>6. LeavesIn(u) /\ \A j, w : Has(u, j, w) <=> Has(page, j, w) /\ j # key
  <2>1. CASE key \in DOMAIN node.cells
    <3>1. u = With(page, Top, LeafLess(Top, key)) /\ Spot(Top, key)
      BY <1>2, <1>3, <2>1, PageSteps DEF LeafLess, Spot
    <3>2. LeafFits(Without(node.cells, key))
      BY <1>2, <2>1, WithoutFits DEF MapInv, LeavesIn
    <3>3. LeavesIn(u)
      <4>1. LeafLess(Top, key).leaf = TRUE /\ LeafFits(LeafLess(Top, key).cells)
        BY <1>2, <3>2 DEF LeafLess, Leaf
      <4> QED
        BY <1>2, <3>1, <4>1, LeavesWritten DEF MapInv
    <3>4. \A j, w : Has(u, j, w) <=> Has(page, j, w) /\ j # key
      BY <1>2, <3>1, HasLess
    <3> QED
      BY <3>3, <3>4
  <2>2. CASE key \notin DOMAIN node.cells
    <3>1. u = page
      BY <1>2, <1>3, <2>2, PageSteps
    <3>2. \A w : ~Has(page, key, w)
      BY <1>2, <2>2, KeysAt
    <3> QED
      BY <3>1, <3>2 DEF MapInv
  <2> QED
    BY <2>1, <2>2
<1>7. Contents(u) = Ordered!Without(Contents(page), key) /\ Keys(u) = Keys(page) \ {key}
  BY <1>4, <1>6, ContentsRemoved
<1>8. DOMAIN Contents(page) = Keys(page)
  BY <1>4, ContentsIs
<1>9. out' = [found |-> key \in DOMAIN Contents(page)]
  BY <1>5, <1>8 DEF DeleteFromLeaf, UpdateFromLeaf, Found
<1> QED
  BY <1>2, <1>3, <1>6, <1>7, <1>9

\* A leaf in two halves, with a new cell in one of them.
LEMMA HasSplit ==
  ASSUME Routed, NEW p, NEW k, Spot(p, k), k \notin Keys(page), NEW v,
         NEW all, all = With(page[p].cells, k, v), DOMAIN all \in SUBSET Int, NEW sep \in Int,
         NEW r, r \notin DOMAIN page, NEW left, NEW right,
         NEW cl, cl = Only(all, Below(DOMAIN all, sep)), Holds(left, cl),
         NEW cr, cr = Only(all, From(DOMAIN all, sep)), Holds(right, cr),
         NEW u, u = With(With(page, p, left), r, right)
  PROVE  \A j, w : Has(u, j, w) <=> Has(page, j, w) \/ (j = k /\ w = v)
<1>1. \A j, w : In(all, j, w) <=> (j # k /\ In(page[p].cells, j, w)) \/ (j = k /\ w = v)
  BY InWith
<1>2. \A w : ~Has(page, k, w)
  BY KeysAt DEF Spot
<1>3. p \in Outer(page)
  BY DEF Spot
<1>4. \A j, w : Has(page, j, w) <=> In(page[p].cells, j, w) \/ Elsewhere(page, p, j, w)
  BY <1>3, HasIn
<1>5. \A j, w : Has(u, j, w) <=> In(cl, j, w) \/ In(cr, j, w) \/ Elsewhere(page, p, j, w)
  BY <1>3, HasHalves
<1>6. \A j, w : In(all, j, w) <=> In(cl, j, w) \/ In(cr, j, w)
  BY InParts
<1>7. \A j, w : Has(u, j, w) <=> In(all, j, w) \/ Elsewhere(page, p, j, w)
  BY <1>5, <1>6
<1> QED
  BY <1>1, <1>2, <1>4, <1>7, NotElsewhere

LEMMA LeavesHalved ==
  ASSUME NEW t, LeavesIn(t), NEW p, NEW left, LeafFits(left.cells), NEW r,
         NEW right, LeafFits(right.cells), NEW u, u = With(With(t, p, left), r, right)
  PROVE  LeavesIn(u)
<1>1. \A q \in Outer(u) : \/ u[q] = left \/ u[q] = right
                          \/ q \in Outer(t) /\ u[q] = t[q]
  BY DEF With, Outer
<1> QED
  BY <1>1 DEF LeavesIn

LEMMA SplitMap ==
  ASSUME LeavesFit, TypeInv, Shaped, MapInv, Apart(page'), SplitLeaf
  PROVE  /\ Contents(page') = Ordered!With(Contents(page), key, val) /\ LeavesIn(page')
         /\ key \notin Keys(page) /\ key \in Keys(page') /\ Keys(page) \subseteq Keys(page')
<1>1. /\ path # << >> /\ node.leaf /\ key \in Key /\ val \in Val /\ op = "insert" /\ pend = {}
      /\ ~TooLarge
  BY SplitLeafIs
<1>2. /\ Top \in Outer(page) /\ node = page[Top] /\ Routed /\ key \in node.span
      /\ key \notin Keys(page) /\ IsCells(node.cells, Val)
  BY <1>1, AtLeafIs DEF MapInv, CallMap
<1>3. PICK all, sep, cl, cr :
        /\ all = With(node.cells, key, val) /\ IsCells(all, Val)
        /\ sep = Median(DOMAIN all) /\ sep \in DOMAIN all
        /\ LeafFits(Only(all, Below(DOMAIN all, sep))) => cl = Only(all, Below(DOMAIN all, sep))
        /\ LeafFits(Only(all, From(DOMAIN all, sep))) => cr = Only(all, From(DOMAIN all, sep))
        /\ Split(sep, Leaf(cl, NewPage, Below(node.span, sep)),
                      Leaf(cr, node.extra, From(node.span, sep)))
  BY SplitLeafIs
<1>4. LeafFits(Only(all, Below(DOMAIN all, sep))) /\ LeafFits(Only(all, From(DOMAIN all, sep)))
  <2>1. key \notin DOMAIN node.cells
    BY <1>2, KeysAt
  <2>2. Without(all, key) = node.cells
    <3>1. node.cells = [j \in DOMAIN node.cells |-> node.cells[j]]
      BY <1>2 DEF IsCells
    <3> QED
      BY <1>3, <2>1, <3>1 DEF Without, With
  <2>3. LeafFits(Without(all, key))
    BY <1>2, <2>2 DEF MapInv, LeavesIn
  <2>4. key \in DOMAIN all /\ all[key] = val
    BY <1>3 DEF With
  <2>5. KeySize[key] + ValSize[all[key]] <= Room
    <3>1. KeySize[key] \in Nat /\ ValSize[val] \in Nat /\ Room \in Nat
      BY <1>1, BTreeAssumption
    <3>2. ~ (KeySize[key] + ValSize[val] > Room)
      BY <1>1 DEF TooLarge
    <3> QED
      BY <2>4, <3>1, <3>2
  <2>6. DOMAIN all \in SUBSET Key /\ all \in [DOMAIN all -> Val] /\ IsFiniteSet(DOMAIN all)
    BY <1>3 DEF IsCells
  <2> QED
    BY <1>3, <2>3, <2>4, <2>5, <2>6 DEF LeavesFit
<1> DEFINE left == Leaf(cl, NewPage, Below(node.span, sep))
           right == Leaf(cr, node.extra, From(node.span, sep))
<1>5. PICK u : u = page'
  OBVIOUS
<1>6. u = With(With(page, Top, left), NewPage, right)
  BY <1>1, <1>3, <1>5, PageSteps
<1>7. /\ cl = Only(all, Below(DOMAIN all, sep)) /\ left.cells = cl /\ Holds(left, cl)
      /\ cr = Only(all, From(DOMAIN all, sep)) /\ right.cells = cr /\ Holds(right, cr)
  BY <1>3, <1>4 DEF Leaf, Holds
<1> HIDE DEF left, right
<1>8. LeavesIn(u)
  <2>1. LeafFits(left.cells) /\ LeafFits(right.cells)
    BY <1>4, <1>7
  <2> QED
    BY <1>6, <2>1, LeavesHalved DEF MapInv
<1>9. \A j, w : Has(u, j, w) <=> Has(page, j, w) \/ (j = key /\ w = val)
  <2>1. DOMAIN all \in SUBSET Int /\ sep \in Int
    BY <1>3, BTreeAssumption DEF IsCells
  <2>2. NewPage \notin DOMAIN page
    BY NewPageIs DEF TypeInv, PagesInv, NewPage
  <2>3. Spot(Top, key) /\ all = With(page[Top].cells, key, val)
    BY <1>2, <1>3 DEF Spot
  <2> QED
    BY <1>2, <1>6, <1>7, <2>1, <2>2, <2>3, HasSplit
<1>10. Contents(u) = Ordered!With(Contents(page), key, val) /\ Keys(u) = Keys(page) \cup {key}
  BY <1>2, <1>5, <1>9, ApartNow, ContentsAdded
<1> QED
  BY <1>2, <1>5, <1>8, <1>10

\* What is above the leaves changes, and nothing of the map.
LEMMA OuterSame ==
  ASSUME NEW t, NEW p \in Inner(t), NEW n, Inward(n), NEW u, u = With(t, p, n)
  PROVE  Outer(u) = Outer(t) /\ \A q \in Outer(t) : u[q] = t[q]
<1>1. \A q \in Outer(t) : q # p
  BY DEF Outer, Inner
<1> QED
  BY <1>1 DEF With, Outer, Inward

LEMMA OuterNew ==
  ASSUME NEW t, NEW r, r \notin DOMAIN t, NEW n, Inward(n), NEW u, u = With(t, r, n)
  PROVE  Outer(u) = Outer(t) /\ \A q \in Outer(t) : u[q] = t[q]
<1>1. \A q \in Outer(t) : q # r
  BY DEF Outer
<1> QED
  BY <1>1 DEF With, Outer, Inward

LEMMA AboveMap ==
  ASSUME TypeInv, Apart(page), Apart(page'), InsertInParent \/ SplitInterior \/ GrowRoot
  PROVE  /\ Contents(page') = Contents(page) /\ Keys(page') = Keys(page)
         /\ LeavesIn(page) => LeavesIn(page')
<1>1. PICK u : u = page'
  OBVIOUS
<1>2. NewPage \notin DOMAIN page /\ Root \in DOMAIN page
  BY NewPageIs DEF TypeInv, PagesInv, NewPage
<1>3. (\A j, w : Has(u, j, w) <=> Has(page, j, w)) /\ (LeavesIn(page) => LeavesIn(u))
  <2>1. ASSUME Outer(u) = Outer(page), \A q \in Outer(page) : u[q] = page[q]
        PROVE  (\A j, w : Has(u, j, w) <=> Has(page, j, w)) /\ (LeavesIn(page) => LeavesIn(u))
    BY <2>1, HasOutside DEF LeavesIn
  <2>2. ASSUME path # << >>, ~node.leaf PROVE Top \in Inner(page) /\ node = page[Top]
    BY <2>2, TopIs DEF Inner, Pages
  <2>3. CASE InsertInParent
    <3>1. path # << >> /\ ~node.leaf
      BY <2>3 DEF InsertInParent, TypeInv, PathTypes
    <3>2. \E s : u = Joined(page, Top, s)
      BY <1>1, <2>3, <3>1, PageSteps
    <3>3. PICK n : Inward(n) /\ u = With(page, Top, n)
      BY <3>2 DEF Joined, AddSep, Interior, Inward
    <3> QED
      BY <2>1, <2>2, <3>1, <3>3, OuterSame
  <2>4. CASE SplitInterior
    <3>1. /\ path # << >> /\ ~node.leaf
          /\ \E sep, cl, cr, i, j, K, L : Split(sep, Interior(cl, i, K), Interior(cr, j, L))
      BY <2>4, SplitInteriorIs
    <3>2. PICK n, m : Inward(n) /\ Inward(m) /\ u = With(With(page, Top, n), NewPage, m)
      BY <1>1, <3>1, PageSteps DEF Interior, Inward
    <3> DEFINE t == With(page, Top, n)
    <3>3. Outer(t) = Outer(page) /\ \A q \in Outer(page) : t[q] = page[q]
      BY <2>2, <3>1, <3>2, OuterSame
    <3>4. NewPage \notin DOMAIN t
      BY <1>2, <2>2, <3>1 DEF With, Inner
    <3> HIDE DEF t
    <3>5. Outer(u) = Outer(t) /\ \A q \in Outer(t) : u[q] = t[q]
      BY <3>2, <3>4, OuterNew DEF t
    <3> QED
      BY <2>1, <3>3, <3>5
  <2>5. CASE GrowRoot
    <3>1. \E s : u = Grown(page, s)
      BY <1>1, <2>5, GrowStep
    <3>2. PICK n : Inward(n) /\ u = With(With(page, Root, n), NewPage, page[Root])
      BY <3>1 DEF Grown, Interior, NewPage, Inward
    <3>3. \A j, w : Has(u, j, w) <=> Has(page, j, w)
      BY <1>2, <3>2, HasGrown
    <3>4. \A q \in Outer(u) : \E p \in Outer(page) : u[q] = page[p]
      BY <1>2, <3>2 DEF With, Outer, Inward
    <3> QED
      BY <3>3, <3>4 DEF LeavesIn
  <2> QED
    BY <2>3, <2>4, <2>5
<1> QED
  BY <1>1, <1>3, ContentsSame

-----------------------------------------------------------------------------
(* Where a cursor is.                                                      *)

\* The keys in the leaves after p.
Past(p) == {k \in Keys(page) : \A j \in page[p].span : j < k}

\* The keys from lo on are those of its leaf from lo on, and those in the leaves
\* after it.
LEMMA CursorAt ==
  ASSUME WellFormed(page), NEW p \in Outer(page), NEW lo \in page[p].span
  PROVE  From(DOMAIN page[p].cells, lo) \cup Past(p) = {k \in Keys(page) : k >= lo}
<1> DEFINE S == page[p].span
           C == DOMAIN page[p].cells
<1>1. /\ S \subseteq Key /\ C \subseteq S
      /\ \A i, j \in S, k \in Key : i <= k /\ k <= j => k \in S
      /\ \A q \in Outer(page) : /\ DOMAIN page[q].cells \subseteq page[q].span
                                /\ page[q].span \subseteq Key
                                /\ q # p => S \cap page[q].span = {}
  <2>1. LeafSpans(page) /\ IsTree(page)
    BY DEF WellFormed
  <2> QED
    BY <2>1, NodeIn DEF LeafSpans, Outer
<1>2. lo \in Int /\ \A k : k \in Key => k \in Int
  BY <1>1, BTreeAssumption
<1>3. \A k : k \in Keys(page) <=> \E q \in Outer(page) : k \in DOMAIN page[q].cells
  BY KeysOf
<1>4. ASSUME NEW k PROVE k \in From(C, lo) \cup Past(p) <=> k \in Keys(page) /\ k >= lo
  <2>1. CASE k \in S
    <3>1. k \in Keys(page) <=> k \in C
      BY <1>1, <1>3, <2>1
    <3>2. k \notin Past(p)
      <4>1. k \in Int /\ ~ (k < k)
        BY <1>1, <1>2, <2>1
      <4> QED
        BY <2>1, <4>1 DEF Past
    <3> QED
      BY <3>1, <3>2 DEF From
  <2>2. CASE k \notin S
    <3>1. k \notin C
      BY <1>1, <2>2
    <3>2. ASSUME k \in Keys(page) PROVE k >= lo <=> \A j \in S : j < k
      <4>1. k \in Key
        BY <1>1, <1>3, <3>2
      <4>2. ASSUME k >= lo, NEW j \in S PROVE j < k
        <5>1. j \in Int /\ k \in Int /\ lo <= k
          BY <1>1, <1>2, <4>1, <4>2
        <5>2. ~ (k <= j)
          BY <1>1, <2>2, <4>1, <5>1
        <5> QED
          BY <5>1, <5>2
      <4>3. ASSUME \A j \in S : j < k PROVE k >= lo
        <5>1. lo < k /\ k \in Int
          BY <1>2, <4>1, <4>3
        <5> QED
          BY <1>2, <5>1
      <4> QED
        BY <4>2, <4>3
    <3> QED
      BY <3>1, <3>2 DEF From, Past
  <2> QED
    BY <2>1, <2>2
<1> QED
  BY <1>4

\* So a leaf before which there is no key begins the walk over the whole map.
LEMMA CursorFirst ==
  ASSUME WellFormed(page), NEW p \in Outer(page),
         \A j \in page[p].span, k \in Key : k <= j => k \in page[p].span
  PROVE  \E lo \in Key : DOMAIN page[p].cells \cup Past(p) = {k \in Keys(page) : k >= lo}
<1> DEFINE S == page[p].span
           C == DOMAIN page[p].cells
<1>1. S \subseteq Key /\ C \subseteq S /\ S # {} /\ IsFiniteSet(C)
  <2>1. LeafSpans(page) /\ IsTree(page)
    BY DEF WellFormed
  <2> QED
    BY <2>1, NodeIn DEF LeafSpans, Outer, WellFormed
<1>2. \E lo \in S : From(C, lo) = C
  <2>1. CASE C = {}
    BY <1>1, <2>1 DEF From
  <2>2. CASE C # {}
    <3>1. C \in SUBSET Int
      BY <1>1, BTreeAssumption
    <3>2. PICK lo \in C : \A j \in C : lo <= j
      BY <1>1, <2>2, <3>1, LeastKey
    <3>3. \A j \in C : j >= lo
      BY <3>1, <3>2
    <3> QED
      BY <1>1, <3>2, <3>3 DEF From
  <2> QED
    BY <2>1, <2>2
<1> HIDE DEF C
<1>3. PICK lo \in S : From(C, lo) = C
  BY <1>2
<1>4. C \cup Past(p) = {k \in Keys(page) : k >= lo}
  BY <1>3, CursorAt DEF C
<1> QED
  BY <1>1, <1>4 DEF C

\* The leaf after p goes on where p ends, and the last leaf ends the walk.
LEMMA CursorMoves ==
  ASSUME WellFormed(page), NEW p \in Outer(page)
  PROVE  /\ page[p].extra = 0 => Past(p) = {}
         /\ \A q \in Outer(page) : q = page[p].extra => DOMAIN page[q].cells \cup Past(q) = Past(p)
<1>1. Chain(page) /\ LeafSpans(page) /\ IsTree(page) /\ 0 \notin DOMAIN page
  BY DEF WellFormed, IsTree
<1>2. \A k \in Keys(page) : k \in Key
  BY <1>1, KeysOf, NodeIn DEF Outer
<1>3. ASSUME page[p].extra = 0 PROVE Past(p) = {}
  <2>1. \A k \in Key : \E j \in page[p].span : ~ (j < k)
    BY <1>1, <1>3 DEF Chain
  <2> QED
    BY <1>2, <2>1 DEF Past
<1>4. ASSUME NEW q \in Outer(page), q = page[p].extra
      PROVE  DOMAIN page[q].cells \cup Past(q) = Past(p)
  <2>1. page[p].extra # 0
    BY <1>1, <1>4 DEF Outer
  <2>2. PICK lo \in page[q].span : /\ \A k \in page[q].span : lo <= k
                                   /\ \A k \in Key : (\A j \in page[p].span : j < k) <=> lo <= k
    BY <1>1, <1>4, <2>1 DEF Chain
  <2>3. DOMAIN page[q].cells \subseteq page[q].span /\ page[q].span \subseteq Key
    BY <1>1, <1>4, NodeIn DEF LeafSpans, Outer
  <2>4. \A k : k \in Key => (lo <= k <=> k >= lo)
    BY <2>2, <2>3, BTreeAssumption
  <2>5. From(DOMAIN page[q].cells, lo) = DOMAIN page[q].cells
    <3>1. \A k \in DOMAIN page[q].cells : k >= lo
      BY <2>2, <2>3, <2>4
    <3> QED
      BY <3>1 DEF From
  <2>6. DOMAIN page[q].cells \cup Past(q) = {k \in Keys(page) : k >= lo}
    BY <1>4, <2>5, CursorAt
  <2>7. Past(p) = {k \in Keys(page) : k >= lo}
    BY <1>2, <2>2, <2>4 DEF Past
  <2> QED
    BY <2>6, <2>7
<1> QED
  BY <1>3, <1>4

-----------------------------------------------------------------------------
(* The invariant of the map, kept by every step.                           *)

\* The leaves have no key in common, but when a failed call left a split undone.
Orderly == mode # "failed" => Apart(page)

LEMMA OrderlyNow ==
  ASSUME TypeInv, ShapeInv
  PROVE  Orderly
BY ShapeShows, ApartNow DEF TreeInv, Orderly

\* The first leaf is the one that the first child leads to, all the way down.
LEMMA DescendFirst ==
  ASSUME TypeInv, Shaped, CallMap, Descend, op = "first"
  PROVE  \A j \in node'.span, k \in Key : k <= j => k \in node'.span
<1>1. PICK c \in Kids(node) :
        /\ c = node.extra /\ path' = Append(path, c) /\ path # << >> /\ ~node.leaf /\ pend = {}
        /\ UNCHANGED page
  BY DescendTypes
<1>2. /\ Top \in Inner(page) /\ node = page[Top] /\ WellFormed(page)
      /\ DOMAIN node.cells \subseteq Key /\ IsFiniteSet(DOMAIN node.cells) /\ node.span \subseteq Key
  BY <1>1, TopIs DEF Inner, Pages, Shaped
<1>3. node' = page[c]
  <2>1. Len(path') = Len(path) + 1 /\ path'[Len(path) + 1] = c
    BY <1>1 DEF TypeInv, PathTypes
  <2> QED
    BY <1>1, <2>1 DEF node, Top
<1>4. page[c].span = {k \in node.span : ChildPage(node, k) = c}
  BY <1>1, <1>2 DEF WellFormed, Routes
<1>5. \A s \in DOMAIN node.cells : node.cells[s] # c
  BY <1>1, <1>2 DEF WellFormed, OneParent, Distinct
<1>6. ASSUME NEW j \in page[c].span, NEW k \in Key, k <= j PROVE k \in page[c].span
  <2>1. j \in node.span /\ j \in Key /\ ChildPage(node, j) = c
    BY <1>2, <1>4
  <2>2. k \in node.span
    BY <1>6, <2>1 DEF CallMap
  <2>3. NoSlot(node, j)
    BY <1>2, <1>5, <2>1, ChildPageIs DEF Slot
  <2>4. NoSlot(node, k)
    <3>1. ASSUME NEW s \in DOMAIN node.cells, s <= k PROVE FALSE
      <4>1. s \in Key /\ s <= k /\ k <= j
        BY <1>2, <1>6, <3>1
      <4>2. \A x : x \in Key => x \in Int
        BY BTreeAssumption
      <4>3. s <= j
        BY <2>1, <4>1, <4>2
      <4> QED
        BY <2>3, <4>3 DEF NoSlot
    <3> QED
      BY <3>1 DEF NoSlot
  <2>5. ChildPage(node, k) = c
    BY <1>1, <1>2, <2>4, ChildPageIs
  <2> QED
    BY <1>4, <2>2, <2>5
<1> QED
  BY <1>3, <1>6

\* A call begins at the root, with every key below it.
LEMMA StartMap ==
  ASSUME TypeInv, Shaped, NEW o, NEW k, NEW v, Start(o, k, v), o # "scan",
         o = "insert" => k \notin Keys(page)
  PROVE  CallMap'
<1>1. /\ op = "none" /\ op' = o /\ key' = k /\ page' = page /\ pend' = pend /\ path' = <<Root>>
  BY DEF Start, store
<1>2. pend = {} /\ WellFormed(page)
  BY <1>1 DEF TypeInv, PathTypes, Shaped
<1>3. node' = page[Root] /\ page[Root].span = Key
  BY <1>1, <1>2 DEF node, Top, WellFormed
<1> QED
  BY <1>1, <1>2, <1>3 DEF CallMap

LEMMA CursorMap ==
  ASSUME TypeInv, Shaped, CallMap, SeekInLeaf \/ NextCell \/ NextLeaf \/ NextEnd
  PROVE  CallMap'
<1>1. op' = "scan" /\ page' = page
  BY DEF SeekInLeaf, NextCell, NextLeaf, NextEnd, store
<1>2. rest' \subseteq DOMAIN node'.cells
  <2>1. CASE NextLeaf
    <3>1. node' = page[node.extra]
      BY <1>1, <2>1 DEF NextLeaf, node, Top
    <3> QED
      BY <2>1, <3>1 DEF NextLeaf
  <2>2. CASE SeekInLeaf
    <3>1. node' = node
      BY <1>1, <2>2 DEF SeekInLeaf, node, Top
    <3> QED
      BY <2>2, <3>1 DEF SeekInLeaf, From
  <2>3. CASE NextCell \/ NextEnd
    <3>1. node' = node /\ rest' \subseteq rest /\ op = "scan"
      BY <1>1, <2>3 DEF NextCell, NextEnd, node, Top
    <3> QED
      BY <3>1 DEF CallMap
  <2> QED
    BY <2>1, <2>2, <2>3
<1> QED
  BY <1>1, <1>2 DEF CallMap

LEMMA InitMap == Init => MapInv
<1> SUFFICES ASSUME Init PROVE MapInv
  OBVIOUS
<1>1. page = <<Leaf(<< >>, 0, Key)>> /\ disk = page /\ op = "none"
  BY DEF Init
<1>2. \A p \in Outer(page) : page[p].cells = << >>
  BY <1>1 DEF Leaf, Outer
<1>3. LeafFits(<< >>)
  <2>1. Total(LeafSize(<< >>), {}) = 0
    BY FS_EmptySet, TotalIs
  <2> QED
    BY <2>1, BTreeAssumption DEF LeafFits, Fits, Total
<1> QED
  BY <1>1, <1>2, <1>3 DEF MapInv, LeavesIn, CallMap

\* The pages that a commit writes are all those that changed.
LEMMA CommitIs ==
  ASSUME TypeInv, Commit
  PROVE  disk' = page
<1>1. page = [p \in DOMAIN page |-> page[p]]
  BY DEF TypeInv, PagesInv, IsTree
<1>2. \A p \in DOMAIN page : p \notin captured => page[p] = disk[p]
  BY DEF TypeInv, PagesInv, Synced, Pages
<1> QED
  BY <1>1, <1>2 DEF Commit

LEMMA NextMap ==
  ASSUME LeavesFit, TypeInv, ShapeInv, Orderly, Orderly', MapInv, [Next]_vars
  PROVE  MapInv'
<1>0. /\ op # "none" => mode = "txn" /\ Shaped /\ Apart(page)
      /\ LeavesIn(disk) /\ LeavesIn(page) /\ CallMap
  BY DEF TypeInv, CallInv, ShapeInv, Orderly, MapInv
<1>1. ASSUME UNCHANGED store, CallMap' PROVE MapInv'
  BY <1>0, <1>1 DEF MapInv, store
<1>2. ASSUME op' = "none" PROVE CallMap'
  BY <1>2 DEF CallMap
<1>3. CASE \E o, k, v : Start(o, k, v) /\ o # "scan" /\ (o = "insert" => k \notin Keys(page))
  <2>1. PICK o, k, v : Start(o, k, v) /\ o # "scan" /\ (o = "insert" => k \notin Keys(page))
    BY <1>3
  <2>2. UNCHANGED store /\ Shaped
    BY <2>1 DEF Start, ShapeInv
  <2> QED
    BY <1>1, <2>1, <2>2, StartMap
<1>4. CASE InsertInLeaf
  <2>1. op # "none" /\ op' = "none" /\ mode' = "txn" /\ disk' = disk
    BY <1>4 DEF InsertInLeaf, AtLeaf, Return, NoCall
  <2>2. LeavesIn(page')
    BY <1>0, <1>4, <2>1, InsertMap DEF Orderly
  <2> QED
    BY <1>0, <1>2, <2>1, <2>2 DEF MapInv
<1>5. CASE DeleteFromLeaf \/ UpdateFromLeaf
  <2>1. op # "none" /\ mode = "txn" /\ mode' = "txn" /\ disk' = disk /\ pend = {}
    BY <1>0, <1>5 DEF DeleteFromLeaf, UpdateFromLeaf, AtLeaf, Return
  <2>2. LeavesIn(page') /\ key \notin Keys(page')
    BY <1>0, <1>5, <2>1, DeleteMap DEF Orderly
  <2>3. op' = "none" \/ (op' = "insert" /\ key' = key /\ pend' = {})
    BY <1>5, <2>1 DEF DeleteFromLeaf, UpdateFromLeaf, Return, NoCall, args
  <2>4. CallMap'
    BY <1>2, <2>2, <2>3 DEF CallMap
  <2> QED
    BY <1>0, <2>1, <2>2, <2>4 DEF MapInv
<1>6. CASE SplitLeaf
  <2>1. op # "none" /\ op' = "insert" /\ mode' = mode /\ disk' = disk /\ key' = key /\ pend' # {}
    BY <1>6 DEF SplitLeaf, AtLeaf, Split, args
  <2>2. LeavesIn(page') /\ key \in Keys(page')
    BY <1>0, <1>6, <2>1, SplitMap DEF Orderly
  <2> QED
    BY <1>0, <2>1, <2>2 DEF MapInv, CallMap
<1>7. CASE InsertInParent \/ SplitInterior \/ GrowRoot
  <2>1. op = "insert" /\ pend # {} /\ disk' = disk /\ key \in Keys(page)
    BY <1>0, <1>7 DEF InsertInParent, SplitInterior, GrowRoot, CallMap, Split
  <2>2. mode' = "txn" /\ (op' = "none" \/ (op' = "insert" /\ key' = key /\ pend' # {}))
    BY <1>0, <1>7, <2>1 DEF InsertInParent, SplitInterior, GrowRoot, Split, Return, NoCall, args
  <2>3. Keys(page') = Keys(page) /\ LeavesIn(page')
    BY <1>0, <1>7, <2>1, <2>2, AboveMap DEF Orderly
  <2>4. CallMap'
    BY <1>2, <2>1, <2>2, <2>3 DEF CallMap
  <2> QED
    BY <1>0, <2>1, <2>3, <2>4 DEF MapInv
<1>8. CASE Descend
  <2>1. op \notin {"none", "scan"} /\ UNCHANGED <<page, disk, captured, key, op, pend>>
    BY <1>8, DescendTypes
  <2>2. CallMap'
    BY <1>0, <1>8, <2>1, DescendFirst DEF CallMap
  <2> QED
    BY <1>1, <2>1, <2>2 DEF store
<1>9. CASE GetFromLeaf \/ CloseCursor \/ InsertTooLarge \/ Fail
  <2>1. UNCHANGED store /\ op' = "none"
    BY <1>9 DEF GetFromLeaf, CloseCursor, InsertTooLarge, Fail, Return, NoCall
  <2> QED
    BY <1>1, <1>2, <2>1
<1>10. CASE SeekInLeaf \/ NextCell \/ NextLeaf \/ NextEnd
  <2>1. op # "none" /\ UNCHANGED store
    BY <1>10 DEF SeekInLeaf, NextCell, NextLeaf, NextEnd, AtLeaf
  <2> QED
    BY <1>0, <1>1, <1>10, <2>1, CursorMap
<1>11. CASE Begin
  <2>1. UNCHANGED store /\ op' = op /\ mode = "idle"
    BY <1>11 DEF Begin
  <2>2. op = "none"
    BY <1>0, <2>1
  <2> QED
    BY <1>1, <1>2, <2>1, <2>2
<1>12. CASE Commit
  <2>1. page' = page /\ op' = "none" /\ disk' = page
    BY <1>12, CommitIs DEF Commit
  <2> QED
    BY <1>0, <1>2, <2>1 DEF MapInv
<1>13. CASE Restore
  <2>1. page' = disk /\ disk' = disk /\ op' = "none"
    BY <1>13 DEF Restore, NoCall
  <2> QED
    BY <1>0, <1>2, <2>1 DEF MapInv
<1>14. CASE UNCHANGED vars
  <2>1. UNCHANGED <<store, key, op, pend, rest>> /\ node' = node
    BY <1>14 DEF vars, args, store, node, Top
  <2> QED
    BY <1>0, <1>1, <2>1 DEF CallMap, store
<1>15. CASE \E k \in Key : Delete(k) \/ Get(k) \/ Seek(k) \/ \E v \in Val : Update(k, v)
  BY <1>3, <1>15 DEF Delete, Get, Seek, Update
<1>16. CASE Cursor \/ \E k \in Key, v \in Val : Insert(k, v)
  BY <1>3, <1>16 DEF Insert, Cursor
<1> QED
  BY <1>3, <1>4, <1>5, <1>6, <1>7, <1>8, <1>9, <1>10, <1>11, <1>12, <1>13, <1>14, <1>15, <1>16
  DEF Next, Shared, Working

-----------------------------------------------------------------------------
(* Every step is one of the map's, or none.                                *)

\* The keys the cursor has not returned yet.
Todo ==
  IF op = "scan" THEN rest \cup {k \in Keys(page) : \A j \in node.span : j < k} ELSE {}

LEMMA OrderedIs ==
  /\ Ordered!Begin <=> /\ mode = "idle" /\ mode' = "txn"
                       /\ UNCHANGED <<Contents(disk), Contents(page), Todo, out>>
  /\ \A k, v : Ordered!Insert(k, v) <=>
       /\ mode = "txn" /\ k \notin DOMAIN Contents(page)
       /\ Contents(page') = Ordered!With(Contents(page), k, v)
       /\ UNCHANGED <<Contents(disk), mode, Todo, out>>
  /\ \A k : Ordered!Delete(k) <=>
       /\ mode = "txn" /\ out' = [found |-> k \in DOMAIN Contents(page)]
       /\ Contents(page') = Ordered!Without(Contents(page), k)
       /\ UNCHANGED <<Contents(disk), mode, Todo>>
  /\ \A k : Ordered!Get(k) <=>
       /\ mode = "txn" /\ out' = Ordered!Lookup(Contents(page), k)
       /\ UNCHANGED <<Contents(disk), Contents(page), mode, Todo>>
  /\ \A k : Ordered!Seek(k) <=>
       /\ mode = "txn" /\ Todo' = {j \in DOMAIN Contents(page) : j >= k}
       /\ UNCHANGED <<Contents(disk), Contents(page), mode, out>>
  /\ Ordered!NextCell <=>
       /\ mode = "txn"
       /\ IF Todo = {} THEN out' = NoAnswer /\ Todo' = Todo
          ELSE \E k \in Todo : /\ \A j \in Todo : k <= j
                               /\ out' = Ordered!Cell(Contents(page), k) /\ Todo' = Todo \ {k}
       /\ UNCHANGED <<Contents(disk), Contents(page), mode>>
  /\ Ordered!Forget <=> out' = NoAnswer /\ UNCHANGED <<Contents(disk), Contents(page), mode, Todo>>
  /\ Ordered!CloseCursor <=>
       Todo' = {} /\ out' = NoAnswer /\ UNCHANGED <<Contents(disk), Contents(page), mode>>
  /\ Ordered!Commit <=> /\ mode = "txn" /\ mode' = "idle" /\ Contents(disk') = Contents(page)
                        /\ UNCHANGED <<Contents(page), Todo, out>>
  /\ Ordered!Fail <=> /\ mode = "txn" /\ mode' = "failed" /\ Todo' = {}
                      /\ UNCHANGED <<Contents(disk), Contents(page), out>>
  /\ Ordered!Restore <=> /\ mode' = "idle" /\ Contents(page') = Contents(disk) /\ Todo' = {}
                         /\ UNCHANGED <<Contents(disk), out>>
  /\ UNCHANGED Ordered!vars <=> UNCHANGED <<Contents(disk), Contents(page), mode, Todo, out>>
BY DEF Ordered!Begin, Ordered!Insert, Ordered!Delete, Ordered!Get, Ordered!Seek, Ordered!NextCell,
  Ordered!Forget, Ordered!CloseCursor, Ordered!Commit, Ordered!Fail, Ordered!Restore, Ordered!vars,
  Ordered!NoAnswer, NoAnswer, Todo

LEMMA NotScanning ==
  /\ op # "scan" => Todo = {}
  /\ op' # "scan" => Todo' = {}
BY DEF Todo

\* The cursor is in a leaf of a tree that is whole.
LEMMA ScanIs ==
  ASSUME TypeInv, Shaped, op = "scan"
  PROVE  /\ Top \in Outer(page) /\ node = page[Top] /\ WellFormed(page) /\ Routed
         /\ mode = "txn" /\ IsCells(node.cells, Val) /\ Todo = rest \cup Past(Top)
<1>1. path # << >> /\ pend = {} /\ mode = "txn" /\ node.leaf
  BY DEF TypeInv, PathTypes, CallInv, Shaped
<1>2. Top \in Outer(page) /\ node = page[Top] /\ IsCells(node.cells, Val)
  BY <1>1, TopIs DEF Outer, Pages
<1>3. WellFormed(page) /\ Routed
  BY <1>1, WholeTree DEF Shaped
<1> QED
  BY <1>1, <1>2, <1>3 DEF Todo, Past

LEMMA ScanNext ==
  ASSUME page' = page, op' = "scan", NEW p, node' = page[p]
  PROVE  Todo' = rest' \cup Past(p)
BY DEF Todo, Past

LEMMA SeekRefines ==
  ASSUME TypeInv, Shaped, CallMap, SeekInLeaf
  PROVE  \E k \in Key : Ordered!Seek(k)
<1>1. /\ op \in {"seek", "first"} /\ pend = {} /\ node.leaf /\ op' = "scan" /\ path' = path
      /\ UNCHANGED <<page, disk, mode, out>>
      /\ rest' = IF op = "first" THEN DOMAIN node.cells ELSE From(DOMAIN node.cells, key)
  BY DEF SeekInLeaf, AtLeaf, store
<1>2. /\ Top \in Outer(page) /\ node = page[Top] /\ WellFormed(page) /\ Routed /\ mode = "txn"
      /\ op # "first" => key \in Key /\ key \in node.span
  BY <1>1, AtLeafIs
<1>3. Todo = {} /\ Todo' = rest' \cup Past(Top)
  <2>1. node' = page[Top]
    BY <1>1, <1>2 DEF node, Top
  <2> QED
    BY <1>1, <2>1, NotScanning, ScanNext
<1>4. \E k \in Key : Todo' = {j \in Keys(page) : j >= k}
  <2>1. CASE op = "first"
    BY <1>1, <1>2, <1>3, <2>1, CursorFirst DEF CallMap
  <2>2. CASE op # "first"
    BY <1>1, <1>2, <1>3, <2>2, CursorAt
  <2> QED
    BY <2>1, <2>2
<1>5. DOMAIN Contents(page) = Keys(page)
  BY <1>2, ApartNow, ContentsIs
<1> QED
  BY <1>1, <1>2, <1>4, <1>5, OrderedIs

LEMMA NextCellRefines ==
  ASSUME TypeInv, Shaped, CallMap, NextCell \/ NextEnd
  PROVE  Ordered!NextCell
<1>1. op = "scan" /\ op' = "scan" /\ path' = path /\ UNCHANGED <<page, disk, mode>>
  BY DEF NextCell, NextEnd, store
<1>2. /\ Top \in Outer(page) /\ node = page[Top] /\ WellFormed(page) /\ Routed /\ mode = "txn"
      /\ IsCells(node.cells, Val) /\ Todo = rest \cup Past(Top)
  BY <1>1, ScanIs
<1>3. Todo' = rest' \cup Past(Top)
  <2>1. node' = page[Top]
    BY <1>1, <1>2 DEF node, Top
  <2> QED
    BY <1>1, <2>1, ScanNext
<1>4. UNCHANGED <<Contents(disk), Contents(page), mode>>
  BY <1>1
<1>5. CASE NextEnd
  <2>1. rest = {} /\ node.extra = 0 /\ out' = NoAnswer /\ rest' = rest
    BY <1>5 DEF NextEnd
  <2>2. Past(Top) = {}
    BY <1>2, <2>1, CursorMoves
  <2>3. Todo = {} /\ Todo' = Todo
    BY <1>2, <1>3, <2>1, <2>2
  <2> QED
    BY <1>2, <1>4, <2>1, <2>3, OrderedIs
<1>6. CASE NextCell
  <2> DEFINE k == First(rest)
  <2>1. rest # {} /\ rest' = rest \ {k} /\ out' = Cell(node.cells, k) /\ rest \subseteq DOMAIN node.cells
    BY <1>1, <1>6 DEF NextCell, CallMap
  <2>2. k \in rest /\ \A j \in rest : k <= j
    <3>1. rest \in SUBSET Int /\ IsFiniteSet(rest)
      BY <1>2, <2>1, FS_Subset, BTreeAssumption DEF IsCells
    <3> QED
      BY <2>1, <3>1, FirstKey
  <2> HIDE DEF k
  <2>3. k \in DOMAIN node.cells /\ k \in node.span /\ k \in Key
    BY <1>2, <2>1, <2>2 DEF WellFormed, LeafSpans, IsCells
  <2>4. \A j \in Past(Top) : k < j /\ j \in Key
    <3>1. \A j \in Keys(page) : j \in Key
      BY <1>2, KeysOf, NodeIn DEF WellFormed, Outer
    <3> QED
      BY <1>2, <2>3, <3>1 DEF Past
  <2>5. k \in Todo /\ (\A j \in Todo : k <= j) /\ Todo' = Todo \ {k}
    <3>1. \A x : x \in Key => x \in Int
      BY BTreeAssumption
    <3>2. \A j \in Past(Top) : k <= j /\ j # k
      BY <2>3, <2>4, <3>1
    <3> QED
      BY <1>2, <1>3, <2>1, <2>2, <3>2
  <2>6. out' = Ordered!Cell(Contents(page), k)
    <3>1. Has(page, k, node.cells[k])
      BY <1>2, <2>3, KeysAt
    <3>2. Contents(page)[k] = node.cells[k]
      BY <1>2, <3>1, ApartNow, ContentsIs
    <3> QED
      BY <2>1, <3>2 DEF Cell, Ordered!Cell
  <2> QED
    BY <1>2, <1>4, <2>5, <2>6, OrderedIs
<1> QED
  BY <1>5, <1>6

LEMMA NextLeafRefines ==
  ASSUME TypeInv, Shaped, NextLeaf
  PROVE  UNCHANGED Ordered!vars
<1>1. /\ op = "scan" /\ rest = {} /\ node.extra # 0 /\ op' = "scan" /\ path' = <<node.extra>>
      /\ rest' = DOMAIN page[node.extra].cells /\ UNCHANGED <<page, disk, mode, out>>
  BY DEF NextLeaf, store
<1>2. /\ Top \in Outer(page) /\ node = page[Top] /\ WellFormed(page) /\ Todo = rest \cup Past(Top)
  BY <1>1, ScanIs
<1>3. Todo' = rest' \cup Past(node.extra)
  <2>1. node' = page[node.extra]
    BY <1>1 DEF node, Top
  <2> QED
    BY <1>1, <2>1, ScanNext
<1>4. node.extra \in Outer(page)
  BY <1>1, <1>2 DEF WellFormed, Chain
<1>5. Todo' = Todo
  BY <1>1, <1>2, <1>3, <1>4, CursorMoves
<1> QED
  BY <1>1, <1>5, OrderedIs

LEMMA GetRefines ==
  ASSUME TypeInv, Shaped, CallMap, GetFromLeaf
  PROVE  \E k \in Key : Ordered!Get(k)
<1>1. /\ op = "get" /\ pend = {} /\ node.leaf /\ op' = "none" /\ mode' = "txn"
      /\ UNCHANGED <<page, disk>>
      /\ out' = IF key \in DOMAIN node.cells THEN Payload(node.cells[key]) ELSE NoAnswer
  BY DEF GetFromLeaf, AtLeaf, Return, NoCall, store
<1>2. /\ Top \in Outer(page) /\ node = page[Top] /\ Routed /\ mode = "txn"
      /\ key \in Key /\ key \in node.span
  BY <1>1, AtLeafIs
<1>3. /\ key \in DOMAIN Contents(page) <=> key \in DOMAIN node.cells
      /\ key \in DOMAIN node.cells => Contents(page)[key] = node.cells[key]
  BY <1>2, ApartNow, KeysAt, ContentsIs
<1>4. out' = Ordered!Lookup(Contents(page), key)
  BY <1>1, <1>3 DEF Payload, NoAnswer, Ordered!Lookup, Ordered!NoAnswer
<1>5. Todo = {} /\ Todo' = {}
  BY <1>1, NotScanning
<1> QED
  BY <1>1, <1>2, <1>4, <1>5, OrderedIs

LEMMA WriteRefines ==
  ASSUME LeavesFit, TypeInv, Shaped, MapInv, Apart(page'), InsertInLeaf \/ SplitLeaf
  PROVE  \E k \in Key, v \in Val : Ordered!Insert(k, v)
<1>1. /\ op = "insert" /\ op' # "scan" /\ pend = {} /\ node.leaf /\ mode = "txn" /\ mode' = mode
      /\ UNCHANGED <<disk, out>> /\ key \in Key /\ val \in Val
  BY DEF InsertInLeaf, SplitLeaf, AtLeaf, Split, Return, NoCall, TypeInv, CallInv
<1>2. /\ Contents(page') = Ordered!With(Contents(page), key, val) /\ key \notin Keys(page)
  BY InsertMap, SplitMap
<1>3. Routed
  BY <1>1, AtLeafIs
<1>4. key \notin DOMAIN Contents(page)
  BY <1>2, <1>3, ApartNow, ContentsIs
<1>5. Todo = {} /\ Todo' = {}
  BY <1>1, NotScanning
<1>6. Ordered!Insert(key, val)
  BY <1>1, <1>2, <1>4, <1>5, OrderedIs
<1> QED
  BY <1>1, <1>6

LEMMA DeleteRefines ==
  ASSUME TypeInv, Shaped, MapInv, Apart(page'), DeleteFromLeaf \/ UpdateFromLeaf
  PROVE  \E k \in Key : Ordered!Delete(k)
<1>1. op \in {"delete", "update"} /\ op' # "scan" /\ (mode = "txn" => mode' = mode) /\ UNCHANGED disk
  BY DEF DeleteFromLeaf, UpdateFromLeaf, AtLeaf, Return, NoCall
<1>2. /\ Contents(page') = Ordered!Without(Contents(page), key)
      /\ out' = [found |-> key \in DOMAIN Contents(page)] /\ key \in Key /\ mode = "txn"
  BY DeleteMap
<1>3. Todo = {} /\ Todo' = {}
  BY <1>1, NotScanning
<1>4. Ordered!Delete(key)
  BY <1>1, <1>2, <1>3, OrderedIs
<1> QED
  BY <1>2, <1>4

LEMMA NextRefines ==
  ASSUME LeavesFit, TypeInv, ShapeInv, Orderly, Orderly', MapInv, [Next]_vars
  PROVE  [Ordered!Next]_(Ordered!vars)
<1>0. /\ op # "none" => mode = "txn" /\ Shaped /\ Apart(page)
      /\ mode # "txn" => op = "none"
      /\ CallMap
  BY DEF TypeInv, CallInv, ShapeInv, Orderly, MapInv
<1>1. CASE \E o, k, v : Start(o, k, v) /\ o # "scan"
  <2>1. /\ out' = NoAnswer /\ UNCHANGED <<page, disk, mode>> /\ op # "scan" /\ op' # "scan"
    BY <1>1 DEF Start, store
  <2>2. Todo = {} /\ Todo' = {}
    BY <2>1, NotScanning
  <2>3. Ordered!Forget
    BY <2>1, <2>2, OrderedIs
  <2> QED
    BY <2>3 DEF Ordered!Next
<1>2. CASE InsertInLeaf \/ SplitLeaf
  <2>1. op # "none" /\ (mode = "txn" => mode' = "txn")
    BY <1>2 DEF InsertInLeaf, SplitLeaf, AtLeaf, Split, Return
  <2>2. \E k \in Key, v \in Val : Ordered!Insert(k, v)
    BY <1>0, <1>2, <2>1, WriteRefines DEF Orderly
  <2> QED
    BY <2>2 DEF Ordered!Next
<1>3. CASE DeleteFromLeaf \/ UpdateFromLeaf
  <2>1. op # "none" /\ (mode = "txn" => mode' = "txn")
    BY <1>3 DEF DeleteFromLeaf, UpdateFromLeaf, AtLeaf, Return
  <2>2. \E k \in Key : Ordered!Delete(k)
    BY <1>0, <1>3, <2>1, DeleteRefines DEF Orderly
  <2> QED
    BY <2>2 DEF Ordered!Next
<1>4. CASE InsertInParent \/ SplitInterior \/ GrowRoot
  <2>1. op = "insert" /\ op' # "scan" /\ (mode = "txn" => mode' = "txn") /\ UNCHANGED <<disk, out>>
    BY <1>4 DEF InsertInParent, SplitInterior, GrowRoot, Split, Return, NoCall
  <2>2. Contents(page') = Contents(page)
    BY <1>0, <1>4, <2>1, AboveMap DEF Orderly
  <2>3. Todo = {} /\ Todo' = {}
    BY <2>1, NotScanning
  <2>4. UNCHANGED Ordered!vars
    BY <1>0, <2>1, <2>2, <2>3, OrderedIs
  <2> QED
    BY <2>4
<1>5. CASE Descend
  <2>1. op \notin {"none", "scan"} /\ UNCHANGED <<page, disk, mode, op, out>>
    BY <1>5 DEF Descend, store
  <2>2. Todo = {} /\ Todo' = {}
    BY <2>1, NotScanning
  <2>3. UNCHANGED Ordered!vars
    BY <2>1, <2>2, OrderedIs
  <2> QED
    BY <2>3
<1>6. CASE GetFromLeaf
  <2>1. op # "none"
    BY <1>6 DEF GetFromLeaf, AtLeaf
  <2>2. \E k \in Key : Ordered!Get(k)
    BY <1>0, <1>6, <2>1, GetRefines
  <2> QED
    BY <2>2 DEF Ordered!Next
<1>7. CASE InsertTooLarge \/ Fail
  <2>1. op # "none" /\ op' = "none" /\ mode' = "failed" /\ UNCHANGED <<page, disk, out>>
    BY <1>7 DEF InsertTooLarge, Fail, TooLarge, Return, NoCall, store
  <2>2. Todo' = {}
    BY <2>1, NotScanning
  <2>3. Ordered!Fail
    BY <1>0, <2>1, <2>2, OrderedIs
  <2> QED
    BY <2>3 DEF Ordered!Next
<1>8. CASE CloseCursor
  <2>1. op # "none" /\ op' = "none" /\ mode' = "txn" /\ out' = NoAnswer /\ UNCHANGED <<page, disk>>
    BY <1>8 DEF CloseCursor, Return, NoCall, store
  <2>2. Todo' = {}
    BY <2>1, NotScanning
  <2>3. Ordered!CloseCursor
    BY <1>0, <2>1, <2>2, OrderedIs
  <2> QED
    BY <2>3 DEF Ordered!Next
<1>9. CASE SeekInLeaf
  <2>1. op # "none"
    BY <1>9 DEF SeekInLeaf, AtLeaf
  <2>2. \E k \in Key : Ordered!Seek(k)
    BY <1>0, <1>9, <2>1, SeekRefines
  <2> QED
    BY <2>2 DEF Ordered!Next
<1>10. CASE NextCell \/ NextEnd
  <2>1. op # "none"
    BY <1>10 DEF NextCell, NextEnd
  <2>2. Ordered!NextCell
    BY <1>0, <1>10, <2>1, NextCellRefines
  <2> QED
    BY <2>2 DEF Ordered!Next
<1>11. CASE NextLeaf
  <2>1. op # "none"
    BY <1>11 DEF NextLeaf
  <2> QED
    BY <1>0, <1>11, <2>1, NextLeafRefines
<1>12. CASE Begin
  <2>1. mode = "idle" /\ mode' = "txn" /\ op' = op /\ UNCHANGED <<page, disk, out>>
    BY <1>12 DEF Begin, store
  <2>2. Todo = {} /\ Todo' = {}
    BY <1>0, <2>1, NotScanning
  <2>3. Ordered!Begin
    BY <2>1, <2>2, OrderedIs
  <2> QED
    BY <2>3 DEF Ordered!Next
<1>13. CASE Commit
  <2>1. mode = "txn" /\ op = "none" /\ mode' = "idle" /\ disk' = page /\ UNCHANGED <<page, op, out>>
    BY <1>13, CommitIs DEF Commit
  <2>2. Todo = {} /\ Todo' = {}
    BY <2>1, NotScanning
  <2>3. Ordered!Commit
    BY <2>1, <2>2, OrderedIs
  <2> QED
    BY <2>3 DEF Ordered!Next
<1>14. CASE Restore
  <2>1. mode' = "idle" /\ page' = disk /\ op' = "none" /\ UNCHANGED <<disk, out>>
    BY <1>14 DEF Restore, NoCall
  <2>2. Todo' = {}
    BY <2>1, NotScanning
  <2>3. Ordered!Restore
    BY <2>1, <2>2, OrderedIs
  <2> QED
    BY <2>3 DEF Ordered!Next
<1>15. CASE UNCHANGED vars
  <2>1. UNCHANGED <<page, disk, mode, op, rest, out>> /\ node' = node
    BY <1>15 DEF vars, store, node, Top
  <2>2. Todo' = Todo
    BY <2>1 DEF Todo
  <2>3. UNCHANGED Ordered!vars
    BY <2>1, <2>2, OrderedIs
  <2> QED
    BY <2>3
<1>16. CASE \E k \in Key : Delete(k) \/ Get(k) \/ Seek(k) \/ \E v \in Val : Update(k, v)
  BY <1>1, <1>16 DEF Delete, Get, Seek, Update
<1>17. CASE Cursor \/ \E k \in Key, v \in Val : Insert(k, v)
  BY <1>1, <1>17 DEF Insert, Cursor
<1> QED
  BY <1>2, <1>3, <1>4, <1>5, <1>6, <1>7, <1>8, <1>9, <1>10, <1>11, <1>12, <1>13, <1>14, <1>15, <1>16,
     <1>17
  DEF Next, Shared, Working

LEMMA InitRefines == Init => Ordered!Init
<1> SUFFICES ASSUME Init PROVE Ordered!Init
  OBVIOUS
<1>1. page = <<Leaf(<< >>, 0, Key)>> /\ disk = page /\ op = "none" /\ mode = "idle" /\ out = NoAnswer
  BY DEF Init
<1>2. \A p \in Outer(page) : DOMAIN page[p].cells = {}
  <2>1. DOMAIN page = {1} /\ page[1] = Leaf(<< >>, 0, Key)
    BY <1>1
  <2> QED
    BY <2>1 DEF Outer, Leaf
<1>3. Keys(page) = {}
  BY <1>2, KeysOf
<1>4. Contents(page) = << >>
  BY <1>3 DEF Contents
<1> QED
  BY <1>1, <1>4 DEF Ordered!Init, Ordered!NoAnswer, NoAnswer

\* The types, the shape of the tree and the map it holds, together.
IInv == TypeInv /\ ShapeInv /\ MapInv

\* The invariant that the B+tree's proofs rest on: the pages are a tree whose
\* nodes send each key to one leaf, once the separator of a split under way is
\* counted in (insert, btree.go:96-157); every page that differs from the last
\* commit is one the pager was told of; and each leaf's cells fit in its page.
THEOREM Invariance == SeparatorsFit /\ LeavesFit => (Spec => []IInv)
<1> SUFFICES ASSUME SeparatorsFit, LeavesFit PROVE Spec => []IInv
  OBVIOUS
<1>1. TypeInv /\ ShapeInv => Orderly
  BY OrderlyNow
<1>2. TypeInv /\ ShapeInv /\ Orderly /\ Orderly' /\ MapInv /\ [Next]_vars => MapInv'
  BY NextMap
<1>3. Spec => [](TypeInv /\ ShapeInv /\ MapInv)
  BY <1>1, <1>2, ShapeHolds, InitMap, PTL DEF Spec
<1> QED
  BY <1>3 DEF IInv

\* RefinesMap of BTree, when the halves of a full node fit: pages, splits and
\* sibling pointers, transactions that are committed, rolled back or lost, and
\* the cursor that walks along the leaves are the ordered map that the storage
\* layer sees (insertKey, Delete, Update, Get, SeekGE, Next, btree.go and
\* cursor.go).
THEOREM Refines == SeparatorsFit /\ LeavesFit => (Spec => RefinesMap)
<1> SUFFICES ASSUME SeparatorsFit, LeavesFit PROVE Spec => RefinesMap
  OBVIOUS
<1>1. Spec => []IInv
  BY Invariance
<1>2. IInv => Orderly
  BY OrderlyNow DEF IInv
<1>3. IInv /\ Orderly /\ Orderly' /\ [Next]_vars => [Ordered!Next]_(Ordered!vars)
  BY NextRefines DEF IInv
<1> QED
  BY <1>1, <1>2, <1>3, InitRefines, PTL DEF Spec, RefinesMap, Ordered!Spec

\* KeysStay of BTree, when the halves of a full node fit: an insert loses no key,
\* on any level its splits reach (splitLeaf and splitInterior, btree.go:159-231).
THEOREM KeysKept == SeparatorsFit /\ LeavesFit => (Spec => KeysStay)
<1> SUFFICES ASSUME SeparatorsFit, LeavesFit PROVE Spec => KeysStay
  OBVIOUS
<1> DEFINE Kept == op = "insert" /\ mode' = "txn" =>
                     /\ Keys(page) \subseteq Keys(page')
                     /\ op' = "none" \/ pend' # {} => key \in Keys(page')
<1>1. ASSUME IInv, Orderly, Orderly', [Next]_vars
      PROVE  [Kept]_vars
  <2> SUFFICES ASSUME Next, op = "insert", mode' = "txn"
               PROVE  /\ Keys(page) \subseteq Keys(page')
                      /\ op' = "none" \/ pend' # {} => key \in Keys(page')
    BY <1>1
  <2>1. Shaped /\ Apart(page) /\ Apart(page') /\ (key \in Keys(page) <=> pend # {}) /\ mode = "txn"
    BY <1>1 DEF IInv, TypeInv, CallInv, ShapeInv, Orderly, MapInv, CallMap
  <2>2. CASE InsertInLeaf \/ SplitLeaf
    BY <1>1, <2>1, <2>2, InsertMap, SplitMap DEF IInv
  <2>3. CASE InsertInParent \/ SplitInterior \/ GrowRoot
    <3>1. pend # {} /\ Keys(page') = Keys(page)
      BY <1>1, <2>1, <2>3, AboveMap DEF IInv, InsertInParent, SplitInterior, GrowRoot
    <3> QED
      BY <2>1, <3>1
  <2>4. CASE Descend
    <3>1. op' = "insert" /\ pend' = {} /\ page' = page
      BY <2>4 DEF Descend, store
    <3> QED
      BY <3>1
  <2>5. ~ (\E o, k, v : Start(o, k, v)) /\ ~Begin /\ ~Commit /\ ~Restore
    BY <2>1 DEF Start, Begin, Commit, Restore
  <2>6. ~DeleteFromLeaf /\ ~UpdateFromLeaf /\ ~GetFromLeaf /\ ~SeekInLeaf
    BY DEF DeleteFromLeaf, UpdateFromLeaf, GetFromLeaf, SeekInLeaf, AtLeaf
  <2>7. ~NextCell /\ ~NextLeaf /\ ~NextEnd /\ ~CloseCursor /\ ~InsertTooLarge /\ ~Fail
    BY DEF NextCell, NextLeaf, NextEnd, CloseCursor, InsertTooLarge, Fail, Return
  <2>8. ~ (\E k \in Key : Delete(k) \/ Get(k) \/ Seek(k) \/ \E v \in Val : Update(k, v))
        /\ ~Cursor /\ ~ (\E k \in Key, v \in Val : Insert(k, v))
    BY <2>5 DEF Delete, Get, Seek, Update, Cursor, Insert
  <2> QED
    BY <2>2, <2>3, <2>4, <2>5, <2>6, <2>7, <2>8 DEF Next, Shared, Working
<1> HIDE DEF Kept
<1>2. IInv => Orderly
  BY OrderlyNow DEF IInv
<1>3. Spec => [][Kept]_vars
  BY <1>1, <1>2, Invariance, PTL DEF Spec
<1> QED
  BY <1>3 DEF KeysStay, Kept

-----------------------------------------------------------------------------
(* When the halves fit.                                                    *)

\* Cells of at least a bytes are so few in a page that half of them and one more
\* still fit, if those that may be inserted have at most b bytes.
SimilarCells(a, b) ==
  /\ a \in Nat \ {0} /\ b \in Nat /\ b * ((Room \div a + 2) \div 2) <= Room
  /\ \A k \in Key, v \in Val :
       /\ a <= KeySize[k] + ValSize[v]
       /\ KeySize[k] + ValSize[v] <= Room => KeySize[k] + ValSize[v] <= b

LEMMA HalvesFit ==
  ASSUME NEW a, NEW b, SimilarCells(a, b)
  PROVE  LeavesFit
<1> SUFFICES ASSUME NEW K \in SUBSET Key, NEW c \in [K -> Val], NEW k \in K, IsFiniteSet(K),
                    LeafFits(Without(c, k)), KeySize[k] + ValSize[c[k]] <= Room
             PROVE  /\ LeafFits(Only(c, Below(K, Median(K))))
                    /\ LeafFits(Only(c, From(K, Median(K))))
  BY DEF LeavesFit
<1> DEFINE size(j) == KeySize[j] + ValSize[c[j]]
           n == Cardinality(K)
           few == (Room \div a + 2) \div 2
<1>1. /\ a \in Nat /\ a # 0 /\ b \in Nat /\ Room \in Nat /\ b * few <= Room /\ few \in Nat
      /\ Room \div a \in Nat
  BY BTreeAssumption DEF SimilarCells
<1>2. \A j \in K : size(j) \in Nat /\ a <= size(j) /\ (size(j) <= Room => size(j) <= b)
  <2>1. ASSUME NEW j \in K PROVE size(j) \in Nat
    <3>1. KeySize[j] \in Nat /\ ValSize[c[j]] \in Nat
      BY BTreeAssumption
    <3> QED
      BY <3>1
  <2> QED
    BY <2>1 DEF SimilarCells
<1>3. K \in SUBSET Int /\ K # {} /\ n \in Nat /\ n # 0
  BY FS_CardinalityType, FS_EmptySet, BTreeAssumption
<1>4. Median(K) \in K /\ Cardinality(Below(K, Median(K))) = n \div 2
  BY <1>3, MedianKey
<1> HIDE DEF size
\* What is in a leaf with cells of c.
<1>5. ASSUME NEW d, DOMAIN d \subseteq K, \A j \in DOMAIN d : d[j] = c[j]
      PROVE  /\ IsFiniteSet(DOMAIN d)
             /\ \A j \in DOMAIN d : LeafSize(d)[j] = size(j) /\ LeafSize(d)[j] \in Nat
  BY <1>2, <1>5, FS_Subset DEF LeafSize, size
<1> HIDE DEF n, few
<1>6. (\A j \in K : size(j) <= b) /\ a * (n - 1) <= Room
  <2> DEFINE d == Without(c, k)
             S == K \ {k}
  <2>1. /\ DOMAIN d = S /\ IsFiniteSet(S) /\ Cardinality(S) = n - 1
        /\ \A j \in S : LeafSize(d)[j] = size(j) /\ LeafSize(d)[j] \in Nat
    <3>1. DOMAIN d = S /\ \A j \in DOMAIN d : d[j] = c[j]
      BY DEF Without
    <3>2. IsFiniteSet(S) /\ Cardinality(S) = n - 1
      BY FS_RemoveElement DEF n
    <3> HIDE DEF d, S
    <3> QED
      BY <1>5, <3>1, <3>2 DEF S
  <2> HIDE DEF d
  <2>2. Fits(LeafSize(d), S)
    BY <2>1 DEF LeafFits, d
  <2>3. \A j \in S : LeafSize(d)[j] <= Room
    BY <2>1, <2>2, FitsWithout
  <2>4. \A j \in K : size(j) <= b
    <3>1. size(k) <= Room
      BY DEF size
    <3> QED
      BY <1>2, <2>1, <2>3, <3>1
  <2>5. a * Cardinality(S) <= Total(LeafSize(d), S)
    <3>1. \A j \in S : LeafSize(d)[j] \in Nat /\ a <= LeafSize(d)[j] /\ LeafSize(d)[j] <= b
      BY <1>2, <2>1, <2>4
    <3> HIDE DEF S
    <3> QED
      BY <1>1, <2>1, <3>1, TotalBetween
  <2>6. a * (n - 1) <= Total(LeafSize(d), S) /\ Total(LeafSize(d), S) \in Nat
        /\ Total(LeafSize(d), S) <= Room
    <3>1. Total(LeafSize(d), S) <= Room
      BY <2>2 DEF Fits, Total
    <3> HIDE DEF S
    <3>2. Total(LeafSize(d), S) \in Nat
      BY <2>1, TotalTakes
    <3> QED
      BY <2>1, <2>5, <3>1, <3>2
  <2>7. a * (n - 1) \in Nat
    <3>1. n - 1 \in Nat
      BY <1>3
    <3> QED
      BY <1>1, <3>1
  <2> QED
    BY <1>1, <2>4, <2>6, <2>7
<1>7. n - 1 <= Room \div a
  <2> DEFINE q == Room \div a
             r == Room % a
  <2>1. Room = a * q + r /\ r \in Nat /\ r < a /\ q \in Nat
    BY <1>1
  <2> HIDE DEF q, r
  <2> SUFFICES ASSUME ~ (n - 1 <= q) PROVE FALSE
    BY DEF q
  <2>2. PICK m \in Nat : n - 1 = q + 1 + m
    <3>1. n - 1 - q - 1 \in Nat
      BY <1>3, <2>1
    <3> QED
      BY <1>3, <2>1, <3>1
  <2>3. a * (q + 1 + m) = a * q + a + a * m /\ a * m \in Nat /\ a * q \in Nat
    BY <1>1, <2>1
  <2>4. a * q + a + a * m <= Room
    BY <1>6, <2>2, <2>3
  <2> QED
    BY <1>1, <2>1, <2>3, <2>4
<1>8. n \div 2 <= few /\ n - (n \div 2) <= few /\ n \div 2 \in Nat /\ n - (n \div 2) \in Nat
  BY <1>1, <1>3, <1>7 DEF few
<1>9. ASSUME NEW S \in SUBSET K, Cardinality(S) <= few
      PROVE  LeafFits(Only(c, S))
  <2> DEFINE d == Only(c, S)
             t == Total(LeafSize(d), S)
             m == Cardinality(S)
  <2>1. DOMAIN d = S /\ \A j \in DOMAIN d : d[j] = c[j]
    BY DEF Only
  <2> HIDE DEF d
  <2>2. IsFiniteSet(S) /\ \A j \in S : LeafSize(d)[j] = size(j) /\ LeafSize(d)[j] \in Nat
    BY <1>5, <2>1
  <2>3. t <= b * m /\ t \in Nat /\ m \in Nat /\ m <= few
    <3>1. \A j \in S : LeafSize(d)[j] \in Nat /\ a <= LeafSize(d)[j] /\ LeafSize(d)[j] <= b
      BY <1>2, <1>6, <2>2
    <3> QED
      BY <1>1, <1>9, <2>2, <3>1, TotalBetween, TotalTakes, FS_CardinalityType
  <2> HIDE DEF t, m
  <2>4. t <= Room
    <3>1. b * m <= b * few /\ b * m \in Nat /\ b * few \in Nat
      BY <1>1, <2>3
    <3> QED
      BY <1>1, <2>3, <3>1
  <2> QED
    BY <2>1, <2>4 DEF LeafFits, Fits, Total, t, d
<1> DEFINE m == Median(K)
           B == Below(K, m)
           F == From(K, m)
<1>10. B \in SUBSET K /\ F \in SUBSET K /\ Cardinality(B) = n \div 2 /\ Cardinality(F) = n - (n \div 2)
  <2>1. m \in Int /\ B \in SUBSET K /\ F \in SUBSET K
    BY <1>3, <1>4, PartsSubset
  <2> HIDE DEF m
  <2>2. B \cup F = K /\ B \cap F = {}
    BY <1>3, <2>1, Parts
  <2>3. IsFiniteSet(B) /\ IsFiniteSet(F)
    BY <2>1, FS_Subset
  <2> HIDE DEF B, F
  <2>4. Cardinality(K) = Cardinality(B) + Cardinality(F) - Cardinality({})
    BY <2>2, <2>3, FS_Union
  <2>5. Cardinality({}) = 0 /\ Cardinality(F) \in Nat /\ Cardinality(B) \in Nat
    BY <2>3, FS_EmptySet, FS_CardinalityType
  <2>6. Cardinality(B) = n \div 2
    BY <1>4 DEF B, m
  <2>7. n = Cardinality(B) + Cardinality(F)
    BY <2>4, <2>5 DEF n
  <2>8. Cardinality(F) = n - (n \div 2)
    BY <1>3, <1>8, <2>5, <2>6, <2>7
  <2> QED
    BY <2>1, <2>6, <2>8
<1> QED
  BY <1>8, <1>9, <1>10

\* The map of a table: its separators take as much each, being rowids, and its
\* rows are of similar sizes.
COROLLARY TableMap ==
  ASSUME NEW c \in Nat, c <= Room, \A k \in Key : SepSize[k] = c,
         NEW a, NEW b, SimilarCells(a, b)
  PROVE  Spec => RefinesMap /\ KeysStay
BY UniformSeparators, HalvesFit, Refines, KeysKept
=============================================================================
