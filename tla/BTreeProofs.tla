---------------------------- MODULE BTreeProofs ----------------------------
(***************************************************************************)
(* The B+tree of internal/btree keeps its shape, for keys, payloads, sizes *)
(* and pages of any number: TypeOK, Balanced and TreeInv of BTree.         *)
(***************************************************************************)
EXTENDS BTree, FiniteSetTheorems, SequenceTheorems, TLAPS

-----------------------------------------------------------------------------
(* Finite sets of keys.                                                    *)

\* Every set of natural numbers has a least one.
LEMMA LeastNat ==
  ASSUME NEW I \in SUBSET Nat, I # {}
  PROVE  \E i \in I : \A j \in I : i <= j
<1> DEFINE Less == {ss \in Nat \X Nat : ss[1] < ss[2]}
<1>1. IsWellFoundedOn(Less, Nat)
  BY NatLessThanWellFounded, Zenon DEF OpToRel
<1> HIDE DEF Less
<1>2. PICK x \in I : \A y \in I : ~ (<<y, x>> \in Less)
  BY <1>1, WFMin
<1>3. \A y \in I : x <= y
  <2> SUFFICES ASSUME NEW y \in I PROVE x <= y
    OBVIOUS
  <2>1. <<y, x>> \notin Less
    BY <1>2
  <2> QED
    BY <2>1 DEF Less
<1> QED
  BY <1>3

\* The members of a set of keys, and of the parts that a key cuts it into.
LEMMA Parts ==
  ASSUME NEW K \in SUBSET Int, NEW k \in Int
  PROVE  \A j : /\ j \in K => j \in Int
                /\ j \in Below(K, k) <=> j \in K /\ j \in Int /\ j < k
                /\ j \in From(K, k) <=> j \in K /\ j \in Int /\ j >= k
                /\ j \in Above(K, k) <=> j \in K /\ j \in Int /\ j > k
BY DEF Below, From, Above

LEMMA PartsSubset ==
  ASSUME NEW K, NEW k
  PROVE  Below(K, k) \subseteq K /\ From(K, k) \subseteq K /\ Above(K, k) \subseteq K
BY DEF Below, From, Above

\* A finite set of keys has a first one.
LEMMA LeastKey ==
  ASSUME NEW K \in SUBSET Int, IsFiniteSet(K), K # {}
  PROVE  \E k \in K : \A j \in K : k <= j
<1> DEFINE rank == {Cardinality(Below(K, k)) : k \in K}
<1>1. \A k \in K : IsFiniteSet(Below(K, k)) /\ Cardinality(Below(K, k)) \in Nat
  <2> SUFFICES ASSUME NEW k \in K
               PROVE  IsFiniteSet(Below(K, k)) /\ Cardinality(Below(K, k)) \in Nat
    OBVIOUS
  <2>1. Below(K, k) \in SUBSET K
    BY PartsSubset
  <2> QED
    BY <2>1, FS_Subset, FS_CardinalityType
<1>2. rank \in SUBSET Nat /\ rank # {}
  BY <1>1
<1>3. PICK r \in rank : \A i \in rank : r <= i
  BY <1>2, LeastNat
<1>4. PICK k \in K : r = Cardinality(Below(K, k))
  BY <1>3
<1>5. SUFFICES ASSUME NEW j \in K, ~ (k <= j) PROVE FALSE
  OBVIOUS
<1>6. j \in Int /\ k \in Int /\ j < k
  BY <1>5
<1>7. Below(K, j) \in SUBSET Below(K, k) /\ j \in Below(K, k) /\ j \notin Below(K, j)
  BY <1>6, Parts
<1>8. Cardinality(Below(K, j)) <= r /\ Cardinality(Below(K, j)) # r
  BY <1>1, <1>4, <1>7, FS_Subset
<1>9. Cardinality(Below(K, j)) \in rank
  OBVIOUS
<1> QED
  BY <1>1, <1>2, <1>3, <1>8, <1>9

\* So First is what its name says.
LEMMA FirstKey ==
  ASSUME NEW K \in SUBSET Int, IsFiniteSet(K), K # {}
  PROVE  First(K) \in K /\ \A j \in K : First(K) <= j
BY LeastKey DEF First

\* And so is Last.
LEMMA LastKey ==
  ASSUME NEW K \in SUBSET Int, IsFiniteSet(K), K # {}
  PROVE  Last(K) \in K /\ \A j \in K : j <= Last(K)
<1> DEFINE N == {-k : k \in K}
           opp == [k \in K |-> -k]
<1>1. IsFiniteSet(N)
  <2>1. opp \in Surjection(K, N)
    BY DEF Surjection
  <2> QED
    BY <2>1, FS_Surjection
<1>2. N \in SUBSET Int /\ N # {}
  <2>1. \A k \in K : -k \in Int /\ -k \in N
    OBVIOUS
  <2> QED
    BY <2>1
<1>3. PICK m \in N : \A j \in N : m <= j
  BY <1>1, <1>2, LeastKey
<1>4. PICK k \in K : m = -k
  BY <1>3
<1>5. \A j \in K : -j \in N
  OBVIOUS
<1>6. \A j \in K : j <= k
  BY <1>3, <1>4, <1>5
<1> QED
  BY <1>4, <1>6 DEF Last

\* Nothing else is the first or the last of a set.
LEMMA FirstLastIs ==
  ASSUME NEW K \in SUBSET Int, NEW k \in K
  PROVE  /\ (\A j \in K : j <= k) => Last(K) = k
         /\ (\A j \in K : k <= j) => First(K) = k
<1>1. ASSUME \A j \in K : j <= k
      PROVE  Last(K) = k
  <2>1. Last(K) \in K /\ k <= Last(K) /\ Last(K) <= k
    BY <1>1 DEF Last
  <2>2. Last(K) \in Int /\ k \in Int
    BY <2>1
  <2> QED
    BY <2>1, <2>2
<1>2. ASSUME \A j \in K : k <= j
      PROVE  First(K) = k
  <2>1. First(K) \in K /\ k <= First(K) /\ First(K) <= k
    BY <1>2 DEF First
  <2>2. First(K) \in Int /\ k \in Int
    BY <2>1
  <2> QED
    BY <2>1, <2>2
<1> QED
  BY <1>1, <1>2

\* A finite set of keys has one of every rank, so the middle one exists.
LEMMA MedianKey ==
  ASSUME NEW K \in SUBSET Int, IsFiniteSet(K), K # {}
  PROVE  /\ Median(K) \in K /\ Cardinality(Below(K, Median(K))) = Cardinality(K) \div 2
         /\ (\E j, k \in K : j # k) => Below(K, Median(K)) # {}
<1> DEFINE n == Cardinality(K)
           half == n \div 2
           missed == {m \in Nat : m < n /\ \A k \in K : Cardinality(Below(K, k)) # m}
<1>1. n \in Nat /\ n # 0
  BY FS_CardinalityType, FS_EmptySet
<1>2. \A k \in K : IsFiniteSet(Below(K, k)) /\ Cardinality(Below(K, k)) \in Nat
  <2> SUFFICES ASSUME NEW k \in K
               PROVE  IsFiniteSet(Below(K, k)) /\ Cardinality(Below(K, k)) \in Nat
    OBVIOUS
  <2>1. Below(K, k) \in SUBSET K
    BY PartsSubset
  <2> QED
    BY <2>1, FS_Subset, FS_CardinalityType
<1>3. missed = {}
  <2> SUFFICES ASSUME missed # {} PROVE FALSE
    OBVIOUS
  <2>1. PICK m \in missed : \A j \in missed : m <= j
    BY LeastNat
  <2>2. m \in Nat /\ m < n /\ \A k \in K : Cardinality(Below(K, k)) # m
    BY <2>1
  <2>3. CASE m = 0
    <3>1. PICK k \in K : \A j \in K : k <= j
      BY LeastKey
    <3>2. k \in Int
      OBVIOUS
    <3>3. \A j : j \notin Below(K, k)
      BY <3>1, <3>2, Parts
    <3> QED
      BY <2>2, <2>3, <3>3, FS_EmptySet
  <2>4. CASE m # 0
    <3>1. m - 1 \in Nat /\ m - 1 < n /\ m - 1 \notin missed
      BY <1>1, <2>1, <2>2, <2>4
    <3>2. PICK k \in K : Cardinality(Below(K, k)) = m - 1
      BY <3>1
    <3>3. k \in Int
      OBVIOUS
    <3> DEFINE upTo == Below(K, k) \cup {k}
    <3>4. Cardinality(upTo) = m
      <4>1. k \notin Below(K, k)
        BY <3>3, Parts
      <4>2. Cardinality(upTo) = (m - 1) + 1
        BY <1>2, <3>2, <4>1, FS_AddElement
      <4> QED
        BY <2>2, <4>2
    <3>5. Above(K, k) # {}
      <4> SUFFICES ASSUME Above(K, k) = {} PROVE FALSE
        OBVIOUS
      <4>1. \A j : j \in K <=> j \in Below(K, k) \/ j = k
        BY <3>3, Parts
      <4>2. K = upTo
        BY <4>1
      <4>3. n = m
        BY <3>4, <4>2
      <4> HIDE DEF n
      <4> QED
        BY <1>1, <2>2, <4>3
    <3>6. Above(K, k) \in SUBSET K /\ IsFiniteSet(Above(K, k)) /\ Above(K, k) \in SUBSET Int
      BY PartsSubset, FS_Subset
    <3>7. PICK j \in Above(K, k) : \A i \in Above(K, k) : j <= i
      BY <3>5, <3>6, LeastKey
    <3>8. j \in K /\ j \in Int /\ k < j
      BY <3>3, <3>7, Parts
    <3>9. \A i : i \in Below(K, j) <=> i \in Below(K, k) \/ i = k
      <4>1. ASSUME NEW i \in Below(K, j) PROVE i \in Below(K, k) \/ i = k
        <5>1. i \in K /\ i \in Int /\ i < j
          BY <3>8, Parts
        <5>2. i \notin Above(K, k)
          BY <3>7, <3>8, <5>1
        <5> QED
          BY <3>3, <5>1, <5>2, Parts
      <4>2. ASSUME NEW i \in Below(K, k) \cup {k} PROVE i \in Below(K, j)
        BY <3>3, <3>8, Parts
      <4> QED
        BY <4>1, <4>2
    <3>10. Below(K, j) = upTo
      BY <3>9
    <3> QED
      BY <2>2, <3>4, <3>8, <3>10
  <2> QED
    BY <2>3, <2>4
<1>4. half \in Nat /\ half < n
  <2> HIDE DEF n
  <2> QED BY <1>1
<1>5. \E k \in K : Cardinality(Below(K, k)) = half
  BY <1>3, <1>4
<1>6. Median(K) \in K /\ Cardinality(Below(K, Median(K))) = half
  BY <1>5 DEF Median
<1>7. ASSUME NEW j \in K, NEW k \in K, j # k PROVE half # 0
  <2>1. {j} \in SUBSET K /\ Cardinality({j}) = 1 /\ {j} # K
    BY <1>7, FS_Singleton
  <2>2. n # 1
    BY <2>1, FS_Subset
  <2> HIDE DEF n
  <2> QED
    BY <1>1, <2>2
<1> QED
  BY <1>6, <1>7, FS_EmptySet

-----------------------------------------------------------------------------
(* The shape of a tree.                                                    *)

\* The cells of a page: finitely many keys, each with a value in V.
IsCells(c, V) == DOMAIN c \subseteq Key /\ IsFiniteSet(DOMAIN c) /\ c \in [DOMAIN c -> V]

\* A page holds a leaf with payloads or an interior node with children in P.
IsNode(n, P) ==
  /\ n = [leaf |-> n.leaf, cells |-> n.cells, extra |-> n.extra, span |-> n.span]
  /\ n.leaf \in BOOLEAN /\ n.span \subseteq Key
  /\ n.extra \in IF n.leaf THEN P \cup {0} ELSE P
  /\ n.leaf => IsCells(n.cells, Val)
  /\ ~n.leaf => IsCells(n.cells, P)

IsTree(t) ==
  /\ t = [p \in DOMAIN t |-> t[p]] /\ Root \in DOMAIN t /\ 0 \notin DOMAIN t
  /\ \A p \in DOMAIN t : IsNode(t[p], DOMAIN t)

Numbered(t) == IsFiniteSet(DOMAIN t) /\ DOMAIN t = 1 .. Cardinality(DOMAIN t)

Inner(t) == {p \in DOMAIN t : ~t[p].leaf}
Outer(t) == {p \in DOMAIN t : t[p].leaf}
Kids(n) == {n.extra} \cup {n.cells[s] : s \in DOMAIN n.cells}

\* A child holds the keys that ChildPage sends to it, of those its parent holds.
Routes(t) ==
  \A p \in Inner(t) : \A c \in Kids(t[p]) :
    t[c].span = {k \in t[p].span : ChildPage(t[p], k) = c}

\* No page is a child of a node twice.
Distinct(n) ==
  /\ \A s \in DOMAIN n.cells : n.cells[s] # n.extra
  /\ \A r, s \in DOMAIN n.cells : n.cells[r] = n.cells[s] => r = s

\* Every page but the root is at most one child of at most one node.
OneParent(t) ==
  \A p \in Inner(t) :
    /\ Root \notin Kids(t[p]) /\ Distinct(t[p])
    /\ \A q \in Inner(t) : p # q => Kids(t[p]) \cap Kids(t[q]) = {}

\* The spans of the leaves are disjoint intervals, and hold their cells.
LeafSpans(t) ==
  \A p \in Outer(t) :
    /\ DOMAIN t[p].cells \subseteq t[p].span
    /\ \A i, j \in t[p].span, k \in Key : i <= k /\ k <= j => k \in t[p].span
    /\ \A q \in Outer(t) : p # q => t[p].span \cap t[q].span = {}

\* The keys past a leaf begin with the keys of the next leaf.
Chain(t) ==
  \A p \in Outer(t) :
    IF t[p].extra = 0
    THEN \A k \in Key : \E j \in t[p].span : ~ (j < k)
    ELSE /\ t[p].extra \in Outer(t) /\ t[p].extra # Root
         /\ \E lo \in t[t[p].extra].span :
              /\ \A k \in t[t[p].extra].span : lo <= k
              /\ \A k \in Key : (\A j \in t[p].span : j < k) <=> lo <= k

WellFormed(t) ==
  /\ IsTree(t)
  /\ t[Root].span = Key /\ \A p \in DOMAIN t : t[p].span # {}
  /\ Routes(t) /\ OneParent(t) /\ LeafSpans(t) /\ Chain(t)

\* The tree once the separator s of a split has reached the level above: in the
\* parent p of the page that was split, or in a new root.
AddSep(n, s) == Interior(With(n.cells, s.sep, s.page), n.extra, n.span)
Joined(t, p, s) == With(t, p, AddSep(t[p], s))
Grown(t, s) ==
  LET new == Cardinality(DOMAIN t) + 1
  IN  With(With(t, Root, Interior(With(<< >>, s.sep, s.page), new, Key)), new, t[Root])

\* The pages that differ from the last commit are those the pager was told of.
Synced == \A p \in Pages \ captured : p \in DOMAIN disk /\ page[p] = disk[p]

\* Types, with what the call in progress needs of its arguments and its path.
PagesInv ==
  /\ IsTree(page) /\ Numbered(page) /\ IsTree(disk) /\ Numbered(disk)
  /\ DOMAIN disk \subseteq Pages /\ captured \subseteq Pages /\ Synced

CallInv ==
  /\ mode \in {"idle", "txn", "failed"} /\ (mode # "txn" => op = "none")
  /\ op \in {"none", "insert", "delete", "update", "get", "seek", "first", "scan"}
  /\ key \in Key \cup {None} /\ val \in Val \cup {None}
  /\ op \in {"insert", "delete", "update", "get", "seek"} => key \in Key
  /\ op \in {"insert", "update"} => val \in Val
  /\ rest \subseteq Key /\ ops \in 0 .. MaxOps

PathTypes ==
  /\ path \in Seq(Pages)
  /\ pend \subseteq [sep : Key, page : Pages] /\ (\A r, s \in pend : r = s)
  /\ op = "none" => path = << >>
  /\ op # "none" /\ pend = {} => path # << >>
  /\ pend # {} => op = "insert" /\ (path # << >> => ~node.leaf)
  /\ \A i \in 1 .. Len(path) : i < Len(path) => ~page[path[i]].leaf

TypeInv == PagesInv /\ CallInv /\ PathTypes

\* Every node is one level above its children; the page of a split is on the
\* level of the one it was split from.
Levels(t, h) ==
  /\ h \in [DOMAIN t -> Nat]
  /\ \A p \in Outer(t) : h[p] = 0
  /\ \A p \in Inner(t) : \A c \in Kids(t[p]) : c # Root /\ h[p] = 1 + h[c]

PathLevels(h) ==
  /\ op \notin {"none", "scan"} /\ path # << >> => path[1] = Root
  /\ op # "scan" => \A i, j \in 1 .. Len(path) : j = i + 1 => h[path[i]] = 1 + h[path[j]]
  /\ \A s \in pend : s.page # Root /\ IF path = << >> THEN h[s.page] = h[Root] ELSE h[Top] = 1 + h[s.page]

LevelInv ==
  /\ \E h : Levels(disk, h)
  /\ \E h : Levels(page, h) /\ PathLevels(h)

\* The way down: each page of the path is where the one before it sends the key.
PathInv ==
  op \notin {"none", "scan"} /\ path # << >> =>
    /\ path[1] = Root
    /\ \A i, j \in 1 .. Len(path) :
         /\ path[i] = path[j] => i = j
         /\ j = i + 1 => path[j] = IF op = "first" THEN page[path[i]].extra
                                   ELSE ChildPage(page[path[i]], key)
         /\ op # "first" => key \in page[path[i]].span

SeparatorsIn(t) == \A p \in Inner(t) : InteriorFits(t[p].cells)

\* The tree is well formed once a pending separator is counted in.
Shaped ==
  /\ SeparatorsIn(page) /\ PathInv
  /\ pend = {} => WellFormed(page)
  /\ \A s \in pend : WellFormed(IF path = << >> THEN Grown(page, s) ELSE Joined(page, Top, s))
  /\ op = "scan" => node.leaf

ShapeInv ==
  /\ WellFormed(disk) /\ SeparatorsIn(disk)
  /\ mode # "failed" => Shaped

\* The halves of a node of separators that has just become too full fit.  They
\* do when all separators take as much: the keys of a table, rowids, do.
SeparatorsFit ==
  /\ \A k \in Key : Fits(SepSize, {k})
  /\ \A K \in SUBSET Key : \A k \in K :
       IsFiniteSet(K) /\ Fits(SepSize, K \ {k}) =>
         Fits(SepSize, Below(K, Median(K))) /\ Fits(SepSize, Above(K, Median(K)))

-----------------------------------------------------------------------------
(* Nodes and trees, changed in one place.                                  *)

LEMMA WithIs ==
  ASSUME NEW c, NEW k, NEW v
  PROVE  /\ DOMAIN With(c, k, v) = DOMAIN c \cup {k}
         /\ With(c, k, v)[k] = v
         /\ \A j \in DOMAIN c : j # k => With(c, k, v)[j] = c[j]
         /\ With(c, k, v) = [j \in DOMAIN With(c, k, v) |-> With(c, k, v)[j]]
         /\ IsFiniteSet(DOMAIN c) => IsFiniteSet(DOMAIN With(c, k, v))
<1>1. IsFiniteSet(DOMAIN c) => IsFiniteSet(DOMAIN c \cup {k})
  BY FS_AddElement
<1> QED
  BY <1>1 DEF With

LEMMA WithCells ==
  ASSUME NEW c, NEW V, IsCells(c, V), NEW k \in Key, NEW v \in V
  PROVE  IsCells(With(c, k, v), V)
<1>1. IsFiniteSet(DOMAIN c \cup {k})
  BY FS_AddElement DEF IsCells
<1> QED
  BY <1>1 DEF With, IsCells

LEMMA OnlyIs ==
  ASSUME NEW c, NEW K
  PROVE  /\ DOMAIN Only(c, K) = DOMAIN c \cap K
         /\ \A j \in DOMAIN Only(c, K) : Only(c, K)[j] = c[j]
BY DEF Only

LEMMA OnlyCells ==
  ASSUME NEW c, NEW V, IsCells(c, V), NEW K
  PROVE  IsCells(Only(c, K), V)
<1>1. IsFiniteSet(DOMAIN c \cap K)
  BY FS_Subset DEF IsCells
<1> QED
  BY <1>1 DEF Only, IsCells

LEMMA WithoutIs ==
  ASSUME NEW c, NEW k
  PROVE  /\ DOMAIN Without(c, k) = DOMAIN c \ {k}
         /\ \A j \in DOMAIN Without(c, k) : Without(c, k)[j] = c[j]
BY DEF Without

LEMMA WithoutCells ==
  ASSUME NEW c, NEW V, IsCells(c, V), NEW k
  PROVE  IsCells(Without(c, k), V)
<1>1. IsFiniteSet(DOMAIN c \ {k})
  BY FS_Subset DEF IsCells
<1> QED
  BY <1>1 DEF Without, IsCells

\* A half is packed with cells of its own, whether or not all of them fit.
LEMMA PackIs ==
  ASSUME NEW c, NEW V, IsCells(c, V)
  PROVE  /\ \E K : PackLeaf(c) = Only(c, K)
         /\ \E K : PackInterior(c) = Only(c, K)
         /\ LeafFits(c) => PackLeaf(c) = c
         /\ InteriorFits(c) => PackInterior(c) = c
<1>1. c = Only(c, DOMAIN c)
  BY DEF Only, IsCells
<1> QED
  BY <1>1 DEF Pack, PackLeaf, PackInterior

LEMMA LeafFields ==
  ASSUME NEW c, NEW x, NEW s
  PROVE  /\ Leaf(c, x, s).leaf = TRUE /\ Leaf(c, x, s).cells = c
         /\ Leaf(c, x, s).extra = x /\ Leaf(c, x, s).span = s
         /\ Interior(c, x, s).leaf = FALSE /\ Interior(c, x, s).cells = c
         /\ Interior(c, x, s).extra = x /\ Interior(c, x, s).span = s
BY DEF Leaf, Interior

LEMMA NodeOf ==
  ASSUME NEW P, NEW c, NEW x, NEW s \in SUBSET Key
  PROVE  /\ IsCells(c, Val) /\ x \in P \cup {0} => IsNode(Leaf(c, x, s), P)
         /\ IsCells(c, P) /\ x \in P => IsNode(Interior(c, x, s), P)
BY DEF IsNode, Leaf, Interior

LEMMA NodeGrows ==
  ASSUME NEW n, NEW P, NEW Q, P \subseteq Q, IsNode(n, P)
  PROVE  IsNode(n, Q)
<1>1. ~n.leaf => IsCells(n.cells, Q)
  BY DEF IsNode, IsCells
<1>2. n.extra \in IF n.leaf THEN Q \cup {0} ELSE Q
  BY DEF IsNode
<1> QED
  BY <1>1, <1>2 DEF IsNode

\* A tree with a page written, old or new.
LEMMA TreeWith ==
  ASSUME NEW t, IsTree(t), NEW p, p # 0, NEW n, IsNode(n, DOMAIN t \cup {p})
  PROVE  IsTree(With(t, p, n))
<1> DEFINE u == With(t, p, n)
<1>1. /\ DOMAIN u = DOMAIN t \cup {p} /\ u[p] = n /\ \A q \in DOMAIN t : q # p => u[q] = t[q]
      /\ u = [q \in DOMAIN u |-> u[q]]
  BY DEF With
<1> HIDE DEF u
<1>2. Root \in DOMAIN u /\ 0 \notin DOMAIN u
  BY <1>1 DEF IsTree
<1>3. ASSUME NEW q \in DOMAIN u PROVE IsNode(u[q], DOMAIN u)
  <2>1. CASE q = p
    BY <1>1, <2>1
  <2>2. CASE q # p
    <3>1. q \in DOMAIN t /\ u[q] = t[q] /\ IsNode(t[q], DOMAIN t)
      BY <1>1, <2>2 DEF IsTree
    <3> QED
      BY <1>1, <3>1, NodeGrows
  <2> QED
    BY <2>1, <2>2
<1> QED
  BY <1>1, <1>2, <1>3 DEF IsTree, u

\* s is the separator whose child key k belongs to; no separator has it when
\* all of them are greater.
Slot(n, k, s) == s \in DOMAIN n.cells /\ s <= k /\ \A r \in DOMAIN n.cells : r <= k => r <= s
NoSlot(n, k) == \A s \in DOMAIN n.cells : ~ (s <= k)

LEMMA ChildPageIs ==
  ASSUME NEW n, DOMAIN n.cells \subseteq Key, IsFiniteSet(DOMAIN n.cells), NEW k \in Key
  PROVE  /\ NoSlot(n, k) \/ \E s \in DOMAIN n.cells : Slot(n, k, s)
         /\ NoSlot(n, k) => ChildPage(n, k) = n.extra
         /\ \A s : Slot(n, k, s) => ChildPage(n, k) = n.cells[s]
         /\ ChildPage(n, k) \in Kids(n)
<1> DEFINE seps == {s \in DOMAIN n.cells : s <= k}
<1>1. seps \in SUBSET Int /\ IsFiniteSet(seps)
  <2>1. seps \in SUBSET (DOMAIN n.cells)
    OBVIOUS
  <2> QED
    BY <2>1, FS_Subset, BTreeAssumption
<1>2. ChildPage(n, k) = IF seps = {} THEN n.extra ELSE n.cells[Last(seps)]
  BY DEF ChildPage
<1>3. \A s : s \in seps <=> s \in DOMAIN n.cells /\ s <= k
  OBVIOUS
<1> HIDE DEF seps
<1>4. CASE seps = {}
  <2>1. NoSlot(n, k)
    BY <1>3, <1>4 DEF NoSlot
  <2> QED
    BY <1>2, <1>4, <2>1 DEF NoSlot, Slot, Kids
<1>5. CASE seps # {}
  <2>1. Last(seps) \in seps /\ \A j \in seps : j <= Last(seps)
    BY <1>1, <1>5, LastKey
  <2>2. Slot(n, k, Last(seps)) /\ ~NoSlot(n, k)
    BY <1>3, <2>1 DEF Slot, NoSlot
  <2>3. ASSUME NEW s, Slot(n, k, s) PROVE s = Last(seps)
    <3>1. s \in seps /\ \A r \in seps : r <= s
      BY <1>3, <2>3 DEF Slot
    <3> QED
      BY <1>1, <3>1, FirstLastIs
  <2> QED
    BY <1>2, <1>5, <2>1, <2>2, <2>3, <1>3 DEF Kids
<1> QED
  BY <1>4, <1>5

\* A node of a tree, and where its pointers lead.
LEMMA NodeIn ==
  ASSUME NEW t, IsTree(t), NEW p \in DOMAIN t
  PROVE  /\ IsNode(t[p], DOMAIN t)
         /\ t[p].leaf \in BOOLEAN /\ t[p].span \subseteq Key
         /\ DOMAIN t[p].cells \subseteq Key /\ IsFiniteSet(DOMAIN t[p].cells)
         /\ t[p].leaf => IsCells(t[p].cells, Val) /\ t[p].extra \in DOMAIN t \cup {0}
         /\ ~t[p].leaf => /\ IsCells(t[p].cells, DOMAIN t)
                          /\ t[p].extra \in DOMAIN t /\ Kids(t[p]) \subseteq DOMAIN t
<1>1. IsNode(t[p], DOMAIN t)
  BY DEF IsTree
<1> QED
  BY <1>1 DEF IsNode, IsCells, Kids

-----------------------------------------------------------------------------
(* Types.                                                                  *)

\* The page that Allocate gives is new, and the last one.
LEMMA NewPageIs ==
  ASSUME NEW t, IsTree(t), Numbered(t), NEW n, n = Cardinality(DOMAIN t) + 1
  PROVE  /\ n \in Nat /\ n \notin DOMAIN t /\ n # 0 /\ n # Root
         /\ \A u : DOMAIN u = DOMAIN t \cup {n} => Numbered(u) /\ Cardinality(DOMAIN u) = n
         /\ Root \in DOMAIN t
<1> DEFINE m == Cardinality(DOMAIN t)
<1>1. m \in Nat /\ DOMAIN t = 1 .. m /\ IsFiniteSet(DOMAIN t) /\ Root \in DOMAIN t
  BY FS_CardinalityType DEF Numbered, IsTree
<1> HIDE DEF m
<1>2. n = m + 1
  BY DEF m
<1>3. n \in Nat /\ n \notin DOMAIN t /\ n # 0 /\ n # Root
  BY <1>1, <1>2 DEF Root
<1>4. ASSUME NEW u, DOMAIN u = DOMAIN t \cup {n}
      PROVE  Numbered(u) /\ Cardinality(DOMAIN u) = n
  <2> DEFINE D == DOMAIN t \cup {n}
  <2>0. IsFiniteSet(D) /\ Cardinality(D) = Cardinality(DOMAIN t) + 1
    BY <1>1, <1>3, FS_AddElement
  <2>1. IsFiniteSet(DOMAIN u) /\ Cardinality(DOMAIN u) = Cardinality(DOMAIN t) + 1
    BY <1>4, <2>0
  <2>2. DOMAIN u = 1 .. n
    BY <1>1, <1>2, <1>4
  <2>3. Cardinality(DOMAIN u) = n
    BY <2>1
  <2> QED
    BY <2>1, <2>2, <2>3 DEF Numbered
<1> QED
  BY <1>1, <1>3, <1>4

LEMMA NumberedSame ==
  ASSUME NEW t, Numbered(t), NEW u, DOMAIN u = DOMAIN t
  PROVE  Numbered(u)
BY DEF Numbered

\* The page at the end of the path.
LEMMA TopIs ==
  ASSUME TypeInv, path # << >>
  PROVE  /\ Top \in Pages /\ Len(path) \in Nat \ {0} /\ Len(path) \in 1 .. Len(path)
         /\ IsNode(node, Pages) /\ node = page[Top]
         /\ node.leaf \in BOOLEAN /\ node.span \subseteq Key
         /\ DOMAIN node.cells \subseteq Key /\ IsFiniteSet(DOMAIN node.cells)
         /\ node.leaf => IsCells(node.cells, Val) /\ node.extra \in Pages \cup {0}
         /\ ~node.leaf => /\ IsCells(node.cells, Pages)
                          /\ node.extra \in Pages /\ Kids(node) \subseteq Pages
<1>1. Top \in Pages /\ Len(path) \in Nat \ {0} /\ Len(path) \in 1 .. Len(path)
  BY DEF TypeInv, PathTypes, Top
<1>2. IsTree(page) /\ node = page[Top]
  BY DEF TypeInv, PagesInv, node
<1> QED
  BY <1>1, <1>2, NodeIn DEF Pages

\* What the actions that write pages make of them.
LEMMA PageSteps ==
  ASSUME TypeInv, path # << >>
  PROVE  /\ InsertInLeaf => page' = With(page, Top, Leaf(With(node.cells, key, val), node.extra, node.span))
         /\ (DeleteFromLeaf \/ UpdateFromLeaf) /\ key \in DOMAIN node.cells =>
              page' = With(page, Top, Leaf(Without(node.cells, key), node.extra, node.span))
         /\ (DeleteFromLeaf \/ UpdateFromLeaf) /\ key \notin DOMAIN node.cells => page' = page
         /\ InsertInParent => \E s \in pend : /\ InteriorFits(With(node.cells, s.sep, s.page))
                                              /\ page' = Joined(page, Top, s)
         /\ \A sep, left, right :
              Split(sep, left, right) => page' = With(With(page, Top, left), NewPage, right)
<1>1. Top \in Pages /\ node = page[Top] /\ IsTree(page)
  BY TopIs DEF TypeInv, PagesInv
<1>2. ASSUME NEW n, NEW c
      PROVE  /\ [page EXCEPT ![Top] = n] = With(page, Top, n)
             /\ node.leaf =>
                  [page EXCEPT ![Top].cells = c] = With(page, Top, Leaf(c, node.extra, node.span))
             /\ ~node.leaf =>
                  [page EXCEPT ![Top].cells = c] = With(page, Top, Interior(c, node.extra, node.span))
  <2>1. Top \in DOMAIN page /\ page = [p \in DOMAIN page |-> page[p]] /\ IsNode(node, DOMAIN page)
    BY <1>1 DEF Pages, IsTree
  <2>2. ASSUME NEW m
        PROVE  [page EXCEPT ![Top] = m] = With(page, Top, m)
    BY <2>1 DEF With
  <2>3. node = [leaf |-> node.leaf, cells |-> node.cells, extra |-> node.extra, span |-> node.span]
        /\ node.leaf \in BOOLEAN
    BY <2>1 DEF IsNode
  <2>4. [node EXCEPT !.cells = c] =
          [leaf |-> node.leaf, cells |-> c, extra |-> node.extra, span |-> node.span]
    BY <2>3
  <2>5. /\ node.leaf => [node EXCEPT !.cells = c] = Leaf(c, node.extra, node.span)
        /\ ~node.leaf => [node EXCEPT !.cells = c] = Interior(c, node.extra, node.span)
    BY <2>3, <2>4 DEF Leaf, Interior
  <2>6. [page EXCEPT ![Top].cells = c] = [page EXCEPT ![Top] = [node EXCEPT !.cells = c]]
    BY <1>1, <2>1
  <2> QED
    BY <2>2, <2>5, <2>6
<1>3. ASSUME InsertInLeaf
      PROVE  page' = With(page, Top, Leaf(With(node.cells, key, val), node.extra, node.span))
  BY <1>1, <1>2, <1>3 DEF InsertInLeaf, AtLeaf
<1>4. ASSUME DeleteFromLeaf \/ UpdateFromLeaf, key \in DOMAIN node.cells
      PROVE  page' = With(page, Top, Leaf(Without(node.cells, key), node.extra, node.span))
  BY <1>1, <1>2, <1>4 DEF DeleteFromLeaf, UpdateFromLeaf, AtLeaf
<1>5. ASSUME DeleteFromLeaf \/ UpdateFromLeaf, key \notin DOMAIN node.cells
      PROVE  page' = page
  BY <1>5 DEF DeleteFromLeaf, UpdateFromLeaf
<1>6. ASSUME InsertInParent
      PROVE  \E s \in pend : InteriorFits(With(node.cells, s.sep, s.page)) /\ page' = Joined(page, Top, s)
  <2>1. ~node.leaf
    BY <1>6 DEF InsertInParent, TypeInv, PathTypes
  <2>2. PICK s \in pend : /\ InteriorFits(With(node.cells, s.sep, s.page))
                          /\ page' = [page EXCEPT ![Top].cells = With(@, s.sep, s.page)]
    BY <1>6 DEF InsertInParent
  <2>3. page' = With(page, Top, Interior(With(node.cells, s.sep, s.page), node.extra, node.span))
    BY <1>1, <1>2, <2>1, <2>2
  <2> QED
    BY <1>1, <2>2, <2>3 DEF Joined, AddSep
<1>7. ASSUME NEW sep, NEW left, NEW right, Split(sep, left, right)
      PROVE  page' = With(With(page, Top, left), NewPage, right)
  BY <1>2, <1>7 DEF Split
<1> QED
  BY <1>3, <1>4, <1>5, <1>6, <1>7

LEMMA GrowStep ==
  ASSUME TypeInv, GrowRoot
  PROVE  \E s \in pend : page' = Grown(page, s)
<1>1. IsTree(page)
  BY DEF TypeInv, PagesInv
<1>2. PICK s \in pend :
        page' = With([page EXCEPT ![Root] = Interior(With(<< >>, s.sep, s.page), NewPage, Key)],
                     NewPage, page[Root])
  BY DEF GrowRoot
<1>3. \A m : [page EXCEPT ![Root] = m] = With(page, Root, m)
  BY <1>1 DEF IsTree, With
<1> QED
  BY <1>2, <1>3 DEF Grown, NewPage

\* A call that returns leaves nothing of its arguments or its path.
LEMMA ReturnTypes ==
  ASSUME TypeInv, NEW m \in {"txn", "failed"}, Return(m)
  PROVE  CallInv' /\ PathTypes'
BY DEF TypeInv, CallInv, PathTypes, Return, NoCall

\* One page written, with a node of the kind it had.
LEMMA WriteTypes ==
  ASSUME TypeInv, path # << >>, NEW n, IsNode(n, Pages), page' = With(page, Top, n),
         UNCHANGED disk, captured' = captured \cup {Top}
  PROVE  PagesInv' /\ Pages' = Pages
<1>1. Top \in Pages /\ 0 \notin Pages /\ Pages = DOMAIN page /\ IsTree(page)
  BY TopIs DEF TypeInv, PagesInv, IsTree, Pages
<1>2. DOMAIN page' = DOMAIN page
  BY <1>1 DEF With
<1>3. DOMAIN page \cup {Top} = DOMAIN page /\ Top # 0
  BY <1>1
<1>4. IsTree(page')
  BY <1>1, <1>3, TreeWith
<1>5. Numbered(page')
  BY <1>2, NumberedSame DEF TypeInv, PagesInv
<1>6. Synced'
  <2>1. \A p \in Pages : p # Top => page'[p] = page[p]
    BY <1>1 DEF With
  <2> QED
    BY <1>1, <1>2, <2>1 DEF TypeInv, PagesInv, Synced, Pages
<1> QED
  BY <1>1, <1>2, <1>4, <1>5, <1>6 DEF TypeInv, PagesInv, Pages

LEMMA LeafTypes ==
  ASSUME TypeInv, InsertInLeaf \/ DeleteFromLeaf
  PROVE  TypeInv'
<1>1. path # << >> /\ node.leaf
  BY DEF TypeInv, PathTypes, InsertInLeaf, DeleteFromLeaf, AtLeaf
<1>2. CASE InsertInLeaf
  <2> DEFINE c == With(node.cells, key, val)
  <2>1. key \in Key /\ val \in Val
    BY <1>2 DEF TypeInv, CallInv, InsertInLeaf, AtLeaf
  <2>2. IsCells(c, Val)
    BY <1>1, <2>1, TopIs, WithCells
  <2>4. page' = With(page, Top, Leaf(c, node.extra, node.span))
    BY <1>1, <1>2, PageSteps
  <2> HIDE DEF c
  <2>5. IsNode(Leaf(c, node.extra, node.span), Pages)
    BY <1>1, <2>2, NodeOf, TopIs
  <2>6. UNCHANGED disk /\ captured' = captured \cup {Top}
    BY <1>2 DEF InsertInLeaf
  <2>7. PagesInv'
    BY <1>1, <2>4, <2>5, <2>6, WriteTypes
  <2>8. Return("txn")
    BY <1>2 DEF InsertInLeaf
  <2> QED
    BY <2>7, <2>8, ReturnTypes DEF TypeInv
<1>3. CASE DeleteFromLeaf
  <2>1. Return("txn") /\ UNCHANGED disk
    BY <1>3 DEF DeleteFromLeaf
  <2>2. CASE key \in DOMAIN node.cells
    <3> DEFINE c == Without(node.cells, key)
    <3>1. IsCells(c, Val)
      BY <1>1, TopIs, WithoutCells
    <3>2. page' = With(page, Top, Leaf(c, node.extra, node.span))
      BY <1>1, <1>3, <2>2, PageSteps
    <3> HIDE DEF c
    <3>3. IsNode(Leaf(c, node.extra, node.span), Pages)
      BY <1>1, <3>1, NodeOf, TopIs
    <3>4. captured' = captured \cup {Top}
      BY <1>3, <2>2 DEF DeleteFromLeaf
    <3>5. PagesInv'
      BY <1>1, <2>1, <3>2, <3>3, <3>4, WriteTypes
    <3> QED
      BY <2>1, <3>5, ReturnTypes DEF TypeInv
  <2>3. CASE key \notin DOMAIN node.cells
    <3>1. UNCHANGED <<page, captured>>
      BY <1>3, <2>3 DEF DeleteFromLeaf
    <3>2. PagesInv'
      BY <2>1, <3>1 DEF TypeInv, PagesInv, Synced, Pages
    <3> QED
      BY <2>1, <3>2, ReturnTypes DEF TypeInv
  <2> QED
    BY <2>2, <2>3
<1> QED
  BY <1>2, <1>3

\* Cells as a split packs them: of K, all when they fit.
Packed(c, K, d, V) ==
  IsCells(d, V) /\ DOMAIN d \subseteq DOMAIN c \cap K /\ \A j \in DOMAIN d : d[j] = c[j]

LEMMA PackCells ==
  ASSUME NEW c, NEW V, IsCells(c, V), NEW K
  PROVE  /\ Packed(c, K, PackLeaf(Only(c, K)), V)
         /\ Packed(c, K, PackInterior(Only(c, K)), V)
<1>1. ASSUME NEW J PROVE Packed(c, K, Only(Only(c, K), J), V)
  <2>1. IsCells(Only(Only(c, K), J), V)
    BY OnlyCells
  <2>2. /\ DOMAIN Only(Only(c, K), J) = (DOMAIN c \cap K) \cap J
        /\ \A j \in DOMAIN Only(Only(c, K), J) : Only(Only(c, K), J)[j] = c[j]
    BY DEF Only
  <2> QED
    BY <2>1, <2>2 DEF Packed
<1>2. /\ \E J : PackLeaf(Only(c, K)) = Only(Only(c, K), J)
      /\ \E J : PackInterior(Only(c, K)) = Only(Only(c, K), J)
  BY OnlyCells, PackIs
<1> QED
  BY <1>1, <1>2

\* The halves of a leaf that key does not fit in.
LEMMA SplitLeafIs ==
  ASSUME TypeInv, SplitLeaf
  PROVE  /\ path # << >> /\ node.leaf /\ key \in Key /\ val \in Val /\ op = "insert" /\ pend = {}
         /\ ~TooLarge /\ ~LeafFits(With(node.cells, key, val))
         /\ \E all, sep, cl, cr :
              /\ all = With(node.cells, key, val) /\ IsCells(all, Val)
              /\ sep = Median(DOMAIN all) /\ sep \in DOMAIN all
              /\ Packed(all, Below(DOMAIN all, sep), cl, Val)
              /\ Packed(all, From(DOMAIN all, sep), cr, Val)
              /\ LeafFits(Only(all, Below(DOMAIN all, sep))) => cl = Only(all, Below(DOMAIN all, sep))
              /\ LeafFits(Only(all, From(DOMAIN all, sep))) => cr = Only(all, From(DOMAIN all, sep))
              /\ Split(sep, Leaf(cl, NewPage, Below(node.span, sep)),
                            Leaf(cr, node.extra, From(node.span, sep)))
<1> DEFINE all == With(node.cells, key, val)
           sep == Median(DOMAIN all)
           cl == PackLeaf(Only(all, Below(DOMAIN all, sep)))
           cr == PackLeaf(Only(all, From(DOMAIN all, sep)))
<1>1. /\ path # << >> /\ node.leaf /\ key \in Key /\ val \in Val /\ op = "insert" /\ pend = {}
      /\ ~TooLarge
  BY DEF TypeInv, PathTypes, CallInv, SplitLeaf, AtLeaf
<1>2. /\ ~LeafFits(all)
      /\ Split(sep, Leaf(cl, NewPage, Below(node.span, sep)), Leaf(cr, node.extra, From(node.span, sep)))
  BY DEF SplitLeaf
<1>3. IsCells(all, Val)
  BY <1>1, TopIs, WithCells
<1>4. key \in DOMAIN all
  BY DEF With
<1> HIDE DEF all
<1>5. sep \in DOMAIN all
  <2>1. DOMAIN all \in SUBSET Int /\ IsFiniteSet(DOMAIN all) /\ DOMAIN all # {}
    BY <1>3, <1>4, BTreeAssumption DEF IsCells
  <2> QED
    BY <2>1, MedianKey
<1> HIDE DEF sep
<1>6. /\ Packed(all, Below(DOMAIN all, sep), cl, Val) /\ Packed(all, From(DOMAIN all, sep), cr, Val)
  BY <1>3, PackCells
<1>7. /\ LeafFits(Only(all, Below(DOMAIN all, sep))) => cl = Only(all, Below(DOMAIN all, sep))
      /\ LeafFits(Only(all, From(DOMAIN all, sep))) => cr = Only(all, From(DOMAIN all, sep))
  BY DEF Pack, PackLeaf, PackInterior
<1> HIDE DEF cl, cr
<1>8. all = With(node.cells, key, val) /\ sep = Median(DOMAIN all)
  BY DEF all, sep
<1> QED
  BY <1>1, <1>2, <1>3, <1>5, <1>6, <1>7, <1>8

\* The halves of an interior node that a separator does not fit in.
LEMMA SplitInteriorIs ==
  ASSUME TypeInv, SplitInterior
  PROVE  /\ path # << >> /\ ~node.leaf /\ op = "insert"
         /\ \E s, all, sep, cl, cr :
              /\ s \in pend /\ all = With(node.cells, s.sep, s.page) /\ IsCells(all, Pages) /\ ~InteriorFits(all)
              /\ sep = Median(DOMAIN all) /\ sep \in DOMAIN all
              /\ Packed(all, Below(DOMAIN all, sep), cl, Pages)
              /\ Packed(all, Above(DOMAIN all, sep), cr, Pages)
              /\ InteriorFits(Only(all, Below(DOMAIN all, sep))) =>
                   cl = Only(all, Below(DOMAIN all, sep))
              /\ InteriorFits(Only(all, Above(DOMAIN all, sep))) =>
                   cr = Only(all, Above(DOMAIN all, sep))
              /\ Split(sep, Interior(cl, node.extra, Below(node.span, sep)),
                            Interior(cr, all[sep], From(node.span, sep)))
<1>1. PICK s \in pend :
        LET all == With(node.cells, s.sep, s.page)
            sep == Median(DOMAIN all)
        IN  /\ ~InteriorFits(all)
            /\ Split(sep, Interior(PackInterior(Only(all, Below(DOMAIN all, sep))),
                                   node.extra, Below(node.span, sep)),
                          Interior(PackInterior(Only(all, Above(DOMAIN all, sep))),
                                   all[sep], From(node.span, sep)))
  BY DEF SplitInterior
<1>2. path # << >> /\ op = "insert" /\ ~node.leaf /\ s.sep \in Key /\ s.page \in Pages
  BY DEF TypeInv, PathTypes, SplitInterior
<1> DEFINE all == With(node.cells, s.sep, s.page)
           sep == Median(DOMAIN all)
           cl == PackInterior(Only(all, Below(DOMAIN all, sep)))
           cr == PackInterior(Only(all, Above(DOMAIN all, sep)))
<1>3. /\ ~InteriorFits(all)
      /\ Split(sep, Interior(cl, node.extra, Below(node.span, sep)),
                    Interior(cr, all[sep], From(node.span, sep)))
  BY <1>1
<1>4. IsCells(all, Pages)
  BY <1>2, TopIs, WithCells
<1>5. s.sep \in DOMAIN all
  BY DEF With
<1> HIDE DEF all
<1>6. sep \in DOMAIN all
  <2>1. DOMAIN all \in SUBSET Int /\ IsFiniteSet(DOMAIN all) /\ DOMAIN all # {}
    BY <1>4, <1>5, BTreeAssumption DEF IsCells
  <2> QED
    BY <2>1, MedianKey
<1> HIDE DEF sep
<1>7. /\ Packed(all, Below(DOMAIN all, sep), cl, Pages) /\ Packed(all, Above(DOMAIN all, sep), cr, Pages)
  BY <1>4, PackCells
<1>8. /\ InteriorFits(Only(all, Below(DOMAIN all, sep))) => cl = Only(all, Below(DOMAIN all, sep))
      /\ InteriorFits(Only(all, Above(DOMAIN all, sep))) => cr = Only(all, Above(DOMAIN all, sep))
  BY DEF Pack, PackLeaf, PackInterior
<1> HIDE DEF cl, cr
<1>9. all = With(node.cells, s.sep, s.page) /\ sep = Median(DOMAIN all)
  BY DEF all, sep
<1> QED
  BY <1>2, <1>3, <1>4, <1>6, <1>7, <1>8, <1>9

LEMMA Predecessor ==
  ASSUME NEW l \in Nat \ {0}
  PROVE  \E n \in Nat : n = l - 1 /\ n <= l /\ l = n + 1
OBVIOUS

\* The path without its last page.
LEMMA FrontIs ==
  ASSUME NEW S, NEW q \in Seq(S), NEW n \in Nat, n <= Len(q)
  PROVE  /\ SubSeq(q, 1, n) \in Seq(S) /\ Len(SubSeq(q, 1, n)) = n
         /\ \A i \in 1 .. n : SubSeq(q, 1, n)[i] = q[i]
<1>1. \A i \in 1 .. n : q[i] \in S
  OBVIOUS
<1>2. /\ SubSeq(q, 1, n) \in Seq(S)
      /\ Len(SubSeq(q, 1, n)) = IF 1 <= n THEN n - 1 + 1 ELSE 0
      /\ \A i \in 1 .. n - 1 + 1 : SubSeq(q, 1, n)[i] = q[1 + i - 1]
  BY <1>1, SubSeqProperties
<1>3. (IF 1 <= n THEN n - 1 + 1 ELSE 0) = n /\ n - 1 + 1 = n
  OBVIOUS
<1>4. ASSUME NEW i \in 1 .. n PROVE SubSeq(q, 1, n)[i] = q[i]
  <2>1. SubSeq(q, 1, n)[i] = q[1 + i - 1] /\ 1 + i - 1 = i
    BY <1>2, <1>3
  <2> QED
    BY <2>1
<1> QED
  BY <1>2, <1>3, <1>4

\* A node split in two of its kind.
LEMMA SplitTypes ==
  ASSUME TypeInv, path # << >>, op = "insert", NEW sep \in Key, NEW left, NEW right,
         IsNode(left, Pages \cup {NewPage}), IsNode(right, Pages \cup {NewPage}),
         left.leaf = node.leaf, Split(sep, left, right)
  PROVE  TypeInv' /\ Pages' = Pages \cup {NewPage} /\ NewPage \notin Pages
<1> DEFINE l == Len(path)
<1>1. /\ Top \in Pages /\ l \in Nat \ {0} /\ path \in Seq(Pages) /\ Top = path[l]
      /\ Pages = DOMAIN page /\ IsTree(page) /\ Numbered(page) /\ node = page[Top]
  BY TopIs DEF TypeInv, PagesInv, PathTypes, Pages, Top
<1>2. /\ NewPage \in Nat /\ NewPage \notin Pages /\ NewPage # 0
      /\ \A u : DOMAIN u = Pages \cup {NewPage} => Numbered(u)
  BY <1>1, NewPageIs DEF NewPage
<1> DEFINE mid == With(page, Top, left)
<1>3. page' = With(mid, NewPage, right)
  BY PageSteps
<1>4. DOMAIN page' = Pages \cup {NewPage}
  BY <1>1, <1>3 DEF With
<1>5. IsTree(page')
  <2>1. \A p \in Pages : IsNode(page[p], Pages) /\ IsNode(page[p], Pages \cup {NewPage})
    BY <1>1, NodeGrows DEF IsTree
  <2>2. ASSUME NEW p \in Pages \cup {NewPage}
        PROVE  IsNode(page'[p], Pages \cup {NewPage})
    <3>1. page'[p] = IF p = NewPage THEN right ELSE IF p = Top THEN left ELSE page[p]
      BY <1>1, <1>3 DEF With
    <3> QED
      BY <2>1, <3>1
  <2>3. page' = [p \in DOMAIN page' |-> page'[p]]
    BY <1>3 DEF With
  <2> QED
    BY <1>1, <1>2, <1>4, <2>2, <2>3 DEF IsTree
<1>6. PagesInv' /\ Pages' = Pages \cup {NewPage}
  <2>1. captured' = captured \cup {Top, NewPage} /\ UNCHANGED disk
    BY DEF Split
  <2>2. Numbered(page')
    BY <1>2, <1>4
  <2>3. Synced'
    <3>1. \A p \in Pages : p # Top => page'[p] = page[p]
      BY <1>1, <1>2, <1>3 DEF With
    <3> QED
      BY <1>1, <1>4, <2>1, <3>1 DEF TypeInv, PagesInv, Synced, Pages
  <2> QED
    BY <1>1, <1>4, <1>5, <2>1, <2>2, <2>3 DEF TypeInv, PagesInv, Pages
<1>7. CallInv'
  BY DEF TypeInv, CallInv, Split, args
<1>8. PathTypes'
  <2>1. /\ path' = SubSeq(path, 1, l - 1) /\ op' = op
        /\ pend' = {[sep |-> sep, page |-> NewPage]}
    BY DEF Split
  <2>2. l - 1 \in Nat /\ path' \in Seq(Pages) /\ Len(path') = l - 1
        /\ \A i \in 1 .. l - 1 : path'[i] = path[i]
    <3>1. l - 1 \in Nat /\ l - 1 < l
      BY <1>1
    <3>2. PICK n \in Nat : n = l - 1 /\ n <= Len(path)
      BY <1>1, <3>1
    <3>3. /\ SubSeq(path, 1, n) \in Seq(Pages) /\ Len(SubSeq(path, 1, n)) = n
          /\ \A i \in 1 .. n : SubSeq(path, 1, n)[i] = path[i]
      BY <1>1, <3>2, FrontIs
    <3> QED
      BY <2>1, <3>1, <3>2, <3>3
  <2>3. path' \in Seq(Pages')
    BY <1>6, <2>2
  <2>4. \A i \in 1 .. l - 1 : ~page'[path'[i]].leaf
    <3> SUFFICES ASSUME NEW i \in 1 .. l - 1 PROVE ~page'[path'[i]].leaf
      OBVIOUS
    <3>1. i \in 1 .. l /\ i < l /\ path[i] \in Pages
      BY <1>1
    <3>2. ~page[path[i]].leaf
      BY <3>1 DEF TypeInv, PathTypes
    <3>3. page'[path[i]] = IF path[i] = Top THEN left ELSE page[path[i]]
      BY <1>1, <1>2, <1>3, <3>1 DEF With
    <3> QED
      BY <1>1, <2>2, <3>2, <3>3
  <2>5. path' # << >> => ~node'.leaf
    <3>1. path' # << >> => l - 1 \in 1 .. l - 1 /\ Top' = path'[l - 1]
      BY <2>2 DEF Top
    <3> QED
      BY <2>4, <3>1 DEF node
  <2>6. pend' \subseteq [sep : Key, page : Pages']
    BY <1>6, <2>1
  <2>7. \A i \in 1 .. Len(path') : i < Len(path') => ~page'[path'[i]].leaf
    BY <2>2, <2>4
  <2> QED
    BY <2>1, <2>3, <2>5, <2>6, <2>7 DEF PathTypes
<1> QED
  BY <1>2, <1>6, <1>7, <1>8 DEF TypeInv

LEMMA PackedCells ==
  ASSUME NEW c, NEW K, NEW d, NEW V, NEW W, V \subseteq W, Packed(c, K, d, V)
  PROVE  IsCells(d, W)
BY DEF Packed, IsCells

LEMMA SplitsTypes ==
  ASSUME TypeInv, SplitLeaf \/ SplitInterior
  PROVE  TypeInv'
<1>0. \A k : Below(node.span, k) \subseteq node.span /\ From(node.span, k) \subseteq node.span
  BY PartsSubset
<1>1. CASE SplitLeaf
  <2>1. path # << >> /\ node.leaf /\ op = "insert"
    BY <1>1, SplitLeafIs
  <2>2. PICK all, sep, cl, cr :
          /\ IsCells(all, Val) /\ sep \in DOMAIN all
          /\ Packed(all, Below(DOMAIN all, sep), cl, Val)
          /\ Packed(all, From(DOMAIN all, sep), cr, Val)
          /\ Split(sep, Leaf(cl, NewPage, Below(node.span, sep)),
                        Leaf(cr, node.extra, From(node.span, sep)))
    BY <1>1, SplitLeafIs
  <2> DEFINE left == Leaf(cl, NewPage, Below(node.span, sep))
             right == Leaf(cr, node.extra, From(node.span, sep))
  <2>3. sep \in Key /\ IsCells(cl, Val) /\ IsCells(cr, Val)
    BY <2>2, PackedCells DEF IsCells
  <2>4. Below(node.span, sep) \in SUBSET Key /\ From(node.span, sep) \in SUBSET Key
    BY <1>0, <2>1, TopIs
  <2>5. node.extra \in Pages \cup {0}
    BY <2>1, TopIs
  <2>6. IsNode(left, Pages \cup {NewPage}) /\ IsNode(right, Pages \cup {NewPage})
    BY <2>3, <2>4, <2>5, NodeOf
  <2>7. left.leaf = node.leaf
    BY <2>1, LeafFields
  <2>8. Split(sep, left, right)
    BY <2>2
  <2> HIDE DEF left, right
  <2> QED
    BY <2>1, <2>3, <2>6, <2>7, <2>8, SplitTypes
<1>2. CASE SplitInterior
  <2>1. path # << >> /\ ~node.leaf /\ op = "insert"
    BY <1>2, SplitInteriorIs
  <2>2. PICK s, all, sep, cl, cr :
          /\ s \in pend /\ IsCells(all, Pages) /\ sep \in DOMAIN all
          /\ Packed(all, Below(DOMAIN all, sep), cl, Pages)
          /\ Packed(all, Above(DOMAIN all, sep), cr, Pages)
          /\ Split(sep, Interior(cl, node.extra, Below(node.span, sep)),
                        Interior(cr, all[sep], From(node.span, sep)))
    BY <1>2, SplitInteriorIs
  <2> DEFINE left == Interior(cl, node.extra, Below(node.span, sep))
             right == Interior(cr, all[sep], From(node.span, sep))
  <2>3. sep \in Key /\ IsCells(cl, Pages \cup {NewPage}) /\ IsCells(cr, Pages \cup {NewPage})
    BY <2>2, PackedCells DEF IsCells
  <2>4. Below(node.span, sep) \in SUBSET Key /\ From(node.span, sep) \in SUBSET Key
    BY <1>0, <2>1, TopIs
  <2>5. node.extra \in Pages /\ all[sep] \in Pages
    BY <2>1, <2>2, TopIs DEF IsCells
  <2>6. IsNode(left, Pages \cup {NewPage}) /\ IsNode(right, Pages \cup {NewPage})
    BY <2>3, <2>4, <2>5, NodeOf
  <2>7. left.leaf = node.leaf
    <3>1. node.leaf = FALSE
      BY <2>1, TopIs
    <3>2. left.leaf = FALSE
      BY DEF Interior
    <3> QED
      BY <3>1, <3>2
  <2>8. Split(sep, left, right)
    BY <2>2
  <2> HIDE DEF left, right
  <2> QED
    BY <2>1, <2>3, <2>6, <2>7, <2>8, SplitTypes
<1> QED
  BY <1>1, <1>2

LEMMA ParentTypes ==
  ASSUME TypeInv, InsertInParent
  PROVE  TypeInv'
<1>1. path # << >> /\ ~node.leaf /\ Return("txn") /\ UNCHANGED disk /\ captured' = captured \cup {Top}
  BY DEF TypeInv, PathTypes, InsertInParent
<1>2. PICK s \in pend : page' = Joined(page, Top, s)
  BY <1>1, PageSteps
<1>3. s.sep \in Key /\ s.page \in Pages /\ node = page[Top]
  BY <1>1, TopIs DEF TypeInv, PathTypes
<1>4. IsNode(AddSep(node, s), Pages)
  <2>1. IsCells(With(node.cells, s.sep, s.page), Pages)
    BY <1>1, <1>3, TopIs, WithCells
  <2> QED
    BY <1>1, <2>1, TopIs, NodeOf DEF AddSep
<1>5. PagesInv'
  BY <1>1, <1>2, <1>3, <1>4, WriteTypes DEF Joined
<1> QED
  BY <1>1, <1>5, ReturnTypes DEF TypeInv

LEMMA GrowTypes ==
  ASSUME TypeInv, GrowRoot
  PROVE  TypeInv'
<1>1. PICK s \in pend : page' = Grown(page, s)
  BY GrowStep
<1>2. s.sep \in Key /\ s.page \in Pages /\ Pages = DOMAIN page /\ IsTree(page) /\ Numbered(page)
  BY DEF TypeInv, PathTypes, PagesInv, Pages
<1> DEFINE new == Cardinality(DOMAIN page) + 1
           top == Interior(With(<< >>, s.sep, s.page), new, Key)
           P == Pages \cup {new}
<1>3. new \in Nat /\ new \notin Pages /\ new # 0 /\ Root \in Pages /\ new # Root
      /\ \A u : DOMAIN u = P => Numbered(u)
  BY <1>2, NewPageIs
<1>4. new = NewPage
  BY DEF NewPage
<1> HIDE DEF new
<1>5. IsNode(top, P)
  <2>1. IsCells(<< >>, P)
    BY FS_EmptySet DEF IsCells
  <2>2. IsCells(With(<< >>, s.sep, s.page), P)
    BY <1>2, <2>1, WithCells
  <2> QED
    BY <2>2, NodeOf
<1>6. page' = With(With(page, Root, top), new, page[Root])
  BY <1>1 DEF Grown, new
<1> HIDE DEF top
<1>7. DOMAIN page' = P
  BY <1>2, <1>3, <1>6 DEF With
<1>8. IsTree(page')
  <2>1. \A p \in Pages : IsNode(page[p], Pages) /\ IsNode(page[p], P)
    BY <1>2, NodeGrows DEF IsTree
  <2>2. ASSUME NEW p \in P PROVE IsNode(page'[p], P)
    <3>1. page'[p] = IF p = new THEN page[Root] ELSE IF p = Root THEN top ELSE page[p]
      BY <1>2, <1>6 DEF With
    <3> QED
      BY <1>3, <1>5, <2>1, <3>1
  <2>3. page' = [p \in DOMAIN page' |-> page'[p]]
    BY <1>6 DEF With
  <2> QED
    BY <1>2, <1>3, <1>7, <2>2, <2>3 DEF IsTree
<1>9. UNCHANGED disk /\ captured' = captured \cup {Root, NewPage} /\ Return("txn")
  BY DEF GrowRoot
<1>10. Synced'
  <2>1. \A p \in Pages : p # Root => page'[p] = page[p]
    BY <1>2, <1>3, <1>6 DEF With
  <2> QED
    BY <1>2, <1>4, <1>7, <1>9, <2>1 DEF TypeInv, PagesInv, Synced, Pages
<1>11. PagesInv'
  BY <1>2, <1>3, <1>4, <1>7, <1>8, <1>9, <1>10 DEF TypeInv, PagesInv, Pages
<1> QED
  BY <1>9, <1>11, ReturnTypes DEF TypeInv

LEMMA DescendTypes ==
  ASSUME TypeInv, Descend
  PROVE  /\ TypeInv'
         /\ \E c \in Kids(node) :
              /\ c = IF op = "first" THEN node.extra ELSE ChildPage(node, key)
              /\ path' = Append(path, c) /\ path # << >> /\ ~node.leaf /\ pend = {} /\ c \in Pages
              /\ op \notin {"none", "scan"} /\ (op # "first" => key \in Key)
              /\ UNCHANGED <<page, disk, captured, key, val, mode, op, pend, rest>>
<1> DEFINE l == Len(path)
           c == IF op = "first" THEN node.extra ELSE ChildPage(node, key)
<1>1. /\ op \in {"insert", "delete", "update", "get", "seek", "first"} /\ pend = {} /\ ~node.leaf
      /\ path' = Append(path, c) /\ UNCHANGED <<store, args, mode, op, pend, rest, out, ops>>
  BY DEF Descend
<1>2. path # << >> /\ (op # "first" => key \in Key)
  BY <1>1 DEF TypeInv, PathTypes, CallInv
<1>3. c \in Kids(node)
  <2>1. CASE op = "first"
    BY <2>1 DEF Kids
  <2>2. CASE op # "first"
    BY <1>2, <2>2, TopIs, ChildPageIs
  <2> QED
    BY <2>1, <2>2
<1>4. c \in Pages
  BY <1>1, <1>2, <1>3, TopIs
<1> HIDE DEF c
<1>5. PagesInv' /\ Pages' = Pages
  BY <1>1 DEF TypeInv, PagesInv, Synced, store, Pages
<1>6. CallInv'
  BY <1>1 DEF TypeInv, CallInv, args
<1>7. /\ path \in Seq(Pages) /\ l \in Nat /\ path' \in Seq(Pages) /\ Len(path') = l + 1
      /\ (\A i \in 1 .. l : path'[i] = path[i]) /\ path' # << >>
  BY <1>1, <1>4 DEF TypeInv, PathTypes
<1>8. page' = page /\ \A i \in 1 .. Len(path) : i < Len(path) => ~page[path[i]].leaf
  BY <1>1 DEF TypeInv, PathTypes, store
<1>9. ~page[path[l]].leaf
  BY <1>1 DEF node, Top
<1>10. ASSUME NEW i \in 1 .. Len(path'), i < Len(path') PROVE ~page'[path'[i]].leaf
  <2>1. i \in 1 .. l /\ path'[i] = path[i] /\ (i = l \/ i < l)
    BY <1>7, <1>10
  <2> QED
    BY <1>8, <1>9, <2>1
<1>11. PathTypes'
  BY <1>1, <1>5, <1>7, <1>10 DEF TypeInv, PathTypes
<1> QED
  BY <1>1, <1>2, <1>3, <1>4, <1>5, <1>6, <1>11 DEF TypeInv, store, args, c

LEMMA UpdateTypes ==
  ASSUME TypeInv, UpdateFromLeaf
  PROVE  TypeInv'
<1>1. path # << >> /\ node.leaf /\ UNCHANGED disk /\ op = "update"
  BY DEF TypeInv, PathTypes, UpdateFromLeaf, AtLeaf
<1>2. CASE key \in DOMAIN node.cells
  <2> DEFINE c == Without(node.cells, key)
  <2>1. IsCells(c, Val)
    BY <1>1, TopIs, WithoutCells
  <2>2. page' = With(page, Top, Leaf(c, node.extra, node.span))
    BY <1>1, <1>2, PageSteps
  <2> HIDE DEF c
  <2>3. IsNode(Leaf(c, node.extra, node.span), Pages)
    BY <1>1, <2>1, NodeOf, TopIs
  <2>4. /\ captured' = captured \cup {Top} /\ op' = "insert" /\ path' = <<Root>>
        /\ UNCHANGED <<args, mode, pend, rest, ops>>
    BY <1>2 DEF UpdateFromLeaf
  <2>5. PagesInv' /\ Pages' = Pages
    BY <1>1, <2>2, <2>3, <2>4, WriteTypes
  <2>6. CallInv'
    BY <1>1, <2>4 DEF TypeInv, CallInv, args
  <2>7. PathTypes'
    <3>1. Root \in Pages /\ pend = {}
      BY <1>1 DEF TypeInv, PagesInv, IsTree, Pages, UpdateFromLeaf, AtLeaf
    <3>2. path' \in Seq(Pages') /\ path' # << >> /\ \A i \in 1 .. Len(path') : ~ (i < Len(path'))
      BY <2>4, <2>5, <3>1
    <3> QED
      BY <2>4, <3>1, <3>2 DEF PathTypes
  <2> QED
    BY <2>5, <2>6, <2>7 DEF TypeInv
<1>3. CASE key \notin DOMAIN node.cells
  <2>1. Return("txn") /\ UNCHANGED <<page, captured>>
    BY <1>3 DEF UpdateFromLeaf
  <2>2. PagesInv'
    BY <1>1, <2>1 DEF TypeInv, PagesInv, Synced, Pages
  <2> QED
    BY <2>1, <2>2, ReturnTypes DEF TypeInv
<1> QED
  BY <1>2, <1>3

\* The steps that only read pages, and end the call.
LEMMA ReadTypes ==
  ASSUME TypeInv, GetFromLeaf \/ InsertTooLarge \/ CloseCursor \/ Fail
  PROVE  TypeInv'
<1>1. UNCHANGED store /\ (Return("txn") \/ Return("failed"))
  BY DEF GetFromLeaf, InsertTooLarge, CloseCursor, Fail
<1>2. PagesInv'
  BY <1>1 DEF TypeInv, PagesInv, Synced, Pages, store
<1> QED
  BY <1>1, <1>2, ReturnTypes DEF TypeInv

\* The steps of a cursor, from its leaf on.
LEMMA CursorTypes ==
  ASSUME TypeInv, SeekInLeaf \/ NextCell \/ NextLeaf \/ NextEnd
  PROVE  TypeInv'
<1>1. UNCHANGED store /\ UNCHANGED <<args, mode, pend, ops>>
  BY DEF SeekInLeaf, NextCell, NextLeaf, NextEnd
<1>2. PagesInv' /\ Pages' = Pages /\ page' = page
  BY <1>1 DEF TypeInv, PagesInv, Synced, Pages, store
<1>3. op # "none" /\ pend = {} /\ path # << >>
  BY DEF TypeInv, PathTypes, SeekInLeaf, NextCell, NextLeaf, NextEnd, AtLeaf
<1>4. DOMAIN node.cells \subseteq Key
  BY <1>3, TopIs
<1>5. CASE SeekInLeaf
  <2>1. rest' \subseteq Key /\ op' = "scan" /\ UNCHANGED path
    BY <1>4, <1>5, PartsSubset DEF SeekInLeaf
  <2>2. CallInv'
    BY <1>1, <1>3, <2>1 DEF TypeInv, CallInv, args
  <2>3. PathTypes'
    BY <1>1, <1>2, <1>3, <2>1 DEF TypeInv, PathTypes
  <2> QED
    BY <1>2, <2>2, <2>3 DEF TypeInv
<1>6. CASE NextCell \/ NextEnd
  <2>1. rest' \subseteq rest /\ op' = op /\ UNCHANGED path
    BY <1>6 DEF NextCell, NextEnd
  <2>2. CallInv'
    BY <1>1, <2>1 DEF TypeInv, CallInv, args
  <2>3. PathTypes'
    BY <1>1, <1>2, <1>3, <2>1 DEF TypeInv, PathTypes
  <2> QED
    BY <1>2, <2>2, <2>3 DEF TypeInv
<1>7. CASE NextLeaf
  <2>1. rest' = DOMAIN page[node.extra].cells /\ op' = op /\ op = "scan" /\ path' = <<node.extra>>
        /\ node.extra # 0
    BY <1>7 DEF NextLeaf
  <2>2. node.extra \in Pages
    BY <1>3, <2>1, TopIs
  <2>3. rest' \subseteq Key
    BY <2>1, <2>2, NodeIn DEF TypeInv, PagesInv, Pages
  <2>4. CallInv'
    BY <1>1, <2>1, <2>3 DEF TypeInv, CallInv, args
  <2>5. PathTypes'
    <3>1. path' \in Seq(Pages') /\ path' # << >> /\ \A i \in 1 .. Len(path') : ~ (i < Len(path'))
      BY <1>2, <2>1, <2>2
    <3> QED
      BY <1>1, <1>3, <2>1, <3>1 DEF PathTypes
  <2> QED
    BY <1>2, <2>4, <2>5 DEF TypeInv
<1> QED
  BY <1>5, <1>6, <1>7

LEMMA StartTypes ==
  ASSUME TypeInv, NEW o \in {"insert", "delete", "update", "get", "seek", "first"},
         NEW k \in Key \cup {None}, NEW v \in Val \cup {None}, Start(o, k, v),
         o # "first" => k \in Key, o \in {"insert", "update"} => v \in Val
  PROVE  TypeInv'
<1>1. /\ mode = "txn" /\ op = "none" /\ ops < MaxOps
      /\ op' = o /\ key' = k /\ val' = v /\ path' = <<Root>> /\ ops' = ops + 1
      /\ UNCHANGED <<store, mode, pend, rest>>
  BY DEF Start
<1>2. PagesInv' /\ Pages' = Pages /\ page' = page
  BY <1>1 DEF TypeInv, PagesInv, Synced, Pages, store
<1>3. ops' \in 0 .. MaxOps
  BY <1>1, BTreeAssumption DEF TypeInv, CallInv
<1>4. CallInv'
  BY <1>1, <1>3 DEF TypeInv, CallInv
<1>5. Root \in Pages /\ pend = {}
  BY <1>1 DEF TypeInv, PagesInv, IsTree, Pages, PathTypes
<1>6. path' \in Seq(Pages') /\ path' # << >> /\ \A i \in 1 .. Len(path') : ~ (i < Len(path'))
  BY <1>1, <1>2, <1>5
<1>7. PathTypes'
  BY <1>1, <1>5, <1>6 DEF PathTypes
<1> QED
  BY <1>2, <1>4, <1>7 DEF TypeInv

LEMMA TransactionTypes ==
  ASSUME TypeInv, Begin \/ Commit \/ Restore
  PROVE  TypeInv'
<1>1. CASE Begin
  <2>1. /\ mode = "idle" /\ mode' = "txn" /\ ops' = 0
        /\ UNCHANGED <<store, args, op, path, pend, rest, out>>
    BY <1>1 DEF Begin
  <2>2. PagesInv' /\ Pages' = Pages /\ page' = page
    BY <2>1 DEF TypeInv, PagesInv, Synced, Pages, store
  <2>3. CallInv' /\ PathTypes'
    BY <2>1, <2>2, BTreeAssumption DEF TypeInv, CallInv, PathTypes, args, node, Top
  <2> QED
    BY <2>2, <2>3 DEF TypeInv
<1>2. CASE Commit
  <2>1. /\ mode = "txn" /\ op = "none" /\ mode' = "idle" /\ captured' = {}
        /\ disk' = [p \in DOMAIN page |-> IF p \in captured THEN page[p] ELSE disk[p]]
        /\ UNCHANGED <<page, args, op, path, pend, rest, out, ops>>
    BY <1>2 DEF Commit
  <2>2. disk' = page
    <3>1. page = [p \in DOMAIN page |-> page[p]]
      BY DEF TypeInv, PagesInv, IsTree
    <3>2. \A p \in DOMAIN page : p \notin captured => page[p] = disk[p]
      BY DEF TypeInv, PagesInv, Synced, Pages
    <3> QED
      BY <2>1, <3>1, <3>2
  <2>3. PagesInv' /\ Pages' = Pages
    BY <2>1, <2>2 DEF TypeInv, PagesInv, Synced, Pages
  <2>4. CallInv' /\ PathTypes'
    BY <2>1, <2>3 DEF TypeInv, CallInv, PathTypes, args, node, Top
  <2> QED
    BY <2>3, <2>4 DEF TypeInv
<1>3. CASE Restore
  <2>1. /\ page' = disk /\ captured' = {} /\ mode' = "idle" /\ NoCall /\ UNCHANGED <<disk, ops>>
    BY <1>3 DEF Restore
  <2>2. PagesInv'
    BY <2>1 DEF TypeInv, PagesInv, Synced, Pages
  <2>3. CallInv' /\ PathTypes'
    BY <2>1 DEF TypeInv, CallInv, PathTypes, NoCall
  <2> QED
    BY <2>2, <2>3 DEF TypeInv
<1> QED
  BY <1>1, <1>2, <1>3

LEMMA InitTypes == Init => TypeInv
<1> SUFFICES ASSUME Init PROVE TypeInv
  OBVIOUS
<1>1. page = <<Leaf(<< >>, 0, Key)>> /\ disk = page
  BY DEF Init
<1>2. DOMAIN page = {1} /\ page[1] = Leaf(<< >>, 0, Key) /\ page = [p \in DOMAIN page |-> page[p]]
  BY <1>1
<1>3. IsNode(page[1], {1})
  <2>1. IsCells(<< >>, Val)
    BY FS_EmptySet DEF IsCells
  <2> QED
    BY <1>2, <2>1, NodeOf
<1>4. IsTree(page)
  BY <1>2, <1>3 DEF IsTree, Root
<1>5. Numbered(page)
  <2>1. IsFiniteSet({1}) /\ Cardinality({1}) = 1
    BY FS_Singleton, Zenon
  <2>2. {1} = 1 .. 1
    OBVIOUS
  <2> QED
    BY <1>2, <2>1, <2>2, Zenon DEF Numbered
<1>6. PagesInv
  BY <1>1, <1>4, <1>5 DEF Init, PagesInv, Synced, Pages
<1>7. CallInv /\ PathTypes
  BY BTreeAssumption DEF Init, CallInv, PathTypes
<1> QED
  BY <1>6, <1>7 DEF TypeInv

LEMMA NextTypes == TypeInv /\ [Next]_vars => TypeInv'
<1> SUFFICES ASSUME TypeInv, [Next]_vars PROVE TypeInv'
  OBVIOUS
<1>1. CASE \E k \in Key : Delete(k) \/ Get(k) \/ Seek(k) \/ \E v \in Val : Update(k, v)
  BY <1>1, StartTypes DEF Delete, Get, Seek, Update
<1>2. CASE \E k \in Key, v \in Val : Insert(k, v)
  BY <1>2, StartTypes DEF Insert
<1>3. CASE Cursor
  BY <1>3, StartTypes DEF Cursor
<1>4. CASE Working
  BY <1>4, DescendTypes, ReadTypes, LeafTypes, UpdateTypes, SplitsTypes, ParentTypes, GrowTypes,
     CursorTypes DEF Working
<1>5. CASE NextCell \/ NextLeaf \/ NextEnd
  BY <1>5, CursorTypes
<1>6. CASE CloseCursor \/ Fail
  BY <1>6, ReadTypes
<1>7. CASE Begin \/ Commit \/ Restore
  BY <1>7, TransactionTypes
<1>8. CASE UNCHANGED vars
  <2>1. UNCHANGED <<store, args, mode, op, path, pend, rest, ops>>
    BY <1>8 DEF vars
  <2>2. PagesInv'
    BY <2>1 DEF TypeInv, PagesInv, Synced, store, Pages
  <2>3. CallInv' /\ PathTypes'
    BY <2>1 DEF TypeInv, CallInv, PathTypes, args, store, node, Top, Pages
  <2> QED
    BY <2>2, <2>3 DEF TypeInv
<1> QED
  BY <1>1, <1>2, <1>3, <1>4, <1>5, <1>6, <1>7, <1>8 DEF Next, Shared

LEMMA TypesHold == Spec => []TypeInv
BY InitTypes, NextTypes, PTL DEF Spec

\* TypeOK of BTree: the pages are numbered from the root on, every pointer
\* leads to a page of the tree, and every cell holds a payload or a child.
THEOREM Typing == Spec => []TypeOK
<1>1. TypeInv => TypeOK
  <2> SUFFICES ASSUME TypeInv PROVE TypeOK
    OBVIOUS
  <2>1. ASSUME NEW p \in Pages
        PROVE  /\ page[p].leaf \in BOOLEAN /\ page[p].extra \in Pages \cup {0} /\ page[p].span \subseteq Key
               /\ page[p].cells \in [DOMAIN page[p].cells -> IF page[p].leaf THEN Val ELSE Pages]
               /\ DOMAIN page[p].cells \subseteq Key
    BY NodeIn DEF TypeInv, PagesInv, IsCells, Pages
  <2> QED
    BY <2>1 DEF TypeInv, PagesInv, Numbered, CallInv, PathTypes, TypeOK, Pages
<1> QED
  BY <1>1, TypesHold, PTL

-----------------------------------------------------------------------------
(* Levels.                                                                 *)

\* A page written with a node of its kind, whose children are one level down.
LEMMA LevelsWith ==
  ASSUME NEW t, NEW h, Levels(t, h), NEW p \in DOMAIN t, NEW n, n.leaf = t[p].leaf,
         ~n.leaf => \A c \in Kids(n) : c # Root /\ h[p] = 1 + h[c]
  PROVE  Levels(With(t, p, n), h)
<1> DEFINE u == With(t, p, n)
<1>1. DOMAIN u = DOMAIN t /\ u[p] = n /\ \A q \in DOMAIN t : q # p => u[q] = t[q]
  BY DEF With
<1> HIDE DEF u
<1>2. Outer(u) = Outer(t) /\ Inner(u) = Inner(t)
  BY <1>1 DEF Outer, Inner
<1>3. ASSUME NEW q \in Inner(u), NEW c \in Kids(u[q]) PROVE c # Root /\ h[q] = 1 + h[c]
  <2>1. CASE q = p
    BY <1>1, <1>3, <2>1 DEF Inner
  <2>2. CASE q # p
    <3>1. q \in Inner(t) /\ u[q] = t[q]
      BY <1>1, <1>2, <2>2 DEF Inner
    <3> QED
      BY <3>1 DEF Levels
  <2> QED
    BY <2>1, <2>2
<1> QED
  BY <1>1, <1>2, <1>3 DEF Levels, u

\* A new page with a node of p's kind, on the level of p.
LEMMA LevelsNew ==
  ASSUME NEW t, \A q \in Inner(t) : Kids(t[q]) \subseteq DOMAIN t, NEW h, Levels(t, h),
         NEW p \in DOMAIN t, NEW n, n.leaf = t[p].leaf, NEW new, new \notin DOMAIN t,
         ~n.leaf => Kids(n) \subseteq DOMAIN t /\ \A c \in Kids(n) : c # Root /\ h[p] = 1 + h[c]
  PROVE  Levels(With(t, new, n), With(h, new, h[p]))
<1> DEFINE u == With(t, new, n)
           g == With(h, new, h[p])
<1>1. DOMAIN u = DOMAIN t \cup {new} /\ u[new] = n /\ \A q \in DOMAIN t : u[q] = t[q]
  BY DEF With
<1>2. DOMAIN h = DOMAIN t /\ h \in [DOMAIN t -> Nat] /\ (\A q \in DOMAIN t : h[q] \in Nat)
  BY DEF Levels
<1>3. /\ g[new] = h[p] /\ (\A q \in DOMAIN t : g[q] = h[q])
      /\ g \in [DOMAIN u -> Nat]
  <2>1. /\ DOMAIN g = DOMAIN u /\ g[new] = h[p] /\ (\A q \in DOMAIN t : g[q] = h[q])
        /\ g = [q \in DOMAIN u |-> g[q]]
    BY <1>2 DEF With
  <2>2. \A q \in DOMAIN u : g[q] \in Nat
    BY <1>1, <1>2, <2>1
  <2> QED
    BY <2>1, <2>2
<1> HIDE DEF u, g
<1>4. ASSUME NEW q \in Outer(u) PROVE g[q] = 0
  BY <1>1, <1>3 DEF Outer, Levels
<1>5. ASSUME NEW q \in Inner(u), NEW c \in Kids(u[q]) PROVE c # Root /\ g[q] = 1 + g[c]
  <2>1. CASE q = new
    BY <1>1, <1>3, <1>5, <2>1 DEF Inner
  <2>2. CASE q # new
    <3>1. q \in Inner(t) /\ q \in DOMAIN t /\ u[q] = t[q]
      BY <1>1, <2>2 DEF Inner
    <3>2. c # Root /\ h[q] = 1 + h[c]
      BY <3>1 DEF Levels
    <3>3. c \in DOMAIN t
      BY <3>1
    <3> QED
      BY <1>3, <3>1, <3>2, <3>3
  <2> QED
    BY <2>1, <2>2
<1> QED
  BY <1>3, <1>4, <1>5 DEF Levels, u, g

\* The levels of the tree in memory, and the path's place in them.
LevelsNow == \E h : Levels(page, h) /\ PathLevels(h)

\* What a call leaves when it returns has no place on the levels.
LEMMA ReturnLevels ==
  ASSUME NEW m, Return(m), NEW h, Levels(page', h)
  PROVE  LevelsNow'
<1>1. op' = "none" /\ path' = << >> /\ pend' = {}
  BY DEF Return, NoCall
<1>2. PathLevels(h)'
  BY <1>1 DEF PathLevels
<1> QED
  BY <1>2 DEF LevelsNow

LEMMA LeafLevels ==
  ASSUME TypeInv, LevelsNow, InsertInLeaf \/ DeleteFromLeaf \/ UpdateFromLeaf
  PROVE  LevelsNow'
<1>1. path # << >> /\ node.leaf
  BY DEF TypeInv, PathTypes, InsertInLeaf, DeleteFromLeaf, UpdateFromLeaf, AtLeaf
<1>2. PICK h : Levels(page, h)
  BY DEF LevelsNow
<1>3. Top \in DOMAIN page /\ node = page[Top]
  BY <1>1, TopIs DEF Pages
<1>4. Levels(page', h)
  <2>1. ASSUME NEW c PROVE Levels(With(page, Top, Leaf(c, node.extra, node.span)), h)
    <3> DEFINE n == Leaf(c, node.extra, node.span)
    <3>1. n.leaf = TRUE
      BY DEF Leaf
    <3>2. page[Top].leaf = TRUE
      BY <1>1, <1>3, TopIs
    <3>3. n.leaf = page[Top].leaf /\ n.leaf
      BY <3>1, <3>2
    <3> HIDE DEF n
    <3>4. Levels(With(page, Top, n), h)
      BY <1>2, <1>3, <3>3, LevelsWith
    <3> QED
      BY <3>4 DEF n
  <2>2. page' = page \/ \E c : page' = With(page, Top, Leaf(c, node.extra, node.span))
    BY <1>1, PageSteps
  <2> QED
    BY <1>2, <2>1, <2>2
<1>5. CASE Return("txn")
  BY <1>4, <1>5, ReturnLevels
<1>6. CASE path' = <<Root>> /\ op' = "insert" /\ pend' = {}
  <2>1. \A i, j \in 1 .. Len(path') : ~ (j = i + 1)
    BY <1>6
  <2>2. PathLevels(h)'
    BY <1>6, <2>1 DEF PathLevels
  <2> QED
    BY <1>4, <2>2 DEF LevelsNow
<1> QED
  BY <1>5, <1>6 DEF InsertInLeaf, DeleteFromLeaf, UpdateFromLeaf, AtLeaf

LEMMA ParentLevels ==
  ASSUME TypeInv, LevelsNow, InsertInParent
  PROVE  LevelsNow'
<1>1. path # << >> /\ ~node.leaf /\ Return("txn")
  BY DEF TypeInv, PathTypes, InsertInParent
<1>2. PICK h : Levels(page, h) /\ PathLevels(h)
  BY DEF LevelsNow
<1>3. PICK s \in pend : page' = Joined(page, Top, s)
  BY <1>1, PageSteps
<1>4. Top \in DOMAIN page /\ node = page[Top] /\ node.leaf = FALSE
  BY <1>1, TopIs DEF Pages
<1>5. s.page # Root /\ h[Top] = 1 + h[s.page]
  BY <1>1, <1>2 DEF PathLevels
<1> DEFINE n == AddSep(node, s)
<1>6. n.leaf = node.leaf
  BY <1>4 DEF AddSep, Interior
<1>7. \A c \in Kids(n) : c \in Kids(node) \/ c = s.page
  BY DEF Kids, AddSep, Interior, With
<1>8. \A c \in Kids(n) : c # Root /\ h[Top] = 1 + h[c]
  BY <1>2, <1>4, <1>5, <1>7 DEF Levels, Inner
<1> HIDE DEF n
<1>9. Levels(With(page, Top, n), h)
  BY <1>2, <1>4, <1>6, <1>8, LevelsWith
<1> QED
  BY <1>1, <1>3, <1>4, <1>9, ReturnLevels DEF Joined, n

LEMMA SplitLevels ==
  ASSUME TypeInv, TypeInv', LevelsNow, path # << >>, op \notin {"none", "scan"},
         NEW sep, NEW left, NEW right, Split(sep, left, right),
         left.leaf = node.leaf, right.leaf = node.leaf,
         ~node.leaf => \A c \in Kids(left) \cup Kids(right) : c \in Pages,
         \A h : Levels(page, h) /\ PathLevels(h) /\ ~node.leaf =>
                  \A c \in Kids(left) \cup Kids(right) : c # Root /\ h[Top] = 1 + h[c]
  PROVE  LevelsNow'
<1>1. PICK h : Levels(page, h) /\ PathLevels(h)
  BY DEF LevelsNow
<1>2. /\ Top \in DOMAIN page /\ node = page[Top] /\ IsTree(page) /\ Pages = DOMAIN page
      /\ Len(path) \in Nat \ {0} /\ path \in Seq(Pages) /\ Top = path[Len(path)]
  BY TopIs DEF TypeInv, PagesInv, PathTypes, Pages, Top
<1>3. NewPage \notin DOMAIN page /\ NewPage # Root
  BY <1>2, NewPageIs DEF TypeInv, PagesInv, NewPage
<1> DEFINE mid == With(page, Top, left)
<1>0. PICK g : g = With(h, NewPage, h[Top])
  OBVIOUS
<1>4. page' = With(mid, NewPage, right)
  BY PageSteps
<1>5. DOMAIN mid = DOMAIN page /\ mid[Top] = left /\ \A q \in DOMAIN page : q # Top => mid[q] = page[q]
  BY <1>2 DEF With
<1>6. Levels(mid, h)
  <2>1. ~left.leaf => \A c \in Kids(left) : c # Root /\ h[Top] = 1 + h[c]
    BY <1>1
  <2> QED
    BY <1>1, <1>2, <2>1, LevelsWith
<1>7. Levels(page', g)
  <2> HIDE DEF mid
  <2>1. \A q \in Inner(mid) : Kids(mid[q]) \subseteq DOMAIN mid
    <3> SUFFICES ASSUME NEW q \in Inner(mid) PROVE Kids(mid[q]) \subseteq DOMAIN mid
      OBVIOUS
    <3>1. CASE q = Top
      BY <1>2, <1>5, <3>1 DEF Inner
    <3>2. CASE q # Top
      BY <1>2, <1>5, <3>2, NodeIn DEF Inner
    <3> QED
      BY <3>1, <3>2
  <2>2. ~right.leaf => Kids(right) \subseteq DOMAIN mid /\ \A c \in Kids(right) : c # Root /\ h[Top] = 1 + h[c]
    BY <1>1, <1>2, <1>5
  <2>3. right.leaf = mid[Top].leaf /\ Top \in DOMAIN mid /\ NewPage \notin DOMAIN mid
    BY <1>2, <1>3, <1>5
  <2>4. Levels(With(mid, NewPage, right), With(h, NewPage, h[Top]))
    BY <1>6, <2>1, <2>2, <2>3, LevelsNew
  <2> QED
    BY <1>0, <1>4, <2>4
<1>8. g[NewPage] = h[Top] /\ \A p \in DOMAIN page : g[p] = h[p]
  BY <1>0, <1>1, <1>3 DEF With, Levels
<1> HIDE DEF mid
<1>9. PathLevels(g)'
  <2> DEFINE l == Len(path)
  <2>1. /\ path' = SubSeq(path, 1, l - 1) /\ op' = op
        /\ pend' = {[sep |-> sep, page |-> NewPage]}
    BY DEF Split
  <2>2. PICK n \in Nat : n = l - 1 /\ n <= l /\ l = n + 1
    BY <1>2, Predecessor
  <2>3. path' = SubSeq(path, 1, n)
    BY <2>1, <2>2
  <2>4. Len(path') = n /\ \A i \in 1 .. n : path'[i] = path[i]
    <3>1. /\ SubSeq(path, 1, n) \in Seq(Pages) /\ Len(SubSeq(path, 1, n)) = n
          /\ \A i \in 1 .. n : SubSeq(path, 1, n)[i] = path[i]
      <4>1. n <= Len(path)
        BY <2>2
      <4>2. path \in Seq(Pages)
        BY <1>2
      <4> QED
        BY <4>1, <4>2, FrontIs
    <3> QED
      BY <2>3, <3>1
  <2>5. path' # << >> <=> n # 0
    BY <2>4 DEF TypeInv, PathTypes
  <2>6. \A i \in 1 .. l : path[i] \in DOMAIN page /\ g[path[i]] = h[path[i]]
    BY <1>2, <1>8
  <2>7. path' # << >> => path'[1] = Root
    BY <1>1, <1>2, <2>2, <2>4, <2>5 DEF PathLevels
  <2>8. \A i, j \in 1 .. Len(path') : j = i + 1 => g[path'[i]] = 1 + g[path'[j]]
    <3> SUFFICES ASSUME NEW i \in 1 .. n, NEW j \in 1 .. n, j = i + 1
                 PROVE  g[path'[i]] = 1 + g[path'[j]]
      BY <2>4
    <3>1. i \in 1 .. l /\ j \in 1 .. l
      BY <1>2, <2>2
    <3>2. h[path[i]] = 1 + h[path[j]]
      BY <1>1, <3>1 DEF PathLevels
    <3> QED
      BY <2>4, <2>6, <3>1, <3>2
  <2>9. IF path' = << >> THEN g[NewPage] = g[Root] ELSE g[Top'] = 1 + g[NewPage]
    <3>1. CASE n = 0
      <4>1. l = 1 /\ Top = Root
        <5>1. l = 1
          BY <2>2, <3>1
        <5>2. path[1] = Root
          BY <1>1 DEF PathLevels
        <5> QED
          BY <1>2, <5>1, <5>2
      <4> QED
        BY <1>2, <1>8, <2>5, <3>1, <4>1
    <3>2. CASE n # 0
      <4>1. n \in 1 .. l /\ l \in 1 .. l /\ l = n + 1
        BY <1>2, <2>2, <3>2
      <4>2. h[path[n]] = 1 + h[path[l]]
        BY <1>1, <4>1 DEF PathLevels
      <4>3. Top' = path[n]
        <5>1. Top' = path'[Len(path')]
          BY DEF Top
        <5>2. n \in 1 .. n
          BY <3>2
        <5> QED
          BY <2>4, <5>1, <5>2
      <4>4. g[NewPage] = h[path[l]] /\ g[path[n]] = h[path[n]]
        BY <1>2, <1>8, <2>6, <4>1
      <4> QED
        BY <2>5, <3>2, <4>2, <4>3, <4>4
    <3> QED
      BY <3>1, <3>2
  <2>10. \A s \in pend' : s.page = NewPage
    BY <2>1
  <2>11. \A s \in pend' : s.page # Root /\ IF path' = << >> THEN g[s.page] = g[Root]
                                            ELSE g[Top'] = 1 + g[s.page]
    BY <1>3, <2>9, <2>10
  <2> QED
    BY <2>7, <2>8, <2>11 DEF PathLevels
<1> QED
  BY <1>7, <1>9 DEF LevelsNow

LEMMA SplitsLevels ==
  ASSUME TypeInv, TypeInv', LevelsNow, SplitLeaf \/ SplitInterior
  PROVE  LevelsNow'
<1>1. CASE SplitLeaf
  <2>1. path # << >> /\ node.leaf = TRUE /\ op = "insert"
    BY <1>1, SplitLeafIs, TopIs
  <2>2. PICK sep, cl, cr : Split(sep, Leaf(cl, NewPage, Below(node.span, sep)),
                                     Leaf(cr, node.extra, From(node.span, sep)))
    BY <1>1, SplitLeafIs
  <2> DEFINE left == Leaf(cl, NewPage, Below(node.span, sep))
             right == Leaf(cr, node.extra, From(node.span, sep))
  <2>3. left.leaf = node.leaf /\ right.leaf = node.leaf
    BY <2>1 DEF Leaf
  <2>4. Split(sep, left, right)
    BY <2>2
  <2> HIDE DEF left, right
  <2> QED
    BY <2>1, <2>3, <2>4, SplitLevels
<1>2. CASE SplitInterior
  <2>1. path # << >> /\ node.leaf = FALSE /\ op = "insert"
    BY <1>2, SplitInteriorIs, TopIs
  <2>2. PICK s, all, sep, cl, cr :
          /\ s \in pend /\ all = With(node.cells, s.sep, s.page) /\ IsCells(all, Pages) /\ sep \in DOMAIN all
          /\ Packed(all, Below(DOMAIN all, sep), cl, Pages)
          /\ Packed(all, Above(DOMAIN all, sep), cr, Pages)
          /\ Split(sep, Interior(cl, node.extra, Below(node.span, sep)),
                        Interior(cr, all[sep], From(node.span, sep)))
    BY <1>2, SplitInteriorIs
  <2> DEFINE left == Interior(cl, node.extra, Below(node.span, sep))
             right == Interior(cr, all[sep], From(node.span, sep))
  <2>3. left.leaf = node.leaf /\ right.leaf = node.leaf
    BY <2>1 DEF Interior
  <2>4. \A c \in Kids(left) \cup Kids(right) : c \in Kids(node) \/ c = s.page
    <3>1. \A j \in DOMAIN all : all[j] \in Kids(node) \/ all[j] = s.page
      BY <2>2 DEF With, Kids
    <3>2. \A j \in DOMAIN cl : j \in DOMAIN all /\ cl[j] = all[j]
      BY <2>2 DEF Packed
    <3>3. \A j \in DOMAIN cr : j \in DOMAIN all /\ cr[j] = all[j]
      BY <2>2 DEF Packed
    <3>4. \A c \in Kids(left) : c = node.extra \/ \E j \in DOMAIN cl : c = cl[j]
      BY DEF Kids, Interior
    <3>5. \A c \in Kids(right) : c = all[sep] \/ \E j \in DOMAIN cr : c = cr[j]
      BY DEF Kids, Interior
    <3>6. node.extra \in Kids(node)
      BY DEF Kids
    <3> QED
      BY <2>2, <3>1, <3>2, <3>3, <3>4, <3>5, <3>6
  <2>5. \A c \in Kids(left) \cup Kids(right) : c \in Pages
    <3>1. s \in pend
      BY <2>2
    <3>2. s.page \in Pages
      BY <3>1 DEF TypeInv, PathTypes
    <3> QED
      BY <2>1, <2>4, <3>2, TopIs
  <2>6. ASSUME NEW h, Levels(page, h), PathLevels(h), NEW c \in Kids(left) \cup Kids(right)
        PROVE  c # Root /\ h[Top] = 1 + h[c]
    <3>0. s \in pend
      BY <2>2
    <3>1. s.page # Root /\ h[Top] = 1 + h[s.page]
      BY <2>1, <2>6, <3>0 DEF PathLevels
    <3>2. Top \in Inner(page) /\ node = page[Top]
      BY <2>1, TopIs DEF Inner, Pages
    <3>3. c \in Kids(node) => c # Root /\ h[Top] = 1 + h[c]
      BY <2>6, <3>2 DEF Levels
    <3> QED
      BY <2>4, <3>1, <3>3
  <2>7. Split(sep, left, right)
    BY <2>2
  <2> HIDE DEF left, right
  <2> QED
    BY <2>1, <2>3, <2>5, <2>6, <2>7, SplitLevels
<1> QED
  BY <1>1, <1>2

LEMMA GrowLevels ==
  ASSUME TypeInv, LevelsNow, GrowRoot
  PROVE  LevelsNow'
<1>1. PICK s \in pend : page' = Grown(page, s)
  BY GrowStep
<1>2. PICK h : Levels(page, h) /\ PathLevels(h)
  BY DEF LevelsNow
<1>3. path = << >> /\ Return("txn") /\ s.page \in Pages
  BY DEF GrowRoot, TypeInv, PathTypes
<1>4. h[s.page] = h[Root] /\ s.page # Root
  BY <1>2, <1>3 DEF PathLevels
<1> DEFINE new == Cardinality(DOMAIN page) + 1
           top == Interior(With(<< >>, s.sep, s.page), new, Key)
           P == DOMAIN page \cup {new}
           g == [p \in P |-> IF p = Root THEN h[Root] + 1 ELSE IF p = new THEN h[Root] ELSE h[p]]
<1>5. new \notin DOMAIN page /\ Root \in DOMAIN page /\ new # Root /\ IsTree(page)
  BY NewPageIs DEF TypeInv, PagesInv
<1>6. page' = With(With(page, Root, top), new, page[Root])
  BY <1>1 DEF Grown
<1>7. \A c \in Kids(top) : c = new \/ c = s.page
  BY DEF Kids, Interior, With
<1>8. top.leaf = FALSE
  BY DEF Interior
<1> HIDE DEF new, top
<1>9. /\ DOMAIN page' = P /\ page'[Root] = top /\ page'[new] = page[Root]
      /\ \A p \in DOMAIN page : p # Root => page'[p] = page[p]
  BY <1>5, <1>6 DEF With
<1>10. \A p \in DOMAIN page : h[p] \in Nat
  BY <1>2 DEF Levels
<1>11. /\ g \in [P -> Nat] /\ g[Root] = h[Root] + 1 /\ g[new] = h[Root]
       /\ \A p \in DOMAIN page : p # Root => g[p] = h[p]
  BY <1>5, <1>10
<1> HIDE DEF g
<1>12. ASSUME NEW p \in Outer(page') PROVE g[p] = 0
  <2>1. p \in P /\ p # Root
    BY <1>8, <1>9, <1>12 DEF Outer
  <2>2. CASE p = new
    <3>1. Root \in Outer(page)
      BY <1>5, <1>9, <1>12, <2>2 DEF Outer
    <3> QED
      BY <1>2, <1>11, <2>2, <3>1 DEF Levels
  <2>3. CASE p # new
    <3>1. p \in Outer(page) /\ p \in DOMAIN page
      BY <1>9, <1>12, <2>1, <2>3 DEF Outer
    <3> QED
      BY <1>2, <1>11, <2>1, <3>1 DEF Levels
  <2> QED
    BY <2>2, <2>3
<1>13. ASSUME NEW p \in Inner(page'), NEW c \in Kids(page'[p]) PROVE c # Root /\ g[p] = 1 + g[c]
  <2>1. CASE p = Root
    <3>1. c = new \/ c = s.page
      BY <1>7, <1>9, <1>13, <2>1
    <3>2. g[s.page] = h[Root] /\ h[Root] \in Nat
      BY <1>3, <1>4, <1>5, <1>10, <1>11 DEF Pages
    <3> QED
      BY <1>4, <1>5, <1>11, <2>1, <3>1, <3>2
  <2>2. CASE p = new
    <3>1. Root \in Inner(page) /\ c \in Kids(page[Root])
      BY <1>5, <1>9, <1>13, <2>2 DEF Inner
    <3>2. c # Root /\ h[Root] = 1 + h[c]
      BY <1>2, <3>1 DEF Levels
    <3>3. c \in DOMAIN page
      BY <1>5, <3>1, NodeIn DEF Inner
    <3> QED
      BY <1>11, <2>2, <3>2, <3>3
  <2>3. CASE p # Root /\ p # new
    <3>1. p \in Inner(page) /\ c \in Kids(page[p]) /\ p \in DOMAIN page
      BY <1>9, <1>13, <2>3 DEF Inner
    <3>2. c # Root /\ h[p] = 1 + h[c]
      BY <1>2, <3>1 DEF Levels
    <3>3. c \in DOMAIN page
      BY <1>5, <3>1, NodeIn DEF Inner
    <3> QED
      BY <1>11, <2>3, <3>1, <3>2, <3>3
  <2> QED
    BY <2>1, <2>2, <2>3
<1>14. Levels(page', g)
  BY <1>9, <1>11, <1>12, <1>13 DEF Levels
<1> QED
  BY <1>3, <1>14, ReturnLevels

LEMMA DescendLevels ==
  ASSUME TypeInv, LevelsNow, Descend
  PROVE  LevelsNow'
<1>1. PICK c \in Kids(node) :
        /\ path' = Append(path, c) /\ path # << >> /\ ~node.leaf /\ pend = {}
        /\ op \notin {"none", "scan"} /\ UNCHANGED <<page, op, pend>>
  BY DescendTypes
<1>2. PICK h : Levels(page, h) /\ PathLevels(h)
  BY DEF LevelsNow
<1> DEFINE l == Len(path)
<1>3. Top \in Inner(page) /\ node = page[Top] /\ Top = path[l] /\ l \in Nat \ {0}
  BY <1>1, TopIs DEF Inner, Pages, Top
<1>4. h[path[l]] = 1 + h[c]
  BY <1>2, <1>3 DEF Levels
<1>5. Len(path') = l + 1 /\ path'[l + 1] = c /\ \A i \in 1 .. l : path'[i] = path[i]
  BY <1>1 DEF TypeInv, PathTypes
<1>6. path[1] = Root
  BY <1>1, <1>2 DEF PathLevels
<1>7. ASSUME NEW i \in 1 .. Len(path'), NEW j \in 1 .. Len(path'), j = i + 1
      PROVE  h[path'[i]] = 1 + h[path'[j]]
  <2>1. CASE j = l + 1
    <3>1. i \in Int /\ l \in Nat \ {0} /\ l + 1 = i + 1
      BY <1>3, <1>7, <2>1
    <3> HIDE DEF l
    <3>2. i = l /\ i \in 1 .. l
      BY <3>1
    <3> QED
      BY <1>4, <1>5, <2>1, <3>2 DEF l
  <2>2. CASE j # l + 1
    <3>1. i \in 1 .. l /\ j \in 1 .. l
      BY <1>3, <1>5, <1>7, <2>2
    <3>2. h[path[i]] = 1 + h[path[j]]
      BY <1>1, <1>2, <1>7, <3>1 DEF PathLevels
    <3> QED
      BY <1>5, <3>1, <3>2
  <2> QED
    BY <2>1, <2>2
<1>8. path'[1] = Root
  <2>1. 1 \in 1 .. l
    BY <1>3
  <2> QED
    BY <1>5, <1>6, <2>1
<1>9. PathLevels(h)'
  BY <1>1, <1>7, <1>8 DEF PathLevels
<1> QED
  BY <1>1, <1>2, <1>9 DEF LevelsNow

\* The steps that write no page, and leave a path of at most one.
LEMMA ShortPathLevels ==
  ASSUME LevelsNow, page' = page, pend' = {}, op' = "scan" \/ path' = << >> \/ path' = <<Root>>
  PROVE  LevelsNow'
<1>1. PICK h : Levels(page, h)
  BY DEF LevelsNow
<1>2. CASE op' = "scan"
  BY <1>1, <1>2 DEF PathLevels, LevelsNow
<1>3. CASE path' = << >> \/ path' = <<Root>>
  <2>1. \A i, j \in 1 .. Len(path') : ~ (j = i + 1)
    <3>1. CASE path' = << >>
      BY <3>1
    <3>2. CASE path' = <<Root>>
      BY <3>2
    <3> QED
      BY <1>3, <3>1, <3>2
  <2>2. path' # << >> => path'[1] = Root
    BY <1>3
  <2>3. PathLevels(h)'
    BY <2>1, <2>2 DEF PathLevels
  <2> QED
    BY <1>1, <2>3 DEF LevelsNow
<1> QED
  BY <1>2, <1>3

LEMMA InitLevels == Init => LevelInv
<1> SUFFICES ASSUME Init PROVE LevelInv
  OBVIOUS
<1>1. page = <<Leaf(<< >>, 0, Key)>> /\ disk = page /\ op = "none" /\ path = << >> /\ pend = {}
  BY DEF Init
<1>2. DOMAIN page = {1} /\ page[1].leaf = TRUE
  BY <1>1 DEF Leaf
<1> DEFINE h == [p \in {1} |-> 0]
<1>3. Levels(page, h)
  BY <1>2 DEF Levels, Inner, Outer
<1>4. PathLevels(h)
  BY <1>1 DEF PathLevels
<1> QED
  BY <1>1, <1>3, <1>4 DEF LevelInv

LEMMA NextLevels == TypeInv /\ TypeInv' /\ LevelInv /\ [Next]_vars => LevelInv'
<1> SUFFICES ASSUME TypeInv, TypeInv', LevelInv, [Next]_vars PROVE LevelInv'
  OBVIOUS
<1>0. LevelsNow /\ \E h : Levels(disk, h)
  BY DEF LevelInv, LevelsNow
<1>1. ASSUME LevelsNow', UNCHANGED disk PROVE LevelInv'
  BY <1>0, <1>1 DEF LevelInv, LevelsNow
<1>2. CASE \E o, k, v : Start(o, k, v)
  <2>1. page' = page /\ disk' = disk /\ pend' = {} /\ path' = <<Root>>
    BY <1>2 DEF Start, store, TypeInv, PathTypes
  <2> QED
    BY <1>0, <1>1, <2>1, ShortPathLevels
<1>3. CASE InsertInLeaf \/ DeleteFromLeaf \/ UpdateFromLeaf
  BY <1>0, <1>1, <1>3, LeafLevels DEF InsertInLeaf, DeleteFromLeaf, UpdateFromLeaf
<1>4. CASE SplitLeaf \/ SplitInterior
  <2>1. UNCHANGED disk
    BY <1>4 DEF SplitLeaf, SplitInterior, Split
  <2> QED
    BY <1>0, <1>1, <1>4, <2>1, SplitsLevels
<1>5. CASE InsertInParent
  BY <1>0, <1>1, <1>5, ParentLevels DEF InsertInParent
<1>6. CASE GrowRoot
  BY <1>0, <1>1, <1>6, GrowLevels DEF GrowRoot
<1>7. CASE Descend
  BY <1>0, <1>1, <1>7, DescendLevels, DescendTypes
<1>8. CASE GetFromLeaf \/ InsertTooLarge \/ CloseCursor \/ Fail
  <2>1. page' = page /\ disk' = disk /\ pend' = {} /\ path' = << >>
    BY <1>8 DEF GetFromLeaf, InsertTooLarge, CloseCursor, Fail, Return, NoCall, store
  <2> QED
    BY <1>0, <1>1, <2>1, ShortPathLevels
<1>9. CASE SeekInLeaf \/ NextCell \/ NextLeaf \/ NextEnd
  <2>1. page' = page /\ disk' = disk /\ pend' = {} /\ op' = "scan"
    BY <1>9 DEF SeekInLeaf, NextCell, NextLeaf, NextEnd, AtLeaf, TypeInv, PathTypes, store
  <2> QED
    BY <1>0, <1>1, <2>1, ShortPathLevels
<1>10. CASE Begin
  <2>1. page' = page /\ disk' = disk /\ pend' = {} /\ path' = << >>
    BY <1>10 DEF Begin, TypeInv, CallInv, PathTypes, store
  <2> QED
    BY <1>0, <1>1, <2>1, ShortPathLevels
<1>11. CASE Commit
  <2>1. page' = page /\ pend' = {} /\ path' = << >>
    BY <1>11 DEF Commit, TypeInv, CallInv, PathTypes
  <2>2. LevelsNow'
    BY <1>0, <2>1, ShortPathLevels
  <2>3. disk' = page
    <3>1. page = [p \in DOMAIN page |-> page[p]]
      BY DEF TypeInv, PagesInv, IsTree
    <3>2. \A p \in DOMAIN page : p \notin captured => page[p] = disk[p]
      BY DEF TypeInv, PagesInv, Synced, Pages
    <3> QED
      BY <1>11, <3>1, <3>2 DEF Commit
  <2> QED
    BY <1>0, <2>2, <2>3 DEF LevelInv, LevelsNow
<1>12. CASE Restore
  <2>1. page' = disk /\ disk' = disk /\ op' = "none" /\ path' = << >> /\ pend' = {}
    BY <1>12 DEF Restore, NoCall
  <2>2. PICK h : Levels(disk, h)
    BY <1>0
  <2>3. PathLevels(h)'
    BY <2>1 DEF PathLevels
  <2> QED
    BY <2>1, <2>2, <2>3 DEF LevelInv
<1>13. CASE UNCHANGED vars
  BY <1>0, <1>13 DEF vars, store, LevelInv, PathLevels, Top
<1>14. CASE \E k \in Key : Delete(k) \/ Get(k) \/ Seek(k) \/ \E v \in Val : Update(k, v)
  BY <1>2, <1>14 DEF Delete, Get, Seek, Update
<1>15. CASE Cursor \/ \E k \in Key, v \in Val : Insert(k, v)
  BY <1>2, <1>15 DEF Insert, Cursor
<1> QED
  BY <1>3, <1>4, <1>5, <1>6, <1>7, <1>8, <1>9, <1>10, <1>11, <1>12, <1>13, <1>14, <1>15
  DEF Next, Shared, Working

\* The levels of a tree are those that Height counts down its first children.
LEMMA HeightIs ==
  ASSUME TypeInv, NEW h, Levels(page, h)
  PROVE  \A p \in Pages : Height[p] = h[p]
<1> DEFINE f == [p \in Pages |-> IF page[p].leaf THEN 0 ELSE 1 + h[page[p].extra]]
<1>1. /\ h \in [Pages -> Nat] /\ \A p \in Outer(page) : h[p] = 0
      /\ \A p \in Inner(page) : page[p].extra \in Pages /\ h[p] = 1 + h[page[p].extra]
  BY NodeIn DEF Levels, Kids, Pages, Inner, TypeInv, PagesInv
<1>2. h = f
  <2>1. \A p \in Pages : h[p] = f[p]
    BY <1>1 DEF Outer, Inner, Pages
  <2> QED
    BY <1>1, <2>1
<1>3. Height = [p \in Pages |-> IF page[p].leaf THEN 0 ELSE 1 + Height[page[p].extra]]
  BY <1>2 DEF Height
<1> DEFINE odd == {h[p] : p \in {q \in Pages : Height[q] # h[q]}}
<1>4. SUFFICES ASSUME odd # {} PROVE FALSE
  OBVIOUS
<1>5. odd \in SUBSET Nat
  BY <1>1
<1>6. PICK m \in odd : \A j \in odd : m <= j
  BY <1>4, <1>5, LeastNat
<1>7. PICK p \in Pages : h[p] = m /\ Height[p] # h[p]
  BY <1>6
<1>8. p \in Inner(page)
  BY <1>1, <1>3, <1>7 DEF Inner, Outer, Pages
<1> DEFINE c == page[p].extra
<1>9. c \in Pages /\ h[p] = 1 + h[c] /\ Height[p] = 1 + Height[c] /\ h[c] \in Nat
  BY <1>1, <1>3, <1>8 DEF Inner, Pages
<1>10. Height[c] # h[c]
  BY <1>7, <1>9
<1>11. h[c] \in odd
  BY <1>9, <1>10
<1> HIDE DEF odd
<1>12. m <= h[c]
  BY <1>6, <1>11
<1> QED
  BY <1>7, <1>9, <1>12

\* Balanced of BTree, in every state, one that a failed call left included: the
\* leaves stay on one level however nodes are split (insert, btree.go:126-157).
THEOREM Balance == Spec => []Balanced
<1>1. TypeInv /\ LevelInv => Balanced
  <2> SUFFICES ASSUME TypeInv, LevelInv,
                      NEW p \in Pages \ Leaves, NEW k \in DOMAIN page[p].cells
               PROVE  Height[page[p].cells[k]] = Height[page[p].extra]
    BY DEF Balanced
  <2>1. PICK h : Levels(page, h)
    BY DEF LevelInv
  <2> DEFINE b == page[p].cells[k]
             c == page[p].extra
  <2>2. p \in Inner(page) /\ b \in Kids(page[p]) /\ c \in Kids(page[p])
    BY DEF Inner, Kids, Leaves, Pages
  <2>3. b \in Pages /\ c \in Pages
    BY <2>2, NodeIn DEF Inner, Pages, TypeInv, PagesInv
  <2>4. h[p] = 1 + h[b] /\ h[p] = 1 + h[c] /\ h[b] \in Nat /\ h[c] \in Nat
    BY <2>1, <2>2, <2>3 DEF Levels, Pages
  <2>5. Height[b] = h[b] /\ Height[c] = h[c]
    BY <2>1, <2>3, HeightIs
  <2> HIDE DEF b, c
  <2>6. h[b] = h[c]
    BY <2>4
  <2> QED
    BY <2>5, <2>6 DEF b, c
<1> QED
  BY <1>1, InitTypes, InitLevels, NextTypes, NextLevels, PTL DEF Spec

-----------------------------------------------------------------------------
(* Children.                                                               *)

\* Two keys with the same child have no separator between them.
LEMMA SameChild ==
  ASSUME NEW n, NEW P, IsCells(n.cells, P), Distinct(n), NEW i \in Key, NEW j \in Key,
         ChildPage(n, i) = ChildPage(n, j), NEW s \in DOMAIN n.cells
  PROVE  s <= i <=> s <= j
<1>1. /\ DOMAIN n.cells \subseteq Key /\ IsFiniteSet(DOMAIN n.cells)
      /\ \A x : x \in Key => x \in Int
  BY BTreeAssumption DEF IsCells
<1>2. ASSUME NEW a \in Key, NEW b \in Key, ChildPage(n, a) = ChildPage(n, b), s <= a
      PROVE  s <= b
  <2>1. PICK x \in DOMAIN n.cells : Slot(n, a, x)
    BY <1>1, <1>2, ChildPageIs DEF NoSlot
  <2>2. ChildPage(n, a) = n.cells[x] /\ s <= x
    BY <1>1, <1>2, <2>1, ChildPageIs DEF Slot
  <2>3. ~NoSlot(n, b)
    BY <1>1, <1>2, <2>2, ChildPageIs DEF Distinct
  <2>4. PICK y \in DOMAIN n.cells : Slot(n, b, y)
    BY <1>1, <2>3, ChildPageIs
  <2>5. x = y
    BY <1>1, <1>2, <2>2, <2>4, ChildPageIs DEF Distinct
  <2>6. s \in Int /\ x \in Int /\ b \in Int /\ x <= b
    BY <1>1, <2>4, <2>5 DEF Slot
  <2> QED
    BY <2>2, <2>6
<1> QED
  BY <1>2

\* A separator that cuts the keys of one child in two gives the upper part to
\* its page, and changes nothing for any other key.
LEMMA AddedChild ==
  ASSUME NEW n, NEW P, IsCells(n.cells, P), Distinct(n), NEW sep \in Key, NEW r, NEW p,
         NEW i \in Key, NEW j \in Key, i < sep, sep <= j,
         ChildPage(n, i) = p, ChildPage(n, j) = p, NEW m, m = AddSep(n, [sep |-> sep, page |-> r])
  PROVE  /\ sep \notin DOMAIN n.cells
         /\ \A k \in Key : ChildPage(m, k) = IF ChildPage(n, k) = p /\ sep <= k THEN r
                                             ELSE ChildPage(n, k)
<1>1. /\ DOMAIN n.cells \subseteq Key /\ IsFiniteSet(DOMAIN n.cells)
      /\ (\A x : x \in Key => x \in Int) /\ sep \in Int /\ i \in Int /\ j \in Int
  BY BTreeAssumption DEF IsCells
<1>2. \A s \in DOMAIN n.cells : s <= i <=> s <= j
  BY SameChild
<1>3. sep \notin DOMAIN n.cells
  <2> SUFFICES ASSUME sep \in DOMAIN n.cells PROVE FALSE
    OBVIOUS
  <2>1. sep <= i
    BY <1>2
  <2> QED
    BY <1>1, <2>1
<1>4. /\ DOMAIN m.cells = DOMAIN n.cells \cup {sep} /\ m.extra = n.extra /\ m.cells[sep] = r
      /\ \A s \in DOMAIN n.cells : m.cells[s] = n.cells[s]
  BY <1>3 DEF AddSep, Interior, With
<1>5. DOMAIN m.cells \subseteq Key /\ IsFiniteSet(DOMAIN m.cells)
  BY <1>1, <1>4, FS_AddElement
<1>6. ASSUME NEW k \in Key
      PROVE  ChildPage(m, k) = IF ChildPage(n, k) = p /\ sep <= k THEN r ELSE ChildPage(n, k)
  <2>0. k \in Int
    BY <1>1
  <2>1. CASE ~ (sep <= k)
    <3>1. NoSlot(n, k) => NoSlot(m, k)
      BY <1>4, <2>1 DEF NoSlot
    <3>2. ASSUME NEW s \in DOMAIN n.cells, Slot(n, k, s) PROVE Slot(m, k, s)
      BY <1>4, <2>1, <3>2 DEF Slot
    <3>3. CASE NoSlot(n, k)
      BY <1>1, <1>4, <1>5, <2>1, <3>1, <3>3, ChildPageIs
    <3>4. CASE ~NoSlot(n, k)
      <4>1. PICK s \in DOMAIN n.cells : Slot(n, k, s)
        BY <1>1, <3>4, ChildPageIs
      <4>2. ChildPage(n, k) = n.cells[s] /\ ChildPage(m, k) = m.cells[s]
        BY <1>1, <1>5, <3>2, <4>1, ChildPageIs
      <4> QED
        BY <1>4, <2>1, <4>2
    <3> QED
      BY <3>3, <3>4
  <2>2. CASE sep <= k /\ ChildPage(n, k) = p
    <3>1. \A s \in DOMAIN n.cells : s <= i <=> s <= k
      BY <2>2, SameChild
    <3>2. Slot(m, k, sep)
      <4>1. ASSUME NEW s \in DOMAIN m.cells, s <= k PROVE s <= sep
        <5>1. CASE s = sep
          BY <1>1, <5>1
        <5>2. CASE s # sep
          <6>1. s \in Int /\ s <= i
            BY <1>1, <1>4, <3>1, <4>1, <5>2
          <6> QED
            BY <1>1, <6>1
        <5> QED
          BY <5>1, <5>2
      <4> QED
        BY <1>4, <2>2, <4>1 DEF Slot
    <3> QED
      BY <1>4, <1>5, <2>2, <3>2, ChildPageIs
  <2>3. CASE sep <= k /\ ChildPage(n, k) # p
    <3>1. ~ \A s \in DOMAIN n.cells : s <= i <=> s <= k
      <4> SUFFICES ASSUME \A s \in DOMAIN n.cells : s <= i <=> s <= k PROVE FALSE
        OBVIOUS
      <4>1. NoSlot(n, i) <=> NoSlot(n, k)
        BY DEF NoSlot
      <4>2. \A s \in DOMAIN n.cells : Slot(n, i, s) <=> Slot(n, k, s)
        BY DEF Slot
      <4> QED
        BY <1>1, <2>3, <4>1, <4>2, ChildPageIs
    <3>2. PICK s \in DOMAIN n.cells : s <= k /\ ~ (s <= i)
      <4>1. PICK s \in DOMAIN n.cells : ~ (s <= i <=> s <= k)
        BY <3>1
      <4>2. s \in Int
        BY <1>1
      <4>3. s <= i => s <= k
        BY <1>1, <2>0, <2>3, <4>2
      <4> QED
        BY <4>1, <4>3
    <3>3. s \in Int /\ ~ (s <= j) /\ sep < s
      BY <1>1, <1>2, <3>2
    <3>4. PICK x \in DOMAIN n.cells : Slot(n, k, x)
      BY <1>1, <3>2, ChildPageIs DEF NoSlot
    <3>5. x \in Int /\ s <= x
      BY <1>1, <3>2, <3>4 DEF Slot
    <3>6. Slot(m, k, x)
      <4>1. sep <= x
        BY <1>1, <3>3, <3>5
      <4> QED
        BY <1>4, <3>4, <4>1 DEF Slot
    <3>7. ChildPage(n, k) = n.cells[x] /\ ChildPage(m, k) = m.cells[x]
      BY <1>1, <1>5, <3>4, <3>6, ChildPageIs
    <3> QED
      BY <1>4, <2>3, <3>7
  <2> QED
    BY <2>1, <2>2, <2>3
<1> QED
  BY <1>3, <1>6

\* The halves of an interior node part its children, and send each key to the
\* child that the whole node sent it to.
LEMMA InteriorHalves ==
  ASSUME NEW n, NEW P, IsCells(n.cells, P), Distinct(n), NEW sep \in DOMAIN n.cells,
         NEW left, left.cells = Only(n.cells, Below(DOMAIN n.cells, sep)), left.extra = n.extra,
         NEW right, right.cells = Only(n.cells, Above(DOMAIN n.cells, sep)), right.extra = n.cells[sep]
  PROVE  /\ Kids(left) \subseteq Kids(n) /\ Kids(right) \subseteq Kids(n)
         /\ Kids(left) \cap Kids(right) = {} /\ Distinct(left) /\ Distinct(right)
         /\ \A k \in Key : IF sep <= k
                           THEN ChildPage(right, k) = ChildPage(n, k) /\ ChildPage(n, k) \notin Kids(left)
                           ELSE ChildPage(left, k) = ChildPage(n, k) /\ ChildPage(n, k) \notin Kids(right)
<1> DEFINE D == DOMAIN n.cells
           cl == left.cells
           cr == right.cells
<1>1. /\ D \in SUBSET Key /\ D \in SUBSET Int /\ IsFiniteSet(D)
      /\ (\A x : x \in Key => x \in Int) /\ sep \in Int
  BY BTreeAssumption DEF IsCells
<1>2. /\ \A x : x \in DOMAIN cl <=> x \in D /\ x \in Int /\ x < sep
      /\ \A x \in DOMAIN cl : cl[x] = n.cells[x]
      /\ \A x : x \in DOMAIN cr <=> x \in D /\ x \in Int /\ sep < x
      /\ \A x \in DOMAIN cr : cr[x] = n.cells[x]
  <2>1. /\ \A x : x \in Below(D, sep) <=> x \in D /\ x \in Int /\ x < sep
        /\ \A x : x \in Above(D, sep) <=> x \in D /\ x \in Int /\ x > sep
    BY <1>1, Parts
  <2>2. /\ DOMAIN cl = D \cap Below(D, sep) /\ \A x \in DOMAIN cl : cl[x] = n.cells[x]
        /\ DOMAIN cr = D \cap Above(D, sep) /\ \A x \in DOMAIN cr : cr[x] = n.cells[x]
    BY DEF Only
  <2> QED
    BY <2>1, <2>2
<1>3. /\ DOMAIN cl \subseteq Key /\ IsFiniteSet(DOMAIN cl) /\ DOMAIN cr \subseteq Key /\ IsFiniteSet(DOMAIN cr)
  BY <1>1, <1>2, FS_Subset
<1> HIDE DEF D, cl, cr
<1>4. Kids(left) \subseteq Kids(n) /\ Kids(right) \subseteq Kids(n)
  BY <1>2 DEF Kids, D, cl, cr
<1>5. Kids(left) \cap Kids(right) = {}
  <2> SUFFICES ASSUME NEW c \in Kids(left), c \in Kids(right) PROVE FALSE
    OBVIOUS
  <2>1. c = n.extra \/ \E x \in D : x \in Int /\ x < sep /\ c = n.cells[x]
    BY <1>2 DEF Kids, D, cl
  <2>2. \E y \in D : y \in Int /\ sep <= y /\ c = n.cells[y]
    BY <1>1, <1>2 DEF Kids, D, cr
  <2>3. PICK y \in D : y \in Int /\ sep <= y /\ c = n.cells[y]
    BY <2>2
  <2>4. PICK x \in D : x \in Int /\ x < sep /\ c = n.cells[x]
    BY <2>1, <2>3 DEF Distinct, D
  <2>5. x = y
    BY <2>3, <2>4 DEF Distinct, D
  <2> QED
    BY <1>1, <2>3, <2>4, <2>5
<1>6. Distinct(left) /\ Distinct(right)
  <2>1. Distinct(left)
    BY <1>2 DEF Distinct, D, cl
  <2>2. ASSUME NEW x \in DOMAIN cr PROVE cr[x] # right.extra
    <3>1. x \in D /\ x # sep /\ cr[x] = n.cells[x]
      BY <1>1, <1>2
    <3> QED
      BY <3>1 DEF Distinct, D
  <2>3. Distinct(right)
    BY <1>2, <2>2 DEF Distinct, D, cr
  <2> QED
    BY <2>1, <2>3
<1>7. ASSUME NEW k \in Key, ~ (sep <= k)
      PROVE  ChildPage(left, k) = ChildPage(n, k) /\ ChildPage(left, k) \in Kids(left)
  <2>0. k \in Int
    BY <1>1
  <2>1. \A x \in D : x <= k => x \in DOMAIN cl
    BY <1>1, <1>2, <1>7, <2>0
  <2>2. ASSUME NEW x \in D, Slot(n, k, x) PROVE Slot(left, k, x) /\ x \in DOMAIN cl
    BY <1>2, <2>1, <2>2 DEF Slot, D, cl
  <2>3. NoSlot(n, k) => NoSlot(left, k)
    BY <1>2 DEF NoSlot, D, cl
  <2>4. CASE NoSlot(n, k)
    BY <1>1, <1>3, <2>3, <2>4, ChildPageIs DEF D, cl
  <2>5. CASE ~NoSlot(n, k)
    <3>1. PICK x \in D : Slot(n, k, x)
      BY <1>1, <2>5, ChildPageIs DEF D
    <3>2. ChildPage(n, k) = n.cells[x]
      BY <1>1, <3>1, ChildPageIs DEF D
    <3>3. ChildPage(left, k) = cl[x] /\ ChildPage(left, k) \in Kids(left)
      BY <1>3, <2>2, <3>1, ChildPageIs DEF cl
    <3> QED
      BY <1>2, <2>2, <3>1, <3>2, <3>3
  <2> QED
    BY <2>4, <2>5
<1>8. ASSUME NEW k \in Key, sep <= k
      PROVE  ChildPage(right, k) = ChildPage(n, k) /\ ChildPage(right, k) \in Kids(right)
  <2>0. k \in Int
    BY <1>1
  <2>1. ~NoSlot(n, k)
    BY <1>8 DEF NoSlot
  <2>2. PICK x \in D : Slot(n, k, x)
    BY <1>1, <2>1, ChildPageIs DEF D
  <2>3. ChildPage(n, k) = n.cells[x] /\ sep <= x /\ x \in Int
    BY <1>1, <1>8, <2>2, ChildPageIs DEF D, Slot
  <2>4. CASE x = sep
    <3>1. ASSUME NEW y \in DOMAIN cr PROVE ~ (y <= k)
      <4>1. y \in D /\ y \in Int /\ sep < y
        BY <1>2
      <4>2. y <= k => y <= sep
        BY <2>2, <2>4, <4>1 DEF Slot, D
      <4> QED
        BY <1>1, <4>1, <4>2
    <3>2. NoSlot(right, k)
      BY <3>1 DEF NoSlot, cr
    <3> QED
      BY <1>3, <2>3, <2>4, <3>2, ChildPageIs DEF cr
  <2>5. CASE x # sep
    <3>1. x \in DOMAIN cr
      BY <1>1, <1>2, <2>3, <2>5
    <3>2. Slot(right, k, x)
      BY <1>2, <2>2, <3>1 DEF Slot, D, cr
    <3>3. ChildPage(right, k) = cr[x] /\ ChildPage(right, k) \in Kids(right)
      BY <1>3, <3>1, <3>2, ChildPageIs DEF cr
    <3> QED
      BY <1>2, <2>3, <3>1, <3>3
  <2> QED
    BY <2>4, <2>5
<1> QED
  BY <1>4, <1>5, <1>6, <1>7, <1>8

-----------------------------------------------------------------------------
(* Trees whose shape changes.                                              *)

\* Cells that stay inside the spans of their leaves leave the shape alone.
LEMMA SameShape ==
  ASSUME NEW t, WellFormed(t), NEW u, IsTree(u), DOMAIN u = DOMAIN t,
         \A p \in DOMAIN t : /\ u[p].leaf = t[p].leaf /\ u[p].extra = t[p].extra /\ u[p].span = t[p].span
                             /\ IF t[p].leaf THEN DOMAIN u[p].cells \subseteq t[p].span ELSE u[p] = t[p]
  PROVE  WellFormed(u)
<1>1. Outer(u) = Outer(t) /\ Inner(u) = Inner(t) /\ Root \in DOMAIN t
  BY DEF Outer, Inner, WellFormed, IsTree
<1>2. u[Root].span = Key /\ \A p \in DOMAIN u : u[p].span # {}
  BY <1>1 DEF WellFormed
<1>3. Routes(u)
  <2> SUFFICES ASSUME NEW p \in Inner(t), NEW c \in Kids(t[p])
               PROVE  u[c].span = {k \in t[p].span : ChildPage(t[p], k) = c}
    BY <1>1 DEF Routes, Inner
  <2>1. c \in DOMAIN t
    BY NodeIn DEF WellFormed, Inner
  <2> QED
    BY <2>1 DEF WellFormed, Routes
<1>4. OneParent(u)
  BY <1>1 DEF WellFormed, OneParent, Inner
<1>5. LeafSpans(u)
  BY <1>1 DEF WellFormed, LeafSpans, Outer
<1>6. Chain(u)
  <2> SUFFICES ASSUME NEW p \in Outer(t)
               PROVE  IF u[p].extra = 0
                      THEN \A k \in Key : \E j \in u[p].span : ~ (j < k)
                      ELSE /\ u[p].extra \in Outer(u) /\ u[p].extra # Root
                           /\ \E lo \in u[u[p].extra].span :
                                /\ \A k \in u[u[p].extra].span : lo <= k
                                /\ \A k \in Key : (\A j \in u[p].span : j < k) <=> lo <= k
    BY <1>1 DEF Chain
  <2>1. p \in DOMAIN t /\ u[p].extra = t[p].extra /\ u[p].span = t[p].span
    BY DEF Outer
  <2>2. t[p].extra # 0 => t[p].extra \in Outer(t) /\ u[t[p].extra].span = t[t[p].extra].span
    BY DEF WellFormed, Chain, Outer
  <2> QED
    BY <1>1, <2>1, <2>2 DEF WellFormed, Chain
<1> QED
  BY <1>2, <1>3, <1>4, <1>5, <1>6 DEF WellFormed

\* Node p of t, a child of q, is to be cut at sep: left and right take over its
\* keys, right on page r.
Cutting(t, q, p, r, sep, left, right) ==
  /\ WellFormed(t) /\ q \in Inner(t) /\ p \in Kids(t[q]) /\ p # q
  /\ r \notin DOMAIN t /\ r # 0 /\ sep \in Key
  /\ IsNode(left, DOMAIN t \cup {r}) /\ IsNode(right, DOMAIN t \cup {r})
  /\ left.leaf = t[p].leaf /\ right.leaf = t[p].leaf
  /\ left.span = Below(t[p].span, sep) /\ right.span = From(t[p].span, sep)
  /\ left.span # {} /\ right.span # {}

LeafCut(n, r, sep, left, right) ==
  /\ sep \in n.span /\ left.extra = r /\ right.extra = n.extra
  /\ DOMAIN left.cells \subseteq left.span /\ DOMAIN right.cells \subseteq right.span

\* Each child of the node goes to one half, which sends it the keys it holds.
InteriorCut(t, n, left, right) ==
  /\ Kids(left) \subseteq Kids(n) /\ Kids(right) \subseteq Kids(n)
  /\ Kids(left) \cap Kids(right) = {} /\ Distinct(left) /\ Distinct(right)
  /\ \A c \in Kids(left) : t[c].span = {k \in left.span : ChildPage(left, k) = c}
  /\ \A c \in Kids(right) : t[c].span = {k \in right.span : ChildPage(right, k) = c}

\* u is t with p cut, and q told of it.
Cut(t, q, p, r, sep, left, right, u) ==
  /\ DOMAIN u = DOMAIN t \cup {r} /\ IsTree(u)
  /\ u[p] = left /\ u[r] = right /\ \A x \in DOMAIN t : x # p /\ x # q => u[x] = t[x]
  /\ u[q].leaf = FALSE /\ u[q].span = t[q].span
  /\ Kids(u[q]) = Kids(t[q]) \cup {r} /\ Distinct(u[q])
  /\ \A k \in Key : ChildPage(u[q], k) = IF ChildPage(t[q], k) = p /\ sep <= k THEN r
                                         ELSE ChildPage(t[q], k)

\* The pages involved are different pages, and the root is none but q.
LEMMA CutPlaces ==
  ASSUME NEW t, NEW q, NEW p, NEW r, NEW sep, NEW left, NEW right, Cutting(t, q, p, r, sep, left, right)
  PROVE  /\ p \in DOMAIN t /\ q \in DOMAIN t /\ Root \in DOMAIN t /\ IsTree(t)
         /\ r # p /\ r # q /\ r # Root /\ p # Root /\ p # q /\ p # 0 /\ q # 0
         /\ t[q].leaf = FALSE /\ t[p].leaf \in BOOLEAN
         /\ t[p].span = {k \in t[q].span : ChildPage(t[q], k) = p}
         /\ t[p].span \subseteq Key /\ (\A x : x \in Key => x \in Int)
<1>1. WellFormed(t) /\ IsTree(t) /\ q \in DOMAIN t /\ ~t[q].leaf /\ p \in Kids(t[q])
  BY DEF Cutting, WellFormed, Inner
<1>2. p \in DOMAIN t /\ t[q].leaf \in BOOLEAN
  BY <1>1, NodeIn
<1>3. Root \in DOMAIN t /\ 0 \notin DOMAIN t /\ r \notin DOMAIN t /\ p # q
  BY <1>1 DEF IsTree, Cutting
<1>4. Root \notin Kids(t[q]) /\ t[p].span = {k \in t[q].span : ChildPage(t[q], k) = p}
  BY <1>1 DEF WellFormed, OneParent, Routes, Inner
<1>5. t[p].span \subseteq Key /\ t[p].leaf \in BOOLEAN
  BY <1>1, <1>2, NodeIn
<1>6. p # Root
  BY <1>1, <1>4
<1> QED
  BY <1>1, <1>2, <1>3, <1>4, <1>5, <1>6, BTreeAssumption

LEMMA CutIs ==
  ASSUME NEW t, NEW q, NEW p, NEW r, NEW sep, NEW left, NEW right, Cutting(t, q, p, r, sep, left, right),
         NEW u, u = With(With(With(t, p, left), r, right), q, AddSep(t[q], [sep |-> sep, page |-> r]))
  PROVE  Cut(t, q, p, r, sep, left, right, u)
<1> DEFINE n == t[q]
           m == AddSep(n, [sep |-> sep, page |-> r])
           t1 == With(t, p, left)
           t2 == With(t1, r, right)
           D == DOMAIN t
<1>1. /\ p \in D /\ q \in D /\ r \notin D /\ p # q /\ r # p /\ r # q /\ p # 0 /\ q # 0 /\ r # 0
      /\ IsTree(t) /\ n.leaf = FALSE /\ sep \in Key /\ sep \in Int
      /\ IsNode(left, D \cup {r}) /\ IsNode(right, D \cup {r})
  BY CutPlaces DEF Cutting
<1>2. IsNode(n, D) /\ IsCells(n.cells, D) /\ n.extra \in D /\ n.span \subseteq Key
  BY <1>1 DEF IsTree, IsNode
<1>3. /\ m.leaf = FALSE /\ m.extra = n.extra /\ m.span = n.span /\ m.cells = With(n.cells, sep, r)
      /\ DOMAIN m.cells = DOMAIN n.cells \cup {sep} /\ m.cells[sep] = r
      /\ \A s \in DOMAIN n.cells : s # sep => m.cells[s] = n.cells[s]
  BY DEF AddSep, Interior, With
<1>4. IsNode(m, D \cup {r})
  <2>1. IsCells(n.cells, D \cup {r})
    BY <1>2 DEF IsCells
  <2>2. IsCells(m.cells, D \cup {r})
    BY <1>1, <1>3, <2>1, WithCells
  <2>3. m = Interior(m.cells, n.extra, n.span)
    BY <1>3 DEF AddSep
  <2> QED
    BY <1>2, <2>2, <2>3, NodeOf
<1>5. u = With(t2, q, m)
  OBVIOUS
<1> HIDE DEF m
<1>6. /\ DOMAIN u = D \cup {r} /\ u[p] = left /\ u[r] = right /\ u[q] = m
      /\ u = [x \in DOMAIN u |-> u[x]] /\ \A x \in D : x # p /\ x # q => u[x] = t[x]
  BY <1>1, <1>5 DEF With
<1>7. IsTree(u)
  <2>1. ASSUME NEW x \in DOMAIN u PROVE IsNode(u[x], DOMAIN u)
    <3>1. CASE x = p \/ x = r \/ x = q
      BY <1>1, <1>4, <1>6, <3>1
    <3>2. CASE ~ (x = p \/ x = r \/ x = q)
      <4>1. u[x] = t[x] /\ IsNode(t[x], D)
        BY <1>1, <1>6, <3>2 DEF IsTree
      <4> QED
        BY <1>6, <4>1, NodeGrows
    <3> QED
      BY <3>1, <3>2
  <2> QED
    BY <1>1, <1>6, <2>1 DEF IsTree
<1>8. Distinct(n) /\ t[p].span = {k \in n.span : ChildPage(n, k) = p}
  BY CutPlaces DEF Cutting, WellFormed, OneParent
<1>9. /\ sep \notin DOMAIN n.cells
      /\ \A k \in Key : ChildPage(m, k) = IF ChildPage(n, k) = p /\ sep <= k THEN r ELSE ChildPage(n, k)
  <2>1. /\ left.span = Below(t[p].span, sep) /\ right.span = From(t[p].span, sep)
        /\ left.span # {} /\ right.span # {}
    BY DEF Cutting
  <2>2. PICK i : i \in left.span
    BY <2>1
  <2>3. PICK j : j \in right.span
    BY <2>1
  <2>4. i \in t[p].span /\ i < sep /\ j \in t[p].span /\ sep <= j
    <3>1. t[p].span \subseteq Int
      BY CutPlaces
    <3>2. i \in Int /\ i < sep /\ i \in t[p].span /\ j \in Int /\ j >= sep /\ j \in t[p].span
      BY <1>1, <2>1, <2>2, <2>3, <3>1, Parts
    <3> QED
      BY <1>1, <3>2
  <2>5. i \in Key /\ j \in Key /\ ChildPage(n, i) = p /\ ChildPage(n, j) = p
    BY <1>2, <1>8, <2>4
  <2>6. m = AddSep(n, [sep |-> sep, page |-> r])
    BY DEF m
  <2> HIDE DEF n
  <2> QED
    BY <1>1, <1>2, <1>8, <2>4, <2>5, <2>6, AddedChild
<1>10. Kids(m) = Kids(n) \cup {r}
  BY <1>3, <1>9 DEF Kids
<1>11. Distinct(m)
  <2>1. r # n.extra /\ \A s \in DOMAIN n.cells : n.cells[s] # r
    BY <1>1, <1>2 DEF IsCells
  <2> QED
    BY <1>3, <1>8, <1>9, <2>1 DEF Distinct
<1> QED
  BY <1>3, <1>6, <1>7, <1>9, <1>10, <1>11 DEF Cut

LEMMA CutRoutes ==
  ASSUME NEW t, NEW q, NEW p, NEW r, NEW sep, NEW left, NEW right, Cutting(t, q, p, r, sep, left, right),
         NEW u, Cut(t, q, p, r, sep, left, right, u),
         p \in Inner(t) => InteriorCut(t, t[p], left, right)
  PROVE  Routes(u)
<1>1. /\ WellFormed(t) /\ Routes(t) /\ OneParent(t) /\ IsTree(t)
      /\ left.leaf = t[p].leaf /\ right.leaf = t[p].leaf
      /\ left.span = Below(t[p].span, sep) /\ right.span = From(t[p].span, sep)
      /\ p \in Kids(t[q]) /\ q \in Inner(t) /\ r \notin DOMAIN t
  BY DEF Cutting, WellFormed
<1>2. /\ DOMAIN u = DOMAIN t \cup {r} /\ u[p] = left /\ u[r] = right
      /\ \A x \in DOMAIN t : x # p /\ x # q => u[x] = t[x]
      /\ u[q].leaf = FALSE /\ u[q].span = t[q].span /\ Kids(u[q]) = Kids(t[q]) \cup {r}
      /\ \A k \in Key : ChildPage(u[q], k) = IF ChildPage(t[q], k) = p /\ sep <= k THEN r
                                             ELSE ChildPage(t[q], k)
  BY DEF Cut
<1>3. /\ p \in DOMAIN t /\ q \in DOMAIN t /\ p # q /\ r # p /\ r # q
      /\ t[p].span = {k \in t[q].span : ChildPage(t[q], k) = p}
      /\ t[p].span \subseteq Int /\ sep \in Int /\ sep \in Key
  BY CutPlaces DEF Cutting
<1>4. ASSUME NEW x \in Inner(t) PROVE x \in DOMAIN t /\ Kids(t[x]) \subseteq DOMAIN t
  BY <1>1, NodeIn DEF Inner
<1>5. t[q].span \subseteq Key
  BY <1>1, <1>3, NodeIn
<1>6. ASSUME NEW c \in DOMAIN t, c # p PROVE u[c].span = t[c].span
  BY <1>2, <1>6
<1>7. ASSUME NEW x \in Inner(t), x # q, NEW c \in Kids(t[x]) PROVE u[c].span = t[c].span
  <2>1. c # p /\ c \in DOMAIN t
    BY <1>1, <1>4, <1>7 DEF OneParent
  <2> QED
    BY <1>6, <2>1
<1>8. SUFFICES ASSUME NEW x \in Inner(u), NEW c \in Kids(u[x])
               PROVE  u[c].span = {k \in u[x].span : ChildPage(u[x], k) = c}
  BY DEF Routes
<1>9. x \in DOMAIN u /\ ~u[x].leaf
  BY DEF Inner
<1>10. CASE x = q
  <2>1. \A k : k \in t[q].span => k \in Key
    BY <1>5
  <2>2. CASE c = r
    <3>1. \A k \in Key : ChildPage(u[q], k) = r <=> ChildPage(t[q], k) = p /\ sep <= k
      <4>1. ASSUME NEW k \in Key PROVE ChildPage(t[q], k) # r
        BY <1>1, <1>3, <1>4, ChildPageIs, NodeIn
      <4> QED
        BY <1>2, <4>1
    <3>2. \A k : k \in From(t[p].span, sep) <=> k \in t[p].span /\ sep <= k
      BY <1>3 DEF From
    <3>3. \A k : k \in u[r].span <=> k \in t[q].span /\ ChildPage(u[q], k) = r
      BY <1>1, <1>2, <1>3, <2>1, <3>1, <3>2
    <3> QED
      BY <1>2, <1>10, <2>2, <3>3
  <2>3. CASE c = p
    <3>1. \A k \in Key : ChildPage(u[q], k) = p <=> ChildPage(t[q], k) = p /\ ~ (sep <= k)
      BY <1>2, <1>3
    <3>2. \A k : k \in Below(t[p].span, sep) <=> k \in t[p].span /\ ~ (sep <= k)
      BY <1>3 DEF Below
    <3>3. \A k : k \in u[p].span <=> k \in t[q].span /\ ChildPage(u[q], k) = p
      BY <1>1, <1>2, <1>3, <2>1, <3>1, <3>2
    <3> QED
      BY <1>2, <1>10, <2>3, <3>3
  <2>4. CASE c # r /\ c # p
    <3>1. c \in Kids(t[q]) /\ c \in DOMAIN t
      BY <1>1, <1>2, <1>4, <1>10, <2>4
    <3>2. \A k \in Key : ChildPage(u[q], k) = c <=> ChildPage(t[q], k) = c
      BY <1>2, <2>4
    <3>3. t[c].span = {k \in t[q].span : ChildPage(t[q], k) = c}
      BY <1>1, <3>1 DEF Routes
    <3>4. \A k : k \in t[c].span <=> k \in t[q].span /\ ChildPage(u[q], k) = c
      BY <2>1, <3>2, <3>3
    <3> QED
      BY <1>2, <1>6, <1>10, <2>4, <3>1, <3>4
  <2> QED
    BY <2>2, <2>3, <2>4
<1>11. CASE x = p \/ x = r
  <2>1. ~t[p].leaf /\ p \in Inner(t)
    BY <1>1, <1>2, <1>3, <1>9, <1>11 DEF Inner
  <2>2. InteriorCut(t, t[p], left, right)
    BY <2>1
  <2>3. c \in Kids(t[p]) /\ t[c].span = {k \in u[x].span : ChildPage(u[x], k) = c}
    BY <1>2, <1>11, <2>2 DEF InteriorCut
  <2> QED
    BY <1>3, <1>7, <2>1, <2>3
<1>12. CASE x # q /\ x # p /\ x # r
  <2>1. x \in Inner(t) /\ u[x] = t[x]
    BY <1>2, <1>9, <1>12 DEF Inner
  <2> QED
    BY <1>1, <1>7, <1>12, <2>1 DEF Routes
<1> QED
  BY <1>10, <1>11, <1>12

LEMMA CutParents ==
  ASSUME NEW t, NEW q, NEW p, NEW r, NEW sep, NEW left, NEW right, Cutting(t, q, p, r, sep, left, right),
         NEW u, Cut(t, q, p, r, sep, left, right, u),
         p \in Inner(t) => InteriorCut(t, t[p], left, right)
  PROVE  OneParent(u)
<1> DEFINE from(x) == IF x = r THEN p ELSE x
           D == DOMAIN t
<1>1. /\ OneParent(t) /\ IsTree(t) /\ p \in Kids(t[q]) /\ q \in Inner(t) /\ r \notin D
      /\ left.leaf = t[p].leaf /\ right.leaf = t[p].leaf
  BY DEF Cutting, WellFormed
<1>2. /\ DOMAIN u = D \cup {r} /\ u[p] = left /\ u[r] = right
      /\ \A x \in D : x # p /\ x # q => u[x] = t[x]
      /\ Kids(u[q]) = Kids(t[q]) \cup {r} /\ Distinct(u[q])
  BY DEF Cut
<1>3. /\ p \in D /\ q \in D /\ p # q /\ r # p /\ r # q /\ Root # r /\ t[p].leaf \in BOOLEAN
  BY CutPlaces
<1>4. ASSUME NEW x \in Inner(t) PROVE x \in D /\ Kids(t[x]) \subseteq D
  BY <1>1, NodeIn DEF Inner
<1>5. ASSUME NEW x \in Inner(u)
      PROVE  /\ from(x) \in Inner(t) /\ Distinct(u[x])
             /\ \A c \in Kids(u[x]) : c \in Kids(t[from(x)]) \/ (x = q /\ c = r)
  <2>1. x \in DOMAIN u /\ ~u[x].leaf
    BY DEF Inner
  <2>2. CASE x = q
    BY <1>1, <1>2, <1>3, <2>2
  <2>3. CASE x = p \/ x = r
    <3>1. ~t[p].leaf /\ p \in Inner(t) /\ from(x) = p
      BY <1>1, <1>2, <1>3, <2>1, <2>3 DEF Inner
    <3>2. InteriorCut(t, t[p], left, right)
      BY <1>3, <3>1
    <3> QED
      BY <1>2, <2>3, <3>1, <3>2 DEF InteriorCut
  <2>4. CASE x # q /\ x # p /\ x # r
    <3>1. x \in Inner(t) /\ u[x] = t[x] /\ from(x) = x
      BY <1>2, <2>1, <2>4 DEF Inner
    <3> QED
      BY <1>1, <3>1 DEF OneParent
  <2> QED
    BY <2>2, <2>3, <2>4
<1>6. ASSUME NEW x \in Inner(u) PROVE Root \notin Kids(u[x])
  BY <1>1, <1>3, <1>5 DEF OneParent
<1>7. ASSUME NEW x \in Inner(u), NEW y \in Inner(u), x # y, NEW c \in Kids(u[x]), c \in Kids(u[y])
      PROVE  FALSE
  <2>1. CASE c = r
    <3>1. c \notin D
      BY <1>1, <2>1
    <3>2. c \notin Kids(t[from(x)]) /\ c \notin Kids(t[from(y)])
      BY <1>4, <1>5, <3>1
    <3> QED
      BY <1>5, <1>7, <3>2
  <2>2. CASE c # r
    <3>1. c \in Kids(t[from(x)]) /\ c \in Kids(t[from(y)]) /\ from(x) \in Inner(t) /\ from(y) \in Inner(t)
      BY <1>5, <1>7, <2>2
    <3>2. from(x) = from(y)
      BY <1>1, <3>1 DEF OneParent
    <3>3. (x = p /\ y = r) \/ (x = r /\ y = p)
      BY <1>7, <3>2
    <3>4. p \in Inner(t)
      BY <3>1, <3>3
    <3>5. InteriorCut(t, t[p], left, right)
      BY <3>4
    <3>6. Kids(u[p]) \cap Kids(u[r]) = {}
      BY <1>2, <3>5 DEF InteriorCut
    <3> QED
      BY <1>7, <3>3, <3>6
  <2> QED
    BY <2>1, <2>2
<1> QED
  BY <1>5, <1>6, <1>7 DEF OneParent

\* The leaves of the cut tree, when an interior node or when a leaf was cut.
LEMMA CutOuter ==
  ASSUME NEW t, NEW q, NEW p, NEW r, NEW sep, NEW left, NEW right, Cutting(t, q, p, r, sep, left, right),
         NEW u, Cut(t, q, p, r, sep, left, right, u)
  PROVE  /\ \A x \in Outer(t) : x \in DOMAIN t /\ x # r /\ x # q /\ (x # p => u[x] = t[x] /\ x \in Outer(u))
         /\ p \notin Outer(t) => Outer(u) = Outer(t)
         /\ p \in Outer(t) => Outer(u) = Outer(t) \cup {r}
         /\ u[p] = left /\ u[r] = right
<1>1. /\ p \in DOMAIN t /\ q \in DOMAIN t /\ p # q /\ r # p /\ r # q /\ t[p].leaf \in BOOLEAN
      /\ t[q].leaf = FALSE
  BY CutPlaces
<1>2. left.leaf = t[p].leaf /\ right.leaf = t[p].leaf /\ r \notin DOMAIN t
  BY DEF Cutting
<1>3. /\ DOMAIN u = DOMAIN t \cup {r} /\ u[p] = left /\ u[r] = right
      /\ \A x \in DOMAIN t : x # p /\ x # q => u[x] = t[x]
      /\ u[q].leaf = FALSE
  BY DEF Cut
<1>4. \A x \in Outer(t) : x \in DOMAIN t /\ x # r /\ x # q /\ (x # p => u[x] = t[x] /\ x \in Outer(u))
  BY <1>1, <1>2, <1>3 DEF Outer
<1>5. ASSUME p \notin Outer(t) PROVE Outer(u) = Outer(t)
  <2>1. \A x : x \in Outer(u) <=> x \in Outer(t)
    BY <1>1, <1>2, <1>3, <1>5 DEF Outer
  <2> QED
    BY <1>5, <2>1 DEF Outer
<1>6. ASSUME p \in Outer(t) PROVE Outer(u) = Outer(t) \cup {r}
  <2>1. \A x : x \in Outer(u) <=> x \in Outer(t) \/ x = r
    BY <1>1, <1>2, <1>3, <1>6 DEF Outer
  <2> QED
    BY <1>1, <1>6, <2>1 DEF Outer
<1> QED
  BY <1>3, <1>4, <1>5, <1>6

LEMMA CutLeafSpans ==
  ASSUME NEW t, NEW q, NEW p, NEW r, NEW sep, NEW left, NEW right, Cutting(t, q, p, r, sep, left, right),
         NEW u, Cut(t, q, p, r, sep, left, right, u),
         p \in Outer(t) => LeafCut(t[p], r, sep, left, right)
  PROVE  LeafSpans(u)
<1> DEFINE S == t[p].span
<1>1. /\ \A x \in Outer(t) : x \in DOMAIN t /\ x # r /\ x # q /\ (x # p => u[x] = t[x] /\ x \in Outer(u))
      /\ p \notin Outer(t) => Outer(u) = Outer(t)
      /\ p \in Outer(t) => Outer(u) = Outer(t) \cup {r}
      /\ u[p] = left /\ u[r] = right
  BY CutOuter
<1>2. /\ LeafSpans(t) /\ IsTree(t) /\ left.span = Below(S, sep) /\ right.span = From(S, sep)
  BY DEF Cutting, WellFormed
<1>3. S \subseteq Key /\ S \subseteq Int /\ sep \in Int /\ t[p].leaf \in BOOLEAN /\ \A x : x \in Key => x \in Int
  BY CutPlaces, BTreeAssumption DEF Cutting
<1> HIDE DEF S
<1>4. CASE p \notin Outer(t)
  <2>1. Outer(u) = Outer(t) /\ \A x \in Outer(t) : u[x] = t[x]
    BY <1>1, <1>4
  <2> QED
    BY <1>2, <2>1 DEF LeafSpans
<1>5. CASE p \in Outer(t)
  <2>1. /\ \A k : k \in u[p].span <=> k \in S /\ k \in Int /\ k < sep
        /\ \A k : k \in u[r].span <=> k \in S /\ k \in Int /\ k >= sep
    BY <1>1, <1>2, <1>3, Parts
  <2>2. DOMAIN u[p].cells \subseteq u[p].span /\ DOMAIN u[r].cells \subseteq u[r].span
    BY <1>1, <1>5 DEF LeafCut
  <2>3. \A i, j \in S, k \in Key : i <= k /\ k <= j => k \in S
    BY <1>1, <1>2, <1>5 DEF LeafSpans, S
  <2>4. ASSUME NEW x \in Outer(t), x # p
        PROVE  u[x] = t[x] /\ t[x].span \cap S = {}
    BY <1>1, <1>2, <1>5, <2>4 DEF LeafSpans, S
  <2>5. ASSUME NEW x \in Outer(u)
        PROVE  DOMAIN u[x].cells \subseteq u[x].span
    BY <1>1, <1>2, <1>5, <2>2, <2>4 DEF LeafSpans
  <2>6. ASSUME NEW x \in Outer(u), NEW i \in u[x].span, NEW j \in u[x].span, NEW k \in Key, i <= k, k <= j
        PROVE  k \in u[x].span
    <3>1. CASE x = p \/ x = r
      <4>1. i \in Int /\ j \in Int /\ k \in Int /\ k \in S
        BY <1>3, <2>1, <2>3, <2>6, <3>1
      <4> QED
        BY <1>3, <2>1, <2>6, <3>1, <4>1
    <3>2. CASE x # p /\ x # r
      BY <1>1, <1>2, <1>5, <2>4, <2>6, <3>2 DEF LeafSpans
    <3> QED
      BY <3>1, <3>2
  <2>7. ASSUME NEW x \in Outer(u), NEW y \in Outer(u), x # y, NEW k \in u[x].span, k \in u[y].span
        PROVE  FALSE
    <3>1. CASE x = p \/ x = r
      <4>1. CASE y = p \/ y = r
        BY <1>3, <2>1, <2>7, <3>1, <4>1
      <4>2. CASE y # p /\ y # r
        BY <1>1, <1>5, <2>1, <2>4, <2>7, <3>1, <4>2
      <4> QED
        BY <4>1, <4>2
    <3>2. CASE x # p /\ x # r
      <4>1. CASE y = p \/ y = r
        BY <1>1, <1>5, <2>1, <2>4, <2>7, <3>2, <4>1
      <4>2. CASE y # p /\ y # r
        BY <1>1, <1>2, <1>5, <2>4, <2>7, <3>2, <4>2 DEF LeafSpans
      <4> QED
        BY <4>1, <4>2
    <3> QED
      BY <3>1, <3>2
  <2> QED
    BY <2>5, <2>6, <2>7 DEF LeafSpans
<1> QED
  BY <1>3, <1>4, <1>5

\* The leaves stay in order: the right half comes between its left half and the
\* leaf that came after both.
LEMMA CutChain ==
  ASSUME NEW t, NEW q, NEW p, NEW r, NEW sep, NEW left, NEW right, Cutting(t, q, p, r, sep, left, right),
         NEW u, Cut(t, q, p, r, sep, left, right, u),
         p \in Outer(t) => LeafCut(t[p], r, sep, left, right)
  PROVE  Chain(u)
<1> DEFINE S == t[p].span
<1>1. /\ \A x \in Outer(t) : x \in DOMAIN t /\ x # r /\ x # q /\ (x # p => u[x] = t[x] /\ x \in Outer(u))
      /\ p \notin Outer(t) => Outer(u) = Outer(t)
      /\ p \in Outer(t) => Outer(u) = Outer(t) \cup {r}
      /\ u[p] = left /\ u[r] = right
  BY CutOuter
<1>2. /\ Chain(t) /\ LeafSpans(t) /\ IsTree(t) /\ left.span = Below(S, sep) /\ right.span = From(S, sep)
      /\ left.span # {} /\ r # 0
  BY DEF Cutting, WellFormed
<1>3. /\ S \subseteq Key /\ S \subseteq Int /\ sep \in Int /\ sep \in Key /\ t[p].leaf \in BOOLEAN
      /\ (\A x : x \in Key => x \in Int) /\ p # Root /\ r # Root /\ p # 0
  BY CutPlaces, BTreeAssumption DEF Cutting
<1>4. \A x \in Outer(t) : t[x].span \subseteq Int
  BY <1>2, <1>3, NodeIn DEF Outer
<1> DEFINE After(v, x, e) == /\ v[x].extra = e /\ e \in Outer(v) /\ e # Root
                             /\ \E lo \in v[e].span :
                                  /\ \A k \in v[e].span : lo <= k
                                  /\ \A k \in Key : (\A j \in v[x].span : j < k) <=> lo <= k
           AtEnd(v, x) == \A k \in Key : \E j \in v[x].span : ~ (j < k)
<1>5. \A v : Chain(v) <=> \A x \in Outer(v) : IF v[x].extra = 0 THEN AtEnd(v, x) ELSE After(v, x, v[x].extra)
  BY DEF Chain
<1> HIDE DEF S
<1>6. CASE p \notin Outer(t)
  <2>1. Outer(u) = Outer(t) /\ \A x \in Outer(t) : u[x] = t[x]
    BY <1>1, <1>6
  <2>2. ASSUME NEW x \in Outer(u)
        PROVE  IF u[x].extra = 0 THEN AtEnd(u, x) ELSE After(u, x, u[x].extra)
    <3>1. u[x] = t[x] /\ IF t[x].extra = 0 THEN AtEnd(t, x) ELSE After(t, x, t[x].extra)
      BY <1>2, <1>5, <2>1
    <3>2. t[x].extra # 0 => u[t[x].extra] = t[t[x].extra]
      BY <2>1, <3>1
    <3> QED
      BY <2>1, <3>1, <3>2
  <2> HIDE DEF After, AtEnd
  <2> QED
    BY <1>5, <2>2
<1>7. CASE p \in Outer(t)
  <2>1. /\ \A k : k \in u[p].span <=> k \in S /\ k \in Int /\ k < sep
        /\ \A k : k \in u[r].span <=> k \in S /\ k \in Int /\ k >= sep
    BY <1>1, <1>2, <1>3, Parts
  <2>2. sep \in S /\ u[p].extra = r /\ u[r].extra = t[p].extra /\ p \in Outer(t) /\ r \in Outer(u)
    BY <1>1, <1>7 DEF LeafCut, S
  <2>3. \A i, j \in S, k \in Key : i <= k /\ k <= j => k \in S
    BY <1>2, <2>2 DEF LeafSpans, S
  <2>4. PICK low : low \in S /\ low \in Int /\ low < sep
    BY <1>1, <1>2, <2>1
  <2>5. After(u, p, r)
    <3>1. sep \in u[r].span
      BY <1>3, <2>1, <2>2
    <3>2. \A k \in u[r].span : sep <= k
      BY <1>3, <2>1
    <3>3. ASSUME NEW k \in Key, sep <= k, NEW j \in u[p].span PROVE j < k
      BY <1>3, <2>1, <3>3
    <3>4. ASSUME NEW k \in Key, \A j \in u[p].span : j < k PROVE sep <= k
      <4>1. k \in Int /\ low < k
        BY <1>3, <2>1, <2>4, <3>4
      <4>2. k \notin u[p].span
        BY <3>4, <4>1
      <4> QED
        BY <1>3, <2>1, <2>2, <2>3, <2>4, <4>1, <4>2
    <3> QED
      BY <1>3, <2>2, <3>1, <3>2, <3>3, <3>4
  <2>6. ASSUME NEW k \in Key
        PROVE  (\A j \in u[r].span : j < k) <=> (\A j \in S : j < k)
    <3>1. k \in Int /\ sep \in u[r].span
      BY <1>3, <2>1, <2>2
    <3>2. ASSUME sep < k, NEW j \in S, ~ (j < k) PROVE j \in u[r].span
      BY <1>3, <2>1, <3>1, <3>2
    <3> QED
      BY <2>1, <3>1, <3>2
  <2>7. IF u[r].extra = 0 THEN AtEnd(u, r) ELSE After(u, r, u[r].extra)
    <3>1. CASE t[p].extra = 0
      <4>1. AtEnd(t, p)
        BY <1>2, <1>5, <2>2, <3>1
      <4> QED
        BY <2>2, <2>6, <3>1, <4>1 DEF S
    <3>2. CASE t[p].extra # 0
      <4> DEFINE e == t[p].extra
      <4>1. /\ e \in Outer(t) /\ e # Root
            /\ \E lo \in t[e].span : /\ \A k \in t[e].span : lo <= k
                                     /\ \A k \in Key : (\A j \in S : j < k) <=> lo <= k
        BY <1>2, <1>5, <2>2, <3>2 DEF S
      <4> HIDE DEF e
      <4>2. PICK lo \in t[e].span : /\ \A k \in t[e].span : lo <= k
                                    /\ \A k \in Key : (\A j \in S : j < k) <=> lo <= k
        BY <4>1
      <4>3. lo \in Int /\ lo \in Key
        <5>1. t[e].span \subseteq Key
          BY <1>2, <4>1, NodeIn DEF Outer
        <5> QED
          BY <1>3, <5>1
      <4>4. e # p
        <5> SUFFICES ASSUME e = p PROVE FALSE
          OBVIOUS
        <5>1. lo \in S /\ lo < lo
          BY <4>2, <4>3 DEF S
        <5> QED
          BY <4>3, <5>1
      <4>5. u[e] = t[e] /\ e \in Outer(u) /\ e # 0 /\ u[r].extra = e
        BY <1>1, <2>2, <3>2, <4>1, <4>4 DEF e
      <4>6. After(u, r, e)
        <5>1. \A k \in u[e].span : lo <= k
          BY <4>2, <4>5
        <5>2. \A k \in Key : (\A j \in u[r].span : j < k) <=> lo <= k
          BY <2>6, <4>2
        <5>3. lo \in u[e].span
          BY <4>5
        <5> QED
          BY <4>1, <4>5, <5>1, <5>2, <5>3
      <4> HIDE DEF After, AtEnd
      <4> QED
        BY <4>5, <4>6
    <3> QED
      BY <3>1, <3>2
  <2>8. ASSUME NEW x \in Outer(t), x # p
        PROVE  IF u[x].extra = 0 THEN AtEnd(u, x) ELSE After(u, x, u[x].extra)
    <3>1. u[x] = t[x] /\ IF t[x].extra = 0 THEN AtEnd(t, x) ELSE After(t, x, t[x].extra)
      BY <1>1, <1>2, <1>5, <2>8
    <3>2. CASE t[x].extra = 0
      BY <3>1, <3>2
    <3>3. CASE t[x].extra # 0 /\ t[x].extra # p
      <4>1. u[t[x].extra] = t[t[x].extra] /\ t[x].extra \in Outer(u)
        BY <1>1, <3>1, <3>3
      <4> QED
        BY <3>1, <3>3, <4>1
    <3>4. CASE t[x].extra = p
      <4>1. PICK lo \in S : /\ \A k \in S : lo <= k
                            /\ \A k \in Key : (\A j \in t[x].span : j < k) <=> lo <= k
        BY <1>3, <3>1, <3>4 DEF S
      <4>2. lo \in u[p].span
        BY <1>3, <2>1, <2>4, <4>1
      <4>3. \A k \in u[p].span : lo <= k
        BY <2>1, <4>1
      <4>4. p \in Outer(u)
        BY <1>1, <1>7
      <4> QED
        BY <1>3, <3>1, <3>4, <4>1, <4>2, <4>3, <4>4
    <3> QED
      BY <3>2, <3>3, <3>4
  <2>9. ASSUME NEW x \in Outer(u)
        PROVE  IF u[x].extra = 0 THEN AtEnd(u, x) ELSE After(u, x, u[x].extra)
    <3> HIDE DEF After, AtEnd
    <3>1. CASE x = p
      BY <1>2, <2>2, <2>5, <3>1
    <3>2. CASE x = r
      BY <2>7, <3>2
    <3>3. CASE x # p /\ x # r
      BY <1>1, <1>7, <2>8, <3>3
    <3> QED
      BY <3>1, <3>2, <3>3
  <2> HIDE DEF After, AtEnd
  <2> QED
    BY <1>5, <2>9
<1> QED
  BY <1>3, <1>6, <1>7

\* A tree stays well formed when a page is cut and its parent is told.
LEMMA CutShape ==
  ASSUME NEW t, NEW q, NEW p, NEW r, NEW sep, NEW left, NEW right, Cutting(t, q, p, r, sep, left, right),
         NEW u, u = With(With(With(t, p, left), r, right), q, AddSep(t[q], [sep |-> sep, page |-> r])),
         p \in Inner(t) => InteriorCut(t, t[p], left, right),
         p \in Outer(t) => LeafCut(t[p], r, sep, left, right)
  PROVE  WellFormed(u)
<1>1. Cut(t, q, p, r, sep, left, right, u)
  BY CutIs
<1>2. Routes(u) /\ OneParent(u) /\ LeafSpans(u) /\ Chain(u)
  BY <1>1, CutRoutes, CutParents, CutLeafSpans, CutChain
<1>3. IsTree(u)
  BY <1>1 DEF Cut
<1>4. u[Root].span = Key
  <2>1. Root \in DOMAIN t /\ Root # p /\ t[Root].span = Key
    BY CutPlaces DEF Cutting, WellFormed
  <2>2. Root # q => u[Root] = t[Root]
    BY <1>1, <2>1 DEF Cut
  <2>3. u[q].span = t[q].span
    BY <1>1 DEF Cut
  <2> QED
    BY <2>1, <2>2, <2>3
<1>5. ASSUME NEW x \in DOMAIN u PROVE u[x].span # {}
  BY <1>1 DEF Cut, Cutting, WellFormed
<1> QED
  BY <1>2, <1>3, <1>4, <1>5 DEF WellFormed

\* A tree stays well formed when its root's content moves to a new page, and
\* the root becomes an interior node over that page alone.
Taller(t, r, u) ==
  /\ WellFormed(u) /\ DOMAIN u = DOMAIN t \cup {r}
  /\ u[Root] = Interior(<< >>, r, Key) /\ u[r] = t[Root]
  /\ \A x \in DOMAIN t : x # Root => u[x] = t[x]
  /\ Root \in Inner(u) /\ Kids(u[Root]) = {r}

LEMMA TallerIs ==
  ASSUME NEW t, WellFormed(t), NEW r, r \notin DOMAIN t, r # 0,
         NEW u, u = With(With(t, Root, Interior(<< >>, r, Key)), r, t[Root])
  PROVE  Taller(t, r, u)
<1> DEFINE D == DOMAIN t
           n == Interior(<< >>, r, Key)
           from(x) == IF x = r THEN Root ELSE x
<1>1. /\ IsTree(t) /\ Root \in D /\ 0 \notin D /\ r \notin D /\ r # Root /\ t[Root].span = Key
      /\ Routes(t) /\ OneParent(t) /\ LeafSpans(t) /\ Chain(t) /\ \A x \in D : t[x].span # {}
  BY DEF WellFormed, IsTree
<1>2. n.leaf = FALSE /\ n.cells = << >> /\ n.extra = r /\ n.span = Key /\ DOMAIN n.cells = {}
  BY DEF Interior
<1>3. IsNode(n, D \cup {r})
  <2>1. IsCells(<< >>, D \cup {r})
    BY FS_EmptySet DEF IsCells
  <2> QED
    BY <2>1, NodeOf
<1> HIDE DEF n
<1>4. /\ DOMAIN u = D \cup {r} /\ u[r] = t[Root] /\ u[Root] = n
      /\ \A x \in D : x # Root => u[x] = t[x]
  BY <1>1 DEF With, n
<1>5. IsTree(u)
  <2>1. u = [x \in DOMAIN u |-> u[x]]
    BY DEF With
  <2>2. ASSUME NEW x \in DOMAIN u PROVE IsNode(u[x], DOMAIN u)
    <3>1. CASE x = Root
      BY <1>3, <1>4, <3>1
    <3>2. CASE x # Root
      <4>1. IsNode(t[Root], D) /\ (x # r => u[x] = t[x] /\ IsNode(t[x], D))
        BY <1>1, <1>4, <3>2 DEF IsTree
      <4>2. IsNode(u[x], D)
        BY <1>4, <4>1
      <4> QED
        BY <1>4, <4>2, NodeGrows
    <3> QED
      BY <3>1, <3>2
  <2>3. Root \in DOMAIN u /\ 0 \notin DOMAIN u
    BY <1>1, <1>4
  <2> QED
    BY <2>1, <2>2, <2>3 DEF IsTree
<1>6. Kids(n) = {r} /\ (\A k \in Key : ChildPage(n, k) = r) /\ Distinct(n)
  <2>1. Kids(n) = {r} /\ Distinct(n)
    BY <1>2 DEF Kids, Distinct
  <2>2. DOMAIN n.cells \subseteq Key /\ IsFiniteSet(DOMAIN n.cells) /\ \A k : NoSlot(n, k)
    BY <1>2, FS_EmptySet DEF NoSlot
  <2> QED
    BY <1>2, <2>1, <2>2, ChildPageIs
<1>7. ASSUME NEW x \in DOMAIN u, x # Root PROVE u[x] = t[from(x)] /\ from(x) \in D
  BY <1>1, <1>4, <1>7
<1>8. ASSUME NEW x \in Inner(u), x # Root
      PROVE  /\ from(x) \in Inner(t)
             /\ \A c \in Kids(u[x]) : c \in D /\ c # Root /\ c # r /\ u[c] = t[c]
  <2>1. u[x] = t[from(x)] /\ from(x) \in Inner(t)
    BY <1>7, <1>8 DEF Inner
  <2>2. Root \notin Kids(t[from(x)]) /\ Kids(t[from(x)]) \subseteq D
    BY <1>1, <1>7, <1>8, <2>1, NodeIn DEF OneParent, Inner
  <2> QED
    BY <1>1, <1>4, <2>1, <2>2
<1>9. Routes(u)
  <2> SUFFICES ASSUME NEW x \in Inner(u), NEW c \in Kids(u[x])
               PROVE  u[c].span = {k \in u[x].span : ChildPage(u[x], k) = c}
    BY DEF Routes
  <2>1. CASE x = Root
    BY <1>1, <1>2, <1>4, <1>6, <2>1
  <2>2. CASE x # Root
    <3>1. u[x] = t[from(x)] /\ from(x) \in Inner(t) /\ u[c] = t[c] /\ c \in Kids(t[from(x)])
      BY <1>7, <1>8, <2>2 DEF Inner
    <3> QED
      BY <1>1, <3>1 DEF Routes
  <2> QED
    BY <2>1, <2>2
<1>10. OneParent(u)
  <2>1. ASSUME NEW x \in Inner(u) PROVE Root \notin Kids(u[x]) /\ Distinct(u[x])
    <3>1. CASE x = Root
      BY <1>1, <1>4, <1>6, <3>1
    <3>2. CASE x # Root
      <4>1. u[x] = t[from(x)]
        BY <1>7, <3>2 DEF Inner
      <4> QED
        BY <1>1, <1>8, <3>2, <4>1 DEF OneParent
    <3> QED
      BY <3>1, <3>2
  <2>2. ASSUME NEW x \in Inner(u), NEW y \in Inner(u), x # y, NEW c \in Kids(u[x]), c \in Kids(u[y])
        PROVE  FALSE
    <3>1. CASE x = Root \/ y = Root
      BY <1>4, <1>6, <1>8, <2>2, <3>1
    <3>2. CASE x # Root /\ y # Root
      <4>1. /\ c \in Kids(t[from(x)]) /\ c \in Kids(t[from(y)])
            /\ from(x) \in Inner(t) /\ from(y) \in Inner(t) /\ from(x) # from(y)
        BY <1>7, <1>8, <2>2, <3>2 DEF Inner
      <4> QED
        BY <1>1, <4>1 DEF OneParent
    <3> QED
      BY <3>1, <3>2
  <2> QED
    BY <2>1, <2>2 DEF OneParent
<1>11. \A x \in Outer(u) : x # Root /\ x \in DOMAIN u
  BY <1>2, <1>4 DEF Outer
<1>12. ASSUME NEW x \in Outer(u)
       PROVE  u[x] = t[from(x)] /\ from(x) \in Outer(t) /\ from(x) \in D
  BY <1>7, <1>11 DEF Outer
<1>13. LeafSpans(u)
  <2>1. ASSUME NEW x \in Outer(u)
        PROVE  /\ DOMAIN u[x].cells \subseteq u[x].span
               /\ \A i, j \in u[x].span, k \in Key : i <= k /\ k <= j => k \in u[x].span
    BY <1>1, <1>12 DEF LeafSpans
  <2>2. ASSUME NEW x \in Outer(u), NEW y \in Outer(u), x # y
        PROVE  u[x].span \cap u[y].span = {}
    <3>1. from(x) # from(y)
      BY <1>11, <2>2
    <3> QED
      BY <1>1, <1>12, <3>1 DEF LeafSpans
  <2> QED
    BY <2>1, <2>2 DEF LeafSpans
<1>14. Chain(u)
  <2> SUFFICES ASSUME NEW x \in Outer(u)
               PROVE  IF u[x].extra = 0
                      THEN \A k \in Key : \E j \in u[x].span : ~ (j < k)
                      ELSE /\ u[x].extra \in Outer(u) /\ u[x].extra # Root
                           /\ \E lo \in u[u[x].extra].span :
                                /\ \A k \in u[u[x].extra].span : lo <= k
                                /\ \A k \in Key : (\A j \in u[x].span : j < k) <=> lo <= k
    BY DEF Chain
  <2>1. u[x] = t[from(x)] /\ from(x) \in Outer(t)
    BY <1>12
  <2>2. ASSUME u[x].extra # 0
        PROVE  /\ u[x].extra \in Outer(t) /\ u[x].extra # Root
               /\ u[u[x].extra] = t[u[x].extra] /\ u[x].extra \in Outer(u)
    <3>1. u[x].extra \in Outer(t) /\ u[x].extra # Root
      BY <1>1, <2>1, <2>2 DEF Chain
    <3> QED
      BY <1>4, <3>1 DEF Outer
  <2>3. CASE u[x].extra = 0
    BY <1>1, <2>1, <2>3 DEF Chain
  <2>4. CASE u[x].extra # 0
    <3>1. \E lo \in t[t[from(x)].extra].span :
            /\ \A k \in t[t[from(x)].extra].span : lo <= k
            /\ \A k \in Key : (\A j \in t[from(x)].span : j < k) <=> lo <= k
      BY <1>1, <2>1, <2>4 DEF Chain
    <3> HIDE DEF from
    <3> QED
      BY <2>1, <2>2, <2>4, <3>1
  <2> QED
    BY <2>3, <2>4
<1>15. ASSUME NEW x \in DOMAIN u PROVE u[x].span # {}
  BY <1>1, <1>2, <1>4, <1>7
<1>16. WellFormed(u)
  BY <1>2, <1>4, <1>5, <1>9, <1>10, <1>13, <1>14, <1>15 DEF WellFormed
<1> QED
  BY <1>1, <1>2, <1>4, <1>6, <1>16 DEF Inner, n, Taller

\* What splitLeaf and splitInterior do to the page p: the tree is well formed
\* once the separator is in the parent of p, or in a new root.
Halving(t, p, r, sep, left, right) ==
  /\ WellFormed(t) /\ p \in DOMAIN t /\ sep \in Key
  /\ IsNode(left, DOMAIN t \cup {r}) /\ IsNode(right, DOMAIN t \cup {r})
  /\ left.leaf = t[p].leaf /\ right.leaf = t[p].leaf
  /\ left.span = Below(t[p].span, sep) /\ right.span = From(t[p].span, sep)
  /\ left.span # {} /\ right.span # {}
  /\ p \in Inner(t) => InteriorCut(t, t[p], left, right)
  /\ p \in Outer(t) => LeafCut(t[p], r, sep, left, right)

LEMMA SplitInside ==
  ASSUME NEW t, NEW p, NEW r, r \notin DOMAIN t, r # 0, NEW sep, NEW left, NEW right,
         Halving(t, p, r, sep, left, right), NEW q \in Inner(t), p \in Kids(t[q]), p # q,
         NEW v, v = With(With(t, p, left), r, right)
  PROVE  WellFormed(Joined(v, q, [sep |-> sep, page |-> r]))
<1>1. Cutting(t, q, p, r, sep, left, right)
  BY DEF Halving, Cutting
<1>2. q \in DOMAIN t /\ q # r /\ v[q] = t[q]
  BY DEF Inner, With
<1>3. Joined(v, q, [sep |-> sep, page |-> r]) = With(v, q, AddSep(t[q], [sep |-> sep, page |-> r]))
  BY <1>2 DEF Joined
<1> QED
  BY <1>1, <1>3, CutShape DEF Halving

LEMMA SplitRoot ==
  ASSUME NEW t, Numbered(t), NEW r, r = Cardinality(DOMAIN t) + 1, NEW sep, NEW left, NEW right,
         Halving(t, Root, r, sep, left, right),
         NEW v, v = With(With(t, Root, left), r, right)
  PROVE  WellFormed(Grown(v, [sep |-> sep, page |-> r]))
<1> DEFINE D == DOMAIN t
           s == [sep |-> sep, page |-> r]
           new == r + 1
           T == With(With(t, Root, Interior(<< >>, new, Key)), new, t[Root])
<1>1. WellFormed(t) /\ IsTree(t) /\ Root \in D /\ OneParent(t)
  BY DEF Halving, WellFormed
<1>2. r \in Nat /\ r \notin D /\ r # 0 /\ r # Root /\ DOMAIN v = D \cup {r} /\ Cardinality(DOMAIN v) = r
  <2>1. DOMAIN v = D \cup {r}
    BY <1>1 DEF With
  <2> QED
    BY <1>1, <2>1, NewPageIs
<1>3. new \notin D /\ new # 0 /\ new # r /\ new # Root
  <2>1. new = Cardinality(DOMAIN v) + 1
    BY <1>2
  <2>2. D = 1 .. Cardinality(D) /\ Cardinality(D) \in Nat
    BY FS_CardinalityType DEF Numbered
  <2> QED
    BY <1>2, <2>2 DEF Root
<1> HIDE DEF new
<1>4. /\ WellFormed(T) /\ DOMAIN T = D \cup {new} /\ T[Root] = Interior(<< >>, new, Key) /\ T[new] = t[Root]
      /\ (\A x \in D : x # Root => T[x] = t[x]) /\ Root \in Inner(T) /\ Kids(T[Root]) = {new}
  <2>1. Taller(t, new, T)
    BY <1>1, <1>3, TallerIs
  <2> HIDE DEF T
  <2> QED
    BY <2>1 DEF Taller
<1>5. T = [x \in DOMAIN T |-> T[x]]
  BY <1>4 DEF WellFormed, IsTree
<1> HIDE DEF T
<1>6. Cutting(T, Root, new, r, sep, left, right)
  <2>1. D \cup {r} \subseteq DOMAIN T \cup {r}
    BY <1>4
  <2>2. IsNode(left, DOMAIN T \cup {r}) /\ IsNode(right, DOMAIN T \cup {r})
    BY <2>1, NodeGrows DEF Halving
  <2>3. r \notin DOMAIN T /\ new \in Kids(T[Root])
    BY <1>2, <1>3, <1>4
  <2> QED
    BY <1>2, <1>3, <1>4, <2>2, <2>3 DEF Halving, Cutting
<1>7. new \in Outer(T) => LeafCut(T[new], r, sep, left, right)
  <2>1. new \in Outer(T) => Root \in Outer(t)
    BY <1>1, <1>4 DEF Outer
  <2> QED
    BY <1>4, <2>1 DEF Halving
<1>8. new \in Inner(T) => InteriorCut(T, T[new], left, right)
  <2> SUFFICES ASSUME new \in Inner(T) PROVE InteriorCut(T, t[Root], left, right)
    BY <1>4
  <2>1. Root \in Inner(t)
    BY <1>1, <1>4 DEF Inner
  <2>2. InteriorCut(t, t[Root], left, right)
    BY <2>1 DEF Halving
  <2>3. ASSUME NEW c \in Kids(t[Root]) PROVE T[c] = t[c]
    <3>1. c \in D /\ c # Root
      BY <1>1, <2>1, NodeIn DEF OneParent, Inner
    <3> QED
      BY <1>4, <3>1
  <2> QED
    BY <2>2, <2>3 DEF InteriorCut
<1> DEFINE u == With(With(With(T, new, left), r, right), Root, AddSep(T[Root], s))
<1>9. WellFormed(u)
  BY <1>6, <1>7, <1>8, CutShape
<1>10. Grown(v, s) = With(With(v, Root, Interior(With(<< >>, sep, r), new, Key)), new, v[Root])
  BY <1>2 DEF Grown, new
<1>11. AddSep(T[Root], s) = Interior(With(<< >>, sep, r), new, Key)
  BY <1>4 DEF AddSep, Interior
<1>12. Grown(v, s) = u
  <2> DEFINE g == Grown(v, s)
             root == Interior(With(<< >>, sep, r), new, Key)
  <2> HIDE DEF root
  <2>1. /\ DOMAIN v = D \cup {r} /\ v[Root] = left /\ v[r] = right
        /\ \A x \in D : x # Root => v[x] = t[x]
    BY <1>1, <1>2 DEF With
  <2>2. /\ g = [x \in DOMAIN g |-> g[x]] /\ DOMAIN g = D \cup {r, new}
        /\ g[Root] = root /\ g[new] = left /\ g[r] = right
        /\ \A x \in D : x # Root => g[x] = t[x]
    BY <1>1, <1>2, <1>3, <1>10, <2>1 DEF With, root
  <2>3. /\ u = [x \in DOMAIN u |-> u[x]] /\ DOMAIN u = D \cup {r, new}
        /\ u[Root] = root /\ u[new] = left /\ u[r] = right
        /\ \A x \in D : x # Root => u[x] = t[x]
    BY <1>1, <1>2, <1>3, <1>4, <1>11 DEF With, root
  <2> HIDE DEF g, u
  <2>4. ASSUME NEW x \in DOMAIN g PROVE g[x] = u[x]
    BY <2>2, <2>3
  <2>5. g = u
    BY <2>2, <2>3, <2>4
  <2> QED
    BY <2>5 DEF g
<1> QED
  BY <1>9, <1>12

-----------------------------------------------------------------------------
(* What the cells of a page take together.                                 *)

Total(size, K) == MapThenSumSet(LAMBDA k : size[k], K)

\* f sums up the sizes of every part of S, in the order the fold takes them.
Pick(s) == CHOOSE x \in s : TRUE
Sums(f, size, S) ==
  f = [s \in SUBSET S |-> IF s = {} THEN 0 ELSE size[Pick(s)] + f[s \ {Pick(s)}]]

LEMMA PickIs ==
  ASSUME NEW S, IsFiniteSet(S), NEW s \in SUBSET S, s # {}
  PROVE  /\ Pick(s) \in s /\ s \ {Pick(s)} \in SUBSET S
         /\ IsFiniteSet(s) /\ Cardinality(s) \in Nat /\ Cardinality(s \ {Pick(s)}) \in Nat
         /\ Cardinality(s) = Cardinality(s \ {Pick(s)}) + 1
<1>1. Pick(s) \in s /\ IsFiniteSet(s)
  BY FS_Subset DEF Pick
<1>2. Cardinality(s \ {Pick(s)}) = Cardinality(s) - 1 /\ IsFiniteSet(s \ {Pick(s)})
  BY <1>1, FS_RemoveElement
<1>3. Cardinality(s) \in Nat /\ Cardinality(s \ {Pick(s)}) \in Nat
  BY <1>1, <1>2, FS_CardinalityType
<1> QED
  BY <1>1, <1>2, <1>3

\* There is such a function: the sums of the parts with n members give those of
\* the parts with one more.
LEMMA SumsExist ==
  ASSUME NEW S, IsFiniteSet(S), NEW size
  PROVE  \E f : Sums(f, size, S)
<1> DEFINE Step(f, s) == IF s = {} THEN 0 ELSE size[Pick(s)] + f[s \ {Pick(s)}]
           UpTo(f, n) == \A s \in SUBSET S : Cardinality(s) <= n => f[s] = Step(f, s)
           missed == {n \in Nat : ~ \E f : UpTo(f, n)}
<1>1. \A s \in SUBSET S : Cardinality(s) \in Nat /\ (Cardinality(s) = 0 => s = {})
  BY FS_Subset, FS_CardinalityType, FS_EmptySet
<1>2. missed = {}
  <2> SUFFICES ASSUME missed # {} PROVE FALSE
    OBVIOUS
  <2>1. PICK n \in missed : \A m \in missed : n <= m
    <3>1. missed \in SUBSET Nat
      OBVIOUS
    <3> HIDE DEF missed
    <3> QED
      BY <3>1, LeastNat
  <2>2. n \in Nat /\ \A f : ~UpTo(f, n)
    BY <2>1
  <2>3. CASE n = 0
    <3> DEFINE f == [s \in SUBSET S |-> 0]
    <3>1. UpTo(f, 0)
      BY <1>1
    <3> QED
      BY <2>2, <2>3, <3>1
  <2>4. CASE n # 0
    <3>1. n - 1 \in Nat /\ n - 1 \notin missed
      <4>1. n - 1 \in Nat /\ ~ (n <= n - 1)
        BY <2>2, <2>4
      <4> QED
        BY <2>1, <4>1
    <3>2. PICK f : UpTo(f, n - 1)
      BY <3>1
    <3> DEFINE g == [s \in SUBSET S |-> Step(f, s)]
    <3>3. ASSUME NEW s \in SUBSET S, Cardinality(s) <= n
          PROVE  g[s] = Step(g, s)
      <4>1. CASE s = {}
        BY <4>1
      <4>2. CASE s # {}
        <5> DEFINE r == s \ {Pick(s)}
        <5>1. r \in SUBSET S /\ Cardinality(r) <= n - 1
          BY <2>2, <3>3, <4>2, PickIs
        <5>2. f[r] = Step(f, r) /\ g[r] = Step(f, r)
          BY <3>2, <5>1
        <5>3. g[s] = size[Pick(s)] + f[r]
          BY <4>2
        <5> HIDE DEF r, g
        <5>4. g[s] = size[Pick(s)] + g[r]
          BY <5>2, <5>3
        <5> QED
          BY <4>2, <5>4 DEF r
      <4> QED
        BY <4>1, <4>2
    <3> HIDE DEF g, Step
    <3>4. UpTo(g, n)
      BY <3>3
    <3> QED
      BY <2>2, <3>4
  <2> QED
    BY <2>3, <2>4
<1>3. PICK f : UpTo(f, Cardinality(S))
  <2>1. Cardinality(S) \in Nat
    BY FS_CardinalityType
  <2> HIDE DEF UpTo
  <2> QED
    BY <1>2, <2>1
<1> DEFINE g == [s \in SUBSET S |-> f[s]]
<1>4. ASSUME NEW s \in SUBSET S PROVE g[s] = Step(g, s)
  <2>1. Cardinality(s) <= Cardinality(S)
    BY FS_Subset
  <2>2. f[s] = Step(f, s)
    BY <1>3, <2>1
  <2>3. s # {} => g[s \ {Pick(s)}] = f[s \ {Pick(s)}]
    BY PickIs
  <2> QED
    BY <2>2, <2>3
<1>5. Sums(g, size, S)
  BY <1>4 DEF Sums
<1> QED
  BY <1>5

\* And only one, whatever set the parts are taken from.
LEMMA SumsSame ==
  ASSUME NEW S, IsFiniteSet(S), NEW size, NEW T \in SUBSET S,
         NEW f, Sums(f, size, S), NEW g, Sums(g, size, T)
  PROVE  \A s \in SUBSET T : f[s] = g[s]
<1> DEFINE differ == {s \in SUBSET T : f[s] # g[s]}
           sizes == {Cardinality(s) : s \in differ}
<1>1. sizes = {}
  <2> SUFFICES ASSUME sizes # {} PROVE FALSE
    OBVIOUS
  <2>0. sizes \in SUBSET Nat
    <3>1. \A s \in differ : s \in SUBSET S
      OBVIOUS
    <3> QED
      BY <3>1, FS_Subset, FS_CardinalityType
  <2>1. PICK n \in sizes : \A m \in sizes : n <= m
    <3> HIDE DEF sizes
    <3> QED
      BY <2>0, LeastNat
  <2>2. PICK s \in differ : n = Cardinality(s)
    BY <2>1
  <2>3. s \in SUBSET S /\ s \in SUBSET T /\ f[s] # g[s]
    OBVIOUS
  <2>4. s # {}
    BY <2>3 DEF Sums
  <2> DEFINE r == s \ {Pick(s)}
  <2>5. /\ r \in SUBSET S /\ r \in SUBSET T /\ Cardinality(r) \in Nat
        /\ n = Cardinality(r) + 1
    BY <2>2, <2>3, <2>4, PickIs
  <2>6. f[s] = size[Pick(s)] + f[r] /\ g[s] = size[Pick(s)] + g[r]
    BY <2>3, <2>4 DEF Sums
  <2> HIDE DEF r
  <2>7. r \in differ
    BY <2>3, <2>5, <2>6
  <2>8. n <= Cardinality(r)
    BY <2>1, <2>7
  <2> QED
    BY <2>5, <2>8
<1> QED
  BY <1>1

LEMMA TotalIs ==
  ASSUME NEW S, IsFiniteSet(S), NEW size, NEW s \in SUBSET S
  PROVE  /\ s = {} => Total(size, s) = 0
         /\ s # {} => Total(size, s) = size[Pick(s)] + Total(size, s \ {Pick(s)})
<1> DEFINE Sum(K) == CHOOSE f : Sums(f, size, K)
<1>1. \A K : Total(size, K) = Sum(K)[K]
  BY DEF Total, MapThenSumSet, MapThenFoldSet, Sums, Pick
<1> HIDE DEF Sum
<1>2. ASSUME NEW K \in SUBSET S PROVE IsFiniteSet(K) /\ Sums(Sum(K), size, K)
  <2>1. IsFiniteSet(K)
    BY FS_Subset
  <2> QED
    BY <2>1, SumsExist DEF Sum
<1>3. ASSUME NEW K \in SUBSET S PROVE Total(size, K) = Sum(S)[K]
  <2>1. Sums(Sum(S), size, S) /\ Sums(Sum(K), size, K)
    BY <1>2
  <2>2. Sum(S)[K] = Sum(K)[K]
    BY <2>1, SumsSame
  <2> QED
    BY <1>1, <2>2
<1>4. Sums(Sum(S), size, S)
  BY <1>2
<1>5. Sum(S)[s] = IF s = {} THEN 0 ELSE size[Pick(s)] + Sum(S)[s \ {Pick(s)}]
  BY <1>4 DEF Sums
<1>6. s # {} => s \ {Pick(s)} \in SUBSET S
  OBVIOUS
<1> QED
  BY <1>3, <1>5, <1>6

\* Each member adds its size, whichever is taken out first.
LEMMA TotalTakes ==
  ASSUME NEW S, IsFiniteSet(S), NEW size, \A k \in S : size[k] \in Nat
  PROVE  /\ Total(size, S) \in Nat
         /\ \A x \in S : /\ Total(size, S \ {x}) \in Nat
                         /\ Total(size, S) = size[x] + Total(size, S \ {x})
<1> DEFINE T(s) == Total(size, s)
           Right(s) == T(s) \in Nat /\ \A x \in s : T(s) = size[x] + T(s \ {x})
           wrong == {s \in SUBSET S : ~Right(s)}
           sizes == {Cardinality(s) : s \in wrong}
<1>1. sizes = {}
  <2> SUFFICES ASSUME sizes # {} PROVE FALSE
    OBVIOUS
  <2>0. sizes \in SUBSET Nat
    BY FS_Subset, FS_CardinalityType
  <2>1. PICK n \in sizes : \A m \in sizes : n <= m
    <3> HIDE DEF sizes
    <3> QED
      BY <2>0, LeastNat
  <2>2. PICK s \in wrong : n = Cardinality(s)
    BY <2>1
  <2>3. s \in SUBSET S /\ ~Right(s)
    OBVIOUS
  <2>4. ASSUME NEW r \in SUBSET S, Cardinality(r) < n PROVE Right(r)
    <3>1. Cardinality(r) \in Nat /\ n \in Nat
      BY <2>2, FS_Subset, FS_CardinalityType
    <3> HIDE DEF Right
    <3>2. CASE r \in wrong
      <4>1. n <= Cardinality(r)
        BY <2>1, <3>2
      <4> QED
        BY <2>4, <3>1, <4>1
    <3> QED
      BY <3>2
  <2>5. s # {}
    <3> SUFFICES ASSUME s = {} PROVE FALSE
      OBVIOUS
    <3>1. T(s) = 0
      BY <2>3, TotalIs
    <3> QED
      BY <2>3, <3>1
  <2> DEFINE p == Pick(s)
             r == s \ {p}
  <2>6. /\ p \in s /\ r \in SUBSET S /\ IsFiniteSet(s) /\ n = Cardinality(r) + 1
        /\ Cardinality(r) \in Nat /\ T(s) = size[p] + T(r) /\ size[p] \in Nat
    BY <2>2, <2>3, <2>5, PickIs, TotalIs
  <2> HIDE DEF p
  <2>7. Right(r)
    <3>1. Cardinality(r) < n
      BY <2>6
    <3> HIDE DEF r, Right
    <3> QED
      BY <2>4, <2>6, <3>1
  <2>8. T(s) \in Nat
    BY <2>6, <2>7
  <2>9. ASSUME NEW x \in s PROVE T(s) = size[x] + T(s \ {x})
    <3>1. CASE x = p
      BY <2>6, <3>1
    <3>2. CASE x # p
      <4> DEFINE y == s \ {x}
      <4>1. x \in r /\ p \in y /\ y \in SUBSET S /\ r \ {x} = y \ {p}
        BY <2>3, <2>6, <3>2
      <4>2. Cardinality(y) < n /\ Cardinality(r \ {x}) < n /\ r \ {x} \in SUBSET S
        <5>1. Cardinality(y) = Cardinality(s) - 1 /\ Cardinality(r \ {x}) = Cardinality(r) - 1
          <6>1. IsFiniteSet(r)
            BY <2>6, FS_Subset
          <6> QED
            BY <2>6, <4>1, <6>1, FS_RemoveElement
        <5>2. r \ {x} \in SUBSET S
          BY <2>6
        <5>3. Cardinality(s) = Cardinality(r) + 1 /\ Cardinality(r) \in Nat /\ n = Cardinality(r) + 1
          BY <2>2, <2>6
        <5> HIDE DEF r, y, sizes, wrong, Right, T
        <5> QED
          BY <5>1, <5>2, <5>3
      <4>3. T(r) = size[x] + T(r \ {x})
        BY <2>7, <4>1
      <4>4. Right(y) /\ Right(r \ {x})
        BY <2>4, <4>1, <4>2
      <4>5. T(y) = size[p] + T(r \ {x}) /\ T(r \ {x}) \in Nat
        BY <4>1, <4>4
      <4>6. size[x] \in Nat /\ size[p] \in Nat
        BY <2>3, <2>6
      <4> HIDE DEF T, r, y
      <4>7. T(s) = size[x] + T(y)
        BY <2>6, <4>3, <4>5, <4>6
      <4> QED
        BY <4>7 DEF y
    <3> QED
      BY <3>1, <3>2
  <2> QED
    BY <2>3, <2>8, <2>9
<1>2. \A s \in SUBSET S : Right(s)
  BY <1>1
<1>3. Right(S) /\ \A x \in S : Right(S \ {x})
  BY <1>2
<1> QED
  BY <1>3

\* Only the sizes of the cells matter.
LEMMA TotalAgrees ==
  ASSUME NEW S, IsFiniteSet(S), NEW size, NEW other, \A k \in S : size[k] = other[k]
  PROVE  Total(size, S) = Total(other, S)
<1> DEFINE Sum(z) == CHOOSE f : Sums(f, z, S)
<1>1. Total(size, S) = Sum(size)[S] /\ Total(other, S) = Sum(other)[S]
  BY DEF Total, MapThenSumSet, MapThenFoldSet, Sums, Pick
<1>2. Sums(Sum(size), size, S) /\ Sums(Sum(other), other, S)
  BY SumsExist
<1> HIDE DEF Sum
<1> DEFINE f == Sum(other)
<1>3. \A s \in SUBSET S : s # {} => size[Pick(s)] = other[Pick(s)]
  BY PickIs
<1>4. f = [s \in SUBSET S |-> IF s = {} THEN 0 ELSE other[Pick(s)] + f[s \ {Pick(s)}]]
  BY <1>2 DEF Sums
<1> HIDE DEF f
<1>5. \A s \in SUBSET S : f[s] = IF s = {} THEN 0 ELSE size[Pick(s)] + f[s \ {Pick(s)}]
  BY <1>3, <1>4
<1>6. Sums(f, size, S)
  BY <1>4, <1>5 DEF Sums
<1>7. S \in SUBSET S
  OBVIOUS
<1>8. Sum(size)[S] = f[S]
  BY <1>2, <1>6, <1>7, SumsSame
<1> QED
  BY <1>1, <1>8 DEF f

\* So a page that fits still fits when a cell is taken out, and each of its
\* cells would fit alone.
LEMMA FitsWithout ==
  ASSUME NEW S, IsFiniteSet(S), NEW size, \A k \in S : size[k] \in Nat, Fits(size, S), NEW x \in S
  PROVE  Fits(size, S \ {x}) /\ size[x] <= Room
<1>1. Total(size, S) <= Room /\ Room \in Nat
  BY BTreeAssumption DEF Fits, Total
<1>2. Total(size, S \ {x}) \in Nat /\ Total(size, S) = size[x] + Total(size, S \ {x}) /\ size[x] \in Nat
  BY TotalTakes
<1>3. Total(size, S \ {x}) <= Room /\ size[x] <= Room
  BY <1>1, <1>2
<1> QED
  BY <1>3 DEF Fits, Total

\* Between so many cells of the least size and so many of the greatest.
LEMMA TotalBetween ==
  ASSUME NEW S, IsFiniteSet(S), NEW size, NEW a \in Nat, NEW b \in Nat,
         \A k \in S : size[k] \in Nat /\ a <= size[k] /\ size[k] <= b
  PROVE  a * Cardinality(S) <= Total(size, S) /\ Total(size, S) <= b * Cardinality(S)
<1> DEFINE Right(s) == /\ a * Cardinality(s) <= Total(size, s)
                       /\ Total(size, s) <= b * Cardinality(s)
           wrong == {s \in SUBSET S : ~Right(s)}
           sizes == {Cardinality(s) : s \in wrong}
<1>1. sizes = {}
  <2> SUFFICES ASSUME sizes # {} PROVE FALSE
    OBVIOUS
  <2>0. sizes \in SUBSET Nat
    BY FS_Subset, FS_CardinalityType
  <2>1. PICK n \in sizes : \A m \in sizes : n <= m
    <3> HIDE DEF sizes
    <3> QED
      BY <2>0, LeastNat
  <2>2. PICK s \in wrong : n = Cardinality(s)
    BY <2>1
  <2>3. s \in SUBSET S /\ ~Right(s)
    OBVIOUS
  <2>4. s # {}
    <3> SUFFICES ASSUME s = {} PROVE FALSE
      OBVIOUS
    <3>1. Total(size, s) = 0 /\ Cardinality(s) = 0
      BY <2>3, TotalIs, FS_EmptySet
    <3>2. a * 0 = 0 /\ b * 0 = 0
      OBVIOUS
    <3> QED
      BY <2>3, <3>1, <3>2
  <2> DEFINE p == Pick(s)
             r == s \ {p}
             c == Cardinality(r)
  <2>5. /\ p \in s /\ r \in SUBSET S /\ IsFiniteSet(s) /\ Cardinality(s) = c + 1 /\ c \in Nat
        /\ Total(size, s) = size[p] + Total(size, r)
        /\ size[p] \in Nat /\ a <= size[p] /\ size[p] <= b
    BY <2>3, <2>4, PickIs, TotalIs
  <2>6. Right(r)
    <3> SUFFICES ASSUME ~Right(r) PROVE FALSE
      OBVIOUS
    <3>1. r \in wrong
      BY <2>5
    <3> HIDE DEF wrong, r, Right
    <3>2. n <= c
      BY <2>1, <3>1
    <3> QED
      BY <2>2, <2>5, <3>2
  <2>7. Total(size, r) \in Nat
    <3>1. IsFiniteSet(r) /\ \A k \in r : size[k] \in Nat
      BY <2>5, FS_Subset
    <3> QED
      BY <3>1, TotalTakes
  <2>8. a * c <= Total(size, r) /\ Total(size, r) <= b * c
    BY <2>6
  <2> HIDE DEF c, r, p
  <2>9. a * (c + 1) = a * c + a /\ b * (c + 1) = b * c + b /\ a * c \in Nat /\ b * c \in Nat
    BY <2>5
  <2>10. a * (c + 1) <= Total(size, s) /\ Total(size, s) <= b * (c + 1)
    BY <2>5, <2>7, <2>8, <2>9
  <2> QED
    BY <2>3, <2>5, <2>10
<1>2. Right(S)
  BY <1>1
<1> QED
  BY <1>2

\* What cells of one size take together.
LEMMA UniformSum ==
  ASSUME NEW S, IsFiniteSet(S), NEW size, NEW c \in Nat, \A k \in S : size[k] = c
  PROVE  MapThenSumSet(LAMBDA k : size[k], S) = c * Cardinality(S)
<1>0. \A k \in S : size[k] \in Nat /\ c <= size[k] /\ size[k] <= c
  OBVIOUS
<1>1. Total(size, S) \in Nat
  BY <1>0, TotalTakes
<1>2. c * Cardinality(S) <= Total(size, S) /\ Total(size, S) <= c * Cardinality(S)
  BY <1>0, TotalBetween
<1>3. c * Cardinality(S) \in Nat
  BY FS_CardinalityType
<1>4. Total(size, S) = c * Cardinality(S)
  BY <1>1, <1>2, <1>3
<1> QED
  BY <1>4 DEF Total

\* Separators of one size, as the rowids of a table make them, always let a
\* node be halved: SeparatorsFit asks no more of them.
LEMMA UniformSeparators ==
  ASSUME NEW c \in Nat, c <= Room, \A k \in Key : SepSize[k] = c
  PROVE  SeparatorsFit
<1>1. ASSUME NEW K \in SUBSET Key, IsFiniteSet(K)
      PROVE  Fits(SepSize, K) <=> c * Cardinality(K) <= Room
  <2>1. MapThenSumSet(LAMBDA k : SepSize[k], K) = c * Cardinality(K)
    BY <1>1, UniformSum
  <2> QED
    BY <2>1 DEF Fits
<1>0. \A k \in Key : Fits(SepSize, {k})
  <2> SUFFICES ASSUME NEW k \in Key PROVE Fits(SepSize, {k})
    OBVIOUS
  <2>1. IsFiniteSet({k}) /\ Cardinality({k}) = 1 /\ {k} \in SUBSET Key
    BY FS_Singleton
  <2>2. c * 1 <= Room
    OBVIOUS
  <2> QED
    BY <1>1, <2>1, <2>2
<1> SUFFICES ASSUME NEW K \in SUBSET Key, NEW k \in K, IsFiniteSet(K), Fits(SepSize, K \ {k})
             PROVE  Fits(SepSize, Below(K, Median(K))) /\ Fits(SepSize, Above(K, Median(K)))
  BY <1>0 DEF SeparatorsFit
<1>2. K \in SUBSET Int /\ K # {}
  BY BTreeAssumption
<1> DEFINE m == Median(K)
           b == Below(K, m)
           a == Above(K, m)
<1>3. m \in K /\ m \in Int
  BY <1>2, MedianKey
<1> HIDE DEF m
<1>4. b \in SUBSET (K \ {m}) /\ a \in SUBSET (K \ {m})
  BY <1>2, <1>3, Parts
<1>5. /\ IsFiniteSet(K \ {k}) /\ Cardinality(K \ {k}) = Cardinality(K) - 1
      /\ IsFiniteSet(K \ {m}) /\ Cardinality(K \ {m}) = Cardinality(K) - 1
  BY <1>3, FS_RemoveElement
<1>6. /\ IsFiniteSet(b) /\ Cardinality(b) <= Cardinality(K \ {m})
      /\ IsFiniteSet(a) /\ Cardinality(a) <= Cardinality(K \ {m})
  BY <1>4, <1>5, FS_Subset
<1>7. /\ Cardinality(b) \in Nat /\ Cardinality(a) \in Nat /\ Cardinality(K \ {k}) \in Nat
      /\ Cardinality(b) <= Cardinality(K \ {k}) /\ Cardinality(a) <= Cardinality(K \ {k})
  BY <1>5, <1>6, FS_CardinalityType
<1>8. c * Cardinality(K \ {k}) <= Room /\ Room \in Nat
  BY <1>1, <1>5, BTreeAssumption
<1>9. \A i, j \in Nat : i <= j => c * i <= c * j
  OBVIOUS
<1>10. c * Cardinality(b) <= Room /\ c * Cardinality(a) <= Room
  <2>1. \A i, j \in Nat : i <= j /\ c * j <= Room => c * i <= Room
    BY <1>8, <1>9
  <2> QED
    BY <1>7, <1>8, <2>1
<1>11. b \in SUBSET Key /\ a \in SUBSET Key
  BY <1>4
<1> QED
  BY <1>1, <1>6, <1>10, <1>11 DEF m

-----------------------------------------------------------------------------
(* Splits.                                                                 *)

\* A leaf that a cell has made too full is halved between two of its cells.
LEMMA HalveLeaf ==
  ASSUME NEW t, WellFormed(t), NEW p \in Outer(t), NEW r, NEW k \in t[p].span, NEW v \in Val,
         KeySize[k] + ValSize[v] <= Room,
         NEW all, all = With(t[p].cells, k, v), ~LeafFits(all), NEW sep, sep = Median(DOMAIN all),
         NEW cl, Packed(all, Below(DOMAIN all, sep), cl, Val),
         NEW cr, Packed(all, From(DOMAIN all, sep), cr, Val)
  PROVE  Halving(t, p, r, sep, Leaf(cl, r, Below(t[p].span, sep)),
                               Leaf(cr, t[p].extra, From(t[p].span, sep)))
<1> DEFINE S == t[p].span
           A == DOMAIN all
           left == Leaf(cl, r, Below(S, sep))
           right == Leaf(cr, t[p].extra, From(S, sep))
           size == LeafSize(all)
<1>1. /\ p \in DOMAIN t /\ t[p].leaf = TRUE /\ S \subseteq Key /\ t[p].extra \in DOMAIN t \cup {0}
      /\ IsCells(t[p].cells, Val) /\ DOMAIN t[p].cells \subseteq S /\ IsTree(t)
  BY NodeIn DEF WellFormed, LeafSpans, Outer
<1>2. /\ A = DOMAIN t[p].cells \cup {k} /\ A \subseteq S /\ IsFiniteSet(A) /\ all[k] = v
      /\ A \in SUBSET Int /\ (\A x : x \in Key => x \in Int)
  <2>1. IsFiniteSet(DOMAIN t[p].cells \cup {k})
    BY <1>1, FS_AddElement DEF IsCells
  <2> QED
    BY <1>1, <2>1, BTreeAssumption DEF With
<1>3. \E i, j \in A : i # j
  <2> SUFFICES ASSUME \A i, j \in A : i = j PROVE FALSE
    OBVIOUS
  <2>1. A = {k}
    BY <1>2
  <2>2. KeySize[k] + ValSize[v] \in Nat
    <3>1. k \in Key /\ KeySize[k] \in Nat /\ ValSize[v] \in Nat
      BY <1>1, BTreeAssumption
    <3> QED
      BY <3>1
  <2>3. size[k] = KeySize[k] + ValSize[v]
    BY <1>2, <2>1 DEF LeafSize
  <2>4. IsFiniteSet({k}) /\ Cardinality({k}) = 1
    BY FS_Singleton
  <2>5. MapThenSumSet(LAMBDA j : size[j], {k}) = (KeySize[k] + ValSize[v]) * Cardinality({k})
    <3>1. \A j \in {k} : size[j] = KeySize[k] + ValSize[v]
      BY <2>3
    <3> HIDE DEF size
    <3> QED
      BY <2>2, <2>4, <3>1, UniformSum
  <2>6. (KeySize[k] + ValSize[v]) * Cardinality({k}) = KeySize[k] + ValSize[v]
    BY <2>2, <2>4
  <2>7. MapThenSumSet(LAMBDA j : size[j], A) <= Room
    BY <2>1, <2>5, <2>6
  <2> QED
    BY <2>7 DEF LeafFits, Fits
<1> HIDE DEF A, S
<1>4. sep \in A /\ Below(A, sep) # {}
  <2>1. A # {}
    BY <1>3
  <2> QED
    BY <1>2, <1>3, <2>1, MedianKey DEF A
<1>5. sep \in S /\ sep \in Key /\ sep \in Int
  BY <1>1, <1>2, <1>4
<1>6. Below(A, sep) \subseteq Below(S, sep) /\ From(A, sep) \subseteq From(S, sep) /\ sep \in From(S, sep)
  BY <1>2, <1>5 DEF Below, From
<1>7. Below(S, sep) # {} /\ From(S, sep) # {} /\ Below(S, sep) \in SUBSET Key /\ From(S, sep) \in SUBSET Key
  BY <1>1, <1>4, <1>6, PartsSubset
<1>8. /\ IsCells(cl, Val) /\ DOMAIN cl \subseteq Below(S, sep)
      /\ IsCells(cr, Val) /\ DOMAIN cr \subseteq From(S, sep)
  BY <1>6 DEF Packed, A
<1>9. /\ left.leaf = TRUE /\ left.cells = cl /\ left.extra = r /\ left.span = Below(S, sep)
      /\ right.leaf = TRUE /\ right.cells = cr /\ right.extra = t[p].extra /\ right.span = From(S, sep)
  BY DEF Leaf
<1>10. IsNode(left, DOMAIN t \cup {r}) /\ IsNode(right, DOMAIN t \cup {r})
  <2>1. r \in DOMAIN t \cup {r} \cup {0} /\ t[p].extra \in DOMAIN t \cup {r} \cup {0}
    BY <1>1
  <2> QED
    BY <1>7, <1>8, <2>1, NodeOf
<1> HIDE DEF left, right
<1>11. LeafCut(t[p], r, sep, left, right)
  BY <1>5, <1>8, <1>9 DEF LeafCut, S
<1>12. p \notin Inner(t)
  BY <1>1 DEF Inner
<1>13. Halving(t, p, r, sep, left, right)
  BY <1>1, <1>5, <1>7, <1>9, <1>10, <1>11, <1>12 DEF Halving, S
<1> QED
  BY <1>13 DEF left, right, S

\* An interior node is halved at one of its separators.
LEMMA HalveInterior ==
  ASSUME NEW t, WellFormed(t), NEW p \in Inner(t), NEW r, NEW sep \in DOMAIN t[p].cells,
         NEW left, left = Interior(Only(t[p].cells, Below(DOMAIN t[p].cells, sep)),
                                   t[p].extra, Below(t[p].span, sep)),
         NEW right, right = Interior(Only(t[p].cells, Above(DOMAIN t[p].cells, sep)),
                                     t[p].cells[sep], From(t[p].span, sep))
  PROVE  Halving(t, p, r, sep, left, right)
<1> DEFINE n == t[p]
           S == n.span
           c == n.cells
           cl == Only(c, Below(DOMAIN c, sep))
           cr == Only(c, Above(DOMAIN c, sep))
<1>1. /\ p \in DOMAIN t /\ IsTree(t) /\ n.leaf = FALSE /\ S \subseteq Key /\ IsCells(c, DOMAIN t)
      /\ n.extra \in DOMAIN t /\ Kids(n) \subseteq DOMAIN t
  BY NodeIn DEF WellFormed, Inner
<1>2. /\ sep \in Key /\ sep \in Int /\ c[sep] \in DOMAIN t /\ S \subseteq Int
      /\ (\A x : x \in Key => x \in Int)
  BY <1>1, BTreeAssumption DEF IsCells
<1>3. /\ left.leaf = FALSE /\ left.cells = cl /\ left.extra = n.extra /\ left.span = Below(S, sep)
      /\ right.leaf = FALSE /\ right.cells = cr /\ right.extra = c[sep] /\ right.span = From(S, sep)
  BY DEF Interior
<1>4. Distinct(n) /\ \A x \in Kids(n) : t[x].span = {k \in S : ChildPage(n, k) = x} /\ t[x].span # {}
  BY <1>1 DEF WellFormed, OneParent, Routes
<1>5. /\ Kids(left) \subseteq Kids(n) /\ Kids(right) \subseteq Kids(n)
      /\ Kids(left) \cap Kids(right) = {} /\ Distinct(left) /\ Distinct(right)
      /\ \A k \in Key : IF sep <= k
                        THEN ChildPage(right, k) = ChildPage(n, k) /\ ChildPage(n, k) \notin Kids(left)
                        ELSE ChildPage(left, k) = ChildPage(n, k) /\ ChildPage(n, k) \notin Kids(right)
  BY <1>1, <1>3, <1>4, InteriorHalves
<1>6. IsNode(left, DOMAIN t \cup {r}) /\ IsNode(right, DOMAIN t \cup {r})
  <2>1. IsCells(cl, DOMAIN t) /\ IsCells(cr, DOMAIN t)
    BY <1>1, OnlyCells
  <2>2. IsCells(cl, DOMAIN t \cup {r}) /\ IsCells(cr, DOMAIN t \cup {r})
    BY <2>1 DEF IsCells
  <2>3. Below(S, sep) \in SUBSET Key /\ From(S, sep) \in SUBSET Key
    BY <1>1, PartsSubset
  <2> QED
    BY <1>1, <1>2, <2>2, <2>3, NodeOf
<1> HIDE DEF n, S, c, cl, cr
<1>7. /\ \A k : k \in left.span <=> k \in S /\ ~ (sep <= k)
      /\ \A k : k \in right.span <=> k \in S /\ sep <= k
  <2>1. /\ \A k : k \in Below(S, sep) <=> k \in S /\ k < sep
        /\ \A k : k \in From(S, sep) <=> k \in S /\ k >= sep
    BY DEF Below, From
  <2>2. \A k \in S : (k < sep <=> ~ (sep <= k)) /\ (k >= sep <=> sep <= k)
    <3>1. \A k \in Int : (k < sep <=> ~ (sep <= k)) /\ (k >= sep <=> sep <= k)
      BY <1>2
    <3> QED
      BY <1>2, <3>1
  <2> QED
    BY <1>3, <2>1, <2>2
<1>8. /\ \A x \in Kids(left) : t[x].span = {k \in left.span : ChildPage(left, k) = x}
      /\ \A x \in Kids(right) : t[x].span = {k \in right.span : ChildPage(right, k) = x}
  <2>1. ASSUME NEW x \in Kids(left), NEW k \in Key
        PROVE  k \in S /\ ChildPage(n, k) = x <=> k \in left.span /\ ChildPage(left, k) = x
    BY <1>5, <1>7
  <2>2. ASSUME NEW x \in Kids(right), NEW k \in Key
        PROVE  k \in S /\ ChildPage(n, k) = x <=> k \in right.span /\ ChildPage(right, k) = x
    BY <1>5, <1>7
  <2>3. \A k : k \in S \/ k \in left.span \/ k \in right.span => k \in Key
    BY <1>1, <1>7
  <2>4. ASSUME NEW x \in Kids(left)
        PROVE  t[x].span = {k \in left.span : ChildPage(left, k) = x}
    BY <1>4, <1>5, <2>1, <2>3
  <2>5. ASSUME NEW x \in Kids(right)
        PROVE  t[x].span = {k \in right.span : ChildPage(right, k) = x}
    BY <1>4, <1>5, <2>2, <2>3
  <2> QED
    BY <2>4, <2>5
<1>9. left.span # {} /\ right.span # {}
  <2>1. left.extra \in Kids(left) /\ right.extra \in Kids(right)
    BY DEF Kids
  <2>2. t[left.extra].span # {} /\ t[right.extra].span # {}
    BY <1>4, <1>5, <2>1
  <2> QED
    BY <1>8, <2>1, <2>2
<1>10. InteriorCut(t, n, left, right)
  BY <1>5, <1>8 DEF InteriorCut
<1>11. p \notin Outer(t)
  BY <1>1 DEF Outer, n
<1> QED
  BY <1>1, <1>2, <1>3, <1>6, <1>9, <1>10, <1>11 DEF Halving, n, S

LEMMA WithTwice ==
  ASSUME NEW c, NEW k, NEW v, NEW w
  PROVE  /\ With(With(c, k, v), k, w) = With(c, k, w)
         /\ k \in DOMAIN c /\ c = [j \in DOMAIN c |-> c[j]] => With(c, k, c[k]) = c
BY DEF With

\* The path of an insert, one page shorter.
LEMMA ShorterPath ==
  ASSUME TypeInv, PathInv, op = "insert", path # << >>,
         NEW sep, NEW left, NEW right, Split(sep, left, right)
  PROVE  /\ PathInv' /\ NewPage \notin Pages /\ (path' = << >> => Top = Root)
         /\ path' # << >> => /\ Top' \in Inner(page) /\ Top \in Kids(page[Top']) /\ Top # Top'
                             /\ Top' \in Pages
<1> DEFINE l == Len(path)
<1>1. /\ Top \in Pages /\ l \in Nat \ {0} /\ path \in Seq(Pages) /\ Top = path[l] /\ l \in 1 .. l
      /\ Pages = DOMAIN page /\ IsTree(page) /\ Numbered(page)
  BY TopIs DEF TypeInv, PagesInv, PathTypes, Pages, Top
<1>2. NewPage \notin Pages
  BY <1>1, NewPageIs DEF NewPage
<1>3. /\ path' = SubSeq(path, 1, l - 1) /\ op' = op /\ key' = key
      /\ page' = With(With(page, Top, left), NewPage, right)
  BY PageSteps DEF Split, args
<1>4. PICK n \in Nat : n = l - 1 /\ n <= l /\ l = n + 1
  BY <1>1, Predecessor
<1>5. path' \in Seq(Pages) /\ Len(path') = n /\ \A i \in 1 .. n : path'[i] = path[i]
  <2>1. n <= Len(path)
    BY <1>4
  <2>2. path \in Seq(Pages)
    BY <1>1
  <2>3. /\ SubSeq(path, 1, n) \in Seq(Pages) /\ Len(SubSeq(path, 1, n)) = n
        /\ \A i \in 1 .. n : SubSeq(path, 1, n)[i] = path[i]
    BY <2>1, <2>2, FrontIs
  <2> QED
    BY <1>3, <1>4, <2>3
<1>6. path' # << >> <=> n # 0
  BY <1>5
<1>7. /\ path[1] = Root
      /\ \A i, j \in 1 .. l : /\ path[i] = path[j] => i = j
                              /\ j = i + 1 => path[j] = ChildPage(page[path[i]], key)
                              /\ key \in page[path[i]].span
  BY <1>1 DEF PathInv
<1>8. ASSUME NEW i \in 1 .. n
      PROVE  /\ i \in 1 .. l /\ path'[i] = path[i] /\ path[i] \in DOMAIN page
             /\ path[i] # Top /\ page'[path[i]] = page[path[i]]
  <2>1. i \in 1 .. l /\ i # l /\ path[i] \in DOMAIN page
    BY <1>1, <1>4
  <2>2. path[i] # Top
    BY <1>1, <1>7, <2>1
  <2> QED
    BY <1>1, <1>2, <1>3, <1>5, <2>1, <2>2 DEF With
<1>9. PathInv'
  <2>1. n # 0 => path'[1] = Root
    <3>1. n # 0 => 1 \in 1 .. n
      OBVIOUS
    <3> QED
      BY <1>7, <1>8, <3>1
  <2>2. ASSUME NEW i \in 1 .. n, NEW j \in 1 .. n
        PROVE  /\ path'[i] = path'[j] => i = j
               /\ j = i + 1 => path'[j] = ChildPage(page'[path'[i]], key)
               /\ key \in page'[path'[i]].span
    BY <1>7, <1>8
  <2>3. op' # "first" /\ key' = key
    BY <1>3
  <2>4. \A i, j \in 1 .. Len(path') :
          /\ path'[i] = path'[j] => i = j
          /\ j = i + 1 => path'[j] = ChildPage(page'[path'[i]], key')
          /\ key' \in page'[path'[i]].span
    BY <1>5, <2>2, <2>3
  <2> QED
    BY <1>6, <2>1, <2>3, <2>4 DEF PathInv
<1>10. ASSUME path' = << >> PROVE Top = Root
  <2>1. n = 0
    BY <1>6, <1>10
  <2>2. l = 1
    BY <1>4, <2>1
  <2> QED
    BY <1>1, <1>7, <2>2
<1>11. ASSUME path' # << >>
       PROVE  /\ Top' \in Inner(page) /\ Top \in Kids(page[Top']) /\ Top # Top' /\ Top' \in Pages
  <2>1. n # 0 /\ n \in 1 .. n
    BY <1>6, <1>11
  <2>2. Top' = path[n] /\ path[n] \in DOMAIN page /\ path[n] # Top /\ n \in 1 .. l /\ n < l
    <3>1. Top' = path'[n]
      BY <1>5 DEF Top
    <3> QED
      BY <1>1, <1>4, <1>8, <2>1, <3>1
  <2>3. path[l] = ChildPage(page[path[n]], key) /\ key \in page[path[n]].span
    BY <1>1, <1>4, <1>7, <2>2
  <2>4. ~page[path[n]].leaf
    BY <1>1, <2>2 DEF TypeInv, PathTypes
  <2>5. ChildPage(page[path[n]], key) \in Kids(page[path[n]])
    <3>1. key \in Key
      BY DEF TypeInv, CallInv
    <3> QED
      BY <1>1, <2>2, <3>1, NodeIn, ChildPageIs
  <2> QED
    BY <1>1, <2>2, <2>3, <2>4, <2>5 DEF Inner
<1> QED
  BY <1>2, <1>9, <1>10, <1>11

\* t is the tree that is split: the page at hand, with any pending separator.
LEMMA SplitShape ==
  ASSUME TypeInv, PathInv, op = "insert", path # << >>,
         NEW t, NEW n, t = With(page, Top, n), NEW sep, NEW left, NEW right,
         Halving(t, Top, NewPage, sep, left, right), Split(sep, left, right)
  PROVE  \A s \in pend' : WellFormed(IF path' = << >> THEN Grown(page', s) ELSE Joined(page', Top', s))
<1>1. /\ Top \in Pages /\ Pages = DOMAIN page /\ IsTree(page) /\ Numbered(page)
  BY TopIs DEF TypeInv, PagesInv, Pages
<1>2. NewPage \notin Pages /\ NewPage # 0 /\ NewPage = Cardinality(DOMAIN page) + 1
  BY <1>1, NewPageIs DEF NewPage
<1>3. DOMAIN t = DOMAIN page /\ \A p \in DOMAIN page : p # Top => t[p] = page[p]
  BY <1>1 DEF With
<1>4. page' = With(With(t, Top, left), NewPage, right)
  <2>1. page' = With(With(page, Top, left), NewPage, right)
    BY PageSteps
  <2>2. With(t, Top, left) = With(page, Top, left)
    BY WithTwice
  <2> QED
    BY <2>1, <2>2
<1>5. pend' = {[sep |-> sep, page |-> NewPage]}
  BY DEF Split
<1>6. CASE path' = << >>
  <2>1. Top = Root
    BY <1>6, ShorterPath
  <2>2. Numbered(t)
    BY <1>1, <1>3 DEF Numbered
  <2>3. NewPage = Cardinality(DOMAIN t) + 1
    BY <1>2, <1>3
  <2>4. WellFormed(Grown(page', [sep |-> sep, page |-> NewPage]))
    <3>1. Halving(t, Root, NewPage, sep, left, right)
      BY <2>1
    <3>2. page' = With(With(t, Root, left), NewPage, right)
      BY <1>4, <2>1
    <3> QED
      BY <2>2, <2>3, <3>1, <3>2, SplitRoot
  <2> QED
    BY <1>5, <1>6, <2>4
<1>7. CASE path' # << >>
  <2>1. Top' \in Inner(page) /\ Top \in Kids(page[Top']) /\ Top # Top' /\ Top' \in Pages
    BY <1>7, ShorterPath
  <2>2. Top' \in Inner(t) /\ Top \in Kids(t[Top'])
    BY <1>1, <1>3, <2>1 DEF Inner
  <2>3. PICK q : q = Top'
    OBVIOUS
  <2>4. q \in Inner(t) /\ Top \in Kids(t[q]) /\ Top # q
    BY <2>1, <2>2, <2>3
  <2>5. NewPage \notin DOMAIN t
    BY <1>1, <1>2, <1>3
  <2>6. WellFormed(Joined(page', q, [sep |-> sep, page |-> NewPage]))
    BY <1>2, <1>4, <2>4, <2>5, SplitInside
  <2> QED
    BY <1>5, <1>7, <2>3, <2>6
<1> QED
  BY <1>6, <1>7

LEMMA SplitSeparators ==
  ASSUME TypeInv, path # << >>, SeparatorsIn(page),
         NEW sep, NEW left, NEW right, Split(sep, left, right),
         left.leaf \/ InteriorFits(left.cells), right.leaf \/ InteriorFits(right.cells)
  PROVE  SeparatorsIn(page')
<1>1. Top \in DOMAIN page /\ page' = With(With(page, Top, left), NewPage, right)
  BY TopIs, PageSteps DEF Pages
<1>2. ASSUME NEW q \in Inner(page') PROVE InteriorFits(page'[q].cells)
  <2>1. q \in DOMAIN page' /\ ~page'[q].leaf
    BY DEF Inner
  <2>2. page'[q] = IF q = NewPage THEN right ELSE IF q = Top THEN left ELSE page[q]
    BY <1>1, <2>1 DEF With
  <2>3. q # NewPage /\ q # Top => q \in Inner(page)
    BY <1>1, <2>1, <2>2 DEF With, Inner
  <2> QED
    BY <2>1, <2>2, <2>3 DEF SeparatorsIn
<1> QED
  BY <1>2 DEF SeparatorsIn

LEMMA SplitLeafShape ==
  ASSUME TypeInv, Shaped, SplitLeaf
  PROVE  Shaped'
<1>1. /\ path # << >> /\ node.leaf = TRUE /\ key \in Key /\ val \in Val /\ op = "insert" /\ pend = {}
      /\ ~TooLarge /\ ~LeafFits(With(node.cells, key, val))
  BY SplitLeafIs, TopIs
<1>2. PICK all, sep, cl, cr :
        /\ all = With(node.cells, key, val)
        /\ sep = Median(DOMAIN all)
        /\ Packed(all, Below(DOMAIN all, sep), cl, Val)
        /\ Packed(all, From(DOMAIN all, sep), cr, Val)
        /\ Split(sep, Leaf(cl, NewPage, Below(node.span, sep)),
                      Leaf(cr, node.extra, From(node.span, sep)))
  BY SplitLeafIs
<1> DEFINE left == Leaf(cl, NewPage, Below(node.span, sep))
           right == Leaf(cr, node.extra, From(node.span, sep))
<1>3. /\ Top \in DOMAIN page /\ node = page[Top] /\ page = With(page, Top, page[Top]) /\ WellFormed(page)
      /\ Top \in Outer(page) /\ Len(path) \in 1 .. Len(path)
  <2>1. Top \in DOMAIN page /\ node = page[Top] /\ page = [p \in DOMAIN page |-> page[p]]
    BY <1>1, TopIs DEF TypeInv, PagesInv, IsTree, Pages
  <2>2. page = With(page, Top, page[Top])
    BY <2>1, WithTwice
  <2> QED
    BY <1>1, <2>1, <2>2, TopIs DEF Shaped, Outer
<1>4. key \in node.span
  BY <1>1, <1>3 DEF Shaped, PathInv, Top, node
<1>5. KeySize[key] + ValSize[val] <= Room
  <2>1. KeySize[key] \in Nat /\ ValSize[val] \in Nat /\ Room \in Nat
    BY <1>1, BTreeAssumption
  <2>2. ~ (KeySize[key] + ValSize[val] > Room)
    BY <1>1 DEF TooLarge
  <2> QED
    BY <2>1, <2>2
<1>6. Halving(page, Top, NewPage, sep, left, right)
  <2>1. PICK n : n = page[Top]
    OBVIOUS
  <2>2. /\ Top \in Outer(page) /\ WellFormed(page) /\ key \in page[Top].span /\ val \in Val
        /\ all = With(page[Top].cells, key, val) /\ ~LeafFits(all) /\ sep = Median(DOMAIN all)
    BY <1>1, <1>2, <1>3, <1>4
  <2>3. Halving(page, Top, NewPage, sep, Leaf(cl, NewPage, Below(page[Top].span, sep)),
                                         Leaf(cr, page[Top].extra, From(page[Top].span, sep)))
    BY <1>2, <1>5, <2>2, HalveLeaf
  <2> QED
    BY <1>3, <2>3
<1>7. left.leaf = TRUE /\ right.leaf = TRUE
  BY LeafFields
<1>8. Split(sep, left, right) /\ PathInv /\ SeparatorsIn(page)
  BY <1>2 DEF Shaped
<1> HIDE DEF left, right
<1>9. \A s \in pend' : WellFormed(IF path' = << >> THEN Grown(page', s) ELSE Joined(page', Top', s))
  BY <1>1, <1>3, <1>6, <1>8, SplitShape
<1>10. SeparatorsIn(page')
  BY <1>1, <1>7, <1>8, SplitSeparators
<1>11. PathInv'
  BY <1>1, <1>8, ShorterPath
<1>12. pend' # {} /\ op' # "scan"
  BY <1>1, <1>8 DEF Split
<1> QED
  BY <1>9, <1>10, <1>11, <1>12 DEF Shaped

LEMMA SplitInteriorShape ==
  ASSUME TypeInv, Shaped, SplitInterior, SeparatorsFit
  PROVE  Shaped'
<1>1. path # << >> /\ node.leaf = FALSE /\ op = "insert"
  BY SplitInteriorIs, TopIs
<1>2. PICK s, all, sep, cl, cr :
        /\ s \in pend /\ all = With(node.cells, s.sep, s.page) /\ IsCells(all, Pages) /\ ~InteriorFits(all)
        /\ sep = Median(DOMAIN all) /\ sep \in DOMAIN all
        /\ InteriorFits(Only(all, Below(DOMAIN all, sep))) => cl = Only(all, Below(DOMAIN all, sep))
        /\ InteriorFits(Only(all, Above(DOMAIN all, sep))) => cr = Only(all, Above(DOMAIN all, sep))
        /\ Split(sep, Interior(cl, node.extra, Below(node.span, sep)),
                      Interior(cr, all[sep], From(node.span, sep)))
  BY SplitInteriorIs
<1> DEFINE A == DOMAIN all
           left == Interior(cl, node.extra, Below(node.span, sep))
           right == Interior(cr, all[sep], From(node.span, sep))
           t == Joined(page, Top, s)
<1>3. /\ Top \in DOMAIN page /\ node = page[Top] /\ Top \in Inner(page) /\ IsTree(page)
      /\ DOMAIN node.cells \subseteq Key
  BY <1>1, TopIs DEF TypeInv, PagesInv, Inner, Pages
<1>4. A = DOMAIN node.cells \cup {s.sep} /\ A \subseteq Key /\ IsFiniteSet(A)
  BY <1>2 DEF With, IsCells
<1>5. Fits(SepSize, A \ {s.sep})
  <2>1. Fits(SepSize, DOMAIN node.cells) /\ ~Fits(SepSize, A)
    BY <1>2, <1>3 DEF Shaped, SeparatorsIn, InteriorFits
  <2>2. s.sep \notin DOMAIN node.cells
    <3> SUFFICES ASSUME s.sep \in DOMAIN node.cells PROVE FALSE
      OBVIOUS
    <3>1. A = DOMAIN node.cells
      BY <1>4
    <3> HIDE DEF A
    <3> QED
      BY <2>1, <3>1
  <2>3. A \ {s.sep} = DOMAIN node.cells
    BY <1>4, <2>2
  <2> HIDE DEF A
  <2> QED
    BY <2>1, <2>3
<1>6. Fits(SepSize, Below(A, sep)) /\ Fits(SepSize, Above(A, sep))
  <2>1. s.sep \in A /\ sep = Median(A)
    BY <1>2, <1>4
  <2> HIDE DEF A
  <2> QED
    BY <1>4, <1>5, <2>1 DEF SeparatorsFit
<1>7. cl = Only(all, Below(A, sep)) /\ cr = Only(all, Above(A, sep))
      /\ InteriorFits(cl) /\ InteriorFits(cr)
  <2>1. DOMAIN Only(all, Below(A, sep)) = A \cap Below(A, sep)
        /\ DOMAIN Only(all, Above(A, sep)) = A \cap Above(A, sep)
    BY DEF Only
  <2>2. A \cap Below(A, sep) = Below(A, sep) /\ A \cap Above(A, sep) = Above(A, sep)
    BY PartsSubset
  <2>3. InteriorFits(Only(all, Below(A, sep))) /\ InteriorFits(Only(all, Above(A, sep)))
    BY <1>6, <2>1, <2>2 DEF InteriorFits
  <2> QED
    BY <1>2, <2>3
<1>8. /\ WellFormed(t) /\ t = With(page, Top, AddSep(page[Top], s)) /\ Top \in Inner(t)
      /\ t[Top].cells = all /\ t[Top].extra = node.extra /\ t[Top].span = node.span
  <2>1. WellFormed(t)
    <3>1. s \in pend
      BY <1>2
    <3> QED
      BY <1>1, <3>1 DEF Shaped
  <2>2. t = With(page, Top, AddSep(page[Top], s)) /\ t[Top] = AddSep(node, s) /\ Top \in DOMAIN t
    BY <1>3 DEF Joined, With
  <2>3. /\ AddSep(node, s).leaf = FALSE /\ AddSep(node, s).cells = all
        /\ AddSep(node, s).extra = node.extra /\ AddSep(node, s).span = node.span
    BY <1>2 DEF AddSep, Interior
  <2> HIDE DEF t
  <2> QED
    BY <2>1, <2>2, <2>3 DEF Inner
<1> HIDE DEF t
<1>9. Halving(t, Top, NewPage, sep, left, right)
  <2>1. left = Interior(Only(t[Top].cells, Below(DOMAIN t[Top].cells, sep)),
                        t[Top].extra, Below(t[Top].span, sep))
    BY <1>7, <1>8
  <2>2. right = Interior(Only(t[Top].cells, Above(DOMAIN t[Top].cells, sep)),
                         t[Top].cells[sep], From(t[Top].span, sep))
    BY <1>7, <1>8
  <2>3. sep \in DOMAIN t[Top].cells
    BY <1>2, <1>8
  <2> HIDE DEF left, right
  <2> QED
    BY <1>8, <2>1, <2>2, <2>3, HalveInterior
<1>10. left.cells = cl /\ right.cells = cr
  BY DEF Interior
<1>11. Split(sep, left, right) /\ PathInv /\ SeparatorsIn(page)
  BY <1>2 DEF Shaped
<1> HIDE DEF left, right
<1>12. \A x \in pend' : WellFormed(IF path' = << >> THEN Grown(page', x) ELSE Joined(page', Top', x))
  BY <1>1, <1>8, <1>9, <1>11, SplitShape
<1>13. SeparatorsIn(page')
  BY <1>1, <1>7, <1>10, <1>11, SplitSeparators
<1>14. PathInv'
  BY <1>1, <1>11, ShorterPath
<1>15. pend' # {} /\ op' # "scan"
  BY <1>1, <1>11 DEF Split
<1> QED
  BY <1>12, <1>13, <1>14, <1>15 DEF Shaped

-----------------------------------------------------------------------------
(* The other steps.                                                        *)

LEMMA ReturnShape ==
  ASSUME NEW m, Return(m), WellFormed(page'), SeparatorsIn(page')
  PROVE  Shaped'
<1>1. op' = "none" /\ path' = << >> /\ pend' = {}
  BY DEF Return, NoCall
<1>2. PathInv'
  BY <1>1 DEF PathInv
<1> QED
  BY <1>1, <1>2 DEF Shaped

\* A call that begins, or begins again, at the root.
LEMMA RootShape ==
  ASSUME WellFormed(page'), SeparatorsIn(page'), path' = <<Root>>, pend' = {}, op' # "scan",
         op' # "first" => key' \in Key
  PROVE  Shaped'
<1>1. page'[Root].span = Key
  BY DEF WellFormed
<1>2. \A i, j \in 1 .. Len(path') : i = 1 /\ j = 1
  OBVIOUS
<1>3. path'[1] = Root /\ path' # << >>
  OBVIOUS
<1>4. PathInv'
  BY <1>1, <1>2, <1>3 DEF PathInv
<1> QED
  BY <1>4 DEF Shaped

\* A leaf written with cells of its own span.
LEMMA WrittenLeaf ==
  ASSUME TypeInv, path # << >>, node.leaf, WellFormed(page), SeparatorsIn(page), IsTree(page'),
         NEW c, DOMAIN c \subseteq node.span,
         page' = With(page, Top, Leaf(c, node.extra, node.span))
  PROVE  WellFormed(page') /\ SeparatorsIn(page')
<1> DEFINE n == Leaf(c, node.extra, node.span)
<1>1. Top \in DOMAIN page /\ node = page[Top] /\ node.leaf = TRUE
  BY TopIs DEF Pages
<1>2. n.leaf = TRUE /\ n.extra = node.extra /\ n.span = node.span /\ n.cells = c
  BY DEF Leaf
<1> HIDE DEF n
<1>3. DOMAIN page' = DOMAIN page /\ page'[Top] = n /\ \A p \in DOMAIN page : p # Top => page'[p] = page[p]
  BY <1>1 DEF With, n
<1>4. ASSUME NEW p \in DOMAIN page
      PROVE  /\ page'[p].leaf = page[p].leaf /\ page'[p].extra = page[p].extra
             /\ page'[p].span = page[p].span
             /\ IF page[p].leaf THEN DOMAIN page'[p].cells \subseteq page[p].span ELSE page'[p] = page[p]
  <2>1. CASE p = Top
    BY <1>1, <1>2, <1>3, <2>1
  <2>2. CASE p # Top
    <3>1. page[p].leaf => DOMAIN page[p].cells \subseteq page[p].span
      BY DEF WellFormed, LeafSpans, Outer
    <3> QED
      BY <1>3, <2>2, <3>1
  <2> QED
    BY <2>1, <2>2
<1>5. PICK u : u = page'
  OBVIOUS
<1>6. WellFormed(u)
  BY <1>3, <1>4, <1>5, SameShape
<1>7. SeparatorsIn(page')
  BY <1>3, <1>4 DEF SeparatorsIn, Inner
<1> QED
  BY <1>5, <1>6, <1>7

LEMMA LeafShape ==
  ASSUME TypeInv, TypeInv', Shaped, InsertInLeaf \/ DeleteFromLeaf \/ UpdateFromLeaf
  PROVE  Shaped'
<1>1. path # << >> /\ node.leaf /\ pend = {} /\ WellFormed(page) /\ SeparatorsIn(page)
  BY DEF TypeInv, PathTypes, Shaped, InsertInLeaf, DeleteFromLeaf, UpdateFromLeaf, AtLeaf
<1>2. Top \in Outer(page) /\ node = page[Top] /\ Len(path) \in 1 .. Len(path) /\ IsTree(page')
  BY <1>1, TopIs DEF Outer, Pages, TypeInv, PagesInv
<1>3. DOMAIN node.cells \subseteq node.span
  BY <1>1, <1>2 DEF WellFormed, LeafSpans
<1>4. key \in node.span
  <2>1. op \in {"insert", "delete", "update"}
    BY DEF InsertInLeaf, DeleteFromLeaf, UpdateFromLeaf, AtLeaf
  <2> QED
    BY <1>1, <1>2, <2>1 DEF Shaped, PathInv, Top, node
<1>5. WellFormed(page') /\ SeparatorsIn(page')
  <2>1. CASE page' = page
    BY <1>1, <2>1
  <2>2. CASE page' = With(page, Top, Leaf(With(node.cells, key, val), node.extra, node.span))
    <3>1. DOMAIN With(node.cells, key, val) \subseteq node.span
      BY <1>3, <1>4 DEF With
    <3> QED
      BY <1>1, <1>2, <2>2, <3>1, WrittenLeaf
  <2>3. CASE page' = With(page, Top, Leaf(Without(node.cells, key), node.extra, node.span))
    <3>1. DOMAIN Without(node.cells, key) \subseteq node.span
      BY <1>3 DEF Without
    <3> QED
      BY <1>1, <1>2, <2>3, <3>1, WrittenLeaf
  <2> QED
    BY <1>1, <2>1, <2>2, <2>3, PageSteps
<1>6. CASE Return("txn")
  BY <1>5, <1>6, ReturnShape
<1>7. CASE path' = <<Root>> /\ op' = "insert" /\ UNCHANGED <<key, pend>>
  <2>1. key' \in Key
    BY <1>7 DEF TypeInv, CallInv
  <2> QED
    BY <1>1, <1>5, <1>7, <2>1, RootShape
<1> QED
  BY <1>6, <1>7 DEF InsertInLeaf, DeleteFromLeaf, UpdateFromLeaf, args

LEMMA ParentShape ==
  ASSUME TypeInv, Shaped, InsertInParent
  PROVE  Shaped'
<1>1. path # << >> /\ ~node.leaf /\ Return("txn")
  BY DEF TypeInv, PathTypes, InsertInParent
<1>2. PICK s \in pend : InteriorFits(With(node.cells, s.sep, s.page)) /\ page' = Joined(page, Top, s)
  BY <1>1, PageSteps
<1>3. WellFormed(page')
  BY <1>1, <1>2 DEF Shaped
<1>4. Top \in DOMAIN page /\ node = page[Top] /\ Top \in Inner(page)
  BY <1>1, TopIs DEF Pages, Inner
<1>5. ASSUME NEW q \in Inner(page') PROVE InteriorFits(page'[q].cells)
  <2>1. CASE q = Top
    <3>1. page'[Top] = AddSep(node, s)
      BY <1>2, <1>4 DEF Joined, With
    <3>2. AddSep(node, s).cells = With(node.cells, s.sep, s.page)
      BY DEF AddSep, Interior
    <3> QED
      BY <1>2, <2>1, <3>1, <3>2
  <2>2. CASE q # Top
    <3>1. q \in Inner(page) /\ page'[q] = page[q]
      BY <1>2, <1>4, <2>2 DEF Joined, With, Inner
    <3> QED
      BY <3>1 DEF Shaped, SeparatorsIn
  <2> QED
    BY <2>1, <2>2
<1>6. SeparatorsIn(page')
  BY <1>5 DEF SeparatorsIn
<1> QED
  BY <1>1, <1>3, <1>6, ReturnShape

LEMMA GrowShape ==
  ASSUME TypeInv, Shaped, GrowRoot, SeparatorsFit
  PROVE  Shaped'
<1>1. path = << >> /\ Return("txn")
  BY DEF GrowRoot
<1>2. PICK s \in pend : page' = Grown(page, s)
  BY GrowStep
<1>3. WellFormed(page')
  BY <1>1, <1>2 DEF Shaped
<1> DEFINE new == Cardinality(DOMAIN page) + 1
           top == Interior(With(<< >>, s.sep, s.page), new, Key)
<1>4. /\ new \notin DOMAIN page /\ Root \in DOMAIN page /\ new # Root /\ s.sep \in Key
      /\ page' = With(With(page, Root, top), new, page[Root])
  BY <1>2, NewPageIs DEF TypeInv, PagesInv, PathTypes, Grown
<1>5. InteriorFits(top.cells)
  <2>1. top.cells = With(<< >>, s.sep, s.page)
    BY DEF Interior
  <2>2. DOMAIN top.cells = {s.sep}
    BY <2>1 DEF With
  <2> HIDE DEF top
  <2> QED
    BY <1>4, <2>2 DEF SeparatorsFit, InteriorFits
<1> HIDE DEF new, top
<1>6. ASSUME NEW q \in Inner(page') PROVE InteriorFits(page'[q].cells)
  <2>1. CASE q = Root
    BY <1>4, <1>5, <2>1 DEF With
  <2>2. CASE q = new
    <3>1. page'[q] = page[Root] /\ Root \in Inner(page)
      BY <1>4, <2>2 DEF With, Inner
    <3> QED
      BY <3>1 DEF Shaped, SeparatorsIn
  <2>3. CASE q # Root /\ q # new
    <3>1. page'[q] = page[q] /\ q \in Inner(page)
      BY <1>4, <2>3 DEF With, Inner
    <3> QED
      BY <3>1 DEF Shaped, SeparatorsIn
  <2> QED
    BY <2>1, <2>2, <2>3
<1>7. SeparatorsIn(page')
  BY <1>6 DEF SeparatorsIn
<1> QED
  BY <1>1, <1>3, <1>7, ReturnShape

LEMMA DescendShape ==
  ASSUME TypeInv, Shaped, Descend
  PROVE  Shaped'
<1>1. PICK c \in Kids(node) :
        /\ c = IF op = "first" THEN node.extra ELSE ChildPage(node, key)
        /\ path' = Append(path, c) /\ path # << >> /\ ~node.leaf /\ pend = {}
        /\ op \notin {"none", "scan"} /\ (op # "first" => key \in Key)
        /\ UNCHANGED <<page, key, op, pend>>
  BY DescendTypes
<1> DEFINE l == Len(path)
<1>2. /\ Top \in Inner(page) /\ node = page[Top] /\ Top = path[l] /\ l \in Nat \ {0} /\ l \in 1 .. l
      /\ IsTree(page)
  BY <1>1, TopIs DEF Inner, Pages, Top, TypeInv, PagesInv
<1>3. WellFormed(page) /\ OneParent(page) /\ Routes(page)
  BY <1>1 DEF Shaped, WellFormed
<1>4. Len(path') = l + 1 /\ path'[l + 1] = c /\ \A i \in 1 .. l : path'[i] = path[i] /\ path[i] \in DOMAIN page
  BY <1>1 DEF TypeInv, PathTypes, Pages
<1>5. /\ path[1] = Root
      /\ \A i, j \in 1 .. l : /\ path[i] = path[j] => i = j
                              /\ j = i + 1 => path[j] = IF op = "first" THEN page[path[i]].extra
                                                        ELSE ChildPage(page[path[i]], key)
                              /\ op # "first" => key \in page[path[i]].span
  BY <1>1 DEF Shaped, PathInv
<1>6. ASSUME NEW i \in 1 .. l PROVE path[i] # c
  <2>1. CASE i = 1
    BY <1>2, <1>3, <1>5, <2>1 DEF OneParent
  <2>2. CASE i # 1
    <3>1. PICK n \in Nat : n = i - 1 /\ n <= i /\ i = n + 1
      BY <1>2, <2>2, Predecessor
    <3>2. n \in 1 .. l /\ i \in 1 .. l /\ n < l /\ n # l /\ i = n + 1
      BY <1>2, <2>2, <3>1
    <3>3. path[n] \in Inner(page)
      BY <1>4, <3>2 DEF TypeInv, PathTypes, Inner
    <3>4. path[i] \in Kids(page[path[n]])
      <4>1. path[i] = IF op = "first" THEN page[path[n]].extra ELSE ChildPage(page[path[n]], key)
        BY <1>5, <3>2
      <4>2. op # "first" => ChildPage(page[path[n]], key) \in Kids(page[path[n]])
        BY <1>1, <1>2, <1>4, <3>2, NodeIn, ChildPageIs
      <4> QED
        BY <4>1, <4>2 DEF Kids
    <3>5. path[n] # Top
      BY <1>2, <1>5, <3>2
    <3> QED
      BY <1>1, <1>2, <1>3, <3>3, <3>4, <3>5 DEF OneParent
  <2> QED
    BY <2>1, <2>2
<1>7. op # "first" => key \in page[c].span
  <2>1. op # "first" => key \in page[Top].span /\ c = ChildPage(page[Top], key)
    BY <1>1, <1>2, <1>5
  <2>2. page[c].span = {k \in page[Top].span : ChildPage(page[Top], k) = c}
    BY <1>1, <1>2, <1>3 DEF Routes
  <2> QED
    BY <2>1, <2>2
<1>8. ASSUME NEW i \in 1 .. Len(path'), NEW j \in 1 .. Len(path')
      PROVE  /\ path'[i] = path'[j] => i = j
             /\ j = i + 1 => path'[j] = IF op = "first" THEN page[path'[i]].extra
                                        ELSE ChildPage(page[path'[i]], key)
             /\ op # "first" => key \in page[path'[i]].span
  <2>1. /\ i \in 1 .. l \/ (i = l + 1 /\ i \notin 1 .. l)
        /\ j \in 1 .. l \/ (j = l + 1 /\ j \notin 1 .. l)
    BY <1>2, <1>4
  <2>2. path'[i] = path'[j] => i = j
    BY <1>4, <1>5, <1>6, <2>1
  <2>3. ASSUME j = i + 1
        PROVE  path'[j] = IF op = "first" THEN page[path'[i]].extra ELSE ChildPage(page[path'[i]], key)
    <3>1. CASE j \in 1 .. l
      <4>1. i \in 1 .. l
        BY <1>2, <2>1, <2>3, <3>1
      <4> QED
        BY <1>4, <1>5, <2>3, <3>1, <4>1
    <3>2. CASE j = l + 1
      <4>1. i \in Int /\ l \in Int /\ l + 1 = i + 1
        BY <1>2, <2>1, <2>3, <3>2
      <4> HIDE DEF l
      <4>2. i = l
        BY <4>1
      <4> QED
        BY <1>1, <1>2, <1>4, <3>2, <4>2 DEF l
    <3> QED
      BY <2>1, <3>1, <3>2
  <2>4. op # "first" => key \in page[path'[i]].span
    BY <1>4, <1>5, <1>7, <2>1
  <2> QED
    BY <2>2, <2>3, <2>4
<1>9. path'[1] = Root
  <2>1. 1 \in 1 .. l
    BY <1>2
  <2> QED
    BY <1>4, <1>5, <2>1
<1>10. PathInv'
  BY <1>1, <1>8, <1>9 DEF PathInv
<1> QED
  BY <1>1, <1>10 DEF Shaped

LEMMA CursorShape ==
  ASSUME TypeInv, Shaped, SeekInLeaf \/ NextCell \/ NextLeaf \/ NextEnd
  PROVE  Shaped'
<1>1. /\ page' = page /\ pend' = {} /\ pend = {} /\ op' = "scan" /\ path # << >>
      /\ SeekInLeaf \/ op = "scan"
  BY DEF SeekInLeaf, NextCell, NextLeaf, NextEnd, AtLeaf, TypeInv, PathTypes, store
<1>2. WellFormed(page') /\ SeparatorsIn(page') /\ PathInv'
  BY <1>1 DEF Shaped, PathInv
<1>3. node.leaf /\ Top \in Outer(page) /\ node = page[Top]
  BY <1>1, TopIs DEF Shaped, SeekInLeaf, AtLeaf, Outer, Pages
<1>4. CASE NextLeaf
  <2>1. node.extra # 0 /\ path' = <<node.extra>>
    BY <1>4 DEF NextLeaf
  <2>2. node.extra \in Outer(page)
    BY <1>1, <1>3, <2>1 DEF Shaped, WellFormed, Chain
  <2>3. node'.leaf
    <3>1. Top' = node.extra
      BY <2>1 DEF Top
    <3> QED
      BY <1>1, <2>2, <3>1 DEF node, Outer
  <2> QED
    BY <1>1, <1>2, <2>3 DEF Shaped
<1>5. CASE SeekInLeaf \/ NextCell \/ NextEnd
  <2>1. path' = path
    BY <1>5 DEF SeekInLeaf, NextCell, NextEnd
  <2>2. node' = node
    BY <1>1, <2>1 DEF node, Top
  <2> QED
    BY <1>1, <1>2, <1>3, <2>2 DEF Shaped
<1> QED
  BY <1>4, <1>5

LEMMA InitShape == Init => ShapeInv
<1> SUFFICES ASSUME Init PROVE ShapeInv
  OBVIOUS
<1>1. page = <<Leaf(<< >>, 0, Key)>> /\ disk = page /\ op = "none" /\ path = << >> /\ pend = {}
  BY DEF Init
<1>2. DOMAIN page = {Root} /\ page[Root] = Leaf(<< >>, 0, Key)
  BY <1>1 DEF Root
<1>3. /\ page[Root].leaf = TRUE /\ page[Root].cells = << >> /\ page[Root].extra = 0
      /\ page[Root].span = Key /\ Key # {} /\ \A k \in Key : k \in Int
  BY <1>2, BTreeAssumption DEF Leaf
<1>4. Inner(page) = {} /\ Outer(page) = {Root}
  BY <1>2, <1>3 DEF Inner, Outer
<1>5. IsTree(page)
  BY InitTypes DEF TypeInv, PagesInv
<1>6. LeafSpans(page)
  BY <1>3, <1>4 DEF LeafSpans
<1>7. Chain(page)
  <2>1. \A k \in Key : ~ (k < k)
    BY <1>3
  <2> QED
    BY <1>3, <1>4, <2>1 DEF Chain
<1>8. WellFormed(page)
  BY <1>2, <1>3, <1>4, <1>5, <1>6, <1>7 DEF WellFormed, Routes, OneParent
<1>9. SeparatorsIn(page) /\ PathInv
  BY <1>1, <1>4 DEF SeparatorsIn, PathInv
<1> QED
  BY <1>1, <1>8, <1>9 DEF ShapeInv, Shaped

LEMMA NextShape == SeparatorsFit /\ TypeInv /\ TypeInv' /\ ShapeInv /\ [Next]_vars => ShapeInv'
<1> SUFFICES ASSUME SeparatorsFit, TypeInv, TypeInv', ShapeInv, [Next]_vars PROVE ShapeInv'
  OBVIOUS
<1>0. WellFormed(disk) /\ SeparatorsIn(disk) /\ (mode # "failed" => Shaped)
  BY DEF ShapeInv
<1>1. ASSUME Shaped', UNCHANGED disk PROVE ShapeInv'
  BY <1>0, <1>1 DEF ShapeInv
<1>2. op # "none" => mode # "failed" /\ Shaped
  BY <1>0 DEF TypeInv, CallInv
<1>3. CASE \E o, k, v : Start(o, k, v) /\ (o # "first" => k \in Key) /\ o # "scan"
  <2>1. PICK o, k, v : Start(o, k, v) /\ (o # "first" => k \in Key) /\ o # "scan"
    BY <1>3
  <2>2. /\ mode = "txn" /\ op = "none" /\ page' = page /\ disk' = disk /\ pend' = pend
        /\ path' = <<Root>> /\ op' = o /\ key' = k
    BY <2>1 DEF Start, store
  <2>3. pend = {} /\ Shaped
    BY <1>0, <2>2 DEF TypeInv, PathTypes
  <2>4. WellFormed(page') /\ SeparatorsIn(page')
    BY <2>2, <2>3 DEF Shaped
  <2>5. Shaped'
    BY <2>1, <2>2, <2>3, <2>4, RootShape
  <2> QED
    BY <1>1, <2>2, <2>5
<1>4. CASE InsertInLeaf \/ DeleteFromLeaf \/ UpdateFromLeaf
  <2>1. op # "none" /\ UNCHANGED disk
    BY <1>4 DEF InsertInLeaf, DeleteFromLeaf, UpdateFromLeaf, AtLeaf
  <2> QED
    BY <1>1, <1>2, <1>4, <2>1, LeafShape
<1>5. CASE SplitLeaf
  <2>1. op # "none" /\ UNCHANGED disk
    BY <1>5 DEF SplitLeaf, AtLeaf, Split
  <2> QED
    BY <1>1, <1>2, <1>5, <2>1, SplitLeafShape
<1>6. CASE SplitInterior
  <2>1. op # "none" /\ UNCHANGED disk
    BY <1>6 DEF SplitInterior, Split
  <2> QED
    BY <1>1, <1>2, <1>6, <2>1, SplitInteriorShape
<1>7. CASE InsertInParent
  <2>1. op # "none" /\ UNCHANGED disk
    BY <1>7 DEF InsertInParent
  <2> QED
    BY <1>1, <1>2, <1>7, <2>1, ParentShape
<1>8. CASE GrowRoot
  <2>1. op # "none" /\ UNCHANGED disk
    BY <1>8 DEF GrowRoot
  <2> QED
    BY <1>1, <1>2, <1>8, <2>1, GrowShape
<1>9. CASE Descend
  <2>1. op # "none" /\ UNCHANGED disk
    BY <1>9, DescendTypes
  <2> QED
    BY <1>1, <1>2, <1>9, <2>1, DescendShape
<1>10. CASE GetFromLeaf \/ CloseCursor
  <2>1. op # "none" /\ pend = {} /\ page' = page /\ disk' = disk /\ Return("txn")
    BY <1>10 DEF GetFromLeaf, CloseCursor, AtLeaf, store, TypeInv, PathTypes
  <2>2. WellFormed(page') /\ SeparatorsIn(page')
    BY <1>2, <2>1 DEF Shaped
  <2> QED
    BY <1>1, <2>1, <2>2, ReturnShape
<1>11. CASE InsertTooLarge \/ Fail
  <2>1. disk' = disk /\ mode' = "failed"
    BY <1>11 DEF InsertTooLarge, Fail, Return, store
  <2> QED
    BY <1>0, <2>1 DEF ShapeInv
<1>12. CASE SeekInLeaf \/ NextCell \/ NextLeaf \/ NextEnd
  <2>1. op # "none" /\ UNCHANGED disk
    BY <1>12 DEF SeekInLeaf, NextCell, NextLeaf, NextEnd, AtLeaf, store
  <2> QED
    BY <1>1, <1>2, <1>12, <2>1, CursorShape
<1>13. CASE Begin
  <2>1. mode = "idle" /\ UNCHANGED <<page, disk, key, op, path, pend>>
    BY <1>13 DEF Begin, store, args
  <2>2. Shaped'
    BY <1>0, <2>1 DEF Shaped, PathInv, node, Top
  <2> QED
    BY <1>1, <2>1, <2>2
<1>14. CASE Commit
  <2>1. mode = "txn" /\ UNCHANGED <<page, key, op, path, pend>> /\ op = "none"
    BY <1>14 DEF Commit, args
  <2>2. Shaped /\ pend = {}
    BY <1>0, <2>1 DEF TypeInv, PathTypes
  <2>3. Shaped'
    BY <2>1, <2>2 DEF Shaped, PathInv, node, Top
  <2>4. disk' = page
    <3>1. page = [p \in DOMAIN page |-> page[p]]
      BY DEF TypeInv, PagesInv, IsTree
    <3>2. \A p \in DOMAIN page : p \notin captured => page[p] = disk[p]
      BY DEF TypeInv, PagesInv, Synced, Pages
    <3> QED
      BY <1>14, <3>1, <3>2 DEF Commit
  <2>5. WellFormed(disk') /\ SeparatorsIn(disk')
    BY <2>2, <2>4 DEF Shaped
  <2> QED
    BY <2>3, <2>5 DEF ShapeInv
<1>15. CASE Restore
  <2>1. page' = disk /\ disk' = disk /\ op' = "none" /\ path' = << >> /\ pend' = {}
    BY <1>15 DEF Restore, NoCall
  <2>2. PathInv'
    BY <2>1 DEF PathInv
  <2>3. Shaped'
    BY <1>0, <2>1, <2>2 DEF Shaped
  <2> QED
    BY <1>1, <2>1, <2>3
<1>16. CASE UNCHANGED vars
  <2>1. UNCHANGED <<page, disk, key, op, path, pend, mode>>
    BY <1>16 DEF vars, store, args
  <2>2. Shaped => Shaped'
    BY <2>1 DEF Shaped, PathInv, node, Top
  <2> QED
    BY <1>0, <2>1, <2>2 DEF ShapeInv
<1>17. CASE \E k \in Key : Delete(k) \/ Get(k) \/ Seek(k) \/ \E v \in Val : Update(k, v)
  BY <1>3, <1>17 DEF Delete, Get, Seek, Update
<1>18. CASE Cursor \/ \E k \in Key, v \in Val : Insert(k, v)
  BY <1>3, <1>18 DEF Insert, Cursor
<1> QED
  BY <1>4, <1>5, <1>6, <1>7, <1>8, <1>9, <1>10, <1>11, <1>12, <1>13, <1>14, <1>15, <1>16, <1>17, <1>18
  DEF Next, Shared, Working

-----------------------------------------------------------------------------
(* What the shape gives a reader of the tree.                              *)

\* f leads from the leaves at hand to those of the whole tree.
LEMMA LeavesSeen ==
  ASSUME NEW t, WellFormed(t), NEW f,
         \A p \in Leaves : /\ f[p] \in Outer(t) /\ page[p] = t[f[p]]
                           /\ page[p].extra # 0 => /\ page[p].extra \in Pages
                                                   /\ page[page[p].extra] = t[page[p].extra],
         \A p, q \in Leaves : f[p] = f[q] => p = q
  PROVE  /\ \A p \in Leaves : DOMAIN page[p].cells \subseteq page[p].span
         /\ \A p, q \in Leaves : p # q => page[p].span \cap page[q].span = {}
         /\ Chained
<1>1. LeafSpans(t) /\ Chain(t) /\ IsTree(t) /\ \A x : x \in Key => x \in Int
  BY BTreeAssumption DEF WellFormed
<1>2. \A p \in Leaves : DOMAIN page[p].cells \subseteq page[p].span
  BY <1>1 DEF LeafSpans
<1>3. \A p, q \in Leaves : p # q => page[p].span \cap page[q].span = {}
  BY <1>1 DEF LeafSpans
<1>4. SUFFICES ASSUME NEW p \in Leaves
               PROVE  LET later == {k \in Key : \A j \in page[p].span : j < k}
                          q == page[p].extra
                      IN  IF q = 0 THEN later = {}
                          ELSE q \in Leaves /\ page[q].span # {} /\ First(page[q].span) = First(later)
  BY <1>2, <1>3 DEF Chained
<1> DEFINE later == {k \in Key : \A j \in page[p].span : j < k}
           q == page[p].extra
<1>5. f[p] \in Outer(t) /\ page[p] = t[f[p]]
  OBVIOUS
<1>6. CASE q = 0
  <2>1. \A k \in Key : \E j \in page[p].span : ~ (j < k)
    BY <1>1, <1>5, <1>6 DEF Chain
  <2> QED
    BY <1>6, <2>1
<1>7. CASE q # 0
  <2>1. q \in Pages /\ page[q] = t[q]
    BY <1>7
  <2>2. /\ q \in Outer(t)
        /\ \E lo \in t[q].span : /\ \A k \in t[q].span : lo <= k
                                 /\ \A k \in Key : (\A j \in page[p].span : j < k) <=> lo <= k
    BY <1>1, <1>5, <1>7 DEF Chain
  <2>3. q \in Leaves /\ page[q].span \subseteq Key /\ page[q].span \subseteq Int
    BY <1>1, <2>1, <2>2, NodeIn DEF Leaves, Outer
  <2> HIDE DEF q
  <2>4. PICK lo \in page[q].span : /\ \A k \in page[q].span : lo <= k
                                   /\ \A k \in Key : (\A j \in page[p].span : j < k) <=> lo <= k
    BY <2>1, <2>2
  <2>5. First(page[q].span) = lo
    BY <2>3, <2>4, FirstLastIs
  <2>6. lo \in Key /\ lo \in Int /\ lo <= lo
    BY <2>3, <2>4
  <2>7. \A k : k \in later <=> k \in Key /\ lo <= k
    BY <2>4
  <2> HIDE DEF later
  <2>8. later \in SUBSET Int /\ lo \in later /\ \A k \in later : lo <= k
    BY <1>1, <2>6, <2>7
  <2>9. First(later) = lo
    BY <2>8, FirstLastIs
  <2> QED
    BY <1>7, <2>3, <2>4, <2>5, <2>9 DEF q, later
<1> QED
  BY <1>6, <1>7

\* Between two changes of the tree it is well formed as it is.
LEMMA WholeTree ==
  ASSUME TypeInv, WellFormed(page), pend = {}
  PROVE  Routed /\ Chained
<1> DEFINE f == [p \in Leaves |-> p]
<1>1. IsTree(page) /\ OneParent(page) /\ Routes(page) /\ page[Root].span = Key
  BY DEF WellFormed
<1>2. Leaves = Outer(page) /\ Pages \ Leaves = Inner(page)
  BY DEF Leaves, Pages, Outer, Inner
<1>3. ASSUME NEW p \in Leaves
      PROVE  /\ f[p] \in Outer(page) /\ page[p] = page[f[p]]
             /\ page[p].extra # 0 => /\ page[p].extra \in Pages
                                     /\ page[page[p].extra] = page[page[p].extra]
  BY <1>1, <1>2, NodeIn DEF Outer, Pages
<1>4. \A p, q \in Leaves : f[p] = f[q] => p = q
  OBVIOUS
<1> HIDE DEF f
<1>5. /\ \A p \in Leaves : DOMAIN page[p].cells \subseteq page[p].span
      /\ \A p, q \in Leaves : p # q => page[p].span \cap page[q].span = {}
      /\ Chained
  BY <1>3, <1>4, LeavesSeen
<1>6. ASSUME NEW p \in Pages \ Leaves, NEW k \in page[p].span
      PROVE  k \in page[ChildPage(page[p], k)].span
  <2>1. p \in Inner(page) /\ p \in Pages
    BY <1>2
  <2>2. ChildPage(page[p], k) \in Kids(page[p])
    BY <1>1, <2>1, NodeIn, ChildPageIs DEF Pages
  <2> QED
    BY <1>1, <2>1, <2>2 DEF Routes
<1>7. page[Root].span \cup UNION {page[s.page].span : s \in {t \in pend : path = << >>}} = Key
  BY <1>1
<1> QED
  BY <1>5, <1>6, <1>7 DEF Routed

\* While a separator is on its way to its parent, one node sends the keys of a
\* page just split off to the page on its left.
LEMMA TreeBeforeJoin ==
  ASSUME TypeInv, path # << >>, NEW s \in pend, WellFormed(Joined(page, Top, s))
  PROVE  Routed /\ Chained
<1> DEFINE t == Joined(page, Top, s)
           n == page[Top]
           m == AddSep(n, s)
           f == [p \in Leaves |-> p]
<1>1. /\ Top \in Pages /\ node = n /\ n.leaf = FALSE /\ IsTree(page) /\ s.page \in Pages
      /\ DOMAIN n.cells \subseteq Key /\ IsFiniteSet(DOMAIN n.cells)
  BY TopIs DEF TypeInv, PathTypes, PagesInv
<1>2. DOMAIN t = Pages /\ t[Top] = m /\ \A p \in Pages : p # Top => t[p] = page[p]
  BY <1>1 DEF Joined, With, Pages
<1>3. /\ m.leaf = FALSE /\ m.extra = n.extra /\ m.span = n.span
      /\ DOMAIN m.cells = DOMAIN n.cells \cup {s.sep} /\ m.cells[s.sep] = s.page
      /\ \A j \in DOMAIN n.cells : j # s.sep => m.cells[j] = n.cells[j]
  BY DEF AddSep, Interior, With
<1> HIDE DEF n, m, t
<1>4. /\ WellFormed(t) /\ IsTree(t) /\ Routes(t) /\ t[Root].span = Key /\ Root \in DOMAIN t
  BY DEF WellFormed, IsTree, t
<1>5. \A p \in Pages : t[p].span = page[p].span /\ t[p].leaf = page[p].leaf
  <2>1. t[Top].span = page[Top].span /\ t[Top].leaf = page[Top].leaf
    BY <1>1, <1>2, <1>3 DEF n
  <2> QED
    BY <1>2, <2>1
<1>6. Leaves = Outer(t) /\ Pages \ Leaves = Inner(t) /\ Top \notin Leaves
  BY <1>1, <1>2, <1>5 DEF Leaves, Outer, Inner, n
<1>7. ASSUME NEW p \in Leaves
      PROVE  /\ f[p] \in Outer(t) /\ page[p] = t[f[p]]
             /\ page[p].extra # 0 => /\ page[p].extra \in Pages
                                     /\ page[page[p].extra] = t[page[p].extra]
  <2>1. p # Top /\ p \in Pages /\ page[p] = t[p]
    BY <1>2, <1>6 DEF Leaves
  <2>2. page[p].extra # 0 => page[p].extra \in Outer(t)
    BY <1>4, <1>6, <2>1 DEF WellFormed, Chain
  <2> QED
    BY <1>2, <1>6, <2>1, <2>2 DEF Leaves
<1>8. \A p, q \in Leaves : f[p] = f[q] => p = q
  OBVIOUS
<1> HIDE DEF f
<1>9. /\ \A p \in Leaves : DOMAIN page[p].cells \subseteq page[p].span
      /\ \A p, q \in Leaves : p # q => page[p].span \cap page[q].span = {}
      /\ Chained
  BY <1>4, <1>7, <1>8, LeavesSeen
<1>10. ASSUME NEW p \in Pages \ Leaves, NEW k \in page[p].span
       PROVE  \/ k \in page[ChildPage(page[p], k)].span
              \/ path # << >> /\ p = Top /\ \E x \in pend : k >= x.sep /\ k \in page[x.page].span
  <2>1. p \in Inner(t) /\ p \in Pages /\ k \in t[p].span /\ k \in Key
    BY <1>1, <1>5, <1>6, NodeIn DEF Pages
  <2> DEFINE c == ChildPage(t[p], k)
  <2>2. c \in Kids(t[p]) /\ c \in Pages
    <3>1. p \in DOMAIN t /\ ~t[p].leaf
      BY <2>1 DEF Inner
    <3>2. DOMAIN t[p].cells \subseteq Key /\ IsFiniteSet(DOMAIN t[p].cells)
      BY <1>4, <3>1, NodeIn
    <3>3. Kids(t[p]) \subseteq DOMAIN t
      BY <1>4, <3>1, NodeIn
    <3>4. c \in Kids(t[p])
      BY <2>1, <3>2, ChildPageIs
    <3> QED
      BY <1>2, <3>3, <3>4
  <2>3. k \in t[c].span /\ k \in page[c].span
    <3>1. t[c].span = {j \in t[p].span : ChildPage(t[p], j) = c}
      BY <1>4, <2>1, <2>2 DEF Routes
    <3> QED
      BY <1>5, <2>1, <2>2, <3>1
  <2>4. CASE p # Top
    BY <1>2, <2>3, <2>4
  <2>5. CASE p = Top
    <3>1. c = ChildPage(m, k) /\ DOMAIN m.cells \subseteq Key /\ IsFiniteSet(DOMAIN m.cells)
      BY <1>2, <1>4, <2>1, <2>5, NodeIn
    <3>2. page[p] = n
      BY <2>5 DEF n
    <3>3. CASE NoSlot(m, k)
      <4>1. NoSlot(n, k)
        BY <1>3, <3>3 DEF NoSlot
      <4>2. c = m.extra /\ ChildPage(n, k) = n.extra
        BY <1>1, <2>1, <3>1, <3>3, <4>1, ChildPageIs
      <4> QED
        BY <1>3, <2>3, <3>2, <4>2
    <3>4. CASE Slot(m, k, s.sep)
      <4>1. c = s.page
        <5>1. c = m.cells[s.sep]
          BY <2>1, <3>1, <3>4, ChildPageIs
        <5> QED
          BY <1>3, <5>1
      <4>2. s.sep <= k /\ k \in Int /\ s.sep \in Int
        BY <2>1, <3>4, BTreeAssumption DEF Slot, TypeInv, PathTypes
      <4>3. k >= s.sep
        BY <4>2
      <4> QED
        BY <2>3, <2>5, <4>1, <4>3
    <3>5. ASSUME NEW x \in DOMAIN m.cells, Slot(m, k, x), x # s.sep
          PROVE  k \in page[ChildPage(page[p], k)].span
      <4>1. x \in DOMAIN n.cells /\ m.cells[x] = n.cells[x]
        BY <1>3, <3>5
      <4>2. Slot(n, k, x)
        BY <1>3, <3>5, <4>1 DEF Slot
      <4>3. c = m.cells[x] /\ ChildPage(n, k) = n.cells[x]
        BY <1>1, <2>1, <3>1, <3>5, <4>2, ChildPageIs
      <4> QED
        BY <2>3, <3>2, <4>1, <4>3
    <3>6. NoSlot(m, k) \/ \E x \in DOMAIN m.cells : Slot(m, k, x)
      BY <2>1, <3>1, ChildPageIs
    <3> QED
      BY <3>3, <3>4, <3>5, <3>6
  <2> QED
    BY <2>4, <2>5
<1>11. page[Root].span \cup UNION {page[x.page].span : x \in {y \in pend : path = << >>}} = Key
  BY <1>2, <1>4, <1>5
<1> QED
  BY <1>9, <1>10, <1>11 DEF Routed

\* While a separator is on its way to a new root, the root has the lower keys
\* and its page the others.
LEMMA TreeBeforeGrowth ==
  ASSUME TypeInv, path = << >>, NEW s \in pend, WellFormed(Grown(page, s))
  PROVE  Routed /\ Chained
<1> DEFINE t == Grown(page, s)
           new == Cardinality(DOMAIN page) + 1
           top == Interior(With(<< >>, s.sep, s.page), new, Key)
           f == [p \in Pages |-> IF p = Root THEN new ELSE p]
<1>1. /\ new \notin Pages /\ Root \in Pages /\ new # Root /\ IsTree(page) /\ s.page \in Pages
      /\ Pages = DOMAIN page
  BY NewPageIs DEF TypeInv, PathTypes, PagesInv, Pages
<1>2. t = With(With(page, Root, top), new, page[Root])
  BY DEF Grown
<1>3. \A c \in Kids(top) : c = new \/ c = s.page
  BY DEF Kids, Interior, With
<1>4. s.page \in Kids(top) /\ top.leaf = FALSE /\ top.span = Key
  BY DEF Kids, Interior, With
<1> HIDE DEF new, top
<1>5. /\ DOMAIN t = Pages \cup {new} /\ t[Root] = top /\ t[new] = page[Root]
      /\ \A p \in Pages : p # Root => t[p] = page[p]
  BY <1>1, <1>2 DEF With
<1> HIDE DEF t
<1>6. WellFormed(t) /\ IsTree(t) /\ Routes(t) /\ OneParent(t)
  BY DEF WellFormed, t
<1>7. /\ \A p \in Pages : page[p] = t[f[p]] /\ f[p] \in DOMAIN t
      /\ \A p, q \in Pages : f[p] = f[q] => p = q
  BY <1>1, <1>5
<1> HIDE DEF f
<1>8. Root \in Inner(t) /\ s.page # Root /\ page[s.page] = t[s.page]
  <2>1. Root \in Inner(t)
    BY <1>1, <1>4, <1>5 DEF Inner
  <2>2. s.page # Root
    BY <1>4, <1>5, <1>6, <2>1 DEF OneParent
  <2> QED
    BY <1>1, <1>5, <2>1, <2>2
<1>9. ASSUME NEW p \in Leaves
      PROVE  /\ f[p] \in Outer(t) /\ page[p] = t[f[p]]
             /\ page[p].extra # 0 => /\ page[p].extra \in Pages
                                     /\ page[page[p].extra] = t[page[p].extra]
  <2>1. f[p] \in Outer(t) /\ page[p] = t[f[p]] /\ p \in Pages /\ page[p].leaf
    BY <1>7 DEF Leaves, Outer
  <2>2. page[p].extra # 0 => page[p].extra # Root
    BY <1>6, <2>1 DEF WellFormed, Chain
  <2>3. page[p].extra # 0 => page[p].extra \in Pages
    BY <1>1, <2>1, NodeIn
  <2> QED
    BY <1>5, <2>1, <2>2, <2>3
<1>10. \A p, q \in Leaves : f[p] = f[q] => p = q
  BY <1>7 DEF Leaves
<1>11. /\ \A p \in Leaves : DOMAIN page[p].cells \subseteq page[p].span
       /\ \A p, q \in Leaves : p # q => page[p].span \cap page[q].span = {}
       /\ Chained
  BY <1>6, <1>9, <1>10, LeavesSeen
<1>12. ASSUME NEW p \in Pages \ Leaves, NEW k \in page[p].span
       PROVE  k \in page[ChildPage(page[p], k)].span
  <2>1. p \in Pages /\ ~page[p].leaf /\ k \in Key
    BY <1>1, NodeIn DEF Leaves
  <2>2. f[p] \in Inner(t) /\ page[p] = t[f[p]]
    BY <1>7, <2>1 DEF Inner
  <2> DEFINE c == ChildPage(page[p], k)
  <2>3. c \in Kids(page[p]) /\ c \in Pages
    BY <1>1, <2>1, NodeIn, ChildPageIs
  <2>4. c # Root /\ page[c] = t[c]
    <3>1. Root \notin Kids(t[f[p]])
      BY <1>6, <2>2 DEF OneParent
    <3>2. c # Root
      BY <2>2, <2>3, <3>1
    <3> QED
      BY <1>5, <2>3, <3>2
  <2>5. t[c].span = {j \in page[p].span : ChildPage(page[p], j) = c}
    BY <1>6, <2>2, <2>3 DEF Routes
  <2> QED
    BY <2>4, <2>5
<1>13. page[Root].span \cup UNION {page[x.page].span : x \in {y \in pend : path = << >>}} = Key
  <2>1. \A x \in pend : x = s
    BY DEF TypeInv, PathTypes
  <2>2. UNION {page[x.page].span : x \in {y \in pend : path = << >>}} = page[s.page].span
    BY <2>1
  <2>3. page[Root].span \subseteq Key /\ page[s.page].span \subseteq Key
    BY <1>1, NodeIn
  <2>4. ASSUME NEW k \in Key PROVE k \in page[Root].span \/ k \in page[s.page].span
    <3> DEFINE c == ChildPage(t[Root], k)
    <3>1. c \in Kids(t[Root])
      BY <1>1, <1>5, <1>6, NodeIn, ChildPageIs
    <3>2. t[c].span = {j \in t[Root].span : ChildPage(t[Root], j) = c}
      BY <1>6, <1>8, <3>1 DEF Routes
    <3>3. k \in t[c].span
      BY <1>4, <1>5, <3>2
    <3>4. c = new \/ c = s.page
      BY <1>3, <1>5, <3>1
    <3> HIDE DEF c
    <3> QED
      BY <1>5, <1>8, <3>3, <3>4
  <2> QED
    BY <2>2, <2>3, <2>4
<1> QED
  BY <1>11, <1>12, <1>13 DEF Routed

LEMMA ShapeShows == TypeInv /\ ShapeInv => TreeInv
<1> SUFFICES ASSUME TypeInv, ShapeInv, mode # "failed" PROVE Routed /\ Chained
  BY DEF TreeInv
<1>1. Shaped
  BY DEF ShapeInv
<1>2. CASE pend = {}
  BY <1>1, <1>2, WholeTree DEF Shaped
<1>3. CASE pend # {}
  <2>1. PICK s : s \in pend
    BY <1>3
  <2> QED
    BY <1>1, <2>1, TreeBeforeJoin, TreeBeforeGrowth DEF Shaped
<1> QED
  BY <1>2, <1>3

LEMMA ShapeHolds == SeparatorsFit => (Spec => [](TypeInv /\ ShapeInv))
<1> SUFFICES ASSUME SeparatorsFit PROVE Spec => [](TypeInv /\ ShapeInv)
  OBVIOUS
<1>1. TypeInv /\ TypeInv' /\ ShapeInv /\ [Next]_vars => ShapeInv'
  BY NextShape
<1> QED
  BY <1>1, InitTypes, InitShape, NextTypes, PTL DEF Spec

\* TreeInv of BTree, when the halves of a node of separators fit: whatever has
\* been inserted, deleted, rolled back or lost, each key is looked for in the one
\* leaf that may hold it, and the leaves are chained in the order of their keys
\* (splitLeaf, splitInterior, growRoot, btree.go:159-260).
THEOREM Shape == SeparatorsFit => (Spec => []TreeInv)
<1> SUFFICES ASSUME SeparatorsFit PROVE Spec => []TreeInv
  OBVIOUS
<1>1. Spec => [](TypeInv /\ ShapeInv)
  BY ShapeHolds
<1> QED
  BY <1>1, ShapeShows, PTL

\* It holds of every table: its keys are rowids, which all take the same room.
COROLLARY TableShape ==
  ASSUME NEW c \in Nat, c <= Room, \A k \in Key : SepSize[k] = c
  PROVE  Spec => []TreeInv
BY UniformSeparators, Shape
=============================================================================
