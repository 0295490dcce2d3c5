----------------------------- MODULE QueryProofs -----------------------------
(***************************************************************************)
(* The planner's rule (README.md:137): a predicate that the scan does not  *)
(* enforce is never dropped from the filter.  And the pipeline of a SELECT *)
(* returns what its plan admits, in the order it was asked for: TypeOK,    *)
(* RightAnswer and TiesInScanOrder of Query, for tables, clauses, indexes  *)
(* and orders of any size.                                                 *)
(***************************************************************************)
EXTENDS Query, FiniteSetTheorems, SequenceTheorems, WellFoundedInduction, TLAPS

\* The leading column of the index that a plan scans.
LeadingCol(found, known) == known[found.index].cols[1]

\* Every set of positions has a first one.
LEMMA FirstIsLeast ==
  ASSUME NEW I \in SUBSET Nat, I # {}
  PROVE  First(I) \in I /\ \A j \in I : First(I) <= j
<1> DEFINE Less == {ss \in Nat \X Nat : ss[1] < ss[2]}
<1>1. IsWellFoundedOn(Less, Nat)
  BY NatLessThanWellFounded, Zenon DEF OpToRel
<1> HIDE DEF Less
<1>2. PICK x \in I : \A y \in I : ~ (<<y, x>> \in Less)
  BY <1>1, WFMin
<1>3. \A y \in I : x <= y
  <2> SUFFICES ASSUME NEW y \in I PROVE x <= y
    OBVIOUS
  <2>1. <<y, x>> \notin Less
    BY <1>2
  <2> QED
    BY <2>1 DEF Less
<1> QED
  BY <1>3 DEF First

\* Some index scores best when any can be used.
LEMMA BestIsUsable ==
  ASSUME NEW clause, NEW known, DOMAIN known \subseteq Nat, Best(clause, known) # 0
  PROVE  Best(clause, known) \in DOMAIN known
<1> DEFINE score(k) == Score(clause, Leading(clause, known[k]))
           usable == {k \in DOMAIN known : score(k) > 0}
           top(s) == {k \in usable : score(k) = s}
<1>1. \A k \in usable : score(k) \in 1 .. 3
  BY DEF Score
<1>2. usable # {}
  BY DEF Best
<1>3. PICK s \in 1 .. 3 : top(s) # {} /\ \A k \in usable : score(k) <= s
  <2>1. CASE top(3) # {}
    BY <2>1, <1>1
  <2>2. CASE top(3) = {} /\ top(2) # {}
    BY <2>2, <1>1
  <2>3. CASE top(3) = {} /\ top(2) = {}
    BY <2>3, <1>1, <1>2
  <2> QED
    BY <2>1, <2>2, <2>3
<1>4. First(top(s)) \in top(s) /\ \A j \in top(s) : First(top(s)) <= j
  <2> HIDE DEF score
  <2> QED BY <1>3, FirstIsLeast
<1>5. \E k \in usable : \A j \in usable : score(j) <= score(k) /\ (score(j) = score(k) => k <= j)
  <2> HIDE DEF score
  <2> QED BY <1>3, <1>4
<1> QED
  BY <1>2, <1>5 DEF Best

-----------------------------------------------------------------------------
\* A conjunct that can bound an index holds as if the column stood on the left.
LEMMA UsableHolds ==
  ASSUME NEW Cols, NEW c, Usable(c), c.col \in Cols, c.op \in Ops, c.lit \in Value,
         c.flipped \in BOOLEAN, NEW row \in [Cols -> Value]
  PROVE  Eval(c, row) = 1 <=> row[c.col] # Null /\ Holds(Op(c), Class[row[c.col]], Class[c.lit])
<1> DEFINE x == Class[row[c.col]]
           y == Class[c.lit]
<1>1. x \in Int /\ y \in Int
  BY PlannerAssumption
<1>2. c.flipped => (Holds(c.op, y, x) <=> Holds(Op(c), x, y))
  <2> HIDE DEF x, y
  <2> QED BY <1>1 DEF Op, Mirror, Holds, Ops
<1>3. ~c.flipped => (Holds(c.op, x, y) <=> Holds(Op(c), x, y))
  BY DEF Op
<1> HIDE DEF x, y
<1>4. Eval(c, row) = 1 <=>
        row[c.col] # Null /\ IF c.flipped THEN Holds(c.op, y, x) ELSE Holds(c.op, x, y)
  BY DEF Eval, Usable, x, y
<1>5. Eval(c, row) = 1 <=> row[c.col] # Null /\ Holds(Op(c), x, y)
  BY <1>2, <1>3, <1>4
<1> QED
  BY <1>5 DEF x, y

\* A comparison by its two halves: what it says of the order, and of equality.
LEMMA HoldsBySides ==
  ASSUME NEW c, NEW x \in Int, NEW y \in Int
  PROVE  /\ Op(c) \in {"=", ">", ">="} =>
              (Holds(Op(c), x, y) => x >= y /\ (x = y => Inclusive(c)))
         /\ Op(c) \in {"=", "<", "<="} =>
              (Holds(Op(c), x, y) => x <= y /\ (x = y => Inclusive(c)))
         /\ Op(c) \in {">", ">="} => (x >= y /\ (x = y => Inclusive(c)) => Holds(Op(c), x, y))
         /\ Op(c) \in {"<", "<="} => (x <= y /\ (x = y => Inclusive(c)) => Holds(Op(c), x, y))
         /\ Op(c) = "=" => (x >= y /\ x <= y => Holds(Op(c), x, y))
<1>1. CASE Op(c) = "="
  BY <1>1 DEF Holds, Inclusive
<1>2. CASE Op(c) = ">"
  BY <1>2 DEF Holds, Inclusive
<1>3. CASE Op(c) = ">="
  BY <1>3 DEF Holds, Inclusive
<1>4. CASE Op(c) = "<"
  BY <1>4 DEF Holds, Inclusive
<1>5. CASE Op(c) = "<="
  BY <1>5 DEF Holds, Inclusive
<1> QED
  BY <1>1, <1>2, <1>3, <1>4, <1>5

\* The bounds of a plan are usable conjuncts on the leading column of its index,
\* an equality serving as both.
LEMMA PlanBounds ==
  ASSUME NEW Cols, NEW clause, IsClause(clause, Cols),
         NEW known, DOMAIN known \subseteq Nat,
         NEW found, found = Scan(clause, known)
  PROVE  /\ found.index = 0 => found.low = {} /\ found.high = {}
         /\ found.rest = DOMAIN clause \ (found.low \cup found.high)
         /\ \A i \in found.low \cup found.high :
              /\ i \in DOMAIN clause /\ Usable(clause[i])
              /\ clause[i].col = LeadingCol(found, known)
         /\ \A i \in found.low : Op(clause[i]) \in {"=", ">", ">="}
         /\ \A i \in found.high : Op(clause[i]) \in {"=", "<", "<="}
         /\ \A i \in found.low \cup found.high :
              Op(clause[i]) = "=" => i \in found.low /\ i \in found.high
<1> DEFINE k == Best(clause, known)
           I == IF k = 0 THEN {} ELSE Leading(clause, known[k])
<1>1. found = [index |-> k, low |-> LowBound(clause, I), high |-> HighBound(clause, I),
              rest |-> DOMAIN clause \ (LowBound(clause, I) \cup HighBound(clause, I))]
  BY DEF Scan
<1>2. /\ I \subseteq DOMAIN clause
      /\ \A i \in I : Usable(clause[i]) /\ k # 0 /\ clause[i].col = known[k].cols[1]
  BY DEF Leading
<1> HIDE DEF k, I
<1>3. I \in SUBSET Nat
  BY <1>2 DEF IsClause
<1>4. \A J \in SUBSET I : Only(J) \subseteq J
  <2> SUFFICES ASSUME NEW J \in SUBSET I, J # {} PROVE First(J) \in J
    BY DEF Only
  <2> QED
    BY <1>3, FirstIsLeast
<1>5. /\ Equal(clause, I) \in SUBSET I /\ Lows(clause, I) \in SUBSET I /\ Highs(clause, I) \in SUBSET I
      /\ \A i \in Equal(clause, I) : Op(clause[i]) = "="
      /\ \A i \in Lows(clause, I) : Op(clause[i]) \in {">", ">="}
      /\ \A i \in Highs(clause, I) : Op(clause[i]) \in {"<", "<="}
  BY DEF Equal, Lows, Highs
<1>6. CASE Equal(clause, I) # {}
  <2>1. found.low = Only(Equal(clause, I)) /\ found.high = Only(Equal(clause, I))
    BY <1>1, <1>6 DEF LowBound, HighBound
  <2>2. Only(Equal(clause, I)) \subseteq Equal(clause, I)
    BY <1>4, <1>5
  <2> QED
    BY <2>1, <2>2, <1>1, <1>2, <1>5 DEF LeadingCol
<1>7. CASE Equal(clause, I) = {}
  <2>1. found.low = Only(Lows(clause, I)) /\ found.high = Only(Highs(clause, I))
    BY <1>1, <1>7 DEF LowBound, HighBound
  <2>2. /\ Only(Lows(clause, I)) \subseteq Lows(clause, I)
        /\ Only(Highs(clause, I)) \subseteq Highs(clause, I)
    BY <1>4, <1>5
  <2>3. \A i \in found.low \cup found.high : i \in I /\ Op(clause[i]) # "="
    BY <2>1, <2>2, <1>5
  <2>4. /\ \A i \in found.low : Op(clause[i]) \in {">", ">="}
        /\ \A i \in found.high : Op(clause[i]) \in {"<", "<="}
    BY <2>1, <2>2, <1>5
  <2> QED
    BY <2>3, <2>4, <1>1, <1>2 DEF LeadingCol
<1> QED
  BY <1>6, <1>7

-----------------------------------------------------------------------------
\* No row is lost (planner.go:21-74): a row that passes the whole clause lies
\* within the bounds of the index scan and passes the filter above it.
THEOREM PlanLosesNoRow ==
  ASSUME NEW Cols, NEW clause, IsClause(clause, Cols),
         NEW known, DOMAIN known \subseteq Nat,
         NEW row \in [Cols -> Value],
         NEW found, found = Scan(clause, known),
         Passes(clause, DOMAIN clause, row)
  PROVE  /\ Passes(clause, found.rest, row)
         /\ FromLow(clause, found.low, row[LeadingCol(found, known)])
         /\ ToHigh(clause, found.high, row[LeadingCol(found, known)])
<1> DEFINE x == row[LeadingCol(found, known)]
<1>1. Passes(clause, found.rest, row)
  BY PlanBounds DEF Passes
<1>2. ASSUME NEW i \in found.low \cup found.high
      PROVE  /\ Holds(Op(clause[i]), Class[x], Class[clause[i].lit])
             /\ Class[x] \in Int /\ Class[clause[i].lit] \in Int
  <2>1. /\ i \in DOMAIN clause /\ Usable(clause[i]) /\ clause[i].col = LeadingCol(found, known)
        /\ clause[i].kind = "compare"
    BY PlanBounds DEF Usable
  <2>2. /\ clause[i].col \in Cols /\ clause[i].op \in Ops /\ clause[i].lit \in Value
        /\ clause[i].flipped \in BOOLEAN
    BY <2>1 DEF IsClause
  <2>3. Eval(clause[i], row) = 1
    BY <2>1 DEF Passes
  <2> QED
    BY <2>1, <2>2, <2>3, UsableHolds, PlannerAssumption
<1> HIDE DEF x
<1>3. FromLow(clause, found.low, x)
  <2> SUFFICES ASSUME NEW i \in found.low
               PROVE  /\ Class[x] >= Class[clause[i].lit]
                      /\ Class[x] = Class[clause[i].lit] => Inclusive(clause[i])
    BY DEF FromLow
  <2> QED
    BY <1>2, PlanBounds, HoldsBySides
<1>4. ToHigh(clause, found.high, x)
  <2> SUFFICES ASSUME NEW i \in found.high
               PROVE  /\ Class[x] <= Class[clause[i].lit]
                      /\ Class[x] = Class[clause[i].lit] => Inclusive(clause[i])
    BY DEF ToHigh
  <2> QED
    BY <1>2, PlanBounds, HoldsBySides
<1> QED
  BY <1>1, <1>3, <1>4 DEF x

\* And none is added, but for a null in the leading column of a scan that has
\* no low bound: every other row that the scan and the filter let pass, passes
\* the clause.
THEOREM PlanAddsNoRow ==
  ASSUME NEW Cols, NEW clause, IsClause(clause, Cols),
         NEW known, DOMAIN known \subseteq Nat,
         NEW row \in [Cols -> Value],
         NEW found, found = Scan(clause, known),
         Passes(clause, found.rest, row),
         FromLow(clause, found.low, row[LeadingCol(found, known)]),
         ToHigh(clause, found.high, row[LeadingCol(found, known)]),
         found.low # {} \/ row[LeadingCol(found, known)] # Null
  PROVE  Passes(clause, DOMAIN clause, row)
<1> DEFINE x == row[LeadingCol(found, known)]
<1>1. \A i \in found.low \cup found.high :
        /\ i \in DOMAIN clause /\ Usable(clause[i]) /\ clause[i].col = LeadingCol(found, known)
        /\ clause[i].col \in Cols /\ clause[i].op \in Ops /\ clause[i].lit \in Value
        /\ clause[i].flipped \in BOOLEAN
        /\ Class[x] \in Int /\ Class[clause[i].lit] \in Int
        /\ clause[i].lit # Null /\ Class[Null] < Class[clause[i].lit]
  <2> SUFFICES ASSUME NEW i \in found.low \cup found.high
               PROVE  /\ i \in DOMAIN clause /\ Usable(clause[i])
                      /\ clause[i].col = LeadingCol(found, known)
                      /\ clause[i].col \in Cols /\ clause[i].op \in Ops /\ clause[i].lit \in Value
                      /\ clause[i].flipped \in BOOLEAN
                      /\ Class[x] \in Int /\ Class[clause[i].lit] \in Int
                      /\ clause[i].lit # Null /\ Class[Null] < Class[clause[i].lit]
    OBVIOUS
  <2>1. /\ i \in DOMAIN clause /\ Usable(clause[i]) /\ clause[i].col = LeadingCol(found, known)
        /\ clause[i].kind = "compare" /\ clause[i].lit # Null
    BY PlanBounds DEF Usable
  <2>2. /\ clause[i].col \in Cols /\ clause[i].op \in Ops /\ clause[i].lit \in Value
        /\ clause[i].flipped \in BOOLEAN
    BY <2>1 DEF IsClause
  <2> QED
    BY <2>1, <2>2, PlannerAssumption
<1> HIDE DEF x
<1>2. FromLow(clause, found.low, x) /\ ToHigh(clause, found.high, x)
  BY DEF x
<1>3. found.low # {} => x # Null
  BY <1>1, <1>2, PlannerAssumption DEF FromLow
<1>4. x # Null
  BY <1>3 DEF x
<1>5. ASSUME NEW i \in found.low \cup found.high
      PROVE  Holds(Op(clause[i]), Class[x], Class[clause[i].lit])
  <2>1. i \in found.low => /\ Class[x] >= Class[clause[i].lit]
                           /\ Class[x] = Class[clause[i].lit] => Inclusive(clause[i])
    BY <1>2 DEF FromLow
  <2>2. i \in found.high => /\ Class[x] <= Class[clause[i].lit]
                            /\ Class[x] = Class[clause[i].lit] => Inclusive(clause[i])
    BY <1>2 DEF ToHigh
  <2>3. Class[x] \in Int /\ Class[clause[i].lit] \in Int
    BY <1>1
  <2>4. /\ i \in found.low => Op(clause[i]) \in {"=", ">", ">="}
        /\ i \in found.high => Op(clause[i]) \in {"=", "<", "<="}
        /\ Op(clause[i]) = "=" => i \in found.low /\ i \in found.high
    BY PlanBounds
  <2> QED
    BY <2>1, <2>2, <2>3, <2>4, HoldsBySides
<1>6. ASSUME NEW i \in found.low \cup found.high PROVE Eval(clause[i], row) = 1
  BY <1>1, <1>4, <1>5, UsableHolds DEF x
<1>7. \A i \in found.rest : Eval(clause[i], row) = 1
  BY DEF Passes
<1>8. DOMAIN clause = found.rest \cup (found.low \cup found.high)
  BY <1>1, PlanBounds
<1> QED
  BY <1>6, <1>7, <1>8 DEF Passes

-----------------------------------------------------------------------------
(* Strict orders, and sequences that ascend in one.                        *)

StrictOrder(R, S) ==
  /\ R \subseteq S \X S
  /\ \A a \in S : <<a, a>> \notin R
  /\ \A a, b, c \in S : <<a, b>> \in R /\ <<b, c>> \in R => <<a, c>> \in R
  /\ \A a, b \in S : a = b \/ <<a, b>> \in R \/ <<b, a>> \in R

Ascending(s, R) == \A i, j \in DOMAIN s : i < j => <<s[i], s[j]>> \in R

\* The first of a sequence that ascends comes before all others.
LEMMA TailAscends ==
  ASSUME NEW S, NEW R, StrictOrder(R, S), NEW s \in Seq(S), s # << >>, Ascending(s, R)
  PROVE  /\ Head(s) \in S /\ Head(s) \in Range(s) /\ Tail(s) \in Seq(S) /\ Ascending(Tail(s), R)
         /\ Range(Tail(s)) = Range(s) \ {Head(s)}
         /\ \A x \in Range(Tail(s)) : <<Head(s), x>> \in R
<1>1. /\ Head(s) = s[1] /\ Tail(s) \in Seq(S) /\ Len(Tail(s)) = Len(s) - 1
      /\ \A i \in 1 .. Len(s) - 1 : Tail(s)[i] = s[i + 1]
  BY HeadTailProperties
<1>2. /\ Len(s) \in Nat /\ Len(s) # 0 /\ DOMAIN s = 1 .. Len(s)
      /\ \A i \in 1 .. Len(s) : s[i] \in S
  BY EmptySeq, LenProperties, ElementOfSeq
<1>3. DOMAIN Tail(s) = 1 .. Len(s) - 1
  BY <1>1, LenProperties
<1>4. \A i \in 1 .. Len(s) - 1 : i \in 1 .. Len(s) /\ i + 1 \in 1 .. Len(s) /\ 1 < i + 1
  BY <1>2
<1>5. 1 \in 1 .. Len(s)
  BY <1>2
<1>6. \A i, j \in 1 .. Len(s) : i < j => <<s[i], s[j]>> \in R
  BY <1>2 DEF Ascending
<1>7. Ascending(Tail(s), R)
  <2> SUFFICES ASSUME NEW i \in 1 .. Len(s) - 1, NEW j \in 1 .. Len(s) - 1, i < j
               PROVE  <<Tail(s)[i], Tail(s)[j]>> \in R
    BY <1>3 DEF Ascending
  <2>1. i + 1 < j + 1
    BY <1>2
  <2> QED
    BY <1>1, <1>4, <1>6, <2>1
<1>8. \A i \in 1 .. Len(s) - 1 : <<Head(s), Tail(s)[i]>> \in R
  BY <1>1, <1>4, <1>5, <1>6
<1>9. \A x \in Range(Tail(s)) : <<Head(s), x>> \in R
  BY <1>3, <1>8 DEF Range
<1>10. Range(Tail(s)) \subseteq Range(s)
  BY <1>1, <1>2, <1>3, <1>4 DEF Range
<1>11. Head(s) \notin Range(Tail(s))
  BY <1>1, <1>2, <1>5, <1>9 DEF StrictOrder
<1>12. ASSUME NEW x \in Range(s), x # Head(s) PROVE x \in Range(Tail(s))
  <2>1. PICK i \in 1 .. Len(s) : x = s[i]
    BY <1>2 DEF Range
  <2>2. i # 1
    BY <1>1, <1>12, <2>1
  <2>3. i - 1 \in 1 .. Len(s) - 1 /\ (i - 1) + 1 = i
    BY <1>2, <2>2
  <2>4. Tail(s)[i - 1] = s[i]
    BY <1>1, <2>3
  <2> QED
    BY <1>3, <2>1, <2>3, <2>4 DEF Range
<1>13. Head(s) \in S /\ Head(s) \in Range(s)
  BY <1>1, <1>2, <1>5 DEF Range
<1> QED
  BY <1>1, <1>7, <1>9, <1>10, <1>11, <1>12, <1>13

\* What comes after all of an ascending sequence may be added to it.
LEMMA AppendAscends ==
  ASSUME NEW S, NEW R, NEW s \in Seq(S), NEW x \in S, Ascending(s, R),
         \A y \in Range(s) : <<y, x>> \in R
  PROVE  /\ Append(s, x) \in Seq(S) /\ Ascending(Append(s, x), R)
         /\ Range(Append(s, x)) = Range(s) \cup {x} /\ Len(Append(s, x)) = Len(s) + 1
<1> DEFINE t == Append(s, x)
<1>1. /\ t \in Seq(S) /\ Len(t) = Len(s) + 1
      /\ \A i \in 1 .. Len(s) : t[i] = s[i]
      /\ t[Len(s) + 1] = x
  BY AppendProperties
<1>2. Len(s) \in Nat /\ DOMAIN s = 1 .. Len(s) /\ DOMAIN t = 1 .. Len(s) + 1
  BY <1>1, LenProperties
<1>3. \A i \in 1 .. Len(s) + 1 : i \in 1 .. Len(s) \/ i = Len(s) + 1
  BY <1>2
<1>4. \A i \in 1 .. Len(s) : <<s[i], x>> \in R /\ i \in 1 .. Len(s) + 1
  BY <1>2 DEF Range
<1>5. Len(s) + 1 \in 1 .. Len(s) + 1
  BY <1>2
<1> HIDE DEF t
<1>6. Ascending(t, R)
  <2> SUFFICES ASSUME NEW i \in 1 .. Len(s) + 1, NEW j \in 1 .. Len(s) + 1, i < j
               PROVE  <<t[i], t[j]>> \in R
    BY <1>2 DEF Ascending
  <2>1. i \in 1 .. Len(s)
    BY <1>2
  <2>2. CASE j \in 1 .. Len(s)
    BY <1>1, <1>2, <2>1, <2>2 DEF Ascending
  <2>3. CASE j = Len(s) + 1
    BY <1>1, <1>4, <2>1, <2>3
  <2> QED
    BY <1>3, <2>2, <2>3
<1>7. Range(t) = Range(s) \cup {x}
  <2>1. Range(t) \subseteq Range(s) \cup {x}
    BY <1>1, <1>2, <1>3 DEF Range
  <2>2. Range(s) \subseteq Range(t)
    BY <1>1, <1>2, <1>4 DEF Range
  <2>3. x \in Range(t)
    BY <1>1, <1>2, <1>5 DEF Range
  <2> QED
    BY <2>1, <2>2, <2>3
<1> QED
  BY <1>1, <1>6, <1>7 DEF t

-----------------------------------------------------------------------------
(* Every finite set can be put into order: each element at its rank.       *)

UpTo(S, R, e) == {f \in S : f = e \/ <<f, e>> \in R}
Rank(S, R, e) == Cardinality(UpTo(S, R, e))

LEMMA RankIs ==
  ASSUME NEW S, IsFiniteSet(S), NEW R, StrictOrder(R, S)
  PROVE  /\ \A e \in S : Rank(S, R, e) \in 1 .. Cardinality(S)
         /\ \A e, f \in S : <<e, f>> \in R => Rank(S, R, e) < Rank(S, R, f)
         /\ \A n \in 1 .. Cardinality(S) : \E e \in S : Rank(S, R, e) = n
         /\ \A e, f \in S : Rank(S, R, e) = Rank(S, R, f) => e = f
<1>1. \A e \in S : /\ UpTo(S, R, e) \in SUBSET S /\ e \in UpTo(S, R, e)
                   /\ IsFiniteSet(UpTo(S, R, e)) /\ Rank(S, R, e) <= Cardinality(S)
                   /\ Rank(S, R, e) \in Nat
  BY FS_Subset, FS_CardinalityType DEF UpTo, Rank
<1>2. \A e \in S : Rank(S, R, e) # 0
  BY <1>1, FS_EmptySet DEF Rank
<1>3. Cardinality(S) \in Nat
  BY FS_CardinalityType
<1>4. \A e \in S : Rank(S, R, e) \in 1 .. Cardinality(S)
  BY <1>1, <1>2, <1>3
<1>5. ASSUME NEW e \in S, NEW f \in S, <<e, f>> \in R
      PROVE  Rank(S, R, e) < Rank(S, R, f)
  <2>1. UpTo(S, R, e) \in SUBSET UpTo(S, R, f)
    BY <1>5 DEF UpTo, StrictOrder
  <2>2. f \notin UpTo(S, R, e) /\ f \in UpTo(S, R, f)
    BY <1>5 DEF UpTo, StrictOrder
  <2>3. Rank(S, R, e) <= Rank(S, R, f) /\ Rank(S, R, e) # Rank(S, R, f)
    BY <1>1, <2>1, <2>2, FS_Subset DEF Rank
  <2> QED
    BY <1>1, <2>3
<1>6. \A e, f \in S : Rank(S, R, e) = Rank(S, R, f) => e = f
  <2> SUFFICES ASSUME NEW e \in S, NEW f \in S, e # f
               PROVE  Rank(S, R, e) # Rank(S, R, f)
    OBVIOUS
  <2>1. <<e, f>> \in R \/ <<f, e>> \in R
    BY DEF StrictOrder
  <2> QED
    BY <1>1, <1>5, <2>1
<1> DEFINE T == 1 .. Cardinality(S)
           g == [e \in S |-> Rank(S, R, e)]
<1>7. g \in [S -> T] /\ \A e \in S : g[e] = Rank(S, R, e)
  BY <1>4
<1>8. IsFiniteSet(T) /\ Cardinality(T) = Cardinality(S)
  BY <1>3, FS_Interval
<1> HIDE DEF g
<1>9. g \in Injection(S, T)
  BY <1>6, <1>7 DEF Injection, IsInjective
<1>10. g \in Surjection(S, T)
  BY <1>8, <1>9, FS_Injection
<1>11. \A n \in T : \E e \in S : Rank(S, R, e) = n
  BY <1>7, <1>10 DEF Surjection
<1> QED
  BY <1>4, <1>5, <1>6, <1>11

\* The elements of S, each at its rank.
ByRank(S, R) == [n \in 1 .. Cardinality(S) |-> CHOOSE e \in S : Rank(S, R, e) = n]

LEMMA ByRankIs ==
  ASSUME NEW S, IsFiniteSet(S), NEW R, StrictOrder(R, S)
  PROVE  /\ ByRank(S, R) \in SetToSeqs(S) /\ ByRank(S, R) \in Seq(S)
         /\ Ascending(ByRank(S, R), R) /\ Range(ByRank(S, R)) = S
<1> DEFINE s == ByRank(S, R)
           D == 1 .. Cardinality(S)
<1>1. Cardinality(S) \in Nat
  BY FS_CardinalityType
<1>2. \A n \in D : s[n] \in S /\ Rank(S, R, s[n]) = n
  BY RankIs DEF ByRank
<1>3. s \in [D -> S] /\ DOMAIN s = D
  <2>1. DOMAIN s = D /\ s = [n \in D |-> s[n]]
    BY DEF ByRank
  <2> QED
    BY <1>2, <2>1
<1>4. s \in Seq(S)
  BY <1>1, <1>3, IsASeq
<1> HIDE DEF s
<1>5. \A i, j \in D : i # j => s[i] # s[j]
  BY <1>2
<1>6. s \in SetToSeqs(S)
  BY <1>3, <1>5 DEF SetToSeqs
<1>7. Ascending(s, R)
  <2> SUFFICES ASSUME NEW i \in D, NEW j \in D, i < j PROVE <<s[i], s[j]>> \in R
    BY <1>3 DEF Ascending
  <2>1. ~ (Rank(S, R, s[j]) < Rank(S, R, s[i])) /\ s[i] # s[j]
    BY <1>1, <1>2
  <2> QED
    BY <1>2, <2>1, RankIs DEF StrictOrder
<1>8. Range(s) = S
  <2>1. Range(s) \subseteq S
    BY <1>3 DEF Range
  <2>2. ASSUME NEW e \in S PROVE e \in Range(s)
    <3>1. Rank(S, R, e) \in D
      BY RankIs
    <3>2. s[Rank(S, R, e)] = e
      BY <1>2, <3>1, RankIs
    <3> QED
      BY <1>3, <3>1, <3>2 DEF Range
  <2> QED
    BY <2>1, <2>2
<1> QED
  BY <1>4, <1>6, <1>7, <1>8 DEF s

\* A sequence of the elements of S, each once, has them all.
LEMMA SeqOfAll ==
  ASSUME NEW S, IsFiniteSet(S), NEW s \in SetToSeqs(S)
  PROVE  s \in Seq(S) /\ Range(s) = S
<1> DEFINE D == 1 .. Cardinality(S)
<1>1. Cardinality(S) \in Nat
  BY FS_CardinalityType
<1>2. s \in [D -> S] /\ \A i, j \in D : i # j => s[i] # s[j]
  BY DEF SetToSeqs
<1>3. s \in Seq(S)
  BY <1>1, <1>2, IsASeq
<1>4. IsFiniteSet(D) /\ Cardinality(D) = Cardinality(S)
  BY <1>1, FS_Interval
<1>5. s \in Injection(D, S)
  BY <1>2 DEF Injection, IsInjective
<1>6. s \in Surjection(D, S)
  BY <1>4, <1>5, FS_Injection
<1>7. Range(s) = S
  BY <1>2, <1>6 DEF Range, Surjection
<1> QED
  BY <1>3, <1>7

-----------------------------------------------------------------------------
(* Keys of several values compare at the first place in which they differ. *)

LexLess(D, x, y) == \E i \in D : x[i] < y[i] /\ \A j \in D : j < i => x[j] = y[j]

LEMMA LexFirst ==
  ASSUME NEW D \in SUBSET Nat, NEW x \in [D -> Int], NEW y \in [D -> Int],
         NEW differ, differ = {i \in D : x[i] # y[i]}
  PROVE  /\ differ = {} <=> x = y
         /\ differ = {} => ~LexLess(D, x, y)
         /\ differ # {} => /\ LexLess(D, x, y) <=> x[First(differ)] < y[First(differ)]
                           /\ First(differ) \in D /\ x[First(differ)] # y[First(differ)]
<1>1. differ = {} <=> x = y
  OBVIOUS
<1>2. differ = {} => ~LexLess(D, x, y)
  BY DEF LexLess
<1>3. ASSUME differ # {}
      PROVE  /\ LexLess(D, x, y) <=> x[First(differ)] < y[First(differ)]
             /\ First(differ) \in D /\ x[First(differ)] # y[First(differ)]
  <2> DEFINE f == First(differ)
  <2>1. f \in differ /\ \A j \in differ : f <= j
    BY <1>3, FirstIsLeast
  <2> HIDE DEF f
  <2>2. f \in D /\ x[f] # y[f] /\ f \in Nat
    BY <2>1
  <2>3. \A j \in D : j < f => x[j] = y[j]
    BY <2>1, <2>2
  <2>4. x[f] < y[f] => LexLess(D, x, y)
    BY <2>2, <2>3 DEF LexLess
  <2>5. ASSUME LexLess(D, x, y) PROVE x[f] < y[f]
    <3>1. PICK i \in D : x[i] < y[i] /\ \A j \in D : j < i => x[j] = y[j]
      BY <2>5 DEF LexLess
    <3>2. i \in differ
      BY <3>1
    <3>3. ~ (f < i)
      BY <2>2, <3>1
    <3>4. i = f
      BY <2>1, <2>2, <3>2, <3>3
    <3> QED
      BY <3>1, <3>4
  <2> QED
    BY <2>2, <2>4, <2>5 DEF f
<1> QED
  BY <1>1, <1>2, <1>3

LEMMA LexOrder ==
  ASSUME NEW D \in SUBSET Nat, NEW x \in [D -> Int], NEW y \in [D -> Int], NEW z \in [D -> Int]
  PROVE  /\ ~LexLess(D, x, x)
         /\ ~ (LexLess(D, x, y) /\ LexLess(D, y, x))
         /\ x = y \/ LexLess(D, x, y) \/ LexLess(D, y, x)
         /\ LexLess(D, x, y) /\ LexLess(D, y, z) => LexLess(D, x, z)
<1>1. ~LexLess(D, x, x)
  BY DEF LexLess
<1>2. ASSUME LexLess(D, x, y), LexLess(D, y, z) PROVE LexLess(D, x, z)
  <2>1. PICK i \in D : x[i] < y[i] /\ \A j \in D : j < i => x[j] = y[j]
    BY <1>2 DEF LexLess
  <2>2. PICK k \in D : y[k] < z[k] /\ \A j \in D : j < k => y[j] = z[j]
    BY <1>2 DEF LexLess
  <2>3. \A j \in D : x[j] \in Int /\ y[j] \in Int /\ z[j] \in Int /\ j \in Nat
    OBVIOUS
  <2>4. CASE i < k
    <3>1. x[i] < z[i]
      BY <2>1, <2>2, <2>3, <2>4
    <3>2. \A j \in D : j < i => x[j] = z[j]
      BY <2>1, <2>2, <2>3, <2>4
    <3> QED
      BY <3>1, <3>2 DEF LexLess
  <2>5. CASE k < i
    <3>1. x[k] < z[k]
      BY <2>1, <2>2, <2>3, <2>5
    <3>2. \A j \in D : j < k => x[j] = z[j]
      BY <2>1, <2>2, <2>3, <2>5
    <3> QED
      BY <3>1, <3>2 DEF LexLess
  <2>6. CASE i = k
    <3>1. x[i] < z[i]
      BY <2>1, <2>2, <2>3, <2>6
    <3>2. \A j \in D : j < i => x[j] = z[j]
      BY <2>1, <2>2, <2>6
    <3> QED
      BY <3>1, <3>2 DEF LexLess
  <2> QED
    BY <2>3, <2>4, <2>5, <2>6
<1>3. ~ (LexLess(D, x, y) /\ LexLess(D, y, x))
  <2> SUFFICES ASSUME LexLess(D, x, y), LexLess(D, y, x) PROVE FALSE
    OBVIOUS
  <2>1. PICK i \in D : x[i] < y[i] /\ \A j \in D : j < i => x[j] = y[j]
    BY DEF LexLess
  <2>2. PICK k \in D : y[k] < x[k] /\ \A j \in D : j < k => y[j] = x[j]
    BY DEF LexLess
  <2>3. \A j \in D : x[j] \in Int /\ y[j] \in Int /\ j \in Nat
    OBVIOUS
  <2>4. ~ (i < k) /\ ~ (k < i)
    BY <2>1, <2>2, <2>3
  <2> QED
    BY <2>1, <2>2, <2>3, <2>4
<1>4. x = y \/ LexLess(D, x, y) \/ LexLess(D, y, x)
  <2> DEFINE differ == {i \in D : x[i] # y[i]}
             other == {i \in D : y[i] # x[i]}
             f == First(differ)
  <2> SUFFICES ASSUME x # y PROVE LexLess(D, x, y) \/ LexLess(D, y, x)
    OBVIOUS
  <2>1. differ = other
    OBVIOUS
  <2> HIDE DEF differ, other
  <2>2. /\ differ # {}
        /\ LexLess(D, x, y) <=> x[f] < y[f]
        /\ f \in D /\ x[f] # y[f]
    BY LexFirst DEF differ
  <2>3. LexLess(D, y, x) <=> y[f] < x[f]
    BY <2>1, <2>2, LexFirst DEF other
  <2> HIDE DEF f
  <2>4. x[f] \in Int /\ y[f] \in Int
    BY <2>2
  <2> QED
    BY <2>2, <2>3, <2>4
<1> QED
  BY <1>1, <1>2, <1>3, <1>4

\* By key, and where the keys are the same by R.
LexThen(I, D, K, R) ==
  {p \in I \X I : LexLess(D, K[p[1]], K[p[2]]) \/ (K[p[1]] = K[p[2]] /\ p \in R)}

LEMMA LexThenOrder ==
  ASSUME NEW I, NEW D \in SUBSET Nat, NEW K \in [I -> [D -> Int]], NEW R, StrictOrder(R, I)
  PROVE  /\ StrictOrder(LexThen(I, D, K, R), I)
         /\ \A a, b \in I : <<a, b>> \in LexThen(I, D, K, R) <=>
              LexLess(D, K[a], K[b]) \/ (~LexLess(D, K[b], K[a]) /\ <<a, b>> \in R)
<1> DEFINE L == LexThen(I, D, K, R)
           Below(a, b) == LexLess(D, K[a], K[b])
<1>1. \A a, b \in I : <<a, b>> \in L <=> Below(a, b) \/ (K[a] = K[b] /\ <<a, b>> \in R)
  BY DEF LexThen
<1>2. L \subseteq I \X I
  BY DEF LexThen
<1>3. \A a, b, c \in I : /\ ~Below(a, a) /\ ~ (Below(a, b) /\ Below(b, a))
                         /\ K[a] = K[b] \/ Below(a, b) \/ Below(b, a)
                         /\ Below(a, b) /\ Below(b, c) => Below(a, c)
                         /\ K[a] = K[b] => (Below(a, c) <=> Below(b, c)) /\ (Below(c, a) <=> Below(c, b))
  <2> SUFFICES ASSUME NEW a \in I, NEW b \in I, NEW c \in I
               PROVE  /\ ~Below(a, a) /\ ~ (Below(a, b) /\ Below(b, a))
                      /\ K[a] = K[b] \/ Below(a, b) \/ Below(b, a)
                      /\ Below(a, b) /\ Below(b, c) => Below(a, c)
                      /\ K[a] = K[b] => (Below(a, c) <=> Below(b, c)) /\ (Below(c, a) <=> Below(c, b))
    OBVIOUS
  <2>1. K[a] \in [D -> Int] /\ K[b] \in [D -> Int] /\ K[c] \in [D -> Int]
    OBVIOUS
  <2> QED
    BY <2>1, LexOrder
<1> HIDE DEF L, Below
<1>4. \A a \in I : <<a, a>> \notin L
  BY <1>1, <1>3 DEF StrictOrder
<1>5. \A a, b, c \in I : <<a, b>> \in L /\ <<b, c>> \in L => <<a, c>> \in L
  <2> SUFFICES ASSUME NEW a \in I, NEW b \in I, NEW c \in I, <<a, b>> \in L, <<b, c>> \in L
               PROVE  <<a, c>> \in L
    OBVIOUS
  <2>1. Below(a, b) \/ (K[a] = K[b] /\ <<a, b>> \in R)
    BY <1>1
  <2>2. Below(b, c) \/ (K[b] = K[c] /\ <<b, c>> \in R)
    BY <1>1
  <2>3. K[a] = K[b] /\ <<a, b>> \in R /\ K[b] = K[c] /\ <<b, c>> \in R => <<a, c>> \in L
    BY <1>1 DEF StrictOrder
  <2>4. Below(a, b) /\ Below(b, c) => <<a, c>> \in L
    BY <1>1, <1>3
  <2>5. Below(a, b) /\ K[b] = K[c] => <<a, c>> \in L
    BY <1>1, <1>3
  <2>6. Below(b, c) /\ K[a] = K[b] => <<a, c>> \in L
    BY <1>1, <1>3
  <2> QED
    BY <2>1, <2>2, <2>3, <2>4, <2>5, <2>6
<1>6. \A a, b \in I : a = b \/ <<a, b>> \in L \/ <<b, a>> \in L
  <2> SUFFICES ASSUME NEW a \in I, NEW b \in I, a # b PROVE <<a, b>> \in L \/ <<b, a>> \in L
    OBVIOUS
  <2>1. <<a, b>> \in R \/ <<b, a>> \in R
    BY DEF StrictOrder
  <2> QED
    BY <1>1, <1>3, <2>1
<1>7. StrictOrder(L, I)
  BY <1>2, <1>4, <1>5, <1>6 DEF StrictOrder
<1>8. \A a, b \in I : <<a, b>> \in L <=> Below(a, b) \/ (~Below(b, a) /\ <<a, b>> \in R)
  BY <1>1, <1>3
<1> QED
  BY <1>7, <1>8 DEF L, Below

-----------------------------------------------------------------------------
(* The plan, the entries that its scan reads and the orders they come in.  *)

Inputs ==
  /\ rows \in Contents /\ indexes \in Schemas /\ where \in Clauses
  /\ order \in Orders /\ limit \in Limits
Planned == Inputs /\ plan = Scan(where, indexes)

Index == indexes[plan.index]
ScanVals(id) == IF plan.index = 0 THEN rows[id]
                ELSE [i \in DOMAIN Index.cols |-> rows[id][Index.cols[i]]]
ScanEntry(id) == [vals |-> ScanVals(id), id |-> id]
ScanEntries == {ScanEntry(id) : id \in Ids}

ScanOrder == {p \in Ids \X Ids : ScanLess(p[1], p[2])}
EntryOrder == {p \in ScanEntries \X ScanEntries : <<p[1].id, p[2].id>> \in ScanOrder}

\* The order of the answer: by ORDER BY, and where it does not tell by the scan's.
AnswerOrder == {p \in Ids \X Ids : Before(p[1], p[2]) \/ (~Before(p[2], p[1]) /\ p \in ScanOrder)}

\* What the scan's bounds and the filter let through.
Admits(e) ==
  /\ plan.index # 0 => FromLow(where, plan.low, e.vals[1]) /\ ToHigh(where, plan.high, e.vals[1])
  /\ Passes(where, plan.rest, rows[e.id])
Admitted == {id \in Ids : Admits(ScanEntry(id))}

LEMMA InputsAre ==
  ASSUME Inputs
  PROVE  /\ IsFiniteSet(Ids) /\ Ids \subseteq Int
         /\ \A id \in Ids : rows[id] \in [Columns -> Value]
         /\ DOMAIN indexes = 1 .. Len(indexes) /\ Len(indexes) \in Nat
         /\ \A k \in DOMAIN indexes :
              /\ indexes[k].cols \in Seq(Columns) /\ indexes[k].cols # << >>
              /\ DOMAIN indexes[k].cols \subseteq Nat /\ 1 \in DOMAIN indexes[k].cols
              /\ \A i \in DOMAIN indexes[k].cols : i >= 1 /\ indexes[k].cols[i] \in Columns
         /\ IsClause(where, Columns)
         /\ order \in Seq([col : Columns, desc : BOOLEAN]) /\ DOMAIN order \subseteq Nat
         /\ \A i \in DOMAIN order : order[i].col \in Columns /\ order[i].desc \in BOOLEAN
         /\ limit.count \in Int /\ limit.offset \in Nat
<1>1. /\ rows \in Contents /\ indexes \in Seq([cols : Seq(Columns) \ {<< >>}])
      /\ where \in Clauses /\ order \in Seq([col : Columns, desc : BOOLEAN])
      /\ limit \in [count : Int, offset : Nat]
  BY QueryAssumption DEF Inputs
<1>2. /\ IsFiniteSet(Ids) /\ Ids \subseteq Int /\ \A id \in Ids : rows[id] \in [Columns -> Value]
      /\ IsClause(where, Columns)
  BY <1>1, QueryAssumption DEF Ids
<1>3. /\ DOMAIN indexes = 1 .. Len(indexes) /\ Len(indexes) \in Nat
      /\ \A k \in DOMAIN indexes : indexes[k] \in [cols : Seq(Columns) \ {<< >>}]
  <2> DEFINE T == [cols : Seq(Columns) \ {<< >>}]
  <2>1. indexes \in Seq(T)
    BY <1>1
  <2> HIDE DEF T
  <2>2. /\ DOMAIN indexes = 1 .. Len(indexes) /\ Len(indexes) \in Nat
        /\ \A k \in 1 .. Len(indexes) : indexes[k] \in T
    BY <2>1, LenProperties, ElementOfSeq
  <2> QED
    BY <2>2 DEF T
<1>4. ASSUME NEW k \in DOMAIN indexes
      PROVE  /\ indexes[k].cols \in Seq(Columns) /\ indexes[k].cols # << >>
             /\ DOMAIN indexes[k].cols \subseteq Nat /\ 1 \in DOMAIN indexes[k].cols
             /\ \A i \in DOMAIN indexes[k].cols : i >= 1 /\ indexes[k].cols[i] \in Columns
  <2>1. indexes[k].cols \in Seq(Columns) /\ indexes[k].cols # << >>
    BY <1>3
  <2> DEFINE c == indexes[k].cols
  <2> HIDE DEF c
  <2>2. /\ Len(c) \in Nat /\ DOMAIN c = 1 .. Len(c) /\ Len(c) # 0
        /\ \A i \in 1 .. Len(c) : c[i] \in Columns
    BY <2>1, EmptySeq, LenProperties, ElementOfSeq DEF c
  <2> QED
    BY <2>1, <2>2 DEF c
<1>5. /\ DOMAIN order \subseteq Nat
      /\ \A i \in DOMAIN order : order[i].col \in Columns /\ order[i].desc \in BOOLEAN
  <2>1. /\ Len(order) \in Nat /\ DOMAIN order = 1 .. Len(order)
        /\ \A i \in 1 .. Len(order) : order[i] \in [col : Columns, desc : BOOLEAN]
    BY <1>1, LenProperties, ElementOfSeq
  <2> QED
    BY <2>1
<1>6. limit.count \in Int /\ limit.offset \in Nat
  BY <1>1
<1> QED
  BY <1>1, <1>2, <1>3, <1>4, <1>5, <1>6

LEMMA PlanIs ==
  ASSUME Planned
  PROVE  /\ plan.index \in 0 .. Len(indexes)
         /\ plan.index # 0 => plan.index \in DOMAIN indexes
         /\ plan.low \subseteq DOMAIN where /\ plan.high \subseteq DOMAIN where
         /\ plan.rest \subseteq DOMAIN where
<1>1. Inputs /\ plan = Scan(where, indexes)
  BY DEF Planned
<1>2. /\ DOMAIN indexes = 1 .. Len(indexes) /\ Len(indexes) \in Nat /\ IsClause(where, Columns)
      /\ DOMAIN indexes \subseteq Nat
  BY <1>1, InputsAre
<1>3. plan.index = Best(where, indexes)
  BY <1>1 DEF Scan
<1>4. plan.index # 0 => plan.index \in DOMAIN indexes
  BY <1>2, <1>3, BestIsUsable
<1>5. /\ plan.rest = DOMAIN where \ (plan.low \cup plan.high)
      /\ \A i \in plan.low \cup plan.high : i \in DOMAIN where
  BY <1>1, <1>2, PlanBounds
<1> QED
  BY <1>2, <1>4, <1>5

\* The classes of a row's values in the columns of the index.
IndexKey(id) == [i \in DOMAIN Index.cols |-> Class[rows[id][Index.cols[i]]]]
ByRowid == {p \in Ids \X Ids : p[1] < p[2]}

LEMMA IndexIs ==
  ASSUME Planned, plan.index # 0
  PROVE  /\ Index.cols \in Seq(Columns) /\ DOMAIN Index.cols \in SUBSET Nat /\ 1 \in DOMAIN Index.cols
         /\ \A i \in DOMAIN Index.cols : i >= 1
         /\ \A id \in Ids : /\ IndexKey(id) \in [DOMAIN Index.cols -> Int]
                            /\ \A i \in DOMAIN Index.cols :
                                 /\ rows[id][Index.cols[i]] \in Value
                                 /\ IndexKey(id)[i] = Class[ScanEntry(id).vals[i]]
                            /\ DOMAIN ScanEntry(id).vals = DOMAIN Index.cols
                            /\ ScanEntry(id).vals[1] = rows[id][Index.cols[1]]
<1>1. Inputs /\ plan.index \in DOMAIN indexes
  BY PlanIs DEF Planned
<1> DEFINE c == Index.cols
<1>2. /\ c \in Seq(Columns) /\ DOMAIN c \in SUBSET Nat /\ 1 \in DOMAIN c
      /\ \A i \in DOMAIN c : i >= 1 /\ c[i] \in Columns
  BY <1>1, InputsAre DEF Index
<1> HIDE DEF c
<1>3. \A id \in Ids : \A i \in DOMAIN c : rows[id][c[i]] \in Value
  BY <1>1, <1>2, InputsAre
<1>4. \A v \in Value : Class[v] \in Int
  BY PlannerAssumption
<1>5. \A id \in Ids : [i \in DOMAIN c |-> Class[rows[id][c[i]]]] \in [DOMAIN c -> Int]
  BY <1>3, <1>4
<1>6. \A id \in Ids : ScanEntry(id).vals = [i \in DOMAIN c |-> rows[id][c[i]]]
  BY DEF ScanEntry, ScanVals, c
<1>7. \A id \in Ids : IndexKey(id) = [i \in DOMAIN c |-> Class[rows[id][c[i]]]]
  BY DEF IndexKey, c
<1>8. \A id \in Ids : /\ \A i \in DOMAIN c : IndexKey(id)[i] = Class[ScanEntry(id).vals[i]]
                      /\ DOMAIN ScanEntry(id).vals = DOMAIN c
                      /\ ScanEntry(id).vals[1] = rows[id][c[1]]
  <2> SUFFICES ASSUME NEW id \in Ids
               PROVE  /\ \A i \in DOMAIN c : IndexKey(id)[i] = Class[ScanEntry(id).vals[i]]
                      /\ DOMAIN ScanEntry(id).vals = DOMAIN c
                      /\ ScanEntry(id).vals[1] = rows[id][c[1]]
    OBVIOUS
  <2> DEFINE x == ScanEntry(id).vals
             y == IndexKey(id)
  <2>1. /\ x = [i \in DOMAIN c |-> rows[id][c[i]]]
        /\ y = [i \in DOMAIN c |-> Class[rows[id][c[i]]]]
    BY <1>6, <1>7
  <2> HIDE DEF x, y
  <2>2. DOMAIN x = DOMAIN c /\ x[1] = rows[id][c[1]] /\ \A i \in DOMAIN c : y[i] = Class[x[i]]
    BY <1>2, <2>1
  <2> QED
    BY <2>2 DEF x, y
<1> QED
  BY <1>2, <1>3, <1>5, <1>7, <1>8 DEF c

LEMMA KeyLessIs ==
  ASSUME Planned, plan.index # 0, NEW id \in Ids, NEW jd \in Ids
  PROVE  KeyLess(ScanEntry(id), ScanEntry(jd)) <=>
           \/ LexLess(DOMAIN Index.cols, IndexKey(id), IndexKey(jd))
           \/ IndexKey(id) = IndexKey(jd) /\ id < jd
<1> DEFINE D == DOMAIN Index.cols
           x == IndexKey(id)
           y == IndexKey(jd)
           e == ScanEntry(id)
           f == ScanEntry(jd)
           differ == {i \in D : x[i] # y[i]}
<1>1. /\ D \in SUBSET Nat /\ x \in [D -> Int] /\ y \in [D -> Int]
      /\ \A i \in D : x[i] = Class[e.vals[i]] /\ y[i] = Class[f.vals[i]]
      /\ DOMAIN e.vals = D /\ e.id = id /\ f.id = jd
  BY IndexIs DEF ScanEntry
<1> HIDE DEF D, x, y, e, f
<1>2. differ = {i \in DOMAIN e.vals : Class[e.vals[i]] # Class[f.vals[i]]}
  BY <1>1
<1> HIDE DEF differ
<1>3. KeyLess(e, f) <=> IF differ = {} THEN id < jd
                        ELSE Class[e.vals[First(differ)]] < Class[f.vals[First(differ)]]
  BY <1>1, <1>2 DEF KeyLess
<1>4. /\ differ = {} <=> x = y
      /\ differ = {} => ~LexLess(D, x, y)
      /\ differ # {} => /\ LexLess(D, x, y) <=> x[First(differ)] < y[First(differ)]
                        /\ First(differ) \in D
  BY <1>1, LexFirst DEF differ
<1>5. KeyLess(e, f) <=> LexLess(D, x, y) \/ (x = y /\ id < jd)
  BY <1>1, <1>3, <1>4
<1> QED
  BY <1>5 DEF D, x, y, e, f

\* The scan comes to all rows, one after the other: a table's by rowid, those of
\* an index by their keys and then by rowid.
LEMMA ScanOrderIs ==
  ASSUME Planned
  PROVE  /\ StrictOrder(ScanOrder, Ids)
         /\ plan.index = 0 => ScanOrder = ByRowid
         /\ plan.index # 0 => /\ \A id, jd \in Ids :
                                   <<id, jd>> \in ScanOrder <=> KeyLess(ScanEntry(id), ScanEntry(jd))
                              /\ \A id, jd \in Ids :
                                   <<id, jd>> \in ScanOrder => IndexKey(id)[1] <= IndexKey(jd)[1]
<1>1. IsFiniteSet(Ids) /\ Ids \subseteq Int
  BY InputsAre DEF Planned
<1>2. StrictOrder(ByRowid, Ids)
  <2>1. \A a, b \in Ids : <<a, b>> \in ByRowid <=> a < b
    BY DEF ByRowid
  <2>2. ByRowid \subseteq Ids \X Ids
    BY DEF ByRowid
  <2>3. \A a, b \in Ids : a \in Int /\ b \in Int
    BY <1>1
  <2> QED
    BY <2>1, <2>2, <2>3 DEF StrictOrder
<1>3. plan.index = 0 => ScanOrder = ByRowid
  BY DEF ScanOrder, ByRowid, ScanLess
<1>4. ASSUME plan.index # 0
      PROVE  /\ StrictOrder(ScanOrder, Ids)
             /\ \A id, jd \in Ids : <<id, jd>> \in ScanOrder <=> KeyLess(ScanEntry(id), ScanEntry(jd))
             /\ \A id, jd \in Ids : <<id, jd>> \in ScanOrder => IndexKey(id)[1] <= IndexKey(jd)[1]
  <2> DEFINE D == DOMAIN Index.cols
             K == [id \in Ids |-> IndexKey(id)]
  <2>1. /\ D \in SUBSET Nat /\ 1 \in D /\ \A i \in D : i >= 1
        /\ \A id \in Ids : IndexKey(id) \in [D -> Int]
    BY <1>4, IndexIs
  <2> HIDE DEF D
  <2>2. K \in [Ids -> [D -> Int]] /\ \A id \in Ids : K[id] = IndexKey(id)
    BY <2>1
  <2>3. \A id, jd \in Ids : ScanLess(id, jd) <=> KeyLess(ScanEntry(id), ScanEntry(jd))
    <3>1. IndexEntries(indexes[plan.index]) = {ScanEntry(id) : id \in Ids}
      BY <1>4 DEF IndexEntries, ScanEntry, ScanVals, Index
    <3>2. \A id \in Ids : ScanEntry(id).id = id
      BY DEF ScanEntry
    <3> QED
      BY <1>4, <3>1, <3>2 DEF ScanLess
  <2>4. \A id, jd \in Ids : <<id, jd>> \in ScanOrder <=> KeyLess(ScanEntry(id), ScanEntry(jd))
    BY <2>3 DEF ScanOrder
  <2>5. \A id, jd \in Ids : <<id, jd>> \in ScanOrder <=>
                              \/ LexLess(D, IndexKey(id), IndexKey(jd))
                              \/ IndexKey(id) = IndexKey(jd) /\ id < jd
    BY <1>4, <2>4, KeyLessIs DEF D
  <2> HIDE DEF K
  <2>6. ScanOrder = LexThen(Ids, D, K, ByRowid)
    <3>1. ScanOrder \subseteq Ids \X Ids /\ LexThen(Ids, D, K, ByRowid) \subseteq Ids \X Ids
      BY DEF ScanOrder, LexThen
    <3>2. \A id, jd \in Ids : <<id, jd>> \in LexThen(Ids, D, K, ByRowid) <=>
                              \/ LexLess(D, IndexKey(id), IndexKey(jd))
                              \/ IndexKey(id) = IndexKey(jd) /\ id < jd
      BY <2>2 DEF LexThen, ByRowid
    <3> QED
      BY <2>5, <3>1, <3>2
  <2>7. StrictOrder(ScanOrder, Ids)
    BY <1>2, <2>1, <2>2, <2>6, LexThenOrder
  <2>8. ASSUME NEW id \in Ids, NEW jd \in Ids, <<id, jd>> \in ScanOrder
        PROVE  IndexKey(id)[1] <= IndexKey(jd)[1]
    <3> DEFINE x == IndexKey(id)
               y == IndexKey(jd)
    <3>1. x \in [D -> Int] /\ y \in [D -> Int] /\ (LexLess(D, x, y) \/ x = y)
      BY <2>1, <2>5, <2>8
    <3> HIDE DEF x, y
    <3>2. ASSUME LexLess(D, x, y) PROVE x[1] <= y[1]
      <4>1. PICK i \in D : x[i] < y[i] /\ \A j \in D : j < i => x[j] = y[j]
        BY <3>2 DEF LexLess
      <4>2. x[1] \in Int /\ y[1] \in Int /\ i \in Nat /\ i >= 1
        BY <2>1, <3>1
      <4>3. i = 1 \/ 1 < i
        BY <4>2
      <4> QED
        BY <2>1, <4>1, <4>2, <4>3
    <3>3. x[1] \in Int /\ y[1] \in Int
      BY <2>1, <3>1
    <3>4. x[1] <= y[1]
      BY <3>1, <3>2, <3>3
    <3> QED
      BY <3>4 DEF x, y
  <2> QED
    BY <2>4, <2>7, <2>8
<1> QED
  BY <1>2, <1>3, <1>4

LEMMA EntryOrderIs ==
  ASSUME Planned
  PROVE  /\ StrictOrder(EntryOrder, ScanEntries) /\ IsFiniteSet(ScanEntries)
         /\ \A e \in ScanEntries : e.id \in Ids /\ e = ScanEntry(e.id)
         /\ \A id \in Ids : ScanEntry(id) \in ScanEntries /\ ScanEntry(id).id = id
         /\ \A e, f \in ScanEntries : <<e, f>> \in EntryOrder <=> <<e.id, f.id>> \in ScanOrder
<1>1. \A id \in Ids : ScanEntry(id) \in ScanEntries /\ ScanEntry(id).id = id
  BY DEF ScanEntries, ScanEntry
<1>2. \A e \in ScanEntries : e.id \in Ids /\ e = ScanEntry(e.id)
  BY <1>1 DEF ScanEntries
<1>3. \A e, f \in ScanEntries : <<e, f>> \in EntryOrder <=> <<e.id, f.id>> \in ScanOrder
  BY DEF EntryOrder
<1>4. \A e, f \in ScanEntries : e.id = f.id => e = f
  BY <1>2
<1>5. EntryOrder \subseteq ScanEntries \X ScanEntries
  BY DEF EntryOrder
<1>6. StrictOrder(ScanOrder, Ids)
  BY ScanOrderIs
<1>7. StrictOrder(EntryOrder, ScanEntries)
  BY <1>2, <1>3, <1>4, <1>5, <1>6 DEF StrictOrder
<1> DEFINE g == [id \in Ids |-> ScanEntry(id)]
<1>8. g \in [Ids -> ScanEntries] /\ \A id \in Ids : g[id] = ScanEntry(id)
  BY <1>1
<1> HIDE DEF g
<1>9. \A e \in ScanEntries : \E id \in Ids : g[id] = e
  BY <1>2, <1>8
<1>10. g \in Surjection(Ids, ScanEntries)
  BY <1>8, <1>9 DEF Surjection
<1>11. IsFiniteSet(ScanEntries)
  BY <1>10, InputsAre, FS_Surjection DEF Planned
<1> QED
  BY <1>1, <1>2, <1>3, <1>7, <1>11

\* The classes that ORDER BY compares, turned round where it says DESC.
SortClass(id, i) ==
  IF order[i].desc THEN - Class[rows[id][order[i].col]] ELSE Class[rows[id][order[i].col]]
SortKey(id) == [i \in DOMAIN order |-> SortClass(id, i)]

LEMMA BeforeIs ==
  ASSUME Inputs, NEW id \in Ids, NEW jd \in Ids
  PROVE  /\ Before(id, jd) <=> LexLess(DOMAIN order, SortKey(id), SortKey(jd))
         /\ DOMAIN order \in SUBSET Nat /\ SortKey(id) \in [DOMAIN order -> Int]
<1> DEFINE D == DOMAIN order
           v(i) == Class[rows[id][order[i].col]]
           w(i) == Class[rows[jd][order[i].col]]
           x == SortKey(id)
           y == SortKey(jd)
           apart == {i \in D : v(i) # w(i)}
           differ == {i \in D : x[i] # y[i]}
<1>1. \A i \in D : v(i) \in Int /\ w(i) \in Int /\ order[i].desc \in BOOLEAN
  <2> SUFFICES ASSUME NEW i \in D PROVE v(i) \in Int /\ w(i) \in Int /\ order[i].desc \in BOOLEAN
    OBVIOUS
  <2>1. order[i].col \in Columns /\ order[i].desc \in BOOLEAN
    BY InputsAre
  <2>2. rows[id] \in [Columns -> Value] /\ rows[jd] \in [Columns -> Value]
    BY InputsAre
  <2>3. rows[id][order[i].col] \in Value /\ rows[jd][order[i].col] \in Value
    BY <2>1, <2>2
  <2> QED
    BY <2>1, <2>3, PlannerAssumption
<1>2. \A i \in D : /\ x[i] = IF order[i].desc THEN - v(i) ELSE v(i)
                   /\ y[i] = IF order[i].desc THEN - w(i) ELSE w(i)
  BY DEF SortKey, SortClass
<1>3. x = [i \in D |-> x[i]] /\ y = [i \in D |-> y[i]]
  BY DEF SortKey
<1>4. Before(id, jd) <=> apart # {} /\ (v(First(apart)) < w(First(apart))) # order[First(apart)].desc
  BY DEF Before
<1> HIDE DEF v, w, x, y
<1>5. \A i \in D : /\ x[i] \in Int /\ y[i] \in Int /\ (x[i] # y[i] <=> v(i) # w(i))
                   /\ x[i] # y[i] =>
                        ((x[i] < y[i]) <=> IF order[i].desc THEN ~(v(i) < w(i)) ELSE v(i) < w(i))
  BY <1>1, <1>2
<1>6. x \in [D -> Int] /\ y \in [D -> Int]
  BY <1>3, <1>5
<1>7. apart = differ
  BY <1>5
<1>8. D \in SUBSET Nat
  BY InputsAre
<1>9. /\ differ = {} => ~LexLess(D, x, y)
      /\ differ # {} => /\ LexLess(D, x, y) <=> x[First(differ)] < y[First(differ)]
                        /\ First(differ) \in D /\ x[First(differ)] # y[First(differ)]
  BY <1>6, <1>8, LexFirst
<1> HIDE DEF apart, differ, D
<1>10. Before(id, jd) <=> LexLess(D, x, y)
  <2>1. CASE differ = {}
    BY <1>4, <1>7, <1>9, <2>1
  <2>2. CASE differ # {}
    <3> DEFINE n == First(differ)
    <3>1. /\ n \in D /\ (LexLess(D, x, y) <=> x[n] < y[n]) /\ x[n] # y[n]
          /\ (Before(id, jd) <=> (v(n) < w(n)) # order[n].desc)
      BY <1>4, <1>7, <1>9, <2>2
    <3> HIDE DEF n
    <3>2. /\ order[n].desc \in BOOLEAN
          /\ (x[n] < y[n]) <=> IF order[n].desc THEN ~(v(n) < w(n)) ELSE v(n) < w(n)
      BY <1>1, <1>5, <3>1
    <3>3. CASE order[n].desc = TRUE
      BY <3>1, <3>2, <3>3
    <3>4. CASE order[n].desc = FALSE
      BY <3>1, <3>2, <3>4
    <3> QED
      BY <3>2, <3>3, <3>4
  <2> QED
    BY <2>1, <2>2
<1> QED
  BY <1>6, <1>8, <1>10 DEF D, x, y

\* The answer's order is one, and the scan's where there is no ORDER BY.
LEMMA AnswerOrderIs ==
  ASSUME Planned
  PROVE  /\ StrictOrder(AnswerOrder, Ids)
         /\ order = << >> => AnswerOrder = ScanOrder
         /\ \A id, jd \in Ids : <<id, jd>> \in AnswerOrder <=>
              Before(id, jd) \/ (~Before(jd, id) /\ <<id, jd>> \in ScanOrder)
         /\ \A id, jd \in Ids : Before(id, jd) => <<id, jd>> \in AnswerOrder /\ ~Before(jd, id)
<1> DEFINE D == DOMAIN order
           K == [id \in Ids |-> SortKey(id)]
<1>1. Inputs
  BY DEF Planned
<1>2. \A id, jd \in Ids : Before(id, jd) <=> LexLess(D, SortKey(id), SortKey(jd))
  BY <1>1, BeforeIs
<1>3. \A id \in Ids : SortKey(id) \in [D -> Int]
  BY <1>1, BeforeIs
<1>4. D \in SUBSET Nat
  BY <1>1, InputsAre
<1>5. StrictOrder(ScanOrder, Ids) /\ ScanOrder \subseteq Ids \X Ids
  BY ScanOrderIs DEF StrictOrder
<1>6. K \in [Ids -> [D -> Int]] /\ \A id \in Ids : K[id] = SortKey(id)
  BY <1>3
<1>7. order = << >> => D = {}
  OBVIOUS
<1> HIDE DEF D, K
<1>8. \A id, jd \in Ids : <<id, jd>> \in AnswerOrder <=>
        Before(id, jd) \/ (~Before(jd, id) /\ <<id, jd>> \in ScanOrder)
  BY DEF AnswerOrder
<1>9. /\ StrictOrder(LexThen(Ids, D, K, ScanOrder), Ids)
      /\ \A a, b \in Ids : <<a, b>> \in LexThen(Ids, D, K, ScanOrder) <=>
              LexLess(D, K[a], K[b]) \/ (~LexLess(D, K[b], K[a]) /\ <<a, b>> \in ScanOrder)
  BY <1>4, <1>5, <1>6, LexThenOrder
<1>10. AnswerOrder = LexThen(Ids, D, K, ScanOrder)
  <2>1. AnswerOrder \subseteq Ids \X Ids /\ LexThen(Ids, D, K, ScanOrder) \subseteq Ids \X Ids
    BY DEF AnswerOrder, LexThen
  <2>2. \A id, jd \in Ids : <<id, jd>> \in AnswerOrder <=> <<id, jd>> \in LexThen(Ids, D, K, ScanOrder)
    <3> SUFFICES ASSUME NEW id \in Ids, NEW jd \in Ids
                 PROVE  <<id, jd>> \in AnswerOrder <=> <<id, jd>> \in LexThen(Ids, D, K, ScanOrder)
      OBVIOUS
    <3>1. /\ LexLess(D, K[id], K[jd]) <=> Before(id, jd)
          /\ LexLess(D, K[jd], K[id]) <=> Before(jd, id)
      BY <1>2, <1>6
    <3>2. <<id, jd>> \in LexThen(Ids, D, K, ScanOrder) <=>
            LexLess(D, K[id], K[jd]) \/ (~LexLess(D, K[jd], K[id]) /\ <<id, jd>> \in ScanOrder)
      BY <1>9
    <3>3. <<id, jd>> \in AnswerOrder <=>
            Before(id, jd) \/ (~Before(jd, id) /\ <<id, jd>> \in ScanOrder)
      BY <1>8
    <3> QED
      BY <3>1, <3>2, <3>3
  <2> QED
    BY <2>1, <2>2
<1>11. ASSUME order = << >> PROVE AnswerOrder = ScanOrder
  <2>1. \A id, jd \in Ids : ~Before(id, jd)
    BY <1>2, <1>7, <1>11 DEF LexLess
  <2>2. \A id, jd \in Ids : <<id, jd>> \in AnswerOrder <=> <<id, jd>> \in ScanOrder
    BY <1>8, <2>1
  <2> QED
    BY <1>5, <2>2 DEF AnswerOrder
<1>12. \A id, jd \in Ids : Before(id, jd) => ~Before(jd, id)
  BY <1>2, <1>3, <1>4, LexOrder
<1> QED
  BY <1>8, <1>9, <1>10, <1>11, <1>12

-----------------------------------------------------------------------------
(* What the scan reads, and what it lets through.                          *)

LEMMA BoundsAre ==
  ASSUME Planned, NEW i \in plan.low \cup plan.high
  PROVE  /\ i \in DOMAIN where /\ Usable(where[i]) /\ where[i].lit \in Value /\ where[i].lit # Null
         /\ Class[where[i].lit] \in Int /\ Class[Null] \in Int /\ Class[Null] < Class[where[i].lit]
<1>1. plan = Scan(where, indexes) /\ IsClause(where, Columns) /\ DOMAIN indexes \subseteq Nat
  BY InputsAre DEF Planned
<1>2. i \in DOMAIN where /\ Usable(where[i])
  BY <1>1, PlanBounds
<1>3. where[i].kind = "compare" /\ where[i].lit # Null
  BY <1>2 DEF Usable
<1>4. where[i].lit \in Value
  BY <1>1, <1>2, <1>3 DEF IsClause
<1> QED
  BY <1>2, <1>3, <1>4, PlannerAssumption

\* Past the high bound nothing more is let through.
LEMMA PastIsLast ==
  ASSUME Planned, plan.index # 0, NEW e \in ScanEntries, NEW f \in ScanEntries,
         <<e, f>> \in EntryOrder, ~ToHigh(where, plan.high, e.vals[1])
  PROVE  ~Admits(f)
<1>1. /\ e.id \in Ids /\ f.id \in Ids /\ e = ScanEntry(e.id) /\ f = ScanEntry(f.id)
      /\ <<e.id, f.id>> \in ScanOrder
  BY EntryOrderIs
<1> DEFINE x == Class[e.vals[1]]
           y == Class[f.vals[1]]
<1>2. IndexKey(e.id)[1] <= IndexKey(f.id)[1]
  BY <1>1, ScanOrderIs
<1>3. /\ IndexKey(e.id)[1] = x /\ IndexKey(f.id)[1] = y
      /\ IndexKey(e.id)[1] \in Int /\ IndexKey(f.id)[1] \in Int
  BY <1>1, IndexIs
<1>4. x \in Int /\ y \in Int /\ x <= y
  BY <1>2, <1>3
<1>5. PICK i \in plan.high : ~ (x <= Class[where[i].lit] /\ (x = Class[where[i].lit] => Inclusive(where[i])))
  BY DEF ToHigh
<1>6. Class[where[i].lit] \in Int
  BY BoundsAre
<1> HIDE DEF x, y
<1>7. ~ (y <= Class[where[i].lit] /\ (y = Class[where[i].lit] => Inclusive(where[i])))
  BY <1>4, <1>5, <1>6
<1>8. ~ToHigh(where, plan.high, f.vals[1])
  BY <1>7 DEF ToHigh, y
<1> QED
  BY <1>8 DEF Admits

\* The cursor is opened before every row that is let through.
LEMMA OpenedIs ==
  ASSUME Planned
  PROVE  /\ Opened(plan) \in Seq(ScanEntries) /\ Ascending(Opened(plan), EntryOrder)
         /\ \A id \in Admitted : ScanEntry(id) \in Range(Opened(plan))
<1> DEFINE S == IF plan.index = 0 THEN ScanEntries
                ELSE {e \in ScanEntries : \A i \in plan.low : Class[e.vals[1]] >= Class[where[i].lit]}
           R == {p \in EntryOrder : p[1] \in S /\ p[2] \in S}
<1>1. S \in SUBSET ScanEntries
  OBVIOUS
<1>2. \A id \in Admitted : ScanEntry(id) \in S
  <2> SUFFICES ASSUME NEW id \in Admitted PROVE ScanEntry(id) \in S
    OBVIOUS
  <2>1. ScanEntry(id) \in ScanEntries /\ Admits(ScanEntry(id))
    BY DEF Admitted, ScanEntries
  <2>2. ASSUME plan.index # 0, NEW i \in plan.low
        PROVE  Class[ScanEntry(id).vals[1]] >= Class[where[i].lit]
    BY <2>1, <2>2 DEF Admits, FromLow
  <2> QED
    BY <2>1, <2>2
<1>3. plan.index = 0 => TableEntries = S
  BY DEF TableEntries, ScanEntries, ScanEntry, ScanVals
<1>4. plan.index # 0 =>
        {e \in IndexEntries(indexes[plan.index]) :
           \A i \in plan.low : Class[e.vals[1]] >= Class[where[i].lit]} = S
  <2> SUFFICES ASSUME plan.index # 0 PROVE IndexEntries(indexes[plan.index]) = ScanEntries
    OBVIOUS
  <2> QED
    BY DEF IndexEntries, ScanEntries, ScanEntry, ScanVals, Index
<1> HIDE DEF S
<1>5. /\ StrictOrder(EntryOrder, ScanEntries) /\ IsFiniteSet(ScanEntries) /\ IsFiniteSet(S)
      /\ EntryOrder \subseteq ScanEntries \X ScanEntries
  BY <1>1, EntryOrderIs, FS_Subset DEF StrictOrder
<1>6. \A e, f \in S : <<e, f>> \in R <=> <<e, f>> \in EntryOrder
  BY <1>1
<1>7. StrictOrder(R, S)
  <2>1. R \subseteq S \X S
    BY <1>1, <1>5
  <2> HIDE DEF R
  <2> QED
    BY <1>1, <1>5, <1>6, <2>1 DEF StrictOrder
<1> HIDE DEF R
<1> DEFINE r == ByRank(S, R)
           Good(s) == \A i, j \in DOMAIN s : i < j => <<s[i], s[j]>> \in EntryOrder
<1>8. r \in SetToSeqs(S) /\ Good(r)
  <2>1. r \in SetToSeqs(S) /\ r \in Seq(S) /\ Ascending(r, R)
    BY <1>5, <1>7, ByRankIs
  <2>2. \A i \in DOMAIN r : r[i] \in S
    BY <2>1, LenProperties, ElementOfSeq
  <2> QED
    BY <1>6, <2>1, <2>2 DEF Ascending
<1>9. \A s \in SetToSeqs(S) : \A i \in DOMAIN s : s[i] \in S
  BY DEF SetToSeqs
<1> HIDE DEF r
<1>10. Opened(plan) \in SetToSeqs(S) /\ Good(Opened(plan))
  <2>1. CASE plan.index = 0
    <3> DEFINE Less(s) == \A i, j \in DOMAIN s : i < j => s[i].id < s[j].id
    <3>1. ScanOrder = ByRowid
      BY <2>1, ScanOrderIs
    <3>2. \A e, f \in S : <<e, f>> \in EntryOrder <=> e.id < f.id
      BY <1>1, <3>1, EntryOrderIs DEF ByRowid
    <3>3. \A s \in SetToSeqs(S) : Less(s) <=> Good(s)
      BY <1>9, <3>2
    <3>4. Opened(plan) = CHOOSE s \in SetToSeqs(S) : Less(s)
      BY <1>3, <2>1 DEF Opened, InOrder
    <3> HIDE DEF Less, Good
    <3>5. \E s \in SetToSeqs(S) : Less(s)
      BY <1>8, <3>3
    <3> QED
      BY <3>3, <3>4, <3>5
  <2>2. CASE plan.index # 0
    <3> DEFINE Less(s) == \A i, j \in DOMAIN s : i < j => KeyLess(s[i], s[j])
    <3>1. \A e, f \in S : <<e, f>> \in EntryOrder <=> KeyLess(e, f)
      BY <1>1, <2>2, ScanOrderIs, EntryOrderIs
    <3>2. \A s \in SetToSeqs(S) : Less(s) <=> Good(s)
      BY <1>9, <3>1
    <3>3. Opened(plan) = CHOOSE s \in SetToSeqs(S) : Less(s)
      BY <1>4, <2>2 DEF Opened, InOrder
    <3> HIDE DEF Less, Good
    <3>4. \E s \in SetToSeqs(S) : Less(s)
      BY <1>8, <3>2
    <3> QED
      BY <3>2, <3>3, <3>4
  <2> QED
    BY <2>1, <2>2
<1>11. Opened(plan) \in Seq(S) /\ Range(Opened(plan)) = S
  BY <1>5, <1>10, SeqOfAll
<1>12. Opened(plan) \in Seq(ScanEntries)
  BY <1>1, <1>11, SeqMonotonic
<1> QED
  BY <1>2, <1>10, <1>11, <1>12 DEF Ascending

\* What is let through is what passes the clause, and the nulls below a high bound.
LEMMA AdmittedChosen ==
  ASSUME Planned
  PROVE  Admitted = Chosen
<1> SUFFICES ASSUME NEW id \in Ids PROVE id \in Admitted <=> id \in Chosen
  BY DEF Admitted, Chosen, Matching, Leaked
<1> DEFINE row == rows[id]
           col == LeadingCol(plan, indexes)
<1>1. /\ plan = Scan(where, indexes) /\ IsClause(where, Columns) /\ DOMAIN indexes \subseteq Nat
      /\ row \in [Columns -> Value]
  BY InputsAre DEF Planned
<1>2. /\ plan.index = 0 => plan.low = {} /\ plan.high = {}
      /\ plan.rest = DOMAIN where \ (plan.low \cup plan.high)
  BY <1>1, PlanBounds
<1>3. id \in Matching <=> Passes(where, DOMAIN where, row)
  BY DEF Matching
<1>4. ScanEntry(id).id = id
  BY DEF ScanEntry
<1>5. CASE plan.index = 0
  <2>1. plan.rest = DOMAIN where
    BY <1>2, <1>5
  <2>2. id \in Admitted <=> Passes(where, plan.rest, row)
    BY <1>4, <1>5 DEF Admitted, Admits
  <2>3. id \notin Leaked
    BY <1>5 DEF Leaked
  <2> QED
    BY <1>3, <2>1, <2>2, <2>3 DEF Chosen
<1>6. CASE plan.index # 0
  <2>1. ScanEntry(id).vals[1] = row[col]
    BY <1>6, IndexIs DEF LeadingCol, Index
  <2>2. id \in Admitted <=> /\ Passes(where, plan.rest, row)
                            /\ FromLow(where, plan.low, row[col]) /\ ToHigh(where, plan.high, row[col])
    BY <1>4, <1>6, <2>1 DEF Admitted, Admits
  <2>3. id \in Leaked <=> plan.low = {} /\ row[col] = Null /\ Passes(where, plan.rest, row)
    BY <1>6 DEF Leaked, LeadingCol
  <2> HIDE DEF col, row
  <2>4. id \in Matching => id \in Admitted
    BY <1>1, <1>3, <2>2, PlanLosesNoRow DEF col
  <2>5. id \in Admitted /\ id \notin Leaked => id \in Matching
    BY <1>1, <1>3, <2>2, <2>3, PlanAddsNoRow DEF col
  <2>6. id \in Leaked => id \in Admitted
    <3> SUFFICES ASSUME id \in Leaked PROVE FromLow(where, plan.low, row[col]) /\ ToHigh(where, plan.high, row[col])
      BY <2>2, <2>3
    <3>1. plan.low = {} /\ row[col] = Null
      BY <2>3
    <3>2. \A i \in plan.high : Class[Null] < Class[where[i].lit] /\ Class[Null] \in Int /\ Class[where[i].lit] \in Int
      BY BoundsAre
    <3> QED
      BY <3>1, <3>2 DEF FromLow, ToHigh
  <2> QED
    BY <2>4, <2>5, <2>6 DEF Chosen
<1> QED
  BY <1>5, <1>6

-----------------------------------------------------------------------------
(* The invariant.                                                          *)

Waiting == {e.id : e \in Range(cursor)}

\* The cursor has passed the rows that come first in the scan, and only those.
CursorInv ==
  /\ cursor \in Seq(ScanEntries) /\ Ascending(cursor, EntryOrder)
  /\ \A id \in Admitted \ Waiting, jd \in Waiting : <<id, jd>> \in ScanOrder

\* The sort has taken in the rows let through so far, in the order of the scan.
SortInv ==
  /\ order # << >> /\ answer = << >> /\ skipped = 0
  /\ sorted \in Seq(Ids) /\ Ascending(sorted, ScanOrder) /\ Range(sorted) = Admitted \ Waiting

\* Of the rows A that are due in the order R, those of left are to come; before
\* them the answer ans has been returned, and n rows skipped before that.
Gone(A, left, ans) == A \ (left \cup Range(ans))
Served(A, R, left, ans, n, lim) ==
  /\ left \subseteq A /\ ans \in Seq(A) /\ Ascending(ans, R) /\ n \in 0 .. lim.offset
  /\ \A a \in Range(ans), l \in left : <<a, l>> \in R
  /\ Cardinality(Gone(A, left, ans)) = n
  /\ \A g \in Gone(A, left, ans), a \in Range(ans) \cup left : <<g, a>> \in R
  /\ n < lim.offset => ans = << >>
  /\ lim.count >= 0 => Len(ans) <= lim.count

\* The rows let through that have not reached the limit.
Left == IF order = << >> THEN Admitted \cap Waiting ELSE Range(sorted)

RunInv ==
  /\ Served(Admitted, AnswerOrder, Left, answer, skipped, limit)
  /\ sorted \in Seq(Ids) /\ Ascending(sorted, AnswerOrder)
  /\ order = << >> => sorted = << >>
  /\ phase = "done" => Full \/ Left = {}

IInv ==
  /\ Inputs /\ phase \in {"plan", "sort", "run", "done"}
  /\ phase = "plan" =>
       /\ plan = [index |-> 0, low |-> {}, high |-> {}, rest |-> {}]
       /\ cursor = << >> /\ sorted = << >> /\ skipped = 0 /\ answer = << >>
  /\ phase # "plan" => Planned /\ CursorInv
  /\ phase = "sort" => SortInv
  /\ phase \in {"run", "done"} => RunInv

\* One row more reaches the limit: the first of those left.
LEMMA OneServed ==
  ASSUME NEW I, NEW R, StrictOrder(R, I), NEW A \in SUBSET I, IsFiniteSet(A),
         NEW left, NEW ans, NEW n, NEW lim, lim.offset \in Nat, lim.count \in Int,
         Served(A, R, left, ans, n, lim),
         ~ (n = lim.offset /\ lim.count >= 0 /\ Len(ans) >= lim.count),
         NEW x \in left, \A l \in left \ {x} : <<x, l>> \in R
  PROVE  /\ n < lim.offset => Served(A, R, left \ {x}, ans, n + 1, lim)
         /\ ~ (n < lim.offset) => Served(A, R, left \ {x}, Append(ans, x), n, lim)
<1> DEFINE rest == left \ {x}
           gone == Gone(A, left, ans)
<1>1. /\ left \subseteq A /\ ans \in Seq(A) /\ Ascending(ans, R) /\ n \in Nat /\ n <= lim.offset
      /\ \A a \in Range(ans), l \in left : <<a, l>> \in R
      /\ Cardinality(gone) = n
      /\ \A g \in gone, a \in Range(ans) \cup left : <<g, a>> \in R
      /\ n < lim.offset => ans = << >>
      /\ lim.count >= 0 => Len(ans) <= lim.count
  BY DEF Served
<1>2. gone = A \ (left \cup Range(ans)) /\ gone \subseteq A /\ IsFiniteSet(gone) /\ x \in A
  BY <1>1, FS_Subset DEF Gone
<1>3. Range(ans) \subseteq A /\ Len(ans) \in Nat
  BY <1>1, LenProperties, ElementOfSeq DEF Range
<1>4. x \notin Range(ans)
  BY <1>1, <1>2, <1>3 DEF StrictOrder
<1> HIDE DEF gone
<1>5. ASSUME n < lim.offset PROVE Served(A, R, rest, ans, n + 1, lim)
  <2>1. Range(ans) = {}
    BY <1>1, <1>5 DEF Range
  <2>2. Gone(A, rest, ans) = gone \cup {x} /\ x \notin gone
    BY <1>2, <2>1 DEF Gone
  <2>3. Cardinality(gone \cup {x}) = n + 1
    BY <1>1, <1>2, <2>2, FS_AddElement
  <2>4. \A g \in gone \cup {x}, a \in Range(ans) \cup rest : <<g, a>> \in R
    BY <1>1, <2>1
  <2>5. n + 1 \in 0 .. lim.offset
    BY <1>1, <1>5
  <2>6. ans = << >>
    BY <1>1, <1>5
  <2>7. rest \subseteq A /\ \A a \in Range(ans), l \in rest : <<a, l>> \in R
    BY <1>1
  <2> HIDE DEF rest
  <2> QED
    BY <1>1, <2>2, <2>3, <2>4, <2>5, <2>6, <2>7 DEF Served
<1>6. ASSUME ~ (n < lim.offset) PROVE Served(A, R, rest, Append(ans, x), n, lim)
  <2> DEFINE new == Append(ans, x)
  <2>1. /\ new \in Seq(A) /\ Ascending(new, R) /\ Range(new) = Range(ans) \cup {x}
        /\ Len(new) = Len(ans) + 1
    BY <1>1, <1>2, AppendAscends
  <2> HIDE DEF new
  <2>2. Gone(A, rest, new) = gone
    BY <1>2, <2>1 DEF Gone
  <2>3. \A g \in gone, a \in Range(new) \cup rest : <<g, a>> \in R
    BY <1>1, <2>1
  <2>4. rest \subseteq A /\ \A a \in Range(new), l \in rest : <<a, l>> \in R
    BY <1>1, <2>1
  <2>5. lim.count >= 0 => Len(new) <= lim.count
    BY <1>1, <1>3, <1>6, <2>1
  <2>6. n \in 0 .. lim.offset
    BY <1>1
  <2> HIDE DEF rest
  <2>7. Served(A, R, rest, new, n, lim)
    BY <1>1, <1>6, <2>1, <2>2, <2>3, <2>4, <2>5, <2>6 DEF Served
  <2> QED
    BY <2>7 DEF new
<1> QED
  BY <1>5, <1>6

\* Before the first, all are left.
LEMMA NoneServed ==
  ASSUME NEW A, NEW R, NEW lim, lim.offset \in Nat, lim.count \in Int
  PROVE  Served(A, R, A, << >>, 0, lim)
<1>1. Range(<< >>) = {} /\ << >> \in Seq(A) /\ Len(<< >>) = 0 /\ DOMAIN << >> = {}
  BY EmptySeq DEF Range
<1>2. Gone(A, A, << >>) = {} /\ Cardinality({}) = 0
  BY FS_EmptySet DEF Gone
<1> DEFINE none == << >>
<1>3. Ascending(none, R)
  BY <1>1 DEF Ascending
<1>4. 0 \in 0 .. lim.offset /\ (lim.count >= 0 => 0 <= lim.count)
  OBVIOUS
<1> HIDE DEF none
<1>5. Served(A, R, A, none, 0, lim)
  BY <1>1, <1>2, <1>3, <1>4 DEF Served, none
<1> QED
  BY <1>5 DEF none

-----------------------------------------------------------------------------
(* The initial states, and every step.                                     *)

\* Only Plan changes the plan, and no step the inputs.
LEMMA Same ==
  ASSUME UNCHANGED <<input, plan>>
  PROVE  /\ Inputs' = Inputs /\ Planned' = Planned /\ Ids' = Ids
         /\ order' = order /\ limit' = limit /\ plan' = plan
         /\ ScanOrder' = ScanOrder /\ ScanEntries' = ScanEntries /\ EntryOrder' = EntryOrder
         /\ AnswerOrder' = AnswerOrder /\ Admitted' = Admitted
<1>1. /\ rows' = rows /\ indexes' = indexes /\ where' = where /\ order' = order
      /\ limit' = limit /\ plan' = plan
  BY DEF input
<1>2. Inputs' = Inputs /\ Planned' = Planned /\ Ids' = Ids
  BY <1>1 DEF Inputs, Planned, Ids
<1>3. \A id : ScanEntry(id)' = ScanEntry(id)
  BY <1>1 DEF ScanEntry, ScanVals, Index
<1>4. ScanEntries' = ScanEntries
  BY <1>2, <1>3 DEF ScanEntries
<1>5. ScanOrder' = ScanOrder
  BY <1>1, <1>2 DEF ScanOrder, ScanLess, IndexEntries
<1>6. EntryOrder' = EntryOrder
  BY <1>4, <1>5 DEF EntryOrder
<1>7. AnswerOrder' = AnswerOrder
  BY <1>1, <1>2, <1>5 DEF AnswerOrder, Before
<1>8. Admitted' = Admitted
  BY <1>1, <1>2, <1>3 DEF Admitted, Admits
<1> QED
  BY <1>1, <1>2, <1>4, <1>5, <1>6, <1>7, <1>8

LEMMA AdmittedIs ==
  ASSUME Planned
  PROVE  /\ Admitted \in SUBSET Ids /\ IsFiniteSet(Admitted)
         /\ limit.count \in Int /\ limit.offset \in Nat
<1>1. Admitted \in SUBSET Ids
  BY DEF Admitted
<1> QED
  BY <1>1, InputsAre, FS_Subset DEF Planned

\* The scan opened, all that it will let through still waits.
LEMMA Opening ==
  /\ Planned /\ cursor = Opened(plan) /\ sorted = << >> /\ skipped = 0 /\ answer = << >>
  /\ phase = IF order = << >> THEN "run" ELSE "sort"
  => IInv
<1> SUFFICES ASSUME Planned, cursor = Opened(plan), sorted = << >>, skipped = 0, answer = << >>,
                    phase = IF order = << >> THEN "run" ELSE "sort"
             PROVE  IInv
  OBVIOUS
<1>1. cursor \in Seq(ScanEntries) /\ Ascending(cursor, EntryOrder)
  BY OpenedIs
<1>2. Admitted \subseteq Waiting
  <2>1. \A id \in Admitted : ScanEntry(id) \in Range(cursor) /\ ScanEntry(id).id = id
    BY OpenedIs DEF ScanEntry
  <2> QED
    BY <2>1 DEF Waiting
<1>3. CursorInv
  BY <1>1, <1>2 DEF CursorInv
<1> DEFINE none == << >>
<1>4. sorted = none /\ answer = none /\ none \in Seq(Ids) /\ Range(none) = {} /\ DOMAIN none = {}
  BY DEF Range
<1> HIDE DEF none
<1>5. Ascending(sorted, ScanOrder) /\ Ascending(sorted, AnswerOrder)
  BY <1>4 DEF Ascending
<1>6. CASE order # << >>
  <2>1. SortInv
    BY <1>2, <1>4, <1>5, <1>6 DEF SortInv
  <2> QED
    BY <1>3, <1>6, <2>1 DEF IInv, Planned
<1>7. CASE order = << >>
  <2>1. Left = Admitted
    BY <1>2, <1>7 DEF Left
  <2>2. Served(Admitted, AnswerOrder, Admitted, << >>, 0, limit)
    BY AdmittedIs, NoneServed
  <2>3. RunInv
    BY <1>4, <1>5, <1>7, <2>1, <2>2 DEF RunInv
  <2> QED
    BY <1>3, <1>7, <2>3 DEF IInv, Planned
<1> QED
  BY <1>6, <1>7

LEMMA PlanOpens ==
  ASSUME IInv, Plan
  PROVE  IInv'
<1>1. (/\ Planned /\ cursor = Opened(plan) /\ sorted = << >> /\ skipped = 0 /\ answer = << >>
       /\ phase = IF order = << >> THEN "run" ELSE "sort")'
      => IInv'
  BY Opening, PTL
<1>2. Inputs /\ sorted = << >> /\ skipped = 0 /\ answer = << >>
  BY DEF IInv, Plan
<1>3. Inputs' /\ where' = where /\ indexes' = indexes /\ order' = order
  BY <1>2 DEF Plan, input, Inputs
<1>4. Planned'
  BY <1>3 DEF Plan, Planned
<1>5. cursor' = Opened(plan)'
  <2>1. rows' = rows /\ indexes' = indexes /\ where' = where /\ cursor' = Opened(plan')
    BY DEF Plan, input
  <2> QED
    BY <2>1 DEF Opened, InOrder, TableEntries, IndexEntries, Ids
<1> QED
  BY <1>1, <1>2, <1>3, <1>4, <1>5 DEF Plan

\* The scan's next entry, and what it leaves to come.
LEMMA ScanSteps ==
  ASSUME Planned, CursorInv, cursor # << >>, UNCHANGED <<input, plan>>,
         NEW e, e = Head(cursor),
         NEW past, past <=> plan.index # 0 /\ ~ToHigh(where, plan.high, e.vals[1]),
         NEW short, short <=> plan.index # 0 /\ ~FromLow(where, plan.low, e.vals[1]),
         cursor' = IF past /\ ~short THEN << >> ELSE Tail(cursor)
  PROVE  /\ CursorInv' /\ e.id \in Waiting /\ e.id \in Ids /\ e.id \notin Waiting'
         /\ \A jd \in Waiting' : <<e.id, jd>> \in ScanOrder
         /\ e.id \in Admitted <=> ~ (past \/ short \/ ~Passes(where, plan.rest, rows[e.id]))
         /\ Admitted \cap Waiting' = (Admitted \cap Waiting) \ {e.id}
         /\ e.id \in Admitted => Admitted \ Waiting' = (Admitted \ Waiting) \cup {e.id}
         /\ e.id \notin Admitted => Admitted \ Waiting' = Admitted \ Waiting
<1>1. /\ cursor \in Seq(ScanEntries) /\ Ascending(cursor, EntryOrder)
      /\ \A id \in Admitted \ Waiting, jd \in Waiting : <<id, jd>> \in ScanOrder
  BY DEF CursorInv
<1>2. StrictOrder(EntryOrder, ScanEntries)
  BY EntryOrderIs
<1>3. /\ e \in ScanEntries /\ e \in Range(cursor)
      /\ Tail(cursor) \in Seq(ScanEntries) /\ Ascending(Tail(cursor), EntryOrder)
      /\ Range(Tail(cursor)) = Range(cursor) \ {e}
      /\ \A f \in Range(Tail(cursor)) : <<e, f>> \in EntryOrder
  BY <1>1, <1>2, TailAscends
<1>4. Range(cursor) \subseteq ScanEntries
  BY <1>1, LenProperties, ElementOfSeq DEF Range
<1>5. \A f \in ScanEntries : f.id \in Ids /\ f = ScanEntry(f.id)
  BY EntryOrderIs
<1>6. e.id \in Ids /\ e.id \in Waiting /\ e = ScanEntry(e.id)
  BY <1>3, <1>5 DEF Waiting
<1>7. e.id \in Admitted <=> ~ (past \/ short \/ ~Passes(where, plan.rest, rows[e.id]))
  BY <1>6 DEF Admitted, Admits
<1> DEFINE none == << >>
<1>8. none \in Seq(ScanEntries) /\ Ascending(none, EntryOrder) /\ Range(none) = {}
  <2>1. none \in Seq(ScanEntries) /\ DOMAIN none = {} /\ Range(none) = {}
    BY DEF Range
  <2> HIDE DEF none
  <2> QED
    BY <2>1 DEF Ascending
<1>9. cursor' = none \/ cursor' = Tail(cursor)
  OBVIOUS
<1> HIDE DEF none
<1>10. /\ cursor' \in Seq(ScanEntries) /\ Ascending(cursor', EntryOrder)
       /\ Range(cursor') \subseteq Range(Tail(cursor))
  BY <1>3, <1>8, <1>9
<1>11. Waiting' = {f.id : f \in Range(cursor')}
  BY DEF Waiting, Range
<1>12. Waiting' \subseteq Waiting
  BY <1>3, <1>10, <1>11 DEF Waiting
<1>13. \A jd \in Waiting' : <<e.id, jd>> \in ScanOrder
  <2> SUFFICES ASSUME NEW f \in Range(cursor') PROVE <<e.id, f.id>> \in ScanOrder
    BY <1>11
  <2>1. f \in ScanEntries /\ <<e, f>> \in EntryOrder
    BY <1>3, <1>4, <1>10
  <2> QED
    BY <1>3, <2>1, EntryOrderIs
<1>14. e.id \notin Waiting'
  BY <1>6, <1>13, ScanOrderIs DEF StrictOrder
<1>15. \A id \in (Admitted \cap Waiting) \ Waiting' : id = e.id
  <2> SUFFICES ASSUME NEW f \in Range(cursor), f.id \in Admitted, f.id \notin Waiting', f # e
               PROVE  FALSE
    BY DEF Waiting
  <2>1. f \in Range(Tail(cursor)) /\ f \in ScanEntries /\ f = ScanEntry(f.id)
    BY <1>3, <1>4, <1>5
  <2>2. cursor' # Tail(cursor)
    BY <1>11, <2>1
  <2>3. past
    BY <2>2
  <2>4. ~Admits(f)
    BY <1>3, <2>1, <2>3, PastIsLast
  <2> QED
    BY <2>1, <2>4 DEF Admitted
<1>16. /\ Admitted \cap Waiting' = (Admitted \cap Waiting) \ {e.id}
       /\ e.id \in Admitted => Admitted \ Waiting' = (Admitted \ Waiting) \cup {e.id}
       /\ e.id \notin Admitted => Admitted \ Waiting' = Admitted \ Waiting
  BY <1>6, <1>12, <1>14, <1>15
<1>17. CursorInv'
  <2>1. \A id \in Admitted \ Waiting', jd \in Waiting' : <<id, jd>> \in ScanOrder
    BY <1>1, <1>12, <1>13, <1>15
  <2> HIDE DEF Waiting
  <2> QED
    BY <1>10, <2>1, Same DEF CursorInv, Ascending
<1> QED
  BY <1>6, <1>7, <1>13, <1>14, <1>16, <1>17

LEMMA DeliverServes ==
  ASSUME Planned, phase = "run", RunInv, ~Full, NEW id \in Left, Deliver(id),
         \A l \in Left \ {id} : <<id, l>> \in AnswerOrder
  PROVE  Served(Admitted, AnswerOrder, Left \ {id}, answer', skipped', limit)
<1> DEFINE rest == Left \ {id}
<1>1. /\ Served(Admitted, AnswerOrder, Left, answer, skipped, limit)
      /\ ~ (skipped = limit.offset /\ limit.count >= 0 /\ Len(answer) >= limit.count)
  BY DEF RunInv, Full
<1>2. /\ StrictOrder(AnswerOrder, Ids) /\ Admitted \in SUBSET Ids /\ IsFiniteSet(Admitted)
      /\ limit.count \in Int /\ limit.offset \in Nat
  BY AnswerOrderIs, AdmittedIs
<1>3. /\ skipped < limit.offset => Served(Admitted, AnswerOrder, rest, answer, skipped + 1, limit)
      /\ ~ (skipped < limit.offset) =>
           Served(Admitted, AnswerOrder, rest, Append(answer, id), skipped, limit)
  BY <1>1, <1>2, OneServed
<1> HIDE DEF rest
<1>4. Served(Admitted, AnswerOrder, rest, answer', skipped', limit)
  <2>1. CASE skipped < limit.offset
    BY <1>3, <2>1 DEF Deliver
  <2>2. CASE ~ (skipped < limit.offset)
    BY <1>3, <2>2 DEF Deliver
  <2> QED
    BY <2>1, <2>2
<1> QED
  BY <1>4 DEF rest

LEMMA ScanRowKeeps ==
  ASSUME IInv, ScanRow
  PROVE  IInv'
<1> DEFINE e == Head(cursor)
           past == plan.index # 0 /\ ~ToHigh(where, plan.high, e.vals[1])
           short == plan.index # 0 /\ ~FromLow(where, plan.low, e.vals[1])
           drop == past \/ short \/ ~Passes(where, plan.rest, rows[e.id])
<1>1. /\ phase = "sort" \/ (phase = "run" /\ order = << >> /\ ~Full)
      /\ cursor # << >> /\ UNCHANGED <<input, plan>> /\ phase' = phase
      /\ cursor' = IF past /\ ~short THEN << >> ELSE Tail(cursor)
      /\ drop => UNCHANGED <<sorted, skipped, answer>>
      /\ ~drop /\ phase = "sort" => sorted' = Append(sorted, e.id) /\ UNCHANGED <<skipped, answer>>
      /\ ~drop /\ phase # "sort" => Deliver(e.id) /\ UNCHANGED sorted
  BY DEF ScanRow
<1>2. Inputs /\ Planned /\ CursorInv
  BY <1>1 DEF IInv
<1>3. /\ CursorInv' /\ e.id \in Waiting /\ e.id \in Ids /\ e.id \notin Waiting'
      /\ \A jd \in Waiting' : <<e.id, jd>> \in ScanOrder
      /\ e.id \in Admitted <=> ~drop
      /\ Admitted \cap Waiting' = (Admitted \cap Waiting) \ {e.id}
      /\ e.id \in Admitted => Admitted \ Waiting' = (Admitted \ Waiting) \cup {e.id}
      /\ e.id \notin Admitted => Admitted \ Waiting' = Admitted \ Waiting
  BY <1>1, <1>2, ScanSteps
<1> HIDE DEF e, past, short, drop
<1>4. /\ Inputs' /\ Planned' /\ order' = order /\ limit' = limit /\ Ids' = Ids
      /\ ScanOrder' = ScanOrder /\ AnswerOrder' = AnswerOrder /\ Admitted' = Admitted
  BY <1>1, <1>2, Same
<1>5. CASE phase = "sort"
  <2>1. /\ order # << >> /\ answer = << >> /\ skipped = 0
        /\ sorted \in Seq(Ids) /\ Ascending(sorted, ScanOrder) /\ Range(sorted) = Admitted \ Waiting
    BY <1>5 DEF IInv, SortInv
  <2>2. answer' = << >> /\ skipped' = 0
    BY <1>1, <1>5, <2>1
  <2>3. sorted' \in Seq(Ids) /\ Ascending(sorted', ScanOrder) /\ Range(sorted') = Admitted \ Waiting'
    <3>1. CASE drop
      BY <1>1, <1>3, <2>1, <3>1
    <3>2. CASE ~drop
      <4>1. \A y \in Range(sorted) : <<y, e.id>> \in ScanOrder
        BY <1>2, <1>3, <2>1 DEF CursorInv
      <4>2. sorted' = Append(sorted, e.id)
        BY <1>1, <1>5, <3>2
      <4>3. /\ Append(sorted, e.id) \in Seq(Ids) /\ Ascending(Append(sorted, e.id), ScanOrder)
            /\ Range(Append(sorted, e.id)) = Range(sorted) \cup {e.id}
        BY <1>3, <2>1, <4>1, AppendAscends
      <4> QED
        BY <1>3, <2>1, <3>2, <4>2, <4>3
    <3> QED
      BY <3>1, <3>2
  <2>4. SortInv'
    BY <1>4, <2>1, <2>2, <2>3 DEF SortInv, Ascending, Range
  <2> QED
    BY <1>1, <1>3, <1>4, <1>5, <2>4 DEF IInv
<1>6. CASE phase = "run"
  <2>1. /\ order = << >> /\ ~Full /\ RunInv /\ Left = Admitted \cap Waiting
        /\ Served(Admitted, AnswerOrder, Left, answer, skipped, limit)
        /\ sorted \in Seq(Ids) /\ Ascending(sorted, AnswerOrder) /\ sorted = << >>
    BY <1>1, <1>6 DEF IInv, RunInv, Left
  <2>2. sorted' = sorted
    BY <1>1, <1>6
  <2>3. Left' = Admitted \cap Waiting'
    BY <1>4, <2>1 DEF Left
  <2>4. Served(Admitted, AnswerOrder, Left', answer', skipped', limit)
    <3>1. CASE drop
      BY <1>1, <1>3, <2>1, <2>3, <3>1
    <3>2. CASE ~drop
      <4>1. Deliver(e.id) /\ e.id \in Left /\ Left' = Left \ {e.id}
        BY <1>1, <1>3, <1>6, <2>1, <2>3, <3>2
      <4>2. \A l \in Left \ {e.id} : <<e.id, l>> \in AnswerOrder
        BY <1>2, <1>3, <2>1, <2>3, <4>1, AnswerOrderIs
      <4> QED
        BY <1>2, <1>6, <2>1, <4>1, <4>2, DeliverServes
    <3> QED
      BY <3>1, <3>2
  <2>5. RunInv'
    <3>1. phase' # "done" /\ order' = << >> /\ sorted' = << >>
      BY <1>1, <1>4, <1>6, <2>1, <2>2
    <3>2. sorted' \in Seq(Ids') /\ Ascending(sorted, AnswerOrder)'
      BY <1>4, <2>1, <2>2 DEF Ascending
    <3>3. Served(Admitted, AnswerOrder, Left, answer, skipped, limit)'
      BY <1>4, <2>4 DEF Served, Gone, Ascending, Range
    <3> QED
      BY <3>1, <3>2, <3>3 DEF RunInv
  <2> QED
    BY <1>1, <1>3, <1>4, <1>6, <2>5 DEF IInv
<1> QED
  BY <1>1, <1>5, <1>6

\* The stable sort: by the keys, and where they are the same as the scan came.
LEMMA StableSort ==
  ASSUME Planned, NEW s \in Seq(Ids), Ascending(s, ScanOrder),
         NEW t, t = [n \in DOMAIN s |-> s[CHOOSE i \in DOMAIN s : Place(s, i) = n]]
  PROVE  t \in Seq(Ids) /\ Ascending(t, AnswerOrder) /\ Range(t) = Range(s)
<1> DEFINE D == 1 .. Len(s)
           R == {p \in D \X D : <<s[p[1]], s[p[2]]>> \in AnswerOrder}
           r == ByRank(D, R)
<1>1. Len(s) \in Nat /\ DOMAIN s = D /\ \A i \in D : s[i] \in Ids /\ i \in Nat
  BY LenProperties, ElementOfSeq
<1>2. IsFiniteSet(D) /\ Cardinality(D) = Len(s)
  <2> DEFINE m == Len(s)
  <2>1. m \in Nat
    BY <1>1
  <2> HIDE DEF m
  <2>2. IsFiniteSet(1 .. m) /\ Cardinality(1 .. m) = m
    BY <2>1, FS_Interval
  <2> QED
    BY <2>2 DEF m
<1>3. /\ StrictOrder(AnswerOrder, Ids) /\ StrictOrder(ScanOrder, Ids)
      /\ \A id, jd \in Ids : <<id, jd>> \in AnswerOrder <=>
           Before(id, jd) \/ (~Before(jd, id) /\ <<id, jd>> \in ScanOrder)
      /\ \A id \in Ids : ~Before(id, id)
  BY AnswerOrderIs, ScanOrderIs
<1>4. \A i, j \in D : i < j => <<s[i], s[j]>> \in ScanOrder
  BY <1>1 DEF Ascending
<1>5. \A i, j \in D : <<i, j>> \in R <=> <<s[i], s[j]>> \in AnswerOrder
  OBVIOUS
<1>6. R \subseteq D \X D
  OBVIOUS
<1> HIDE DEF D, R
<1>7. \A i, j \in D : i = j \/ i < j \/ j < i
  BY <1>1
<1>8. \A i, j \in D : i # j => s[i] # s[j]
  BY <1>1, <1>3, <1>4, <1>7 DEF StrictOrder
<1>9. StrictOrder(R, D)
  <2>1. \A a \in D : <<a, a>> \notin R
    BY <1>1, <1>3, <1>5 DEF StrictOrder
  <2>2. \A a, b, c \in D : <<a, b>> \in R /\ <<b, c>> \in R => <<a, c>> \in R
    BY <1>1, <1>3, <1>5 DEF StrictOrder
  <2>3. \A a, b \in D : a = b \/ <<a, b>> \in R \/ <<b, a>> \in R
    BY <1>1, <1>3, <1>5, <1>8 DEF StrictOrder
  <2> QED
    BY <1>6, <2>1, <2>2, <2>3 DEF StrictOrder
<1>10. \A i \in D : Place(s, i) = Rank(D, R, i)
  <2> SUFFICES ASSUME NEW i \in D
               PROVE  {j \in D : Before(s[j], s[i]) \/ (j <= i /\ ~Before(s[i], s[j]))} = UpTo(D, R, i)
    BY <1>1 DEF Place, Rank
  <2> SUFFICES ASSUME NEW j \in D
               PROVE  Before(s[j], s[i]) \/ (j <= i /\ ~Before(s[i], s[j])) <=> j = i \/ <<j, i>> \in R
    BY DEF UpTo
  <2>1. s[i] \in Ids /\ s[j] \in Ids /\ i \in Nat /\ j \in Nat
    BY <1>1
  <2>2. CASE i = j
    BY <1>3, <2>1, <2>2
  <2>3. CASE j < i
    <3>1. <<s[j], s[i]>> \in ScanOrder /\ j <= i /\ j # i
      BY <1>4, <2>1, <2>3
    <3>2. <<j, i>> \in R <=> Before(s[j], s[i]) \/ ~Before(s[i], s[j])
      BY <1>3, <1>5, <2>1, <3>1
    <3> QED
      BY <3>1, <3>2
  <2>4. CASE i < j
    <3>1. <<s[j], s[i]>> \notin ScanOrder
      BY <1>3, <1>4, <2>1, <2>4 DEF StrictOrder
    <3> QED
      BY <1>3, <1>5, <2>1, <2>4, <3>1
  <2> QED
    BY <1>7, <2>2, <2>3, <2>4
<1>11. r \in Seq(D) /\ Ascending(r, R) /\ Range(r) = D /\ DOMAIN r = D
  <2>1. r \in Seq(D) /\ Ascending(r, R) /\ Range(r) = D
    BY <1>2, <1>9, ByRankIs
  <2>2. DOMAIN r = D
    BY <1>2 DEF D, ByRank
  <2> QED
    BY <2>1, <2>2
<1>12. \A n \in D : r[n] = CHOOSE i \in D : Rank(D, R, i) = n
  BY <1>2 DEF ByRank, D
<1> HIDE DEF r
<1>13. \A n \in D : (CHOOSE i \in D : Place(s, i) = n) = r[n]
  BY <1>10, <1>12
<1>14. \A n \in D : r[n] \in D
  BY <1>11 DEF Range
<1>15. DOMAIN t = D /\ \A n \in D : t[n] = s[r[n]] /\ t[n] \in Ids
  <2>1. t = [n \in D |-> s[CHOOSE i \in D : Place(s, i) = n]]
    BY <1>1
  <2>2. DOMAIN t = D /\ \A n \in D : t[n] = s[r[n]]
    BY <1>13, <2>1
  <2>3. \A n \in D : s[r[n]] \in Ids
    BY <1>1, <1>14
  <2> QED
    BY <2>2, <2>3
<1>16. t \in Seq(Ids)
  <2>1. t = [n \in D |-> t[n]]
    BY <1>1, <1>15
  <2>2. t \in [1 .. Len(s) -> Ids]
    BY <1>15, <2>1 DEF D
  <2> QED
    BY <1>1, <2>2, IsASeq
<1>17. Ascending(t, AnswerOrder)
  <2> SUFFICES ASSUME NEW i \in D, NEW j \in D, i < j PROVE <<t[i], t[j]>> \in AnswerOrder
    BY <1>15 DEF Ascending
  <2>1. <<r[i], r[j]>> \in R
    BY <1>11 DEF Ascending
  <2>2. t[i] = s[r[i]] /\ t[j] = s[r[j]] /\ r[i] \in D /\ r[j] \in D
    BY <1>14, <1>15
  <2> QED
    BY <1>5, <2>1, <2>2
<1>18. Range(t) = Range(s)
  <2>1. \A i \in D : \E n \in D : r[n] = i
    BY <1>11 DEF Range
  <2>2. Range(t) \subseteq Range(s)
    BY <1>1, <1>14, <1>15 DEF Range
  <2>3. ASSUME NEW i \in D PROVE s[i] \in Range(t)
    <3>1. PICK n \in D : r[n] = i
      BY <2>1
    <3> QED
      BY <1>15, <3>1 DEF Range
  <2>4. \A x \in Range(s) : \E i \in D : x = s[i]
    BY <1>1 DEF Range
  <2> QED
    BY <2>2, <2>3, <2>4
<1> QED
  BY <1>16, <1>17, <1>18

LEMMA SortKeeps ==
  ASSUME IInv, Sort
  PROVE  IInv'
<1>1. /\ phase = "sort" /\ phase' = "run" /\ cursor = << >>
      /\ UNCHANGED <<input, plan, cursor, skipped, answer>>
  BY DEF Sort
<1>2. Inputs /\ Planned /\ CursorInv /\ SortInv
  BY <1>1 DEF IInv
<1>3. /\ order # << >> /\ answer = << >> /\ skipped = 0
      /\ sorted \in Seq(Ids) /\ Ascending(sorted, ScanOrder) /\ Range(sorted) = Admitted \ Waiting
  BY <1>2 DEF SortInv
<1>4. Waiting = {}
  BY <1>1 DEF Waiting, Range
<1>5. /\ sorted' \in Seq(Ids) /\ Ascending(sorted', AnswerOrder) /\ Range(sorted') = Range(sorted)
  <2>1. sorted' = [n \in DOMAIN sorted |-> sorted[CHOOSE i \in DOMAIN sorted : Place(sorted, i) = n]]
    BY DEF Sort
  <2> QED
    BY <1>2, <1>3, <2>1, StableSort
<1>6. /\ Inputs' = Inputs /\ Planned' = Planned /\ order' = order /\ limit' = limit /\ Ids' = Ids
      /\ ScanOrder' = ScanOrder /\ ScanEntries' = ScanEntries /\ EntryOrder' = EntryOrder
      /\ AnswerOrder' = AnswerOrder /\ Admitted' = Admitted /\ cursor' = cursor
  BY <1>1, Same
<1>7. CursorInv'
  BY <1>2, <1>6 DEF CursorInv, Waiting, Ascending, Range
<1>8. Left' = Admitted
  BY <1>3, <1>4, <1>5, <1>6 DEF Left, Range
<1>9. Served(Admitted, AnswerOrder, Admitted, << >>, 0, limit)
  BY <1>2, AdmittedIs, NoneServed
<1>10. Served(Admitted, AnswerOrder, Left, answer, skipped, limit)'
  <2>1. answer' = << >> /\ skipped' = 0
    BY <1>1, <1>3
  <2>2. Served(Admitted', AnswerOrder', Left', answer', skipped', limit')
    BY <1>6, <1>8, <1>9, <2>1
  <2> QED
    BY <2>2 DEF Served, Gone, Ascending, Range
<1>11. RunInv'
  <2>1. sorted' \in Seq(Ids') /\ Ascending(sorted, AnswerOrder)' /\ order' # << >> /\ phase' # "done"
    BY <1>1, <1>3, <1>5, <1>6 DEF Ascending
  <2> QED
    BY <1>10, <2>1 DEF RunInv
<1> QED
  BY <1>1, <1>2, <1>6, <1>7, <1>11 DEF IInv

LEMMA SortedRowKeeps ==
  ASSUME IInv, SortedRow
  PROVE  IInv'
<1> DEFINE id == Head(sorted)
<1>1. /\ phase = "run" /\ order # << >> /\ ~Full /\ sorted # << >> /\ phase' = phase
      /\ sorted' = Tail(sorted) /\ Deliver(id) /\ UNCHANGED <<input, plan, cursor>>
  BY DEF SortedRow
<1>2. Inputs /\ Planned /\ CursorInv /\ RunInv
  BY <1>1 DEF IInv
<1>3. /\ Left = Range(sorted) /\ sorted \in Seq(Ids) /\ Ascending(sorted, AnswerOrder)
  BY <1>1, <1>2 DEF RunInv, Left
<1>4. /\ id \in Range(sorted) /\ Tail(sorted) \in Seq(Ids) /\ Ascending(Tail(sorted), AnswerOrder)
      /\ Range(Tail(sorted)) = Range(sorted) \ {id}
      /\ \A x \in Range(Tail(sorted)) : <<id, x>> \in AnswerOrder
  BY <1>1, <1>2, <1>3, AnswerOrderIs, TailAscends
<1> HIDE DEF id
<1>5. Served(Admitted, AnswerOrder, Left \ {id}, answer', skipped', limit)
  BY <1>1, <1>2, <1>3, <1>4, DeliverServes
<1>6. /\ Inputs' = Inputs /\ Planned' = Planned /\ order' = order /\ limit' = limit /\ Ids' = Ids
      /\ ScanOrder' = ScanOrder /\ ScanEntries' = ScanEntries /\ EntryOrder' = EntryOrder
      /\ AnswerOrder' = AnswerOrder /\ Admitted' = Admitted /\ cursor' = cursor
  BY <1>1, Same
<1>7. CursorInv'
  BY <1>2, <1>6 DEF CursorInv, Waiting, Ascending, Range
<1>8. Left' = Left \ {id}
  BY <1>1, <1>3, <1>4, <1>6 DEF Left, Range
<1>9. Served(Admitted, AnswerOrder, Left, answer, skipped, limit)'
  <2>1. Served(Admitted', AnswerOrder', Left', answer', skipped', limit')
    BY <1>5, <1>6, <1>8
  <2> QED
    BY <2>1 DEF Served, Gone, Ascending, Range
<1>10. RunInv'
  BY <1>1, <1>4, <1>6, <1>9 DEF RunInv, Ascending
<1> QED
  BY <1>1, <1>2, <1>6, <1>7, <1>10 DEF IInv

LEMMA DoneKeeps ==
  ASSUME IInv, Done
  PROVE  IInv'
<1>1. /\ phase = "run" /\ phase' = "done"
      /\ Full \/ IF order = << >> THEN cursor = << >> ELSE sorted = << >>
      /\ UNCHANGED <<input, plan, cursor, sorted, skipped, answer>>
  BY DEF Done
<1>2. Inputs /\ Planned /\ CursorInv /\ RunInv
  BY <1>1 DEF IInv
<1>3. Full \/ Left = {}
  <2>1. order = << >> /\ cursor = << >> => Left = {}
    BY DEF Left, Waiting, Range
  <2>2. order # << >> /\ sorted = << >> => Left = {}
    BY DEF Left, Range
  <2> QED
    BY <1>1, <2>1, <2>2
<1>4. /\ Inputs' = Inputs /\ Planned' = Planned /\ order' = order /\ limit' = limit /\ Ids' = Ids
      /\ ScanOrder' = ScanOrder /\ ScanEntries' = ScanEntries /\ EntryOrder' = EntryOrder
      /\ AnswerOrder' = AnswerOrder /\ Admitted' = Admitted /\ cursor' = cursor
      /\ sorted' = sorted /\ skipped' = skipped /\ answer' = answer
  BY <1>1, Same
<1>5. CursorInv'
  BY <1>2, <1>4 DEF CursorInv, Waiting, Ascending, Range
<1>6. Left' = Left /\ Full' = Full
  BY <1>4 DEF Left, Waiting, Range, Full
<1>7. RunInv'
  BY <1>2, <1>3, <1>4, <1>6 DEF RunInv, Served, Gone, Ascending, Range
<1> QED
  BY <1>1, <1>2, <1>4, <1>5, <1>7 DEF IInv

-----------------------------------------------------------------------------
(* What has been served, counted.                                          *)

\* The rows that were skipped and the first k of the answer.
Foremost(A, left, ans, k) == Gone(A, left, ans) \cup {ans[i] : i \in 1 .. k}

LEMMA ServedCount ==
  ASSUME NEW I, NEW R, StrictOrder(R, I), NEW A \in SUBSET I, IsFiniteSet(A),
         NEW left, NEW ans, NEW n, NEW lim, lim.offset \in Nat,
         Served(A, R, left, ans, n, lim)
  PROVE  /\ n \in Nat /\ Len(ans) \in Nat
         /\ \A k \in 0 .. Len(ans) : Cardinality(Foremost(A, left, ans, k)) = n + k
         /\ Cardinality(A) = n + Len(ans) + Cardinality(left) /\ IsFiniteSet(left)
<1>1. /\ left \subseteq A /\ ans \in Seq(A) /\ Ascending(ans, R) /\ n \in Nat
      /\ \A a \in Range(ans), l \in left : <<a, l>> \in R
      /\ Cardinality(Gone(A, left, ans)) = n
  BY DEF Served
<1> DEFINE m == Len(ans)
           gone == Gone(A, left, ans)
<1>2. m \in Nat /\ DOMAIN ans = 1 .. m /\ \A i \in 1 .. m : ans[i] \in A
  BY <1>1, LenProperties, ElementOfSeq
<1>3. /\ gone = A \ (left \cup Range(ans)) /\ IsFiniteSet(gone) /\ IsFiniteSet(left)
      /\ Cardinality(gone) = n /\ Cardinality(left) \in Nat
  BY <1>1, FS_Subset, FS_CardinalityType DEF Gone
<1> HIDE DEF m, gone
<1>4. \A i, j \in 1 .. m : i # j => ans[i] # ans[j]
  <2> SUFFICES ASSUME NEW i \in 1 .. m, NEW j \in 1 .. m, i # j PROVE ans[i] # ans[j]
    OBVIOUS
  <2>1. i < j \/ j < i
    BY <1>2
  <2>2. <<ans[i], ans[j]>> \in R \/ <<ans[j], ans[i]>> \in R
    BY <1>1, <1>2, <2>1 DEF Ascending
  <2>3. ans[i] \in I /\ ans[j] \in I
    BY <1>2
  <2> QED
    BY <2>2, <2>3 DEF StrictOrder
<1>5. ASSUME NEW k \in 0 .. m
      PROVE  /\ Cardinality(Foremost(A, left, ans, k)) = n + k
             /\ IsFiniteSet(Foremost(A, left, ans, k))
  <2> DEFINE D == 1 .. k
             X == {ans[i] : i \in D}
             g == [i \in D |-> ans[i]]
  <2>1. k \in Nat /\ \A i \in D : i \in 1 .. m
    BY <1>2
  <2>2. IsFiniteSet(D) /\ Cardinality(D) = k
    BY <2>1, FS_Interval
  <2>3. g \in [D -> X] /\ \A i \in D : g[i] = ans[i]
    OBVIOUS
  <2>4. \A x \in X : \E i \in D : x = ans[i]
    OBVIOUS
  <2>5. \A i \in D : ans[i] \in X
    OBVIOUS
  <2> HIDE DEF g, D, X
  <2>6. g \in Surjection(D, X)
    BY <2>3, <2>4 DEF Surjection
  <2>7. g \in Injection(D, X)
    BY <1>4, <2>1, <2>3 DEF Injection, IsInjective
  <2>8. IsFiniteSet(X) /\ Cardinality(X) = k
    BY <2>2, <2>6, <2>7, FS_Surjection
  <2>9. gone \cap X = {}
    BY <1>2, <1>3, <2>1, <2>4 DEF Range
  <2>10. Cardinality(gone \cap X) = 0
    BY <2>9, FS_EmptySet
  <2>11. Foremost(A, left, ans, k) = gone \cup X
    BY DEF Foremost, gone, X, D
  <2>12. /\ IsFiniteSet(gone \cup X)
         /\ Cardinality(gone \cup X) = Cardinality(gone) + Cardinality(X) - Cardinality(gone \cap X)
    BY <1>3, <2>8, FS_Union
  <2> QED
    BY <1>1, <1>3, <2>1, <2>8, <2>10, <2>11, <2>12
<1>6. Cardinality(A) = n + m + Cardinality(left)
  <2> DEFINE F == Foremost(A, left, ans, m)
  <2>1. Cardinality(F) = n + m /\ IsFiniteSet(F)
    BY <1>2, <1>5
  <2>2. F = gone \cup Range(ans)
    BY <1>2 DEF Foremost, gone, Range
  <2> HIDE DEF F
  <2>3. Range(ans) \subseteq A
    BY <1>2 DEF Range
  <2>4. \A a \in Range(ans) : a \notin left
    BY <1>1, <2>3 DEF StrictOrder
  <2>5. A = F \cup left /\ F \cap left = {}
    BY <1>1, <1>3, <2>2, <2>3, <2>4
  <2>6. Cardinality(F \cap left) = 0
    BY <2>5, FS_EmptySet
  <2>7. Cardinality(F \cup left) = Cardinality(F) + Cardinality(left) - Cardinality(F \cap left)
    BY <1>3, <2>1, FS_Union
  <2> QED
    BY <1>1, <1>2, <1>3, <2>1, <2>5, <2>6, <2>7
<1> QED
  BY <1>1, <1>2, <1>3, <1>5, <1>6 DEF m

\* When nothing is left, or the limit is reached, as much as was asked for is there.
LEMMA ServedLength ==
  ASSUME NEW I, NEW R, StrictOrder(R, I), NEW A \in SUBSET I, IsFiniteSet(A),
         NEW left, NEW ans, NEW n, NEW lim, lim.offset \in Nat, lim.count \in Int,
         Served(A, R, left, ans, n, lim),
         (n = lim.offset /\ lim.count >= 0 /\ Len(ans) >= lim.count) \/ left = {},
         NEW length,
         length = IF Cardinality(A) - lim.offset < 0 THEN 0 ELSE Cardinality(A) - lim.offset
  PROVE  Len(ans) = IF lim.count >= 0 /\ lim.count < length THEN lim.count ELSE length
<1> DEFINE m == Len(ans)
           l == Cardinality(left)
           o == lim.offset
           c == lim.count
           N == Cardinality(A)
<1>1. n \in Nat /\ m \in Nat /\ N = n + m + l /\ IsFiniteSet(left)
  BY ServedCount
<1>2. l \in Nat /\ (left = {} => l = 0)
  BY <1>1, FS_CardinalityType, FS_EmptySet
<1>3. n <= o /\ (n < o => m = 0) /\ (c >= 0 => m <= c)
  <2>1. n \in 0 .. lim.offset /\ (n < lim.offset => ans = << >>) /\ (c >= 0 => m <= c)
    BY DEF Served
  <2>2. Len(<< >>) = 0
    OBVIOUS
  <2> QED
    BY <2>1, <2>2
<1>4. o \in Nat /\ c \in Int /\ ((n = o /\ c >= 0 /\ m >= c) \/ l = 0)
  BY <1>2
<1>5. length = IF N - o < 0 THEN 0 ELSE N - o
  OBVIOUS
<1> HIDE DEF m, l, o, c, N
<1>6. m = IF c >= 0 /\ c < length THEN c ELSE length
  BY <1>1, <1>2, <1>3, <1>4, <1>5
<1> QED
  BY <1>6 DEF m, c

-----------------------------------------------------------------------------
(* The theorems.                                                           *)

\* In every state of every SELECT the rows that the plan lets through are those
\* that the cursor still holds, the sort holds, OFFSET dropped or the answer has,
\* each in exactly one of these places and in the order that it is due.
THEOREM PipelineInvariance == Spec => []IInv
<1>1. Init => IInv
  BY DEF Init, IInv, Inputs
<1>2. IInv /\ [Next]_vars => IInv'
  <2> SUFFICES ASSUME IInv, [Next]_vars PROVE IInv'
    OBVIOUS
  <2>1. CASE Plan
    BY <2>1, PlanOpens
  <2>2. CASE ScanRow
    BY <2>2, ScanRowKeeps
  <2>3. CASE Sort
    BY <2>3, SortKeeps
  <2>4. CASE SortedRow
    BY <2>4, SortedRowKeeps
  <2>5. CASE Done
    BY <2>5, DoneKeeps
  <2>6. CASE UNCHANGED vars
    <3>1. /\ Inputs' = Inputs /\ Planned' = Planned /\ order' = order /\ limit' = limit /\ Ids' = Ids
          /\ ScanOrder' = ScanOrder /\ ScanEntries' = ScanEntries /\ EntryOrder' = EntryOrder
          /\ AnswerOrder' = AnswerOrder /\ Admitted' = Admitted /\ cursor' = cursor /\ plan' = plan
          /\ sorted' = sorted /\ skipped' = skipped /\ answer' = answer /\ phase' = phase
      BY <2>6, Same DEF vars
    <3>2. Left' = Left /\ Full' = Full
      BY <3>1 DEF Left, Waiting, Range, Full
    <3>3. RunInv' = RunInv
      BY <3>1, <3>2 DEF RunInv, Served, Gone, Ascending, Range
    <3>4. CursorInv' = CursorInv /\ SortInv' = SortInv
      BY <3>1 DEF CursorInv, SortInv, Waiting, Ascending, Range
    <3> QED
      BY <3>1, <3>3, <3>4 DEF IInv
  <2> QED
    BY <2>1, <2>2, <2>3, <2>4, <2>5, <2>6 DEF Next
<1> QED
  BY <1>1, <1>2, PTL DEF Spec

\* The plan names an index that there is and conjuncts of the clause, and cursor,
\* sort and answer hold only rows of the table (planner.go:21-124, exec.go:81-333).
THEOREM PipelineTyping == Spec => []TypeOK
<1>1. ASSUME IInv PROVE TypeOK
  <2>1. Inputs /\ phase \in {"plan", "sort", "run", "done"}
    BY <1>1 DEF IInv
  <2>2. Len(indexes) \in Nat /\ limit.offset \in Nat
    BY <2>1, InputsAre
  <2> DEFINE none == << >>
  <2>3. none \in Seq(Ids) /\ DOMAIN none = {}
    OBVIOUS
  <2> HIDE DEF none
  <2>4. CASE phase = "plan"
    <3>1. /\ plan = [index |-> 0, low |-> {}, high |-> {}, rest |-> {}]
          /\ cursor = none /\ sorted = none /\ skipped = 0 /\ answer = none
      BY <1>1, <2>4 DEF IInv, none
    <3> QED
      BY <2>1, <2>2, <2>3, <3>1 DEF TypeOK
  <2>5. CASE phase # "plan"
    <3>1. Planned /\ CursorInv
      BY <1>1, <2>5 DEF IInv
    <3>2. \A i \in DOMAIN cursor : cursor[i].id \in Ids
      <4>1. \A i \in DOMAIN cursor : cursor[i] \in ScanEntries
        BY <3>1, LenProperties, ElementOfSeq DEF CursorInv
      <4> QED
        BY <3>1, <4>1, EntryOrderIs
    <3>3. sorted \in Seq(Ids) /\ answer \in Seq(Ids) /\ skipped \in 0 .. limit.offset
      <4>1. CASE phase = "sort"
        BY <1>1, <2>2, <2>3, <4>1 DEF IInv, SortInv, none
      <4>2. CASE phase # "sort"
        <5>1. sorted \in Seq(Ids) /\ answer \in Seq(Admitted) /\ skipped \in 0 .. limit.offset
          BY <1>1, <2>1, <2>5, <4>2 DEF IInv, RunInv, Served
        <5> QED
          BY <3>1, <5>1, AdmittedIs, SeqMonotonic
      <4> QED
        BY <4>1, <4>2
    <3> QED
      BY <2>1, <3>1, <3>2, <3>3, PlanIs DEF TypeOK
  <2> QED
    BY <2>4, <2>5
<1> QED
  BY <1>1, PipelineInvariance, PTL

\* Whatever the planner chose (planner.go:21-124), a finished SELECT has returned,
\* once each, the rows that LIMIT and OFFSET (exec.go:263-333) leave of all that
\* pass the clause, at their places in the order of ORDER BY.
THEOREM AnswerIsRight == Spec => []RightAnswer
<1>1. ASSUME IInv PROVE RightAnswer
  <2> SUFFICES ASSUME phase = "done" PROVE RightAnswer
    BY DEF RightAnswer
  <2>1. Planned /\ RunInv /\ (Full \/ Left = {})
    BY <1>1 DEF IInv, RunInv
  <2>2. Served(Admitted, AnswerOrder, Left, answer, skipped, limit)
    BY <2>1 DEF RunInv
  <2>3. /\ StrictOrder(AnswerOrder, Ids) /\ Admitted \in SUBSET Ids /\ IsFiniteSet(Admitted)
        /\ limit.count \in Int /\ limit.offset \in Nat /\ Admitted = Chosen
        /\ \A id, jd \in Ids : Before(id, jd) => <<id, jd>> \in AnswerOrder /\ ~Before(jd, id)
    BY <2>1, AnswerOrderIs, AdmittedIs, AdmittedChosen
  <2>4. /\ answer \in Seq(Admitted) /\ Ascending(answer, AnswerOrder)
        /\ skipped \in 0 .. limit.offset /\ (skipped < limit.offset => answer = << >>)
        /\ \A a \in Range(answer), l \in Left : <<a, l>> \in AnswerOrder
        /\ \A g \in Gone(Admitted, Left, answer), a \in Range(answer) \cup Left : <<g, a>> \in AnswerOrder
    BY <2>2 DEF Served
  <2>5. /\ Len(answer) \in Nat /\ DOMAIN answer = 1 .. Len(answer)
        /\ \A i \in 1 .. Len(answer) : answer[i] \in Admitted
    BY <2>4, LenProperties, ElementOfSeq
  <2>6. \A k \in 0 .. Len(answer) :
          Cardinality(Foremost(Admitted, Left, answer, k)) = skipped + k
    BY <2>2, <2>3, ServedCount
  <2> DEFINE left == Cardinality(Chosen) - limit.offset
             length == IF left < 0 THEN 0 ELSE left
  <2>7. Len(answer) = IF limit.count >= 0 /\ limit.count < length THEN limit.count ELSE length
    <3>1. (skipped = limit.offset /\ limit.count >= 0 /\ Len(answer) >= limit.count) \/ Left = {}
      BY <2>1 DEF Full
    <3>2. length = IF Cardinality(Admitted) - limit.offset < 0 THEN 0
                   ELSE Cardinality(Admitted) - limit.offset
      BY <2>3
    <3> HIDE DEF length
    <3> QED
      BY <2>2, <2>3, <3>1, <3>2, ServedLength
  <2>8. ASSUME NEW n \in DOMAIN answer
        PROVE  /\ answer[n] \in Chosen /\ \A m \in 1 .. n - 1 : answer[m] # answer[n]
               /\ Cardinality({id \in Chosen : Before(id, answer[n])}) < limit.offset + n
               /\ Cardinality({id \in Chosen : ~Before(answer[n], id)}) >= limit.offset + n
    <3> DEFINE a == answer[n]
               P(k) == Foremost(Admitted, Left, answer, k)
               B == {id \in Chosen : Before(id, a)}
               C == {id \in Chosen : ~Before(a, id)}
    <3>1. /\ n \in Nat /\ n >= 1 /\ n \in 0 .. Len(answer) /\ n - 1 \in 0 .. Len(answer)
          /\ a \in Admitted /\ a \in Ids /\ a \in Range(answer)
      BY <2>3, <2>5 DEF Range
    <3>2. skipped = limit.offset
      <4>1. answer # << >>
        BY <2>5, <3>1
      <4> QED
        BY <2>3, <2>4, <4>1
    <3>3. \A m \in 1 .. Len(answer) : /\ m < n => <<answer[m], a>> \in AnswerOrder
                                      /\ n < m => <<a, answer[m]>> \in AnswerOrder
      BY <2>4, <2>5 DEF Ascending
    <3>4. \A m \in 1 .. n - 1 : m \in 1 .. Len(answer) /\ m < n
      BY <2>5
    <3>5. \A m \in 1 .. n - 1 : answer[m] # a
      BY <2>3, <3>1, <3>3, <3>4 DEF StrictOrder
    <3>6. /\ Cardinality(P(n)) = limit.offset + n
          /\ Cardinality(P(n - 1)) = limit.offset + n - 1
      BY <2>3, <2>6, <3>1, <3>2
    <3> HIDE DEF a
    <3>7. \A id \in Admitted : <<id, a>> \in AnswerOrder => id \in P(n - 1)
      <4> SUFFICES ASSUME NEW id \in Admitted, <<id, a>> \in AnswerOrder PROVE id \in P(n - 1)
        OBVIOUS
      <4>1. <<a, id>> \notin AnswerOrder /\ id # a
        BY <2>3, <3>1 DEF StrictOrder
      <4>2. id \notin Left
        BY <2>4, <3>1, <4>1
      <4>3. CASE id \in Range(answer)
        <5>1. PICK m \in 1 .. Len(answer) : id = answer[m]
          BY <2>5, <4>3 DEF Range
        <5>2. m # n /\ ~ (n < m)
          BY <3>3, <4>1, <5>1 DEF a
        <5>3. m \in 1 .. n - 1
          BY <2>5, <3>1, <5>2
        <5> QED
          BY <5>1, <5>3 DEF Foremost
      <4>4. CASE id \notin Range(answer)
        BY <4>2, <4>4 DEF Foremost, Gone
      <4> QED
        BY <4>3, <4>4
    <3>8. \A id \in P(n) : id \in Admitted /\ (id = a \/ <<id, a>> \in AnswerOrder)
      <4>1. \A id \in Gone(Admitted, Left, answer) : id \in Admitted /\ <<id, a>> \in AnswerOrder
        BY <2>4, <3>1 DEF Gone
      <4>2. ASSUME NEW m \in 1 .. n
            PROVE  answer[m] \in Admitted /\ (answer[m] = a \/ <<answer[m], a>> \in AnswerOrder)
        <5>1. m \in 1 .. Len(answer) /\ (m = n \/ m < n)
          BY <2>5
        <5> QED
          BY <2>5, <3>3, <5>1 DEF a
      <4> QED
        BY <4>1, <4>2 DEF Foremost
    <3>9. B \subseteq P(n - 1) /\ P(n) \subseteq C
      <4>1. B \subseteq P(n - 1)
        BY <2>3, <3>1, <3>7
      <4>2. \A id \in P(n) : id \in Chosen /\ ~Before(a, id)
        BY <2>3, <3>1, <3>8 DEF StrictOrder
      <4> QED
        BY <4>1, <4>2
    <3>10. P(n - 1) \in SUBSET Admitted
      BY <2>5, <3>4 DEF Foremost, Gone
    <3> HIDE DEF P, B
    <3>11. IsFiniteSet(P(n - 1)) /\ B \in SUBSET P(n - 1) /\ P(n) \in SUBSET C /\ C \in SUBSET Admitted
      BY <2>3, <3>9, <3>10, FS_Subset
    <3> HIDE DEF C
    <3>12. /\ Cardinality(B) <= Cardinality(P(n - 1)) /\ IsFiniteSet(B)
           /\ IsFiniteSet(C) /\ Cardinality(P(n)) <= Cardinality(C)
      BY <2>3, <3>11, FS_Subset
    <3>13. Cardinality(B) \in Nat /\ Cardinality(C) \in Nat
      BY <3>12, FS_CardinalityType
    <3>14. Cardinality(B) < limit.offset + n /\ Cardinality(C) >= limit.offset + n
      BY <2>3, <3>1, <3>6, <3>12, <3>13
    <3> QED
      BY <2>3, <3>1, <3>5, <3>14 DEF a, B, C
  <2> QED
    BY <2>7, <2>8 DEF RightAnswer
<1> QED
  BY <1>1, PipelineInvariance, PTL

\* The sort is stable (exec.go:213), and filter and limit keep the order: of two
\* rows of an answer that ORDER BY does not tell apart, the first the scan came to
\* is the first returned.
THEOREM TiesKeepTheScan == Spec => []TiesInScanOrder
<1>1. ASSUME IInv PROVE TiesInScanOrder
  <2> SUFFICES ASSUME NEW n \in DOMAIN answer, NEW m \in 1 .. n - 1
               PROVE  Before(answer[m], answer[n]) \/ ScanLess(answer[m], answer[n])
    BY DEF TiesInScanOrder
  <2>1. answer # << >>
    OBVIOUS
  <2>2. Planned /\ RunInv
    BY <1>1, <2>1 DEF IInv, SortInv
  <2>3. answer \in Seq(Admitted) /\ Ascending(answer, AnswerOrder)
    BY <2>2 DEF RunInv, Served
  <2>4. m \in DOMAIN answer /\ m < n
    BY <2>3, LenProperties
  <2>5. <<answer[m], answer[n]>> \in AnswerOrder
    BY <2>3, <2>4 DEF Ascending
  <2> QED
    BY <2>5 DEF AnswerOrder, ScanOrder
<1> QED
  BY <1>1, PipelineInvariance, PTL
=============================================================================
