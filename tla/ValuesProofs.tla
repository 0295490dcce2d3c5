---------------------------- MODULE ValuesProofs ----------------------------
(***************************************************************************)
(* What the rest of the system takes for granted about values and rows,    *)
(* for every width of integers and every precision of reals: the order of  *)
(* values, the arithmetic of integers that wrap, the logic of WHERE, the   *)
(* bytes of a row, and the schema page.                                    *)
(***************************************************************************)
EXTENDS SchemaPage, FiniteSetTheorems, SequenceTheorems, WellFoundedInduction, TLAPS

\* The values a column can hold.
Numbers == {NewInteger(n) : n \in MinInt .. MaxInt} \cup {NewReal(h) : h \in Int}
SqlValues == {NewNull} \cup Numbers \cup {NewText(s) : s \in Seq(Characters)}

\* Those among which Compare is an order.  An odd integer beyond Mantissa is not one:
\* it equals a real that equals its neighbour too.
Sortable == {v \in SqlValues : Exact(v)}

LEMMA HalfIsPositive == Half \in Nat /\ Half > 0
  BY ValuesAssumption DEF Half

-----------------------------------------------------------------------------
(* Division with remainder.                                                *)

LEMMA DivMod ==
  ASSUME NEW n \in Int, NEW d \in Nat, d > 0
  PROVE  /\ n \div d \in Int /\ n % d \in Int /\ 0 <= n % d /\ n % d < d
         /\ n = d * (n \div d) + (n % d)
<1> DEFINE r == n % d
<1>1. n \div d \in Int /\ r \in Int /\ 0 <= r /\ r < d
  OBVIOUS
<1>2. \A m \in Int : m = n % d => \E q \in Int : n = d * q + m
  OBVIOUS
<1>3. PICK q \in Int : n = d * q + r
  BY <1>1, <1>2
<1> HIDE DEF r
<1>4. (d * q + r) \div d = q
  BY <1>1
<1>5. n \div d = q
  BY <1>3, <1>4, Zenon
<1>6. d * (n \div d) = d * q
  BY <1>5, Zenon
<1>7. n = d * (n \div d) + r
  BY <1>3, <1>6, Zenon
<1> QED
  BY <1>1, <1>7, Zenon DEF r

\* Wrapping leaves a number that fits alone, and forgets multiples of 2 * Half only.
LEMMA WrapFits ==
  ASSUME NEW n \in Int
  PROVE  /\ Wrap(n) \in MinInt .. MaxInt
         /\ \E k \in Int : Wrap(n) = n + (2 * Half) * k
<1> DEFINE M == 2 * Half
           m == n + Half
<1>1. Half \in Nat /\ Half > 0 /\ M \in Nat /\ M > 0 /\ m \in Int
  BY HalfIsPositive
<1>2. /\ m \div M \in Int /\ m % M \in Int /\ 0 <= m % M /\ m % M < M
      /\ m = M * (m \div M) + (m % M)
  <2> HIDE DEF M, m
  <2> QED
    BY <1>1, DivMod
<1>3. Wrap(n) = (m % M) - Half
  BY DEF Wrap
<1> DEFINE k == -(m \div M)
<1>4. k \in Int /\ M * k = -(M * (m \div M))
  <2> HIDE DEF M, m
  <2> QED
    BY <1>1, <1>2
<1>5. m % M = m + M * k
  <2> HIDE DEF k, M, m
  <2>1. M * (m \div M) \in Int /\ M * k \in Int
    BY <1>1, <1>2, <1>4
  <2> QED
    BY <1>1, <1>2, <1>4, <2>1
<1>6. Wrap(n) = n + M * k
  <2>1. M * k \in Int
    <3> HIDE DEF k, M
    <3> QED
      BY <1>1, <1>4
  <2> HIDE DEF k, M
  <2> QED
    BY <1>1, <1>3, <1>5, <2>1
<1>7. Wrap(n) \in MinInt .. MaxInt
  <2> HIDE DEF m
  <2> QED
    BY <1>1, <1>2, <1>3 DEF MinInt, MaxInt
<1> QED
  BY <1>4, <1>6, <1>7

LEMMA WrapIsUnique ==
  ASSUME NEW n \in MinInt .. MaxInt, NEW k \in Int
  PROVE  Wrap(n + (2 * Half) * k) = n
<1> DEFINE M == 2 * Half
           r == n + Half
<1>1. Half \in Nat /\ Half > 0 /\ M \in Nat /\ M > 0
  BY HalfIsPositive
<1>2. r \in Int /\ 0 <= r /\ r < M
  BY <1>1 DEF MinInt, MaxInt
<1>3. n \in Int /\ M * k \in Int
  <2> HIDE DEF M
  <2> QED
    BY <1>1 DEF MinInt, MaxInt
<1>4. (n + M * k) + Half = M * k + r
  <2> HIDE DEF M
  <2> QED
    BY <1>1, <1>3
<1>5. (M * k + r) % M = r
  <2> HIDE DEF M, r
  <2> QED
    BY <1>1, <1>2
<1>6. ((n + M * k) + Half) % M = r
  <2> HIDE DEF M, r
  <2> QED
    BY <1>4, <1>5, Zenon
<1>7. Wrap(n + M * k) = (((n + M * k) + Half) % M) - Half
  BY Zenon DEF Wrap
<1>8. Wrap(n + M * k) = r - Half
  <2> HIDE DEF M, r
  <2> QED
    BY <1>6, <1>7, Zenon
<1>9. r - Half = n
  BY <1>1, <1>3
<1> QED
  BY <1>8, <1>9, Zenon
-----------------------------------------------------------------------------
(* Texts: their first difference decides, or their lengths.                *)

LEMMA CodesDiffer ==
  ASSUME NEW c \in Characters, NEW d \in Characters
  PROVE  /\ Code(c) \in Int /\ Alphabet[Code(c)] = c
         /\ Code(c) = Code(d) => c = d
<1>1. Code(c) \in DOMAIN Alphabet /\ Alphabet[Code(c)] = c
  BY DEF Code, Characters
<1>2. Alphabet[Code(d)] = d
  BY DEF Code, Characters
<1> QED
  BY <1>1, <1>2, ValuesAssumption

\* s and t are alike up to n, and what follows there makes them compare as c.
DiffersAt(s, t, n, c) ==
  /\ n \in Nat /\ n <= Len(s) /\ n <= Len(t)
  /\ \A j \in 1 .. n : s[j] = t[j]
  /\ \/ (n = Len(s) \/ n = Len(t)) /\ c = Sign(Len(s) - Len(t))
     \/ /\ n < Len(s) /\ n < Len(t) /\ Code(s[n + 1]) # Code(t[n + 1])
        /\ c = Sign(Code(s[n + 1]) - Code(t[n + 1]))

LEMMA LeastOf ==
  ASSUME NEW I \in SUBSET Nat, I # {}
  PROVE  /\ (CHOOSE i \in I : \A j \in I : i <= j) \in I
         /\ \A k \in I : (CHOOSE i \in I : \A j \in I : i <= j) <= k
<1> DEFINE Less == {ss \in Nat \X Nat : ss[1] < ss[2]}
<1>1. IsWellFoundedOn(Less, Nat)
  BY NatLessThanWellFounded, Zenon DEF OpToRel
<1> HIDE DEF Less
<1>2. PICK x \in I : \A y \in I : ~ (<<y, x>> \in Less)
  BY <1>1, WFMin
<1>3. \A y \in I : x <= y
  <2> SUFFICES ASSUME NEW y \in I PROVE x <= y
    OBVIOUS
  <2>1. <<y, x>> \notin Less
    BY <1>2
  <2> QED
    BY <2>1 DEF Less
<1> QED
  BY <1>3

LEMMA CompareTextDiffers ==
  ASSUME NEW s \in Seq(Characters), NEW t \in Seq(Characters)
  PROVE  \E n \in Nat : DiffersAt(s, t, n, CompareText(s, t))
<1> DEFINE shorter == IF Len(s) < Len(t) THEN Len(s) ELSE Len(t)
           differ == {i \in 1 .. shorter : s[i] # t[i]}
           first == CHOOSE i \in differ : \A j \in differ : i <= j
<1>1. /\ Len(s) \in Nat /\ Len(t) \in Nat
      /\ \A j \in 1 .. Len(s) : s[j] \in Characters
      /\ \A j \in 1 .. Len(t) : t[j] \in Characters
  OBVIOUS
<1>2. shorter \in Nat /\ shorter <= Len(s) /\ shorter <= Len(t)
      /\ (shorter = Len(s) \/ shorter = Len(t))
  BY <1>1
<1>3. CompareText(s, t) = IF differ = {} THEN Sign(Len(s) - Len(t))
                          ELSE Sign(Code(s[first]) - Code(t[first]))
  BY DEF CompareText
<1>4. CASE differ = {}
  <2>1. \A j \in 1 .. shorter : s[j] = t[j]
    BY <1>4
  <2> HIDE DEF shorter
  <2>2. DiffersAt(s, t, shorter, CompareText(s, t))
    BY <1>2, <1>3, <1>4, <2>1 DEF DiffersAt
  <2> QED
    BY <1>2, <2>2
<1>5. CASE differ # {}
  <2>1. differ \in SUBSET Nat
    OBVIOUS
  <2>2. first \in differ /\ \A j \in differ : first <= j
    <3> HIDE DEF differ
    <3> QED
      BY <1>5, <2>1, LeastOf
  <2> HIDE DEF first
  <2>3. first \in 1 .. shorter /\ s[first] # t[first]
    BY <2>2
  <2>4. \A j \in 1 .. shorter : j < first => s[j] = t[j]
    BY <2>2, <2>3
  <2> HIDE DEF shorter, differ
  <2>5. first - 1 \in Nat /\ first - 1 < Len(s) /\ first - 1 < Len(t) /\ (first - 1) + 1 = first
    BY <1>1, <1>2, <2>3
  <2>6. \A j \in 1 .. first - 1 : s[j] = t[j]
    BY <1>2, <2>3, <2>4
  <2>7. Code(s[first]) # Code(t[first])
    <3>1. s[first] \in Characters /\ t[first] \in Characters
      BY <1>1, <1>2, <2>3
    <3> QED
      BY <2>3, <3>1, CodesDiffer
  <2>8. CompareText(s, t) = Sign(Code(s[first]) - Code(t[first]))
    BY <1>3, <1>5
  <2>9. DiffersAt(s, t, first - 1, CompareText(s, t))
    BY <1>1, <2>5, <2>6, <2>7, <2>8 DEF DiffersAt
  <2> QED
    BY <2>5, <2>9
<1> QED
  BY <1>4, <1>5

LEMMA DifferenceIsUnique ==
  ASSUME NEW s \in Seq(Characters), NEW t \in Seq(Characters), NEW n \in Nat, NEW m \in Nat,
         NEW c, NEW d, DiffersAt(s, t, n, c), DiffersAt(s, t, m, d)
  PROVE  n = m /\ c = d
<1>1. Len(s) \in Nat /\ Len(t) \in Nat
  OBVIOUS
<1>2. \A i, j \in Nat : \A e, f : DiffersAt(s, t, i, e) /\ DiffersAt(s, t, j, f) => ~(i < j)
  <2> SUFFICES ASSUME NEW i \in Nat, NEW j \in Nat, NEW e, NEW f,
                      DiffersAt(s, t, i, e), DiffersAt(s, t, j, f), i < j
               PROVE  FALSE
    OBVIOUS
  <2>1. j <= Len(s) /\ j <= Len(t) /\ \A k \in 1 .. j : s[k] = t[k]
    BY DEF DiffersAt
  <2>2. i < Len(s) /\ i < Len(t) /\ i + 1 \in 1 .. j
    BY <1>1, <2>1
  <2>3. s[i + 1] = t[i + 1]
    BY <2>1, <2>2
  <2> QED
    BY <1>1, <2>2, <2>3 DEF DiffersAt
<1>3. ~(n < m) /\ ~(m < n)
  BY <1>2
<1>4. n = m
  BY <1>3
<1> QED
  BY <1>1, <1>4 DEF DiffersAt

LEMMA SignMirrors ==
  ASSUME NEW x \in Int, NEW y \in Int
  PROVE  /\ Sign(x - y) = -Sign(y - x) /\ -Sign(x - y) = Sign(y - x)
         /\ Sign(x - y) \in {-1, 0, 1}
         /\ Sign(x - y) <= 0 <=> x <= y
         /\ Sign(x - y) = 0 <=> x = y
  BY DEF Sign

LEMMA DifferenceMirrors ==
  ASSUME NEW s \in Seq(Characters), NEW t \in Seq(Characters), NEW n \in Nat, NEW c,
         DiffersAt(s, t, n, c)
  PROVE  c \in {-1, 0, 1} /\ DiffersAt(t, s, n, -c) /\ (c = 0 => s = t)
<1>1. /\ Len(s) \in Nat /\ Len(t) \in Nat
      /\ \A j \in 1 .. Len(s) : s[j] \in Characters
      /\ \A j \in 1 .. Len(t) : t[j] \in Characters
  OBVIOUS
<1>2. n <= Len(s) /\ n <= Len(t) /\ \A j \in 1 .. n : s[j] = t[j]
  BY DEF DiffersAt
<1>3. CASE (n = Len(s) \/ n = Len(t)) /\ c = Sign(Len(s) - Len(t))
  <2>1. c \in {-1, 0, 1} /\ -c = Sign(Len(t) - Len(s)) /\ (c = 0 => Len(s) = Len(t))
    <3> DEFINE x == Len(s)
               y == Len(t)
    <3>1. x \in Int /\ y \in Int /\ c = Sign(x - y)
      BY <1>1, <1>3
    <3> HIDE DEF x, y
    <3>2. c \in {-1, 0, 1} /\ -c = Sign(y - x) /\ (c = 0 => x = y)
      BY <3>1, SignMirrors
    <3> QED
      BY <3>2 DEF x, y
  <2>2. c = 0 => s = t
    BY <1>1, <1>2, <1>3, <2>1
  <2>3. DiffersAt(t, s, n, -c)
    BY <1>1, <1>2, <1>3, <2>1 DEF DiffersAt
  <2> QED
    BY <2>1, <2>2, <2>3
<1>4. CASE /\ n < Len(s) /\ n < Len(t) /\ Code(s[n + 1]) # Code(t[n + 1])
           /\ c = Sign(Code(s[n + 1]) - Code(t[n + 1]))
  <2>1. s[n + 1] \in Characters /\ t[n + 1] \in Characters
    BY <1>1, <1>4
  <2>2. Code(s[n + 1]) \in Int /\ Code(t[n + 1]) \in Int
    BY <2>1, CodesDiffer
  <2>3. c \in {-1, 0, 1} /\ -c = Sign(Code(t[n + 1]) - Code(s[n + 1])) /\ c # 0
    BY <1>4, <2>2, SignMirrors
  <2> QED
    BY <1>1, <1>2, <1>4, <2>2, <2>3 DEF DiffersAt
<1> QED
  BY <1>3, <1>4 DEF DiffersAt

LEMMA DifferencesChain ==
  ASSUME NEW s \in Seq(Characters), NEW t \in Seq(Characters), NEW u \in Seq(Characters),
         NEW n \in Nat, NEW m \in Nat, NEW c \in Int, NEW d \in Int, c <= 0, d <= 0,
         DiffersAt(s, t, n, c), DiffersAt(t, u, m, d)
  PROVE  \E k \in Nat : \E e \in Int : e <= 0 /\ DiffersAt(s, u, k, e)
<1> DEFINE x == Len(s)
           y == Len(t)
           z == Len(u)
<1>1. /\ x \in Nat /\ y \in Nat /\ z \in Nat
      /\ \A j \in 1 .. x : s[j] \in Characters
      /\ \A j \in 1 .. y : t[j] \in Characters
      /\ \A j \in 1 .. z : u[j] \in Characters
  OBVIOUS
<1>2. /\ n <= x /\ n <= y /\ \A j \in 1 .. n : s[j] = t[j]
      /\ m <= y /\ m <= z /\ \A j \in 1 .. m : t[j] = u[j]
  BY DEF DiffersAt
<1>3. \/ (n = x \/ n = y) /\ x <= y
      \/ n < x /\ n < y /\ Code(s[n + 1]) < Code(t[n + 1])
  <2>1. CASE (n = x \/ n = y) /\ c = Sign(x - y)
    <3> HIDE DEF x, y
    <3>1. Sign(x - y) <= 0
      BY <2>1, Zenon
    <3> QED
      BY <1>1, <2>1, <3>1 DEF Sign
  <2>2. CASE n < x /\ n < y /\ Code(s[n + 1]) # Code(t[n + 1])
             /\ c = Sign(Code(s[n + 1]) - Code(t[n + 1]))
    <3> DEFINE p == Code(s[n + 1])
               q == Code(t[n + 1])
    <3>1. p \in Int /\ q \in Int
      BY <1>1, <2>2, CodesDiffer
    <3>2. p # q /\ c = Sign(p - q)
      BY <2>2
    <3> HIDE DEF p, q
    <3>3. Sign(p - q) <= 0
      BY <3>2, Zenon
    <3>4. p < q
      BY <3>1, <3>2, <3>3 DEF Sign
    <3> QED
      BY <2>2, <3>4 DEF p, q
  <2> QED
    BY <2>1, <2>2 DEF DiffersAt
<1>4. \/ (m = y \/ m = z) /\ y <= z
      \/ m < y /\ m < z /\ Code(t[m + 1]) < Code(u[m + 1])
  <2>1. CASE (m = y \/ m = z) /\ d = Sign(y - z)
    <3> HIDE DEF y, z
    <3>1. Sign(y - z) <= 0
      BY <2>1, Zenon
    <3> QED
      BY <1>1, <2>1, <3>1 DEF Sign
  <2>2. CASE m < y /\ m < z /\ Code(t[m + 1]) # Code(u[m + 1])
             /\ d = Sign(Code(t[m + 1]) - Code(u[m + 1]))
    <3> DEFINE p == Code(t[m + 1])
               q == Code(u[m + 1])
    <3>1. p \in Int /\ q \in Int
      BY <1>1, <2>2, CodesDiffer
    <3>2. p # q /\ d = Sign(p - q)
      BY <2>2
    <3> HIDE DEF p, q
    <3>3. Sign(p - q) <= 0
      BY <3>2, Zenon
    <3>4. p < q
      BY <3>1, <3>2, <3>3 DEF Sign
    <3> QED
      BY <2>2, <3>4 DEF p, q
  <2> QED
    BY <2>1, <2>2 DEF DiffersAt
\* The text ends where they part, or the codes there are in order.
<1>5. ASSUME NEW k \in Nat, k <= x, k <= z, \A j \in 1 .. k : s[j] = u[j],
             (k = x /\ x <= z) \/ (k < x /\ k < z /\ Code(s[k + 1]) < Code(u[k + 1]))
      PROVE  \E e \in Int : e <= 0 /\ DiffersAt(s, u, k, e)
  <2>1. CASE k = x /\ x <= z
    <3>1. Sign(x - z) \in Int /\ Sign(x - z) <= 0
      <4> HIDE DEF x, z
      <4> QED
        BY <1>1, <2>1 DEF Sign
    <3> QED
      BY <1>5, <2>1, <3>1 DEF DiffersAt
  <2>2. CASE k < x /\ k < z /\ Code(s[k + 1]) < Code(u[k + 1])
    <3> DEFINE p == Code(s[k + 1])
               q == Code(u[k + 1])
    <3>1. p \in Int /\ q \in Int
      BY <1>1, <2>2, CodesDiffer
    <3>2. p < q
      BY <2>2
    <3>3. Sign(p - q) \in Int /\ Sign(p - q) <= 0 /\ p # q
      <4> HIDE DEF p, q
      <4> QED
        BY <3>1, <3>2 DEF Sign
    <3> QED
      BY <1>5, <2>2, <3>3 DEF DiffersAt
  <2> QED
    BY <1>5, <2>1, <2>2
<1>6. ASSUME NEW k \in Nat, k <= n, k <= m PROVE \A j \in 1 .. k : s[j] = u[j]
  BY <1>2, <1>6
<1> HIDE DEF x, y, z
<1>7. CASE n < m
  <2>1. n + 1 \in 1 .. m /\ n < y /\ n < z
    BY <1>1, <1>2, <1>7
  <2>2. t[n + 1] = u[n + 1]
    BY <1>2, <2>1
  <2>3. (n = x /\ x <= z) \/ (n < x /\ n < z /\ Code(s[n + 1]) < Code(u[n + 1]))
    BY <1>1, <1>3, <2>1, <2>2
  <2> QED
    BY <1>1, <1>2, <1>5, <1>6, <1>7, <2>1, <2>3
<1>8. CASE m < n
  <2>1. m + 1 \in 1 .. n /\ m < x /\ m < y
    BY <1>1, <1>2, <1>8
  <2>2. s[m + 1] = t[m + 1]
    BY <1>2, <2>1
  <2>3. m < x /\ m < z /\ Code(s[m + 1]) < Code(u[m + 1])
    BY <1>1, <1>4, <2>1, <2>2
  <2> QED
    BY <1>1, <1>2, <1>5, <1>6, <1>8, <2>3
<1>9. CASE n = m
  <2>1. CASE n = x
    <3>1. x <= z
      BY <1>1, <1>2, <1>9, <2>1
    <3> QED
      BY <1>1, <1>2, <1>5, <1>6, <1>9, <2>1, <3>1
  <2>2. CASE n < x
    <3>1. n < y /\ Code(s[n + 1]) < Code(t[n + 1])
      BY <1>1, <1>3, <2>2
    <3>2. n < z /\ Code(t[n + 1]) < Code(u[n + 1])
      BY <1>1, <1>4, <1>9, <3>1
    <3>3. Code(s[n + 1]) < Code(u[n + 1])
      <4>1. n + 1 \in 1 .. x /\ n + 1 \in 1 .. y /\ n + 1 \in 1 .. z
        BY <1>1, <2>2, <3>1, <3>2
      <4>2. s[n + 1] \in Characters /\ t[n + 1] \in Characters /\ u[n + 1] \in Characters
        BY <1>1, <4>1
      <4>3. Code(s[n + 1]) \in Int /\ Code(t[n + 1]) \in Int /\ Code(u[n + 1]) \in Int
        BY <4>2, CodesDiffer
      <4> QED
        BY <3>1, <3>2, <4>3
    <3> QED
      BY <1>1, <1>2, <1>5, <1>6, <1>9, <2>2, <3>2, <3>3
  <2> QED
    BY <1>1, <1>2, <2>1, <2>2
<1> QED
  BY <1>7, <1>8, <1>9

LEMMA TextsAreOrdered ==
  ASSUME NEW s \in Seq(Characters), NEW t \in Seq(Characters)
  PROVE  /\ CompareText(s, t) \in {-1, 0, 1}
         /\ CompareText(s, t) = -CompareText(t, s)
         /\ CompareText(s, t) = 0 => s = t
<1>1. PICK n \in Nat : DiffersAt(s, t, n, CompareText(s, t))
  BY CompareTextDiffers
<1>2. PICK m \in Nat : DiffersAt(t, s, m, CompareText(t, s))
  BY CompareTextDiffers
<1>3. /\ CompareText(s, t) \in {-1, 0, 1} /\ DiffersAt(t, s, n, -CompareText(s, t))
      /\ (CompareText(s, t) = 0 => s = t)
  BY <1>1, DifferenceMirrors
<1>4. CompareText(t, s) = -CompareText(s, t)
  BY <1>2, <1>3, DifferenceIsUnique
<1> QED
  BY <1>3, <1>4

LEMMA TextsChain ==
  ASSUME NEW s \in Seq(Characters), NEW t \in Seq(Characters), NEW u \in Seq(Characters),
         CompareText(s, t) <= 0, CompareText(t, u) <= 0
  PROVE  CompareText(s, u) <= 0
<1>1. PICK n \in Nat : DiffersAt(s, t, n, CompareText(s, t))
  BY CompareTextDiffers
<1>2. PICK m \in Nat : DiffersAt(t, u, m, CompareText(t, u))
  BY CompareTextDiffers
<1>3. PICK k \in Nat, e \in Int : e <= 0 /\ DiffersAt(s, u, k, e)
  <2>1. CompareText(s, t) \in Int /\ CompareText(t, u) \in Int
    BY TextsAreOrdered
  <2> QED
    BY <1>1, <1>2, <2>1, DifferencesChain
<1>4. PICK l \in Nat : DiffersAt(s, u, l, CompareText(s, u))
  BY CompareTextDiffers
<1>5. CompareText(s, u) = e
  BY <1>3, <1>4, DifferenceIsUnique
<1> QED
  BY <1>3, <1>5

-----------------------------------------------------------------------------
(* All values: null, then numbers by their size, then texts.               *)

\* All values but some integers beyond Mantissa.
LEMMA MostAreSortable ==
  /\ NewNull \in Sortable
  /\ \A h \in Int : NewReal(h) \in Sortable
  /\ \A s \in Seq(Characters) : NewText(s) \in Sortable
  /\ \A n \in MinInt .. MaxInt : n \in -Mantissa .. Mantissa => NewInteger(n) \in Sortable
<1>1. NewNull \in Sortable
  BY DEF Sortable, SqlValues, Exact, IsInteger, Type, NewNull
<1>2. ASSUME NEW h \in Int PROVE NewReal(h) \in Sortable
  BY DEF Sortable, SqlValues, Numbers, Exact, IsInteger, Type, NewReal
<1>3. ASSUME NEW s \in Seq(Characters) PROVE NewText(s) \in Sortable
  BY DEF Sortable, SqlValues, Exact, IsInteger, Type, NewText
<1>4. ASSUME NEW n \in MinInt .. MaxInt, n \in -Mantissa .. Mantissa
      PROVE  NewInteger(n) \in Sortable
  <2> DEFINE v == NewInteger(n)
  <2>1. Type(v) = "int" /\ v[2] = n
    BY DEF NewInteger, Type
  <2>2. v \in SqlValues
    BY DEF SqlValues, Numbers
  <2> HIDE DEF v
  <2>3. Exact(v)
    <3>1. ToReal(v) = 2 * n
      BY <1>4, <2>1 DEF ToReal, IsInteger
    <3> QED
      BY <2>1, <3>1 DEF Exact
  <2>4. v \in Sortable
    BY <2>2, <2>3 DEF Sortable
  <2> QED
    BY <2>4 DEF v
<1> QED
  BY <1>1, <1>2, <1>3, <1>4

LEMMA ValueKinds ==
  ASSUME NEW v \in Sortable
  PROVE  \/ v = NewNull /\ IsNull(v) /\ ValueRank(v) = 0
         \/ /\ ValueRank(v) = 1 /\ Type(v) # "text" /\ ~IsNull(v) /\ ToReal(v) \in Int
            /\ IsInteger(v) => v[2] \in Int /\ ToReal(v) = 2 * v[2]
         \/ ValueRank(v) = 2 /\ Type(v) = "text" /\ ~IsNull(v) /\ v[2] \in Seq(Characters)
<1>1. CASE v = NewNull
  BY <1>1 DEF NewNull, IsNull, Type, ValueRank
<1>2. ASSUME NEW n \in MinInt .. MaxInt, v = NewInteger(n)
      PROVE  /\ ValueRank(v) = 1 /\ Type(v) # "text" /\ ~IsNull(v) /\ ToReal(v) \in Int
             /\ v[2] \in Int /\ ToReal(v) = 2 * v[2]
  <2>1. IsInteger(v) /\ v[2] = n
    BY <1>2 DEF NewInteger, IsInteger, Type
  <2>2. ToReal(v) = 2 * v[2]
    BY <2>1 DEF Sortable, Exact
  <2>3. n \in Int
    BY HalfIsPositive DEF MinInt, MaxInt
  <2> QED
    BY <2>1, <2>2, <2>3 DEF IsInteger, IsNull, ValueRank
<1>3. ASSUME NEW h \in Int, v = NewReal(h)
      PROVE  /\ ValueRank(v) = 1 /\ Type(v) # "text" /\ ~IsNull(v) /\ ToReal(v) \in Int
             /\ ~IsInteger(v)
  BY <1>3 DEF NewReal, IsInteger, IsNull, Type, ValueRank, ToReal
<1>4. ASSUME NEW s \in Seq(Characters), v = NewText(s)
      PROVE  ValueRank(v) = 2 /\ Type(v) = "text" /\ ~IsNull(v) /\ v[2] \in Seq(Characters)
  BY <1>4 DEF NewText, IsNull, Type, ValueRank
<1> QED
  BY <1>1, <1>2, <1>3, <1>4 DEF Sortable, SqlValues, Numbers

LEMMA CompareByKind ==
  ASSUME NEW a \in Sortable, NEW b \in Sortable
  PROVE  /\ ValueRank(a) \in 0 .. 2 /\ ValueRank(b) \in 0 .. 2
         /\ ValueRank(a) # ValueRank(b) => Compare(a, b) = Sign(ValueRank(a) - ValueRank(b))
         /\ ValueRank(a) = 0 /\ ValueRank(b) = 0 => Compare(a, b) = 0
         /\ ValueRank(a) = 1 /\ ValueRank(b) = 1 =>
              /\ ToReal(a) \in Int /\ ToReal(b) \in Int
              /\ Compare(a, b) = Sign(ToReal(a) - ToReal(b))
         /\ ValueRank(a) = 2 /\ ValueRank(b) = 2 =>
              /\ a[2] \in Seq(Characters) /\ b[2] \in Seq(Characters)
              /\ Compare(a, b) = CompareText(a[2], b[2])
<1>1. ValueRank(a) \in 0 .. 2 /\ ValueRank(b) \in 0 .. 2
  BY ValueKinds
<1>2. ValueRank(a) # ValueRank(b) => Compare(a, b) = Sign(ValueRank(a) - ValueRank(b))
  BY DEF Compare
<1>3. ValueRank(a) = 0 /\ ValueRank(b) = 0 => Compare(a, b) = 0
  <2> SUFFICES ASSUME ValueRank(a) = 0, ValueRank(b) = 0
               PROVE  Compare(a, b) = 0
    OBVIOUS
  <2>1. Type(a) = "null"
    BY ValueKinds DEF IsNull
  <2> QED
    BY <2>1 DEF Compare, IsNull
<1>4. ASSUME ValueRank(a) = 2, ValueRank(b) = 2
      PROVE  /\ a[2] \in Seq(Characters) /\ b[2] \in Seq(Characters)
             /\ Compare(a, b) = CompareText(a[2], b[2])
  BY <1>4, ValueKinds DEF Compare
<1>5. ASSUME ValueRank(a) = 1, ValueRank(b) = 1
      PROVE  /\ ToReal(a) \in Int /\ ToReal(b) \in Int
             /\ Compare(a, b) = Sign(ToReal(a) - ToReal(b))
  <2>1. /\ Type(a) # "text" /\ ~IsNull(a) /\ ToReal(a) \in Int
        /\ IsInteger(a) => a[2] \in Int /\ ToReal(a) = 2 * a[2]
    BY <1>5, ValueKinds
  <2>2. /\ ToReal(b) \in Int /\ (IsInteger(b) => b[2] \in Int /\ ToReal(b) = 2 * b[2])
    BY <1>5, ValueKinds
  <2>3. Compare(a, b) = CompareNumeric(a, b)
    BY <1>5, <2>1 DEF Compare
  <2>4. CASE IsInteger(a) /\ IsInteger(b)
    <3> DEFINE x == a[2]
               y == b[2]
    <3>1. x \in Int /\ y \in Int /\ ToReal(a) = 2 * x /\ ToReal(b) = 2 * y
      BY <2>1, <2>2, <2>4
    <3>2. CompareNumeric(a, b) = Sign(x - y)
      BY <2>4 DEF CompareNumeric
    <3> HIDE DEF x, y
    <3>3. Sign(x - y) = Sign(2 * x - 2 * y)
      BY <3>1 DEF Sign
    <3> QED
      BY <2>3, <3>1, <3>2, <3>3
  <2>5. CASE ~(IsInteger(a) /\ IsInteger(b))
    BY <2>1, <2>2, <2>3, <2>5 DEF CompareNumeric
  <2> QED
    BY <2>1, <2>2, <2>4, <2>5
<1> QED
  BY <1>1, <1>2, <1>3, <1>4, <1>5

LEMMA CompareMirrors ==
  ASSUME NEW a \in Sortable, NEW b \in Sortable
  PROVE  /\ Compare(a, b) \in {-1, 0, 1} /\ Compare(a, b) = -Compare(b, a)
         /\ Compare(a, b) = 0 => ValueRank(a) = ValueRank(b)
<1>1. ValueRank(a) \in 0 .. 2 /\ ValueRank(b) \in 0 .. 2
  BY CompareByKind
<1>2. CASE ValueRank(a) # ValueRank(b)
  <2> DEFINE p == ValueRank(a)
             q == ValueRank(b)
  <2>1. Compare(a, b) = Sign(p - q) /\ Compare(b, a) = Sign(q - p) /\ p # q
    BY <1>2, CompareByKind
  <2>2. p \in Int /\ q \in Int
    BY <1>1
  <2> HIDE DEF p, q
  <2> QED
    BY <2>1, <2>2 DEF Sign
<1>3. CASE ValueRank(a) = 0 /\ ValueRank(b) = 0
  BY <1>3, CompareByKind
<1>4. CASE ValueRank(a) = 1 /\ ValueRank(b) = 1
  <2> DEFINE p == ToReal(a)
             q == ToReal(b)
  <2>1. Compare(a, b) = Sign(p - q) /\ Compare(b, a) = Sign(q - p) /\ p \in Int /\ q \in Int
    BY <1>4, CompareByKind
  <2> HIDE DEF p, q
  <2>2. Compare(a, b) \in {-1, 0, 1} /\ Compare(a, b) = -Compare(b, a)
    BY <2>1 DEF Sign
  <2> QED
    BY <1>4, <2>2
<1>5. CASE ValueRank(a) = 2 /\ ValueRank(b) = 2
  <2>1. /\ a[2] \in Seq(Characters) /\ b[2] \in Seq(Characters)
        /\ Compare(a, b) = CompareText(a[2], b[2]) /\ Compare(b, a) = CompareText(b[2], a[2])
    BY <1>5, CompareByKind
  <2>2. /\ CompareText(a[2], b[2]) \in {-1, 0, 1}
        /\ CompareText(a[2], b[2]) = -CompareText(b[2], a[2])
    BY <2>1, TextsAreOrdered
  <2> QED
    BY <1>5, <2>1, <2>2
<1> QED
  BY <1>1, <1>2, <1>3, <1>4, <1>5

LEMMA CompareChains ==
  ASSUME NEW a \in Sortable, NEW b \in Sortable, NEW c \in Sortable,
         Compare(a, b) <= 0, Compare(b, c) <= 0
  PROVE  Compare(a, c) <= 0
<1> DEFINE p == ValueRank(a)
           q == ValueRank(b)
           r == ValueRank(c)
<1>1. p \in 0 .. 2 /\ q \in 0 .. 2 /\ r \in 0 .. 2
  BY CompareByKind
<1>2. /\ p # q => Compare(a, b) = Sign(p - q)
      /\ q # r => Compare(b, c) = Sign(q - r)
      /\ p # r => Compare(a, c) = Sign(p - r)
  BY CompareByKind
<1>3. p <= q /\ q <= r
  <2> HIDE DEF p, q, r
  <2>1. p # q => Sign(p - q) <= 0
    BY <1>2
  <2>2. q # r => Sign(q - r) <= 0
    BY <1>2
  <2> QED
    BY <1>1, <2>1, <2>2 DEF Sign
<1>4. CASE p # r
  <2> HIDE DEF p, q, r
  <2>1. Sign(p - r) <= 0
    BY <1>1, <1>3, <1>4 DEF Sign
  <2> QED
    BY <1>2, <1>4, <2>1
<1>5. CASE p = 0 /\ q = 0 /\ r = 0
  BY <1>5, CompareByKind
<1>6. CASE p = 1 /\ q = 1 /\ r = 1
  <2> DEFINE x == ToReal(a)
             y == ToReal(b)
             z == ToReal(c)
  <2>1. /\ x \in Int /\ y \in Int /\ z \in Int
        /\ Compare(a, b) = Sign(x - y) /\ Compare(b, c) = Sign(y - z)
        /\ Compare(a, c) = Sign(x - z)
    BY <1>6, CompareByKind
  <2> HIDE DEF x, y, z
  <2>2. Sign(x - y) <= 0 /\ Sign(y - z) <= 0
    BY <2>1
  <2>3. Sign(x - z) <= 0
    BY <2>1, <2>2 DEF Sign
  <2> QED
    BY <2>1, <2>3
<1>7. CASE p = 2 /\ q = 2 /\ r = 2
  <2>1. /\ a[2] \in Seq(Characters) /\ b[2] \in Seq(Characters) /\ c[2] \in Seq(Characters)
        /\ Compare(a, b) = CompareText(a[2], b[2]) /\ Compare(b, c) = CompareText(b[2], c[2])
        /\ Compare(a, c) = CompareText(a[2], c[2])
    BY <1>7, CompareByKind
  <2>2. CompareText(a[2], b[2]) <= 0 /\ CompareText(b[2], c[2]) <= 0
    BY <2>1
  <2>3. CompareText(a[2], c[2]) <= 0
    BY <2>1, <2>2, TextsChain
  <2> QED
    BY <2>1, <2>3
<1> QED
  <2> HIDE DEF p, q, r
  <2> QED
    BY <1>1, <1>3, <1>4, <1>5, <1>6, <1>7

\* Compare is total and transitive on all values but the integers that a real
\* cannot hold: what trees, ORDER BY and unique indexes rely on (compare.go).
THEOREM CompareOrders ==
  ASSUME NEW V \in SUBSET Sortable
  PROVE  Ordered(V)
<1> SUFFICES ASSUME NEW a \in V, NEW b \in V, NEW c \in V
             PROVE  /\ Compare(a, b) = -Compare(b, a)
                    /\ Compare(a, b) <= 0 /\ Compare(b, c) <= 0 => Compare(a, c) <= 0
  BY DEF Ordered
<1> QED
  BY CompareMirrors, CompareChains

\* What the models of the planner, the trees and the queries assume of Class,
\* their stand-in for Compare: values have places in a line, null's is its own and
\* the first (PlannerAssumption, StorageAssumption).
THEOREM ClassesExist ==
  ASSUME NEW V \in SUBSET Sortable, IsFiniteSet(V)
  PROVE  \E Class \in [V -> Int] :
           /\ \A a, b \in V : Compare(a, b) = Sign(Class[a] - Class[b])
           /\ NewNull \in V => \A v \in V \ {NewNull} : Class[NewNull] < Class[v]
<1> DEFINE below(v) == {u \in V : Compare(u, v) < 0}
           Class == [v \in V |-> Cardinality(below(v))]
<1>1. \A a, b \in V : Compare(a, b) \in {-1, 0, 1} /\ Compare(a, b) = -Compare(b, a)
  BY CompareMirrors
<1>2. \A a, b, c \in V : Compare(a, b) <= 0 /\ Compare(b, c) <= 0 => Compare(a, c) <= 0
  BY CompareChains
<1>3. \A v \in V : IsFiniteSet(below(v)) /\ Cardinality(below(v)) \in Nat
  BY FS_Subset, FS_CardinalityType
<1>4. ASSUME NEW a \in V, NEW b \in V, Compare(a, b) <= 0
      PROVE  below(a) \subseteq below(b)
  <2> SUFFICES ASSUME NEW u \in V, Compare(u, a) < 0
               PROVE  Compare(u, b) < 0
    OBVIOUS
  <2>1. Compare(u, a) \in Int /\ Compare(u, b) \in Int /\ Compare(b, u) \in Int /\ Compare(a, u) \in Int
        /\ Compare(u, b) = -Compare(b, u) /\ Compare(u, a) = -Compare(a, u)
    BY <1>1
  <2>2. Compare(u, b) <= 0
    BY <1>2, <1>4, <2>1
  <2>3. Compare(b, u) <= 0 => Compare(a, u) <= 0
    BY <1>2, <1>4
  <2> QED
    BY <2>1, <2>2, <2>3
<1>5. ASSUME NEW a \in V, NEW b \in V, Compare(a, b) < 0
      PROVE  Cardinality(below(a)) < Cardinality(below(b))
  <2>1. Compare(a, b) <= 0 /\ Compare(a, a) = 0
    BY <1>1, <1>5
  <2>2. below(a) \subseteq below(b)
    BY <1>4, <2>1
  <2>3. a \in below(b) /\ a \notin below(a)
    BY <1>5, <2>1
  <2>4. IsFiniteSet(below(b)) /\ Cardinality(below(a)) \in Nat /\ Cardinality(below(b)) \in Nat
    BY <1>3
  <2> HIDE DEF below
  <2>5. below(a) # below(b)
    BY <2>3
  <2>6. Cardinality(below(a)) <= Cardinality(below(b))
        /\ (Cardinality(below(a)) = Cardinality(below(b)) => below(a) = below(b))
    BY <2>2, <2>4, FS_Subset
  <2> QED
    BY <2>4, <2>5, <2>6
<1>6. ASSUME NEW a \in V, NEW b \in V, Compare(a, b) = 0
      PROVE  Cardinality(below(a)) = Cardinality(below(b))
  <2>1. Compare(a, b) <= 0 /\ Compare(b, a) <= 0
    BY <1>1, <1>6
  <2>2. below(a) = below(b)
    BY <1>4, <2>1
  <2> QED
    BY <2>2
<1> HIDE DEF below
<1>7. Class \in [V -> Int]
  BY <1>3
<1>8. ASSUME NEW a \in V, NEW b \in V
      PROVE  Compare(a, b) = Sign(Class[a] - Class[b])
  <2> DEFINE x == Class[a]
             y == Class[b]
  <2>1. x = Cardinality(below(a)) /\ y = Cardinality(below(b)) /\ x \in Int /\ y \in Int
    BY <1>3
  <2>2. (Compare(a, b) < 0 => x < y) /\ (Compare(b, a) < 0 => y < x) /\ (Compare(a, b) = 0 => x = y)
    BY <1>5, <1>6, <2>1
  <2>3. Compare(a, b) \in {-1, 0, 1} /\ Compare(a, b) = -Compare(b, a)
    BY <1>1
  <2> HIDE DEF x, y
  <2>4. CASE Compare(a, b) = -1
    BY <2>1, <2>2, <2>4 DEF Sign
  <2>5. CASE Compare(a, b) = 0
    BY <2>1, <2>2, <2>5 DEF Sign
  <2>6. CASE Compare(a, b) = 1
    <3>1. Compare(b, a) < 0
      BY <1>1, <2>6
    <3> QED
      BY <2>1, <2>2, <2>6, <3>1 DEF Sign
  <2> QED
    BY <2>3, <2>4, <2>5, <2>6 DEF x, y
<1>9. ASSUME NewNull \in V, NEW v \in V \ {NewNull}
      PROVE  Class[NewNull] < Class[v]
  <2>1. ValueRank(v) \in {1, 2} /\ ValueRank(NewNull) = 0
    BY ValueKinds DEF ValueRank, NewNull, IsNull, Type
  <2>2. Compare(NewNull, v) = -1
    BY <1>9, <2>1, CompareByKind DEF Sign
  <2>3. Cardinality(below(NewNull)) < Cardinality(below(v))
    BY <1>5, <1>9, <2>2
  <2> QED
    BY <1>9, <2>3
<1> QED
  <2> HIDE DEF Class
  <2> QED
    BY <1>7, <1>8, <1>9

-----------------------------------------------------------------------------
(* The arithmetic of integers.                                             *)

SqlIntegers == {NewInteger(n) : n \in MinInt .. MaxInt}

\* The quotient is cut off towards zero.
LEMMA QuotientCuts ==
  ASSUME NEW x \in Int, NEW y \in Int, y # 0
  PROVE  /\ Quotient(x, y) \in Int /\ Remainder(x, y) \in Int
         /\ Remainder(x, y) = x - y * Quotient(x, y)
         /\ Abs(Remainder(x, y)) < Abs(y)
         /\ Remainder(x, y) = 0 \/ Sign(Remainder(x, y)) = Sign(x)
<1> DEFINE a == Abs(x)
           b == Abs(y)
           d == a \div b
           r == a % b
<1>1. a \in Nat /\ b \in Nat /\ b > 0
  BY DEF Abs
<1>2. d \in Int /\ r \in Int /\ 0 <= r /\ r < b /\ a = b * d + r
  <2> HIDE DEF a, b
  <2> QED
    BY <1>1, DivMod
<1>3. Quotient(x, y) = Sign(x) * Sign(y) * d
  BY DEF Quotient
<1>4. Remainder(x, y) = x - y * Quotient(x, y)
  BY DEF Remainder
<1> DEFINE p == b * d
           q == Quotient(x, y)
<1>5. p \in Int /\ a = p + r
  <2> HIDE DEF a, b, d, r
  <2> QED
    BY <1>1, <1>2
\* y * q has the size of p and the sign of x.
<1>6. q \in Int /\ (x < 0 => y * q = -p) /\ (x > 0 => y * q = p) /\ (x = 0 => y * q = 0)
  <2>1. CASE x = 0
    <3>1. Sign(x) = 0 /\ Sign(y) \in Int
      BY <2>1 DEF Sign
    <3>2. q = 0
      <4> HIDE DEF d
      <4> QED
        BY <1>2, <1>3, <3>1
    <3> QED
      BY <2>1, <3>2
  <2>2. CASE x < 0 /\ y < 0
    <3>1. Sign(x) = -1 /\ Sign(y) = -1 /\ b = -y
      BY <2>2 DEF Sign, Abs
    <3> HIDE DEF d, a, b
    <3>2. q = d
      BY <1>2, <1>3, <3>1
    <3>3. y * q = -p
      BY <1>2, <3>1, <3>2
    <3> QED
      BY <1>2, <2>2, <3>2, <3>3
  <2>3. CASE x < 0 /\ y > 0
    <3>1. Sign(x) = -1 /\ Sign(y) = 1 /\ b = y
      BY <2>3 DEF Sign, Abs
    <3> HIDE DEF d, a, b
    <3>2. q = -d
      BY <1>2, <1>3, <3>1
    <3>3. y * q = -p
      BY <1>2, <3>1, <3>2
    <3> QED
      BY <1>2, <2>3, <3>2, <3>3
  <2>4. CASE x > 0 /\ y < 0
    <3>1. Sign(x) = 1 /\ Sign(y) = -1 /\ b = -y
      BY <2>4 DEF Sign, Abs
    <3> HIDE DEF d, a, b
    <3>2. q = -d
      BY <1>2, <1>3, <3>1
    <3>3. y * q = p
      BY <1>2, <3>1, <3>2
    <3> QED
      BY <1>2, <2>4, <3>2, <3>3
  <2>5. CASE x > 0 /\ y > 0
    <3>1. Sign(x) = 1 /\ Sign(y) = 1 /\ b = y
      BY <2>5 DEF Sign, Abs
    <3> HIDE DEF d, a, b
    <3>2. q = d
      BY <1>2, <1>3, <3>1
    <3>3. y * q = p
      BY <1>2, <3>1, <3>2
    <3> QED
      BY <1>2, <2>5, <3>2, <3>3
  <2> HIDE DEF q, p, d, a, b
  <2> QED
    BY <2>1, <2>2, <2>3, <2>4, <2>5
<1> DEFINE m == Remainder(x, y)
           z == y * q
<1>7. m = x - z
  BY <1>4
<1>8. /\ (x < 0 => a = -x /\ z = -p) /\ (x >= 0 => a = x) /\ (x > 0 => z = p)
      /\ (x = 0 => z = 0)
  <2> HIDE DEF p, q
  <2> QED
    BY <1>6 DEF Abs
<1>9. m \in Int /\ (x < 0 => m = -r) /\ (x > 0 => m = r) /\ (x = 0 => m = 0)
  <2> HIDE DEF m, z, p, r, a
  <2> QED
    BY <1>2, <1>5, <1>7, <1>8
<1>10. Abs(m) < b /\ (m = 0 \/ Sign(m) = Sign(x))
  <2> HIDE DEF m, z, p, r, a, b
  <2>1. CASE x < 0
    BY <1>1, <1>2, <1>9, <2>1 DEF Abs, Sign
  <2>2. CASE x > 0
    BY <1>1, <1>2, <1>9, <2>2 DEF Abs, Sign
  <2>3. CASE x = 0
    BY <1>1, <1>2, <1>9, <2>3 DEF Abs, Sign
  <2> QED
    BY <2>1, <2>2, <2>3
<1> QED
  BY <1>4, <1>6, <1>9, <1>10

LEMMA WrapStays ==
  ASSUME NEW n \in MinInt .. MaxInt
  PROVE  Wrap(n) = n
<1>1. n \in Int /\ Half \in Int
  BY HalfIsPositive DEF MinInt, MaxInt
<1>2. n + (2 * Half) * 0 = n
  BY <1>1
<1>3. Wrap(n + (2 * Half) * 0) = n
  BY WrapIsUnique
<1> QED
  BY <1>2, <1>3, Zenon

\* An error of multiples of 2 * Half in a factor and a product does not show in
\* the sum.
LEMMA WrapsForget ==
  ASSUME NEW x \in MinInt .. MaxInt, NEW y \in Int, NEW q \in Int
  PROVE  Wrap(Wrap(Wrap(q) * y) + (x - y * q)) = x
<1> DEFINE M == 2 * Half
<1>1. M \in Int /\ x \in Int
  BY HalfIsPositive DEF MinInt, MaxInt
<1> HIDE DEF M
<1>2. PICK k \in Int : Wrap(q) = q + M * k
  BY WrapFits DEF M
<1> DEFINE w == Wrap(q) * y
<1>3. w \in Int
  <2>1. M * k \in Int
    BY <1>1, <1>2
  <2> QED
    BY <1>2, <2>1
<1> HIDE DEF w
<1>4. PICK l \in Int : Wrap(w) = w + M * l
  BY <1>3, WrapFits DEF M
<1>5. w = y * q + M * (k * y)
  <2>1. w = (q + M * k) * y
    BY <1>2 DEF w
  <2> QED
    BY <1>1, <1>2, <2>1
<1>6. Wrap(w) + (x - y * q) = x + M * (k * y + l)
  <2> DEFINE z == y * q
             u == k * y
  <2>1. z \in Int /\ u \in Int
    OBVIOUS
  <2>2. w = z + M * u
    BY <1>5
  <2> HIDE DEF z, u
  <2>3. M * u \in Int /\ M * l \in Int /\ M * (u + l) = M * u + M * l
    BY <1>1, <2>1
  <2>4. Wrap(w) + (x - z) = x + M * (u + l)
    BY <1>1, <1>4, <2>1, <2>2, <2>3
  <2> QED
    BY <2>4 DEF z, u
<1>7. k * y + l \in Int
  OBVIOUS
<1>8. Wrap(x + M * (k * y + l)) = x
  BY <1>7, WrapIsUnique DEF M
<1>9. Wrap(Wrap(w) + (x - y * q)) = x
  BY <1>6, <1>8, Zenon
<1> QED
  BY <1>9, Zenon DEF w

\* Quotient and remainder belong together for every pair of integers, the least
\* one divided by -1 too, where the quotient wraps (arithmetic.go); a zero divisor
\* gives nulls.
THEOREM DivisionHolds ==
  ASSUME NEW a \in SqlIntegers, NEW b \in SqlIntegers
  PROVE  Divides(a, b)
<1>1. PICK x \in MinInt .. MaxInt : a = NewInteger(x)
  BY DEF SqlIntegers
<1>2. PICK y \in MinInt .. MaxInt : b = NewInteger(y)
  BY DEF SqlIntegers
<1>3. /\ a = <<"int", x>> /\ b = <<"int", y>> /\ IsInteger(a) /\ IsInteger(b)
      /\ a[2] = x /\ b[2] = y /\ Type(b) = "int"
  BY <1>1, <1>2 DEF NewInteger, IsInteger, Type
<1>4. x \in Int /\ y \in Int
  BY HalfIsPositive DEF MinInt, MaxInt
<1>5. CASE y = 0
  BY <1>3, <1>5 DEF Divides, Div, Mod, IsZero
<1>6. CASE y # 0
  <2> DEFINE q == Quotient(x, y)
             r == Remainder(x, y)
  <2>1. q \in Int /\ r \in Int /\ r = x - y * q /\ Abs(r) < Abs(y)
    BY <1>4, <1>6, QuotientCuts
  <2>2. Div(a, b) = NewInteger(Wrap(q)) /\ Mod(a, b) = NewInteger(r)
    BY <1>3, <1>6 DEF Div, Mod, IsZero, BothIntegers
  <2> HIDE DEF q, r
  <2>3. Mul(Div(a, b), b) = NewInteger(Wrap(Wrap(q) * y))
    BY <1>3, <2>2 DEF Mul, BothIntegers, IsInteger, Type, NewInteger
  <2>4. Add(Mul(Div(a, b), b), Mod(a, b)) = NewInteger(Wrap(Wrap(Wrap(q) * y) + r))
    BY <2>2, <2>3 DEF Add, BothIntegers, IsInteger, Type, NewInteger
  <2>5. Wrap(Wrap(Wrap(q) * y) + (x - y * q)) = x
    BY <1>4, <2>1, WrapsForget
  <2>6. Wrap(Wrap(Wrap(q) * y) + r) = x
    BY <2>1, <2>5, Zenon
  <2>7. Add(Mul(Div(a, b), b), Mod(a, b)) = a
    BY <1>1, <2>4, <2>6, Zenon
  <2>8. Mod(a, b)[2] = r
    BY <2>2 DEF NewInteger
  <2> QED
    BY <1>3, <1>6, <2>1, <2>7, <2>8 DEF Divides
<1> QED
  BY <1>5, <1>6

\* Adding or subtracting what was subtracted or added gives the number back, past
\* the ends of the integers too: an UPDATE can be undone.
THEOREM SumsUndo ==
  ASSUME NEW a \in SqlIntegers, NEW b \in SqlIntegers
  PROVE  /\ Add(a, b) \in SqlIntegers /\ Sub(a, b) \in SqlIntegers /\ Mul(a, b) \in SqlIntegers
         /\ Sub(Add(a, b), b) = a /\ Add(Sub(a, b), b) = a
         /\ b[2] # 0 => Div(a, b) \in SqlIntegers /\ Mod(a, b) \in SqlIntegers
<1>1. PICK x \in MinInt .. MaxInt : a = NewInteger(x)
  BY DEF SqlIntegers
<1>2. PICK y \in MinInt .. MaxInt : b = NewInteger(y)
  BY DEF SqlIntegers
<1>3. /\ IsInteger(a) /\ IsInteger(b) /\ a[2] = x /\ b[2] = y /\ Type(b) = "int"
  BY <1>1, <1>2 DEF NewInteger, IsInteger, Type
<1>4. x \in Int /\ y \in Int /\ Half \in Int /\ Half > 0
  BY HalfIsPositive DEF MinInt, MaxInt
<1>5. \A n \in Int : NewInteger(Wrap(n)) \in SqlIntegers
  BY WrapFits DEF SqlIntegers
<1>6. x + y \in Int /\ x - y \in Int /\ x * y \in Int
  BY <1>4
<1>7. /\ Add(a, b) = NewInteger(Wrap(x + y)) /\ Sub(a, b) = NewInteger(Wrap(x - y))
      /\ Mul(a, b) = NewInteger(Wrap(x * y))
  BY <1>3 DEF Add, Sub, Mul, BothIntegers
<1>8. Sub(Add(a, b), b) = NewInteger(Wrap(Wrap(x + y) - y))
  BY <1>3, <1>7 DEF Sub, BothIntegers, IsInteger, Type, NewInteger
<1>9. Add(Sub(a, b), b) = NewInteger(Wrap(Wrap(x - y) + y))
  BY <1>3, <1>7 DEF Add, BothIntegers, IsInteger, Type, NewInteger
<1> DEFINE M == 2 * Half
<1>10. M \in Int
  BY <1>4
<1> HIDE DEF M
<1>11. Wrap(Wrap(x + y) - y) = x
  <2>1. PICK k \in Int : Wrap(x + y) = (x + y) + M * k
    BY <1>6, WrapFits DEF M
  <2>2. Wrap(x + y) - y = x + M * k
    BY <1>4, <1>10, <2>1
  <2>3. Wrap(x + M * k) = x
    BY WrapIsUnique DEF M
  <2> QED
    BY <2>2, <2>3, Zenon
<1>12. Wrap(Wrap(x - y) + y) = x
  <2>1. PICK k \in Int : Wrap(x - y) = (x - y) + M * k
    BY <1>6, WrapFits DEF M
  <2>2. Wrap(x - y) + y = x + M * k
    BY <1>4, <1>10, <2>1
  <2>3. Wrap(x + M * k) = x
    BY WrapIsUnique DEF M
  <2> QED
    BY <2>2, <2>3, Zenon
<1>13. ASSUME y # 0 PROVE Div(a, b) \in SqlIntegers /\ Mod(a, b) \in SqlIntegers
  <2>1. /\ Quotient(x, y) \in Int /\ Remainder(x, y) \in Int
        /\ Abs(Remainder(x, y)) < Abs(y)
    BY <1>4, <1>13, QuotientCuts
  <2>2. Div(a, b) = NewInteger(Wrap(Quotient(x, y))) /\ Mod(a, b) = NewInteger(Remainder(x, y))
    BY <1>3, <1>13 DEF Div, Mod, IsZero, BothIntegers
  <2>3. Remainder(x, y) \in MinInt .. MaxInt
    <3> DEFINE r == Remainder(x, y)
    <3>1. r \in Int /\ Abs(r) < Abs(y)
      BY <2>1
    <3> HIDE DEF r
    <3>2. r \in MinInt .. MaxInt
      BY <1>4, <3>1 DEF Abs, MinInt, MaxInt
    <3> QED
      BY <3>2 DEF r
  <2> QED
    BY <1>5, <2>1, <2>2, <2>3 DEF SqlIntegers
<1> QED
  BY <1>1, <1>3, <1>5, <1>6, <1>7, <1>8, <1>9, <1>11, <1>12, <1>13

-----------------------------------------------------------------------------
(* The logic of WHERE.                                                     *)

LEMMA TruthOfResults ==
  /\ Truth(NewInteger(1)) = 1 /\ Truth(NewInteger(0)) = 0 /\ Truth(NewNull) = -1
  /\ Boolean(TRUE) = NewInteger(1) /\ Boolean(FALSE) = NewInteger(0)
  BY DEF Truth, Boolean, NewNull, NewInteger, IsNull, IsInteger, Type

LEMMA TruthOfLogic ==
  ASSUME NEW l, NEW r
  PROVE  /\ Truth(l) \in {-1, 0, 1} /\ (Truth(l) = -1 <=> IsNull(l))
         /\ Truth(And3(l, r)) = IF Truth(l) = 0 \/ Truth(r) = 0 THEN 0
                                ELSE IF Truth(l) = 1 /\ Truth(r) = 1 THEN 1 ELSE -1
         /\ Truth(Or3(l, r)) = IF Truth(l) = 1 \/ Truth(r) = 1 THEN 1
                               ELSE IF Truth(l) = 0 /\ Truth(r) = 0 THEN 0 ELSE -1
         /\ Truth(Not3(l)) = IF Truth(l) = -1 THEN -1 ELSE 1 - Truth(l)
<1>1. Truth(l) \in {-1, 0, 1} /\ (Truth(l) = -1 <=> IsNull(l))
  BY DEF Truth
<1>2. Truth(And3(l, r)) = IF Truth(l) = 0 \/ Truth(r) = 0 THEN 0
                          ELSE IF Truth(l) = 1 /\ Truth(r) = 1 THEN 1 ELSE -1
  BY TruthOfResults DEF And3
<1>3. Truth(Or3(l, r)) = IF Truth(l) = 1 \/ Truth(r) = 1 THEN 1
                         ELSE IF Truth(l) = 0 /\ Truth(r) = 0 THEN 0 ELSE -1
  BY TruthOfResults DEF Or3
<1>4. Truth(Not3(l)) = IF Truth(l) = -1 THEN -1 ELSE 1 - Truth(l)
  <2>1. CASE Truth(l) = -1
    BY <1>1, <2>1, TruthOfResults DEF Not3
  <2>2. CASE Truth(l) = 0
    <3>1. Not3(l) = NewInteger(1)
      BY <1>1, <2>2 DEF Not3, Boolean
    <3> QED
      BY <2>2, <3>1, TruthOfResults
  <2>3. CASE Truth(l) = 1
    <3>1. Not3(l) = NewInteger(0)
      BY <1>1, <2>3 DEF Not3, Boolean
    <3> QED
      BY <2>3, <3>1, TruthOfResults
  <2> QED
    BY <1>1, <2>1, <2>2, <2>3
<1> QED
  BY <1>1, <1>2, <1>3, <1>4

\* The planner may take a clause apart into conjuncts and join what it does not use
\* again in another shape (planner.go's conjuncts and residual): a conjunction is
\* true when all its parts are, however they are grouped.  And a row is in the
\* answer for one of the clause, NOT the clause, and the clause IS NULL.
THEOREM ClausesSplit ==
  ASSUME NEW l, NEW r, NEW s
  PROVE  /\ Truth(And3(l, r)) = 1 <=> Truth(l) = 1 /\ Truth(r) = 1
         /\ Truth(And3(And3(l, r), s)) = Truth(And3(l, And3(r, s)))
         /\ Truth(Not3(And3(l, r))) = Truth(Or3(Not3(l), Not3(r)))
         /\ Truth(Not3(Or3(l, r))) = Truth(And3(Not3(l), Not3(r)))
         /\ Truth(l) # 1 /\ Truth(Not3(l)) # 1 => IsNull(l)
         /\ ~(Truth(l) = 1 /\ Truth(Not3(l)) = 1) /\ (IsNull(l) => Truth(l) # 1 /\ Truth(Not3(l)) # 1)
<1>1. /\ Truth(l) \in {-1, 0, 1} /\ Truth(r) \in {-1, 0, 1} /\ Truth(s) \in {-1, 0, 1}
      /\ Truth(l) = -1 <=> IsNull(l)
  BY TruthOfLogic
<1>2. Truth(And3(l, r)) = 1 <=> Truth(l) = 1 /\ Truth(r) = 1
  BY <1>1, TruthOfLogic
<1>3. Truth(And3(And3(l, r), s)) = Truth(And3(l, And3(r, s)))
  <2>1. /\ Truth(And3(And3(l, r), s)) = IF Truth(And3(l, r)) = 0 \/ Truth(s) = 0 THEN 0
             ELSE IF Truth(And3(l, r)) = 1 /\ Truth(s) = 1 THEN 1 ELSE -1
        /\ Truth(And3(l, And3(r, s))) = IF Truth(l) = 0 \/ Truth(And3(r, s)) = 0 THEN 0
             ELSE IF Truth(l) = 1 /\ Truth(And3(r, s)) = 1 THEN 1 ELSE -1
    BY TruthOfLogic
  <2>2. /\ Truth(And3(l, r)) = IF Truth(l) = 0 \/ Truth(r) = 0 THEN 0
                               ELSE IF Truth(l) = 1 /\ Truth(r) = 1 THEN 1 ELSE -1
        /\ Truth(And3(r, s)) = IF Truth(r) = 0 \/ Truth(s) = 0 THEN 0
                               ELSE IF Truth(r) = 1 /\ Truth(s) = 1 THEN 1 ELSE -1
    BY TruthOfLogic
  <2> QED
    BY <1>1, <2>1, <2>2
<1>4. /\ Truth(Not3(l)) = IF Truth(l) = -1 THEN -1 ELSE 1 - Truth(l)
      /\ Truth(Not3(r)) = IF Truth(r) = -1 THEN -1 ELSE 1 - Truth(r)
  BY TruthOfLogic
<1>5. Truth(Not3(And3(l, r))) = Truth(Or3(Not3(l), Not3(r)))
  <2>1. /\ Truth(Not3(And3(l, r))) =
             IF Truth(And3(l, r)) = -1 THEN -1 ELSE 1 - Truth(And3(l, r))
        /\ Truth(Or3(Not3(l), Not3(r))) = IF Truth(Not3(l)) = 1 \/ Truth(Not3(r)) = 1 THEN 1
             ELSE IF Truth(Not3(l)) = 0 /\ Truth(Not3(r)) = 0 THEN 0 ELSE -1
        /\ Truth(And3(l, r)) = IF Truth(l) = 0 \/ Truth(r) = 0 THEN 0
                               ELSE IF Truth(l) = 1 /\ Truth(r) = 1 THEN 1 ELSE -1
    BY TruthOfLogic
  <2> QED
    BY <1>1, <1>4, <2>1
<1>6. Truth(Not3(Or3(l, r))) = Truth(And3(Not3(l), Not3(r)))
  <2>1. /\ Truth(Not3(Or3(l, r))) =
             IF Truth(Or3(l, r)) = -1 THEN -1 ELSE 1 - Truth(Or3(l, r))
        /\ Truth(And3(Not3(l), Not3(r))) = IF Truth(Not3(l)) = 0 \/ Truth(Not3(r)) = 0 THEN 0
             ELSE IF Truth(Not3(l)) = 1 /\ Truth(Not3(r)) = 1 THEN 1 ELSE -1
        /\ Truth(Or3(l, r)) = IF Truth(l) = 1 \/ Truth(r) = 1 THEN 1
                              ELSE IF Truth(l) = 0 /\ Truth(r) = 0 THEN 0 ELSE -1
    BY TruthOfLogic
  <2> QED
    BY <1>1, <1>4, <2>1
<1> QED
  BY <1>1, <1>2, <1>3, <1>4, <1>5, <1>6

LEMMA ComparisonResults ==
  ASSUME NEW a, NEW b
  PROVE  /\ IsNull(a) \/ IsNull(b) => \A op : EvalCompare(a, b, op) = NewNull
         /\ ~IsNull(a) /\ ~IsNull(b) =>
              /\ EvalCompare(a, b, "EQ") = NewInteger(IF Compare(a, b) = 0 THEN 1 ELSE 0)
              /\ EvalCompare(a, b, "NEQ") = NewInteger(IF Compare(a, b) # 0 THEN 1 ELSE 0)
              /\ EvalCompare(a, b, "LT") = NewInteger(IF Compare(a, b) < 0 THEN 1 ELSE 0)
              /\ EvalCompare(a, b, "LTE") = NewInteger(IF Compare(a, b) <= 0 THEN 1 ELSE 0)
              /\ EvalCompare(a, b, "GT") = NewInteger(IF Compare(a, b) > 0 THEN 1 ELSE 0)
              /\ EvalCompare(a, b, "GTE") = NewInteger(IF Compare(a, b) >= 0 THEN 1 ELSE 0)
  BY DEF EvalCompare, Boolean

Mirrored == [EQ |-> "EQ", NEQ |-> "NEQ", LT |-> "GT", LTE |-> "GTE", GT |-> "LT", GTE |-> "LTE"]

\* A literal may change sides with its column (planner.go's mirror), no comparison
\* with a null is true, and of two other values one is less, equal or greater.
THEOREM ComparisonsMirror ==
  ASSUME NEW a \in Sortable, NEW b \in Sortable
  PROVE  /\ \A op \in Comparisons : EvalCompare(a, b, op) = EvalCompare(b, a, Mirrored[op])
         /\ \A op \in Comparisons : Truth(EvalCompare(a, b, op)) = -1 <=> IsNull(a) \/ IsNull(b)
         /\ ~IsNull(a) /\ ~IsNull(b) =>
              \E op \in {"LT", "EQ", "GT"} :
                /\ Truth(EvalCompare(a, b, op)) = 1
                /\ \A other \in {"LT", "EQ", "GT"} \ {op} : Truth(EvalCompare(a, b, other)) = 0
<1> DEFINE c == Compare(a, b)
           d == Compare(b, a)
<1>1. c \in {-1, 0, 1} /\ d = -c
  <2>1. c \in {-1, 0, 1} /\ d \in {-1, 0, 1} /\ c = -d
    BY CompareMirrors
  <2> HIDE DEF c, d
  <2> QED
    BY <2>1
<1>2. CASE IsNull(a) \/ IsNull(b)
  BY <1>2, ComparisonResults, TruthOfResults
<1>3. CASE ~IsNull(a) /\ ~IsNull(b)
  <2> DEFINE A(op) == EvalCompare(a, b, op)
             B(op) == EvalCompare(b, a, op)
             yes == NewInteger(1)
             no == NewInteger(0)
  <2>1. /\ A("EQ") = IF c = 0 THEN yes ELSE no
        /\ A("NEQ") = IF c # 0 THEN yes ELSE no
        /\ A("LT") = IF c < 0 THEN yes ELSE no
        /\ A("LTE") = IF c <= 0 THEN yes ELSE no
        /\ A("GT") = IF c > 0 THEN yes ELSE no
        /\ A("GTE") = IF c >= 0 THEN yes ELSE no
    BY <1>3, ComparisonResults
  <2>2. /\ B("EQ") = IF d = 0 THEN yes ELSE no
        /\ B("NEQ") = IF d # 0 THEN yes ELSE no
        /\ B("LT") = IF d < 0 THEN yes ELSE no
        /\ B("LTE") = IF d <= 0 THEN yes ELSE no
        /\ B("GT") = IF d > 0 THEN yes ELSE no
        /\ B("GTE") = IF d >= 0 THEN yes ELSE no
    BY <1>3, ComparisonResults
  <2>3. Truth(yes) = 1 /\ Truth(no) = 0
    BY TruthOfResults
  <2> HIDE DEF c, d, A, B, yes, no
  <2>4. \A op \in Comparisons : A(op) = B(Mirrored[op])
    BY <1>1, <2>1, <2>2 DEF Comparisons, Mirrored
  <2>5. \A op \in Comparisons : Truth(A(op)) # -1
    <3>1. \A op \in Comparisons : A(op) \in {yes, no}
      BY <1>1, <2>1 DEF Comparisons
    <3> QED
      BY <2>3, <3>1
  <2>6. \E op \in {"LT", "EQ", "GT"} :
          Truth(A(op)) = 1 /\ \A other \in {"LT", "EQ", "GT"} \ {op} : Truth(A(other)) = 0
    BY <1>1, <2>1, <2>3
  <2> QED
    BY <1>3, <2>4, <2>5, <2>6 DEF A, B
<1> QED
  BY <1>2, <1>3

-----------------------------------------------------------------------------
(* Records.                                                                *)

Signed(bits) == -(2 ^ (bits - 1)) .. 2 ^ (bits - 1) - 1

\* The values a row can hold: numbers of the width of their fields.
Storable ==
  {NewNull} \cup {NewInteger(n) : n \in Signed(Bits)} \cup {NewReal(h) : h \in Signed(RealBits)}
    \cup {NewText(s) : s \in Seq(Characters)}

LEMMA ModIs ==
  ASSUME NEW d \in Nat, d > 0, NEW q \in Int, NEW r \in Int, 0 <= r, r < d
  PROVE  (d * q + r) % d = r
  OBVIOUS

LEMMA FixedReads ==
  ASSUME NEW bits \in {Bits, RealBits}, NEW n \in Signed(bits)
  PROVE  /\ Fixed(n, bits) \in Seq(Int) /\ Len(Fixed(n, bits)) = 2
         /\ Unfixed(Fixed(n, bits)[1], Fixed(n, bits)[2], bits) = n
<1> DEFINE h == 2 ^ (bits - 1)
           M == 2 ^ bits
           L == Low(bits)
           u == n % M
<1>1. /\ h \in Nat /\ h > 0 /\ M = 2 * h /\ L \in Nat /\ L > 0
      /\ n \in Int /\ -h <= n /\ n < h
  BY RecordAssumption DEF Low, Signed
<1> DEFINE high == u \div L
           low == u % L
           w == high * L + low
<1>2. Fixed(n, bits) = <<high, low>>
  BY DEF Fixed
<1>3. Unfixed(high, low, bits) = IF w < h THEN w ELSE w - M
  BY Zenon DEF Unfixed
<1> HIDE DEF h, M, L
<1>4. M \in Nat /\ M > 0
  BY <1>1
<1>5. u = IF n >= 0 THEN n ELSE n + M
  <2>1. CASE n >= 0
    <3>1. M * 0 + n = n /\ n < M
      BY <1>1, <1>4, <2>1
    <3>2. (M * 0 + n) % M = n
      BY <1>1, <1>4, <2>1, <3>1, ModIs
    <3> QED
      BY <2>1, <3>1, <3>2, Zenon
  <2>2. CASE n < 0
    <3> DEFINE r == n + M
    <3>1. r \in Int /\ 0 <= r /\ r < M /\ M * (-1) + r = n
      BY <1>1, <1>4, <2>2
    <3>2. ~(n >= 0)
      BY <1>1, <2>2
    <3> HIDE DEF r
    <3>3. (M * (-1) + r) % M = r
      BY <1>4, <3>1, ModIs
    <3> QED
      BY <3>1, <3>2, <3>3, Zenon DEF r
  <2> QED
    BY <1>1, <2>1, <2>2
<1>6. u \in Int /\ 0 <= u
  BY <1>1, <1>4, <1>5
<1> HIDE DEF u
<1>7. high \in Int /\ low \in Int /\ u = L * high + low
  BY <1>1, <1>6, DivMod
<1> HIDE DEF high, low
<1>8. w = u
  BY <1>1, <1>7
<1> HIDE DEF w
<1>9. Unfixed(high, low, bits) = n
  <2>1. Unfixed(high, low, bits) = IF u < h THEN u ELSE u - M
    BY <1>3, <1>8
  <2> QED
    BY <1>1, <1>5, <2>1
<1> QED
  BY <1>2, <1>7, <1>9

\* What each kind of value is written as.
LEMMA EncodedKinds ==
  ASSUME NEW v \in Storable
  PROVE  LET e == EncodeValue(v)
         IN  /\ e \in Seq(Int) /\ Len(e) \in Nat \ {0}
             /\ \/ v = NewNull /\ Len(e) = 1 /\ e[1] = 0
                \/ e[1] = 1 /\ Len(e) = 3 /\ v = NewInteger(Unfixed(e[2], e[3], Bits))
                \/ e[1] = 2 /\ Len(e) = 3 /\ v = NewReal(Unfixed(e[2], e[3], RealBits))
                \/ /\ e[1] = 3 /\ Len(e) = 2 + Len(v[2]) /\ e[2] = Len(v[2])
                   /\ v[2] \in Seq(Characters) /\ v = NewText(v[2])
                   /\ \A j \in 1 .. Len(v[2]) : e[j + 2] = Code(v[2][j])
<1> DEFINE e == EncodeValue(v)
<1>1. CASE v = NewNull
  <2>1. e = <<0>>
    BY <1>1 DEF EncodeValue, IsNull, IsInteger, NewNull, Type
  <2> QED
    BY <1>1, <2>1
<1>2. ASSUME NEW n \in Signed(Bits), v = NewInteger(n)
      PROVE  /\ e \in Seq(Int) /\ Len(e) = 3 /\ e[1] = 1
             /\ v = NewInteger(Unfixed(e[2], e[3], Bits))
  <2> DEFINE f == Fixed(n, Bits)
  <2>1. e = <<1>> \o f
    BY <1>2 DEF EncodeValue, IsNull, IsInteger, NewInteger, Type
  <2>2. f \in Seq(Int) /\ Len(f) = 2 /\ Unfixed(f[1], f[2], Bits) = n
    BY FixedReads
  <2> HIDE DEF f
  <2>3. e \in Seq(Int) /\ Len(e) = 3 /\ e[1] = 1 /\ e[2] = f[1] /\ e[3] = f[2]
    <3> DEFINE g == <<1>>
    <3>1. g \in Seq(Int) /\ Len(g) = 1 /\ g[1] = 1 /\ e = g \o f
      BY <2>1
    <3> HIDE DEF e, g
    <3>2. /\ e \in Seq(Int) /\ Len(e) = Len(g) + Len(f)
          /\ \A i \in 1 .. Len(g) + Len(f) : e[i] = IF i <= Len(g) THEN g[i] ELSE f[i - Len(g)]
      BY <2>2, <3>1, ConcatProperties
    <3>3. 1 \in 1 .. 3 /\ 2 \in 1 .. 3 /\ 3 \in 1 .. 3
      OBVIOUS
    <3> QED
      BY <2>2, <3>1, <3>2, <3>3
  <2> QED
    BY <1>2, <2>2, <2>3
<1>3. ASSUME NEW n \in Signed(RealBits), v = NewReal(n)
      PROVE  /\ e \in Seq(Int) /\ Len(e) = 3 /\ e[1] = 2
             /\ v = NewReal(Unfixed(e[2], e[3], RealBits))
  <2> DEFINE f == Fixed(n, RealBits)
  <2>1. e = <<2>> \o f
    BY <1>3 DEF EncodeValue, IsNull, IsInteger, NewReal, Type
  <2>2. f \in Seq(Int) /\ Len(f) = 2 /\ Unfixed(f[1], f[2], RealBits) = n
    BY FixedReads
  <2> HIDE DEF f
  <2>3. e \in Seq(Int) /\ Len(e) = 3 /\ e[1] = 2 /\ e[2] = f[1] /\ e[3] = f[2]
    <3> DEFINE g == <<2>>
    <3>1. g \in Seq(Int) /\ Len(g) = 1 /\ g[1] = 2 /\ e = g \o f
      BY <2>1
    <3> HIDE DEF e, g
    <3>2. /\ e \in Seq(Int) /\ Len(e) = Len(g) + Len(f)
          /\ \A i \in 1 .. Len(g) + Len(f) : e[i] = IF i <= Len(g) THEN g[i] ELSE f[i - Len(g)]
      BY <2>2, <3>1, ConcatProperties
    <3>3. 1 \in 1 .. 3 /\ 2 \in 1 .. 3 /\ 3 \in 1 .. 3
      OBVIOUS
    <3> QED
      BY <2>2, <3>1, <3>2, <3>3
  <2> QED
    BY <1>3, <2>2, <2>3
<1>4. ASSUME NEW s \in Seq(Characters), v = NewText(s)
      PROVE  /\ e \in Seq(Int) /\ e[1] = 3 /\ Len(e) = 2 + Len(s) /\ e[2] = Len(s) /\ v[2] = s
             /\ \A j \in 1 .. Len(s) : e[j + 2] = Code(s[j])
  <2> DEFINE f == Bytes(s)
  <2>1. e = <<3, Len(s)>> \o f /\ v[2] = s
    BY <1>4 DEF EncodeValue, IsNull, IsInteger, NewText, Type
  <2>2. f = [j \in 1 .. Len(s) |-> Code(s[j])]
    BY DEF Bytes
  <2>3. \A j \in 1 .. Len(s) : Code(s[j]) \in Int
    BY CodesDiffer
  <2>4. f \in Seq(Int) /\ Len(f) = Len(s) /\ \A j \in 1 .. Len(s) : f[j] = Code(s[j])
    BY <2>2, <2>3
  <2> HIDE DEF f
  <2>5. e \in Seq(Int) /\ Len(e) = 2 + Len(s) /\ e[1] = 3 /\ e[2] = Len(s)
        /\ \A j \in 1 .. Len(s) : e[j + 2] = f[j]
    BY <2>1, <2>4
  <2> QED
    BY <2>1, <2>4, <2>5
<1> HIDE DEF e
<1>5. CASE \E s \in Seq(Characters) : v = NewText(s)
  <2>1. PICK s \in Seq(Characters) : v = NewText(s)
    BY <1>5
  <2>2. /\ e \in Seq(Int) /\ e[1] = 3 /\ Len(e) = 2 + Len(s) /\ e[2] = Len(s) /\ v[2] = s
        /\ \A j \in 1 .. Len(s) : e[j + 2] = Code(s[j])
    BY <1>4, <2>1
  <2>3. Len(e) \in Nat \ {0}
    BY <2>2
  <2> QED
    BY <2>1, <2>2, <2>3 DEF e
<1>6. CASE \E n \in Signed(Bits) : v = NewInteger(n)
  BY <1>2, <1>6 DEF e
<1>7. CASE \E n \in Signed(RealBits) : v = NewReal(n)
  BY <1>3, <1>7 DEF e
<1> QED
  BY <1>1, <1>5, <1>6, <1>7 DEF Storable, e

\* b has e from position at on, as far as b goes.
Stored(b, at, e) == \A j \in 1 .. Len(e) : at - 1 + j <= Len(b) => b[at - 1 + j] = e[j]

\* What has been written is read, and refused where it is cut short.
LEMMA DecodesValue ==
  ASSUME NEW v \in Storable, NEW b \in Seq(Int), NEW at \in Nat \ {0}, at <= Len(b) + 1,
         Stored(b, at, EncodeValue(v))
  PROVE  LET e == EncodeValue(v)
         IN  /\ at - 1 + Len(e) <= Len(b) => DecodeValue(b, at) = [val |-> v, len |-> Len(e)]
             /\ at - 1 + Len(e) > Len(b) => DecodeValue(b, at).len = 0
<1> DEFINE e == EncodeValue(v)
           left == Len(b) - at + 1
           refused == [val |-> NewNull, len |-> 0]
           d == DecodeValue(b, at)
<1>1. /\ e \in Seq(Int) /\ Len(e) \in Nat \ {0}
      /\ \/ v = NewNull /\ Len(e) = 1 /\ e[1] = 0
         \/ e[1] = 1 /\ Len(e) = 3 /\ v = NewInteger(Unfixed(e[2], e[3], Bits))
         \/ e[1] = 2 /\ Len(e) = 3 /\ v = NewReal(Unfixed(e[2], e[3], RealBits))
         \/ /\ e[1] = 3 /\ Len(e) = 2 + Len(v[2]) /\ e[2] = Len(v[2])
            /\ v[2] \in Seq(Characters) /\ v = NewText(v[2])
            /\ \A j \in 1 .. Len(v[2]) : e[j + 2] = Code(v[2][j])
  BY EncodedKinds
<1>2. /\ left < 1 => d = refused
      /\ left >= 1 /\ b[at] = 0 => d = [val |-> NewNull, len |-> 1]
      /\ left >= 1 /\ b[at] \in {1, 2} /\ left < 3 => d = refused
      /\ left >= 3 /\ b[at] = 1 =>
           d = [val |-> NewInteger(Unfixed(b[at + 1], b[at + 2], Bits)), len |-> 3]
      /\ left >= 3 /\ b[at] = 2 =>
           d = [val |-> NewReal(Unfixed(b[at + 1], b[at + 2], RealBits)), len |-> 3]
      /\ left >= 1 /\ b[at] = 3 /\ (left < 2 \/ left - 2 < b[at + 1]) => d = refused
      /\ left >= 2 /\ b[at] = 3 /\ ~ (left - 2 < b[at + 1]) =>
           d = [val |-> NewText(Chars(SubSeq(b, at + 2, at + 1 + b[at + 1]))),
                len |-> 2 + b[at + 1]]
  <2>1. Len(b) \in Nat /\ left \in Int
    OBVIOUS
  <2> HIDE DEF left
  <2> DEFINE tag == b[at]
             long == b[at + 1]
             null == [val |-> NewNull, len |-> 1]
             integer == [val |-> NewInteger(Unfixed(b[at + 1], b[at + 2], Bits)), len |-> 3]
             real == [val |-> NewReal(Unfixed(b[at + 1], b[at + 2], RealBits)), len |-> 3]
             number == [val |-> IF b[at] = 1 THEN NewInteger(Unfixed(b[at + 1], b[at + 2], Bits))
                                ELSE NewReal(Unfixed(b[at + 1], b[at + 2], RealBits)),
                        len |-> 3]
             text == [val |-> NewText(Chars(SubSeq(b, at + 2, at + 1 + b[at + 1]))),
                      len |-> 2 + b[at + 1]]
  <2>2. d = IF left < 1 THEN refused
            ELSE CASE tag = 0 -> null
                   [] tag \in {1, 2} -> IF left < 3 THEN refused ELSE number
                   [] tag = 3 -> IF left < 2 \/ left - 2 < long THEN refused ELSE text
                   [] OTHER -> refused
    BY Zenon DEF DecodeValue, left
  <2>3. (tag = 1 => number = integer) /\ (tag = 2 => number = real)
    BY SMT
  <2> HIDE DEF refused, d, tag, long, null, integer, real, number, text
  <2>4. left < 1 => d = refused
    BY <2>2
  <2>5. left >= 1 /\ tag = 0 => d = null
    BY <2>1, <2>2
  <2>6. left >= 1 /\ tag \in {1, 2} /\ left < 3 => d = refused
    BY <2>1, <2>2
  <2>7. left >= 3 /\ tag = 1 => d = integer
    BY <2>1, <2>2, <2>3
  <2>8. left >= 3 /\ tag = 2 => d = real
    BY <2>1, <2>2, <2>3
  <2>9. left >= 1 /\ tag = 3 /\ (left < 2 \/ left - 2 < long) => d = refused
    BY <2>1, <2>2
  <2>10. left >= 2 /\ tag = 3 /\ ~ (left - 2 < long) => d = text
    BY <2>1, <2>2
  <2> USE DEF tag, long, null, integer, real, text
  <2> QED
    BY <2>4, <2>5, <2>6, <2>7, <2>8, <2>9, <2>10, Zenon
<1>3. /\ Len(b) \in Nat /\ left \in Nat
      /\ at - 1 + Len(e) <= Len(b) <=> Len(e) <= left
      /\ at - 1 + Len(e) > Len(b) <=> Len(e) > left
      /\ \A j \in 1 .. Len(e) : j <= left => at - 1 + j <= Len(b)
  <2> DEFINE n == Len(b)
             l == Len(e)
  <2>1. n \in Nat /\ l \in Nat /\ at \in Nat /\ at >= 1 /\ at <= n + 1 /\ left = n - at + 1
    BY <1>1
  <2> HIDE DEF n, l, e, left
  <2>2. left \in Nat
    BY <2>1
  <2>3. at - 1 + l <= n <=> l <= left
    BY <2>1
  <2>4. at - 1 + l > n <=> l > left
    BY <2>1
  <2>5. \A j \in 1 .. l : j <= left => at - 1 + j <= n
    BY <2>1
  <2> QED
    BY <2>1, <2>2, <2>3, <2>4, <2>5 DEF n, l
<1>4. \A j \in 1 .. Len(e) : j <= left => b[at - 1 + j] = e[j]
  BY <1>3 DEF Stored
<1>5. /\ left >= 1 => b[at] = e[1]
      /\ left >= 2 /\ Len(e) >= 2 => b[at + 1] = e[2]
      /\ left >= 3 /\ Len(e) >= 3 => b[at + 2] = e[3]
  <2>1. at - 1 + 1 = at /\ at - 1 + 2 = at + 1 /\ at - 1 + 3 = at + 2
    OBVIOUS
  <2> HIDE DEF e, left
  <2>2. left >= 1 => b[at - 1 + 1] = e[1]
    BY <1>1, <1>3, <1>4
  <2>3. left >= 2 /\ Len(e) >= 2 => b[at - 1 + 2] = e[2]
    BY <1>1, <1>3, <1>4
  <2>4. left >= 3 /\ Len(e) >= 3 => b[at - 1 + 3] = e[3]
    BY <1>1, <1>3, <1>4
  <2> QED
    BY <2>1, <2>2, <2>3, <2>4
<1>6. refused.len = 0
  OBVIOUS
<1> SUFFICES /\ Len(e) <= left => d = [val |-> v, len |-> Len(e)]
             /\ Len(e) > left => d = refused
  <2> HIDE DEF e, left, d, refused
  <2> QED
    BY <1>1, <1>3, <1>6 DEF e, d
<1> HIDE DEF e, left, d, refused
<1>7. CASE v = NewNull /\ Len(e) = 1 /\ e[1] = 0
  BY <1>2, <1>3, <1>5, <1>7
<1>8. CASE e[1] = 1 /\ Len(e) = 3 /\ v = NewInteger(Unfixed(e[2], e[3], Bits))
  BY <1>2, <1>3, <1>5, <1>8
<1>9. CASE e[1] = 2 /\ Len(e) = 3 /\ v = NewReal(Unfixed(e[2], e[3], RealBits))
  BY <1>2, <1>3, <1>5, <1>9
<1>10. CASE /\ e[1] = 3 /\ Len(e) = 2 + Len(v[2]) /\ e[2] = Len(v[2])
            /\ v[2] \in Seq(Characters) /\ v = NewText(v[2])
            /\ \A j \in 1 .. Len(v[2]) : e[j + 2] = Code(v[2][j])
  <2> DEFINE s == v[2]
             c == SubSeq(b, at + 2, at + 1 + Len(s))
  <2>0. /\ e[1] = 3 /\ Len(e) = 2 + Len(s) /\ e[2] = Len(s)
        /\ \A j \in 1 .. Len(s) : e[j + 2] = Code(s[j])
    BY <1>10
  <2>1. Len(s) \in Nat /\ \A j \in 1 .. Len(s) : s[j] \in Characters
    BY <1>10
  <2>2. CASE Len(e) > left
    <3> HIDE DEF s, c
    <3>1. left < 2 => d = refused
      BY <1>2, <1>3, <1>5, <2>0
    <3>2. left >= 2 => d = refused
      <4> SUFFICES ASSUME left >= 2 PROVE d = refused
        OBVIOUS
      <4>1. b[at] = 3 /\ b[at + 1] = Len(s) /\ left - 2 < Len(s)
        BY <1>3, <1>5, <2>0, <2>1, <2>2
      <4> QED
        BY <1>2, <1>3, <4>1
    <3>3. d = refused /\ ~ (Len(e) <= left)
      BY <1>1, <1>3, <2>2, <3>1, <3>2
    <3> QED
      BY <3>3
  <2>3. CASE Len(e) <= left
    <3>1. b[at] = 3 /\ b[at + 1] = Len(s) /\ left >= 2 /\ ~ (left - 2 < Len(s))
      <4> HIDE DEF s, c
      <4> QED
        BY <1>3, <1>5, <2>0, <2>1, <2>3
    <3>2. d = [val |-> NewText(Chars(c)), len |-> 2 + Len(s)]
      BY <1>2, <1>3, <3>1
    <3>3. at + 2 \in Int /\ at + 1 + Len(s) <= Len(b) /\ at + 2 >= 1
      <4> HIDE DEF s
      <4> QED
        BY <1>3, <2>1, <3>1 DEF left
    <3>4. Len(c) = Len(s) /\ c \in Seq(Int) /\ \A j \in 1 .. Len(s) : c[j] = b[at + 1 + j]
      <4> DEFINE m == at + 2
                 n == at + 1 + Len(s)
      <4>1. /\ m \in Int /\ n \in Int /\ n - m + 1 = Len(s) /\ m >= 1 /\ n <= Len(b)
            /\ \A j \in 1 .. Len(s) : m + j - 1 = at + 1 + j
        <5> HIDE DEF s
        <5> QED
          BY <2>1, <3>3
      <4>2. c = SubSeq(b, m, n)
        OBVIOUS
      <4> HIDE DEF m, n, s, c
      <4>3. Len(c) = Len(s) /\ c \in Seq(Int) /\ \A j \in 1 .. Len(s) : c[j] = b[m + j - 1]
        <5>1. \A i \in m .. n : b[i] \in Int
          BY <1>3, <4>1
        <5> QED
          BY <2>1, <4>1, <4>2, <5>1, SubSeqProperties
      <4> QED
        BY <4>1, <4>3
    <3>5. ASSUME NEW j \in 1 .. Len(s) PROVE c[j] = Code(s[j])
      <4>1. j + 2 \in 1 .. Len(e) /\ j + 2 <= left /\ at - 1 + (j + 2) = at + 1 + j
        <5> HIDE DEF s
        <5> QED
          BY <1>3, <2>0, <2>1, <2>3
      <4>2. b[at + 1 + j] = e[j + 2]
        BY <1>4, <4>1
      <4> QED
        BY <1>10, <3>4, <4>2
    <3>6. Chars(c) = [j \in 1 .. Len(s) |-> Alphabet[c[j]]]
      <4> HIDE DEF c, s
      <4> QED
        BY <2>1, <3>4 DEF Chars
    <3>7. \A j \in 1 .. Len(s) : Alphabet[c[j]] = s[j]
      BY <2>1, <3>5, CodesDiffer
    <3>8. Chars(c) = s
      <4>1. s \in Seq(Characters)
        BY <1>10
      <4> HIDE DEF c, s
      <4>2. Chars(c) = [j \in 1 .. Len(s) |-> s[j]]
        BY <3>6, <3>7
      <4> QED
        BY <4>1, <4>2
    <3> HIDE DEF c
    <3> QED
      BY <1>10, <2>3, <3>2, <3>8, <1>3, <2>1
  <2> QED
    BY <1>1, <1>3, <2>2, <2>3
<1> QED
  BY <1>1, <1>7, <1>8, <1>9, <1>10

LEMMA LeastNat ==
  ASSUME NEW I \in SUBSET Nat, I # {}
  PROVE  \E i \in I : \A j \in I : i <= j
  BY LeastOf

\* Such buffers there are, one for each number of values.
LEMMA BuffersAre ==
  ASSUME NEW row, Len(row) \in Nat
  PROVE  Buffers(row) = [n \in 0 .. Len(row) |-> IF n = 0 THEN <<Len(row)>>
                                                 ELSE Buffers(row)[n - 1] \o EncodeValue(row[n])]
<1> DEFINE N == Len(row)
           Step(f, n) == IF n = 0 THEN <<N>> ELSE f[n - 1] \o EncodeValue(row[n])
           UpTo(f, m) == \A n \in 0 .. m : f[n] = Step(f, n)
           missed == {m \in Nat : ~ \E f : UpTo(f, m)}
<1>1. missed = {}
  <2> SUFFICES ASSUME missed # {} PROVE FALSE
    OBVIOUS
  <2>1. PICK m \in missed : \A l \in missed : m <= l
    <3>1. missed \in SUBSET Nat
      OBVIOUS
    <3> HIDE DEF missed
    <3> QED
      BY <3>1, LeastNat
  <2>2. m \in Nat /\ \A f : ~UpTo(f, m)
    BY <2>1
  <2>3. CASE m = 0
    <3> DEFINE f == [n \in 0 .. 0 |-> <<N>>]
    <3>1. UpTo(f, 0)
      OBVIOUS
    <3> QED
      BY <2>2, <2>3, <3>1
  <2>4. CASE m # 0
    <3>1. m - 1 \in Nat /\ m - 1 \notin missed
      <4>1. m - 1 \in Nat /\ ~ (m <= m - 1)
        BY <2>2, <2>4
      <4> QED
        BY <2>1, <4>1
    <3>2. PICK f : UpTo(f, m - 1)
      BY <3>1
    <3> DEFINE g == [n \in 0 .. m |-> Step(f, n)]
    <3>3. ASSUME NEW n \in 0 .. m
          PROVE  g[n] = Step(g, n)
      <4>1. CASE n = 0
        BY <4>1
      <4>2. CASE n # 0
        <5>1. n - 1 \in 0 .. m - 1 /\ n - 1 \in 0 .. m
          BY <2>2, <4>2
        <5>2. f[n - 1] = Step(f, n - 1) /\ g[n - 1] = Step(f, n - 1)
          BY <3>2, <5>1
        <5>3. g[n] = f[n - 1] \o EncodeValue(row[n])
          BY <4>2
        <5> HIDE DEF g
        <5> QED
          BY <4>2, <5>2, <5>3
      <4> QED
        BY <4>1, <4>2
    <3> HIDE DEF g, Step
    <3>4. UpTo(g, m)
      BY <3>3
    <3> QED
      BY <2>2, <3>4
  <2> QED
    BY <2>3, <2>4
<1>2. PICK f : UpTo(f, N)
  <2> HIDE DEF UpTo
  <2> QED
    BY <1>1
<1> DEFINE g == [n \in 0 .. N |-> f[n]]
<1>3. ASSUME NEW n \in 0 .. N PROVE g[n] = Step(g, n)
  <2>1. f[n] = Step(f, n)
    BY <1>2
  <2>2. n # 0 => n - 1 \in 0 .. N
    OBVIOUS
  <2> QED
    BY <2>1, <2>2
<1>4. g = [n \in 0 .. N |-> Step(g, n)]
  <2>1. g = [n \in 0 .. N |-> g[n]]
    OBVIOUS
  <2> HIDE DEF g, Step
  <2> QED
    BY <1>3, <2>1
<1>5. \E h : h = [n \in 0 .. N |-> Step(h, n)]
  <2> HIDE DEF g, Step
  <2> QED
    BY <1>4
<1>6. Buffers(row) = CHOOSE h : h = [n \in 0 .. N |-> Step(h, n)]
  BY Zenon DEF Buffers
<1>7. Buffers(row) = [n \in 0 .. N |-> Step(Buffers(row), n)]
  <2> DEFINE Right(h) == h = [n \in 0 .. N |-> Step(h, n)]
  <2>1. \E h : Right(h)
    BY <1>5, Zenon
  <2>2. Buffers(row) = CHOOSE h : Right(h)
    BY <1>6, Zenon
  <2> HIDE DEF Right
  <2>3. Right(Buffers(row))
    BY <2>1, <2>2, Zenon
  <2> QED
    BY <2>3, Zenon DEF Right
<1> QED
  BY <1>7, Zenon

\* Buffers grow, and keep what is in them.
LEMMA BuffersGrow ==
  ASSUME NEW row \in Seq(Storable)
  PROVE  /\ \A k \in 0 .. Len(row) :
              Buffers(row)[k] \in Seq(Int) /\ Len(Buffers(row)[k]) >= 1
                /\ Buffers(row)[k][1] = Len(row)
         /\ Buffers(row)[0] = <<Len(row)>>
         /\ \A k \in 1 .. Len(row) :
              /\ Len(Buffers(row)[k]) = Len(Buffers(row)[k - 1]) + Len(EncodeValue(row[k]))
              /\ \A j \in 1 .. Len(EncodeValue(row[k])) :
                   Buffers(row)[k][Len(Buffers(row)[k - 1]) + j] = EncodeValue(row[k])[j]
              /\ \A j \in 1 .. Len(Buffers(row)[k - 1]) :
                   Buffers(row)[k][j] = Buffers(row)[k - 1][j]
<1> DEFINE N == Len(row)
           buf == Buffers(row)
           e(k) == EncodeValue(row[k])
           Good(k) == buf[k] \in Seq(Int) /\ Len(buf[k]) >= 1 /\ buf[k][1] = N
           bad == {k \in 0 .. N : ~Good(k)}
<1>1. N \in Nat /\ \A k \in 1 .. N : row[k] \in Storable
  OBVIOUS
<1>2. buf[0] = <<N>> /\ \A k \in 1 .. N : buf[k] = buf[k - 1] \o e(k)
  <2>1. buf = [n \in 0 .. N |-> IF n = 0 THEN <<N>> ELSE buf[n - 1] \o e(n)]
    BY <1>1, BuffersAre
  <2> HIDE DEF buf, N, e
  <2> QED
    BY <1>1, <2>1
<1>3. \A k \in 1 .. N : e(k) \in Seq(Int) /\ Len(e(k)) \in Nat \ {0}
  BY <1>1, EncodedKinds
<1> HIDE DEF buf, N, e
<1>4. ASSUME NEW k \in 1 .. N, Good(k - 1)
      PROVE  /\ Good(k) /\ Len(buf[k]) = Len(buf[k - 1]) + Len(e(k))
             /\ \A j \in 1 .. Len(e(k)) : buf[k][Len(buf[k - 1]) + j] = e(k)[j]
             /\ \A j \in 1 .. Len(buf[k - 1]) : buf[k][j] = buf[k - 1][j]
  <2> DEFINE a == buf[k - 1]
             c == e(k)
  <2>1. a \in Seq(Int) /\ c \in Seq(Int) /\ Len(a) \in Nat /\ Len(a) >= 1 /\ Len(c) \in Nat
        /\ a[1] = N
    BY <1>3, <1>4
  <2>2. buf[k] = a \o c
    BY <1>2
  <2> HIDE DEF a, c
  <2>3. /\ buf[k] \in Seq(Int) /\ Len(buf[k]) = Len(a) + Len(c)
        /\ \A i \in 1 .. Len(a) + Len(c) :
             buf[k][i] = IF i <= Len(a) THEN a[i] ELSE c[i - Len(a)]
    BY <2>1, <2>2, ConcatProperties
  <2>4. \A j \in 1 .. Len(c) : buf[k][Len(a) + j] = c[j]
    <3> SUFFICES ASSUME NEW j \in 1 .. Len(c) PROVE buf[k][Len(a) + j] = c[j]
      OBVIOUS
    <3> DEFINE i == Len(a) + j
    <3>1. i \in 1 .. Len(a) + Len(c) /\ ~ (i <= Len(a)) /\ i - Len(a) = j
      BY <2>1
    <3> HIDE DEF i
    <3>2. buf[k][i] = IF i <= Len(a) THEN a[i] ELSE c[i - Len(a)]
      BY <2>3, <3>1, Zenon
    <3>3. buf[k][i] = c[j]
      BY <3>1, <3>2, Zenon
    <3> QED
      BY <3>3 DEF i
  <2>5. \A j \in 1 .. Len(a) : buf[k][j] = a[j]
    <3> SUFFICES ASSUME NEW j \in 1 .. Len(a) PROVE buf[k][j] = a[j]
      OBVIOUS
    <3>1. j \in 1 .. Len(a) + Len(c) /\ j <= Len(a)
      BY <2>1
    <3> QED
      BY <2>3, <3>1
  <2>6. buf[k][1] = N /\ Len(buf[k]) >= 1
    BY <2>1, <2>3, <2>5
  <2> QED
    BY <2>3, <2>4, <2>5, <2>6 DEF a, c
<1>5. Good(0)
  <2> DEFINE s == <<N>>
  <2>1. s \in Seq(Int) /\ Len(s) >= 1 /\ s[1] = N /\ buf[0] = s
    BY <1>1, <1>2
  <2> HIDE DEF s
  <2> QED
    BY <2>1
<1>6. bad = {}
  <2> SUFFICES ASSUME bad # {} PROVE FALSE
    OBVIOUS
  <2>1. PICK k \in bad : \A l \in bad : k <= l
    <3>1. bad \in SUBSET Nat
      BY <1>1
    <3> HIDE DEF bad
    <3> QED
      BY <3>1, LeastNat
  <2>2. k \in 0 .. N /\ ~Good(k)
    OBVIOUS
  <2> HIDE DEF Good
  <2>3. k \in 1 .. N /\ k - 1 \in 0 .. N /\ ~ (k <= k - 1)
    BY <1>1, <1>5, <2>2
  <2>4. Good(k - 1)
    BY <2>1, <2>3
  <2> QED
    BY <1>4, <2>2, <2>3, <2>4
<1>7. \A k \in 0 .. N : Good(k)
  BY <1>6
<1>8. \A k \in 1 .. N : Good(k - 1)
  <2>1. \A k \in 1 .. N : k - 1 \in 0 .. N
    BY <1>1
  <2> HIDE DEF Good
  <2> QED
    BY <1>7, <2>1
<1> QED
  BY <1>2, <1>4, <1>7, <1>8 DEF buf, N, e

LEMMA BuffersBegin ==
  ASSUME NEW row \in Seq(Storable), NEW k \in 0 .. Len(row), NEW m \in 0 .. Len(row), k <= m
  PROVE  /\ Len(Buffers(row)[k]) <= Len(Buffers(row)[m])
         /\ \A j \in 1 .. Len(Buffers(row)[k]) : Buffers(row)[m][j] = Buffers(row)[k][j]
<1> DEFINE N == Len(row)
           buf == Buffers(row)
           Good(l) == Len(buf[k]) <= Len(buf[l]) /\ \A j \in 1 .. Len(buf[k]) : buf[l][j] = buf[k][j]
           bad == {l \in k .. N : ~Good(l)}
<1>1. N \in Nat
  OBVIOUS
<1>2. \A l \in 0 .. N : Len(buf[l]) \in Nat
  BY BuffersGrow
<1>3. \A l \in 1 .. N : /\ Len(buf[l - 1]) <= Len(buf[l])
                        /\ \A j \in 1 .. Len(buf[l - 1]) : buf[l][j] = buf[l - 1][j]
  <2> SUFFICES ASSUME NEW l \in 1 .. N
               PROVE  /\ Len(buf[l - 1]) <= Len(buf[l])
                      /\ \A j \in 1 .. Len(buf[l - 1]) : buf[l][j] = buf[l - 1][j]
    OBVIOUS
  <2>1. Len(buf[l]) = Len(buf[l - 1]) + Len(EncodeValue(row[l]))
        /\ \A j \in 1 .. Len(buf[l - 1]) : buf[l][j] = buf[l - 1][j]
    BY BuffersGrow
  <2>2. Len(EncodeValue(row[l])) \in Nat
    BY EncodedKinds
  <2>3. l - 1 \in 0 .. N
    BY <1>1
  <2>4. Len(buf[l - 1]) \in Nat
    BY <1>2, <2>3
  <2> DEFINE p == Len(buf[l - 1])
             n == Len(EncodeValue(row[l]))
  <2>5. p \in Nat /\ n \in Nat /\ Len(buf[l]) = p + n
    BY <2>1, <2>2, <2>4
  <2> HIDE DEF p, n
  <2>6. p <= p + n
    BY <2>5
  <2>7. p <= Len(buf[l])
    BY <2>5, <2>6, Zenon
  <2> QED
    BY <2>1, <2>7, Zenon DEF p
<1> HIDE DEF buf, N
<1>4. bad = {}
  <2> SUFFICES ASSUME bad # {} PROVE FALSE
    OBVIOUS
  <2>1. PICK l \in bad : \A i \in bad : l <= i
    <3>1. bad \in SUBSET Nat
      BY <1>1
    <3> HIDE DEF bad
    <3> QED
      BY <3>1, LeastNat
  <2>2. l \in k .. N /\ ~Good(l)
    OBVIOUS
  <2>3. k \in Nat
    OBVIOUS
  <2>4. l # k
    BY <1>2, <2>2
  <2>5. l \in 1 .. N /\ l - 1 \in k .. N /\ l - 1 \in 0 .. N /\ l \in 0 .. N /\ ~ (l <= l - 1)
    <3> HIDE DEF Good, bad
    <3> QED
      BY <1>1, <2>2, <2>3, <2>4
  <2>6. Good(l - 1)
    <3> HIDE DEF Good
    <3> QED
      BY <2>1, <2>5
  <2>7. Len(buf[k]) \in Nat /\ Len(buf[l - 1]) \in Nat /\ Len(buf[l]) \in Nat
    BY <1>2, <2>5 DEF N
  <2> DEFINE lk == Len(buf[k])
             ll == Len(buf[l - 1])
             lm == Len(buf[l])
  <2>8. /\ lk <= ll /\ ll <= lm
        /\ \A j \in 1 .. lk : buf[l - 1][j] = buf[k][j]
        /\ \A j \in 1 .. ll : buf[l][j] = buf[l - 1][j]
        /\ lk \in Nat /\ ll \in Nat /\ lm \in Nat
    BY <1>3, <2>5, <2>6, <2>7
  <2>9. ~ (lk <= lm /\ \A j \in 1 .. lk : buf[l][j] = buf[k][j])
    BY <2>2
  <2> HIDE DEF lk, ll, lm
  <2>10. \A j \in 1 .. lk : j \in 1 .. ll
    BY <2>8
  <2>11. \A j \in 1 .. lk : buf[l][j] = buf[k][j]
    BY <2>8, <2>10
  <2> QED
    BY <2>8, <2>9, <2>11
<1> QED
  <2>1. m \in k .. N
    BY DEF N
  <2>2. Good(m)
    BY <1>4, <2>1
  <2> QED
    BY <2>2 DEF buf

\* Rows one value longer.
LEMMA OneMore ==
  ASSUME NEW V, NEW row \in Seq(V), NEW k \in 1 .. Len(row)
  PROVE  Append(SubSeq(row, 1, k - 1), row[k]) = SubSeq(row, 1, k)
<1> DEFINE p == SubSeq(row, 1, k - 1)
           q == SubSeq(row, 1, k)
           a == Append(p, row[k])
<1>1. /\ Len(row) \in Nat /\ k \in Nat /\ k >= 1 /\ k - 1 \in Int /\ row[k] \in V
      /\ k - 1 - 1 + 1 = k - 1 /\ k - 1 + 1 = k /\ \A i \in 1 .. k : 1 + i - 1 = i
  OBVIOUS
<1>2. p \in Seq(V) /\ Len(p) = k - 1 /\ \A i \in 1 .. k - 1 : p[i] = row[i]
  <2>1. \A i \in 1 .. k - 1 : row[i] \in V
    OBVIOUS
  <2> HIDE DEF p
  <2> QED
    BY <2>1 DEF p
<1>3. q \in Seq(V) /\ Len(q) = k /\ \A i \in 1 .. k : q[i] = row[i]
  <2>1. \A i \in 1 .. k : row[i] \in V
    OBVIOUS
  <2> HIDE DEF q
  <2> QED
    BY <2>1 DEF q
<1> HIDE DEF p, q
<1>4. a \in Seq(V) /\ Len(a) = k /\ \A i \in 1 .. k : a[i] = row[i]
  <2>1. a \in Seq(V) /\ Len(a) = Len(p) + 1 /\ a[Len(p) + 1] = row[k]
        /\ \A i \in 1 .. Len(p) : a[i] = p[i]
    BY <1>1, <1>2
  <2> HIDE DEF a
  <2> QED
    BY <1>1, <1>2, <2>1
<1> HIDE DEF a
<1>5. a = q
  BY <1>3, <1>4
<1> QED
  BY <1>5 DEF a, p, q

LEMMA PrefixesRead ==
  ASSUME NEW row \in Seq(Storable), NEW n \in 1 .. Len(Encode(row))
  PROVE  Decode(SubSeq(Encode(row), 1, n)) =
           IF n = Len(Encode(row)) THEN row ELSE <<Error>>
<1> DEFINE N == Len(row)
           buf == Buffers(row)
           E == Encode(row)
           b == SubSeq(E, 1, n)
           e(k) == EncodeValue(row[k])
           failed == [row |-> <<Error>>, at |-> 0]
           Step(f, k) ==
             IF k = 0 THEN [row |-> << >>, at |-> 2]
             ELSE LET r == f[k - 1]
                      next == DecodeValue(b, r.at)
                  IN  IF r.at = 0 \/ next.len = 0 THEN failed
                      ELSE [row |-> Append(r.row, next.val), at |-> r.at + next.len]
           W == [k \in 0 .. N |->
                   IF Len(buf[k]) <= n THEN [row |-> SubSeq(row, 1, k), at |-> Len(buf[k]) + 1]
                   ELSE failed]
<1>1. /\ N \in Nat /\ E = buf[N] /\ n \in Nat /\ n >= 1 /\ n <= Len(E) /\ E \in Seq(Int)
      /\ Len(E) \in Nat /\ E[1] = N /\ \A k \in 1 .. N : row[k] \in Storable
  <2>1. N \in Nat /\ E = buf[N] /\ \A k \in 1 .. N : row[k] \in Storable
    <3>1. E = buf[N]
      BY Zenon DEF Encode
    <3> QED
      BY <3>1
  <2>2. N \in 0 .. N
    BY <2>1
  <2>3. buf[N] \in Seq(Int) /\ buf[N][1] = N
    BY <2>2, BuffersGrow
  <2> HIDE DEF E, N, buf
  <2> QED
    BY <2>1, <2>3 DEF E
<1>2. b \in Seq(Int) /\ Len(b) = n /\ b # << >> /\ b[1] = N /\ \A j \in 1 .. n : b[j] = E[j]
  <2> HIDE DEF E, N
  <2>1. \A i \in 1 .. n : E[i] \in Int
    BY <1>1
  <2>2. b \in Seq(Int) /\ Len(b) = n /\ \A j \in 1 .. n : b[j] = E[j]
    BY <1>1, <2>1
  <2> HIDE DEF b
  <2>3. 1 \in 1 .. n /\ b # << >>
    BY <1>1, <2>2
  <2> QED
    BY <1>1, <2>2, <2>3
<1>3. /\ \A k \in 0 .. N : /\ Len(buf[k]) \in Nat /\ Len(buf[k]) <= Len(E)
                           /\ \A j \in 1 .. Len(buf[k]) : E[j] = buf[k][j]
      /\ buf[0] = <<N>>
  <2>1. ASSUME NEW k \in 0 .. N
        PROVE  /\ Len(buf[k]) \in Nat /\ Len(buf[k]) <= Len(buf[N])
               /\ \A j \in 1 .. Len(buf[k]) : buf[N][j] = buf[k][j]
    <3>1. N \in 0 .. N /\ k <= N
      BY <1>1
    <3>2. buf[k] \in Seq(Int)
      BY BuffersGrow
    <3>3. Len(buf[k]) \in Nat
      BY <3>2
    <3>4. Len(buf[k]) <= Len(buf[N]) /\ \A j \in 1 .. Len(buf[k]) : buf[N][j] = buf[k][j]
      BY <3>1, BuffersBegin
    <3> QED
      BY <3>3, <3>4, Zenon
  <2>2. buf[0] = <<N>>
    BY BuffersGrow
  <2> HIDE DEF buf, N, E
  <2> QED
    BY <1>1, <2>1, <2>2
<1>4. \A k \in 1 .. N :
        /\ Len(e(k)) \in Nat \ {0} /\ Len(buf[k]) = Len(buf[k - 1]) + Len(e(k))
        /\ \A j \in 1 .. Len(e(k)) : buf[k][Len(buf[k - 1]) + j] = e(k)[j]
  BY <1>1, BuffersGrow, EncodedKinds
<1>5. ASSUME NEW k \in 1 .. N, Len(buf[k - 1]) <= n
      PROVE  /\ Len(buf[k]) <= n =>
                  DecodeValue(b, Len(buf[k - 1]) + 1) = [val |-> row[k], len |-> Len(e(k))]
             /\ Len(buf[k]) > n => DecodeValue(b, Len(buf[k - 1]) + 1).len = 0
  <2> DEFINE p == Len(buf[k - 1])
             c == e(k)
             l == Len(c)
             at == p + 1
  <2>1. k \in 0 .. N /\ k - 1 \in 0 .. N
    BY <1>1
  <2>2. /\ p \in Nat /\ l \in Nat \ {0} /\ Len(buf[k]) = p + l /\ p <= n
        /\ \A j \in 1 .. l : buf[k][p + j] = c[j]
        /\ \A j \in 1 .. Len(buf[k]) : E[j] = buf[k][j]
    BY <1>3, <1>4, <1>5, <2>1
  <2>3. Stored(b, at, c)
    <3> SUFFICES ASSUME NEW j \in 1 .. l, at - 1 + j <= Len(b)
                 PROVE  b[at - 1 + j] = c[j]
      BY Zenon DEF Stored
    <3> HIDE DEF l, p, c, buf, b, E
    <3>1. at - 1 + j = p + j /\ p + j \in 1 .. n /\ p + j \in 1 .. p + l
      BY <1>1, <1>2, <2>2
    <3>2. b[p + j] = E[p + j] /\ E[p + j] = buf[k][p + j] /\ buf[k][p + j] = c[j]
      BY <1>2, <2>2, <3>1
    <3> QED
      BY <3>1, <3>2
  <2>4. at \in Nat \ {0} /\ at <= Len(b) + 1 /\ at - 1 + l = p + l
    <3> HIDE DEF p, l, b
    <3> QED
      BY <1>1, <1>2, <2>2
  <2>5. /\ at - 1 + l <= Len(b) => DecodeValue(b, at) = [val |-> row[k], len |-> l]
        /\ at - 1 + l > Len(b) => DecodeValue(b, at).len = 0
    <3> DEFINE v == row[k]
    <3>1. v \in Storable /\ b \in Seq(Int) /\ c = EncodeValue(v) /\ Stored(b, at, EncodeValue(v))
      BY <1>1, <1>2, <2>3
    <3> HIDE DEF v, b, c, at
    <3> QED
      BY <2>4, <3>1, DecodesValue DEF v
  <2> HIDE DEF p, l, b
  <2>6. at - 1 + l <= Len(b) <=> Len(buf[k]) <= n
    BY <1>2, <2>2, <2>4
  <2>7. at - 1 + l > Len(b) <=> Len(buf[k]) > n
    BY <1>2, <2>2, <2>4
  <2> QED
    BY <2>5, <2>6, <2>7 DEF p, l, b
<1>6. ASSUME NEW k \in 0 .. N
      PROVE  W[k] = Step(W, k)
  <2>0. W[k] = IF Len(buf[k]) <= n THEN [row |-> SubSeq(row, 1, k), at |-> Len(buf[k]) + 1]
               ELSE failed
    BY Zenon
  <2>1. CASE k = 0
    <3>1. Len(buf[0]) = 1 /\ SubSeq(row, 1, 0) = << >> /\ Len(buf[0]) <= n /\ Len(buf[0]) + 1 = 2
      <4> HIDE DEF buf, N
      <4> QED
        BY <1>1, <1>3
    <3> HIDE DEF W, buf, failed, b, N
    <3> QED
      BY <2>0, <2>1, <3>1
  <2>2. CASE k # 0
    <3> DEFINE r == W[k - 1]
               next == DecodeValue(b, r.at)
    <3>1. k \in 1 .. N /\ k - 1 \in 0 .. N
      <4> HIDE DEF N
      <4> QED
        BY <1>1, <2>2
    <3>2. r = IF Len(buf[k - 1]) <= n
              THEN [row |-> SubSeq(row, 1, k - 1), at |-> Len(buf[k - 1]) + 1] ELSE failed
      BY <3>1, Zenon
    <3>3. Step(W, k) = IF r.at = 0 \/ next.len = 0 THEN failed
                       ELSE [row |-> Append(r.row, next.val), at |-> r.at + next.len]
      BY <2>2, Zenon
    <3> DEFINE p == Len(buf[k - 1])
               m == Len(buf[k])
               l == Len(e(k))
    <3>4. p \in Nat /\ m \in Nat /\ l \in Nat \ {0} /\ m = p + l
      BY <1>3, <1>4, <3>1
    <3>5. CASE p > n
      <4>1. ~ (p <= n) /\ ~ (m <= n)
        <5> HIDE DEF p, m, l
        <5> QED
          BY <1>1, <3>4, <3>5
      <4>2. r = failed
        BY <3>2, <4>1, Zenon
      <4>3. r.at = 0
        BY <4>2
      <4> HIDE DEF Step, r, next
      <4> QED
        BY <2>0, <3>3, <4>1, <4>3, Zenon
    <3>6. CASE p <= n /\ m > n
      <4>1. ~ (m <= n)
        <5> HIDE DEF p, m, l
        <5> QED
          BY <1>1, <3>4, <3>6
      <4>2. r.at = p + 1
        BY <3>2, <3>6
      <4>3. DecodeValue(b, p + 1).len = 0
        BY <1>5, <3>1, <3>6
      <4>4. next.len = 0
        BY <4>2, <4>3, Zenon
      <4> HIDE DEF Step, r, next
      <4> QED
        BY <2>0, <3>3, <4>1, <4>4, Zenon
    <3>7. CASE p <= n /\ m <= n
      <4>1. r.at = p + 1 /\ r.row = SubSeq(row, 1, k - 1)
        BY <3>2, <3>7
      <4>2. DecodeValue(b, p + 1) = [val |-> row[k], len |-> l]
        BY <1>5, <3>1, <3>7
      <4>3. next = [val |-> row[k], len |-> l]
        BY <4>1, <4>2, Zenon
      <4>4. next.val = row[k] /\ next.len = l
        BY <4>3
      <4>5. Append(SubSeq(row, 1, k - 1), row[k]) = SubSeq(row, 1, k)
        BY <3>1, OneMore DEF N
      <4> HIDE DEF r, next, p, l, m, Step
      <4>6. ~ (r.at = 0 \/ next.len = 0) /\ r.at + next.len = m + 1
        BY <3>4, <4>1, <4>4
      <4>7. Step(W, k) = [row |-> Append(r.row, next.val), at |-> r.at + next.len]
        BY <3>3, <4>6, Zenon
      <4>8. Step(W, k) = [row |-> SubSeq(row, 1, k), at |-> m + 1]
        BY <4>1, <4>4, <4>5, <4>6, <4>7, Zenon
      <4> QED
        BY <2>0, <3>7, <4>8, Zenon DEF m
    <3> QED
      <4> HIDE DEF p, m, l, W, Step
      <4> QED
        BY <1>1, <3>4, <3>5, <3>6, <3>7
  <2> QED
    BY <2>1, <2>2, Zenon
<1> DEFINE R == Readings(b)
<1>7. R = [k \in 0 .. N |-> Step(R, k)]
  <2>1. W = [k \in 0 .. N |-> W[k]]
    OBVIOUS
  <2> HIDE DEF W, Step
  <2>2. W = [k \in 0 .. N |-> Step(W, k)]
    BY <1>6, <2>1
  <2> DEFINE Right(h) == h = [k \in 0 .. N |-> Step(h, k)]
  <2>3. \E h : Right(h)
    BY <2>2, Zenon
  <2>4. R = CHOOSE h : Right(h)
    <3>1. R = CHOOSE h : h = [k \in 0 .. b[1] |-> Step(h, k)]
      BY Zenon DEF Readings, Step
    <3> HIDE DEF R
    <3> QED
      BY <1>2, <3>1, Zenon
  <2> HIDE DEF Right
  <2>5. Right(R)
    BY <2>3, <2>4, Zenon
  <2> QED
    BY <2>5, Zenon DEF Right
<1> DEFINE bad == {k \in 0 .. N : R[k] # W[k]}
<1>8. bad = {}
  <2> SUFFICES ASSUME bad # {} PROVE FALSE
    OBVIOUS
  <2>1. PICK k \in bad : \A l \in bad : k <= l
    <3>1. bad \in SUBSET Nat
      BY <1>1
    <3> HIDE DEF bad
    <3> QED
      BY <3>1, LeastNat
  <2>2. k \in 0 .. N /\ R[k] # W[k]
    OBVIOUS
  <2>3. R[k] = Step(R, k) /\ W[k] = Step(W, k)
    <3> HIDE DEF R, W, Step
    <3> QED
      BY <1>6, <1>7, <2>2, Zenon
  <2>4. k = 0 => Step(R, k) = Step(W, k)
    BY Zenon
  <2>5. k # 0 => Step(R, k) = Step(W, k)
    <3> SUFFICES ASSUME k # 0 PROVE Step(R, k) = Step(W, k)
      OBVIOUS
    <3>1. k - 1 \in 0 .. N /\ ~ (k <= k - 1)
      <4> HIDE DEF N
      <4> QED
        BY <1>1, <2>2
    <3>2. R[k - 1] = W[k - 1]
      <4> HIDE DEF R, W
      <4> QED
        BY <2>1, <3>1
    <3> HIDE DEF R, W
    <3> QED
      BY <3>2, Zenon
  <2> QED
    BY <2>2, <2>3, <2>4, <2>5, Zenon
<1>9. Decode(b) = W[N].row
  <2>1. N \in 0 .. N
    BY <1>1
  <2>2. R[N] = W[N]
    BY <1>8, <2>1
  <2>3. Decode(b) = R[b[1]].row
    BY <1>2, Zenon DEF Decode
  <2> HIDE DEF R, W, b
  <2> QED
    BY <1>2, <2>2, <2>3, Zenon
<1>10. W[N] = IF Len(E) <= n THEN [row |-> SubSeq(row, 1, N), at |-> Len(E) + 1] ELSE failed
  <2>1. N \in 0 .. N
    BY <1>1
  <2> QED
    BY <1>1, <2>1, Zenon
<1>11. SubSeq(row, 1, N) = row
  OBVIOUS
<1> HIDE DEF W, E, b
<1>12. Len(E) <= n <=> n = Len(E)
  BY <1>1
<1>13. CASE n = Len(E)
  <2>1. W[N].row = row
    BY <1>10, <1>11, <1>12, <1>13
  <2> QED
    BY <1>9, <1>13, <2>1, Zenon DEF b, E
<1>14. CASE n # Len(E)
  <2>1. W[N].row = <<Error>>
    BY <1>10, <1>12, <1>14
  <2> QED
    BY <1>9, <1>14, <2>1, Zenon DEF b, E
<1> QED
  BY <1>13, <1>14, Zenon

\* A row is read back from its bytes as it was written, and no part of them is taken for a
\* row: record.go, Encode and Decode.
THEOREM RowsReadBack ==
  ASSUME NEW row \in Seq(Storable)
  PROVE  /\ Decode(Encode(row)) = row
         /\ \A n \in 1 .. Len(Encode(row)) - 1 : Decode(SubSeq(Encode(row), 1, n)) = <<Error>>
<1> DEFINE E == Encode(row)
<1>1. E \in Seq(Int) /\ Len(E) \in Nat /\ Len(E) >= 1
  <2>1. Len(row) \in 0 .. Len(row)
    OBVIOUS
  <2>2. E = Buffers(row)[Len(row)]
    BY Zenon DEF Encode
  <2>3. E \in Seq(Int) /\ Len(E) >= 1
    BY <2>1, <2>2, BuffersGrow
  <2> HIDE DEF E
  <2> QED
    BY <2>3
<1>2. \A n \in 1 .. Len(E) : Decode(SubSeq(E, 1, n)) = IF n = Len(E) THEN row ELSE <<Error>>
  BY PrefixesRead
<1> HIDE DEF E
<1>3. SubSeq(E, 1, Len(E)) = E
  BY <1>1
<1>4. Len(E) \in 1 .. Len(E) /\ \A n \in 1 .. Len(E) - 1 : n \in 1 .. Len(E) /\ n # Len(E)
  BY <1>1
<1>5. Decode(E) = row
  BY <1>2, <1>3, <1>4
<1> QED
  BY <1>2, <1>4, <1>5 DEF E

\* Different rows have different bytes, so that the keys of an index, which are compared as
\* bytes, are the same only where their values are: index.go, sameKey.
COROLLARY BytesTellRowsApart ==
  ASSUME NEW r \in Seq(Storable), NEW s \in Seq(Storable), Encode(r) = Encode(s)
  PROVE  r = s
<1>1. Decode(Encode(r)) = r /\ Decode(Encode(s)) = s
  BY RowsReadBack
<1> QED
  BY <1>1

-----------------------------------------------------------------------------
(* The schema page.                                                        *)

\* b has all of x from position at on.
Within(b, at, x) ==
  /\ at \in Nat \ {0} /\ at + Len(x) <= Len(b) + 1
  /\ \A j \in 1 .. Len(x) : b[at - 1 + j] = x[j]

\* A part of a buffer that is put together from two.
LEMMA PartsWithin ==
  ASSUME NEW b \in Seq(Int), NEW at, NEW x \in Seq(Int), NEW y \in Seq(Int), Within(b, at, x \o y)
  PROVE  /\ x \o y \in Seq(Int) /\ Len(x \o y) = Len(x) + Len(y)
         /\ Within(b, at, x) /\ Within(b, at + Len(x), y)
<1> DEFINE z == x \o y
           l == Len(x)
           m == Len(y)
           n == Len(b)
<1>1. l \in Nat /\ m \in Nat /\ n \in Nat
  OBVIOUS
<1>2. /\ z \in Seq(Int) /\ Len(z) = l + m
      /\ \A i \in 1 .. l + m : z[i] = IF i <= l THEN x[i] ELSE y[i - l]
  <2> HIDE DEF z
  <2> QED
    BY ConcatProperties DEF z
<1>3. /\ at \in Nat /\ at >= 1 /\ at + Len(z) <= n + 1
      /\ \A j \in 1 .. Len(z) : b[at - 1 + j] = z[j]
  <2>1. Within(b, at, z)
    OBVIOUS
  <2> HIDE DEF z
  <2> QED
    BY <2>1 DEF Within
<1> DEFINE p == at + l
<1> HIDE DEF z, l, m, n
<1>4. at + l <= n + 1 /\ p + m <= n + 1 /\ p \in Nat \ {0}
  BY <1>1, <1>2, <1>3
<1>5. ASSUME NEW j \in 1 .. l PROVE b[at - 1 + j] = x[j]
  <2>1. j \in 1 .. l + m /\ j <= l
    BY <1>1
  <2> QED
    BY <1>2, <1>3, <2>1
<1>6. ASSUME NEW j \in 1 .. m PROVE b[p - 1 + j] = y[j]
  <2> DEFINE i == l + j
  <2>1. i \in 1 .. l + m /\ ~ (i <= l) /\ i - l = j /\ at - 1 + i = p - 1 + j
    BY <1>1, <1>3
  <2> HIDE DEF i, p
  <2>2. b[at - 1 + i] = z[i] /\ z[i] = y[i - l]
    BY <1>2, <1>3, <2>1
  <2> QED
    BY <2>1, <2>2
<1>7. Within(b, at, x)
  BY <1>3, <1>4, <1>5 DEF Within, l, n
<1>8. Within(b, p, y)
  BY <1>4, <1>6, Zenon DEF Within, m, n, p
<1> QED
  BY <1>2, <1>7, <1>8 DEF z, l, m, p

LEMMA StringRead ==
  ASSUME NEW b \in Seq(Int), NEW s \in Texts
  PROVE  /\ AppendString(s) \in Seq(Int) /\ Len(AppendString(s)) \in Nat
         /\ \A at : Within(b, at, AppendString(s)) =>
              ReadString(b)[at] = [val |-> s, at |-> at + Len(AppendString(s))]
<1> DEFINE e == AppendString(s)
           f == Bytes(s)
           l == Len(s)
<1>1. l \in Nat /\ \A j \in 1 .. l : s[j] \in Characters
  BY DEF Texts
<1>2. f \in Seq(Int) /\ Len(f) = l /\ \A j \in 1 .. l : f[j] = Code(s[j])
  <2>1. f = [j \in 1 .. l |-> Code(s[j])]
    BY DEF Bytes, Texts
  <2>2. \A j \in 1 .. l : Code(s[j]) \in Int
    BY <1>1, CodesDiffer
  <2> HIDE DEF l
  <2> QED
    BY <1>1, <2>1, <2>2
<1>3. e = <<l>> \o f
  BY DEF AppendString
<1>4. <<l>> \in Seq(Int) /\ Len(<<l>>) = 1
  BY <1>1
<1>5. e \in Seq(Int) /\ Len(e) = l + 1
  <2> HIDE DEF e, f, l
  <2> DEFINE x == <<l>>
  <2>1. x \in Seq(Int) /\ Len(x) = 1 /\ e = x \o f
    BY <1>3, <1>4
  <2> HIDE DEF x
  <2> QED
    <3>1. x \o f \in Seq(Int) /\ Len(x \o f) = Len(x) + Len(f)
      BY <1>2, <2>1, ConcatProperties
    <3>2. Len(e) = Len(x) + Len(f) /\ e \in Seq(Int)
      BY <2>1, <3>1, Zenon
    <3> QED
      BY <1>1, <1>2, <2>1, <3>2
<1>6. ASSUME NEW at, Within(b, at, e)
      PROVE  ReadString(b)[at] = [val |-> s, at |-> at + Len(e)]
  <2>1. Within(b, at, <<l>>) /\ Within(b, at + 1, f)
    <3> DEFINE x == <<l>>
    <3>1. x \in Seq(Int) /\ Len(x) = 1 /\ Within(b, at, x \o f)
      BY <1>3, <1>4, <1>6
    <3> HIDE DEF x, f
    <3>2. Within(b, at, x) /\ Within(b, at + Len(x), f)
      BY <1>2, <3>1, PartsWithin
    <3> QED
      BY <3>1, <3>2 DEF x
  <2>2. at \in Nat /\ at >= 1 /\ at + 1 <= Len(b) + 1 /\ b[at] = l
    <3> DEFINE x == <<l>>
    <3>1. Len(x) = 1 /\ x[1] = l /\ Within(b, at, x)
      BY <2>1
    <3> HIDE DEF x, l
    <3>2. at \in Nat /\ at >= 1 /\ at + 1 <= Len(b) + 1 /\ b[at - 1 + 1] = l
      BY <3>1 DEF Within
    <3> QED
      BY <3>2
  <2>3. at + 1 + l <= Len(b) + 1 /\ \A j \in 1 .. l : b[at + 1 - 1 + j] = f[j]
    <3> HIDE DEF f, l
    <3> QED
      BY <1>2, <2>1 DEF Within
  <2> DEFINE c == SubSeq(b, at + 1, at + l)
  <2>4. Len(b) \in Nat /\ at \in 1 .. Len(b) /\ at \in Places(b) /\ l <= Len(b) - at
    <3> HIDE DEF l
    <3> QED
      BY <1>1, <2>2, <2>3 DEF Places
  <2>5. ReadString(b)[at] = [val |-> Chars(c), at |-> at + l + 1]
    BY <2>2, <2>4 DEF ReadString
  <2>6. Len(c) = l /\ c \in Seq(Int) /\ \A j \in 1 .. l : c[j] = b[at + j]
    <3> DEFINE m == at + 1
               n == at + l
    <3>1. /\ m \in Int /\ n \in Int /\ n - m + 1 = l /\ m >= 1 /\ n <= Len(b)
          /\ \A j \in 1 .. l : m + j - 1 = at + j
      <4> HIDE DEF l
      <4> QED
        BY <1>1, <2>2, <2>4
    <3>2. c = SubSeq(b, m, n)
      OBVIOUS
    <3> HIDE DEF m, n, c, l
    <3>3. \A i \in m .. n : b[i] \in Int
      BY <2>4, <3>1
    <3>4. Len(c) = l /\ c \in Seq(Int) /\ \A j \in 1 .. l : c[j] = b[m + j - 1]
      BY <1>1, <2>4, <3>1, <3>2, <3>3, SubSeqProperties
    <3> QED
      BY <3>1, <3>4
  <2>7. \A j \in 1 .. l : c[j] = Code(s[j])
    <3> SUFFICES ASSUME NEW j \in 1 .. l PROVE c[j] = Code(s[j])
      OBVIOUS
    <3>1. at + 1 - 1 + j = at + j
      BY <2>2
    <3> HIDE DEF l, c, f
    <3> QED
      BY <1>2, <2>3, <2>6, <3>1
  <2>8. Chars(c) = s
    <3> HIDE DEF c
    <3>1. Chars(c) = [j \in 1 .. l |-> Alphabet[c[j]]]
      <4> HIDE DEF l
      <4> QED
        BY <1>1, <2>6 DEF Chars
    <3>2. \A j \in 1 .. l : Alphabet[c[j]] = s[j]
      BY <1>1, <2>7, CodesDiffer
    <3>3. s = [j \in 1 .. l |-> s[j]]
      BY DEF Texts
    <3> HIDE DEF l
    <3> QED
      BY <3>1, <3>2, <3>3
  <2>9. at + l + 1 = at + Len(e)
    <3> HIDE DEF l, e
    <3> QED
      BY <1>1, <1>5, <2>2
  <2> HIDE DEF c, l, e
  <2> QED
    BY <2>5, <2>8, <2>9
<1> HIDE DEF e, l
<1>7. Len(e) \in Nat
  BY <1>5
<1> QED
  BY <1>5, <1>6, <1>7 DEF e

\* FlattenSeq puts buffers together from the first on.
LEMMA FlattenRuns ==
  ASSUME NEW fs, Len(fs) \in Nat \ {0}
  PROVE  \E h : /\ h = [i \in 1 .. Len(fs) |-> IF i = 1 THEN fs[i] ELSE h[i - 1] \o fs[i]]
                /\ FlattenSeq(fs) = h[Len(fs)]
<1> DEFINE N == Len(fs)
           Step(f, i) == IF i = 1 THEN fs[i] ELSE f[i - 1] \o fs[i]
           UpTo(f, m) == \A i \in 1 .. m : f[i] = Step(f, i)
           missed == {m \in Nat : ~ \E f : UpTo(f, m)}
<1>1. missed = {}
  <2> SUFFICES ASSUME missed # {} PROVE FALSE
    OBVIOUS
  <2>1. PICK m \in missed : \A l \in missed : m <= l
    <3>1. missed \in SUBSET Nat
      OBVIOUS
    <3> HIDE DEF missed
    <3> QED
      BY <3>1, LeastNat
  <2>2. m \in Nat /\ \A f : ~UpTo(f, m)
    BY <2>1
  <2>3. CASE m = 0
    <3>1. UpTo(<< >>, 0)
      OBVIOUS
    <3> QED
      BY <2>2, <2>3, <3>1
  <2>4. CASE m # 0
    <3>1. m - 1 \in Nat /\ m - 1 \notin missed
      <4>1. m - 1 \in Nat /\ ~ (m <= m - 1)
        BY <2>2, <2>4
      <4> QED
        BY <2>1, <4>1
    <3>2. PICK f : UpTo(f, m - 1)
      BY <3>1
    <3> DEFINE g == [i \in 1 .. m |-> Step(f, i)]
    <3>3. ASSUME NEW i \in 1 .. m
          PROVE  g[i] = Step(g, i)
      <4>1. CASE i = 1
        BY <4>1
      <4>2. CASE i # 1
        <5>1. i - 1 \in 1 .. m - 1 /\ i - 1 \in 1 .. m
          BY <2>2, <4>2
        <5>2. f[i - 1] = Step(f, i - 1) /\ g[i - 1] = Step(f, i - 1)
          BY <3>2, <5>1
        <5>3. g[i] = f[i - 1] \o fs[i]
          BY <4>2
        <5> HIDE DEF g
        <5> QED
          BY <4>2, <5>2, <5>3
      <4> QED
        BY <4>1, <4>2
    <3> HIDE DEF g, Step
    <3>4. UpTo(g, m)
      BY <3>3
    <3> QED
      BY <2>2, <3>4
  <2> QED
    BY <2>3, <2>4
<1>2. PICK f : UpTo(f, N)
  <2> HIDE DEF UpTo
  <2> QED
    BY <1>1
<1> DEFINE g == [i \in 1 .. N |-> f[i]]
<1>3. ASSUME NEW i \in 1 .. N PROVE g[i] = Step(g, i)
  <2>1. f[i] = Step(f, i)
    BY <1>2
  <2>2. i # 1 => i - 1 \in 1 .. N
    OBVIOUS
  <2> QED
    BY <2>1, <2>2
<1>4. g = [i \in 1 .. N |-> Step(g, i)]
  <2>1. g = [i \in 1 .. N |-> g[i]]
    OBVIOUS
  <2> HIDE DEF g, Step
  <2> QED
    BY <1>3, <2>1
<1> DEFINE Right(h) == h = [i \in 1 .. N |-> Step(h, i)]
<1>5. \E h : Right(h)
  BY <1>4, Zenon
<1>6. FlattenSeq(fs) = (CHOOSE h : Right(h))[N]
  <2>1. ~ (N = 0)
    OBVIOUS
  <2> QED
    BY <2>1, Zenon DEF FlattenSeq
<1> HIDE DEF Right
<1>7. Right(CHOOSE h : Right(h))
  BY <1>5, Zenon
<1> QED
  BY <1>6, <1>7, Zenon DEF Right

LEMMA Flattened ==
  ASSUME NEW fs \in Seq(Seq(Int))
  PROVE  \E flat : /\ flat[0] = << >> /\ flat[Len(fs)] = FlattenSeq(fs)
                   /\ \A k \in 0 .. Len(fs) : flat[k] \in Seq(Int)
                   /\ \A k \in 1 .. Len(fs) : flat[k] = flat[k - 1] \o fs[k]
<1> DEFINE N == Len(fs)
<1>1. N \in Nat /\ \A k \in 1 .. N : fs[k] \in Seq(Int)
  OBVIOUS
<1>2. CASE N = 0
  <2> DEFINE flat == [k \in 0 .. 0 |-> << >>]
  <2>1. fs = << >> /\ FlattenSeq(fs) = fs
    BY <1>2 DEF FlattenSeq
  <2>2. flat[0] = << >> /\ << >> \in Seq(Int)
    OBVIOUS
  <2> HIDE DEF flat
  <2>3. /\ flat[0] = << >> /\ flat[N] = FlattenSeq(fs)
        /\ \A k \in 0 .. N : flat[k] \in Seq(Int)
        /\ \A k \in 1 .. N : flat[k] = flat[k - 1] \o fs[k]
    <3>1. flat[N] = FlattenSeq(fs)
      BY <1>2, <2>1, <2>2, Zenon
    <3>2. \A k \in 0 .. N : k = 0
      BY <1>2
    <3>3. \A k \in 0 .. N : flat[k] \in Seq(Int)
      BY <2>2, <3>2, Zenon
    <3>4. 1 .. N = {}
      BY <1>2
    <3> QED
      BY <2>2, <3>1, <3>3, <3>4, Zenon
  <2> QED
    BY <2>3
<1>3. CASE N # 0
  <2>1. PICK h : /\ h = [i \in 1 .. N |-> IF i = 1 THEN fs[i] ELSE h[i - 1] \o fs[i]]
                 /\ FlattenSeq(fs) = h[N]
    <3>1. Len(fs) \in Nat \ {0}
      BY <1>1, <1>3
    <3> QED
      BY <3>1, FlattenRuns, Zenon
  <2> DEFINE flat == [k \in 0 .. N |-> IF k = 0 THEN << >> ELSE h[k]]
             bad == {k \in 0 .. N : flat[k] \notin Seq(Int)}
  <2>2. flat[0] = << >> /\ flat[N] = FlattenSeq(fs)
    <3>1. 0 \in 0 .. N /\ N \in 0 .. N
      BY <1>1
    <3> HIDE DEF N
    <3> QED
      BY <1>3, <2>1, <3>1
  <2>3. \A k \in 1 .. N : h[k] = IF k = 1 THEN fs[k] ELSE h[k - 1] \o fs[k]
    <3> HIDE DEF N
    <3> QED
      BY <2>1
  <2>4. ASSUME NEW k \in 1 .. N PROVE flat[k] = flat[k - 1] \o fs[k]
    <3>1. k \in 0 .. N /\ k - 1 \in 0 .. N /\ k # 0 /\ (k = 1 <=> k - 1 = 0)
      BY <1>1
    <3>2. flat[k] = h[k]
      BY <3>1, Zenon
    <3>3. flat[k - 1] = IF k = 1 THEN << >> ELSE h[k - 1]
      BY <3>1, Zenon
    <3>4. << >> \o fs[k] = fs[k]
      BY <1>1
    <3> HIDE DEF flat, N
    <3> QED
      BY <2>3, <3>2, <3>3, <3>4, Zenon
  <2>5. bad = {}
    <3> SUFFICES ASSUME bad # {} PROVE FALSE
      OBVIOUS
    <3>1. PICK k \in bad : \A l \in bad : k <= l
      <4>1. bad \in SUBSET Nat
        BY <1>1
      <4> HIDE DEF bad
      <4> QED
        BY <4>1, LeastNat
    <3>2. k \in 0 .. N /\ flat[k] \notin Seq(Int)
      OBVIOUS
    <3> HIDE DEF flat
    <3>3. << >> \in Seq(Int)
      OBVIOUS
    <3>4. k \in 1 .. N /\ k - 1 \in 0 .. N /\ ~ (k <= k - 1)
      <4>1. k # 0
        BY <2>2, <3>2, <3>3, Zenon
      <4> HIDE DEF N
      <4> QED
        BY <1>1, <3>2, <4>1
    <3>5. flat[k - 1] \in Seq(Int)
      BY <3>1, <3>4
    <3>6. flat[k - 1] \o fs[k] \in Seq(Int)
      BY <1>1, <3>4, <3>5, ConcatProperties
    <3> QED
      BY <2>4, <3>2, <3>4, <3>6
  <2> HIDE DEF flat, N
  <2>6. \A k \in 0 .. N : flat[k] \in Seq(Int)
    BY <2>5
  <2> QED
    BY <2>2, <2>4, <2>6 DEF N
<1> QED
  BY <1>2, <1>3

\* What is put together from fs and begins at position at has its pieces at the places ps.
Pieces(b, at, fs, ps) ==
  /\ ps[0] = at /\ ps[Len(fs)] = at + Len(FlattenSeq(fs))
  /\ \A k \in 0 .. Len(fs) : ps[k] \in Nat \ {0}
  /\ \A k \in 1 .. Len(fs) : ps[k] = ps[k - 1] + Len(fs[k]) /\ Within(b, ps[k - 1], fs[k])

\* Each buffer has its place in what is put together of them.
LEMMA PiecesWithin ==
  ASSUME NEW b \in Seq(Int), NEW at, NEW fs \in Seq(Seq(Int)), Within(b, at, FlattenSeq(fs))
  PROVE  \E ps : Pieces(b, at, fs, ps)
<1> DEFINE N == Len(fs)
<1>1. N \in Nat /\ at \in Nat /\ at >= 1 /\ \A k \in 1 .. N : fs[k] \in Seq(Int)
  BY DEF Within
<1>2. PICK flat : /\ flat[0] = << >> /\ flat[N] = FlattenSeq(fs)
                  /\ \A k \in 0 .. N : flat[k] \in Seq(Int)
                  /\ \A k \in 1 .. N : flat[k] = flat[k - 1] \o fs[k]
  BY Flattened, Zenon
<1> HIDE DEF N
<1>3. ASSUME NEW k \in 1 .. N, Within(b, at, flat[k])
      PROVE  /\ Within(b, at, flat[k - 1]) /\ Within(b, at + Len(flat[k - 1]), fs[k])
             /\ Len(flat[k]) = Len(flat[k - 1]) + Len(fs[k])
  <2> DEFINE x == flat[k - 1]
             y == fs[k]
  <2>1. k - 1 \in 0 .. N
    BY <1>1
  <2>2. x \in Seq(Int) /\ y \in Seq(Int) /\ flat[k] = x \o y /\ Within(b, at, x \o y)
    BY <1>1, <1>2, <1>3, <2>1
  <2> HIDE DEF x, y
  <2>3. Within(b, at, x) /\ Within(b, at + Len(x), y) /\ Len(x \o y) = Len(x) + Len(y)
    BY <2>2, PartsWithin
  <2> QED
    BY <2>2, <2>3, Zenon DEF x, y
<1> DEFINE bad == {d \in 0 .. N : ~Within(b, at, flat[N - d])}
<1>4. bad = {}
  <2> SUFFICES ASSUME bad # {} PROVE FALSE
    OBVIOUS
  <2>1. PICK d \in bad : \A l \in bad : d <= l
    <3>1. bad \in SUBSET Nat
      BY <1>1
    <3> HIDE DEF bad
    <3> QED
      BY <3>1, LeastNat
  <2>2. d \in 0 .. N /\ ~Within(b, at, flat[N - d])
    OBVIOUS
  <2>3. d # 0
    <3>1. N - 0 = N
      BY <1>1
    <3> QED
      BY <1>2, <2>2, <3>1, Zenon
  <2> DEFINE k == N - d + 1
  <2>4. d - 1 \in 0 .. N /\ ~ (d <= d - 1) /\ k \in 1 .. N /\ k - 1 = N - d /\ N - (d - 1) = k
    BY <1>1, <2>2, <2>3
  <2> HIDE DEF k
  <2>5. Within(b, at, flat[k])
    BY <2>1, <2>4
  <2> HIDE DEF bad
  <2>6. Within(b, at, flat[k - 1])
    BY <1>3, <2>4, <2>5
  <2> QED
    BY <2>2, <2>4, <2>6, Zenon
<1>5. ASSUME NEW k \in 0 .. N PROVE Within(b, at, flat[k])
  <2>1. N - k \in 0 .. N /\ N - (N - k) = k
    BY <1>1
  <2>2. Within(b, at, flat[N - (N - k)])
    BY <1>4, <2>1
  <2> QED
    BY <2>1, <2>2, Zenon
<1> DEFINE ps == [k \in 0 .. N |-> at + Len(flat[k])]
<1>6. ASSUME NEW k \in 0 .. N
      PROVE  ps[k] = at + Len(flat[k]) /\ Len(flat[k]) \in Nat /\ ps[k] \in Nat \ {0}
  <2>1. flat[k] \in Seq(Int)
    BY <1>2
  <2>2. Len(flat[k]) \in Nat
    BY <2>1
  <2> DEFINE l == Len(flat[k])
  <2>3. ps[k] = at + l
    OBVIOUS
  <2> HIDE DEF l, ps
  <2>4. l \in Nat
    BY <2>2 DEF l
  <2> QED
    BY <1>1, <2>3, <2>4 DEF l
<1>7. 0 \in 0 .. N /\ N \in 0 .. N
  BY <1>1
<1> HIDE DEF ps
<1>8. ps[0] = at
  <2> DEFINE x == flat[0]
  <2>1. Len(x) = 0 /\ ps[0] = at + Len(x)
    BY <1>2, <1>6, <1>7
  <2> HIDE DEF x
  <2> QED
    BY <1>1, <2>1
<1>9. ps[N] = at + Len(FlattenSeq(fs))
  BY <1>2, <1>6, <1>7, Zenon
<1>10. ASSUME NEW k \in 1 .. N
       PROVE  ps[k] = ps[k - 1] + Len(fs[k]) /\ Within(b, ps[k - 1], fs[k])
  <2>1. k \in 0 .. N /\ k - 1 \in 0 .. N
    BY <1>1
  <2>2. /\ Within(b, at + Len(flat[k - 1]), fs[k])
        /\ Len(flat[k]) = Len(flat[k - 1]) + Len(fs[k])
    BY <1>3, <1>5, <2>1
  <2>3. ps[k - 1] = at + Len(flat[k - 1]) /\ ps[k] = at + Len(flat[k])
    BY <1>6, <2>1
  <2>4. fs[k] \in Seq(Int) /\ Len(flat[k - 1]) \in Nat
    BY <1>1, <1>6, <2>1
  <2> DEFINE p == Len(flat[k - 1])
             l == Len(fs[k])
  <2>5. ps[k] = at + (p + l) /\ ps[k - 1] = at + p /\ p \in Nat /\ l \in Nat
    BY <2>2, <2>3, <2>4
  <2> HIDE DEF p, l
  <2>6. ps[k] = ps[k - 1] + l
    BY <1>1, <2>5
  <2> QED
    BY <2>2, <2>3, <2>6, Zenon DEF l
<1> QED
  BY <1>6, <1>8, <1>9, <1>10 DEF N, Pieces

\* The item reads one value after the other, each at its place.
Leads(item, vals, ps) ==
  /\ \A k \in 0 .. Len(vals) : ps[k] \in Nat \ {0}
  /\ \A k \in 1 .. Len(vals) : item[ps[k - 1]] = [val |-> vals[k], at |-> ps[k]]

\* As many things are read as have been counted.
LEMMA ManyRead ==
  ASSUME NEW item, NEW V, NEW vals \in Seq(V), NEW ps, Leads(item, vals, ps)
  PROVE  ReadMany([val |-> Len(vals), at |-> ps[0]], item) = [val |-> vals, at |-> ps[Len(vals)]]
<1> DEFINE N == Len(vals)
           count == [val |-> N, at |-> ps[0]]
           Step(f, n) ==
             IF n = 0 THEN [val |-> << >>, at |-> count.at]
             ELSE LET next == item[f[n - 1].at]
                  IN  From(next, Append(f[n - 1].val, next.val))
           W == [k \in 0 .. N |-> [val |-> SubSeq(vals, 1, k), at |-> ps[k]]]
           Right(h) == h = [n \in 0 .. N |-> Step(h, n)]
           R == CHOOSE h : Right(h)
<1>1. N \in Nat /\ count.val = N /\ count.at = ps[0]
  OBVIOUS
<1>2. ASSUME NEW k \in 0 .. N PROVE W[k] = Step(W, k)
  <2>0. W[k] = [val |-> SubSeq(vals, 1, k), at |-> ps[k]]
    BY Zenon
  <2>1. CASE k = 0
    <3>1. SubSeq(vals, 1, 0) = << >>
      OBVIOUS
    <3> QED
      BY <1>1, <2>0, <2>1, <3>1, Zenon
  <2>2. CASE k # 0
    <3> DEFINE r == W[k - 1]
               next == item[r.at]
    <3>1. k \in 1 .. N /\ k - 1 \in 0 .. N
      <4> HIDE DEF N
      <4> QED
        BY <1>1, <2>2
    <3>2. r = [val |-> SubSeq(vals, 1, k - 1), at |-> ps[k - 1]]
      BY <3>1, Zenon
    <3>3. r.val = SubSeq(vals, 1, k - 1) /\ r.at = ps[k - 1]
      <4> HIDE DEF r
      <4> QED
        BY <3>2
    <3>4. next = [val |-> vals[k], at |-> ps[k]]
      BY <3>1, <3>3, Zenon DEF Leads
    <3>5. next.val = vals[k] /\ next.at = ps[k]
      <4> HIDE DEF next
      <4> QED
        BY <3>4
    <3>6. ps[k] # 0
      BY <3>1 DEF Leads
    <3>7. Append(SubSeq(vals, 1, k - 1), vals[k]) = SubSeq(vals, 1, k)
      BY <3>1, OneMore DEF N
    <3>8. Step(W, k) = From(next, Append(r.val, next.val))
      BY <2>2, Zenon
    <3> HIDE DEF W, Step, r, next
    <3>9. From(next, Append(r.val, next.val)) = [val |-> Append(r.val, next.val), at |-> next.at]
      BY <3>5, <3>6, Zenon DEF From
    <3> QED
      BY <2>0, <3>3, <3>5, <3>7, <3>8, <3>9, Zenon
  <2> QED
    BY <2>1, <2>2, Zenon
<1>3. \E h : Right(h)
  <2>1. W = [k \in 0 .. N |-> W[k]]
    OBVIOUS
  <2> HIDE DEF W, Step
  <2>2. W = [k \in 0 .. N |-> Step(W, k)]
    BY <1>2, <2>1
  <2> QED
    BY <2>2, Zenon
<1>4. R = [n \in 0 .. N |-> Step(R, n)]
  <2> HIDE DEF Right
  <2>1. Right(R)
    BY <1>3, Zenon
  <2> HIDE DEF R
  <2> QED
    BY <2>1, Zenon DEF Right
<1>5. ReadMany(count, item) = R[N]
  <2>1. 0 \in 0 .. N
    BY <1>1
  <2>2. ~ (count.at = 0)
    BY <1>1, <2>1 DEF Leads
  <2>3. ReadMany(count, item) =
          (CHOOSE h : h = [n \in 0 .. count.val |-> Step(h, n)])[count.val]
    <3> HIDE DEF count
    <3> QED
      BY <2>2, Zenon DEF ReadMany, Step
  <2> HIDE DEF Step, count
  <2> QED
    BY <1>1, <2>3, Zenon
<1> HIDE DEF R
<1> DEFINE bad == {k \in 0 .. N : R[k] # W[k]}
<1>6. bad = {}
  <2> SUFFICES ASSUME bad # {} PROVE FALSE
    OBVIOUS
  <2>1. PICK k \in bad : \A l \in bad : k <= l
    <3>1. bad \in SUBSET Nat
      BY <1>1
    <3> HIDE DEF bad
    <3> QED
      BY <3>1, LeastNat
  <2>2. k \in 0 .. N /\ R[k] # W[k]
    OBVIOUS
  <2>3. R[k] = Step(R, k) /\ W[k] = Step(W, k)
    <3> HIDE DEF W, Step
    <3> QED
      BY <1>2, <1>4, <2>2, Zenon
  <2>4. k = 0 => Step(R, k) = Step(W, k)
    BY Zenon
  <2>5. k # 0 => Step(R, k) = Step(W, k)
    <3> SUFFICES ASSUME k # 0 PROVE Step(R, k) = Step(W, k)
      OBVIOUS
    <3>1. k - 1 \in 0 .. N /\ ~ (k <= k - 1)
      <4> HIDE DEF N
      <4> QED
        BY <1>1, <2>2
    <3>2. R[k - 1] = W[k - 1]
      <4> HIDE DEF W
      <4> QED
        BY <2>1, <3>1
    <3> HIDE DEF W
    <3> QED
      BY <3>2, Zenon
  <2> QED
    BY <2>2, <2>3, <2>4, <2>5, Zenon
<1>7. N \in 0 .. N
  BY <1>1
<1>8. R[N] = W[N] /\ W[N] = [val |-> SubSeq(vals, 1, N), at |-> ps[N]]
  <2>1. R[N] = W[N]
    <3> HIDE DEF W
    <3> QED
      BY <1>6, <1>7
  <2> QED
    BY <1>7, <2>1, Zenon
<1>9. SubSeq(vals, 1, N) = vals
  OBVIOUS
<1> HIDE DEF W
<1> QED
  BY <1>5, <1>8, <1>9, Zenon

LEMMA Listed ==
  ASSUME NEW V, NEW n \in Nat, NEW fs \in [1 .. n -> V]
  PROVE  fs \in Seq(V) /\ Len(fs) = n
OBVIOUS

\* The item reads each value from its form, wherever that is.
Understands(b, item, vals, fs) ==
  /\ Len(fs) = Len(vals)
  /\ \A k \in 1 .. Len(vals) : \A p : Within(b, p, fs[k]) =>
       item[p] = [val |-> vals[k], at |-> p + Len(fs[k])]

LEMMA ItemsRead ==
  ASSUME NEW b \in Seq(Int), NEW at, NEW V, NEW vals \in Seq(V), NEW fs \in Seq(Seq(Int)),
         NEW item, Understands(b, item, vals, fs), Within(b, at, FlattenSeq(fs))
  PROVE  ReadMany([val |-> Len(vals), at |-> at], item) =
           [val |-> vals, at |-> at + Len(FlattenSeq(fs))]
<1> DEFINE N == Len(vals)
<1>1. PICK ps : /\ ps[0] = at /\ ps[N] = at + Len(FlattenSeq(fs))
                /\ \A k \in 0 .. N : ps[k] \in Nat \ {0}
                /\ \A k \in 1 .. N : ps[k] = ps[k - 1] + Len(fs[k]) /\ Within(b, ps[k - 1], fs[k])
  <2>1. \E ps : Pieces(b, at, fs, ps)
    BY PiecesWithin, Zenon
  <2> QED
    BY <2>1, Zenon DEF Understands, Pieces
<1>2. Leads(item, vals, ps)
  <2>1. \A k \in 1 .. N : item[ps[k - 1]] = [val |-> vals[k], at |-> ps[k]]
    BY <1>1, Zenon DEF Understands
  <2> QED
    BY <1>1, <2>1, Zenon DEF Leads
<1>3. ReadMany([val |-> N, at |-> ps[0]], item) = [val |-> vals, at |-> ps[N]]
  BY <1>2, ManyRead
<1> QED
  BY <1>1, <1>3, Zenon

LEMMA NumbersRead ==
  ASSUME NEW b \in Seq(Int), NEW at, NEW x \in Seq(Int), Within(b, at, x),
         NEW j \in 1 .. Len(x)
  PROVE  ReadNumber(b)[at + j - 1] = [val |-> x[j], at |-> at + j]
<1>1. Len(b) \in Nat /\ Len(x) \in Nat /\ at \in Nat /\ at >= 1 /\ at + Len(x) <= Len(b) + 1
      /\ b[at - 1 + j] = x[j] /\ j \in Nat
  BY DEF Within
<1> DEFINE p == at + j - 1
<1>2. p \in 0 .. Len(b) + 1 /\ p \in 1 .. Len(b) /\ p + 1 = at + j /\ p = at - 1 + j
  BY <1>1
<1> HIDE DEF p
<1>3. ReadNumber(b)[p] = [val |-> b[p], at |-> p + 1]
  BY <1>2 DEF ReadNumber, Places
<1> QED
  BY <1>1, <1>2, <1>3, Zenon DEF p

LEMMA Joins ==
  ASSUME NEW x \in Seq(Int), NEW y \in Seq(Int)
  PROVE  x \o y \in Seq(Int) /\ Len(x \o y) = Len(x) + Len(y) /\ Len(x) \in Nat /\ Len(y) \in Nat
         /\ Len(x \o y) \in Nat
<1>1. x \o y \in Seq(Int) /\ Len(x \o y) = Len(x) + Len(y)
  BY ConcatProperties
<1> QED
  BY <1>1

LEMMA FlagsRead ==
  ASSUME NEW p \in BOOLEAN, NEW n \in BOOLEAN
  PROVE  LET f == Flag(p, 1) + Flag(n, 2)
         IN  f \in Int /\ ((f % 2 = 1) <=> p) /\ (((f \div 2) % 2 = 1) <=> n)
<1>1. /\ 0 % 2 = 0 /\ 1 % 2 = 1 /\ 2 % 2 = 0 /\ 3 % 2 = 1
      /\ 0 \div 2 = 0 /\ 1 \div 2 = 0 /\ 2 \div 2 = 1 /\ 3 \div 2 = 1
  BY SMT
<1>2. CASE p /\ n
  BY <1>1, <1>2 DEF Flag
<1>3. CASE p /\ ~n
  BY <1>1, <1>3 DEF Flag
<1>4. CASE ~p /\ n
  BY <1>1, <1>4 DEF Flag
<1>5. CASE ~p /\ ~n
  BY <1>1, <1>5 DEF Flag
<1> QED
  BY <1>2, <1>3, <1>4, <1>5

LEMMA ColumnRead ==
  ASSUME NEW b \in Seq(Int), NEW col \in Columns
  PROVE  /\ ColumnForm(col) \in Seq(Int)
         /\ \A at : Within(b, at, ColumnForm(col)) =>
              ReadColumn(b)[at] = [val |-> col, at |-> at + Len(ColumnForm(col))]
<1> DEFINE x == AppendString(col.name)
           y == AppendString(col.type)
           f == Flag(col.primaryKey, 1) + Flag(col.notNull, 2)
           z == <<f>>
           form == ColumnForm(col)
<1>1. col.name \in Texts /\ col.type \in Texts /\ col.primaryKey \in BOOLEAN /\ col.notNull \in BOOLEAN
      /\ col = [name |-> col.name, type |-> col.type, primaryKey |-> col.primaryKey,
                notNull |-> col.notNull]
  BY DEF Columns
<1>2. f \in Int /\ ((f % 2 = 1) <=> col.primaryKey) /\ (((f \div 2) % 2 = 1) <=> col.notNull)
  BY <1>1, FlagsRead
<1>3. /\ x \in Seq(Int) /\ y \in Seq(Int)
      /\ \A at : Within(b, at, x) => ReadString(b)[at] = [val |-> col.name, at |-> at + Len(x)]
      /\ \A at : Within(b, at, y) => ReadString(b)[at] = [val |-> col.type, at |-> at + Len(y)]
  BY <1>1, StringRead
<1>4. form = (x \o y) \o z
  BY DEF ColumnForm
<1> HIDE DEF f
<1>5. z \in Seq(Int) /\ Len(z) = 1 /\ z[1] = f
  BY <1>2
<1> HIDE DEF x, y, z, form
<1> DEFINE xy == x \o y
<1>6. /\ xy \in Seq(Int) /\ Len(xy) = Len(x) + Len(y) /\ Len(x) \in Nat /\ Len(y) \in Nat
      /\ form \in Seq(Int) /\ Len(form) = Len(xy) + 1
  <2>1. xy \in Seq(Int) /\ Len(xy) = Len(x) + Len(y) /\ Len(x) \in Nat /\ Len(y) \in Nat
    BY <1>3, Joins
  <2> HIDE DEF xy
  <2>2. xy \o z \in Seq(Int) /\ Len(xy \o z) = Len(xy) + Len(z)
    BY <1>5, <2>1, Joins
  <2>3. form = xy \o z
    BY <1>4 DEF xy
  <2> QED
    BY <1>5, <2>1, <2>2, <2>3, Zenon
<1>7. ASSUME NEW at, Within(b, at, form)
      PROVE  ReadColumn(b)[at] = [val |-> col, at |-> at + Len(form)]
  <2>1. Within(b, at, xy) /\ Within(b, at + Len(xy), z)
    <3> HIDE DEF xy
    <3>1. Within(b, at, xy \o z)
      BY <1>4, <1>7, Zenon DEF xy
    <3> QED
      BY <1>5, <1>6, <3>1, PartsWithin
  <2>2. Within(b, at, x) /\ Within(b, at + Len(x), y)
    BY <1>3, <2>1, PartsWithin
  <2> DEFINE p == at + Len(x)
             q == at + Len(xy)
  <2>3. at \in Places(b) /\ p + Len(y) = q /\ q + 1 = at + Len(form) /\ q + 1 # 0 /\ q + 1 - 1 = q
    <3>1. at \in Nat /\ at >= 1 /\ at + Len(form) <= Len(b) + 1
      BY <1>7 DEF Within
    <3> DEFINE l == Len(x)
               m == Len(y)
               o == Len(form)
               n == Len(b)
               k == Len(xy)
    <3>2. l \in Nat /\ m \in Nat /\ k = l + m /\ o = k + 1 /\ n \in Nat /\ at + o <= n + 1
      BY <1>6, <3>1
    <3> HIDE DEF l, m, o, n, k
    <3>3. at \in 0 .. n + 1 /\ (at + l) + m = at + k /\ at + k + 1 = at + o /\ at + k + 1 # 0
          /\ at + k + 1 - 1 = at + k
      BY <3>1, <3>2
    <3> QED
      BY <3>3 DEF l, m, o, n, k, Places
  <2>4. ReadNumber(b)[q] = [val |-> f, at |-> q + 1]
    <3>1. 1 \in 1 .. Len(z) /\ Within(b, q, z)
      BY <1>5, <2>1
    <3> HIDE DEF q
    <3>2. ReadNumber(b)[q + 1 - 1] = [val |-> z[1], at |-> q + 1]
      BY <1>5, <3>1, NumbersRead
    <3> QED
      BY <1>5, <2>3, <3>2, Zenon
  <2>5. ReadString(b)[at] = [val |-> col.name, at |-> p]
        /\ ReadString(b)[p] = [val |-> col.type, at |-> q]
    BY <1>3, <2>2, <2>3, Zenon
  <2> HIDE DEF p, q
  <2> DEFINE name == ReadString(b)[at]
             type == ReadString(b)[name.at]
             flag == ReadNumber(b)[type.at]
  <2>6. ReadColumn(b)[at] = From(flag, [name |-> name.val, type |-> type.val,
                                        primaryKey |-> flag.val % 2 = 1,
                                        notNull |-> (flag.val \div 2) % 2 = 1])
    BY <2>3, Zenon DEF ReadColumn
  <2>7. name.val = col.name /\ name.at = p
    BY <2>5
  <2>8. type.val = col.type /\ type.at = q
    <3>1. type = [val |-> col.type, at |-> q]
      BY <2>5, <2>7, Zenon
    <3> HIDE DEF type
    <3> QED
      BY <3>1
  <2>9. flag.val = f /\ flag.at = q + 1
    <3>1. flag = [val |-> f, at |-> q + 1]
      BY <2>4, <2>8, Zenon
    <3> HIDE DEF flag
    <3> QED
      BY <3>1
  <2> HIDE DEF name, type, flag
  <2>10. (flag.val % 2 = 1) = col.primaryKey /\ ((flag.val \div 2) % 2 = 1) = col.notNull
    BY <1>1, <1>2, <2>9
  <2>11. ReadColumn(b)[at] = From(flag, col)
    BY <1>1, <2>6, <2>7, <2>8, <2>10, Zenon
  <2> QED
    BY <2>3, <2>9, <2>11, Zenon DEF From
<1> QED
  BY <1>6, <1>7 DEF form

LEMMA TableRead ==
  ASSUME NEW b \in Seq(Int), NEW t \in Tables
  PROVE  /\ TableForm(t) \in Seq(Int)
         /\ \A at : Within(b, at, TableForm(t)) =>
              ReadTable(b)[at] = [val |-> t, at |-> at + Len(TableForm(t))]
<1> DEFINE x == AppendString(t.name)
           n == Len(t.columns)
           y == <<t.root, n>>
           fs == [i \in DOMAIN t.columns |-> ColumnForm(t.columns[i])]
           z == FlattenSeq(fs)
           form == TableForm(t)
<1>1. /\ t.name \in Texts /\ t.root \in Nat /\ t.columns \in Seq(Columns)
      /\ t = [name |-> t.name, root |-> t.root, columns |-> t.columns]
  BY DEF Tables
<1>2. n \in Nat /\ DOMAIN t.columns = 1 .. n /\ \A i \in 1 .. n : t.columns[i] \in Columns
  BY <1>1
<1>3. /\ x \in Seq(Int)
      /\ \A at : Within(b, at, x) => ReadString(b)[at] = [val |-> t.name, at |-> at + Len(x)]
  BY <1>1, StringRead
<1>4. /\ fs \in Seq(Seq(Int)) /\ Len(fs) = n
      /\ \A k \in 1 .. n : fs[k] = ColumnForm(t.columns[k])
  <2>1. \A i \in 1 .. n : ColumnForm(t.columns[i]) \in Seq(Int)
    BY <1>2, ColumnRead
  <2>2. fs = [i \in 1 .. n |-> ColumnForm(t.columns[i])]
    BY <1>2
  <2> HIDE DEF fs, n
  <2>3. fs \in [1 .. n -> Seq(Int)] /\ \A i \in 1 .. n : fs[i] = ColumnForm(t.columns[i])
    BY <2>1, <2>2
  <2> QED
    BY <1>2, <2>3, Listed
<1>5. z \in Seq(Int)
  <2>1. PICK flat : flat[Len(fs)] = FlattenSeq(fs) /\ \A k \in 0 .. Len(fs) : flat[k] \in Seq(Int)
    <3> HIDE DEF fs
    <3> QED
      BY <1>4, Flattened
  <2>2. Len(fs) \in 0 .. Len(fs)
    BY <1>2, <1>4
  <2> QED
    BY <2>1, <2>2
<1>6. form = (x \o y) \o z
  BY DEF TableForm
<1>7. y \in Seq(Int) /\ Len(y) = 2 /\ y[1] = t.root /\ y[2] = n
  BY <1>1, <1>2
<1> HIDE DEF x, y, z, form, fs
<1> DEFINE xy == x \o y
<1>8. /\ xy \in Seq(Int) /\ Len(xy) = Len(x) + 2 /\ Len(x) \in Nat /\ Len(z) \in Nat
      /\ form \in Seq(Int) /\ Len(form) = Len(xy) + Len(z)
  <2>1. xy \in Seq(Int) /\ Len(xy) = Len(x) + Len(y) /\ Len(x) \in Nat
    BY <1>3, <1>7, Joins
  <2> HIDE DEF xy
  <2>2. xy \o z \in Seq(Int) /\ Len(xy \o z) = Len(xy) + Len(z) /\ Len(z) \in Nat
    BY <1>5, <2>1, Joins
  <2>3. form = xy \o z
    BY <1>6 DEF xy
  <2> QED
    BY <1>7, <2>1, <2>2, <2>3, Zenon
<1>9. ASSUME NEW at, Within(b, at, form)
      PROVE  ReadTable(b)[at] = [val |-> t, at |-> at + Len(form)]
  <2>1. Within(b, at, xy) /\ Within(b, at + Len(xy), z)
    <3> HIDE DEF xy
    <3>1. Within(b, at, xy \o z)
      BY <1>6, <1>9, Zenon DEF xy
    <3> QED
      BY <1>5, <1>8, <3>1, PartsWithin
  <2>2. Within(b, at, x) /\ Within(b, at + Len(x), y)
    BY <1>3, <1>7, <2>1, PartsWithin
  <2> DEFINE p == at + Len(x)
             q == at + Len(xy)
  <2>3. /\ at \in Places(b) /\ p + 2 = q /\ q + Len(z) = at + Len(form) /\ q + Len(z) # 0
        /\ p + 1 # 0 /\ q # 0 /\ p + 1 - 1 = p /\ p + 2 - 1 = p + 1
    <3>1. at \in Nat /\ at >= 1 /\ at + Len(form) <= Len(b) + 1
      BY <1>9 DEF Within
    <3> DEFINE l == Len(x)
               m == Len(z)
               o == Len(form)
               w == Len(b)
               k == Len(xy)
    <3>2. l \in Nat /\ m \in Nat /\ k = l + 2 /\ o = k + m /\ w \in Nat /\ at + o <= w + 1
      BY <1>8, <3>1
    <3> HIDE DEF l, m, o, w, k
    <3>3. /\ at \in 0 .. w + 1 /\ (at + l) + 2 = at + k /\ at + k + m = at + o /\ at + k + m # 0
          /\ at + l + 1 # 0 /\ at + k # 0 /\ at + l + 1 - 1 = at + l /\ at + l + 2 - 1 = at + l + 1
      BY <3>1, <3>2
    <3> QED
      BY <3>3 DEF l, m, o, w, k, Places
  <2>4. /\ ReadNumber(b)[p] = [val |-> t.root, at |-> p + 1]
        /\ ReadNumber(b)[p + 1] = [val |-> n, at |-> q]
    <3>1. 1 \in 1 .. Len(y) /\ 2 \in 1 .. Len(y) /\ Within(b, p, y)
      BY <1>7, <2>2
    <3> HIDE DEF p
    <3>2. /\ ReadNumber(b)[p + 1 - 1] = [val |-> y[1], at |-> p + 1]
          /\ ReadNumber(b)[p + 2 - 1] = [val |-> y[2], at |-> p + 2]
      BY <1>7, <3>1, NumbersRead
    <3> QED
      BY <1>7, <2>3, <3>2, Zenon
  <2>5. ReadString(b)[at] = [val |-> t.name, at |-> p]
    BY <1>3, <2>2, Zenon
  <2>6. ReadMany([val |-> n, at |-> q], ReadColumn(b)) = [val |-> t.columns, at |-> q + Len(z)]
    <3>1. Within(b, q, FlattenSeq(fs))
      BY <2>1 DEF z
    <3>2. ASSUME NEW k \in 1 .. n, NEW a, Within(b, a, fs[k])
          PROVE  ReadColumn(b)[a] = [val |-> t.columns[k], at |-> a + Len(fs[k])]
      <4> DEFINE c == t.columns[k]
      <4>1. c \in Columns /\ fs[k] = ColumnForm(c)
        BY <1>2, <1>4
      <4> HIDE DEF c, q, n
      <4>2. Within(b, a, ColumnForm(c))
        BY <3>2, <4>1, Zenon
      <4>3. ReadColumn(b)[a] = [val |-> c, at |-> a + Len(ColumnForm(c))]
        BY <4>1, <4>2, ColumnRead
      <4> QED
        BY <4>1, <4>3, Zenon DEF c
    <3>3. Understands(b, ReadColumn(b), t.columns, fs)
      BY <1>4, <3>2, Zenon DEF Understands
    <3> HIDE DEF q
    <3> QED
      BY <1>1, <1>4, <3>1, <3>3, ItemsRead DEF z
  <2> HIDE DEF p, q
  <2> DEFINE name == ReadString(b)[at]
             root == ReadNumber(b)[name.at]
             count == ReadNumber(b)[root.at]
             columns == ReadMany(count, ReadColumn(b))
  <2>7. ReadTable(b)[at] = From(columns, [name |-> name.val, root |-> root.val,
                                          columns |-> columns.val])
    BY <2>3, Zenon DEF ReadTable
  <2>8. name.val = t.name /\ name.at = p
    BY <2>5
  <2>9. root.val = t.root /\ root.at = p + 1
    <3>1. root = [val |-> t.root, at |-> p + 1]
      BY <2>4, <2>8, Zenon
    <3> HIDE DEF root
    <3> QED
      BY <3>1
  <2>10. count = [val |-> n, at |-> q]
    BY <2>4, <2>9, Zenon
  <2>11. columns.val = t.columns /\ columns.at = q + Len(z)
    <3>1. columns = [val |-> t.columns, at |-> q + Len(z)]
      BY <2>6, <2>10, Zenon
    <3> HIDE DEF columns
    <3> QED
      BY <3>1
  <2> HIDE DEF name, root, count, columns
  <2>12. ReadTable(b)[at] = From(columns, t)
    BY <1>1, <2>7, <2>8, <2>9, <2>11, Zenon
  <2> QED
    BY <2>3, <2>11, <2>12, Zenon DEF From
<1> QED
  BY <1>8, <1>9 DEF form

LEMMA IndexRead ==
  ASSUME NEW b \in Seq(Int), NEW x \in Indexes
  PROVE  /\ IndexForm(x) \in Seq(Int)
         /\ \A at : Within(b, at, IndexForm(x)) =>
              ReadIndex(b)[at] = [val |-> x, at |-> at + Len(IndexForm(x))]
<1> DEFINE u == AppendString(x.name)
           v == AppendString(x.table)
           n == Len(x.columns)
           f == Flag(x.unique, 1)
           y == <<x.root, f, n>>
           fs == [i \in DOMAIN x.columns |-> AppendString(x.columns[i])]
           z == FlattenSeq(fs)
           form == IndexForm(x)
<1>1. /\ x.name \in Texts /\ x.table \in Texts /\ x.root \in Nat /\ x.unique \in BOOLEAN
      /\ x.columns \in Seq(Texts)
      /\ x = [name |-> x.name, table |-> x.table, root |-> x.root, unique |-> x.unique,
              columns |-> x.columns]
  BY DEF Indexes
<1>2. n \in Nat /\ DOMAIN x.columns = 1 .. n /\ \A i \in 1 .. n : x.columns[i] \in Texts
  BY <1>1
<1>3. /\ u \in Seq(Int) /\ v \in Seq(Int)
      /\ \A at : Within(b, at, u) => ReadString(b)[at] = [val |-> x.name, at |-> at + Len(u)]
      /\ \A at : Within(b, at, v) => ReadString(b)[at] = [val |-> x.table, at |-> at + Len(v)]
  BY <1>1, StringRead
<1>4. /\ fs \in Seq(Seq(Int)) /\ Len(fs) = n
      /\ \A k \in 1 .. n : fs[k] = AppendString(x.columns[k])
  <2>1. \A i \in 1 .. n : AppendString(x.columns[i]) \in Seq(Int)
    BY <1>2, StringRead
  <2>2. fs = [i \in 1 .. n |-> AppendString(x.columns[i])]
    BY <1>2
  <2> HIDE DEF fs, n
  <2>3. fs \in [1 .. n -> Seq(Int)] /\ \A i \in 1 .. n : fs[i] = AppendString(x.columns[i])
    BY <2>1, <2>2
  <2> QED
    BY <1>2, <2>3, Listed
<1>5. z \in Seq(Int)
  <2>1. PICK flat : flat[Len(fs)] = FlattenSeq(fs) /\ \A k \in 0 .. Len(fs) : flat[k] \in Seq(Int)
    <3> HIDE DEF fs
    <3> QED
      BY <1>4, Flattened
  <2>2. Len(fs) \in 0 .. Len(fs)
    BY <1>2, <1>4
  <2> QED
    BY <2>1, <2>2
<1>6. form = ((u \o v) \o y) \o z
  BY DEF IndexForm
<1>7. f \in Int /\ ((f % 2 = 1) <=> x.unique)
  <2>1. 0 % 2 = 0 /\ 1 % 2 = 1
    BY SMT
  <2> QED
    BY <1>1, <2>1 DEF Flag
<1> HIDE DEF f
<1>8. y \in Seq(Int) /\ Len(y) = 3 /\ y[1] = x.root /\ y[2] = f /\ y[3] = n
  BY <1>1, <1>2, <1>7
<1> HIDE DEF u, v, y, z, form, fs
<1> DEFINE uv == u \o v
           uvy == uv \o y
<1>9. /\ uv \in Seq(Int) /\ Len(uv) = Len(u) + Len(v) /\ Len(u) \in Nat /\ Len(v) \in Nat
      /\ uvy \in Seq(Int) /\ Len(uvy) = Len(uv) + 3 /\ Len(z) \in Nat
      /\ form \in Seq(Int) /\ Len(form) = Len(uvy) + Len(z)
  <2>1. uv \in Seq(Int) /\ Len(uv) = Len(u) + Len(v) /\ Len(u) \in Nat /\ Len(v) \in Nat
    BY <1>3, Joins
  <2> HIDE DEF uv
  <2>2. uvy \in Seq(Int) /\ Len(uvy) = Len(uv) + Len(y)
    BY <1>8, <2>1, Joins
  <2> HIDE DEF uvy
  <2>3. uvy \o z \in Seq(Int) /\ Len(uvy \o z) = Len(uvy) + Len(z) /\ Len(z) \in Nat
    BY <1>5, <2>2, Joins
  <2>4. form = uvy \o z
    BY <1>6 DEF uv, uvy
  <2> QED
    BY <1>8, <2>1, <2>2, <2>3, <2>4, Zenon
<1> HIDE DEF uv, uvy
<1>10. ASSUME NEW at, Within(b, at, form)
       PROVE  ReadIndex(b)[at] = [val |-> x, at |-> at + Len(form)]
  <2>1. Within(b, at, uvy) /\ Within(b, at + Len(uvy), z)
    <3>1. Within(b, at, uvy \o z)
      BY <1>6, <1>10, Zenon DEF uv, uvy
    <3> QED
      BY <1>5, <1>9, <3>1, PartsWithin
  <2>2. Within(b, at, uv) /\ Within(b, at + Len(uv), y)
    <3>1. Within(b, at, uv \o y)
      BY <2>1 DEF uvy
    <3> QED
      BY <1>8, <1>9, <3>1, PartsWithin
  <2>3. Within(b, at, u) /\ Within(b, at + Len(u), v)
    <3>1. Within(b, at, u \o v)
      BY <2>2 DEF uv
    <3> QED
      BY <1>3, <3>1, PartsWithin
  <2> DEFINE p == at + Len(u)
             q == at + Len(uv)
             r == at + Len(uvy)
  <2>4. /\ at \in Places(b) /\ p + Len(v) = q /\ q + 3 = r /\ r + Len(z) = at + Len(form)
        /\ r + Len(z) # 0 /\ q + 1 - 1 = q /\ q + 2 - 1 = q + 1 /\ q + 3 - 1 = q + 2
    <3>1. at \in Nat /\ at >= 1 /\ at + Len(form) <= Len(b) + 1
      BY <1>10 DEF Within
    <3> DEFINE l == Len(u)
               m == Len(v)
               o == Len(form)
               w == Len(b)
               k == Len(uv)
               i == Len(uvy)
               j == Len(z)
    <3>2. /\ l \in Nat /\ m \in Nat /\ k = l + m /\ i = k + 3 /\ j \in Nat /\ o = i + j
          /\ w \in Nat /\ at + o <= w + 1
      BY <1>9, <3>1
    <3> HIDE DEF l, m, o, w, k, i, j
    <3>3. /\ at \in 0 .. w + 1 /\ (at + l) + m = at + k /\ at + k + 3 = at + i
          /\ at + i + j = at + o /\ at + i + j # 0
          /\ at + k + 1 - 1 = at + k /\ at + k + 2 - 1 = at + k + 1 /\ at + k + 3 - 1 = at + k + 2
      BY <3>1, <3>2
    <3> QED
      BY <3>3 DEF l, m, o, w, k, i, j, Places
  <2>5. /\ ReadNumber(b)[q] = [val |-> x.root, at |-> q + 1]
        /\ ReadNumber(b)[q + 1] = [val |-> f, at |-> q + 2]
        /\ ReadNumber(b)[q + 2] = [val |-> n, at |-> r]
    <3>1. 1 \in 1 .. Len(y) /\ 2 \in 1 .. Len(y) /\ 3 \in 1 .. Len(y) /\ Within(b, q, y)
      BY <1>8, <2>2
    <3> HIDE DEF q
    <3>2. \A j \in 1 .. Len(y) : ReadNumber(b)[q + j - 1] = [val |-> y[j], at |-> q + j]
      BY <1>8, <3>1, NumbersRead
    <3> QED
      BY <1>8, <2>4, <3>1, <3>2, Zenon
  <2>6. /\ ReadString(b)[at] = [val |-> x.name, at |-> p]
        /\ ReadString(b)[p] = [val |-> x.table, at |-> q]
    BY <1>3, <2>3, <2>4, Zenon
  <2>7. ReadMany([val |-> n, at |-> r], ReadString(b)) = [val |-> x.columns, at |-> r + Len(z)]
    <3>1. Within(b, r, FlattenSeq(fs))
      BY <2>1 DEF z
    <3>2. ASSUME NEW k \in 1 .. n, NEW a, Within(b, a, fs[k])
          PROVE  ReadString(b)[a] = [val |-> x.columns[k], at |-> a + Len(fs[k])]
      <4> DEFINE c == x.columns[k]
      <4>1. c \in Texts /\ fs[k] = AppendString(c)
        BY <1>2, <1>4
      <4> HIDE DEF c, r, n
      <4>2. Within(b, a, AppendString(c))
        BY <3>2, <4>1, Zenon
      <4>3. ReadString(b)[a] = [val |-> c, at |-> a + Len(AppendString(c))]
        BY <4>1, <4>2, StringRead
      <4> QED
        BY <4>1, <4>3, Zenon DEF c
    <3>3. Understands(b, ReadString(b), x.columns, fs)
      BY <1>4, <3>2, Zenon DEF Understands
    <3> HIDE DEF r
    <3> QED
      BY <1>1, <1>4, <3>1, <3>3, ItemsRead DEF z
  <2> HIDE DEF p, q, r
  <2> DEFINE name == ReadString(b)[at]
             table == ReadString(b)[name.at]
             root == ReadNumber(b)[table.at]
             flag == ReadNumber(b)[root.at]
             count == ReadNumber(b)[flag.at]
             columns == ReadMany(count, ReadString(b))
  <2>8. ReadIndex(b)[at] = From(columns, [name |-> name.val, table |-> table.val,
                                          root |-> root.val, unique |-> flag.val % 2 = 1,
                                          columns |-> columns.val])
    BY <2>4, Zenon DEF ReadIndex
  <2>9. name.val = x.name /\ name.at = p
    BY <2>6
  <2>10. table.val = x.table /\ table.at = q
    <3>1. table = [val |-> x.table, at |-> q]
      BY <2>6, <2>9, Zenon
    <3> HIDE DEF table
    <3> QED
      BY <3>1
  <2>11. root.val = x.root /\ root.at = q + 1
    <3>1. root = [val |-> x.root, at |-> q + 1]
      BY <2>5, <2>10, Zenon
    <3> HIDE DEF root
    <3> QED
      BY <3>1
  <2>12. flag.val = f /\ flag.at = q + 2
    <3>1. flag = [val |-> f, at |-> q + 2]
      BY <2>5, <2>11, Zenon
    <3> HIDE DEF flag
    <3> QED
      BY <3>1
  <2>13. count = [val |-> n, at |-> r]
    BY <2>5, <2>12, Zenon
  <2>14. columns.val = x.columns /\ columns.at = r + Len(z)
    <3>1. columns = [val |-> x.columns, at |-> r + Len(z)]
      BY <2>7, <2>13, Zenon
    <3> HIDE DEF columns
    <3> QED
      BY <3>1
  <2> HIDE DEF name, table, root, flag, count, columns
  <2>15. (flag.val % 2 = 1) = x.unique
    BY <1>1, <1>7, <2>12
  <2>16. ReadIndex(b)[at] = From(columns, x)
    BY <1>1, <2>8, <2>9, <2>10, <2>11, <2>14, <2>15, Zenon
  <2> QED
    BY <2>4, <2>14, <2>16, Zenon DEF From
<1> QED
  BY <1>9, <1>10 DEF form

\* A set in some order.
LEMMA SetToSeqsHolds ==
  ASSUME NEW S, IsFiniteSet(S), NEW ts \in SetToSeqs(S)
  PROVE  ts \in Seq(S) /\ ToSet(ts) = S
<1> DEFINE N == Cardinality(S)
           D == 1 .. N
<1>1. N \in Nat
  BY FS_CardinalityType
<1>2. ts \in [D -> S] /\ \A i, j \in D : i # j => ts[i] # ts[j]
  BY Zenon DEF SetToSeqs
<1>3. ts \in Injection(D, S)
  BY <1>2, Zenon DEF Injection, IsInjective
<1>4. IsFiniteSet(D) /\ Cardinality(D) = N
  <2> HIDE DEF N
  <2>1. 1 \in Int /\ N \in Int
    BY <1>1
  <2>2. IsFiniteSet(D) /\ Cardinality(D) = IF 1 > N THEN 0 ELSE N - 1 + 1
    BY <2>1, FS_Interval
  <2> QED
    BY <1>1, <2>2
<1>5. ts \in Surjection(D, S)
  <2> HIDE DEF D
  <2> QED
    BY <1>3, <1>4, FS_Injection
<1>6. ts \in Seq(S)
  <2> HIDE DEF N
  <2> QED
    BY <1>1, <1>2
<1>7. DOMAIN ts = D
  BY <1>2
<1> HIDE DEF D
<1>8. ToSet(ts) = S
  <2>1. \A t \in S : \E i \in D : ts[i] = t
    BY <1>5, Zenon DEF Surjection
  <2>2. \A i \in D : ts[i] \in S
    BY <1>2
  <2> QED
    BY <1>7, <2>1, <2>2 DEF ToSet
<1> QED
  BY <1>6, <1>8

\* The forms of several things, one after the other.
LEMMA FormsFlattened ==
  ASSUME NEW fs \in Seq(Seq(Int))
  PROVE  FlattenSeq(fs) \in Seq(Int)
<1>1. PICK flat : flat[Len(fs)] = FlattenSeq(fs) /\ \A k \in 0 .. Len(fs) : flat[k] \in Seq(Int)
  BY Flattened
<1>2. Len(fs) \in 0 .. Len(fs)
  OBVIOUS
<1> QED
  BY <1>1, <1>2

\* What the schema page gives back is the catalog that was written to it, whatever the order
\* in which its maps were walked and whatever follows in the page: catalog.go, Marshal and
\* Unmarshal.
THEOREM SchemaReadBack ==
  ASSUME NEW cat \in [tables : SUBSET Tables, indexes : SUBSET Indexes],
         IsFiniteSet(cat.tables), IsFiniteSet(cat.indexes),
         NEW form \in Marshals(cat), NEW rest \in Seq(Int)
  PROVE  Unmarshal(form \o rest) = {cat}
<1> DEFINE b == form \o rest
<1>1. PICK ts \in SetToSeqs(cat.tables), xs \in SetToSeqs(cat.indexes) : form = CatalogForm(ts, xs)
  BY DEF Marshals
<1>2. /\ cat.tables \subseteq Tables /\ cat.indexes \subseteq Indexes
      /\ cat = [tables |-> cat.tables, indexes |-> cat.indexes]
  OBVIOUS
<1>3. /\ ts \in Seq(cat.tables) /\ ToSet(ts) = cat.tables
      /\ xs \in Seq(cat.indexes) /\ ToSet(xs) = cat.indexes
  BY SetToSeqsHolds
<1> DEFINE m == Len(ts)
           n == Len(xs)
           gs == [i \in DOMAIN ts |-> TableForm(ts[i])]
           hs == [i \in DOMAIN xs |-> IndexForm(xs[i])]
           u == <<m>>
           v == FlattenSeq(gs)
           y == <<n>>
           z == FlattenSeq(hs)
<1>4. form = ((u \o v) \o y) \o z
  BY <1>1 DEF CatalogForm
<1>5. /\ m \in Nat /\ DOMAIN ts = 1 .. m /\ \A i \in 1 .. m : ts[i] \in Tables
      /\ n \in Nat /\ DOMAIN xs = 1 .. n /\ \A i \in 1 .. n : xs[i] \in Indexes
  BY <1>2, <1>3
<1>6. /\ u \in Seq(Int) /\ Len(u) = 1 /\ u[1] = m
      /\ y \in Seq(Int) /\ Len(y) = 1 /\ y[1] = n
  BY <1>5
<1>7. /\ gs \in Seq(Seq(Int)) /\ Len(gs) = m /\ \A i \in 1 .. m : gs[i] = TableForm(ts[i])
  <2>1. \A i \in 1 .. m : TableForm(ts[i]) \in Seq(Int)
    <3>1. << >> \in Seq(Int)
      OBVIOUS
    <3> QED
      BY <1>5, <3>1, TableRead
  <2>2. gs = [i \in 1 .. m |-> TableForm(ts[i])]
    BY <1>5
  <2> HIDE DEF gs, m
  <2>3. gs \in [1 .. m -> Seq(Int)] /\ \A i \in 1 .. m : gs[i] = TableForm(ts[i])
    BY <2>1, <2>2
  <2> QED
    BY <1>5, <2>3, Listed
<1>8. /\ hs \in Seq(Seq(Int)) /\ Len(hs) = n /\ \A i \in 1 .. n : hs[i] = IndexForm(xs[i])
  <2>1. \A i \in 1 .. n : IndexForm(xs[i]) \in Seq(Int)
    <3>1. << >> \in Seq(Int)
      OBVIOUS
    <3> QED
      BY <1>5, <3>1, IndexRead
  <2>2. hs = [i \in 1 .. n |-> IndexForm(xs[i])]
    BY <1>5
  <2> HIDE DEF hs, n
  <2>3. hs \in [1 .. n -> Seq(Int)] /\ \A i \in 1 .. n : hs[i] = IndexForm(xs[i])
    BY <2>1, <2>2
  <2> QED
    BY <1>5, <2>3, Listed
<1> HIDE DEF u, y, gs, hs
<1>9. v \in Seq(Int) /\ z \in Seq(Int)
  BY <1>7, <1>8, FormsFlattened
<1> HIDE DEF v, z, b
<1> DEFINE uv == u \o v
           uvy == uv \o y
<1>10. uv \in Seq(Int) /\ Len(uv) = Len(u) + Len(v) /\ Len(v) \in Nat
  BY <1>6, <1>9, Joins
<1> HIDE DEF uv
<1>11. uvy \in Seq(Int) /\ Len(uvy) = Len(uv) + Len(y)
  BY <1>6, <1>10, Joins
<1> HIDE DEF uvy
<1>12. form \in Seq(Int) /\ Len(form) = Len(uvy) + Len(z) /\ Len(z) \in Nat /\ form = uvy \o z
  <2>1. form = uvy \o z
    BY <1>4 DEF uv, uvy
  <2>2. uvy \o z \in Seq(Int) /\ Len(uvy \o z) = Len(uvy) + Len(z) /\ Len(z) \in Nat
    BY <1>9, <1>11, Joins
  <2> QED
    BY <2>1, <2>2, Zenon
<1>13. b \in Seq(Int) /\ Within(b, 1, form)
  <2>1. /\ b \in Seq(Int) /\ Len(b) = Len(form) + Len(rest)
        /\ \A i \in 1 .. Len(form) + Len(rest) :
             b[i] = IF i <= Len(form) THEN form[i] ELSE rest[i - Len(form)]
    BY <1>12, ConcatProperties DEF b
  <2>2. Len(form) \in Nat /\ Len(rest) \in Nat
    BY <1>12
  <2>3. ASSUME NEW j \in 1 .. Len(form) PROVE b[1 - 1 + j] = form[j]
    <3>1. 1 - 1 + j = j /\ j \in 1 .. Len(form) + Len(rest) /\ j <= Len(form)
      BY <2>2
    <3>2. b[j] = form[j]
      BY <2>1, <3>1
    <3> QED
      BY <3>1, <3>2
  <2>4. 1 \in Nat \ {0} /\ 1 + Len(form) <= Len(b) + 1
    BY <2>1, <2>2
  <2> QED
    BY <2>1, <2>3, <2>4 DEF Within
<1>14. Within(b, 1, uvy) /\ Within(b, 1 + Len(uvy), z)
  <2>1. Within(b, 1, uvy \o z)
    BY <1>12, <1>13, Zenon
  <2> QED
    BY <1>9, <1>11, <1>13, <2>1, PartsWithin
<1>15. Within(b, 1, uv) /\ Within(b, 1 + Len(uv), y)
  <2>1. Within(b, 1, uv \o y)
    BY <1>14 DEF uvy
  <2> QED
    BY <1>6, <1>10, <1>13, <2>1, PartsWithin
<1>16. Within(b, 1, u) /\ Within(b, 1 + Len(u), v)
  <2>1. Within(b, 1, u \o v)
    BY <1>15 DEF uv
  <2> QED
    BY <1>6, <1>9, <1>13, <2>1, PartsWithin
<1> DEFINE q == 1 + Len(uv)
           r == 1 + Len(uvy)
<1>17. /\ 1 + Len(u) = 2 /\ 2 + Len(v) = q /\ q + 1 = r /\ r + Len(z) # 0
       /\ 1 + 1 - 1 = 1 /\ q + 1 - 1 = q
  <2> DEFINE k == Len(v)
             l == Len(z)
             i == Len(uv)
             j == Len(uvy)
  <2>1. k \in Nat /\ l \in Nat /\ i = 1 + k /\ j = i + 1 /\ Len(u) = 1
    BY <1>6, <1>10, <1>11, <1>12
  <2> HIDE DEF k, l, i, j
  <2>2. /\ 1 + Len(u) = 2 /\ 2 + k = 1 + i /\ 1 + i + 1 = 1 + j /\ 1 + j + l # 0
        /\ 1 + 1 - 1 = 1 /\ 1 + i + 1 - 1 = 1 + i
    BY <2>1
  <2> QED
    BY <2>2 DEF k, l, i, j
<1>18. Within(b, 2, v) /\ Within(b, q, y) /\ Within(b, r, z)
  BY <1>14, <1>15, <1>16, <1>17, Zenon
<1> HIDE DEF q, r
<1>19. ReadNumber(b)[1] = [val |-> m, at |-> 2]
  <2> DEFINE p == 1
  <2>1. 1 \in 1 .. Len(u) /\ p + 1 = 2 /\ p + 1 - 1 = 1 /\ Within(b, p, u)
    BY <1>6, <1>16
  <2> HIDE DEF p
  <2>2. \A j \in 1 .. Len(u) : ReadNumber(b)[p + j - 1] = [val |-> u[j], at |-> p + j]
    BY <1>6, <1>13, <2>1, NumbersRead
  <2> QED
    BY <1>6, <2>1, <2>2, Zenon
<1>20. ReadNumber(b)[q] = [val |-> n, at |-> r]
  <2>1. \A j \in 1 .. Len(y) : ReadNumber(b)[q + j - 1] = [val |-> y[j], at |-> q + j]
    BY <1>6, <1>13, <1>18, NumbersRead
  <2>2. 1 \in 1 .. Len(y)
    BY <1>6
  <2> QED
    BY <1>6, <1>17, <2>1, <2>2, Zenon
<1>21. ReadMany([val |-> m, at |-> 2], ReadTable(b)) = [val |-> ts, at |-> q]
  <2>1. ASSUME NEW k \in 1 .. m, NEW a, Within(b, a, gs[k])
        PROVE  ReadTable(b)[a] = [val |-> ts[k], at |-> a + Len(gs[k])]
    <3> DEFINE t == ts[k]
    <3>1. t \in Tables /\ gs[k] = TableForm(t)
      BY <1>5, <1>7
    <3> HIDE DEF t, m
    <3>2. Within(b, a, TableForm(t))
      BY <2>1, <3>1, Zenon
    <3>3. ReadTable(b)[a] = [val |-> t, at |-> a + Len(TableForm(t))]
      BY <1>13, <3>1, <3>2, TableRead
    <3> QED
      BY <3>1, <3>3, Zenon DEF t
  <2>2. Understands(b, ReadTable(b), ts, gs)
    BY <1>7, <2>1, Zenon DEF Understands
  <2> DEFINE p == 2
  <2>3. Within(b, p, FlattenSeq(gs)) /\ p + Len(FlattenSeq(gs)) = q
    BY <1>17, <1>18, Zenon DEF v
  <2>4. p = 2
    OBVIOUS
  <2> HIDE DEF p
  <2>5. ReadMany([val |-> m, at |-> p], ReadTable(b)) = [val |-> ts, at |-> p + Len(FlattenSeq(gs))]
    BY <1>3, <1>7, <1>13, <2>2, <2>3, ItemsRead
  <2> QED
    BY <2>3, <2>4, <2>5, Zenon
<1>22. ReadMany([val |-> n, at |-> r], ReadIndex(b)) = [val |-> xs, at |-> r + Len(z)]
  <2>1. ASSUME NEW k \in 1 .. n, NEW a, Within(b, a, hs[k])
        PROVE  ReadIndex(b)[a] = [val |-> xs[k], at |-> a + Len(hs[k])]
    <3> DEFINE x == xs[k]
    <3>1. x \in Indexes /\ hs[k] = IndexForm(x)
      BY <1>5, <1>8
    <3> HIDE DEF x, n
    <3>2. Within(b, a, IndexForm(x))
      BY <2>1, <3>1, Zenon
    <3>3. ReadIndex(b)[a] = [val |-> x, at |-> a + Len(IndexForm(x))]
      BY <1>13, <3>1, <3>2, IndexRead
    <3> QED
      BY <3>1, <3>3, Zenon DEF x
  <2>2. Understands(b, ReadIndex(b), xs, hs)
    BY <1>8, <2>1, Zenon DEF Understands
  <2>3. Within(b, r, FlattenSeq(hs))
    BY <1>18 DEF z
  <2> QED
    BY <1>3, <1>8, <1>13, <2>2, <2>3, ItemsRead DEF z
<1> HIDE DEF m, n
<1> DEFINE tables == ReadMany(ReadNumber(b)[1], ReadTable(b))
           indexes == ReadMany(ReadNumber(b)[tables.at], ReadIndex(b))
<1>23. tables.val = ts /\ tables.at = q
  <2>1. tables = [val |-> ts, at |-> q]
    BY <1>19, <1>21, Zenon
  <2> HIDE DEF tables
  <2> QED
    BY <2>1
<1>24. indexes.val = xs /\ indexes.at = r + Len(z)
  <2>1. indexes = [val |-> xs, at |-> r + Len(z)]
    BY <1>20, <1>22, <1>23, Zenon
  <2> HIDE DEF indexes
  <2> QED
    BY <2>1
<1>25. Unmarshal(b) = IF indexes.at = 0 THEN {}
                      ELSE {[tables |-> ToSet(tables.val), indexes |-> ToSet(indexes.val)]}
  BY Zenon DEF Unmarshal
<1> HIDE DEF tables, indexes
<1>26. Unmarshal(b) = {[tables |-> cat.tables, indexes |-> cat.indexes]}
  BY <1>3, <1>17, <1>23, <1>24, <1>25, Zenon
<1> QED
  BY <1>2, <1>26, Zenon DEF b
=============================================================================
