---------------------------- MODULE SessionProofs ----------------------------
(***************************************************************************)
(* A session of the shell, whatever is typed: what the parser makes of a   *)
(* text is a statement, and statements leave a session its catalog, with   *)
(* a tree for every table and its form in the first page.                  *)
(***************************************************************************)
EXTENDS ShellProofs

-----------------------------------------------------------------------------
(* Sequences of anything.                                                  *)

\* A sequence, whatever of.
Stack(v) == \E S : v \in Seq(S)

LEMMA StackIs ==
  ASSUME NEW v, Stack(v)
  PROVE  /\ Len(v) \in Nat /\ DOMAIN v = 1 .. Len(v)
         /\ v \in Seq({v[i] : i \in 1 .. Len(v)})
         /\ v = [i \in 1 .. Len(v) |-> v[i]]
<1>1. PICK S : v \in Seq(S)
  BY DEF Stack
<1>2. Len(v) \in Nat /\ DOMAIN v = 1 .. Len(v) /\ v \in [1 .. Len(v) -> S]
  BY <1>1
<1> DEFINE n == Len(v)
           A == {v[i] : i \in 1 .. n}
<1>3. n \in Nat /\ v = [i \in 1 .. n |-> v[i]]
  BY <1>2
<1> HIDE DEF n
<1>4. v \in [1 .. n -> A]
  BY <1>3
<1> HIDE DEF A
<1>5. v \in Seq(A)
  BY <1>3, <1>4, Listed
<1> QED
  BY <1>2, <1>3, <1>5 DEF n, A

LEMMA StackOf ==
  ASSUME NEW n \in Nat, NEW v, DOMAIN v = 1 .. n, v = [i \in 1 .. n |-> v[i]]
  PROVE  Stack(v) /\ Len(v) = n
<1>1. v \in [1 .. n -> {v[i] : i \in 1 .. n}]
  OBVIOUS
<1>2. v \in Seq({v[i] : i \in 1 .. n}) /\ Len(v) = n
  BY <1>1, Listed
<1> QED
  BY <1>2, Zenon DEF Stack

LEMMA StackAppend ==
  ASSUME NEW v, Stack(v), NEW x
  PROVE  /\ Stack(Append(v, x)) /\ Len(Append(v, x)) = Len(v) + 1
         /\ \A i \in 1 .. Len(v) : Append(v, x)[i] = v[i]
         /\ Append(v, x)[Len(v) + 1] = x
<1>1. PICK S : v \in Seq(S)
  BY DEF Stack
<1>2. v \in Seq(S \cup {x}) /\ x \in S \cup {x}
  BY <1>1
<1> DEFINE T == S \cup {x}
<1>3. v \in Seq(T) /\ x \in T
  BY <1>2
<1> HIDE DEF T
<1>4. Append(v, x) \in Seq(T)
  BY <1>3
<1>5. /\ Len(Append(v, x)) = Len(v) + 1
      /\ \A i \in 1 .. Len(v) : Append(v, x)[i] = v[i]
      /\ Append(v, x)[Len(v) + 1] = x
  BY <1>3, AppendProperties
<1> QED
  BY <1>4, <1>5, Zenon DEF Stack

LEMMA StackJoin ==
  ASSUME NEW v, Stack(v), NEW w, Stack(w)
  PROVE  /\ Stack(v \o w) /\ Len(v \o w) = Len(v) + Len(w)
         /\ \A i \in 1 .. Len(v) : (v \o w)[i] = v[i]
         /\ \A i \in 1 .. Len(w) : (v \o w)[Len(v) + i] = w[i]
<1>1. PICK A : v \in Seq(A)
  BY DEF Stack
<1>2. PICK B : w \in Seq(B)
  BY DEF Stack
<1> DEFINE T == A \cup B
<1>3. v \in Seq(T) /\ w \in Seq(T)
  BY <1>1, <1>2
<1> HIDE DEF T
<1>4. v \o w \in Seq(T)
  BY <1>3
<1>5. Len(v \o w) = Len(v) + Len(w) /\ Len(v) \in Nat /\ Len(w) \in Nat
  BY <1>3
<1>6. \A i \in 1 .. Len(v) + Len(w) :
        (v \o w)[i] = IF i <= Len(v) THEN v[i] ELSE w[i - Len(v)]
  BY <1>3
<1> DEFINE m == Len(v)
           n == Len(w)
           u == v \o w
<1>7. \A i \in 1 .. m + n : u[i] = IF i <= m THEN v[i] ELSE w[i - m]
  BY <1>6
<1>8. m \in Nat /\ n \in Nat
  BY <1>5
<1> HIDE DEF m, n, u
<1>9. \A i \in 1 .. m : u[i] = v[i]
  BY <1>7, <1>8
<1>10. \A i \in 1 .. n : u[m + i] = w[i]
  <2> SUFFICES ASSUME NEW i \in 1 .. n PROVE u[m + i] = w[i]
    OBVIOUS
  <2>1. m + i \in 1 .. m + n /\ ~ (m + i <= m) /\ (m + i) - m = i
    BY <1>8
  <2> QED
    BY <1>7, <2>1
<1> QED
  BY <1>4, <1>5, <1>9, <1>10, Zenon DEF Stack, m, n, u

LEMMA StackCut ==
  ASSUME NEW v, Stack(v), NEW m \in Nat, NEW n \in Nat, m + n = Len(v)
  PROVE  /\ Stack(SubSeq(v, 1, m)) /\ Len(SubSeq(v, 1, m)) = m
         /\ \A i \in 1 .. m : SubSeq(v, 1, m)[i] = v[i]
         /\ Stack(SubSeq(v, m + 1, m + n)) /\ Len(SubSeq(v, m + 1, m + n)) = n
         /\ \A i \in 1 .. n : SubSeq(v, m + 1, m + n)[i] = v[m + i]
<1> DEFINE T == {v[i] : i \in 1 .. Len(v)}
           k == Len(v)
<1>1. v \in Seq(T)
  BY StackIs
<1> HIDE DEF T
<1>2. m + n = k
  OBVIOUS
<1>3. /\ SubSeq(v, 1, m) \in Seq(T) /\ Len(SubSeq(v, 1, m)) = m
      /\ \A i \in 1 .. m : SubSeq(v, 1, m)[i] = v[i]
  <2>1. 1 \in 1 .. m + 1 /\ m \in 0 .. k
    BY <1>2
  <2>2. SubSeq(v, 1, m) = [i \in 1 .. m |-> v[i]]
    BY <1>1, <2>1
  <2>3. \A i \in 1 .. m : v[i] \in T
    BY <1>1, <1>2
  <2>4. [i \in 1 .. m |-> v[i]] \in [1 .. m -> T]
    BY <2>3
  <2> QED
    BY <2>2, <2>4, Listed
<1>4. /\ SubSeq(v, m + 1, m + n) \in Seq(T) /\ Len(SubSeq(v, m + 1, m + n)) = n
      /\ \A i \in 1 .. n : SubSeq(v, m + 1, m + n)[i] = v[m + i]
  <2>1. \A i \in m + 1 .. m + n : v[i] \in T
    <3>1. \A i \in m + 1 .. m + n : i \in 1 .. k
      BY <1>2
    <3> QED
      BY <1>1, <3>1
  <2> DEFINE a == m + 1
             b == m + n
             u == SubSeq(v, a, b)
  <2>2. a \in Int /\ b \in Int /\ \A i \in a .. b : v[i] \in T
    BY <2>1
  <2>3. b - a + 1 = n /\ (IF a <= b THEN b - a + 1 ELSE 0) = n /\ \A i \in 1 .. n : a + i - 1 = m + i
    OBVIOUS
  <2> HIDE DEF a, b
  <2>4. /\ u \in Seq(T) /\ Len(u) = IF a <= b THEN b - a + 1 ELSE 0
        /\ \A i \in 1 .. b - a + 1 : u[i] = v[a + i - 1]
    BY <2>2, SubSeqProperties
  <2> HIDE DEF u
  <2>5. u \in Seq(T) /\ Len(u) = n /\ \A i \in 1 .. n : u[i] = v[m + i]
    BY <2>3, <2>4
  <2> QED
    BY <2>5, Zenon DEF u, a, b
<1> QED
  BY <1>3, <1>4, Zenon DEF Stack

-----------------------------------------------------------------------------
(* Chains of steps.                                                        *)

\* What holds at first, and of each number when it holds of the one before.
LEMMA Upwards ==
  ASSUME NEW N \in Nat, NEW S, 0 \in S, \A n \in 1 .. N : n - 1 \in S => n \in S
  PROVE  \A n \in 0 .. N : n \in S
<1> DEFINE bad == {n \in 0 .. N : n \notin S}
<1>1. SUFFICES ASSUME bad # {} PROVE FALSE
  OBVIOUS
<1>2. bad \in SUBSET Nat
  OBVIOUS
<1>3. PICK i \in bad : \A j \in bad : i <= j
  <2> HIDE DEF bad
  <2> QED
    BY <1>1, <1>2, LeastNat
<1>4. i \in 0 .. N /\ i \notin S /\ i # 0
  OBVIOUS
<1>5. i - 1 \in 0 .. N /\ ~ (i <= i - 1) /\ i \in 1 .. N
  BY <1>4
<1>6. i - 1 \in S
  BY <1>3, <1>5
<1> QED
  BY <1>4, <1>5, <1>6

\* The next of a chain: an operator more of an expression, a row more of a statement.
NextOf(what, a, b, d, v, n) ==
  IF what = "operators" THEN ParseInfix(v, a, b)
  ELSE IF what = "insert" THEN Then(v, LAMBDA r : InsertRow(r, a, b[n]))
  ELSE Then(v, LAMBDA r : UpdateRow(r, a, b[n], d[b[n]]))
ChainAt(what, a, b, d, first, h, n) ==
  IF n = 0 THEN first ELSE NextOf(what, a, b, d, h[n - 1], n)
IsChain(what, a, b, d, first, N, f) ==
  f = [n \in 0 .. N |-> ChainAt(what, a, b, d, first, f, n)]
GoesOn(what, a, b, d, first, N, f) ==
  f[0] = first /\ \A n \in 1 .. N : f[n] = NextOf(what, a, b, d, f[n - 1], n)

\* A chain is a function of its places.
LEMMA ChainIs ==
  ASSUME NEW what, NEW a, NEW b, NEW d, NEW first, NEW N \in Nat
  PROVE  \E h : IsChain(what, a, b, d, first, N, h)
<1> DEFINE Step(f, n) == ChainAt(what, a, b, d, first, f, n)
           UpTo(f, m) == \A n \in 0 .. m : f[n] = Step(f, n)
           S == {m \in 0 .. N : \E f : UpTo(f, m)}
           Right(h) == h = [n \in 0 .. N |-> Step(h, n)]
<1>1. ASSUME NEW f, NEW g, NEW n \in Nat, n # 0 => f[n - 1] = g[n - 1]
      PROVE  Step(f, n) = Step(g, n)
  BY <1>1, Zenon DEF ChainAt
<1>2. \A f : Step(f, 0) = first
  BY DEF ChainAt
<1>3. SUFFICES \E h : Right(h)
  BY Zenon DEF IsChain
<1> HIDE DEF Step
<1>4. 0 \in S
  <2> DEFINE f == [n \in 0 .. 0 |-> first]
  <2>1. UpTo(f, 0)
    <3>1. f[0] = first
      OBVIOUS
    <3>2. \A n \in 0 .. 0 : n = 0
      OBVIOUS
    <3> HIDE DEF f
    <3> QED
      BY <1>2, <3>1, <3>2
  <2> HIDE DEF f, UpTo
  <2> QED
    BY <2>1
<1>5. ASSUME NEW m \in 1 .. N, m - 1 \in S PROVE m \in S
  <2>1. PICK f : UpTo(f, m - 1)
    BY <1>5
  <2> DEFINE g == [n \in 0 .. m |-> IF n = m THEN Step(f, m) ELSE f[n]]
  <2>2. ASSUME NEW n \in 0 .. m PROVE g[n] = Step(g, n)
    <3>1. n # 0 => g[n - 1] = f[n - 1]
      OBVIOUS
    <3>2. g[n] = Step(f, n)
      <4>1. CASE n = m
        BY <4>1
      <4>2. CASE n # m
        <5>1. n \in 0 .. m - 1
          BY <4>2
        <5>2. g[n] = f[n]
          BY <4>2
        <5> HIDE DEF g
        <5> QED
          BY <2>1, <5>1, <5>2
      <4> QED
        BY <4>1, <4>2
    <3> HIDE DEF g
    <3>3. Step(f, n) = Step(g, n)
      BY <1>1, <3>1
    <3> QED
      BY <3>2, <3>3
  <2> HIDE DEF g
  <2>3. UpTo(g, m)
    BY <2>2
  <2> HIDE DEF UpTo
  <2> QED
    BY <2>3
<1>6. N \in S
  <2> HIDE DEF S
  <2>1. \A n \in 0 .. N : n \in S
    BY <1>4, <1>5, Upwards
  <2> QED
    BY <2>1
<1>7. PICK f : UpTo(f, N)
  <2> HIDE DEF UpTo
  <2> QED
    BY <1>6
<1> DEFINE g == [n \in 0 .. N |-> f[n]]
<1>8. ASSUME NEW n \in 0 .. N PROVE g[n] = Step(g, n)
  <2>1. n # 0 => g[n - 1] = f[n - 1]
    OBVIOUS
  <2>2. g[n] = Step(f, n)
    BY <1>7
  <2> HIDE DEF g
  <2>3. Step(f, n) = Step(g, n)
    BY <1>1, <2>1
  <2> QED
    BY <2>2, <2>3
<1>9. Right(g)
  <2>1. g = [n \in 0 .. N |-> g[n]]
    OBVIOUS
  <2> HIDE DEF g
  <2> QED
    BY <1>8, <2>1
<1> QED
  <2> HIDE DEF Right, g
  <2> QED
    BY <1>9

LEMMA ChainHolds ==
  ASSUME NEW what, NEW a, NEW b, NEW d, NEW first, NEW N \in Nat, NEW f,
         IsChain(what, a, b, d, first, N, f)
  PROVE  GoesOn(what, a, b, d, first, N, f)
<1> DEFINE At(n) == ChainAt(what, a, b, d, first, f, n)
<1>1. f = [n \in 0 .. N |-> At(n)]
  BY Zenon DEF IsChain
<1>2. At(0) = first /\ \A n \in 1 .. N : At(n) = NextOf(what, a, b, d, f[n - 1], n)
  BY DEF ChainAt
<1> HIDE DEF At
<1>3. \A n \in 0 .. N : f[n] = At(n)
  BY <1>1
<1>4. f[0] = first /\ \A n \in 1 .. N : f[n] = NextOf(what, a, b, d, f[n - 1], n)
  BY <1>2, <1>3
<1> QED
  BY <1>4, Zenon DEF GoesOn

-----------------------------------------------------------------------------
(* The length of a catalog's form, whatever order it is written in.        *)

\* A place for each number of the forms of a set of things, which have w[t] numbers.
Grid(A, w) == {p \in A \X Nat : p[2] \in 1 .. w[p[1]]}

LEMMA GridOne ==
  ASSUME NEW t, NEW n \in Nat
  PROVE  IsFiniteSet({t} \X (1 .. n)) /\ Cardinality({t} \X (1 .. n)) = n
<1> DEFINE A == {t}
           B == 1 .. n
<1>1. IsFiniteSet(A) /\ Cardinality(A) = 1
  BY FS_Singleton
<1>2. IsFiniteSet(B) /\ Cardinality(B) = n
  <2>1. 1 \in Int /\ n \in Int
    OBVIOUS
  <2>2. IsFiniteSet(B) /\ Cardinality(B) = IF 1 > n THEN 0 ELSE n - 1 + 1
    BY <2>1, FS_Interval
  <2> HIDE DEF B
  <2> QED
    BY <2>2
<1> HIDE DEF A, B
<1>3. IsFiniteSet(A \X B) /\ Cardinality(A \X B) = Cardinality(A) * Cardinality(B)
  BY <1>1, <1>2, FS_Product
<1>4. 1 * n = n
  OBVIOUS
<1> QED
  BY <1>1, <1>2, <1>3, <1>4, Zenon DEF A, B

LEMMA GridMore ==
  ASSUME NEW A, NEW w, NEW t, t \notin A, w[t] \in Nat,
         IsFiniteSet(Grid(A, w))
  PROVE  /\ IsFiniteSet(Grid(A \cup {t}, w))
         /\ Cardinality(Grid(A \cup {t}, w)) = Cardinality(Grid(A, w)) + w[t]
<1> DEFINE C == {t} \X (1 .. w[t])
           G == Grid(A, w)
           H == Grid(A \cup {t}, w)
           n == w[t]
<1>1. n \in Nat /\ C = {t} \X (1 .. n)
  OBVIOUS
<1>2. H = G \cup C
  <2>1. ASSUME NEW p \in H PROVE p \in G \cup C
    <3>1. p \in (A \cup {t}) \X Nat /\ p[2] \in 1 .. w[p[1]]
      BY <2>1 DEF Grid
    <3>2. CASE p[1] = t
      <4>1. p = <<p[1], p[2]>> /\ p[2] \in 1 .. w[t]
        BY <3>1, <3>2
      <4> QED
        BY <3>2, <4>1
    <3>3. CASE p[1] # t
      <4>1. p \in A \X Nat
        BY <3>1, <3>3
      <4> QED
        BY <3>1, <4>1 DEF Grid
    <3> QED
      BY <3>2, <3>3
  <2>2. ASSUME NEW p \in G PROVE p \in H
    BY <2>2 DEF Grid
  <2>3. ASSUME NEW p \in C PROVE p \in H
    <3>1. p \in (A \cup {t}) \X Nat /\ p[1] = t /\ p[2] \in 1 .. w[t]
      OBVIOUS
    <3> QED
      BY <3>1 DEF Grid
  <2> HIDE DEF G, H, C
  <2> QED
    BY <2>1, <2>2, <2>3
<1>3. G \cap C = {}
  <2> SUFFICES ASSUME NEW p \in G, p \in C PROVE FALSE
    OBVIOUS
  <2>1. p[1] \in A
    BY DEF Grid
  <2>2. p[1] = t
    OBVIOUS
  <2> QED
    BY <2>1, <2>2
<1>4. IsFiniteSet(C) /\ Cardinality(C) = n
  <2> HIDE DEF n
  <2> QED
    BY <1>1, GridOne
<1> HIDE DEF G, H, C
<1>5. IsFiniteSet(G)
  BY DEF G
<1>6. /\ IsFiniteSet(G \cup C)
      /\ Cardinality(G \cup C) = Cardinality(G) + Cardinality(C) - Cardinality(G \cap C)
  BY <1>4, <1>5, FS_Union
<1>7. Cardinality(G \cap C) = 0
  BY <1>3, FS_EmptySet
<1>8. Cardinality(G) \in Nat
  BY <1>5, FS_CardinalityType
<1>9. Cardinality(G \cup C) = Cardinality(G) + n
  <2> HIDE DEF n
  <2> QED
    BY <1>1, <1>4, <1>6, <1>7, <1>8
<1> QED
  BY <1>2, <1>6, <1>9, Zenon DEF G, H, n

\* The sums of the lengths of the forms so far.
Sums(ts, w, h, N) ==
  h[0] = 0 /\ \A n \in 1 .. N : h[n] = h[n - 1] + w[ts[n]]

\* Every thing of S has a length; no thing comes twice; those that came.
Weighs(S, w) == \A t \in S : w[t] \in Nat
Distinct(ts, N) == \A i, j \in 1 .. N : i # j => ts[i] # ts[j]
Seen(ts, N) == {ts[i] : i \in 1 .. N}

LEMMA GridSums ==
  ASSUME NEW N \in Nat, NEW S, NEW ts \in [1 .. N -> S], NEW w, Weighs(S, w), Distinct(ts, N),
         NEW h, Sums(ts, w, h, N)
  PROVE  IsFiniteSet(Grid(Seen(ts, N), w)) /\ Cardinality(Grid(Seen(ts, N), w)) = h[N]
<1> DEFINE A(n) == {ts[i] : i \in 1 .. n}
           Fine(n) == IsFiniteSet(Grid(A(n), w)) /\ Cardinality(Grid(A(n), w)) = h[n]
           done == {n \in 0 .. N : Fine(n)}
<1>1. 0 \in done
  <2>1. A(0) = {}
    OBVIOUS
  <2>2. Grid({}, w) = {}
    BY DEF Grid
  <2>3. Fine(0)
    BY <2>1, <2>2, FS_EmptySet DEF Sums
  <2> HIDE DEF Fine
  <2> QED
    BY <2>3
<1>2. ASSUME NEW n \in 1 .. N, n - 1 \in done PROVE n \in done
  <2> DEFINE m == n - 1
             B == A(m)
             t == ts[n]
  <2>1. m \in 0 .. N /\ Fine(m)
    BY <1>2
  <2>2. A(n) = B \cup {t}
    <3>1. \A i : i \in 1 .. n <=> i \in 1 .. m \/ i = n
      OBVIOUS
    <3> HIDE DEF m
    <3> QED
      BY <3>1
  <2>3. t \notin B
    <3> SUFFICES ASSUME NEW i \in 1 .. m, t = ts[i] PROVE FALSE
      OBVIOUS
    <3>1. i \in 1 .. N /\ i # n /\ n \in 1 .. N
      OBVIOUS
    <3> QED
      BY <3>1 DEF Distinct
  <2>4. w[t] \in Nat /\ h[n] = h[m] + w[t]
    BY DEF Sums, Weighs
  <2> HIDE DEF A
  <2>5. IsFiniteSet(Grid(B, w)) /\ Cardinality(Grid(B, w)) = h[m]
    BY <2>1
  <2> HIDE DEF B, t, m
  <2>6. /\ IsFiniteSet(Grid(B \cup {t}, w))
        /\ Cardinality(Grid(B \cup {t}, w)) = Cardinality(Grid(B, w)) + w[t]
    <3> HIDE DEF Fine
    <3>1. t \notin B
      BY <2>3
    <3>2. w[t] \in Nat
      BY <2>4
    <3>3. IsFiniteSet(Grid(B, w))
      BY <2>5
    <3> QED
      BY <3>1, <3>2, <3>3, GridMore
  <2>7. Fine(n)
    BY <2>2, <2>4, <2>5, <2>6, Zenon
  <2> HIDE DEF Fine
  <2> QED
    BY <2>7
<1> HIDE DEF done
<1>3. \A n \in 0 .. N : n \in done
  BY <1>1, <1>2, Upwards
<1>4. N \in 0 .. N
  OBVIOUS
<1> QED
  BY <1>3, <1>4 DEF done, Seen

LEMMA FlatLength ==
  ASSUME NEW S, IsFiniteSet(S), NEW ts \in SetToSeqs(S), NEW gs \in Seq(Seq(Int)),
         Len(gs) = Len(ts), NEW w, \A t \in S : w[t] \in Nat,
         \A i \in 1 .. Len(ts) : Len(gs[i]) = w[ts[i]]
  PROVE  IsFiniteSet(Grid(S, w)) /\ Len(FlattenSeq(gs)) = Cardinality(Grid(S, w))
<1> DEFINE N == Cardinality(S)
           A == {ts[i] : i \in 1 .. N}
<1>1. N \in Nat
  BY FS_CardinalityType
<1>2. ts \in [1 .. N -> S] /\ \A i, j \in 1 .. N : i # j => ts[i] # ts[j]
  BY Zenon DEF SetToSeqs
<1>3. Len(ts) = N
  <2> HIDE DEF N
  <2> QED
    BY <1>1, <1>2
<1>4. A = S
  <2>1. ToSet(ts) = S /\ DOMAIN ts = 1 .. N
    BY <1>2, SetToSeqsHolds
  <2> QED
    BY <2>1, Zenon DEF ToSet
<1> HIDE DEF N
<1>5. PICK flat : /\ flat[0] = << >> /\ flat[Len(gs)] = FlattenSeq(gs)
                  /\ \A k \in 0 .. Len(gs) : flat[k] \in Seq(Int)
                  /\ \A k \in 1 .. Len(gs) : flat[k] = flat[k - 1] \o gs[k]
  BY Flattened
<1> DEFINE h == [n \in 0 .. N |-> Len(flat[n])]
<1>6. Sums(ts, w, h, N)
  <2>1. h[0] = 0
    <3>1. Len(<< >>) = 0 /\ 0 \in 0 .. N
      BY <1>1
    <3> QED
      BY <1>5, <3>1
  <2>2. ASSUME NEW n \in 1 .. N PROVE h[n] = h[n - 1] + w[ts[n]]
    <3>1. n \in 0 .. N /\ n - 1 \in 0 .. N
      BY <1>1
    <3>2. flat[n] = flat[n - 1] \o gs[n] /\ flat[n - 1] \in Seq(Int) /\ gs[n] \in Seq(Int)
      <4>1. Len(gs) = N /\ n \in 1 .. Len(gs) /\ n - 1 \in 0 .. Len(gs)
        BY <1>3, <3>1
      <4>2. gs[n] \in Seq(Int)
        BY <4>1
      <4> QED
        BY <1>5, <4>1, <4>2, Zenon
    <3>3. Len(flat[n]) = Len(flat[n - 1]) + Len(gs[n])
      BY <3>2
    <3>4. Len(gs[n]) = w[ts[n]]
      BY <1>3
    <3> QED
      BY <3>1, <3>3, <3>4
  <2> HIDE DEF h
  <2> QED
    BY <2>1, <2>2 DEF Sums
<1>7. h[N] = Len(FlattenSeq(gs))
  <2>1. N \in 0 .. N
    BY <1>1
  <2> QED
    BY <1>3, <1>5, <2>1
<1> HIDE DEF h, A
<1>8. IsFiniteSet(Grid(Seen(ts, N), w)) /\ Cardinality(Grid(Seen(ts, N), w)) = h[N]
  <2>1. Weighs(S, w) /\ Distinct(ts, N)
    BY <1>2, Zenon DEF Weighs, Distinct
  <2> QED
    BY <1>1, <1>2, <1>6, <2>1, GridSums
<1> QED
  BY <1>4, <1>7, <1>8, Zenon DEF A, Seen

\* A catalog, how long the forms of its tables and indexes are, and its own.
TableLens == [t \in Tables |-> Len(TableForm(t))]
IndexLens == [x \in Indexes |-> Len(IndexForm(x))]
TypedCat(c) ==
  /\ c \in [tables : SUBSET Tables, indexes : SUBSET Indexes]
  /\ IsFiniteSet(c.tables) /\ IsFiniteSet(c.indexes)
FormLen(c) == 2 + Cardinality(Grid(c.tables, TableLens)) + Cardinality(Grid(c.indexes, IndexLens))

LEMMA FormsAre ==
  /\ \A t \in Tables : TableForm(t) \in Seq(Int)
  /\ \A x \in Indexes : IndexForm(x) \in Seq(Int)
  /\ \A t \in Tables : TableLens[t] \in Nat /\ TableLens[t] = Len(TableForm(t))
  /\ \A x \in Indexes : IndexLens[x] \in Nat /\ IndexLens[x] = Len(IndexForm(x))
<1>1. << >> \in Seq(Int)
  OBVIOUS
<1>2. /\ \A t \in Tables : TableForm(t) \in Seq(Int)
      /\ \A x \in Indexes : IndexForm(x) \in Seq(Int)
  BY <1>1, TableRead, IndexRead
<1>3. \A s \in Seq(Int) : Len(s) \in Nat
  OBVIOUS
<1> QED
  BY <1>2, <1>3 DEF TableLens, IndexLens

LEMMA JoinedInts ==
  ASSUME NEW s \in Seq(Int), NEW t \in Seq(Int)
  PROVE  s \o t \in Seq(Int) /\ Len(s \o t) = Len(s) + Len(t)
OBVIOUS

\* How long a catalog's form is does not depend on the order in which the maps are walked.
LEMMA FormLength ==
  ASSUME NEW c, TypedCat(c), NEW form \in Marshals(c)
  PROVE  /\ form \in Seq(Int) /\ Len(form) = FormLen(c)
         /\ IsFiniteSet(Grid(c.tables, TableLens)) /\ IsFiniteSet(Grid(c.indexes, IndexLens))
<1>1. PICK ts \in SetToSeqs(c.tables), xs \in SetToSeqs(c.indexes) : form = CatalogForm(ts, xs)
  BY DEF Marshals
<1>2. /\ c.tables \subseteq Tables /\ c.indexes \subseteq Indexes
      /\ IsFiniteSet(c.tables) /\ IsFiniteSet(c.indexes)
  BY DEF TypedCat
<1>3. /\ ts \in Seq(c.tables) /\ ToSet(ts) = c.tables
      /\ xs \in Seq(c.indexes) /\ ToSet(xs) = c.indexes
  BY <1>2, SetToSeqsHolds
<1> DEFINE m == Len(ts)
           n == Len(xs)
           gs == [i \in DOMAIN ts |-> TableForm(ts[i])]
           hs == [i \in DOMAIN xs |-> IndexForm(xs[i])]
           u == <<m>>
           v == FlattenSeq(gs)
           y == <<n>>
           z == FlattenSeq(hs)
<1>4. form = ((u \o v) \o y) \o z
  BY <1>1 DEF CatalogForm
<1>5. /\ m \in Nat /\ DOMAIN ts = 1 .. m /\ \A i \in 1 .. m : ts[i] \in Tables /\ ts[i] \in c.tables
      /\ n \in Nat /\ DOMAIN xs = 1 .. n /\ \A i \in 1 .. n : xs[i] \in Indexes /\ xs[i] \in c.indexes
  BY <1>2, <1>3
<1>6. /\ u \in Seq(Int) /\ Len(u) = 1
      /\ y \in Seq(Int) /\ Len(y) = 1
  BY <1>5
<1>7. /\ gs \in Seq(Seq(Int)) /\ Len(gs) = m /\ \A i \in 1 .. m : Len(gs[i]) = TableLens[ts[i]]
  <2>1. \A i \in 1 .. m : TableForm(ts[i]) \in Seq(Int) /\ Len(TableForm(ts[i])) = TableLens[ts[i]]
    BY <1>5, FormsAre
  <2>2. gs = [i \in 1 .. m |-> TableForm(ts[i])]
    BY <1>5
  <2> HIDE DEF gs, m
  <2>3. gs \in [1 .. m -> Seq(Int)] /\ \A i \in 1 .. m : gs[i] = TableForm(ts[i])
    BY <2>1, <2>2
  <2>4. gs \in Seq(Seq(Int)) /\ Len(gs) = m
    BY <1>5, <2>3, Listed
  <2> QED
    BY <2>1, <2>3, <2>4
<1>8. /\ hs \in Seq(Seq(Int)) /\ Len(hs) = n /\ \A i \in 1 .. n : Len(hs[i]) = IndexLens[xs[i]]
  <2>1. \A i \in 1 .. n : IndexForm(xs[i]) \in Seq(Int) /\ Len(IndexForm(xs[i])) = IndexLens[xs[i]]
    BY <1>5, FormsAre
  <2>2. hs = [i \in 1 .. n |-> IndexForm(xs[i])]
    BY <1>5
  <2> HIDE DEF hs, n
  <2>3. hs \in [1 .. n -> Seq(Int)] /\ \A i \in 1 .. n : hs[i] = IndexForm(xs[i])
    BY <2>1, <2>2
  <2>4. hs \in Seq(Seq(Int)) /\ Len(hs) = n
    BY <1>5, <2>3, Listed
  <2> QED
    BY <2>1, <2>3, <2>4
<1>9. v \in Seq(Int) /\ z \in Seq(Int)
  <2> HIDE DEF gs, hs
  <2> QED
    BY <1>7, <1>8, FormsFlattened
<1>10. /\ \A t \in c.tables : TableLens[t] \in Nat
       /\ \A x \in c.indexes : IndexLens[x] \in Nat
  BY <1>2, FormsAre
<1>11. IsFiniteSet(Grid(c.tables, TableLens)) /\ Len(v) = Cardinality(Grid(c.tables, TableLens))
  <2> HIDE DEF gs
  <2> QED
    BY <1>2, <1>7, <1>10, FlatLength
<1>12. IsFiniteSet(Grid(c.indexes, IndexLens)) /\ Len(z) = Cardinality(Grid(c.indexes, IndexLens))
  <2> HIDE DEF hs
  <2> QED
    BY <1>2, <1>8, <1>10, FlatLength
<1> DEFINE a == Cardinality(Grid(c.tables, TableLens))
           b == Cardinality(Grid(c.indexes, IndexLens))
<1>13. Len(v) = a /\ Len(z) = b
  BY <1>11, <1>12
<1>14. FormLen(c) = 2 + a + b
  BY DEF FormLen
<1> HIDE DEF u, v, y, z, a, b
<1>15. form \in Seq(Int) /\ Len(form) = ((1 + a) + 1) + b
  <2>1. u \o v \in Seq(Int) /\ Len(u \o v) = 1 + a
    BY <1>6, <1>9, <1>13, JoinedInts, Zenon
  <2> DEFINE p == u \o v
             q == p \o y
  <2>2. p \in Seq(Int) /\ Len(p) = 1 + a
    BY <2>1
  <2> HIDE DEF p
  <2>3. q \in Seq(Int) /\ Len(q) = (1 + a) + 1
    BY <1>6, <2>2, JoinedInts, Zenon
  <2> HIDE DEF q
  <2>4. form = q \o z
    BY <1>4, Zenon DEF p, q
  <2> QED
    BY <1>9, <1>13, <2>3, <2>4, JoinedInts, Zenon
<1>16. a \in Nat /\ b \in Nat
  BY <1>11, <1>12, FS_CardinalityType DEF a, b
<1>17. ((1 + a) + 1) + b = 2 + a + b
  BY <1>16
<1> QED
  BY <1>11, <1>12, <1>14, <1>15, <1>17

-----------------------------------------------------------------------------
(* Sessions.                                                               *)

\* The first page has the form of the catalog c, pages are numbered as they were
\* allocated, and every table has a tree.
HasSchema(p, c) ==
  /\ TypedCat(c)
  /\ \E form \in Marshals(c) :
       Len(form) <= PageSize /\ p.schema = form \o Zeros(PageSize - Len(form))
Paged(p) ==
  /\ p = [schema |-> p.schema, trees |-> p.trees, next |-> p.next]
  /\ p.next \in Nat \ {0} /\ DOMAIN p.trees \subseteq 1 .. p.next - 1
  /\ \A root \in DOMAIN p.trees : Stack(p.trees[root])
Rooted(p, c) == \A t \in c.tables : t.root \in DOMAIN p.trees
\* The catalog d is what the page has, or has grown from it past the page.
Grown(c, d) == c.tables \subseteq d.tables /\ c.indexes \subseteq d.indexes
Outgrows(d) == \A form \in Marshals(d) : Len(form) > PageSize
Shows(p, d) == \E c : HasSchema(p, c) /\ (c = d \/ (Grown(c, d) /\ Outgrows(d)))
\* What a session keeps from one statement to the next.
Shaped(s) ==
  /\ s = [cat |-> s.cat, claimed |-> s.claimed, pages |-> s.pages]
  /\ TypedCat(s.cat) /\ Paged(s.pages) /\ Rooted(s.pages, s.cat)
Kept(s) == Shaped(s) /\ Shows(s.pages, s.cat)
\* Before the page is written.
Draft(s) == Shaped(s) /\ \E c : HasSchema(s.pages, c) /\ Grown(c, s.cat)
\* What is read when the file is opened.
Sound(p) == Paged(p) /\ \E c : HasSchema(p, c) /\ Rooted(p, c)

LEMMA ZerosInts ==
  ASSUME NEW n \in Nat
  PROVE  Zeros(n) \in Seq(Int) /\ Len(Zeros(n)) = n
BY DEF Zeros

LEMMA SchemaIs ==
  ASSUME NEW p, NEW c, HasSchema(p, c)
  PROVE  Unmarshal(p.schema) = {c} /\ Len(p.schema) = PageSize
<1>1. PICK form \in Marshals(c) : /\ Len(form) <= PageSize
                                  /\ p.schema = form \o Zeros(PageSize - Len(form))
  BY DEF HasSchema
<1>2. TypedCat(c)
  BY DEF HasSchema
<1>3. form \in Seq(Int)
  BY <1>2, FormLength
<1> DEFINE n == Len(form)
           z == Zeros(PageSize - n)
<1>4. n \in Nat /\ PageSize \in Nat /\ PageSize - n \in Nat /\ n + (PageSize - n) = PageSize
  <2>1. n \in Nat /\ PageSize \in Nat
    BY <1>3, StatementsAssumption
  <2> HIDE DEF n
  <2> QED
    BY <1>1, <2>1 DEF n
<1>5. z \in Seq(Int) /\ Len(z) = PageSize - n
  BY <1>4, ZerosInts
<1>6. Unmarshal(form \o z) = {c}
  <2>1. /\ c \in [tables : SUBSET Tables, indexes : SUBSET Indexes]
        /\ IsFiniteSet(c.tables) /\ IsFiniteSet(c.indexes)
    BY <1>2 DEF TypedCat
  <2> HIDE DEF z, n
  <2> QED
    BY <1>5, <2>1, SchemaReadBack
<1>7. Len(form \o z) = n + (PageSize - n)
  <2> HIDE DEF z
  <2> QED
    BY <1>3, <1>5, JoinedInts
<1> QED
  BY <1>1, <1>4, <1>6, <1>7, Zenon

LEMMA KeptIsSound ==
  ASSUME NEW s, Kept(s)
  PROVE  Sound(s.pages)
<1>1. PICK c : /\ HasSchema(s.pages, c)
               /\ c = s.cat \/ (Grown(c, s.cat) /\ Outgrows(s.cat))
  BY DEF Kept, Shows
<1>2. Paged(s.pages) /\ Rooted(s.pages, s.cat)
  BY DEF Kept, Shaped
<1>3. Rooted(s.pages, c)
  <2>1. c.tables \subseteq s.cat.tables
    BY <1>1 DEF Grown
  <2> QED
    BY <1>2, <2>1 DEF Rooted
<1> QED
  BY <1>1, <1>2, <1>3 DEF Sound

LEMMA ReloadKeeps ==
  ASSUME NEW p, Sound(p)
  PROVE  Kept(Reload(p)) /\ Reload(p).pages = p
<1>1. PICK c : HasSchema(p, c) /\ Rooted(p, c)
  BY DEF Sound
<1>2. Unmarshal(p.schema) = {c}
  BY <1>1, SchemaIs
<1>3. (CHOOSE d \in Unmarshal(p.schema) : TRUE) = c
  BY <1>2
<1> DEFINE claimed == {x.name : x \in c.indexes}
<1>4. Reload(p) = [cat |-> c, claimed |-> claimed, pages |-> p]
  BY <1>3, Zenon DEF Reload
<1>5. TypedCat(c) /\ Paged(p)
  BY <1>1 DEF HasSchema, Sound
<1> HIDE DEF claimed
<1> QED
  BY <1>1, <1>4, <1>5 DEF Kept, Shaped, Shows

-----------------------------------------------------------------------------
(* Ends of statements.                                                     *)

\* A statement has ended with a result and a session that is kept.
Well(end) == end.ok \in BOOLEAN /\ Kept(end.session)
AllWell(ends) == \A end \in ends : Well(end)

LEMMA FailsWell ==
  ASSUME NEW s, Kept(s), NEW end \in Fails(s)
  PROVE  Well(end) /\ end.session = s
<1>1. end = [ok |-> FALSE, session |-> s, rows |-> << >>]
  BY Zenon DEF Fails
<1>2. end.session = s
  BY <1>1
<1>3. end.ok \in BOOLEAN
  BY <1>1, Zenon
<1> QED
  BY <1>2, <1>3, Zenon DEF Well

LEMMA DoneWell ==
  ASSUME NEW s, Kept(s), NEW rows, NEW end \in Done(s, rows)
  PROVE  Well(end) /\ end.session = s
<1>1. end = [ok |-> TRUE, session |-> s, rows |-> rows]
  BY Zenon DEF Done
<1>2. end.session = s
  BY <1>1
<1>3. end.ok \in BOOLEAN
  BY <1>1, Zenon
<1> QED
  BY <1>2, <1>3, Zenon DEF Well

LEMMA WriteSchemaKeeps ==
  ASSUME NEW s, Draft(s), NEW end \in WriteSchema(s)
  PROVE  Well(end)
<1>1. PICK form \in Marshals(s.cat) :
        end \in IF Len(form) > PageSize THEN Fails(s)
                ELSE Done([s EXCEPT !.pages.schema = form \o Zeros(PageSize - Len(form))], << >>)
  BY DEF WriteSchema
<1>2. Shaped(s) /\ TypedCat(s.cat)
  BY DEF Draft, Shaped
<1>3. /\ form \in Seq(Int) /\ Len(form) = FormLen(s.cat)
      /\ \A f \in Marshals(s.cat) : Len(f) = FormLen(s.cat)
  BY <1>2, FormLength
<1>4. Len(form) \in Nat /\ PageSize \in Nat
  BY <1>3, StatementsAssumption
<1>5. CASE Len(form) > PageSize
  <2>1. end \in Fails(s)
    BY <1>1, <1>5
  <2>2. Outgrows(s.cat)
    BY <1>3, <1>5 DEF Outgrows
  <2>3. Kept(s)
    BY <1>2, <2>2 DEF Draft, Kept, Shows
  <2> QED
    BY <2>1, <2>3, FailsWell
<1>6. CASE ~(Len(form) > PageSize)
  <2> DEFINE text == form \o Zeros(PageSize - Len(form))
             p == [s.pages EXCEPT !.schema = text]
             r == [s EXCEPT !.pages = p]
  <2>1. end \in Done(r, << >>)
    BY <1>1, <1>6
  <2>2. Len(form) <= PageSize
    BY <1>4, <1>6
  <2> HIDE DEF text
  <2>3. s = [cat |-> s.cat, claimed |-> s.claimed, pages |-> s.pages] /\ Paged(s.pages)
    BY <1>2 DEF Shaped
  <2>4. p = [schema |-> text, trees |-> s.pages.trees, next |-> s.pages.next]
    BY <2>3 DEF Paged
  <2>5. r = [cat |-> s.cat, claimed |-> s.claimed, pages |-> p]
    BY <2>3
  <2> HIDE DEF p, r
  <2>6. r.cat = s.cat /\ r.claimed = s.claimed /\ r.pages = p
    BY <2>5
  <2>7. p.schema = text /\ p.trees = s.pages.trees /\ p.next = s.pages.next
    BY <2>4
  <2>8. Paged(p)
    BY <2>3, <2>4, <2>7 DEF Paged
  <2>9. HasSchema(p, s.cat)
    BY <1>2, <2>2, <2>7 DEF HasSchema, text
  <2>10. Rooted(p, s.cat)
    BY <1>2, <2>7 DEF Shaped, Rooted
  <2>11. Kept(r)
    <3>1. Shaped(r)
      BY <1>2, <2>5, <2>6, <2>8, <2>10, Zenon DEF Shaped
    <3>2. Shows(r.pages, r.cat)
      BY <2>6, <2>9 DEF Shows
    <3> QED
      BY <3>1, <3>2 DEF Kept
  <2> QED
    BY <2>1, <2>11, DoneWell
<1> QED
  BY <1>5, <1>6

-----------------------------------------------------------------------------
(* CREATE.                                                                 *)

LEMMA FoldTexts ==
  ASSUME NEW text \in Texts
  PROVE  Fold(text) \in Texts
<1>1. /\ DOMAIN text = 1 .. Len(text) /\ Len(text) \in Nat
      /\ \A i \in 1 .. Len(text) : text[i] \in Characters
  BY DEF Texts
<1> DEFINE n == Len(text)
           f == [i \in 1 .. n |-> Lower(text[i])]
<1>2. \A i \in 1 .. n : Lower(text[i]) \in Characters
  BY <1>1, ShellAssumption, Zenon DEF Lower
<1>3. Fold(text) = f
  BY <1>1, Zenon DEF Fold
<1>4. f \in [1 .. n -> Characters]
  BY <1>2, Zenon
<1> HIDE DEF f, n
<1>5. f \in Seq(Characters)
  <2>1. n \in Nat
    BY <1>1 DEF n
  <2> QED
    BY <1>4, <2>1
<1> QED
  BY <1>3, <1>5 DEF Texts

\* The pages with one more tree, at the next page.
Allotted(p, root, tree) ==
  [schema |-> p.schema, trees |-> With(p.trees, root, tree), next |-> p.next + 1]

LEMMA AllottedIs ==
  ASSUME NEW p, Paged(p), NEW tree, Stack(tree)
  PROVE  /\ Paged(Allotted(p, p.next, tree))
         /\ p.next \in DOMAIN Allotted(p, p.next, tree).trees
         /\ DOMAIN p.trees \subseteq DOMAIN Allotted(p, p.next, tree).trees
         /\ Allotted(p, p.next, tree).schema = p.schema
<1> DEFINE n == p.next
           f == With(p.trees, n, tree)
           q == Allotted(p, n, tree)
<1>1. n \in Nat \ {0} /\ DOMAIN p.trees \subseteq 1 .. n - 1
  BY DEF Paged
<1>2. f = [j \in DOMAIN p.trees \cup {n} |-> IF j = n THEN tree ELSE p.trees[j]]
  BY Zenon DEF With
<1> HIDE DEF f
<1>3. DOMAIN f = DOMAIN p.trees \cup {n}
  BY <1>2, Zenon
<1>4. \A j \in DOMAIN f : Stack(f[j])
  <2> SUFFICES ASSUME NEW j \in DOMAIN f PROVE Stack(f[j])
    OBVIOUS
  <2>1. f[j] = IF j = n THEN tree ELSE p.trees[j]
    BY <1>2, <1>3, Zenon
  <2>2. j = n \/ j \in DOMAIN p.trees
    BY <1>3
  <2> QED
    BY <2>1, <2>2, Zenon DEF Paged
<1>5. q = [schema |-> p.schema, trees |-> f, next |-> n + 1]
  BY Zenon DEF Allotted, f
<1> HIDE DEF q
<1>6. q.schema = p.schema /\ q.trees = f /\ q.next = n + 1
  BY <1>5
<1>7. n + 1 \in Nat \ {0} /\ DOMAIN f \subseteq 1 .. (n + 1) - 1
  <2> HIDE DEF n
  <2> QED
    BY <1>1, <1>3
<1>8. Paged(q)
  BY <1>4, <1>5, <1>6, <1>7, Zenon DEF Paged
<1> HIDE DEF n
<1> QED
  BY <1>3, <1>6, <1>8 DEF q, n

LEMMA CatalogGrows ==
  ASSUME NEW c, c = [tables |-> c.tables, indexes |-> c.indexes], NEW x
  PROVE  /\ Create(c, x) = [tables |-> c.tables \cup {x}, indexes |-> c.indexes]
         /\ CreateIndex(c, x) = [tables |-> c.tables, indexes |-> c.indexes \cup {x}]
<1> DEFINE a == c.tables
           b == c.indexes
<1>1. c = [tables |-> a, indexes |-> b]
  OBVIOUS
<1> HIDE DEF a, b
<1>2. /\ [c EXCEPT !.tables = @ \cup {x}] = [tables |-> a \cup {x}, indexes |-> b]
      /\ [c EXCEPT !.indexes = @ \cup {x}] = [tables |-> a, indexes |-> b \cup {x}]
  BY <1>1
<1> QED
  BY <1>2, Zenon DEF Create, CreateIndex, a, b

\* An equation, as a name for it.
IsSession(s, cat, claimed, u, v, w) ==
  s = [cat |-> cat, claimed |-> claimed, pages |-> [schema |-> u, trees |-> v, next |-> w]]

LEMMA SessionHas ==
  ASSUME NEW s, NEW cat, NEW claimed, NEW u, NEW v, NEW w, IsSession(s, cat, claimed, u, v, w)
  PROVE  /\ s.cat = cat /\ s.claimed = claimed /\ s.pages.schema = u /\ s.pages.trees = v
         /\ s.pages.next = w
BY DEF IsSession

LEMMA SessionGrows ==
  ASSUME NEW s, NEW cat, NEW claimed, NEW u, NEW v, NEW w, IsSession(s, cat, claimed, u, v, w),
         NEW x
  PROVE  /\ IsSession([s EXCEPT !.cat = x], x, claimed, u, v, w)
         /\ IsSession([s EXCEPT !.claimed = x], cat, x, u, v, w)
         /\ IsSession([s EXCEPT !.pages.schema = x], cat, claimed, x, v, w)
         /\ IsSession([s EXCEPT !.pages.trees = x], cat, claimed, u, x, w)
         /\ IsSession([s EXCEPT !.pages.next = x], cat, claimed, u, v, x)
<1>1. [s EXCEPT !.cat = x] =
        [cat |-> x, claimed |-> claimed, pages |-> [schema |-> u, trees |-> v, next |-> w]]
  BY DEF IsSession
<1>2. [s EXCEPT !.claimed = x] =
        [cat |-> cat, claimed |-> x, pages |-> [schema |-> u, trees |-> v, next |-> w]]
  BY DEF IsSession
<1>3. [s EXCEPT !.pages.schema = x] =
        [cat |-> cat, claimed |-> claimed, pages |-> [schema |-> x, trees |-> v, next |-> w]]
  BY DEF IsSession
<1>4. [s EXCEPT !.pages.trees = x] =
        [cat |-> cat, claimed |-> claimed, pages |-> [schema |-> u, trees |-> x, next |-> w]]
  BY DEF IsSession
<1>5. [s EXCEPT !.pages.next = x] =
        [cat |-> cat, claimed |-> claimed, pages |-> [schema |-> u, trees |-> v, next |-> x]]
  BY DEF IsSession
<1> QED
  BY <1>1, <1>2, <1>3, <1>4, <1>5, Zenon DEF IsSession

LEMMA FramedIs ==
  ASSUME NEW s, Shaped(s)
  PROVE  IsSession(s, s.cat, s.claimed, s.pages.schema, s.pages.trees, s.pages.next)
<1> DEFINE p == s.pages
<1>1. s = [cat |-> s.cat, claimed |-> s.claimed, pages |-> p]
  BY Zenon DEF Shaped
<1>2. p = [schema |-> p.schema, trees |-> p.trees, next |-> p.next]
  BY Zenon DEF Shaped, Paged
<1> QED
  BY <1>1, <1>2, Zenon DEF IsSession

LEMMA CreateKeeps ==
  ASSUME NEW s, Kept(s), NEW st, st.table \in Texts, st.columns \in Seq(Columns),
         NEW end \in ExecCreate(s, st)
  PROVE  Well(end)
<1> DEFINE t == [name |-> Fold(st.table), columns |-> st.columns, root |-> s.pages.next]
           r == [s EXCEPT !.cat = Create(@, t), !.pages.next = @ + 1,
                          !.pages.trees = With(@, t.root, << >>)]
<1>1. end \in Fails(s) \/ end \in WriteSchema(r)
  BY Zenon DEF ExecCreate
<1>2. /\ s = [cat |-> s.cat, claimed |-> s.claimed, pages |-> s.pages]
      /\ TypedCat(s.cat) /\ Paged(s.pages) /\ Rooted(s.pages, s.cat)
  BY DEF Kept, Shaped
<1>3. /\ s.cat = [tables |-> s.cat.tables, indexes |-> s.cat.indexes]
      /\ s.cat.tables \subseteq Tables /\ s.cat.indexes \subseteq Indexes
      /\ IsFiniteSet(s.cat.tables) /\ IsFiniteSet(s.cat.indexes)
  BY <1>2 DEF TypedCat
<1>4. t \in Tables /\ t.root = s.pages.next
  <2>1. Fold(st.table) \in Texts /\ s.pages.next \in Nat
    BY <1>2, FoldTexts DEF Paged
  <2> QED
    BY <2>1 DEF Tables
<1> HIDE DEF t
<1> DEFINE d == [tables |-> s.cat.tables \cup {t}, indexes |-> s.cat.indexes]
           q == Allotted(s.pages, s.pages.next, << >>)
<1>5. Create(s.cat, t) = d
  BY <1>3, CatalogGrows
<1>6. r = [cat |-> d, claimed |-> s.claimed, pages |-> q]
  <2> DEFINE p == s.pages
             a == [s EXCEPT !.cat = Create(@, t)]
             b == [a EXCEPT !.pages.next = @ + 1]
             f == With(p.trees, t.root, << >>)
  <2>1. IsSession(s, s.cat, s.claimed, p.schema, p.trees, p.next)
    BY FramedIs DEF Kept
  <2>2. a = [s EXCEPT !.cat = d]
    BY <1>5, Zenon
  <2> HIDE DEF a
  <2>3. IsSession(a, d, s.claimed, p.schema, p.trees, p.next)
    BY <2>1, <2>2, SessionGrows, Zenon
  <2>4. a.pages.next = p.next
    BY <2>3, SessionHas
  <2>5. b = [a EXCEPT !.pages.next = p.next + 1]
    BY <2>4, Zenon
  <2> HIDE DEF b
  <2>6. IsSession(b, d, s.claimed, p.schema, p.trees, p.next + 1)
    BY <2>3, <2>5, SessionGrows, Zenon
  <2>7. b.pages.trees = p.trees
    BY <2>6, SessionHas
  <2>8. r = [b EXCEPT !.pages.trees = With(@, t.root, << >>)]
    BY Zenon DEF a, b
  <2> HIDE DEF r
  <2>9. r = [b EXCEPT !.pages.trees = f]
    BY <2>7, <2>8, Zenon
  <2> HIDE DEF f, p
  <2>10. IsSession(r, d, s.claimed, p.schema, f, p.next + 1)
    BY <2>6, <2>9, SessionGrows, Zenon
  <2>11. q = [schema |-> p.schema, trees |-> f, next |-> p.next + 1]
    BY <1>4, Zenon DEF Allotted, f, p
  <2> QED
    BY <2>10, <2>11, Zenon DEF IsSession
<1> HIDE DEF r, q
<1>7. TypedCat(d)
  <2>1. IsFiniteSet(s.cat.tables \cup {t})
    BY <1>3, FS_AddElement
  <2>2. s.cat.tables \cup {t} \subseteq Tables
    BY <1>3, <1>4
  <2> QED
    BY <1>3, <2>1, <2>2 DEF TypedCat
<1>8. /\ Paged(q) /\ s.pages.next \in DOMAIN q.trees
      /\ DOMAIN s.pages.trees \subseteq DOMAIN q.trees /\ q.schema = s.pages.schema
  <2>1. Stack(<< >>)
    BY DEF Stack
  <2> QED
    BY <1>2, <2>1, AllottedIs DEF q
<1>9. Rooted(q, d)
  BY <1>2, <1>4, <1>8 DEF Rooted
<1>10. \E c : HasSchema(q, c) /\ Grown(c, d)
  <2>1. PICK c : HasSchema(s.pages, c) /\ (c = s.cat \/ Grown(c, s.cat))
    BY DEF Kept, Shows
  <2>2. HasSchema(q, c)
    BY <1>8, <2>1 DEF HasSchema
  <2>3. Grown(c, d)
    BY <2>1 DEF Grown
  <2> QED
    BY <2>2, <2>3
<1> HIDE DEF d
<1>11. Draft(r)
  <2>1. r.cat = d /\ r.claimed = s.claimed /\ r.pages = q
    BY <1>6
  <2>2. Shaped(r)
    BY <1>6, <1>7, <1>8, <1>9, <2>1, Zenon DEF Shaped
  <2> QED
    BY <1>10, <2>1, <2>2, Zenon DEF Draft
<1> QED
  BY <1>1, <1>11, FailsWell, WriteSchemaKeeps

-----------------------------------------------------------------------------
(* CREATE INDEX.                                                           *)

\* A page more is allocated for an index.
LEMMA ClaimsKeep ==
  ASSUME NEW s, Kept(s), NEW claimed, NEW r,
         IsSession(r, s.cat, claimed, s.pages.schema, s.pages.trees, s.pages.next + 1)
  PROVE  Kept(r) /\ r.cat = s.cat
<1> DEFINE p == s.pages
           q == [schema |-> p.schema, trees |-> p.trees, next |-> p.next + 1]
<1>1. r = [cat |-> s.cat, claimed |-> claimed, pages |-> q]
  BY Zenon DEF IsSession
<1>2. q.schema = p.schema /\ q.trees = p.trees /\ q.next = p.next + 1
  OBVIOUS
<1>3. q = [schema |-> q.schema, trees |-> q.trees, next |-> q.next]
  OBVIOUS
<1> HIDE DEF q
<1>4. r.cat = s.cat /\ r.claimed = claimed /\ r.pages = q
  BY <1>1
<1>5. TypedCat(s.cat) /\ Paged(p) /\ Rooted(p, s.cat) /\ Shows(p, s.cat)
  BY DEF Kept, Shaped
<1>6. Paged(q)
  <2> DEFINE n == p.next
             D == DOMAIN p.trees
  <2>1. n \in Nat \ {0} /\ D \subseteq 1 .. n - 1
    BY <1>5 DEF Paged
  <2> HIDE DEF n, D
  <2>2. n + 1 \in Nat \ {0} /\ D \subseteq 1 .. (n + 1) - 1
    BY <2>1
  <2>3. q.next \in Nat \ {0} /\ DOMAIN q.trees \subseteq 1 .. q.next - 1
    BY <1>2, <2>2, Zenon DEF n, D
  <2>4. \A root \in DOMAIN q.trees : Stack(q.trees[root])
    BY <1>2, <1>5, Zenon DEF Paged
  <2> QED
    BY <1>3, <2>3, <2>4, Zenon DEF Paged
<1>7. Rooted(q, s.cat) /\ Shows(q, s.cat)
  BY <1>2, <1>5, Zenon DEF Rooted, Shows, HasSchema
<1>8. Shaped(r)
  BY <1>1, <1>4, <1>5, <1>6, <1>7, Zenon DEF Shaped
<1> QED
  BY <1>4, <1>7, <1>8, Zenon DEF Kept

LEMMA CreateIndexKeeps ==
  ASSUME NEW s, Kept(s), NEW st, st.name \in Texts, st.table \in Texts,
         st.columns \in Seq(Texts), st.unique \in BOOLEAN, NEW end \in ExecCreateIndex(s, st)
  PROVE  Well(end)
<1> DEFINE x == [name |-> Fold(st.name), table |-> st.table, columns |-> st.columns,
                 unique |-> st.unique, root |-> s.pages.next]
           a == [s EXCEPT !.claimed = @ \cup {x.name}]
           claims == [s EXCEPT !.claimed = @ \cup {x.name}, !.pages.next = @ + 1]
           r == [claims EXCEPT !.cat = CreateIndex(@, x)]
           taken == s.claimed \cup {x.name}
           p == s.pages
<1>1. end \in Fails(s) \/ end \in Fails(claims) \/ end \in WriteSchema(r)
  BY Zenon DEF ExecCreateIndex
<1>2. /\ TypedCat(s.cat) /\ Paged(p) /\ Rooted(p, s.cat)
      /\ IsSession(s, s.cat, s.claimed, p.schema, p.trees, p.next)
  BY FramedIs DEF Kept, Shaped
<1>3. /\ s.cat = [tables |-> s.cat.tables, indexes |-> s.cat.indexes]
      /\ s.cat.tables \subseteq Tables /\ s.cat.indexes \subseteq Indexes
      /\ IsFiniteSet(s.cat.tables) /\ IsFiniteSet(s.cat.indexes)
  BY <1>2 DEF TypedCat
<1>4. x \in Indexes
  <2>1. Fold(st.name) \in Texts /\ p.next \in Nat
    BY <1>2, FoldTexts DEF Paged
  <2> QED
    BY <2>1 DEF Indexes
<1>5. claims = [a EXCEPT !.pages.next = @ + 1]
  BY Zenon
<1>6. a = [s EXCEPT !.claimed = taken]
  BY Zenon
<1> HIDE DEF x, a, claims, taken
<1> DEFINE d == [tables |-> s.cat.tables, indexes |-> s.cat.indexes \cup {x}]
<1>7. CreateIndex(s.cat, x) = d
  BY <1>3, CatalogGrows
<1>8. IsSession(a, s.cat, taken, p.schema, p.trees, p.next)
  BY <1>2, <1>6, SessionGrows, Zenon
<1>9. IsSession(claims, s.cat, taken, p.schema, p.trees, p.next + 1)
  <2>1. a.pages.next = p.next
    BY <1>8, SessionHas
  <2>2. claims = [a EXCEPT !.pages.next = p.next + 1]
    BY <1>5, <2>1, Zenon
  <2> QED
    BY <1>8, <2>2, SessionGrows, Zenon
<1>10. Kept(claims) /\ claims.cat = s.cat
  BY <1>9, ClaimsKeep
<1>11. IsSession(r, d, taken, p.schema, p.trees, p.next + 1)
  <2>1. r = [claims EXCEPT !.cat = d]
    BY <1>7, <1>10, Zenon
  <2> HIDE DEF r, d
  <2> QED
    BY <1>9, <2>1, SessionGrows, Zenon
<1> HIDE DEF r
<1>12. TypedCat(d)
  <2>1. IsFiniteSet(s.cat.indexes \cup {x})
    BY <1>3, FS_AddElement
  <2>2. s.cat.indexes \cup {x} \subseteq Indexes
    BY <1>3, <1>4
  <2> QED
    BY <1>3, <2>1, <2>2 DEF TypedCat
<1>13. d.tables = s.cat.tables /\ s.cat.indexes \subseteq d.indexes
  OBVIOUS
<1> HIDE DEF d
<1>14. r.pages = claims.pages
  <2>1. /\ r = [cat |-> d, claimed |-> taken,
                pages |-> [schema |-> p.schema, trees |-> p.trees, next |-> p.next + 1]]
        /\ claims = [cat |-> s.cat, claimed |-> taken,
                     pages |-> [schema |-> p.schema, trees |-> p.trees, next |-> p.next + 1]]
    BY <1>9, <1>11, Zenon DEF IsSession
  <2> QED
    BY <2>1
<1>15. r.cat = d /\ r = [cat |-> d, claimed |-> r.claimed, pages |-> r.pages]
  BY <1>11 DEF IsSession
<1>16. Shaped(r)
  <2>1. Paged(r.pages) /\ Rooted(r.pages, d)
    BY <1>10, <1>13, <1>14, Zenon DEF Kept, Shaped, Rooted
  <2> QED
    BY <1>12, <1>15, <2>1, Zenon DEF Shaped
<1>17. Draft(r)
  <2>1. PICK c : HasSchema(claims.pages, c) /\ (c = s.cat \/ Grown(c, s.cat))
    BY <1>10, Zenon DEF Kept, Shows
  <2>2. Grown(c, d)
    BY <1>13, <2>1 DEF Grown
  <2> QED
    BY <1>14, <1>15, <1>16, <2>1, <2>2, Zenon DEF Draft
<1> QED
  BY <1>1, <1>10, <1>17, FailsWell, WriteSchemaKeeps

-----------------------------------------------------------------------------
(* Rows.                                                                   *)

LEMMA StackSet ==
  ASSUME NEW v, Stack(v), NEW i, NEW e
  PROVE  Stack([v EXCEPT ![i] = e])
<1> DEFINE w == [v EXCEPT ![i] = e]
           n == Len(v)
<1>1. n \in Nat /\ DOMAIN v = 1 .. n
  BY StackIs
<1>2. w = [j \in DOMAIN v |-> IF j = i THEN e ELSE v[j]]
  BY Zenon
<1>3. DOMAIN w = 1 .. n
  BY <1>1, <1>2, Zenon
<1>4. w = [j \in 1 .. n |-> w[j]]
  <2>1. w = [j \in DOMAIN w |-> w[j]]
    BY <1>2
  <2> HIDE DEF w, n
  <2> QED
    BY <1>3, <2>1, Zenon
<1> HIDE DEF w, n
<1>5. Stack(w)
  BY <1>1, <1>3, <1>4, StackOf
<1> QED
  BY <1>5 DEF w

\* A tree of the pages is replaced.
LEMMA ChangedKeeps ==
  ASSUME NEW s, Kept(s), NEW root, NEW tree, root \in DOMAIN s.pages.trees => Stack(tree),
         NEW r, r = [s EXCEPT !.pages.trees[root] = tree]
  PROVE  Kept(r)
<1> DEFINE p == s.pages
           f == [p.trees EXCEPT ![root] = tree]
           q == [schema |-> p.schema, trees |-> f, next |-> p.next]
<1>1. TypedCat(s.cat) /\ Paged(p) /\ Rooted(p, s.cat) /\ Shows(p, s.cat)
  BY DEF Kept, Shaped
<1>2. IsSession(s, s.cat, s.claimed, p.schema, p.trees, p.next)
  BY FramedIs DEF Kept
<1>3. r = [s EXCEPT !.pages.trees = f]
  BY Zenon
<1>4. DOMAIN f = DOMAIN p.trees
  BY Zenon
<1>5. \A j \in DOMAIN p.trees : f[j] = IF j = root THEN tree ELSE p.trees[j]
  BY Zenon
<1> HIDE DEF f
<1>6. IsSession(r, s.cat, s.claimed, p.schema, f, p.next)
  <2> DEFINE a == s.cat
             b == s.claimed
             u == p.schema
             v == p.trees
             w == p.next
  <2>1. IsSession(s, a, b, u, v, w)
    BY <1>2
  <2> HIDE DEF p, a, b, u, v, w
  <2>2. IsSession([s EXCEPT !.pages.trees = f], a, b, u, f, w)
    BY <2>1, SessionGrows
  <2> QED
    BY <1>3, <2>2, Zenon DEF a, b, u, v, w
<1>7. r = [cat |-> s.cat, claimed |-> s.claimed, pages |-> q]
  BY <1>6, Zenon DEF IsSession
<1>8. q.schema = p.schema /\ q.trees = f /\ q.next = p.next
  OBVIOUS
<1>9. q = [schema |-> q.schema, trees |-> q.trees, next |-> q.next]
  OBVIOUS
<1> HIDE DEF q
<1>10. r.cat = s.cat /\ r.claimed = s.claimed /\ r.pages = q
  BY <1>7
<1>11. \A j \in DOMAIN f : Stack(f[j])
  <2> SUFFICES ASSUME NEW j \in DOMAIN f PROVE Stack(f[j])
    OBVIOUS
  <2>1. j \in DOMAIN p.trees /\ Stack(p.trees[j])
    BY <1>1, <1>4, Zenon DEF Paged
  <2>2. f[j] = IF j = root THEN tree ELSE p.trees[j]
    BY <1>5, <2>1
  <2> QED
    BY <2>1, <2>2, Zenon
<1>12. Paged(q)
  <2>1. q.next \in Nat \ {0} /\ DOMAIN q.trees \subseteq 1 .. q.next - 1
    BY <1>1, <1>4, <1>8, Zenon DEF Paged
  <2>2. \A j \in DOMAIN q.trees : Stack(q.trees[j])
    BY <1>8, <1>11, Zenon
  <2> QED
    BY <1>9, <2>1, <2>2, Zenon DEF Paged
<1>13. Rooted(q, s.cat) /\ Shows(q, s.cat)
  BY <1>1, <1>4, <1>8, Zenon DEF Rooted, Shows, HasSchema
<1>14. Shaped(r)
  BY <1>1, <1>7, <1>10, <1>12, <1>13, Zenon DEF Shaped
<1> QED
  BY <1>10, <1>13, <1>14, Zenon DEF Kept

LEMMA InsertRowKeeps ==
  ASSUME NEW s, Kept(s), NEW t, NEW list
  PROVE  AllWell(InsertRow(s, t, list))
<1> SUFFICES ASSUME NEW end \in InsertRow(s, t, list) PROVE Well(end)
  BY DEF AllWell
<1> DEFINE row == [i \in DOMAIN list |-> EvalConst(list[i])]
           old == s.pages.trees[t.root]
           tree == Append(old, Encode(row))
           r == [s EXCEPT !.pages.trees[t.root] = tree]
<1>1. end \in Fails(s) \/ end \in Done(r, << >>)
  <2>1. end \in Fails(s)
          \/ end \in Done([s EXCEPT !.pages.trees[t.root] = Append(@, Encode(row))], << >>)
    BY Zenon DEF InsertRow
  <2>2. [s EXCEPT !.pages.trees[t.root] = Append(@, Encode(row))] = r
    BY Zenon
  <2> QED
    BY <2>1, <2>2, Zenon
<1>2. t.root \in DOMAIN s.pages.trees => Stack(tree)
  <2> SUFFICES ASSUME t.root \in DOMAIN s.pages.trees PROVE Stack(tree)
    OBVIOUS
  <2>1. Stack(old)
    BY Zenon DEF Kept, Shaped, Paged
  <2> HIDE DEF old
  <2> DEFINE e == Encode(row)
  <2> HIDE DEF e
  <2>2. Stack(Append(old, e))
    BY <2>1, StackAppend
  <2> QED
    BY <2>2, Zenon DEF e
<1> HIDE DEF tree
<1>3. Kept(r)
  <2> DEFINE root == t.root
  <2>1. root \in DOMAIN s.pages.trees => Stack(tree)
    BY <1>2
  <2>2. r = [s EXCEPT !.pages.trees[root] = tree]
    BY Zenon
  <2> HIDE DEF r, root
  <2> QED
    BY <2>1, <2>2, ChangedKeeps
<1> HIDE DEF r
<1> QED
  BY <1>1, <1>3, FailsWell, DoneWell

LEMMA UpdateRowKeeps ==
  ASSUME NEW s, Kept(s), NEW t, NEW i, NEW row
  PROVE  AllWell(UpdateRow(s, t, i, row))
<1> SUFFICES ASSUME NEW end \in UpdateRow(s, t, i, row) PROVE Well(end)
  BY DEF AllWell
<1> DEFINE old == s.pages.trees[t.root]
           e == Encode(row)
           tree == [old EXCEPT ![i] = e]
           r == [s EXCEPT !.pages.trees[t.root] = tree]
<1>1. end \in Fails(s) \/ end \in Done(r, << >>)
  <2>1. end \in Fails(s)
          \/ end \in Done([s EXCEPT !.pages.trees[t.root][i] = e], << >>)
    BY Zenon DEF UpdateRow
  <2>2. [s EXCEPT !.pages.trees[t.root][i] = e] = r
    BY Zenon
  <2> QED
    BY <2>1, <2>2, Zenon
<1>2. t.root \in DOMAIN s.pages.trees => Stack(tree)
  <2> SUFFICES ASSUME t.root \in DOMAIN s.pages.trees PROVE Stack(tree)
    OBVIOUS
  <2>1. Stack(old)
    BY Zenon DEF Kept, Shaped, Paged
  <2> HIDE DEF old, e
  <2> QED
    BY <2>1, StackSet
<1> HIDE DEF tree
<1>3. Kept(r)
  <2> DEFINE root == t.root
  <2>1. root \in DOMAIN s.pages.trees => Stack(tree)
    BY <1>2
  <2>2. r = [s EXCEPT !.pages.trees[root] = tree]
    BY Zenon
  <2> HIDE DEF r, root
  <2> QED
    BY <2>1, <2>2, ChangedKeeps
<1> HIDE DEF r
<1> QED
  BY <1>1, <1>3, FailsWell, DoneWell

LEMMA NextWell ==
  ASSUME NEW what \in {"insert", "update"}, NEW a, NEW b, NEW d, NEW ends, AllWell(ends), NEW n
  PROVE  AllWell(NextOf(what, a, b, d, ends, n))
<1>1. CASE what = "insert"
  <2> DEFINE all == Then(ends, LAMBDA r : InsertRow(r, a, b[n]))
  <2>1. NextOf(what, a, b, d, ends, n) = all
    BY <1>1, Zenon DEF NextOf
  <2>2. ASSUME NEW e \in all PROVE Well(e)
    <3>1. PICK end \in ends : e \in IF end.ok THEN InsertRow(end.session, a, b[n]) ELSE {end}
      BY <2>2, Zenon DEF Then
    <3>2. Well(end) /\ Kept(end.session)
      BY <3>1, Zenon DEF AllWell, Well
    <3>3. AllWell(InsertRow(end.session, a, b[n]))
      BY <3>2, InsertRowKeeps
    <3> QED
      BY <3>1, <3>2, <3>3, Zenon DEF AllWell
  <2> QED
    BY <2>1, <2>2, Zenon DEF AllWell
<1>2. CASE what = "update"
  <2> DEFINE all == Then(ends, LAMBDA r : UpdateRow(r, a, b[n], d[b[n]]))
  <2>0. what # "operators" /\ what # "insert"
    BY <1>2
  <2>1. NextOf(what, a, b, d, ends, n) = all
    BY <2>0, Zenon DEF NextOf
  <2>2. ASSUME NEW e \in all PROVE Well(e)
    <3>1. PICK end \in ends :
            e \in IF end.ok THEN UpdateRow(end.session, a, b[n], d[b[n]]) ELSE {end}
      BY <2>2, Zenon DEF Then
    <3>2. Well(end) /\ Kept(end.session)
      BY <3>1, Zenon DEF AllWell, Well
    <3>3. AllWell(UpdateRow(end.session, a, b[n], d[b[n]]))
      BY <3>2, UpdateRowKeeps
    <3> QED
      BY <3>1, <3>2, <3>3, Zenon DEF AllWell
  <2> QED
    BY <2>1, <2>2, Zenon DEF AllWell
<1> QED
  BY <1>1, <1>2

LEMMA RowsWell ==
  ASSUME NEW what \in {"insert", "update"}, NEW a, NEW b, NEW d, NEW first, AllWell(first),
         NEW N \in Nat, NEW f, IsChain(what, a, b, d, first, N, f)
  PROVE  AllWell(f[N])
<1> DEFINE good == {n \in 0 .. N : AllWell(f[n])}
<1>0. GoesOn(what, a, b, d, first, N, f)
  BY ChainHolds
<1>1. f[0] = first /\ \A n \in 1 .. N : f[n] = NextOf(what, a, b, d, f[n - 1], n)
  BY <1>0, Zenon DEF GoesOn
<1>2. 0 \in good
  BY <1>1
<1>3. ASSUME NEW n \in 1 .. N, n - 1 \in good PROVE n \in good
  <2> DEFINE ends == f[n - 1]
  <2>1. AllWell(ends) /\ n \in 0 .. N /\ f[n] = NextOf(what, a, b, d, ends, n)
    BY <1>1, <1>3
  <2> HIDE DEF ends
  <2>2. AllWell(NextOf(what, a, b, d, ends, n))
    BY <2>1, NextWell
  <2> QED
    BY <2>1, <2>2
<1> HIDE DEF good
<1>4. \A n \in 0 .. N : n \in good
  BY <1>2, <1>3, Upwards
<1>5. N \in 0 .. N
  OBVIOUS
<1> QED
  BY <1>4, <1>5 DEF good

LEMMA DoneAll ==
  ASSUME NEW s, Kept(s), NEW rows
  PROVE  AllWell(Done(s, rows)) /\ AllWell(Fails(s))
BY DoneWell, FailsWell DEF AllWell

LEMMA InsertKeeps ==
  ASSUME NEW s, Kept(s), NEW st, Stack(st.rows)
  PROVE  AllWell(ExecInsert(s, st))
<1> SUFFICES ASSUME NEW end \in ExecInsert(s, st) PROVE Well(end)
  BY DEF AllWell
<1>1. CASE Get(s.cat, st.table) = {}
  <2>1. end \in Fails(s)
    BY <1>1 DEF ExecInsert
  <2> QED
    BY <2>1, FailsWell
<1>2. CASE Get(s.cat, st.table) # {}
  <2>1. ExecInsert(s, st) = UNION {InsertRows(s, t, st.rows) : t \in Get(s.cat, st.table)}
    BY <1>2, Zenon DEF ExecInsert
  <2>2. PICK t : end \in InsertRows(s, t, st.rows)
    BY <2>1, Zenon
  <2> DEFINE N == Len(st.rows)
             first == Done(s, << >>)
             Step(h, n) == IF n = 0 THEN first
                           ELSE Then(h[n - 1], LAMBDA r : InsertRow(r, t, st.rows[n]))
             At(h, n) == ChainAt("insert", t, st.rows, st, first, h, n)
             Fit(h) == h = [n \in 0 .. N |-> Step(h, n)]
             f == CHOOSE h : Fit(h)
  <2>3. N \in Nat
    BY StackIs
  <2>4. InsertRows(s, t, st.rows) = f[N]
    BY Zenon DEF InsertRows
  <2>5. AllWell(first)
    BY DoneAll
  <2>6. \A h, n : Step(h, n) = At(h, n)
    BY Zenon DEF ChainAt, NextOf
  <2>7. \E h : IsChain("insert", t, st.rows, st, first, N, h)
    <3> HIDE DEF N, first
    <3> QED
      BY <2>3, ChainIs
  <2> HIDE DEF N, f, Step, first
  <2>8. \A h : Fit(h) <=> IsChain("insert", t, st.rows, st, first, N, h)
    BY <2>6, Zenon DEF IsChain
  <2>9. Fit(f)
    <3> HIDE DEF Fit
    <3> QED
      BY <2>7, <2>8, Zenon DEF f
  <2>10. IsChain("insert", t, st.rows, st, first, N, f)
    <3> HIDE DEF Fit
    <3> QED
      BY <2>8, <2>9
  <2>11. "insert" \in {"insert", "update"}
    OBVIOUS
  <2>12. AllWell(f[N])
    <3> HIDE DEF Fit
    <3> QED
      BY <2>3, <2>5, <2>10, <2>11, RowsWell
  <2> QED
    BY <2>2, <2>4, <2>12, Zenon DEF AllWell
<1> QED
  BY <1>1, <1>2

-----------------------------------------------------------------------------
(* Scans, and the statements that change rows.                              *)

LEMMA PositionsCount ==
  ASSUME NEW s, Kept(s), NEW t, t \in s.cat.tables, NEW S, S \subseteq DOMAIN Rows(s, t)
  PROVE  IsFiniteSet(S) /\ Cardinality(S) \in Nat
<1> DEFINE tree == s.pages.trees[t.root]
           n == Len(tree)
<1>1. t.root \in DOMAIN s.pages.trees
  BY Zenon DEF Kept, Shaped, Rooted
<1>2. Stack(tree)
  BY <1>1, Zenon DEF Kept, Shaped, Paged
<1>3. n \in Nat /\ DOMAIN tree = 1 .. n
  <2> HIDE DEF tree
  <2> QED
    BY <1>2, StackIs
<1>4. DOMAIN Rows(s, t) = DOMAIN tree
  BY Zenon DEF Rows, Records
<1> HIDE DEF tree, n
<1>5. IsFiniteSet(1 .. n)
  <2>1. 1 \in Int /\ n \in Int
    BY <1>3
  <2> QED
    BY <2>1, FS_Interval
<1>6. S \subseteq 1 .. n
  BY <1>3, <1>4
<1>7. IsFiniteSet(S)
  BY <1>5, <1>6, FS_Subset
<1> QED
  BY <1>7, FS_CardinalityType

LEMMA OrdersCount ==
  ASSUME NEW s, NEW t, NEW S, IsFiniteSet(S), Cardinality(S) \in Nat,
         NEW order \in Orders(s, t, S) \cup {Ascending(S)}
  PROVE  DOMAIN order = 1 .. Cardinality(S) /\ Len(order) \in Nat
<1> DEFINE n == Cardinality(S)
<1>1. order = Ascending(S) \/ order \in SetToSeqs(S)
  BY Zenon DEF Orders
<1>2. CASE order = Ascending(S)
  <2> DEFINE G(i) == CHOOSE p \in S : Cardinality({q \in S : q <= p}) = i
  <2>1. order = [i \in 1 .. n |-> G(i)]
    BY <1>2, Zenon DEF Ascending
  <2>2. n \in Nat
    OBVIOUS
  <2> HIDE DEF G, n
  <2>3. DOMAIN order = 1 .. n /\ order = [i \in 1 .. n |-> order[i]]
    BY <2>1
  <2>4. Len(order) = n
    BY <2>2, <2>3, StackOf
  <2> QED
    BY <2>2, <2>3, <2>4 DEF n
<1>3. CASE order \in SetToSeqs(S)
  <2>1. order \in [1 .. n -> S]
    BY <1>3, Zenon DEF SetToSeqs
  <2>2. n \in Nat
    OBVIOUS
  <2> HIDE DEF n
  <2>3. Len(order) = n /\ DOMAIN order = 1 .. n
    BY <2>1, <2>2, Listed
  <2> QED
    BY <2>2, <2>3 DEF n
<1> QED
  BY <1>1, <1>2, <1>3

LEMMA FoundTable ==
  ASSUME NEW c, NEW name, Get(c, name) # {}
  PROVE  (CHOOSE u \in Get(c, name) : TRUE) \in c.tables
BY DEF Get

LEMMA DeleteKeeps ==
  ASSUME NEW s, Kept(s), NEW st
  PROVE  AllWell(ExecDelete(s, st))
<1> SUFFICES ASSUME NEW end \in ExecDelete(s, st) PROVE Well(end)
  BY DEF AllWell
<1> DEFINE t == CHOOSE u \in Get(s.cat, st.table) : TRUE
           gone == Matches(st.where, Rows(s, t), ScanScope(t.name, << >>, Names(t)))
           S == DOMAIN Rows(s, t) \ gone
           keeps == Ascending(S)
           old == s.pages.trees[t.root]
           tree == [i \in DOMAIN keeps |-> old[keeps[i]]]
           r == [s EXCEPT !.pages.trees[t.root] = tree]
<1>1. end \in Fails(s) \/ (Get(s.cat, st.table) # {} /\ end \in Done(r, << >>))
  <2>1. end \in Fails(s)
          \/ (Get(s.cat, st.table) # {}
               /\ end \in Done([s EXCEPT !.pages.trees[t.root] =
                                  [i \in DOMAIN keeps |-> @[keeps[i]]]], << >>))
    BY Zenon DEF ExecDelete
  <2>2. [s EXCEPT !.pages.trees[t.root] = [i \in DOMAIN keeps |-> @[keeps[i]]]] = r
    BY Zenon
  <2> QED
    BY <2>1, <2>2, Zenon
<1>2. CASE end \in Fails(s)
  BY <1>2, FailsWell
<1>3. CASE Get(s.cat, st.table) # {} /\ end \in Done(r, << >>)
  <2>1. t \in s.cat.tables
    BY <1>3, FoundTable
  <2>2. S \subseteq DOMAIN Rows(s, t)
    OBVIOUS
  <2> HIDE DEF t, S
  <2>3. IsFiniteSet(S) /\ Cardinality(S) \in Nat
    BY <2>1, <2>2, PositionsCount
  <2>4. DOMAIN keeps = 1 .. Cardinality(S)
    <3>1. keeps \in Orders(s, t, S) \cup {Ascending(S)}
      BY Zenon
    <3> HIDE DEF keeps
    <3> QED
      BY <2>3, <3>1, OrdersCount
  <2> DEFINE n == Cardinality(S)
  <2> HIDE DEF keeps, old, n
  <2>5. DOMAIN tree = 1 .. n /\ tree = [i \in 1 .. n |-> tree[i]]
    BY <2>4 DEF n
  <2>6. n \in Nat
    BY <2>3 DEF n
  <2> HIDE DEF tree
  <2>7. Stack(tree)
    BY <2>5, <2>6, StackOf
  <2> DEFINE root == t.root
  <2>8. r = [s EXCEPT !.pages.trees[root] = tree]
    BY Zenon
  <2> HIDE DEF r, root
  <2>9. Kept(r)
    BY <2>7, <2>8, ChangedKeeps
  <2> QED
    BY <1>3, <2>9, DoneWell
<1> QED
  BY <1>1, <1>2, <1>3

LEMMA UpdateRowsKeep ==
  ASSUME NEW s, Kept(s), NEW t, NEW order, Len(order) \in Nat, NEW new
  PROVE  AllWell(UpdateRows(s, t, order, new))
<1> DEFINE N == Len(order)
           first == Done(s, << >>)
           Step(h, n) == IF n = 0 THEN first
                         ELSE Then(h[n - 1], LAMBDA r : UpdateRow(r, t, order[n], new[order[n]]))
           At(h, n) == ChainAt("update", t, order, new, first, h, n)
           Fit(h) == h = [n \in 0 .. N |-> Step(h, n)]
           f == CHOOSE h : Fit(h)
<1>1. UpdateRows(s, t, order, new) = f[N]
  BY Zenon DEF UpdateRows
<1>2. AllWell(first)
  BY DoneAll
<1>3. "update" # "operators" /\ "update" # "insert" /\ "update" \in {"insert", "update"}
  OBVIOUS
<1>4. \A h, n : Step(h, n) = At(h, n)
  BY <1>3, Zenon DEF ChainAt, NextOf
<1>5. N \in Nat
  OBVIOUS
<1>6. \E h : IsChain("update", t, order, new, first, N, h)
  <2> HIDE DEF N, first
  <2> QED
    BY <1>5, ChainIs
<1> HIDE DEF N, f, Step, first
<1>7. \A h : Fit(h) <=> IsChain("update", t, order, new, first, N, h)
  BY <1>4, Zenon DEF IsChain
<1> HIDE DEF Fit
<1>8. Fit(f)
  BY <1>6, <1>7, Zenon DEF f
<1>9. IsChain("update", t, order, new, first, N, f)
  BY <1>7, <1>8
<1>10. AllWell(f[N])
  BY <1>2, <1>3, <1>5, <1>9, RowsWell
<1> QED
  BY <1>1, <1>10, Zenon

LEMMA UpdateKeeps ==
  ASSUME NEW s, Kept(s), NEW st
  PROVE  AllWell(ExecUpdate(s, st))
<1> SUFFICES ASSUME NEW end \in ExecUpdate(s, st) PROVE Well(end)
  BY DEF AllWell
<1> DEFINE t == CHOOSE u \in Get(s.cat, st.table) : TRUE
           scope == ScanScope(t.name, << >>, Names(t))
           rows == Rows(s, t)
           found == Matches(st.where, rows, scope)
           new == [i \in found |-> Assigned(t, st.assigns, rows[i], scope)]
<1>1. end \in Fails(s)
        \/ (Get(s.cat, st.table) # {}
             /\ \E order \in Orders(s, t, found) : end \in UpdateRows(s, t, order, new))
  BY Zenon DEF ExecUpdate
<1>2. CASE end \in Fails(s)
  BY <1>2, FailsWell
<1>3. ASSUME Get(s.cat, st.table) # {}, NEW order \in Orders(s, t, found),
             end \in UpdateRows(s, t, order, new)
      PROVE  Well(end)
  <2>1. t \in s.cat.tables
    BY <1>3, FoundTable
  <2>2. found \subseteq DOMAIN Rows(s, t)
    BY DEF Matches
  <2> HIDE DEF t, found, new
  <2>3. IsFiniteSet(found) /\ Cardinality(found) \in Nat
    BY <2>1, <2>2, PositionsCount
  <2>4. order \in Orders(s, t, found) \cup {Ascending(found)}
    BY <1>3
  <2>5. Len(order) \in Nat
    BY <2>3, <2>4, OrdersCount
  <2>6. AllWell(UpdateRows(s, t, order, new))
    BY <2>5, UpdateRowsKeep
  <2> QED
    BY <1>3, <2>6, Zenon DEF AllWell
<1> QED
  BY <1>1, <1>2, <1>3

-----------------------------------------------------------------------------
(* What changes nothing.                                                   *)

\* The session is as it was.
Idle(s, ends) == \A end \in ends : end.session = s /\ end.ok \in BOOLEAN

LEMMA EndsIdle ==
  ASSUME NEW s, NEW rows
  PROVE  Idle(s, Fails(s)) /\ Idle(s, Done(s, rows))
<1>1. ASSUME NEW end \in Fails(s) PROVE end.session = s /\ end.ok \in BOOLEAN
  <2>1. end = [ok |-> FALSE, session |-> s, rows |-> << >>]
    BY <1>1, Zenon DEF Fails
  <2> QED
    BY <2>1
<1>2. ASSUME NEW end \in Done(s, rows) PROVE end.session = s /\ end.ok \in BOOLEAN
  <2>1. end = [ok |-> TRUE, session |-> s, rows |-> rows]
    BY <1>2, Zenon DEF Done
  <2> QED
    BY <2>1
<1> QED
  BY <1>1, <1>2, Zenon DEF Idle

LEMMA AnswersIdle ==
  ASSUME NEW s, NEW st, NEW scope, NEW rows, NEW order
  PROVE  Idle(s, Answer(s, st, scope, rows, order))
<1>1. ASSUME NEW input, NEW behind PROVE Idle(s, Output(s, st, scope, rows, input, behind))
  <2>1. Output(s, st, scope, rows, input, behind) = Fails(s)
          \/ \E out : Output(s, st, scope, rows, input, behind) = Done(s, out)
    BY Zenon DEF Output
  <2> QED
    BY <2>1, EndsIdle
<1>2. ASSUME NEW input, NEW behind PROVE Idle(s, Pulled(s, st, scope, rows, input, behind))
  <2>1. Pulled(s, st, scope, rows, input, behind) = Fails(s)
          \/ \E all : Pulled(s, st, scope, rows, input, behind)
                        = Output(s, st, scope, rows, all, behind)
    BY Zenon DEF Pulled
  <2> QED
    BY <1>1, <2>1, EndsIdle
<1>3. \E input, behind :
        Answer(s, st, scope, rows, order) = Pulled(s, st, scope, rows, input, behind)
  BY Zenon DEF Answer
<1> QED
  BY <1>2, <1>3

LEMMA SelectIdle ==
  ASSUME NEW s, NEW st
  PROVE  Idle(s, ExecSelect(s, st)) /\ Idle(s, ExecExplain(s, st))
<1>1. Idle(s, ExecExplain(s, st))
  <2>1. ExecExplain(s, st) = Done(s, << >>) \/ ExecExplain(s, st) = Fails(s)
    BY Zenon DEF ExecExplain
  <2> QED
    BY <2>1, EndsIdle
<1>2. ASSUME NEW end \in ExecSelect(s, st) PROVE end.session = s /\ end.ok \in BOOLEAN
  <2> DEFINE t == CHOOSE u \in Get(s.cat, st.from) : TRUE
             scope == IF st.from = << >> THEN << >> ELSE ScanScope(t.name, st.alias, Names(t))
             rows == IF st.from = << >> THEN << << >> >> ELSE Rows(s, t)
             orders == IF st.from = << >> THEN {<<1>>} ELSE Orders(s, t, DOMAIN rows)
  <2>0. ExecSelect(s, st) = IF ~Plannable(s, st) \/ ~Readable(st, scope) THEN Fails(s)
                            ELSE UNION {Answer(s, st, scope, rows, order) : order \in orders}
    BY Zenon DEF ExecSelect
  <2> HIDE DEF scope, rows, orders
  <2>1. end \in Fails(s) \/ \E order : end \in Answer(s, st, scope, rows, order)
    BY <1>2, <2>0, Zenon
  <2> QED
    BY <2>1, AnswersIdle, EndsIdle, Zenon DEF Idle
<1> QED
  BY <1>1, <1>2, Zenon DEF Idle

LEMMA IdleWell ==
  ASSUME NEW s, Kept(s), NEW ends, Idle(s, ends)
  PROVE  AllWell(ends)
BY Zenon DEF Idle, AllWell, Well

\* What the parser makes of a text, as far as the session depends on it.
Stated(st) ==
  \/ st.stmt \in {"select", "update", "delete", "explain"}
  \/ st.stmt \in {"begin", "commit", "rollback"}
  \/ st.stmt = "insert" /\ Stack(st.rows)
  \/ st.stmt = "create" /\ st.table \in Texts /\ st.columns \in Seq(Columns)
  \/ /\ st.stmt = "createindex" /\ st.name \in Texts /\ st.table \in Texts
     /\ st.columns \in Seq(Texts) /\ st.unique \in BOOLEAN

\* However a statement ends (engine.go, dispatch), a failing one in a transaction included,
\* every table has a tree, and the schema page has a catalog: the session's, or one that the
\* session's has grown from and whose page is too small for it.
THEOREM StatementsKeep ==
  ASSUME NEW s, Kept(s), NEW st, Stated(st), st.stmt \notin Transactions
  PROVE  AllWell(Dispatch(s, st))
<1> SUFFICES ASSUME NEW end \in Dispatch(s, st) PROVE Well(end)
  BY DEF AllWell
<1>1. CASE st.stmt = "create" /\ st.table \in Texts /\ st.columns \in Seq(Columns)
  <2>1. end \in ExecCreate(s, st)
    BY <1>1 DEF Dispatch
  <2> QED
    BY <1>1, <2>1, CreateKeeps
<1>2. CASE /\ st.stmt = "createindex" /\ st.name \in Texts /\ st.table \in Texts
           /\ st.columns \in Seq(Texts) /\ st.unique \in BOOLEAN
  <2>1. end \in ExecCreateIndex(s, st)
    BY <1>2 DEF Dispatch
  <2> QED
    BY <1>2, <2>1, CreateIndexKeeps
<1>3. CASE st.stmt = "insert" /\ Stack(st.rows)
  <2>1. end \in ExecInsert(s, st)
    BY <1>3 DEF Dispatch
  <2> QED
    BY <1>3, <2>1, InsertKeeps DEF AllWell
<1>4. CASE st.stmt = "update"
  <2>1. end \in ExecUpdate(s, st)
    BY <1>4 DEF Dispatch
  <2> QED
    BY <2>1, UpdateKeeps DEF AllWell
<1>5. CASE st.stmt = "delete"
  <2>1. end \in ExecDelete(s, st)
    BY <1>5 DEF Dispatch
  <2> QED
    BY <2>1, DeleteKeeps DEF AllWell
<1>6. CASE st.stmt = "select"
  <2>1. end \in ExecSelect(s, st)
    BY <1>6 DEF Dispatch
  <2> QED
    BY <2>1, SelectIdle, IdleWell DEF AllWell
<1>7. CASE st.stmt = "explain"
  <2>1. end \in ExecExplain(s, st)
    BY <1>7 DEF Dispatch
  <2> QED
    BY <2>1, SelectIdle, IdleWell DEF AllWell
<1> QED
  BY <1>1, <1>2, <1>3, <1>4, <1>5, <1>6, <1>7 DEF Stated, Transactions

-----------------------------------------------------------------------------
(* The parser's cursor: what a call leaves of it.                          *)

\* Lengths, as names for them.
Size(T) == Len(T)
Depth(c) == Len(c.vals)

\* The tokens of a text.
IsToks(T) ==
  /\ Size(T) \in Nat \ {0} /\ DOMAIN T = 1 .. Size(T) /\ T[Size(T)].kind = "EOF"
  /\ \A i \in 1 .. Size(T) : T[i].text \in Texts

\* A cursor in the tokens T.
Reads(T, c) ==
  /\ c = [toks |-> T, pos |-> c.pos, err |-> c.err, vals |-> c.vals]
  /\ c.pos \in 1 .. Size(T) /\ c.err \in BOOLEAN /\ Stack(c.vals)

\* The cursor r has read on from c, and has n values more, unless it is in error.
Adds(T, c, r, n) ==
  /\ Reads(T, c) /\ Reads(T, r) /\ c.pos <= r.pos
  /\ \/ r.err
     \/ /\ ~c.err /\ Depth(r) = Depth(c) + n
        /\ \A i \in 1 .. Depth(c) : r.vals[i] = c.vals[i]
\* The j-th of them.
Top(c, r, j) == r.vals[Depth(c) + j]

\* An equation, as a name for it.
IsCursor(c, T, pos, err, vals) == c = [toks |-> T, pos |-> pos, err |-> err, vals |-> vals]

LEMMA ReadsIs ==
  ASSUME NEW T, NEW pos \in 1 .. Size(T), NEW err \in BOOLEAN, NEW vals, Stack(vals),
         NEW c, IsCursor(c, T, pos, err, vals)
  PROVE  /\ Reads(T, c) /\ c.toks = T /\ c.pos = pos /\ c.err = err /\ c.vals = vals
         /\ Depth(c) = Len(vals)
<1>1. c.toks = T /\ c.pos = pos /\ c.err = err /\ c.vals = vals
  BY DEF IsCursor
<1> QED
  BY <1>1, Zenon DEF IsCursor, Reads, Depth

LEMMA ReadsHas ==
  ASSUME NEW T, NEW c, Reads(T, c)
  PROVE  /\ IsCursor(c, T, c.pos, c.err, c.vals)
         /\ c.toks = T /\ c.pos \in 1 .. Size(T) /\ c.err \in BOOLEAN /\ Stack(c.vals)
         /\ Depth(c) \in Nat /\ Depth(c) = Len(c.vals)
<1> DEFINE v == c.vals
<1>1. IsCursor(c, T, c.pos, c.err, v) /\ c.pos \in 1 .. Size(T) /\ c.err \in BOOLEAN /\ Stack(v)
  BY Zenon DEF Reads, IsCursor
<1>2. c.toks = T
  BY <1>1 DEF IsCursor
<1>3. Len(v) \in Nat
  BY <1>1, StackIs
<1> QED
  BY <1>1, <1>2, <1>3, Zenon DEF Depth

LEMMA Edited ==
  ASSUME NEW c, NEW T, NEW pos, NEW err, NEW vals, IsCursor(c, T, pos, err, vals), NEW x
  PROVE  /\ IsCursor([c EXCEPT !.pos = x], T, x, err, vals)
         /\ IsCursor([c EXCEPT !.err = x], T, pos, x, vals)
         /\ IsCursor([c EXCEPT !.vals = x], T, pos, err, x)
<1>1. /\ [c EXCEPT !.pos = x] = [toks |-> T, pos |-> x, err |-> err, vals |-> vals]
      /\ [c EXCEPT !.err = x] = [toks |-> T, pos |-> pos, err |-> x, vals |-> vals]
      /\ [c EXCEPT !.vals = x] = [toks |-> T, pos |-> pos, err |-> err, vals |-> x]
  BY DEF IsCursor
<1> QED
  BY <1>1, Zenon DEF IsCursor

LEMMA SameAdds ==
  ASSUME NEW T, NEW c, Reads(T, c), Size(T) \in Nat
  PROVE  Adds(T, c, c, 0)
<1> DEFINE d == Depth(c)
           p == c.pos
<1>1. d \in Nat /\ p \in 1 .. Size(T) /\ c.err \in BOOLEAN
  BY ReadsHas
<1> HIDE DEF d, p
<1>2. d = d + 0 /\ p <= p
  BY <1>1
<1> QED
  BY <1>1, <1>2, Zenon DEF Adds, d, p

LEMMA Chain ==
  ASSUME NEW T, Size(T) \in Nat, NEW c, NEW d, NEW m \in Nat, Adds(T, c, d, m),
         NEW r, NEW n \in Nat, Adds(T, d, r, n)
  PROVE  /\ Adds(T, c, r, m + n)
         /\ ~r.err => ~d.err
         /\ ~r.err => \A j \in 1 .. m : Top(c, r, j) = Top(c, d, j)
         /\ ~r.err => \A j \in 1 .. n : Top(c, r, m + j) = Top(d, r, j)
<1> DEFINE a == Depth(c)
           b == Depth(d)
           e == Depth(r)
           p == c.pos
           q == d.pos
           s == r.pos
           v == c.vals
           w == d.vals
           u == r.vals
<1>1. a \in Nat /\ b \in Nat /\ e \in Nat /\ p \in 1 .. Size(T) /\ q \in 1 .. Size(T) /\ s \in 1 .. Size(T)
  BY ReadsHas DEF Adds
<1>2. p <= q /\ q <= s /\ Reads(T, c) /\ Reads(T, r)
  BY DEF Adds
<1>3. r.err \/ (~d.err /\ e = b + n /\ \A i \in 1 .. b : u[i] = w[i])
  BY DEF Adds
<1>4. d.err \/ (~c.err /\ b = a + m /\ \A i \in 1 .. a : w[i] = v[i])
  BY DEF Adds
<1>5. \A j : Top(c, r, j) = u[a + j] /\ Top(c, d, j) = w[a + j] /\ Top(d, r, j) = u[b + j]
  BY DEF Top
<1> HIDE DEF a, b, e, p, q, s, v, w, u
<1>6. p <= s
  BY <1>1, <1>2
<1>7. CASE r.err
  BY <1>2, <1>6, <1>7, Zenon DEF Adds, p, s
<1>8. CASE ~r.err
  <2>1. ~d.err /\ ~c.err /\ e = b + n /\ b = a + m
    BY <1>3, <1>4, <1>8
  <2>2. e = a + (m + n)
    BY <1>1, <2>1
  <2>3. \A i \in 1 .. a : u[i] = v[i]
    <3>1. \A i \in 1 .. a : i \in 1 .. b
      BY <1>1, <2>1
    <3> QED
      BY <1>3, <1>4, <1>8, <2>1, <3>1
  <2>4. \A j \in 1 .. m : u[a + j] = w[a + j]
    <3>1. \A j \in 1 .. m : a + j \in 1 .. b
      BY <1>1, <2>1
    <3> QED
      BY <1>3, <1>8, <3>1
  <2>5. \A j \in 1 .. n : a + (m + j) = b + j
    BY <1>1, <2>1
  <2>6. Adds(T, c, r, m + n)
    BY <1>2, <1>6, <2>1, <2>2, <2>3, Zenon DEF Adds, a, e, p, s, v, u
  <2> QED
    BY <1>5, <2>1, <2>4, <2>5, <2>6
<1> QED
  BY <1>7, <1>8

LEMMA AddsHas ==
  ASSUME NEW T, NEW c, NEW r, NEW n, Adds(T, c, r, n)
  PROVE  Reads(T, c) /\ Reads(T, r) /\ c.pos <= r.pos /\ (~r.err => ~c.err)
BY DEF Adds

\* One thing more, or none.
LEMMA On ==
  ASSUME NEW T, Size(T) \in Nat, NEW c, NEW d, Adds(T, c, d, 0), NEW r, NEW n \in Nat, Adds(T, d, r, n)
  PROVE  /\ Adds(T, c, r, n) /\ (~r.err => ~d.err)
         /\ ~r.err => \A j \in 1 .. n : Top(c, r, j) = Top(d, r, j)
<1>1. 0 \in Nat /\ 0 + n = n
  OBVIOUS
<1>2. /\ Adds(T, c, r, 0 + n) /\ (~r.err => ~d.err)
      /\ ~r.err => \A j \in 1 .. n : Top(c, r, 0 + j) = Top(d, r, j)
  BY <1>1, Chain
<1>3. \A j \in 1 .. n : 0 + j = j
  OBVIOUS
<1> QED
  BY <1>1, <1>2, <1>3

LEMMA Off ==
  ASSUME NEW T, Size(T) \in Nat, NEW c, NEW d, NEW n \in Nat, Adds(T, c, d, n), NEW r, Adds(T, d, r, 0)
  PROVE  /\ Adds(T, c, r, n) /\ (~r.err => ~d.err)
         /\ ~r.err => \A j \in 1 .. n : Top(c, r, j) = Top(c, d, j)
<1>1. 0 \in Nat /\ n + 0 = n
  OBVIOUS
<1>2. /\ Adds(T, c, r, n + 0) /\ (~r.err => ~d.err)
      /\ ~r.err => \A j \in 1 .. n : Top(c, r, j) = Top(c, d, j)
  BY <1>1, Chain
<1> QED
  BY <1>1, <1>2

LEMMA Plus ==
  ASSUME NEW T, Size(T) \in Nat, NEW c, NEW d, NEW n \in Nat, Adds(T, c, d, n), NEW r, Adds(T, d, r, 1)
  PROVE  /\ Adds(T, c, r, n + 1) /\ (~r.err => ~d.err)
         /\ ~r.err => \A j \in 1 .. n : Top(c, r, j) = Top(c, d, j)
         /\ ~r.err => Top(c, r, n + 1) = Top(d, r, 1)
<1>1. 1 \in Nat /\ 1 \in 1 .. 1
  OBVIOUS
<1> QED
  BY <1>1, Chain

-----------------------------------------------------------------------------
(* Moving on.                                                              *)

LEMMA ToksHave ==
  ASSUME NEW T, IsToks(T)
  PROVE  Size(T) \in Nat /\ \A i \in 1 .. Size(T) : T[i].text \in Texts
BY DEF IsToks

LEMMA AdvanceIs ==
  ASSUME NEW T, IsToks(T), NEW c, Reads(T, c)
  PROVE  /\ Adds(T, c, Advance(c), 0) /\ Advance(c).err = c.err
         /\ Peek(c).kind # "EOF" => Advance(c).pos > c.pos
<1> DEFINE p == c.pos
           q == IF p < Size(T) THEN p + 1 ELSE p
           r == Advance(c)
           e == c.err
           v == c.vals
           d == Depth(c)
<1>1. /\ c.toks = T /\ p \in 1 .. Size(T) /\ e \in BOOLEAN /\ Stack(v) /\ d \in Nat
      /\ IsCursor(c, T, p, e, v)
  BY ReadsHas
<1>2. Size(T) \in Nat /\ T[Size(T)].kind = "EOF"
  BY DEF IsToks
<1>3. r = [c EXCEPT !.pos = q]
  BY <1>1, Zenon DEF Advance, Size
<1>5. d = Len(v)
  BY Zenon DEF Depth
<1>6. T[p] = Peek(c)
  BY <1>1, Zenon DEF Peek
<1>14. T[p].kind # "EOF" => p # Size(T)
  BY <1>2
<1> HIDE DEF p, r, e, v, d
<1>7. q \in 1 .. Size(T) /\ p <= q /\ (p # Size(T) => q > p)
  BY <1>1, <1>2
<1> HIDE DEF q
<1>4. IsCursor(r, T, q, e, v)
  <2>1. IsCursor(c, T, p, e, v)
    BY <1>1
  <2>2. IsCursor([c EXCEPT !.pos = q], T, q, e, v)
    BY <2>1, Edited
  <2> QED
    BY <1>3, <2>2, Zenon
<1>8. Reads(T, r) /\ r.pos = q /\ r.err = e /\ r.vals = v /\ Depth(r) = d
  BY <1>1, <1>4, <1>5, <1>7, ReadsIs
<1>9. d + 0 = d
  BY <1>1
<1>10. c.pos = p /\ c.err = e /\ c.vals = v /\ Depth(c) = d
  BY DEF p, e, v, d
<1>11. Adds(T, c, r, 0)
  BY <1>1, <1>7, <1>8, <1>9, <1>10, Zenon DEF Adds
<1>12. Peek(c).kind # "EOF" => p # Size(T)
  BY <1>6, <1>14
<1> QED
  BY <1>7, <1>8, <1>10, <1>11, <1>12, Zenon DEF r

LEMMA SeesIs ==
  ASSUME NEW T, NEW c, Reads(T, c), NEW kind, Sees(c, kind), kind # "EOF"
  PROVE  ~c.err /\ Peek(c).kind # "EOF"
BY DEF Sees

LEMMA FailedAdds ==
  ASSUME NEW T, NEW c, Reads(T, c), NEW n, Size(T) \in Nat
  PROVE  Adds(T, c, Failed(c), n) /\ Failed(c).err
<1> DEFINE r == Failed(c)
           p == c.pos
           v == c.vals
           e == TRUE
<1>1. p \in 1 .. Size(T) /\ Stack(v) /\ e \in BOOLEAN /\ IsCursor(c, T, p, c.err, v)
  BY ReadsHas
<1>2. r = [c EXCEPT !.err = e]
  BY Zenon DEF Failed
<1> HIDE DEF r, p, v, e
<1>4. IsCursor(r, T, p, e, v)
  <2> DEFINE a == c.err
  <2>1. IsCursor(c, T, p, a, v)
    BY <1>1
  <2> HIDE DEF a
  <2>2. IsCursor([c EXCEPT !.err = e], T, p, e, v)
    BY <2>1, Edited
  <2> QED
    BY <1>2, <2>2, Zenon
<1>5. Reads(T, r) /\ r.pos = p /\ r.err = e
  BY <1>1, <1>4, ReadsIs
<1>6. p <= p
  BY <1>1
<1> QED
  BY <1>5, <1>6, Zenon DEF Adds, r, p, e

\* A value on top of those of c.
LEMMA PushedAdds ==
  ASSUME NEW T, Size(T) \in Nat, NEW c, Reads(T, c), ~c.err, NEW x,
         NEW r, IsCursor(r, T, c.pos, c.err, Append(c.vals, x))
  PROVE  Adds(T, c, r, 1) /\ ~r.err /\ Top(c, r, 1) = x
<1> DEFINE p == c.pos
           e == c.err
           v == c.vals
           d == Depth(c)
           w == Append(v, x)
<1>1. /\ p \in 1 .. Size(T) /\ e \in BOOLEAN /\ Stack(v) /\ d = Len(v) /\ d \in Nat
      /\ IsCursor(c, T, p, e, v)
  BY ReadsHas
<1>6. IsCursor(r, T, p, e, w)
  OBVIOUS
<1>2. /\ Stack(w) /\ Len(w) = d + 1 /\ \A i \in 1 .. d : w[i] = v[i]
      /\ w[d + 1] = x
  <2> HIDE DEF v
  <2> QED
    BY <1>1, StackAppend
<1>3. c.pos = p /\ c.err = e /\ c.vals = v /\ Depth(c) = d
  OBVIOUS
<1> HIDE DEF p, e, v, d, w
<1>4. Reads(T, r) /\ r.pos = p /\ r.err = e /\ r.vals = w /\ Depth(r) = d + 1
  BY <1>1, <1>2, <1>6, ReadsIs
<1>5. p <= p
  BY <1>1
<1> QED
  BY <1>2, <1>3, <1>4, <1>5, Zenon DEF Adds, Top

LEMMA ReturnsAdds ==
  ASSUME NEW T, Size(T) \in Nat, NEW c, Reads(T, c), NEW x
  PROVE  /\ Adds(T, c, Returns(c, x), 1) /\ Returns(c, x).err = c.err
         /\ ~c.err => Top(c, Returns(c, x), 1) = x
<1> DEFINE r == Returns(c, x)
<1>1. c.err \in BOOLEAN
  BY ReadsHas
<1>2. CASE c.err
  <2>1. r = c
    BY <1>2, Zenon DEF Returns
  <2>2. c.pos <= c.pos
    BY ReadsHas
  <2> QED
    BY <1>2, <2>1, <2>2, Zenon DEF Adds
<1>3. CASE ~c.err
  <2>1. r = [c EXCEPT !.vals = Append(c.vals, x)]
    BY <1>3, Zenon DEF Returns
  <2> HIDE DEF r
  <2>5. IsCursor(r, T, c.pos, c.err, Append(c.vals, x))
    <3> DEFINE p == c.pos
               e == c.err
               v == c.vals
               w == Append(v, x)
    <3>1. IsCursor(c, T, p, e, v)
      BY ReadsHas
    <3>2. r = [c EXCEPT !.vals = w]
      BY <2>1
    <3> HIDE DEF p, e, v, w
    <3>3. IsCursor([c EXCEPT !.vals = w], T, p, e, w)
      BY <3>1, Edited
    <3> QED
      BY <3>2, <3>3, Zenon DEF p, e, v, w
  <2>2. Adds(T, c, r, 1) /\ ~r.err /\ Top(c, r, 1) = x
    BY <1>3, <2>5, PushedAdds
  <2>3. Reads(T, r)
    BY <2>2 DEF Adds
  <2>4. r.err \in BOOLEAN
    BY <2>3, ReadsHas
  <2> QED
    BY <1>1, <1>3, <2>2, <2>4 DEF r
<1> QED
  BY <1>2, <1>3

LEMMA AcceptAdds ==
  ASSUME NEW T, IsToks(T), NEW c, Reads(T, c), NEW kind
  PROVE  Adds(T, c, Accept(c, kind), 0) /\ Accept(c, kind).err = c.err
<1>1. Accept(c, kind) = Advance(c) \/ Accept(c, kind) = c
  BY DEF Accept
<1> QED
  BY <1>1, AdvanceIs, SameAdds, ToksHave

LEMMA SkipAdds ==
  ASSUME NEW T, IsToks(T), NEW c, Reads(T, c), NEW kind
  PROVE  Adds(T, c, Skip(c, kind), 0)
<1>1. Skip(c, kind) = Advance(c) \/ Skip(c, kind) = Failed(c)
  BY DEF Skip
<1> QED
  BY <1>1, AdvanceIs, FailedAdds, ToksHave

LEMMA NameAdds ==
  ASSUME NEW T, IsToks(T), NEW c, Reads(T, c)
  PROVE  /\ Adds(T, c, ParseName(c), 1)
         /\ ~ParseName(c).err => Top(c, ParseName(c), 1) \in Texts
<1>1. CASE Sees(c, "IDENT")
  <2> DEFINE d == Advance(c)
             x == Peek(c).text
             r == Returns(d, x)
  <2>1. ParseName(c) = r
    BY <1>1, Zenon DEF ParseName
  <2>2. Adds(T, c, d, 0) /\ Reads(T, d)
    BY AdvanceIs DEF Adds
  <2>3. x \in Texts
    <3>1. Peek(c) = T[c.pos] /\ c.pos \in 1 .. Size(T)
      BY ReadsHas DEF Peek
    <3> QED
      BY <3>1, ToksHave
  <2>4. Adds(T, d, r, 1) /\ r.err = d.err /\ (~d.err => Top(d, r, 1) = x)
    BY <2>2, ReturnsAdds, ToksHave
  <2> HIDE DEF d, r, x
  <2>5. 1 \in Nat /\ 1 \in 1 .. 1
    OBVIOUS
  <2>6. Adds(T, c, r, 1) /\ (~r.err => Top(c, r, 1) = Top(d, r, 1))
    BY <2>2, <2>4, <2>5, On, ToksHave
  <2> QED
    BY <2>1, <2>3, <2>4, <2>6
<1>2. CASE ~Sees(c, "IDENT")
  <2>1. ParseName(c) = Failed(c)
    BY <1>2, Zenon DEF ParseName
  <2> QED
    BY <2>1, FailedAdds, ToksHave
<1> QED
  BY <1>1, <1>2

\* The last n values of r give way to x.
Made(r, n, x) ==
  IF r.err THEN r ELSE [r EXCEPT !.vals = Append(SubSeq(@, 1, Len(@) - n), x)]

LEMMA MadeAdds ==
  ASSUME NEW T, Size(T) \in Nat, NEW c, NEW d, NEW n \in Nat, Adds(T, c, d, n), NEW x
  PROVE  /\ Adds(T, c, Made(d, n, x), 1) /\ Made(d, n, x).err = d.err
         /\ ~d.err => Top(c, Made(d, n, x), 1) = x
         /\ ~d.err => Stack(Latest(d, n)) /\ Len(Latest(d, n)) = n
         /\ ~d.err => \A j \in 1 .. n : Latest(d, n)[j] = Top(c, d, j)
<1> DEFINE r == Made(d, n, x)
<1>1. Reads(T, c) /\ Reads(T, d) /\ d.err \in BOOLEAN /\ c.pos <= d.pos
  BY ReadsHas DEF Adds
<1>2. CASE d.err
  <2>1. r = d
    BY <1>2, Zenon DEF Made
  <2> QED
    BY <1>1, <1>2, <2>1, Zenon DEF Adds
<1>3. CASE ~d.err
  <2> DEFINE a == Depth(c)
             b == Depth(d)
             p == c.pos
             q == d.pos
             w == d.vals
             v == c.vals
             u == SubSeq(w, 1, b - n)
             y == Append(u, x)
             z == Latest(d, n)
  <2>1. /\ a \in Nat /\ b \in Nat /\ p \in 1 .. Size(T) /\ q \in 1 .. Size(T) /\ p <= q
        /\ Stack(w) /\ b = Len(w)
    BY <1>1, ReadsHas DEF Depth
  <2>2. ~c.err /\ b = a + n /\ \A i \in 1 .. a : w[i] = v[i]
    BY <1>3 DEF Adds
  <2>3. IsCursor(r, T, q, d.err, y)
    <3>1. r = [d EXCEPT !.vals = y]
      BY <1>3, Zenon DEF Made, Depth
    <3>2. IsCursor(d, T, q, d.err, w)
      BY <1>1, ReadsHas
    <3> DEFINE e == d.err
    <3>4. IsCursor(d, T, q, e, w)
      BY <3>2
    <3> HIDE DEF e, r, y, q, w
    <3>3. IsCursor([d EXCEPT !.vals = y], T, q, e, y)
      BY <3>4, Edited
    <3> QED
      BY <3>1, <3>3, Zenon DEF e
  <2>4. z = SubSeq(w, b - n + 1, b)
    BY Zenon DEF Latest, Depth
  <2>5. \A j : Top(c, d, j) = w[a + j] /\ Top(c, r, j) = r.vals[a + j]
    BY DEF Top
  <2>6. c.pos = p /\ c.vals = v /\ Depth(c) = a
    OBVIOUS
  <2> HIDE DEF a, b, p, q, w, v, u, y, z, r
  <2>7. b - n = a
    BY <2>1, <2>2
  <2>8. u = SubSeq(w, 1, a) /\ z = SubSeq(w, a + 1, a + n)
    BY <2>2, <2>4, <2>7, Zenon DEF u
  <2>9. /\ Stack(u) /\ Len(u) = a /\ \A i \in 1 .. a : u[i] = w[i]
        /\ Stack(z) /\ Len(z) = n /\ \A i \in 1 .. n : z[i] = w[a + i]
    <3>1. a \in Nat /\ a + n = Len(w) /\ Stack(w)
      BY <2>1, <2>2
    <3>2. /\ Stack(SubSeq(w, 1, a)) /\ Len(SubSeq(w, 1, a)) = a
          /\ \A i \in 1 .. a : SubSeq(w, 1, a)[i] = w[i]
          /\ Stack(SubSeq(w, a + 1, a + n)) /\ Len(SubSeq(w, a + 1, a + n)) = n
          /\ \A i \in 1 .. n : SubSeq(w, a + 1, a + n)[i] = w[a + i]
      BY <3>1, StackCut
    <3> QED
      BY <2>8, <3>2, Zenon
  <2>10. /\ Stack(y) /\ Len(y) = a + 1 /\ \A i \in 1 .. a : y[i] = u[i]
         /\ y[a + 1] = x
    BY <2>9, StackAppend DEF y
  <2>12. Reads(T, r) /\ r.pos = q /\ r.err = d.err /\ r.vals = y /\ Depth(r) = a + 1
    <3> DEFINE e == d.err
    <3>1. e \in BOOLEAN /\ IsCursor(r, T, q, e, y)
      BY <1>1, <2>3
    <3> HIDE DEF e
    <3>2. Reads(T, r) /\ r.pos = q /\ r.err = e /\ r.vals = y /\ Depth(r) = Len(y)
      BY <2>1, <2>10, <3>1, ReadsIs
    <3> QED
      BY <2>10, <3>2 DEF e
  <2>13. \A i \in 1 .. a : y[i] = v[i]
    BY <2>2, <2>9, <2>10
  <2>14. Adds(T, c, r, 1)
    BY <1>1, <2>1, <2>2, <2>6, <2>12, <2>13, Zenon DEF Adds
  <2> QED
    BY <1>1, <1>3, <2>5, <2>9, <2>10, <2>12, <2>14 DEF r, z
<1> QED
  BY <1>2, <1>3

-----------------------------------------------------------------------------
(* Calls.                                                                  *)

LEMMA StartReads ==
  ASSUME NEW T, NEW p \in 1 .. Size(T)
  PROVE  /\ Reads(T, StartAt(T, p)) /\ StartAt(T, p).pos = p /\ ~StartAt(T, p).err
         /\ StartAt(T, p).toks = T /\ Depth(StartAt(T, p)) = 0
<1> DEFINE c == StartAt(T, p)
           v == << >>
           e == FALSE
<1>1. IsCursor(c, T, p, e, v)
  BY Zenon DEF IsCursor, StartAt
<1>2. v \in Seq({}) /\ Len(v) = 0
  OBVIOUS
<1>3. Stack(v) /\ e \in BOOLEAN
  BY <1>2, Zenon DEF Stack
<1> HIDE DEF c, v, e
<1>4. Reads(T, c) /\ c.toks = T /\ c.pos = p /\ c.err = e /\ Depth(c) = Len(v)
  BY <1>1, <1>3, ReadsIs
<1> QED
  BY <1>2, <1>4 DEF c, e

\* The values of x come after those of c.
Brings(c, r, x, n) == ~x.err => \A j \in 1 .. n : Top(c, r, j) = x.vals[j]

\* What a call of c's position has returned is on top of c's values.
LEMMA ResumedAdds ==
  ASSUME NEW T, Size(T) \in Nat, NEW c, Reads(T, c), ~c.err, NEW x, NEW n \in Nat,
         Adds(T, StartAt(T, c.pos), x, n)
  PROVE  /\ Adds(T, c, Resume(c, x), n) /\ Resume(c, x).err = x.err /\ Resume(c, x).pos = x.pos
         /\ Brings(c, Resume(c, x), x, n)
<1> DEFINE p == c.pos
           v == c.vals
           d == Depth(c)
           q == x.pos
           e == x.err
           w == x.vals
           u == v \o w
           r == Resume(c, x)
           s == StartAt(T, p)
<1>1. /\ p \in 1 .. Size(T) /\ Stack(v) /\ d \in Nat /\ d = Len(v)
  BY ReadsHas
<1>2. s.pos = p /\ ~s.err /\ Depth(s) = 0
  BY <1>1, StartReads
<1>3. Reads(T, x) /\ s.pos <= q /\ (e \/ Depth(x) = Depth(s) + n)
  BY DEF Adds
<1>4. /\ IsCursor(x, T, q, e, w) /\ q \in 1 .. Size(T) /\ e \in BOOLEAN /\ Stack(w)
      /\ Depth(x) = Len(w)
  BY <1>3, ReadsHas
<1>5. r = [x EXCEPT !.vals = u]
  BY Zenon DEF Resume
<1>6. c.pos = p /\ c.vals = v /\ Depth(c) = d /\ x.pos = q /\ x.err = e /\ x.vals = w
  OBVIOUS
<1> HIDE DEF p, v, d, q, e, w, r, s
<1>7. /\ Stack(u) /\ Len(u) = d + Len(w) /\ \A i \in 1 .. d : u[i] = v[i]
      /\ \A i \in 1 .. Len(w) : u[d + i] = w[i]
  BY <1>1, <1>4, StackJoin
<1> HIDE DEF u
<1>8. IsCursor([x EXCEPT !.vals = u], T, q, e, u)
  <2>1. IsCursor(x, T, q, e, w)
    BY <1>4
  <2> QED
    BY <2>1, Edited
<1>9. IsCursor(r, T, q, e, u)
  BY <1>5, <1>8, Zenon
<1>10. Reads(T, r) /\ r.pos = q /\ r.err = e /\ r.vals = u /\ Depth(r) = Len(u)
  BY <1>4, <1>7, <1>9, ReadsIs
<1>11. p <= q /\ (e \/ Len(w) = n)
  BY <1>2, <1>3, <1>4
<1>12. e \/ Depth(r) = d + n
  BY <1>7, <1>10, <1>11
<1>13. Adds(T, c, r, n)
  BY <1>6, <1>7, <1>10, <1>11, <1>12, Zenon DEF Adds
<1>14. ~e => \A j \in 1 .. n : Top(c, r, j) = w[j]
  BY <1>6, <1>7, <1>10, <1>11, Zenon DEF Top
<1> QED
  BY <1>6, <1>10, <1>13, <1>14, Zenon DEF r, Brings

\* The call where a function has what is read from each position.
LEMMA CallAdds ==
  ASSUME NEW T, Size(T) \in Nat, NEW c, Reads(T, c), NEW read, NEW n \in Nat,
         ~c.err => Adds(T, StartAt(T, c.pos), read[c.pos], n)
  PROVE  /\ Adds(T, c, Call(c, read), n) /\ (~Call(c, read).err => ~c.err)
         /\ ~Call(c, read).err => \A j \in 1 .. n : Top(c, Call(c, read), j) = read[c.pos].vals[j]
         /\ ~Call(c, read).err => ~read[c.pos].err
<1>1. c.err \in BOOLEAN
  BY ReadsHas
<1>2. CASE c.err
  <2>1. Call(c, read) = c
    BY <1>2, Zenon DEF Call
  <2>2. c.pos <= c.pos
    BY ReadsHas
  <2> QED
    BY <1>2, <2>1, <2>2, Zenon DEF Adds
<1>3. CASE ~c.err
  <2>1. Call(c, read) = Resume(c, read[c.pos])
    BY <1>3, Zenon DEF Call
  <2> DEFINE x == read[c.pos]
             r == Resume(c, x)
  <2>2. Adds(T, StartAt(T, c.pos), x, n)
    BY <1>3
  <2> HIDE DEF x, r
  <2>3. Adds(T, c, Resume(c, x), n)
    BY <1>3, <2>2, ResumedAdds
  <2>4. Resume(c, x).err = x.err /\ Resume(c, x).pos = x.pos
    BY <1>3, <2>2, ResumedAdds
  <2>5. Brings(c, Resume(c, x), x, n)
    BY <1>3, <2>2, ResumedAdds
  <2> QED
    BY <1>3, <2>1, <2>3, <2>4, <2>5, Zenon DEF r, x, Brings
<1> QED
  BY <1>1, <1>2, <1>3

-----------------------------------------------------------------------------
(* What is read from each position.                                        *)

\* The four functions the parser has of the positions.
Reading(what, T, item, f, p) ==
  IF what = "items" THEN IF Sees(item[p], "COMMA") THEN Call(Advance(item[p]), f) ELSE item[p]
  ELSE IF what = "constraints"
  THEN IF Sees(StartAt(T, p), "PRIMARY") \/ Sees(StartAt(T, p), "NOT")
       THEN Call(Returns(ParseConstraint(StartAt(T, p)), Peek(StartAt(T, p)).kind), f)
       ELSE StartAt(T, p)
  ELSE IF what = "expression"
  THEN [minBP \in 0 .. 100 |-> ParseOperators(ParsePrefix(StartAt(T, p), f), minBP, f)]
  ELSE ParseStmt(StartAt(T, p), f)

\* What a list has been read of; the equation of a reading function.
Item(T, item, x) == \E q \in 1 .. Size(T) : ~item[q].err /\ x = item[q].vals[1]

\* What they return.
Good(what, T, item, p, x) ==
  IF what = "items"
  THEN \E n \in Nat : /\ Adds(T, StartAt(T, p), x, n)
                      /\ ~x.err => \A i \in 1 .. n : Item(T, item, x.vals[i])
  ELSE IF what = "constraints" THEN \E n \in Nat : Adds(T, StartAt(T, p), x, n)
  ELSE IF what = "expression" THEN \A m \in 0 .. 100 : Adds(T, StartAt(T, p), x[m], 1)
  ELSE Adds(T, StartAt(T, p), x, 1) /\ (~x.err => Stated(x.vals[1]))

\* Further on two of them are the same, and return what they should.
Agree(what, T, item, p, f, g) ==
  \A q \in p + 1 .. Size(T) : f[q] = g[q] /\ Good(what, T, item, q, f[q])

\* They depend on nothing but what is read further on.
LooksOn(what, T, item) ==
  \A p \in 1 .. Size(T) : \A f, g :
    Agree(what, T, item, p, f, g) =>
      /\ Reading(what, T, item, f, p) = Reading(what, T, item, g, p)
      /\ Good(what, T, item, p, Reading(what, T, item, f, p))

IsReading(what, T, item, h) ==
  h = [p \in 1 .. Size(T) |-> Reading(what, T, item, h, p)]

\* So there is such a function.
LEMMA ReadingIs ==
  ASSUME NEW what, NEW T, NEW item, Size(T) \in Nat, LooksOn(what, T, item)
  PROVE  \E h : IsReading(what, T, item, h)
<1> DEFINE N == Size(T)
           Step(f, p) == Reading(what, T, item, f, p)
           Fine(p, x) == Good(what, T, item, p, x)
           Behind(f, m) == \A p \in m .. N : f[p] = Step(f, p) /\ Fine(p, f[p])
           reach == {m \in 1 .. N + 1 : \E f : Behind(f, m)}
           Right(h) == h = [p \in 1 .. N |-> Step(h, p)]
<1>1. N \in Nat
  OBVIOUS
<1>2. ASSUME NEW p \in 1 .. N, NEW f, NEW g, \A q \in p + 1 .. N : f[q] = g[q] /\ Fine(q, f[q])
      PROVE  Step(f, p) = Step(g, p) /\ Fine(p, Step(f, p))
  <2>1. Agree(what, T, item, p, f, g)
    BY <1>2, Zenon DEF Agree
  <2> QED
    BY <2>1, Zenon DEF LooksOn
<1>9. SUFFICES \E h : Right(h)
  BY Zenon DEF IsReading
<1> HIDE DEF Step, Fine, N
<1>3. \E f : Behind(f, 1)
  <2>1. N + 1 \in reach
    BY <1>1
  <2>2. reach \in SUBSET Nat
    BY <1>1
  <2>3. PICK m \in reach : \A l \in reach : m <= l
    <3> HIDE DEF reach
    <3> QED
      BY <2>1, <2>2, LeastNat
  <2>4. PICK f : Behind(f, m)
    OBVIOUS
  <2>5. m = 1
    <3> SUFFICES ASSUME m # 1 PROVE FALSE
      OBVIOUS
    <3> DEFINE l == m - 1
               g == [p \in 1 .. N |-> IF p = l THEN Step(f, l) ELSE f[p]]
    <3>1. l \in 1 .. N /\ m = l + 1 /\ ~ (m <= l)
      BY <1>1
    <3> HIDE DEF l
    <3>2. \A q \in l + 1 .. N : g[q] = f[q]
      BY <1>1, <3>1
    <3>3. g[l] = Step(f, l)
      BY <3>1
    <3> HIDE DEF g
    <3>4. ASSUME NEW p \in l .. N PROVE g[p] = Step(g, p) /\ Fine(p, g[p])
      <4>1. p \in 1 .. N /\ \A q \in p + 1 .. N : q \in l + 1 .. N /\ q \in m .. N
        BY <1>1, <3>1
      <4>2. \A q \in p + 1 .. N : f[q] = g[q] /\ Fine(q, f[q])
        BY <2>4, <3>2, <4>1
      <4>4. Step(f, p) = Step(g, p) /\ Fine(p, Step(f, p))
        BY <1>2, <4>1, <4>2
      <4>3. g[p] = Step(f, p)
        <5>1. CASE p = l
          BY <3>3, <5>1
        <5>2. CASE p # l
          <6>1. p \in m .. N /\ p \in l + 1 .. N
            BY <1>1, <3>1, <5>2
          <6> QED
            BY <2>4, <3>2, <6>1
        <5> QED
          BY <5>1, <5>2
      <4> QED
        BY <4>3, <4>4
    <3>5. Behind(g, l)
      BY <3>4
    <3>6. l \in reach
      <4> HIDE DEF Behind
      <4>1. l \in 1 .. N + 1
        BY <1>1, <3>1
      <4> QED
        BY <3>5, <4>1
    <3> QED
      BY <2>3, <3>1, <3>6
  <2> QED
    BY <2>4, <2>5
<1>4. PICK f : Behind(f, 1)
  <2> HIDE DEF Behind
  <2> QED
    BY <1>3
<1> DEFINE g == [p \in 1 .. N |-> f[p]]
<1>5. ASSUME NEW p \in 1 .. N PROVE g[p] = Step(g, p)
  <2>1. f[p] = Step(f, p) /\ g[p] = f[p]
    BY <1>4
  <2>2. \A q \in p + 1 .. N : q \in 1 .. N
    BY <1>1
  <2>3. \A q \in p + 1 .. N : f[q] = g[q] /\ Fine(q, f[q])
    BY <1>4, <2>2
  <2> HIDE DEF g
  <2> QED
    BY <1>2, <2>1, <2>3
<1>6. Right(g)
  <2>1. g = [p \in 1 .. N |-> g[p]]
    OBVIOUS
  <2> HIDE DEF g
  <2> QED
    BY <1>5, <2>1
<1> QED
  <2> HIDE DEF Right, g
  <2> QED
    BY <1>6

\* And it returns what it should.
LEMMA ReadingGood ==
  ASSUME NEW what, NEW T, NEW item, Size(T) \in Nat, LooksOn(what, T, item),
         NEW h, IsReading(what, T, item, h)
  PROVE  \A p \in 1 .. Size(T) : Good(what, T, item, p, h[p])
<1> DEFINE N == Size(T)
           S == {p \in 1 .. N : Good(what, T, item, p, h[p])}
           At(p) == Reading(what, T, item, h, p)
<1>1. h = [p \in 1 .. N |-> At(p)]
  BY Zenon DEF IsReading
<1>2. ASSUME NEW p \in 1 .. N, \A q \in p + 1 .. N : q \in S
      PROVE  p \in S
  <2>1. h[p] = At(p)
    <3> HIDE DEF At
    <3> QED
      BY <1>1
  <2>2. Agree(what, T, item, p, h, h)
    BY <1>2, Zenon DEF Agree
  <2>3. Good(what, T, item, p, At(p))
    BY <2>2, Zenon DEF LooksOn
  <2> QED
    BY <2>1, <2>3, Zenon
<1>3. \A p \in 1 .. N : p \in S
  <2> HIDE DEF S
  <2> QED
    BY <1>2, Downwards
<1> QED
  BY <1>3

-----------------------------------------------------------------------------
(* Lists.                                                                  *)

LEMMA SeesAdvances ==
  ASSUME NEW T, IsToks(T), NEW c, Reads(T, c), NEW kind, Sees(c, kind), kind # "EOF"
  PROVE  /\ Adds(T, c, Advance(c), 0) /\ Reads(T, Advance(c)) /\ ~c.err /\ ~Advance(c).err
         /\ Advance(c).pos > c.pos
<1>1. ~c.err /\ Peek(c).kind # "EOF"
  BY SeesIs
<1>2. /\ Adds(T, c, Advance(c), 0) /\ Advance(c).err = c.err
      /\ Peek(c).kind # "EOF" => Advance(c).pos > c.pos
  BY AdvanceIs
<1> QED
  BY <1>1, <1>2 DEF Adds

LEMMA StackIn ==
  ASSUME NEW v, Stack(v), NEW S, \A i \in 1 .. Len(v) : v[i] \in S
  PROVE  v \in Seq(S)
<1> DEFINE n == Len(v)
<1>1. n \in Nat /\ v = [i \in 1 .. n |-> v[i]] /\ \A i \in 1 .. n : v[i] \in S
  BY StackIs
<1> HIDE DEF n
<1>2. v \in [1 .. n -> S]
  BY <1>1
<1> QED
  BY <1>1, <1>2, Listed

LEMMA EndAdds ==
  ASSUME NEW T, NEW c, Reads(T, c), NEW r, Reads(T, r), c.pos <= r.pos, r.err, NEW n
  PROVE  Adds(T, c, r, n)
BY DEF Adds

LEMMA StartTop ==
  ASSUME NEW T, NEW p \in 1 .. Size(T), NEW x
  PROVE  \A j \in Nat : Top(StartAt(T, p), x, j) = x.vals[j]
<1> DEFINE d == Depth(StartAt(T, p))
<1>1. d = 0 /\ \A j : Top(StartAt(T, p), x, j) = x.vals[d + j]
  BY StartReads DEF Top
<1> HIDE DEF d
<1>2. \A j \in Nat : d + j = j
  BY <1>1
<1> QED
  BY <1>1, <1>2

\* An item at each position.
IsItems(T, item) == \A p \in 1 .. Size(T) : Adds(T, StartAt(T, p), item[p], 1)

LEMMA ItemsLook ==
  ASSUME NEW T, IsToks(T), NEW item, IsItems(T, item)
  PROVE  LooksOn("items", T, item)
<1> SUFFICES ASSUME NEW p \in 1 .. Size(T), NEW f, NEW g, Agree("items", T, item, p, f, g)
             PROVE  /\ Reading("items", T, item, f, p) = Reading("items", T, item, g, p)
                    /\ Good("items", T, item, p, Reading("items", T, item, f, p))
  BY Zenon DEF LooksOn
<1> DEFINE s == StartAt(T, p)
           c == item[p]
           d == Advance(c)
           Is(n, x) == Adds(T, s, x, n) /\ (~x.err => \A i \in 1 .. n : Item(T, item, x.vals[i]))
<1>1. Size(T) \in Nat
  BY ToksHave
<1>2. Adds(T, s, c, 1) /\ Reads(T, c) /\ Reads(T, s) /\ s.pos = p /\ p <= c.pos /\ ~s.err
  <2>1. Adds(T, s, c, 1)
    BY DEF IsItems
  <2>2. s.pos = p /\ ~s.err
    BY StartReads
  <2> QED
    BY <2>1, <2>2 DEF Adds
<1>3. \A x, n : n \in Nat /\ Is(n, x) => Good("items", T, item, p, x)
  BY Zenon DEF Good
<1>4. \A j \in Nat : \A x : Top(s, x, j) = x.vals[j]
  BY StartTop
<1>5. CASE Sees(c, "COMMA")
  <2>1. /\ Reading("items", T, item, f, p) = Call(d, f)
        /\ Reading("items", T, item, g, p) = Call(d, g)
    BY <1>5, Zenon DEF Reading
  <2>2. Adds(T, c, d, 0) /\ Reads(T, d) /\ ~c.err /\ ~d.err /\ d.pos > c.pos
    <3>1. "COMMA" # "EOF"
      OBVIOUS
    <3> QED
      BY <1>2, <1>5, <3>1, SeesAdvances
  <2>3. d.pos \in p + 1 .. Size(T)
    <3>1. d.pos \in 1 .. Size(T) /\ c.pos \in 1 .. Size(T)
      BY <1>2, <2>2, ReadsHas
    <3> QED
      BY <1>1, <1>2, <2>2, <3>1
  <2>4. f[d.pos] = g[d.pos] /\ Good("items", T, item, d.pos, f[d.pos])
    BY <2>3 DEF Agree
  <2>5. Call(d, f) = Call(d, g)
    BY <2>4, Zenon DEF Call
  <2> DEFINE x == f[d.pos]
             r == Call(d, f)
  <2>6. PICK n \in Nat : /\ Adds(T, StartAt(T, d.pos), x, n)
                         /\ ~x.err => \A i \in 1 .. n : Item(T, item, x.vals[i])
    BY <2>4, Zenon DEF Good
  <2>7. /\ Adds(T, d, r, n)
        /\ ~r.err => \A j \in 1 .. n : Top(d, r, j) = x.vals[j]
        /\ ~r.err => ~x.err
    BY <1>1, <2>2, <2>6, CallAdds
  <2> HIDE DEF r, x, d, c, s
  <2>8. Adds(T, s, d, 1) /\ ~d.err /\ Top(s, d, 1) = Top(s, c, 1)
    <3>1. 1 \in Nat /\ 1 \in 1 .. 1
      OBVIOUS
    <3> QED
      BY <1>1, <1>2, <2>2, <3>1, Off
  <2>9. /\ Adds(T, s, r, 1 + n)
        /\ ~r.err => \A j \in 1 .. 1 : Top(s, r, j) = Top(s, d, j)
        /\ ~r.err => \A j \in 1 .. n : Top(s, r, 1 + j) = Top(d, r, j)
    <3>1. 1 \in Nat
      OBVIOUS
    <3> QED
      BY <1>1, <2>7, <2>8, <3>1, Chain
  <2>10. Item(T, item, Top(s, c, 1))
    <3>1. Top(s, c, 1) = c.vals[1]
      BY <1>4
    <3> QED
      BY <2>2, <3>1, Zenon DEF Item, c
  <2>11. ASSUME ~r.err, NEW i \in 1 .. 1 + n PROVE Item(T, item, r.vals[i])
    <3>1. i \in Nat /\ Top(s, r, i) = r.vals[i]
      BY <1>4
    <3>2. CASE i = 1
      <4>1. Top(s, r, 1) = Top(s, d, 1)
        <5>1. 1 \in 1 .. 1
          OBVIOUS
        <5> QED
          BY <2>9, <2>11, <5>1
      <4> QED
        BY <2>8, <2>10, <3>1, <3>2, <4>1
    <3>3. CASE i # 1
      <4> DEFINE j == i - 1
      <4>1. j \in 1 .. n /\ i = 1 + j
        BY <3>3
      <4> HIDE DEF j
      <4>2. Top(s, r, i) = Top(d, r, j) /\ Top(d, r, j) = x.vals[j]
        BY <2>7, <2>9, <2>11, <4>1
      <4>3. Item(T, item, x.vals[j])
        BY <2>6, <2>7, <2>11, <4>1
      <4> QED
        BY <3>1, <4>2, <4>3
    <3> QED
      BY <3>2, <3>3
  <2>12. 1 + n \in Nat
    OBVIOUS
  <2>13. Good("items", T, item, p, r)
    BY <1>3, <2>9, <2>11, <2>12
  <2> QED
    BY <2>1, <2>5, <2>13, Zenon DEF r
<1>6. CASE ~Sees(c, "COMMA")
  <2>1. /\ Reading("items", T, item, f, p) = c
        /\ Reading("items", T, item, g, p) = c
    BY <1>6, Zenon DEF Reading
  <2>2. ASSUME ~c.err, NEW i \in 1 .. 1 PROVE Item(T, item, c.vals[i])
    <3>1. i = 1
      OBVIOUS
    <3> QED
      BY <2>2, <3>1, Zenon DEF Item
  <2>3. 1 \in Nat
    OBVIOUS
  <2> HIDE DEF c, s
  <2>4. Good("items", T, item, p, c)
    BY <1>2, <1>3, <2>2, <2>3
  <2> QED
    BY <2>1, <2>4, Zenon
<1> QED
  BY <1>5, <1>6

LEMMA ItemsAre ==
  ASSUME NEW T, IsToks(T), NEW item, IsItems(T, item)
  PROVE  \A p \in 1 .. Size(T) : Good("items", T, item, p, Items(T, item)[p])
<1> DEFINE Right(h) == IsReading("items", T, item, h)
           h == Items(T, item)
<1>1. Size(T) \in Nat /\ LooksOn("items", T, item)
  BY ItemsLook, ToksHave
<1>2. \E r : Right(r)
  BY <1>1, ReadingIs
<1>3. h = CHOOSE r : Right(r)
  <2>1. 1 .. Size(T) = DOMAIN T
    BY DEF IsToks
  <2>2. h = CHOOSE r : r = [pos \in DOMAIN T |->
              IF Sees(item[pos], "COMMA") THEN Call(Advance(item[pos]), r) ELSE item[pos]]
    BY Zenon DEF Items
  <2>3. \A r : [pos \in DOMAIN T |->
              IF Sees(item[pos], "COMMA") THEN Call(Advance(item[pos]), r) ELSE item[pos]]
            = [p \in DOMAIN T |-> Reading("items", T, item, r, p)]
    BY Zenon DEF Reading
  <2>4. h = CHOOSE r : r = [p \in DOMAIN T |-> Reading("items", T, item, r, p)]
    BY <2>2, <2>3, Zenon
  <2> QED
    BY <2>1, <2>4, Zenon DEF IsReading
<1> HIDE DEF Right
<1>4. Right(h)
  BY <1>2, <1>3, Zenon
<1> HIDE DEF h
<1> QED
  BY <1>1, <1>4, ReadingGood DEF h, Right

\* What a call has returned, as one value.
Gathering(c, all, x) == Made(all, Len(all.vals) - Len(c.vals), x)
LEMMA Gathered ==
  ASSUME NEW T, Size(T) \in Nat, NEW c, NEW all, NEW n \in Nat, Adds(T, c, all, n), NEW x
  PROVE  /\ Adds(T, c, Gathering(c, all, x), 1) /\ Gathering(c, all, x).err = all.err
         /\ ~all.err => Top(c, Gathering(c, all, x), 1) = x
         /\ ~all.err => Len(all.vals) - Len(c.vals) = n
<1> DEFINE k == Len(all.vals) - Len(c.vals)
           r == Gathering(c, all, x)
<1>1. Reads(T, c) /\ Reads(T, all) /\ c.pos <= all.pos /\ all.err \in BOOLEAN
  BY ReadsHas DEF Adds
<1>2. CASE all.err
  <2>1. r = all
    BY <1>2, Zenon DEF Made, Gathering
  <2>2. Adds(T, c, all, 1)
    BY <1>1, <1>2, EndAdds
  <2> QED
    BY <1>2, <2>1, <2>2
<1>3. CASE ~all.err
  <2>1. k = n
    <3>1. Depth(all) = Depth(c) + n
      BY <1>3 DEF Adds
    <3>2. Depth(c) \in Nat /\ Depth(c) = Len(c.vals) /\ Depth(all) = Len(all.vals)
      BY <1>1, ReadsHas
    <3> QED
      BY <3>1, <3>2
  <2>2. r = Made(all, n, x)
    BY <2>1, Zenon DEF Gathering
  <2> HIDE DEF r, k
  <2>3. /\ Adds(T, c, Made(all, n, x), 1) /\ Made(all, n, x).err = all.err
        /\ ~all.err => Top(c, Made(all, n, x), 1) = x
    BY MadeAdds
  <2> QED
    BY <1>3, <2>1, <2>2, <2>3, Zenon DEF r, k
<1> QED
  BY <1>1, <1>2, <1>3

LEMMA ListAdds ==
  ASSUME NEW T, IsToks(T), NEW item, IsItems(T, item), NEW c, Reads(T, c)
  PROVE  /\ Adds(T, c, ParseList(c, item), 1)
         /\ ~ParseList(c, item).err =>
              /\ Stack(Top(c, ParseList(c, item), 1))
              /\ \A i \in 1 .. Len(Top(c, ParseList(c, item), 1)) :
                   Item(T, item, Top(c, ParseList(c, item), 1)[i])
<1> DEFINE read == Items(T, item)
           all == Call(c, read)
           k == Len(all.vals) - Len(c.vals)
           x == Latest(all, k)
           r == Gathering(c, all, x)
           l == ParseList(c, item)
<1>1. c.toks = T /\ c.pos \in 1 .. Size(T) /\ Size(T) \in Nat
  BY ReadsHas, ToksHave
<1>2. l = r
  BY <1>1, Zenon DEF ParseList, Gathers, Makes, Made, Gathering
<1>3. Good("items", T, item, c.pos, read[c.pos])
  BY <1>1, ItemsAre
<1> HIDE DEF read
<1>4. PICK n \in Nat :
        /\ Adds(T, StartAt(T, c.pos), read[c.pos], n)
        /\ ~read[c.pos].err => \A i \in 1 .. n : Item(T, item, read[c.pos].vals[i])
  BY <1>3, Zenon DEF Good
<1>5. /\ Adds(T, c, all, n)
      /\ ~all.err => \A j \in 1 .. n : Top(c, all, j) = read[c.pos].vals[j]
      /\ ~all.err => ~read[c.pos].err
  BY <1>1, <1>4, CallAdds
<1> HIDE DEF all, l
<1>6. /\ Adds(T, c, r, 1) /\ r.err = all.err /\ (~r.err => Top(c, r, 1) = x)
      /\ ~all.err => k = n
  <2> HIDE DEF x, r, k
  <2>1. Adds(T, c, all, n) /\ Size(T) \in Nat
    BY <1>1, <1>5
  <2>2. /\ Adds(T, c, Gathering(c, all, x), 1) /\ Gathering(c, all, x).err = all.err
        /\ ~all.err => Top(c, Gathering(c, all, x), 1) = x
        /\ ~all.err => Len(all.vals) - Len(c.vals) = n
    BY <2>1, Gathered
  <2> QED
    BY <2>2, Zenon DEF r, k
<1>7. ASSUME ~r.err
      PROVE  /\ Stack(x) /\ \A i \in 1 .. Len(x) : Item(T, item, x[i])
  <2>1. ~all.err /\ k = n
    BY <1>6, <1>7
  <2>2. x = Latest(all, n)
    BY <2>1, Zenon
  <2> HIDE DEF x, r, k
  <2>3. /\ Stack(Latest(all, n)) /\ Len(Latest(all, n)) = n
        /\ \A j \in 1 .. n : Latest(all, n)[j] = Top(c, all, j)
    BY <1>1, <1>5, <2>1, MadeAdds
  <2>4. Stack(x) /\ Len(x) = n /\ \A j \in 1 .. n : x[j] = Top(c, all, j)
    BY <2>2, <2>3, Zenon
  <2> QED
    BY <1>4, <1>5, <2>1, <2>4
<1> HIDE DEF r, x, k
<1>8. ~r.err => Top(c, r, 1) = x
  BY <1>6
<1>9. ~r.err => /\ Stack(Top(c, r, 1)) /\ \A i \in 1 .. Len(Top(c, r, 1)) : Item(T, item, Top(c, r, 1)[i])
  BY <1>7, <1>8, Zenon
<1> QED
  BY <1>2, <1>6, <1>9, Zenon DEF l

-----------------------------------------------------------------------------
(* Constraints, columns and names.                                         *)

LEMMA ConstraintAdds ==
  ASSUME NEW T, IsToks(T), NEW c, Reads(T, c)
  PROVE  Adds(T, c, ParseConstraint(c), 0)
<1> DEFINE d == Advance(c)
           kind == IF Sees(c, "PRIMARY") THEN "KEY" ELSE "NULL"
           r == Skip(d, kind)
<1>1. ParseConstraint(c) = r
  BY Zenon DEF ParseConstraint
<1>2. Adds(T, c, d, 0) /\ Reads(T, d)
  BY AdvanceIs DEF Adds
<1> HIDE DEF d, kind
<1>3. Adds(T, d, r, 0)
  BY <1>2, SkipAdds
<1> HIDE DEF r
<1>4. Adds(T, c, r, 0)
  <2>1. 0 \in Nat
    OBVIOUS
  <2> QED
    BY <1>2, <1>3, <2>1, On, ToksHave
<1> QED
  BY <1>1, <1>4

\* A constraint uses a token at least.
LEMMA ConstraintMoves ==
  ASSUME NEW T, IsToks(T), NEW c, Reads(T, c), Sees(c, "PRIMARY") \/ Sees(c, "NOT")
  PROVE  ParseConstraint(c).pos > c.pos
<1> DEFINE d == Advance(c)
           kind == IF Sees(c, "PRIMARY") THEN "KEY" ELSE "NULL"
           r == Skip(d, kind)
<1>1. ParseConstraint(c) = r
  BY Zenon DEF ParseConstraint
<1>2. Reads(T, d) /\ d.pos > c.pos
  <2>1. "PRIMARY" # "EOF" /\ "NOT" # "EOF"
    OBVIOUS
  <2> QED
    BY <2>1, SeesAdvances
<1> HIDE DEF d, kind
<1>3. Adds(T, d, r, 0)
  BY <1>2, SkipAdds
<1> HIDE DEF r
<1>4. d.pos <= r.pos /\ Reads(T, r)
  BY <1>3 DEF Adds
<1>5. c.pos \in Nat /\ d.pos \in Nat /\ r.pos \in Nat
  <2>1. c.pos \in 1 .. Size(T) /\ d.pos \in 1 .. Size(T) /\ r.pos \in 1 .. Size(T) /\ Size(T) \in Nat
    BY <1>2, <1>4, ReadsHas, ToksHave
  <2> QED
    BY <2>1
<1> QED
  BY <1>1, <1>2, <1>4, <1>5

LEMMA ConstraintsLook ==
  ASSUME NEW T, IsToks(T), NEW item
  PROVE  LooksOn("constraints", T, item)
<1> SUFFICES ASSUME NEW p \in 1 .. Size(T), NEW f, NEW g, Agree("constraints", T, item, p, f, g)
             PROVE  /\ Reading("constraints", T, item, f, p) = Reading("constraints", T, item, g, p)
                    /\ Good("constraints", T, item, p, Reading("constraints", T, item, f, p))
  BY Zenon DEF LooksOn
<1> DEFINE c == StartAt(T, p)
           x == Peek(c).kind
           d == ParseConstraint(c)
           e == Returns(d, x)
           a == Call(e, f)
           b == Call(e, g)
           q == e.pos
<1>1. Size(T) \in Nat /\ Reads(T, c) /\ c.pos = p /\ ~c.err
  BY StartReads, ToksHave
<1>2. \A y, n : n \in Nat /\ Adds(T, c, y, n) => Good("constraints", T, item, p, y)
  <2>1. "constraints" # "items"
    OBVIOUS
  <2> QED
    BY <2>1, Zenon DEF Good
<1>3. CASE Sees(c, "PRIMARY") \/ Sees(c, "NOT")
  <2>1. /\ Reading("constraints", T, item, f, p) = a
        /\ Reading("constraints", T, item, g, p) = b
    <3>1. "constraints" # "items"
      OBVIOUS
    <3> QED
      BY <1>3, <3>1, Zenon DEF Reading
  <2>2. Adds(T, c, d, 0) /\ Reads(T, d) /\ d.pos > c.pos
    BY <1>1, <1>3, ConstraintAdds, ConstraintMoves DEF Adds
  <2> HIDE DEF c, d, x
  <2>3. Adds(T, d, e, 1) /\ Reads(T, e) /\ d.pos <= e.pos
    BY <1>1, <2>2, ReturnsAdds DEF Adds
  <2> HIDE DEF e
  <2>4. q \in p + 1 .. Size(T)
    <3>1. c.pos \in 1 .. Size(T) /\ d.pos \in 1 .. Size(T) /\ q \in 1 .. Size(T)
      BY <1>1, <2>2, <2>3, ReadsHas
    <3> QED
      BY <1>1, <2>2, <2>3, <3>1
  <2> HIDE DEF q
  <2>5. f[q] = g[q] /\ Good("constraints", T, item, q, f[q])
    BY <2>4 DEF Agree
  <2>6. a = b
    BY <2>5, Zenon DEF Call, q
  <2>7. PICK n \in Nat : Adds(T, StartAt(T, q), f[q], n)
    <3>1. "constraints" # "items"
      OBVIOUS
    <3> QED
      BY <2>5, <3>1, Zenon DEF Good
  <2>8. Adds(T, e, a, n)
    BY <1>1, <2>3, <2>7, CallAdds DEF q
  <2> HIDE DEF a, b
  <2>9. Adds(T, c, e, 1)
    <3>1. 1 \in Nat
      OBVIOUS
    <3> QED
      BY <1>1, <2>2, <2>3, <3>1, On
  <2>10. Adds(T, c, a, 1 + n) /\ 1 + n \in Nat
    <3>1. 1 \in Nat
      OBVIOUS
    <3> QED
      BY <1>1, <2>8, <2>9, <3>1, Chain
  <2> QED
    BY <1>2, <2>1, <2>6, <2>10
<1>4. CASE ~ (Sees(c, "PRIMARY") \/ Sees(c, "NOT"))
  <2>1. /\ Reading("constraints", T, item, f, p) = c
        /\ Reading("constraints", T, item, g, p) = c
    <3>1. "constraints" # "items"
      OBVIOUS
    <3> QED
      BY <1>4, <3>1, Zenon DEF Reading
  <2> HIDE DEF c
  <2>2. Adds(T, c, c, 0) /\ 0 \in Nat
    BY <1>1, SameAdds
  <2> QED
    BY <1>2, <2>1, <2>2
<1> QED
  BY <1>3, <1>4

LEMMA ConstraintsAre ==
  ASSUME NEW T, IsToks(T)
  PROVE  \A p \in 1 .. Size(T) : Good("constraints", T, T, p, Constraints(T)[p])
<1> DEFINE Right(h) == IsReading("constraints", T, T, h)
           h == Constraints(T)
<1>1. Size(T) \in Nat /\ LooksOn("constraints", T, T)
  BY ConstraintsLook, ToksHave
<1>2. \E r : Right(r)
  BY <1>1, ReadingIs
<1>3. h = CHOOSE r : Right(r)
  <2>1. 1 .. Size(T) = DOMAIN T
    BY DEF IsToks
  <2> DEFINE One(r, pos) ==
               IF Sees(StartAt(T, pos), "PRIMARY") \/ Sees(StartAt(T, pos), "NOT")
               THEN Call(Returns(ParseConstraint(StartAt(T, pos)), Peek(StartAt(T, pos)).kind), r)
               ELSE StartAt(T, pos)
  <2>2. h = CHOOSE r : r = [pos \in DOMAIN T |-> One(r, pos)]
    BY Zenon DEF Constraints
  <2>3. \A r, p : One(r, p) = Reading("constraints", T, T, r, p)
    <3>1. "constraints" # "items"
      OBVIOUS
    <3> QED
      BY <3>1, Zenon DEF Reading
  <2> HIDE DEF One
  <2>5. \A r : [pos \in DOMAIN T |-> One(r, pos)]
                 = [p \in DOMAIN T |-> Reading("constraints", T, T, r, p)]
    BY <2>3, Zenon
  <2>4. h = CHOOSE r : r = [p \in DOMAIN T |-> Reading("constraints", T, T, r, p)]
    BY <2>2, <2>5, Zenon
  <2> QED
    BY <2>1, <2>4, Zenon DEF IsReading
<1> HIDE DEF Right
<1>4. Right(h)
  BY <1>2, <1>3, Zenon
<1> HIDE DEF h
<1> QED
  BY <1>1, <1>4, ReadingGood DEF h, Right

LEMMA ConstraintsAdds ==
  ASSUME NEW T, IsToks(T), NEW c, Reads(T, c)
  PROVE  Adds(T, c, ParseConstraints(c), 1)
<1> DEFINE read == Constraints(T)
           all == Call(c, read)
           k == Len(all.vals) - Len(c.vals)
           x == ToSet(Latest(all, k))
           r == Gathering(c, all, x)
<1>1. c.toks = T /\ c.pos \in 1 .. Size(T) /\ Size(T) \in Nat
  BY ReadsHas, ToksHave
<1>2. ParseConstraints(c) = r
  BY <1>1, Zenon DEF ParseConstraints, Makes, Made, Gathering
<1>3. Good("constraints", T, T, c.pos, read[c.pos])
  BY <1>1, ConstraintsAre
<1> HIDE DEF read
<1>4. PICK n \in Nat : Adds(T, StartAt(T, c.pos), read[c.pos], n)
  <2>1. "constraints" # "items"
    OBVIOUS
  <2> QED
    BY <1>3, <2>1, Zenon DEF Good
<1>5. Adds(T, c, all, n)
  BY <1>1, <1>4, CallAdds
<1> HIDE DEF all, x
<1>6. Adds(T, c, r, 1)
  BY <1>1, <1>5, Gathered
<1> QED
  BY <1>2, <1>6

LEMMA ColumnDefAdds ==
  ASSUME NEW T, IsToks(T), NEW c, Reads(T, c)
  PROVE  /\ Adds(T, c, ParseColumnDef(c), 1)
         /\ ~ParseColumnDef(c).err => Top(c, ParseColumnDef(c), 1) \in Columns
<1> DEFINE d == ParseName(c)
           e == ParseName(d)
           a == ParseConstraints(e)
           v == Latest(a, 3)
           x == [name |-> v[1], type |-> v[2], primaryKey |-> "PRIMARY" \in v[3],
                 notNull |-> "NOT" \in v[3]]
           r == Made(a, 3, x)
<1>1. ParseColumnDef(c) = r
  BY Zenon DEF ParseColumnDef, Makes, Made
<1>2. Size(T) \in Nat /\ 1 \in Nat /\ 2 \in Nat /\ 3 \in Nat /\ 1 + 1 = 2 /\ 2 + 1 = 3
  BY ToksHave
<1>3. Adds(T, c, d, 1) /\ Reads(T, d) /\ (~d.err => Top(c, d, 1) \in Texts)
  BY NameAdds DEF Adds
<1> HIDE DEF d
<1>4. Adds(T, d, e, 1) /\ Reads(T, e) /\ (~e.err => Top(d, e, 1) \in Texts)
  BY <1>3, NameAdds DEF Adds
<1> HIDE DEF e
<1>5. Adds(T, e, a, 1)
  BY <1>4, ConstraintsAdds
<1> HIDE DEF a
<1>6. /\ Adds(T, c, e, 2) /\ (~e.err => ~d.err)
      /\ ~e.err => Top(c, e, 1) = Top(c, d, 1) /\ Top(c, e, 2) = Top(d, e, 1)
  <2>1. /\ Adds(T, c, e, 1 + 1) /\ (~e.err => ~d.err)
        /\ ~e.err => \A j \in 1 .. 1 : Top(c, e, j) = Top(c, d, j)
        /\ ~e.err => Top(c, e, 1 + 1) = Top(d, e, 1)
    BY <1>2, <1>3, <1>4, Plus
  <2>2. 1 \in 1 .. 1
    OBVIOUS
  <2> QED
    BY <1>2, <2>1, <2>2
<1>7. /\ Adds(T, c, a, 3) /\ (~a.err => ~e.err)
      /\ ~a.err => Top(c, a, 1) = Top(c, e, 1) /\ Top(c, a, 2) = Top(c, e, 2)
  <2>1. /\ Adds(T, c, a, 2 + 1) /\ (~a.err => ~e.err)
        /\ ~a.err => \A j \in 1 .. 2 : Top(c, a, j) = Top(c, e, j)
    BY <1>2, <1>5, <1>6, Plus
  <2>2. 1 \in 1 .. 2 /\ 2 \in 1 .. 2
    OBVIOUS
  <2> QED
    BY <1>2, <2>1, <2>2
<1>8. /\ Adds(T, c, r, 1) /\ r.err = a.err /\ (~a.err => Top(c, r, 1) = x)
      /\ ~a.err => \A j \in 1 .. 3 : v[j] = Top(c, a, j)
  <2> HIDE DEF x
  <2> QED
    BY <1>2, <1>7, MadeAdds
<1>9. ASSUME ~a.err PROVE x \in Columns
  <2>1. 1 \in 1 .. 3 /\ 2 \in 1 .. 3
    OBVIOUS
  <2>2. v[1] \in Texts /\ v[2] \in Texts
    BY <1>3, <1>4, <1>6, <1>7, <1>8, <1>9, <2>1
  <2> HIDE DEF v
  <2> QED
    BY <2>2 DEF Columns
<1> HIDE DEF x, r
<1> QED
  BY <1>1, <1>8, <1>9

-----------------------------------------------------------------------------
(* Lists in parentheses.                                                   *)

LEMMA ItemsOf ==
  ASSUME NEW T, IsToks(T), NEW item, NEW S,
         \A p \in 1 .. Size(T) : /\ Adds(T, StartAt(T, p), item[p], 1)
                                 /\ ~item[p].err => Top(StartAt(T, p), item[p], 1) \in S
  PROVE  IsItems(T, item) /\ \A x : Item(T, item, x) => x \in S
<1>1. \A p \in 1 .. Size(T) : Top(StartAt(T, p), item[p], 1) = item[p].vals[1]
  <2>1. 1 \in Nat
    OBVIOUS
  <2> QED
    BY <2>1, StartTop
<1> QED
  BY <1>1 DEF IsItems, Item

LEMMA ParenthesisedAdds ==
  ASSUME NEW T, IsToks(T), NEW item, IsItems(T, item), NEW c, Reads(T, c)
  PROVE  /\ Adds(T, c, Parenthesised(c, item), 1)
         /\ ~Parenthesised(c, item).err =>
              /\ Stack(Top(c, Parenthesised(c, item), 1))
              /\ \A i \in 1 .. Len(Top(c, Parenthesised(c, item), 1)) :
                   Item(T, item, Top(c, Parenthesised(c, item), 1)[i])
<1> DEFINE d == Skip(c, "LPAREN")
           e == ParseList(d, item)
           r == Skip(e, "RPAREN")
           Listing(v) == Stack(v) /\ \A i \in 1 .. Len(v) : Item(T, item, v[i])
<1>1. Parenthesised(c, item) = r
  BY Zenon DEF Parenthesised
<1>2. Size(T) \in Nat /\ 1 \in Nat /\ 1 \in 1 .. 1
  BY ToksHave
<1>3. Adds(T, c, d, 0) /\ Reads(T, d)
  BY SkipAdds DEF Adds
<1> HIDE DEF d
<1>4. Adds(T, d, e, 1) /\ Reads(T, e) /\ (~e.err => Listing(Top(d, e, 1)))
  BY <1>3, ListAdds DEF Adds
<1> HIDE DEF e, Listing
<1>5. Adds(T, e, r, 0)
  BY <1>4, SkipAdds
<1> HIDE DEF r
<1>6. Adds(T, c, e, 1) /\ (~e.err => Top(c, e, 1) = Top(d, e, 1))
  BY <1>2, <1>3, <1>4, On
<1>7. Adds(T, c, r, 1) /\ (~r.err => ~e.err) /\ (~r.err => Top(c, r, 1) = Top(c, e, 1))
  BY <1>2, <1>5, <1>6, Off
<1>8. ~r.err => Listing(Top(c, r, 1))
  BY <1>4, <1>6, <1>7
<1> QED
  BY <1>1, <1>7, <1>8, Zenon DEF Listing

LEMMA NamesAdds ==
  ASSUME NEW T, IsToks(T), NEW c, Reads(T, c)
  PROVE  /\ Adds(T, c, ParseNames(c), 1)
         /\ ~ParseNames(c).err => Top(c, ParseNames(c), 1) \in Seq(Texts)
<1> DEFINE item == Everywhere(T, ParseName)
           r == Parenthesised(c, item)
           v == Top(c, r, 1)
<1>1. c.toks = T /\ DOMAIN T = 1 .. Size(T)
  BY ReadsHas DEF IsToks
<1>2. ParseNames(c) = r
  BY <1>1, Zenon DEF ParseNames
<1>3. \A p \in 1 .. Size(T) : item[p] = ParseName(StartAt(T, p))
  BY <1>1, Zenon DEF Everywhere
<1> HIDE DEF item
<1>4. \A p \in 1 .. Size(T) : /\ Adds(T, StartAt(T, p), item[p], 1)
                              /\ ~item[p].err => Top(StartAt(T, p), item[p], 1) \in Texts
  <2> SUFFICES ASSUME NEW p \in 1 .. Size(T)
               PROVE  /\ Adds(T, StartAt(T, p), item[p], 1)
                      /\ ~item[p].err => Top(StartAt(T, p), item[p], 1) \in Texts
    OBVIOUS
  <2>1. Reads(T, StartAt(T, p))
    BY StartReads
  <2>2. /\ Adds(T, StartAt(T, p), ParseName(StartAt(T, p)), 1)
        /\ ~ParseName(StartAt(T, p)).err =>
             Top(StartAt(T, p), ParseName(StartAt(T, p)), 1) \in Texts
    BY <2>1, NameAdds
  <2> QED
    BY <1>3, <2>2, Zenon
<1>5. IsItems(T, item) /\ \A x : Item(T, item, x) => x \in Texts
  BY <1>4, ItemsOf
<1>6. Adds(T, c, r, 1) /\ (~r.err => Stack(v) /\ \A i \in 1 .. Len(v) : Item(T, item, v[i]))
  BY <1>5, ParenthesisedAdds
<1> HIDE DEF r, v
<1>7. ~r.err => v \in Seq(Texts)
  BY <1>5, <1>6, StackIn
<1> QED
  BY <1>2, <1>6, <1>7 DEF v

-----------------------------------------------------------------------------
(* Expressions.                                                            *)

LEMMA ColumnRefAdds ==
  ASSUME NEW T, IsToks(T), NEW c, Reads(T, c)
  PROVE  Adds(T, Advance(c), ParseColumnRef(c), 1)
<1> DEFINE name == Peek(c).text
           d == Advance(c)
           e == Advance(d)
           a == Advance(e)
           b == ParseName(e)
           r == ParseColumnRef(c)
<1>1. Size(T) \in Nat /\ 1 \in Nat
  BY ToksHave
<1>2. Reads(T, d)
  BY AdvanceIs DEF Adds
<1>3. CASE ~Sees(d, "DOT")
  <2> DEFINE x == ColumnRef(<< >>, name)
  <2>1. r = Returns(d, x)
    BY <1>3, Zenon DEF ParseColumnRef
  <2> HIDE DEF d, x, r
  <2>2. Adds(T, d, r, 1)
    BY <1>1, <1>2, <2>1, ReturnsAdds
  <2> QED
    BY <2>2, Zenon DEF d, r
<1>4. CASE Sees(d, "DOT") /\ Sees(e, "STAR")
  <2> DEFINE x == Star(name)
  <2>1. r = Returns(a, x)
    BY <1>4, Zenon DEF ParseColumnRef
  <2> HIDE DEF d, x, r
  <2>2. Adds(T, d, e, 0) /\ Reads(T, e)
    BY <1>2, AdvanceIs DEF Adds
  <2> HIDE DEF e
  <2>3. Adds(T, e, a, 0) /\ Reads(T, a)
    BY <2>2, AdvanceIs DEF Adds
  <2> HIDE DEF a
  <2>4. Adds(T, a, r, 1)
    BY <1>1, <2>1, <2>3, ReturnsAdds
  <2>5. Adds(T, e, r, 1)
    BY <1>1, <2>3, <2>4, On
  <2>6. Adds(T, d, r, 1)
    BY <1>1, <2>2, <2>5, On
  <2> QED
    BY <2>6, Zenon DEF d, r
<1>5. CASE Sees(d, "DOT") /\ ~Sees(e, "STAR")
  <2> DEFINE x == ColumnRef(name, Latest(b, 1)[1])
  <2>1. r = Made(b, 1, x)
    BY <1>5, Zenon DEF ParseColumnRef, Makes, Made
  <2> HIDE DEF d, x, r
  <2>2. Adds(T, d, e, 0) /\ Reads(T, e)
    BY <1>2, AdvanceIs DEF Adds
  <2> HIDE DEF e
  <2>3. Adds(T, e, b, 1)
    BY <2>2, NameAdds
  <2> HIDE DEF b
  <2>4. Adds(T, d, b, 1)
    BY <1>1, <2>2, <2>3, On
  <2>5. Adds(T, d, r, 1)
    BY <1>1, <2>1, <2>4, MadeAdds
  <2> QED
    BY <2>5, Zenon DEF d, r
<1> QED
  BY <1>3, <1>4, <1>5

\* What is read further on, with two functions.
Alike(T, p, f, g) == Agree("expression", T, T, p, f, g)

LEMMA InnerAdds ==
  ASSUME NEW T, IsToks(T), NEW p \in 0 .. Size(T), NEW f, NEW g, Alike(T, p, f, g),
         NEW c, Reads(T, c), c.err \/ c.pos > p, NEW m \in 0 .. 100
  PROVE  Inner(c, m, f) = Inner(c, m, g) /\ Adds(T, c, Inner(c, m, f), 1)
<1>1. c.err \in BOOLEAN /\ c.pos \in 1 .. Size(T) /\ Size(T) \in Nat /\ 1 \in Nat
  BY ReadsHas, ToksHave
<1>2. CASE c.err
  <2>1. Inner(c, m, f) = c /\ Inner(c, m, g) = c
    BY <1>2, Zenon DEF Inner
  <2>2. c.pos <= c.pos
    BY <1>1
  <2>3. Adds(T, c, c, 1)
    BY <1>2, <2>2, EndAdds
  <2> QED
    BY <2>1, <2>3
<1>3. CASE ~c.err
  <2> DEFINE q == c.pos
             x == f[q][m]
  <2>1. q \in p + 1 .. Size(T)
    BY <1>1, <1>3
  <2> HIDE DEF q
  <2>2. f[q] = g[q] /\ Good("expression", T, T, q, f[q])
    BY <2>1 DEF Agree, Alike
  <2>3. Inner(c, m, f) = Resume(c, x) /\ Inner(c, m, g) = Resume(c, x)
    BY <1>3, <2>2, Zenon DEF Inner, q
  <2>4. Adds(T, StartAt(T, q), x, 1)
    <3>1. "expression" \notin {"items", "constraints"}
      OBVIOUS
    <3> QED
      BY <2>2, <3>1, Zenon DEF Good
  <2> HIDE DEF x
  <2>5. Adds(T, c, Resume(c, x), 1)
    BY <1>1, <1>3, <2>4, ResumedAdds DEF q
  <2> QED
    BY <2>3, <2>5
<1> QED
  BY <1>1, <1>2, <1>3

\* Tokens an expression begins with.
LiteralKinds == {"INT", "FLOAT", "STRING", "NULL"}
SignKinds == {"MINUS", "NOT"}

LEMMA PrefixCases ==
  ASSUME NEW c, NEW read
  PROVE  LET kind == Peek(c).kind
             a == Inner(Advance(c), PrefixBP(kind), read)
         IN
         /\ kind = "IDENT" => ParsePrefix(c, read) = ParseColumnRef(c)
         /\ kind \in LiteralKinds =>
              ParsePrefix(c, read) = Returns(Advance(c), Literal(kind, Peek(c).text))
         /\ kind = "LPAREN" =>
              ParsePrefix(c, read) = Skip(Inner(Advance(c), 0, read), "RPAREN")
         /\ kind \in SignKinds => ParsePrefix(c, read) = Made(a, 1, Unary(kind, Latest(a, 1)[1]))
         /\ kind \notin {"IDENT", "LPAREN"} \cup LiteralKinds \cup SignKinds =>
              ParsePrefix(c, read) = Failed(c)
<1> DEFINE kind == Peek(c).kind
           a == Inner(Advance(c), PrefixBP(kind), read)
<1>1. ASSUME kind = "IDENT" PROVE ParsePrefix(c, read) = ParseColumnRef(c)
  <2>1. kind \notin LiteralKinds /\ kind # "LPAREN" /\ kind \notin SignKinds
    BY <1>1 DEF LiteralKinds, SignKinds
  <2> QED
    BY <1>1, <2>1, Zenon DEF ParsePrefix, LiteralKinds, SignKinds
<1>2. ASSUME kind \in LiteralKinds
      PROVE  ParsePrefix(c, read) = Returns(Advance(c), Literal(kind, Peek(c).text))
  <2>1. kind # "IDENT" /\ kind # "LPAREN" /\ kind \notin SignKinds
    BY <1>2 DEF LiteralKinds, SignKinds
  <2> QED
    BY <1>2, <2>1, Zenon DEF ParsePrefix, LiteralKinds, SignKinds
<1>3. ASSUME kind = "LPAREN"
      PROVE  ParsePrefix(c, read) = Skip(Inner(Advance(c), 0, read), "RPAREN")
  <2>1. kind # "IDENT" /\ kind \notin LiteralKinds /\ kind \notin SignKinds
    BY <1>3 DEF LiteralKinds, SignKinds
  <2> QED
    BY <1>3, <2>1, Zenon DEF ParsePrefix, LiteralKinds, SignKinds
<1>4. ASSUME kind \in SignKinds
      PROVE  ParsePrefix(c, read) = Made(a, 1, Unary(kind, Latest(a, 1)[1]))
  <2>1. kind # "IDENT" /\ kind \notin LiteralKinds /\ kind # "LPAREN"
    BY <1>4 DEF LiteralKinds, SignKinds
  <2>2. ParsePrefix(c, read) = Makes(a, 1, LAMBDA v : Unary(kind, v[1]))
    BY <1>4, <2>1, Zenon DEF ParsePrefix, LiteralKinds, SignKinds
  <2> QED
    BY <2>2, Zenon DEF Makes, Made
<1>5. ASSUME kind \notin {"IDENT", "LPAREN"} \cup LiteralKinds \cup SignKinds
      PROVE  ParsePrefix(c, read) = Failed(c)
  <2>1. kind # "IDENT" /\ kind \notin LiteralKinds /\ kind # "LPAREN" /\ kind \notin SignKinds
    BY <1>5
  <2> QED
    BY <2>1, Zenon DEF ParsePrefix, LiteralKinds, SignKinds
<1> QED
  BY <1>1, <1>2, <1>3, <1>4, <1>5

\* From p on r has been read with the one function, s with the other.
ReadAlike(T, p, r, s) == r = s /\ Adds(T, StartAt(T, p), r, 1) /\ (r.err \/ r.pos > p)

LEMMA PrefixAdds ==
  ASSUME NEW T, IsToks(T), NEW p \in 1 .. Size(T), NEW f, NEW g, Alike(T, p, f, g)
  PROVE  ReadAlike(T, p, ParsePrefix(StartAt(T, p), f), ParsePrefix(StartAt(T, p), g))
<1> DEFINE c == StartAt(T, p)
           kind == Peek(c).kind
           d == Advance(c)
           r == ParsePrefix(c, f)
           s == ParsePrefix(c, g)
           bp == PrefixBP(kind)
<1>1. Size(T) \in Nat /\ 1 \in Nat /\ Reads(T, c) /\ c.pos = p /\ ~c.err /\ p \in 0 .. Size(T)
  BY ToksHave, StartReads
<1>2. Adds(T, c, d, 0) /\ Reads(T, d) /\ (kind # "EOF" => d.pos > p)
  BY <1>1, AdvanceIs DEF Adds
<1>3. ASSUME r = s, kind # "EOF", Adds(T, d, r, 1)
      PROVE  ReadAlike(T, p, r, s)
  <2> HIDE DEF c, d, r, s, kind
  <2>1. Adds(T, c, r, 1)
    BY <1>1, <1>2, <1>3, On
  <2>2. d.pos <= r.pos /\ Reads(T, r)
    BY <1>3 DEF Adds
  <2>3. d.pos \in 1 .. Size(T) /\ r.pos \in 1 .. Size(T)
    BY <1>2, <2>2, ReadsHas
  <2> QED
    BY <1>1, <1>2, <1>3, <2>1, <2>2, <2>3 DEF ReadAlike, c
<1>4. CASE kind = "IDENT"
  <2>1. r = ParseColumnRef(c) /\ s = ParseColumnRef(c)
    BY <1>4, PrefixCases
  <2>2. Adds(T, d, ParseColumnRef(c), 1)
    BY <1>1, ColumnRefAdds
  <2>3. kind # "EOF"
    BY <1>4
  <2>9. ReadAlike(T, p, r, s)
    BY <1>3, <2>1, <2>2, <2>3
  <2> QED
    BY <2>9, Zenon DEF r, s, c
<1>5. CASE kind \in LiteralKinds
  <2> DEFINE x == Literal(kind, Peek(c).text)
  <2>1. r = Returns(d, x) /\ s = Returns(d, x)
    BY <1>5, PrefixCases
  <2>3. kind # "EOF"
    BY <1>5 DEF LiteralKinds
  <2> HIDE DEF x, r, s, d, c, kind
  <2>2. Adds(T, d, Returns(d, x), 1)
    BY <1>1, <1>2, ReturnsAdds
  <2>9. ReadAlike(T, p, r, s)
    BY <1>3, <2>1, <2>2, <2>3
  <2> QED
    BY <2>9, Zenon DEF r, s, c
<1>6. CASE kind = "LPAREN"
  <2> DEFINE a == Inner(d, 0, f)
             b == Inner(d, 0, g)
  <2>1. r = Skip(a, "RPAREN") /\ s = Skip(b, "RPAREN")
    BY <1>6, PrefixCases
  <2>2. kind # "EOF" /\ 0 \in 0 .. 100
    BY <1>6
  <2> HIDE DEF r, s, d, c, kind
  <2>3. a = b /\ Adds(T, d, a, 1) /\ Reads(T, a)
    BY <1>1, <1>2, <2>2, InnerAdds DEF Adds
  <2> HIDE DEF a, b
  <2>4. Adds(T, a, r, 0)
    BY <2>1, <2>3, SkipAdds
  <2>5. Adds(T, d, r, 1)
    BY <1>1, <2>3, <2>4, Off
  <2>6. r = s
    BY <2>1, <2>3
  <2>9. ReadAlike(T, p, r, s)
    BY <1>3, <2>2, <2>5, <2>6
  <2> QED
    BY <2>9, Zenon DEF r, s, c
<1>7. CASE kind \in SignKinds
  <2> DEFINE a == Inner(d, bp, f)
             b == Inner(d, bp, g)
             x == Unary(kind, Latest(a, 1)[1])
             y == Unary(kind, Latest(b, 1)[1])
  <2>1. r = Made(a, 1, x) /\ s = Made(b, 1, y)
    BY <1>7, PrefixCases
  <2>2. kind # "EOF"
    BY <1>7 DEF SignKinds
  <2>3. bp \in 0 .. 100
    BY DEF PrefixBP
  <2> HIDE DEF r, s, d, c, bp, kind
  <2>4. a = b /\ Adds(T, d, a, 1)
    BY <1>1, <1>2, <2>2, <2>3, InnerAdds
  <2>5. r = s
    BY <2>1, <2>4
  <2> HIDE DEF a, b, x, y
  <2>6. Adds(T, d, r, 1)
    BY <1>1, <2>1, <2>4, MadeAdds
  <2>9. ReadAlike(T, p, r, s)
    BY <1>3, <2>2, <2>5, <2>6
  <2> QED
    BY <2>9, Zenon DEF r, s, c
<1>8. CASE kind \notin {"IDENT", "LPAREN"} \cup LiteralKinds \cup SignKinds
  <2>1. r = Failed(c) /\ s = Failed(c)
    BY <1>8, PrefixCases
  <2> HIDE DEF c, r, s
  <2>2. Adds(T, c, Failed(c), 1) /\ Failed(c).err
    BY <1>1, FailedAdds
  <2> QED
    BY <2>1, <2>2, Zenon DEF ReadAlike, r, s, c
<1> QED
  BY <1>4, <1>5, <1>6, <1>7, <1>8

-----------------------------------------------------------------------------
(* Operators.                                                              *)

LEMMA BindingIs ==
  ASSUME NEW kind
  PROVE  InfixBP(kind) \in 0 .. 100 /\ InfixBP("EOF") = 0
<1>1. InfixBP(kind) \in {0, 10, 20, 40, 50, 60, 70}
  BY DEF InfixBP
<1>2. InfixBP("EOF") = 0
  BY DEF InfixBP
<1> QED
  BY <1>1, <1>2

LEMMA MadeAt ==
  ASSUME NEW T, NEW a, Reads(T, a), NEW n, NEW x
  PROVE  Made(a, n, x).pos = a.pos
<1> DEFINE r == Made(a, n, x)
           p == a.pos
           e == a.err
           v == a.vals
           w == Append(SubSeq(v, 1, Len(v) - n), x)
<1>1. IsCursor(a, T, p, e, v) /\ e \in BOOLEAN
  BY ReadsHas
<1>2. CASE a.err
  BY <1>2, Zenon DEF Made
<1>3. CASE ~a.err
  <2>1. r = [a EXCEPT !.vals = w]
    BY <1>3, Zenon DEF Made
  <2> HIDE DEF r, p, e, v, w
  <2>2. IsCursor([a EXCEPT !.vals = w], T, p, e, w)
    BY <1>1, Edited
  <2>3. IsCursor(r, T, p, e, w)
    BY <2>1, <2>2, Zenon
  <2> QED
    BY <2>3 DEF IsCursor, p, r
<1> QED
  BY <1>2, <1>3

LEMMA NullAdds ==
  ASSUME NEW T, IsToks(T), NEW s, NEW c, Adds(T, s, c, 1)
  PROVE  Adds(T, s, ParseNull(c), 1) /\ ParseNull(c).pos >= c.pos
<1> DEFINE b == Accept(c, "NOT")
           a == Advance(b)
           e == Latest(a, 1)[1]
           null == Binary("IS", e, Literal("NULL", <<"NULL">>))
           x == IF Sees(c, "NOT") THEN Unary("NOT", null) ELSE null
           r == Made(a, 1, x)
<1>1. Size(T) \in Nat /\ 1 \in Nat /\ Reads(T, c)
  BY ToksHave DEF Adds
<1>2. ParseNull(c) = r
  BY Zenon DEF ParseNull, Makes, Made
<1>3. Adds(T, c, b, 0) /\ Reads(T, b)
  BY <1>1, AcceptAdds DEF Adds
<1> HIDE DEF b
<1>4. Adds(T, b, a, 0)
  BY <1>3, AdvanceIs
<1> HIDE DEF a
<1>5. Adds(T, s, b, 1)
  BY <1>1, <1>3, Off
<1>6. Adds(T, s, a, 1)
  BY <1>1, <1>4, <1>5, Off
<1> HIDE DEF x
<1>7. Adds(T, s, r, 1)
  BY <1>1, <1>6, MadeAdds
<1>8. r.pos = a.pos
  <2>1. Reads(T, a)
    BY <1>4 DEF Adds
  <2> QED
    BY <2>1, MadeAt
<1>9. c.pos <= b.pos /\ b.pos <= a.pos /\ Reads(T, a)
  BY <1>3, <1>4 DEF Adds
<1>10. c.pos \in 1 .. Size(T) /\ b.pos \in 1 .. Size(T) /\ a.pos \in 1 .. Size(T)
  BY <1>1, <1>3, <1>9, ReadsHas
<1>11. r.pos >= c.pos
  BY <1>1, <1>8, <1>9, <1>10
<1> QED
  BY <1>2, <1>7, <1>11

LEMMA InfixCases ==
  ASSUME NEW c, NEW m, NEW read
  PROVE  LET op == Peek(c).kind
             d == Advance(c)
             b == IF op = "IS" THEN Accept(d, "NOT") ELSE d
             a == Inner(b, InfixBP(op), read)
         IN
         /\ c.err \/ InfixBP(op) <= m => ParseInfix(c, m, read) = c
         /\ ~c.err /\ ~ (InfixBP(op) <= m) /\ op = "IS" /\ Sees(b, "NULL") =>
              ParseInfix(c, m, read) = ParseNull(d)
         /\ ~c.err /\ ~ (InfixBP(op) <= m) /\ ~ (op = "IS" /\ Sees(b, "NULL")) =>
              ParseInfix(c, m, read) = Made(a, 2, Binary(op, Latest(a, 2)[1], Latest(a, 2)[2]))
BY Zenon DEF ParseInfix, Makes, Made

LEMMA InfixAdds ==
  ASSUME NEW T, IsToks(T), NEW p \in 1 .. Size(T), NEW f, NEW g, Alike(T, p, f, g),
         NEW m \in 0 .. 100, NEW c, ReadAlike(T, p, c, c)
  PROVE  ReadAlike(T, p, ParseInfix(c, m, f), ParseInfix(c, m, g))
<1> DEFINE s == StartAt(T, p)
           op == Peek(c).kind
           bp == InfixBP(op)
           d == Advance(c)
           b == IF op = "IS" THEN Accept(d, "NOT") ELSE d
           r == ParseInfix(c, m, f)
           q == ParseInfix(c, m, g)
<1>1. /\ Size(T) \in Nat /\ 1 \in Nat /\ 1 + 1 = 2 /\ 2 \in Nat /\ bp \in 0 .. 100
      /\ p \in 0 .. Size(T) /\ (op = "EOF" => bp = 0)
  BY ToksHave, BindingIs
<1>2. Adds(T, s, c, 1) /\ Reads(T, c) /\ (c.err \/ c.pos > p)
  BY DEF ReadAlike, Adds
<1>3. CASE c.err \/ bp <= m
  <2>1. r = c /\ q = c
    BY <1>3, InfixCases
  <2> QED
    BY <2>1, Zenon
<1>4. CASE ~c.err /\ ~ (bp <= m)
  <2>1. op # "EOF"
    BY <1>1, <1>4
  <2>2. Adds(T, c, d, 0) /\ Reads(T, d) /\ d.pos > c.pos
    BY <1>2, <2>1, AdvanceIs DEF Adds
  <2>3. d.pos > p /\ c.pos \in 1 .. Size(T) /\ d.pos \in 1 .. Size(T)
    <3>1. c.pos \in 1 .. Size(T) /\ d.pos \in 1 .. Size(T)
      BY <1>2, <2>2, ReadsHas
    <3> QED
      BY <1>1, <1>2, <1>4, <2>2, <3>1
  <2>4. Adds(T, d, b, 0) /\ Reads(T, b)
    <3>1. b = d \/ b = Accept(d, "NOT")
      OBVIOUS
    <3> HIDE DEF d, b
    <3>2. Adds(T, d, d, 0) /\ Adds(T, d, Accept(d, "NOT"), 0)
      BY <1>1, <2>2, SameAdds, AcceptAdds
    <3> QED
      BY <3>1, <3>2 DEF Adds
  <2>5. Adds(T, s, d, 1)
    <3> HIDE DEF d, s
    <3> QED
      BY <1>1, <1>2, <2>2, Off
  <2>6. CASE op = "IS" /\ Sees(b, "NULL")
    <3>1. r = ParseNull(d) /\ q = ParseNull(d)
      BY <1>4, <2>6, InfixCases
    <3> HIDE DEF r, q, d, s
    <3>2. Adds(T, s, ParseNull(d), 1) /\ ParseNull(d).pos >= d.pos
      BY <2>5, NullAdds
    <3>3. Reads(T, ParseNull(d))
      BY <3>2 DEF Adds
    <3>4. ParseNull(d).pos \in 1 .. Size(T)
      BY <3>3, ReadsHas
    <3>5. r.pos > p
      BY <1>1, <2>3, <3>1, <3>2, <3>4
    <3>6. ReadAlike(T, p, r, q)
      BY <3>1, <3>2, <3>5, Zenon DEF ReadAlike, s
    <3> QED
      BY <3>6, Zenon DEF r, q
  <2>7. CASE ~ (op = "IS" /\ Sees(b, "NULL"))
    <3> DEFINE a == Inner(b, bp, f)
               e == Inner(b, bp, g)
               x == Binary(op, Latest(a, 2)[1], Latest(a, 2)[2])
               y == Binary(op, Latest(e, 2)[1], Latest(e, 2)[2])
    <3>1. r = Made(a, 2, x) /\ q = Made(e, 2, y)
      BY <1>4, <2>7, InfixCases
    <3> HIDE DEF r, q, b, d, s, op, bp
    <3>2. b.pos \in 1 .. Size(T) /\ d.pos <= b.pos
      BY <2>4, ReadsHas DEF Adds
    <3>3. b.pos > p
      BY <1>1, <2>3, <3>2
    <3>4. a = e /\ Adds(T, b, a, 1)
      BY <1>1, <2>4, <3>3, InnerAdds
    <3>5. r = q
      BY <3>1, <3>4
    <3> HIDE DEF a, e, x, y
    <3>6. Adds(T, s, b, 1)
      BY <1>1, <2>4, <2>5, Off
    <3>7. Adds(T, s, a, 2)
      <4>1. Adds(T, s, a, 1 + 1)
        BY <1>1, <3>4, <3>6, Plus
      <4> QED
        BY <1>1, <4>1
    <3>8. Adds(T, s, r, 1)
      BY <1>1, <3>1, <3>7, MadeAdds
    <3>9. Reads(T, a) /\ b.pos <= a.pos
      BY <3>4 DEF Adds
    <3>10. r.pos = a.pos /\ a.pos \in 1 .. Size(T)
      BY <3>1, <3>9, MadeAt, ReadsHas
    <3>11. r.pos > p
      BY <1>1, <3>2, <3>3, <3>9, <3>10
    <3>12. ReadAlike(T, p, r, q)
      BY <3>5, <3>8, <3>11, Zenon DEF ReadAlike, s
    <3> QED
      BY <3>12, Zenon DEF r, q
  <2> QED
    BY <2>6, <2>7
<1> QED
  BY <1>3, <1>4

LEMMA OperatorsCount ==
  ASSUME NEW T, IsToks(T)
  PROVE  Operators(T) \in Nat
<1> DEFINE S == {i \in DOMAIN T : InfixBP(T[i].kind) > 0}
           A == 1 .. Size(T)
<1>1. A = DOMAIN T /\ Size(T) \in Nat
  BY DEF IsToks
<1>2. IsFiniteSet(A)
  BY <1>1, FS_Interval
<1>3. S \subseteq A
  BY <1>1
<1> HIDE DEF S, A
<1>4. IsFiniteSet(S)
  BY <1>2, <1>3, FS_Subset
<1>5. Cardinality(S) \in Nat
  BY <1>4, FS_CardinalityType
<1> QED
  BY <1>5, Zenon DEF Operators, S

\* The operators are a chain.
LEMMA OperatorsAre ==
  ASSUME NEW T, IsToks(T), NEW c, c.toks = T, NEW m, NEW read
  PROVE  \E u : /\ ParseOperators(c, m, read) = u[Operators(T)]
                /\ u[0] = c
                /\ \A n \in 1 .. Operators(T) : u[n] = ParseInfix(u[n - 1], m, read)
<1> DEFINE N == Operators(T)
           Right(h) == IsChain("operators", m, read, read, c, N, h)
           u == CHOOSE h : Right(h)
           One(h, n) == IF n = 0 THEN c ELSE ParseInfix(h[n - 1], m, read)
           w == CHOOSE h : h = [n \in 0 .. N |-> One(h, n)]
<1>1. N \in Nat
  BY OperatorsCount
<1>2. \E h : Right(h)
  BY <1>1, ChainIs
<1>3. ParseOperators(c, m, read) = w[N]
  BY Zenon DEF ParseOperators
<1>4. w = u
  <2>1. \A h, n : One(h, n) = ChainAt("operators", m, read, read, c, h, n)
    BY Zenon DEF ChainAt, NextOf
  <2> HIDE DEF One, N
  <2>2. \A h : [n \in 0 .. N |-> One(h, n)]
                 = [n \in 0 .. N |-> ChainAt("operators", m, read, read, c, h, n)]
    BY <2>1, Zenon
  <2>3. w = CHOOSE h : h = [n \in 0 .. N |-> ChainAt("operators", m, read, read, c, h, n)]
    BY <2>2, Zenon
  <2> HIDE DEF w
  <2> QED
    BY <2>3, Zenon DEF IsChain
<1> HIDE DEF Right, w, N
<1>5. Right(u)
  BY <1>2, Zenon
<1> HIDE DEF u
<1>6. u[0] = c /\ \A n \in 1 .. N : u[n] = NextOf("operators", m, read, read, u[n - 1], n)
  <2>1. IsChain("operators", m, read, read, c, N, u)
    BY <1>5, Zenon DEF Right
  <2>2. GoesOn("operators", m, read, read, c, N, u)
    BY <1>1, <2>1, ChainHolds
  <2> QED
    BY <2>2, Zenon DEF GoesOn
<1>7. \A v, n : NextOf("operators", m, read, read, v, n) = ParseInfix(v, m, read)
  BY Zenon DEF NextOf
<1>8. \A n \in 1 .. N : u[n] = ParseInfix(u[n - 1], m, read)
  BY <1>6, <1>7
<1> QED
  BY <1>3, <1>4, <1>6, <1>8, Zenon DEF N

LEMMA OperatorsAdds ==
  ASSUME NEW T, IsToks(T), NEW p \in 1 .. Size(T), NEW f, NEW g, Alike(T, p, f, g),
         NEW m \in 0 .. 100, NEW c, ReadAlike(T, p, c, c)
  PROVE  ReadAlike(T, p, ParseOperators(c, m, f), ParseOperators(c, m, g))
<1> DEFINE N == Operators(T)
<1>1. N \in Nat /\ c.toks = T
  <2>1. Reads(T, c)
    BY DEF ReadAlike, Adds
  <2> QED
    BY <2>1, OperatorsCount, ReadsHas
<1> HIDE DEF N
<1>2. PICK u : /\ ParseOperators(c, m, f) = u[N] /\ u[0] = c
               /\ \A n \in 1 .. N : u[n] = ParseInfix(u[n - 1], m, f)
  BY <1>1, OperatorsAre DEF N
<1>3. PICK w : /\ ParseOperators(c, m, g) = w[N] /\ w[0] = c
               /\ \A n \in 1 .. N : w[n] = ParseInfix(w[n - 1], m, g)
  BY <1>1, OperatorsAre DEF N
<1> DEFINE S == {n \in 0 .. N : ReadAlike(T, p, u[n], w[n])}
<1>4. 0 \in S
  BY <1>1, <1>2, <1>3
<1>5. ASSUME NEW n \in 1 .. N, n - 1 \in S PROVE n \in S
  <2> DEFINE a == u[n - 1]
             b == w[n - 1]
  <2>1. ReadAlike(T, p, a, b) /\ u[n] = ParseInfix(a, m, f) /\ w[n] = ParseInfix(b, m, g)
    BY <1>2, <1>3, <1>5
  <2> HIDE DEF a, b
  <2>2. a = b
    BY <2>1, Zenon DEF ReadAlike
  <2>3. ReadAlike(T, p, a, a)
    BY <2>1, <2>2
  <2>4. ReadAlike(T, p, ParseInfix(a, m, f), ParseInfix(a, m, g))
    BY <2>3, InfixAdds
  <2>5. ReadAlike(T, p, u[n], w[n])
    BY <2>1, <2>2, <2>4
  <2>6. n \in 0 .. N
    BY <1>1
  <2> QED
    BY <2>5, <2>6
<1>6. \A n \in 0 .. N : n \in S
  <2> HIDE DEF S
  <2> QED
    BY <1>1, <1>4, <1>5, Upwards
<1>7. N \in S
  <2>1. N \in 0 .. N
    BY <1>1
  <2> HIDE DEF S
  <2> QED
    BY <1>6, <2>1
<1>8. ReadAlike(T, p, u[N], w[N])
  BY <1>7
<1> QED
  BY <1>2, <1>3, <1>8

LEMMA ExpressionsLook ==
  ASSUME NEW T, IsToks(T)
  PROVE  LooksOn("expression", T, T)
<1> SUFFICES ASSUME NEW p \in 1 .. Size(T), NEW f, NEW g, Agree("expression", T, T, p, f, g)
             PROVE  /\ Reading("expression", T, T, f, p) = Reading("expression", T, T, g, p)
                    /\ Good("expression", T, T, p, Reading("expression", T, T, f, p))
  BY Zenon DEF LooksOn
<1> DEFINE s == StartAt(T, p)
           c == ParsePrefix(s, f)
           e == ParsePrefix(s, g)
           A(m) == ParseOperators(c, m, f)
           B(m) == ParseOperators(e, m, g)
           a == [m \in 0 .. 100 |-> A(m)]
           b == [m \in 0 .. 100 |-> B(m)]
<1>0. "expression" \notin {"items", "constraints"}
  OBVIOUS
<1>1. /\ Reading("expression", T, T, f, p) = a
      /\ Reading("expression", T, T, g, p) = b
  BY <1>0, Zenon DEF Reading
<1>2. Alike(T, p, f, g)
  BY DEF Alike
<1>3. ReadAlike(T, p, c, e)
  BY <1>2, PrefixAdds
<1> HIDE DEF c, e, s
<1>4. c = e
  BY <1>3, Zenon DEF ReadAlike
<1>5. ReadAlike(T, p, c, c)
  BY <1>3, <1>4
<1>6. \A m \in 0 .. 100 : ReadAlike(T, p, A(m), ParseOperators(c, m, g))
  BY <1>2, <1>5, OperatorsAdds
<1>7. \A m \in 0 .. 100 : ReadAlike(T, p, A(m), B(m))
  BY <1>4, <1>6
<1>8. \A m \in 0 .. 100 : A(m) = B(m) /\ Adds(T, s, A(m), 1)
  BY <1>7, Zenon DEF ReadAlike, s
<1> HIDE DEF A, B
<1>9. a = b
  BY <1>8, Zenon
<1>10. \A m \in 0 .. 100 : a[m] = A(m)
  OBVIOUS
<1> HIDE DEF a, b
<1>11. \A m \in 0 .. 100 : Adds(T, s, a[m], 1)
  BY <1>8, <1>10
<1>12. Good("expression", T, T, p, a)
  BY <1>0, <1>11, Zenon DEF Good, s
<1> QED
  BY <1>1, <1>9, <1>12, Zenon

LEMMA ExpressionsAre ==
  ASSUME NEW T, IsToks(T)
  PROVE  \A p \in 1 .. Size(T) : Good("expression", T, T, p, Expressions(T)[p])
<1> DEFINE Right(h) == IsReading("expression", T, T, h)
           h == Expressions(T)
<1>1. Size(T) \in Nat /\ LooksOn("expression", T, T)
  BY ExpressionsLook, ToksHave
<1>2. \E r : Right(r)
  BY <1>1, ReadingIs
<1>3. h = CHOOSE r : Right(r)
  <2>1. 1 .. Size(T) = DOMAIN T
    BY DEF IsToks
  <2> DEFINE One(r, pos) ==
               [minBP \in 0 .. 100 |-> ParseOperators(ParsePrefix(StartAt(T, pos), r), minBP, r)]
  <2>2. h = CHOOSE r : r = [pos \in DOMAIN T |-> One(r, pos)]
    BY Zenon DEF Expressions
  <2>3. \A r, p : One(r, p) = Reading("expression", T, T, r, p)
    <3>1. "expression" # "items" /\ "expression" # "constraints"
      OBVIOUS
    <3> QED
      BY <3>1, Zenon DEF Reading
  <2> HIDE DEF One
  <2>5. \A r : [pos \in DOMAIN T |-> One(r, pos)]
                 = [p \in DOMAIN T |-> Reading("expression", T, T, r, p)]
    BY <2>3, Zenon
  <2>4. h = CHOOSE r : r = [p \in DOMAIN T |-> Reading("expression", T, T, r, p)]
    BY <2>2, <2>5, Zenon
  <2> QED
    BY <2>1, <2>4, Zenon DEF IsReading
<1> HIDE DEF Right
<1>4. Right(h)
  BY <1>2, <1>3, Zenon
<1> HIDE DEF h
<1> QED
  BY <1>1, <1>4, ReadingGood DEF h, Right

LEMMA ExprAdds ==
  ASSUME NEW T, IsToks(T), NEW c, Reads(T, c)
  PROVE  Adds(T, c, ParseExpr(c, 0), 1)
<1> DEFINE read == Expressions(T)
<1>1. c.toks = T /\ c.pos \in 1 .. Size(T) /\ Size(T) \in Nat
  BY ReadsHas, ToksHave
<1>2. ParseExpr(c, 0) = Inner(c, 0, read)
  BY <1>1, Zenon DEF ParseExpr
<1>3. Alike(T, 0, read, read)
  <2>1. \A q \in 0 + 1 .. Size(T) : q \in 1 .. Size(T)
    OBVIOUS
  <2> HIDE DEF read
  <2> QED
    BY <2>1, ExpressionsAre DEF Alike, Agree, read
<1> HIDE DEF read
<1>4. 0 \in 0 .. Size(T) /\ c.pos > 0 /\ 0 \in 0 .. 100
  BY <1>1
<1>5. Adds(T, c, Inner(c, 0, read), 1)
  BY <1>3, <1>4, InnerAdds
<1> QED
  BY <1>2, <1>5

-----------------------------------------------------------------------------
(* The parts of statements.                                                *)

LEMMA Arities == /\ 0 \in Nat /\ 1 \in Nat /\ 2 \in Nat /\ 3 \in Nat /\ 4 \in Nat /\ 5 \in Nat
                 /\ 7 \in Nat
OBVIOUS

LEMMA ClauseAdds ==
  ASSUME NEW T, IsToks(T), NEW c, Reads(T, c), NEW kind
  PROVE  Adds(T, c, ParseClause(c, kind), 1)
<1> DEFINE d == Advance(c)
<1>1. CASE Sees(c, kind)
  <2>1. ParseClause(c, kind) = ParseExpr(d, 0)
    BY <1>1, Zenon DEF ParseClause
  <2>2. Adds(T, c, d, 0) /\ Reads(T, d)
    BY AdvanceIs DEF Adds
  <2> HIDE DEF d
  <2>3. Adds(T, d, ParseExpr(d, 0), 1)
    BY <2>2, ExprAdds
  <2> QED
    BY <2>1, <2>2, <2>3, On, Arities, ToksHave
<1>2. CASE ~Sees(c, kind)
  <2>1. ParseClause(c, kind) = Returns(c, None)
    BY <1>2, Zenon DEF ParseClause
  <2> QED
    BY <2>1, ReturnsAdds, ToksHave
<1> QED
  BY <1>1, <1>2

LEMMA AliasAdds ==
  ASSUME NEW T, IsToks(T), NEW c, Reads(T, c)
  PROVE  Adds(T, c, ParseAlias(c), 1)
<1> DEFINE d == Advance(c)
<1>1. CASE Sees(c, "AS")
  <2>1. ParseAlias(c) = ParseName(d)
    BY <1>1, Zenon DEF ParseAlias
  <2>2. Adds(T, c, d, 0) /\ Reads(T, d)
    BY AdvanceIs DEF Adds
  <2> HIDE DEF d
  <2>3. Adds(T, d, ParseName(d), 1)
    BY <2>2, NameAdds
  <2> QED
    BY <2>1, <2>2, <2>3, On, Arities, ToksHave
<1>2. CASE ~Sees(c, "AS")
  <2> DEFINE x == << >>
  <2>1. ParseAlias(c) = Returns(c, x)
    BY <1>2, Zenon DEF ParseAlias
  <2> HIDE DEF x
  <2> QED
    BY <2>1, ReturnsAdds, ToksHave
<1> QED
  BY <1>1, <1>2

\* Two calls, and one value made of what they return.
LEMMA PairAdds ==
  ASSUME NEW T, IsToks(T), NEW c, NEW d, NEW a, Adds(T, c, d, 1), Adds(T, d, a, 1), NEW x
  PROVE  Adds(T, c, Made(a, 2, x), 1)
<1>1. Adds(T, c, a, 2)
  <2>1. Adds(T, c, a, 1 + 1)
    BY Plus, Arities, ToksHave
  <2>2. 1 + 1 = 2
    OBVIOUS
  <2> QED
    BY <2>1, <2>2
<1> QED
  BY <1>1, MadeAdds, Arities, ToksHave

LEMMA ResultColumnAdds ==
  ASSUME NEW T, IsToks(T), NEW c, Reads(T, c)
  PROVE  Adds(T, c, ParseResultColumn(c), 1)
<1> DEFINE d == ParseExpr(c, 0)
           a == ParseAlias(d)
           b == Advance(c)
           x == [expr |-> Latest(a, 2)[1], alias |-> Latest(a, 2)[2]]
           y == [expr |-> Star(<< >>), alias |-> << >>]
<1>1. CASE Sees(c, "STAR")
  <2>1. ParseResultColumn(c) = Returns(b, y)
    BY <1>1, Zenon DEF ParseResultColumn
  <2>2. Adds(T, c, b, 0) /\ Reads(T, b)
    BY AdvanceIs DEF Adds
  <2> HIDE DEF b, y
  <2>3. Adds(T, b, Returns(b, y), 1)
    BY <2>2, ReturnsAdds, ToksHave
  <2> QED
    BY <2>1, <2>2, <2>3, On, Arities, ToksHave
<1>2. CASE ~Sees(c, "STAR")
  <2>1. ParseResultColumn(c) = Made(a, 2, x)
    BY <1>2, Zenon DEF ParseResultColumn, Makes, Made
  <2>2. Adds(T, c, d, 1) /\ Reads(T, d)
    BY ExprAdds DEF Adds
  <2> HIDE DEF d
  <2>3. Adds(T, d, a, 1)
    BY <2>2, AliasAdds
  <2> HIDE DEF a, x
  <2> QED
    BY <2>1, <2>2, <2>3, PairAdds
<1> QED
  BY <1>1, <1>2

LEMMA DirectionAdds ==
  ASSUME NEW T, IsToks(T), NEW c, Reads(T, c)
  PROVE  Adds(T, c, ParseDirection(c), 1)
<1> DEFINE d == IF Sees(c, "DESC") THEN Advance(c) ELSE Accept(c, "ASC")
           x == IF Sees(c, "DESC") THEN TRUE ELSE FALSE
<1>1. ParseDirection(c) = Returns(d, x)
  BY Zenon DEF ParseDirection
<1>2. Adds(T, c, d, 0) /\ Reads(T, d)
  BY AdvanceIs, AcceptAdds DEF Adds
<1> HIDE DEF d, x
<1>3. Adds(T, d, Returns(d, x), 1)
  BY <1>2, ReturnsAdds, ToksHave
<1> QED
  BY <1>1, <1>2, <1>3, On, Arities, ToksHave

LEMMA OrderTermAdds ==
  ASSUME NEW T, IsToks(T), NEW c, Reads(T, c)
  PROVE  Adds(T, c, ParseOrderTerm(c), 1)
<1> DEFINE d == ParseExpr(c, 0)
           a == ParseDirection(d)
           x == [expr |-> Latest(a, 2)[1], desc |-> Latest(a, 2)[2]]
<1>1. ParseOrderTerm(c) = Made(a, 2, x)
  BY Zenon DEF ParseOrderTerm, Makes, Made
<1>2. Adds(T, c, d, 1) /\ Reads(T, d)
  BY ExprAdds DEF Adds
<1> HIDE DEF d
<1>3. Adds(T, d, a, 1)
  BY <1>2, DirectionAdds
<1> HIDE DEF a, x
<1> QED
  BY <1>1, <1>2, <1>3, PairAdds

LEMMA AssignAdds ==
  ASSUME NEW T, IsToks(T), NEW c, Reads(T, c)
  PROVE  Adds(T, c, ParseAssign(c), 1)
<1> DEFINE b == ParseName(c)
           d == Skip(b, "EQ")
           a == ParseExpr(d, 0)
           x == [column |-> Latest(a, 2)[1], value |-> Latest(a, 2)[2]]
<1>1. ParseAssign(c) = Made(a, 2, x)
  BY Zenon DEF ParseAssign, Makes, Made
<1>2. Adds(T, c, b, 1) /\ Reads(T, b)
  BY NameAdds DEF Adds
<1> HIDE DEF b
<1>3. Adds(T, b, d, 0) /\ Reads(T, d)
  BY <1>2, SkipAdds DEF Adds
<1> HIDE DEF d
<1>4. Adds(T, c, d, 1)
  BY <1>2, <1>3, Off, Arities, ToksHave
<1>5. Adds(T, d, a, 1)
  BY <1>3, ExprAdds
<1> HIDE DEF a, x
<1> QED
  BY <1>1, <1>4, <1>5, PairAdds

LEMMA ValueAdds ==
  ASSUME NEW T, IsToks(T), NEW c, Reads(T, c)
  PROVE  Adds(T, c, ParseValue(c), 1)
BY ExprAdds, Zenon DEF ParseValue

LEMMA ResultColumnsAre ==
  ASSUME NEW T, IsToks(T)
  PROVE  IsItems(T, Everywhere(T, ParseResultColumn))
<1> DEFINE item == Everywhere(T, ParseResultColumn)
<1>1. DOMAIN T = 1 .. Size(T)
  BY DEF IsToks
<1>2. \A p \in 1 .. Size(T) : item[p] = ParseResultColumn(StartAt(T, p))
  BY <1>1, Zenon DEF Everywhere
<1> HIDE DEF item
<1>3. \A p \in 1 .. Size(T) : Adds(T, StartAt(T, p), ParseResultColumn(StartAt(T, p)), 1)
  BY StartReads, ResultColumnAdds
<1>4. IsItems(T, item)
  BY <1>2, <1>3, Zenon DEF IsItems
<1> QED
  BY <1>4 DEF item

LEMMA OrderTermsAre ==
  ASSUME NEW T, IsToks(T)
  PROVE  IsItems(T, Everywhere(T, ParseOrderTerm))
<1> DEFINE item == Everywhere(T, ParseOrderTerm)
<1>1. DOMAIN T = 1 .. Size(T)
  BY DEF IsToks
<1>2. \A p \in 1 .. Size(T) : item[p] = ParseOrderTerm(StartAt(T, p))
  BY <1>1, Zenon DEF Everywhere
<1> HIDE DEF item
<1>3. \A p \in 1 .. Size(T) : Adds(T, StartAt(T, p), ParseOrderTerm(StartAt(T, p)), 1)
  BY StartReads, OrderTermAdds
<1>4. IsItems(T, item)
  BY <1>2, <1>3, Zenon DEF IsItems
<1> QED
  BY <1>4 DEF item

LEMMA AssignsAre ==
  ASSUME NEW T, IsToks(T)
  PROVE  IsItems(T, Everywhere(T, ParseAssign))
<1> DEFINE item == Everywhere(T, ParseAssign)
<1>1. DOMAIN T = 1 .. Size(T)
  BY DEF IsToks
<1>2. \A p \in 1 .. Size(T) : item[p] = ParseAssign(StartAt(T, p))
  BY <1>1, Zenon DEF Everywhere
<1> HIDE DEF item
<1>3. \A p \in 1 .. Size(T) : Adds(T, StartAt(T, p), ParseAssign(StartAt(T, p)), 1)
  BY StartReads, AssignAdds
<1>4. IsItems(T, item)
  BY <1>2, <1>3, Zenon DEF IsItems
<1> QED
  BY <1>4 DEF item

LEMMA ValuesAre ==
  ASSUME NEW T, IsToks(T)
  PROVE  IsItems(T, Everywhere(T, ParseValue))
<1> DEFINE item == Everywhere(T, ParseValue)
<1>1. DOMAIN T = 1 .. Size(T)
  BY DEF IsToks
<1>2. \A p \in 1 .. Size(T) : item[p] = ParseValue(StartAt(T, p))
  BY <1>1, Zenon DEF Everywhere
<1> HIDE DEF item
<1>3. \A p \in 1 .. Size(T) : Adds(T, StartAt(T, p), ParseValue(StartAt(T, p)), 1)
  BY StartReads, ValueAdds
<1>4. IsItems(T, item)
  BY <1>2, <1>3, Zenon DEF IsItems
<1> QED
  BY <1>4 DEF item

LEMMA RowAdds ==
  ASSUME NEW T, IsToks(T), NEW c, Reads(T, c)
  PROVE  Adds(T, c, ParseRow(c), 1)
<1> DEFINE item == Everywhere(T, ParseValue)
<1>1. c.toks = T
  BY ReadsHas
<1>2. ParseRow(c) = Parenthesised(c, item)
  BY <1>1, Zenon DEF ParseRow
<1>3. IsItems(T, item)
  BY ValuesAre
<1> HIDE DEF item
<1> QED
  BY <1>2, <1>3, ParenthesisedAdds

LEMMA RowsAre ==
  ASSUME NEW T, IsToks(T)
  PROVE  IsItems(T, Everywhere(T, ParseRow))
<1> DEFINE item == Everywhere(T, ParseRow)
<1>1. DOMAIN T = 1 .. Size(T)
  BY DEF IsToks
<1>2. \A p \in 1 .. Size(T) : item[p] = ParseRow(StartAt(T, p))
  BY <1>1, Zenon DEF Everywhere
<1> HIDE DEF item
<1>3. \A p \in 1 .. Size(T) : Adds(T, StartAt(T, p), ParseRow(StartAt(T, p)), 1)
  BY StartReads, RowAdds
<1>4. IsItems(T, item)
  BY <1>2, <1>3, Zenon DEF IsItems
<1> QED
  BY <1>4 DEF item

LEMMA ColumnDefsAre ==
  ASSUME NEW T, IsToks(T)
  PROVE  /\ IsItems(T, Everywhere(T, ParseColumnDef))
         /\ \A x : Item(T, Everywhere(T, ParseColumnDef), x) => x \in Columns
<1> DEFINE item == Everywhere(T, ParseColumnDef)
<1>1. DOMAIN T = 1 .. Size(T)
  BY DEF IsToks
<1>2. \A p \in 1 .. Size(T) : item[p] = ParseColumnDef(StartAt(T, p))
  BY <1>1, Zenon DEF Everywhere
<1> HIDE DEF item
<1>3. \A p \in 1 .. Size(T) : /\ Adds(T, StartAt(T, p), item[p], 1)
                              /\ ~item[p].err => Top(StartAt(T, p), item[p], 1) \in Columns
  <2> SUFFICES ASSUME NEW p \in 1 .. Size(T)
               PROVE  /\ Adds(T, StartAt(T, p), item[p], 1)
                      /\ ~item[p].err => Top(StartAt(T, p), item[p], 1) \in Columns
    OBVIOUS
  <2>1. Reads(T, StartAt(T, p))
    BY StartReads
  <2>2. /\ Adds(T, StartAt(T, p), ParseColumnDef(StartAt(T, p)), 1)
        /\ ~ParseColumnDef(StartAt(T, p)).err =>
             Top(StartAt(T, p), ParseColumnDef(StartAt(T, p)), 1) \in Columns
    BY <2>1, ColumnDefAdds
  <2> QED
    BY <1>2, <2>2, Zenon
<1>4. IsItems(T, item) /\ \A x : Item(T, item, x) => x \in Columns
  BY <1>3, ItemsOf
<1> QED
  BY <1>4 DEF item

LEMMA FromAdds ==
  ASSUME NEW T, IsToks(T), NEW c, Reads(T, c)
  PROVE  Adds(T, c, ParseFrom(c), 2)
<1>0. 1 + 1 = 2
  OBVIOUS
<1>1. CASE Sees(c, "FROM")
  <2> DEFINE d == Advance(c)
             a == ParseName(d)
             r == ParseAlias(a)
  <2>1. ParseFrom(c) = r
    BY <1>1, Zenon DEF ParseFrom
  <2>2. Adds(T, c, d, 0) /\ Reads(T, d)
    BY AdvanceIs DEF Adds
  <2> HIDE DEF d
  <2>3. Adds(T, d, a, 1) /\ Reads(T, a)
    BY <2>2, NameAdds DEF Adds
  <2> HIDE DEF a
  <2>4. Adds(T, a, r, 1)
    BY <2>3, AliasAdds
  <2> HIDE DEF r
  <2>5. Adds(T, c, a, 1)
    BY <2>2, <2>3, On, Arities, ToksHave
  <2>6. Adds(T, c, r, 1 + 1)
    BY <2>4, <2>5, Plus, Arities, ToksHave
  <2> QED
    BY <1>0, <2>1, <2>6
<1>2. CASE ~Sees(c, "FROM")
  <2> DEFINE x == << >>
             a == Returns(c, x)
             r == Returns(a, x)
  <2>1. ParseFrom(c) = r
    BY <1>2, Zenon DEF ParseFrom
  <2> HIDE DEF x
  <2>2. Adds(T, c, a, 1) /\ Reads(T, a)
    BY ReturnsAdds, ToksHave DEF Adds
  <2> HIDE DEF a
  <2>3. Adds(T, a, r, 1)
    BY <2>2, ReturnsAdds, ToksHave
  <2> HIDE DEF r
  <2>6. Adds(T, c, r, 1 + 1)
    BY <2>2, <2>3, Plus, Arities, ToksHave
  <2> QED
    BY <1>0, <2>1, <2>6
<1> QED
  BY <1>1, <1>2

LEMMA OrderAdds ==
  ASSUME NEW T, IsToks(T), NEW c, Reads(T, c)
  PROVE  Adds(T, c, ParseOrder(c), 1)
<1>1. CASE Sees(c, "ORDER")
  <2> DEFINE item == Everywhere(T, ParseOrderTerm)
             d == Advance(c)
             a == Skip(d, "BY")
             r == ParseList(a, item)
  <2>1. ParseOrder(c) = r
    <3>1. c.toks = T
      BY ReadsHas
    <3> QED
      BY <1>1, <3>1, Zenon DEF ParseOrder
  <2>2. Adds(T, c, d, 0) /\ Reads(T, d)
    BY AdvanceIs DEF Adds
  <2> HIDE DEF d
  <2>3. Adds(T, d, a, 0) /\ Reads(T, a)
    BY <2>2, SkipAdds DEF Adds
  <2> HIDE DEF a
  <2>4. IsItems(T, item)
    BY OrderTermsAre
  <2> HIDE DEF item
  <2>5. Adds(T, a, r, 1)
    BY <2>3, <2>4, ListAdds
  <2> HIDE DEF r
  <2>6. Adds(T, d, r, 1)
    BY <2>3, <2>5, On, Arities, ToksHave
  <2>7. Adds(T, c, r, 1)
    BY <2>2, <2>6, On, Arities, ToksHave
  <2> QED
    BY <2>1, <2>7
<1>2. CASE ~Sees(c, "ORDER")
  <2> DEFINE x == << >>
  <2>1. ParseOrder(c) = Returns(c, x)
    BY <1>2, Zenon DEF ParseOrder
  <2> HIDE DEF x
  <2> QED
    BY <2>1, ReturnsAdds, ToksHave
<1> QED
  BY <1>1, <1>2

LEMMA LimitAdds ==
  ASSUME NEW T, IsToks(T), NEW c, Reads(T, c)
  PROVE  Adds(T, c, ParseLimit(c), 2)
<1> DEFINE a == IF Sees(c, "LIMIT") THEN ParseClause(c, "LIMIT") ELSE Returns(c, None)
           r == IF Sees(c, "LIMIT") THEN ParseClause(a, "OFFSET") ELSE Returns(a, None)
<1>0. 1 + 1 = 2
  OBVIOUS
<1>1. ParseLimit(c) = r
  BY Zenon DEF ParseLimit
<1>2. Adds(T, c, a, 1) /\ Reads(T, a)
  BY ClauseAdds, ReturnsAdds, ToksHave DEF Adds
<1> HIDE DEF a
<1>3. Adds(T, a, r, 1)
  BY <1>2, ClauseAdds, ReturnsAdds, ToksHave
<1> HIDE DEF r
<1>4. Adds(T, c, r, 1 + 1)
  BY <1>2, <1>3, Plus, Arities, ToksHave
<1> QED
  BY <1>0, <1>1, <1>4

-----------------------------------------------------------------------------
(* Statements.                                                             *)

\* A statement has been read, or there was an error.
Says(T, c, r) == Adds(T, c, r, 1) /\ (~r.err => Stated(Top(c, r, 1)))

LEMMA SaysMade ==
  ASSUME NEW T, IsToks(T), NEW c, NEW a, NEW n \in Nat, Adds(T, c, a, n),
         NEW x, ~a.err => Stated(x)
  PROVE  Says(T, c, Made(a, n, x))
<1> DEFINE r == Made(a, n, x)
<1>1. Adds(T, c, r, 1) /\ r.err = a.err /\ (~a.err => Top(c, r, 1) = x)
  BY MadeAdds, ToksHave
<1> QED
  BY <1>1 DEF Says

LEMMA SaysOn ==
  ASSUME NEW T, IsToks(T), NEW c, NEW d, Adds(T, c, d, 0), NEW r, Says(T, d, r)
  PROVE  Says(T, c, r)
<1>1. Adds(T, d, r, 1) /\ (~r.err => Stated(Top(d, r, 1))) /\ 1 \in 1 .. 1
  BY DEF Says
<1>2. Adds(T, c, r, 1) /\ (~r.err => Top(c, r, 1) = Top(d, r, 1))
  BY <1>1, On, Arities, ToksHave
<1> QED
  BY <1>1, <1>2 DEF Says

LEMMA SelectSays ==
  ASSUME NEW T, IsToks(T), NEW c, Reads(T, c)
  PROVE  Says(T, c, ParseSelect(c))
<1> DEFINE item == Everywhere(T, ParseResultColumn)
           s1 == Advance(c)
           s2 == ParseList(s1, item)
           s3 == ParseFrom(s2)
           s4 == ParseClause(s3, "WHERE")
           s5 == ParseOrder(s4)
           s6 == ParseLimit(s5)
           v == Latest(s6, 7)
           x == [stmt |-> "select", columns |-> v[1], from |-> v[2], alias |-> v[3],
                 where |-> v[4], order |-> v[5], limit |-> v[6], offset |-> v[7]]
<1>0. /\ 0 + 1 = 1 /\ 1 + 2 = 3 /\ 3 + 1 = 4 /\ 4 + 1 = 5 /\ 5 + 2 = 7
  OBVIOUS
<1>1. ParseSelect(c) = Made(s6, 7, x)
  <2>1. c.toks = T
    BY ReadsHas
  <2> QED
    BY <2>1, Zenon DEF ParseSelect, Makes, Made
<1>2. x.stmt = "select"
  <2> HIDE DEF v
  <2> QED
    OBVIOUS
<1>3. IsItems(T, item)
  BY ResultColumnsAre
<1> HIDE DEF item
<1>4. Adds(T, c, s1, 0) /\ Reads(T, s1)
  BY AdvanceIs DEF Adds
<1> HIDE DEF s1
<1>5. Adds(T, s1, s2, 1) /\ Reads(T, s2)
  BY <1>3, <1>4, ListAdds DEF Adds
<1> HIDE DEF s2
<1>6. Adds(T, s2, s3, 2) /\ Reads(T, s3)
  BY <1>5, FromAdds DEF Adds
<1> HIDE DEF s3
<1>7. Adds(T, s3, s4, 1) /\ Reads(T, s4)
  BY <1>6, ClauseAdds DEF Adds
<1> HIDE DEF s4
<1>8. Adds(T, s4, s5, 1) /\ Reads(T, s5)
  BY <1>7, OrderAdds DEF Adds
<1> HIDE DEF s5
<1>9. Adds(T, s5, s6, 2)
  BY <1>8, LimitAdds
<1> HIDE DEF s6, v, x
<1>10. Adds(T, c, s2, 1)
  BY <1>4, <1>5, On, Arities, ToksHave
<1>11. Adds(T, c, s3, 3)
  <2>1. Adds(T, c, s3, 1 + 2)
    BY <1>6, <1>10, Chain, Arities, ToksHave
  <2> QED
    BY <1>0, <2>1
<1>12. Adds(T, c, s4, 4)
  <2>1. Adds(T, c, s4, 3 + 1)
    BY <1>7, <1>11, Chain, Arities, ToksHave
  <2> QED
    BY <1>0, <2>1
<1>13. Adds(T, c, s5, 5)
  <2>1. Adds(T, c, s5, 4 + 1)
    BY <1>8, <1>12, Chain, Arities, ToksHave
  <2> QED
    BY <1>0, <2>1
<1>14. Adds(T, c, s6, 7)
  <2>1. Adds(T, c, s6, 5 + 2)
    BY <1>9, <1>13, Chain, Arities, ToksHave
  <2> QED
    BY <1>0, <2>1
<1>15. Stated(x)
  BY <1>2 DEF Stated
<1> QED
  BY <1>1, <1>14, <1>15, SaysMade, Arities

LEMMA IntoAdds ==
  ASSUME NEW T, IsToks(T), NEW c, Reads(T, c)
  PROVE  Adds(T, c, ParseInto(c), 1)
<1> DEFINE x == << >>
<1>1. CASE Sees(c, "LPAREN")
  <2>1. ParseInto(c) = ParseNames(c)
    BY <1>1, Zenon DEF ParseInto
  <2> QED
    BY <2>1, NamesAdds
<1>2. CASE ~Sees(c, "LPAREN")
  <2>1. ParseInto(c) = Returns(c, x)
    BY <1>2, Zenon DEF ParseInto
  <2> HIDE DEF x
  <2> QED
    BY <2>1, ReturnsAdds, ToksHave
<1> QED
  BY <1>1, <1>2

LEMMA InsertSays ==
  ASSUME NEW T, IsToks(T), NEW c, Reads(T, c)
  PROVE  Says(T, c, ParseInsert(c))
<1> DEFINE item == Everywhere(T, ParseRow)
           s1 == Advance(c)
           s2 == Skip(s1, "INTO")
           s3 == ParseName(s2)
           s4 == ParseInto(s3)
           s5 == Skip(s4, "VALUES")
           s6 == ParseList(s5, item)
           v == Latest(s6, 3)
           x == [stmt |-> "insert", table |-> v[1], columns |-> v[2], rows |-> v[3]]
<1>0. 0 + 1 = 1 /\ 1 + 1 = 2 /\ 2 + 1 = 3 /\ 3 \in 1 .. 3 /\ 1 \in 1 .. 1
  OBVIOUS
<1>1. ParseInsert(c) = Made(s6, 3, x)
  <2>1. c.toks = T
    BY ReadsHas
  <2> QED
    BY <2>1, Zenon DEF ParseInsert, Makes, Made
<1>2. x.stmt = "insert" /\ x.rows = v[3]
  <2> HIDE DEF v
  <2> QED
    OBVIOUS
<1>3. IsItems(T, item)
  BY RowsAre
<1> HIDE DEF item
<1>4. Adds(T, c, s1, 0) /\ Reads(T, s1)
  BY AdvanceIs DEF Adds
<1> HIDE DEF s1
<1>5. Adds(T, s1, s2, 0) /\ Reads(T, s2)
  BY <1>4, SkipAdds DEF Adds
<1> HIDE DEF s2
<1>6. Adds(T, s2, s3, 1) /\ Reads(T, s3)
  BY <1>5, NameAdds DEF Adds
<1> HIDE DEF s3
<1>7. Adds(T, s3, s4, 1) /\ Reads(T, s4)
  BY <1>6, IntoAdds DEF Adds
<1> HIDE DEF s4
<1>8. Adds(T, s4, s5, 0) /\ Reads(T, s5)
  BY <1>7, SkipAdds DEF Adds
<1> HIDE DEF s5
<1>9. Adds(T, s5, s6, 1) /\ (~s6.err => Stack(Top(s5, s6, 1)))
  BY <1>3, <1>8, ListAdds
<1>16. v = Latest(s6, 3)
  OBVIOUS
<1> HIDE DEF s6, v, x
<1>10. Adds(T, c, s2, 0)
  BY <1>4, <1>5, On, Arities, ToksHave
<1>11. Adds(T, c, s3, 1)
  BY <1>6, <1>10, On, Arities, ToksHave
<1>12. Adds(T, c, s4, 2)
  <2>1. Adds(T, c, s4, 1 + 1)
    BY <1>7, <1>11, Chain, Arities, ToksHave
  <2> QED
    BY <1>0, <2>1
<1>13. Adds(T, c, s5, 2)
  BY <1>8, <1>12, Off, Arities, ToksHave
<1>14. Adds(T, c, s6, 3) /\ (~s6.err => Top(c, s6, 3) = Top(s5, s6, 1))
  <2>1. Adds(T, c, s6, 2 + 1) /\ (~s6.err => Top(c, s6, 2 + 1) = Top(s5, s6, 1))
    BY <1>9, <1>13, Plus, Arities, ToksHave
  <2> QED
    BY <1>0, <2>1
<1>15. ASSUME ~s6.err PROVE Stated(x)
  <2>1. Latest(s6, 3)[3] = Top(c, s6, 3)
    BY <1>0, <1>14, <1>15, MadeAdds, Arities, ToksHave
  <2>2. Stack(v[3])
    BY <1>9, <1>14, <1>15, <1>16, <2>1
  <2> QED
    BY <1>2, <2>2 DEF Stated
<1> QED
  BY <1>1, <1>14, <1>15, SaysMade, Arities

LEMMA UpdateSays ==
  ASSUME NEW T, IsToks(T), NEW c, Reads(T, c)
  PROVE  Says(T, c, ParseUpdate(c))
<1> DEFINE item == Everywhere(T, ParseAssign)
           s1 == Advance(c)
           s2 == ParseName(s1)
           s3 == Skip(s2, "SET")
           s4 == ParseList(s3, item)
           s5 == ParseClause(s4, "WHERE")
           v == Latest(s5, 3)
           x == [stmt |-> "update", table |-> v[1], assigns |-> v[2], where |-> v[3]]
<1>0. 0 + 1 = 1 /\ 1 + 1 = 2 /\ 2 + 1 = 3
  OBVIOUS
<1>1. ParseUpdate(c) = Made(s5, 3, x)
  <2>1. c.toks = T
    BY ReadsHas
  <2> QED
    BY <2>1, Zenon DEF ParseUpdate, Makes, Made
<1>2. x.stmt = "update"
  <2> HIDE DEF v
  <2> QED
    OBVIOUS
<1>3. IsItems(T, item)
  BY AssignsAre
<1> HIDE DEF item
<1>4. Adds(T, c, s1, 0) /\ Reads(T, s1)
  BY AdvanceIs DEF Adds
<1> HIDE DEF s1
<1>5. Adds(T, s1, s2, 1) /\ Reads(T, s2)
  BY <1>4, NameAdds DEF Adds
<1> HIDE DEF s2
<1>6. Adds(T, s2, s3, 0) /\ Reads(T, s3)
  BY <1>5, SkipAdds DEF Adds
<1> HIDE DEF s3
<1>7. Adds(T, s3, s4, 1) /\ Reads(T, s4)
  BY <1>3, <1>6, ListAdds DEF Adds
<1> HIDE DEF s4
<1>8. Adds(T, s4, s5, 1)
  BY <1>7, ClauseAdds
<1> HIDE DEF s5, v, x
<1>9. Adds(T, c, s2, 1)
  BY <1>4, <1>5, On, Arities, ToksHave
<1>10. Adds(T, c, s3, 1)
  BY <1>6, <1>9, Off, Arities, ToksHave
<1>11. Adds(T, c, s4, 2)
  <2>1. Adds(T, c, s4, 1 + 1)
    BY <1>7, <1>10, Chain, Arities, ToksHave
  <2> QED
    BY <1>0, <2>1
<1>12. Adds(T, c, s5, 3)
  <2>1. Adds(T, c, s5, 2 + 1)
    BY <1>8, <1>11, Chain, Arities, ToksHave
  <2> QED
    BY <1>0, <2>1
<1>13. Stated(x)
  BY <1>2 DEF Stated
<1> QED
  BY <1>1, <1>12, <1>13, SaysMade, Arities

LEMMA DeleteSays ==
  ASSUME NEW T, IsToks(T), NEW c, Reads(T, c)
  PROVE  Says(T, c, ParseDelete(c))
<1> DEFINE s1 == Advance(c)
           s2 == Skip(s1, "FROM")
           s3 == ParseName(s2)
           s4 == ParseClause(s3, "WHERE")
           v == Latest(s4, 2)
           x == [stmt |-> "delete", table |-> v[1], where |-> v[2]]
<1>0. 1 + 1 = 2
  OBVIOUS
<1>1. ParseDelete(c) = Made(s4, 2, x)
  BY Zenon DEF ParseDelete, Makes, Made
<1>2. x.stmt = "delete"
  <2> HIDE DEF v
  <2> QED
    OBVIOUS
<1>4. Adds(T, c, s1, 0) /\ Reads(T, s1)
  BY AdvanceIs DEF Adds
<1> HIDE DEF s1
<1>5. Adds(T, s1, s2, 0) /\ Reads(T, s2)
  BY <1>4, SkipAdds DEF Adds
<1> HIDE DEF s2
<1>6. Adds(T, s2, s3, 1) /\ Reads(T, s3)
  BY <1>5, NameAdds DEF Adds
<1> HIDE DEF s3
<1>7. Adds(T, s3, s4, 1)
  BY <1>6, ClauseAdds
<1> HIDE DEF s4, v, x
<1>8. Adds(T, c, s2, 0)
  BY <1>4, <1>5, On, Arities, ToksHave
<1>9. Adds(T, c, s3, 1)
  BY <1>6, <1>8, On, Arities, ToksHave
<1>10. Adds(T, c, s4, 2)
  <2>1. Adds(T, c, s4, 1 + 1)
    BY <1>7, <1>9, Chain, Arities, ToksHave
  <2> QED
    BY <1>0, <2>1
<1>13. Stated(x)
  BY <1>2 DEF Stated
<1> QED
  BY <1>1, <1>10, <1>13, SaysMade, Arities

LEMMA CreateIndexSays ==
  ASSUME NEW T, IsToks(T), NEW c, Reads(T, c)
  PROVE  Says(T, c, ParseCreateIndex(c))
<1> DEFINE s1 == Accept(c, "UNIQUE")
           s2 == Skip(s1, "INDEX")
           s3 == ParseName(s2)
           s4 == Skip(s3, "ON")
           s5 == ParseName(s4)
           s6 == ParseNames(s5)
           v == Latest(s6, 3)
           u == Sees(c, "UNIQUE")
           x == [stmt |-> "createindex", name |-> v[1], table |-> v[2], columns |-> v[3],
                 unique |-> u]
<1>0. 1 + 1 = 2 /\ 2 + 1 = 3 /\ 1 \in 1 .. 3 /\ 2 \in 1 .. 3 /\ 3 \in 1 .. 3 /\ 1 \in 1 .. 1 /\ 1 \in 1 .. 2 /\ 2 \in 1 .. 2
  OBVIOUS
<1>1. ParseCreateIndex(c) = Made(s6, 3, x)
  BY Zenon DEF ParseCreateIndex, Makes, Made
<1>3. u \in BOOLEAN
  BY Zenon DEF Sees
<1>2. /\ x.stmt = "createindex" /\ x.name = v[1] /\ x.table = v[2] /\ x.columns = v[3]
      /\ x.unique = u
  <2> HIDE DEF v, u
  <2> QED
    OBVIOUS
<1>4. Adds(T, c, s1, 0) /\ Reads(T, s1)
  BY AcceptAdds DEF Adds
<1> HIDE DEF s1
<1>5. Adds(T, s1, s2, 0) /\ Reads(T, s2)
  BY <1>4, SkipAdds DEF Adds
<1> HIDE DEF s2
<1>6. Adds(T, s2, s3, 1) /\ Reads(T, s3) /\ (~s3.err => Top(s2, s3, 1) \in Texts)
  BY <1>5, NameAdds DEF Adds
<1> HIDE DEF s3
<1>7. Adds(T, s3, s4, 0) /\ Reads(T, s4)
  BY <1>6, SkipAdds DEF Adds
<1> HIDE DEF s4
<1>8. Adds(T, s4, s5, 1) /\ Reads(T, s5) /\ (~s5.err => Top(s4, s5, 1) \in Texts)
  BY <1>7, NameAdds DEF Adds
<1> HIDE DEF s5
<1>9. Adds(T, s5, s6, 1) /\ (~s6.err => Top(s5, s6, 1) \in Seq(Texts))
  BY <1>8, NamesAdds
<1>16. v = Latest(s6, 3)
  OBVIOUS
<1> HIDE DEF s6, v, x, u
<1>10. Adds(T, c, s2, 0)
  BY <1>4, <1>5, On, Arities, ToksHave
<1>11. Adds(T, c, s3, 1) /\ (~s3.err => Top(c, s3, 1) = Top(s2, s3, 1))
  BY <1>0, <1>6, <1>10, On, Arities, ToksHave
<1>12. /\ Adds(T, c, s4, 1) /\ (~s4.err => ~s3.err)
       /\ ~s4.err => Top(c, s4, 1) = Top(c, s3, 1)
  BY <1>0, <1>7, <1>11, Off, Arities, ToksHave
<1>13. /\ Adds(T, c, s5, 2) /\ (~s5.err => ~s4.err)
       /\ ~s5.err => Top(c, s5, 1) = Top(c, s4, 1) /\ Top(c, s5, 2) = Top(s4, s5, 1)
  <2>1. /\ Adds(T, c, s5, 1 + 1) /\ (~s5.err => ~s4.err)
        /\ ~s5.err => \A j \in 1 .. 1 : Top(c, s5, j) = Top(c, s4, j)
        /\ ~s5.err => Top(c, s5, 1 + 1) = Top(s4, s5, 1)
    BY <1>8, <1>12, Plus, Arities, ToksHave
  <2> QED
    BY <1>0, <2>1
<1>14. /\ Adds(T, c, s6, 3) /\ (~s6.err => ~s5.err)
       /\ ~s6.err => /\ Top(c, s6, 1) = Top(c, s5, 1) /\ Top(c, s6, 2) = Top(c, s5, 2)
                     /\ Top(c, s6, 3) = Top(s5, s6, 1)
  <2>1. /\ Adds(T, c, s6, 2 + 1) /\ (~s6.err => ~s5.err)
        /\ ~s6.err => \A j \in 1 .. 2 : Top(c, s6, j) = Top(c, s5, j)
        /\ ~s6.err => Top(c, s6, 2 + 1) = Top(s5, s6, 1)
    BY <1>9, <1>13, Plus, Arities, ToksHave
  <2> QED
    BY <1>0, <2>1
<1>15. ASSUME ~s6.err PROVE Stated(x)
  <2>1. \A j \in 1 .. 3 : Latest(s6, 3)[j] = Top(c, s6, j)
    BY <1>14, <1>15, MadeAdds, Arities, ToksHave
  <2>2. v[1] = Top(c, s6, 1) /\ v[2] = Top(c, s6, 2) /\ v[3] = Top(c, s6, 3)
    BY <1>0, <1>16, <2>1
  <2>3. v[1] \in Texts
    BY <1>6, <1>11, <1>12, <1>13, <1>14, <1>15, <2>2
  <2>4. v[2] \in Texts
    BY <1>8, <1>13, <1>14, <1>15, <2>2
  <2>5. v[3] \in Seq(Texts)
    BY <1>9, <1>14, <1>15, <2>2
  <2> QED
    BY <1>2, <1>3, <2>3, <2>4, <2>5, Zenon DEF Stated
<1> QED
  BY <1>1, <1>14, <1>15, SaysMade, Arities

LEMMA CreateSays ==
  ASSUME NEW T, IsToks(T), NEW c, Reads(T, c)
  PROVE  Says(T, c, ParseCreate(c))
<1> DEFINE s1 == Advance(c)
<1>1. Adds(T, c, s1, 0) /\ Reads(T, s1)
  BY AdvanceIs DEF Adds
<1>2. CASE Sees(s1, "UNIQUE") \/ Sees(s1, "INDEX")
  <2>1. ParseCreate(c) = ParseCreateIndex(s1)
    BY <1>2, Zenon DEF ParseCreate
  <2> HIDE DEF s1
  <2>2. Says(T, s1, ParseCreateIndex(s1))
    BY <1>1, CreateIndexSays
  <2>3. Says(T, c, ParseCreateIndex(s1))
    BY <1>1, <2>2, SaysOn
  <2> QED
    BY <2>1, <2>3, Zenon
<1>3. CASE ~ (Sees(s1, "UNIQUE") \/ Sees(s1, "INDEX"))
  <2> DEFINE item == Everywhere(T, ParseColumnDef)
             s2 == Skip(s1, "TABLE")
             s3 == ParseName(s2)
             s4 == Parenthesised(s3, item)
             v == Latest(s4, 2)
             x == [stmt |-> "create", table |-> v[1], columns |-> v[2]]
             w == Top(s3, s4, 1)
  <2>0. 1 + 1 = 2 /\ 1 \in 1 .. 2 /\ 2 \in 1 .. 2 /\ 1 \in 1 .. 1
    OBVIOUS
  <2>1. ParseCreate(c) = Made(s4, 2, x)
    <3>1. c.toks = T
      BY ReadsHas
    <3> QED
      BY <1>3, <3>1, Zenon DEF ParseCreate, Makes, Made
  <2>2. x.stmt = "create" /\ x.table = v[1] /\ x.columns = v[2]
    <3> HIDE DEF v
    <3> QED
      OBVIOUS
  <2>3. IsItems(T, item) /\ \A y : Item(T, item, y) => y \in Columns
    BY ColumnDefsAre
  <2> HIDE DEF item, s1
  <2>4. Adds(T, s1, s2, 0) /\ Reads(T, s2)
    BY <1>1, SkipAdds DEF Adds
  <2> HIDE DEF s2
  <2>5. Adds(T, s2, s3, 1) /\ Reads(T, s3) /\ (~s3.err => Top(s2, s3, 1) \in Texts)
    BY <2>4, NameAdds DEF Adds
  <2> HIDE DEF s3
  <2>6. /\ Adds(T, s3, s4, 1)
        /\ ~s4.err => Stack(w) /\ \A i \in 1 .. Len(w) : Item(T, item, w[i])
    BY <2>3, <2>5, ParenthesisedAdds
  <2>7. v = Latest(s4, 2) /\ w = Top(s3, s4, 1)
    OBVIOUS
  <2> HIDE DEF s4, v, x, w
  <2>8. ~s4.err => w \in Seq(Columns)
    BY <2>3, <2>6, StackIn
  <2>9. Adds(T, c, s2, 0)
    BY <1>1, <2>4, On, Arities, ToksHave
  <2>10. Adds(T, c, s3, 1) /\ (~s3.err => Top(c, s3, 1) = Top(s2, s3, 1))
    BY <2>0, <2>5, <2>9, On, Arities, ToksHave
  <2>11. /\ Adds(T, c, s4, 2) /\ (~s4.err => ~s3.err)
         /\ ~s4.err => Top(c, s4, 1) = Top(c, s3, 1) /\ Top(c, s4, 2) = Top(s3, s4, 1)
    <3>1. /\ Adds(T, c, s4, 1 + 1) /\ (~s4.err => ~s3.err)
          /\ ~s4.err => \A j \in 1 .. 1 : Top(c, s4, j) = Top(c, s3, j)
          /\ ~s4.err => Top(c, s4, 1 + 1) = Top(s3, s4, 1)
      BY <2>6, <2>10, Plus, Arities, ToksHave
    <3> QED
      BY <2>0, <3>1
  <2>12. ASSUME ~s4.err PROVE Stated(x)
    <3>1. \A j \in 1 .. 2 : Latest(s4, 2)[j] = Top(c, s4, j)
      BY <2>11, <2>12, MadeAdds, Arities, ToksHave
    <3>2. v[1] = Top(c, s4, 1) /\ v[2] = Top(c, s4, 2)
      BY <2>0, <2>7, <3>1
    <3>3. v[1] \in Texts
      BY <2>5, <2>10, <2>11, <2>12, <3>2
    <3>4. v[2] \in Seq(Columns)
      BY <2>7, <2>8, <2>11, <2>12, <3>2
    <3> QED
      BY <2>2, <3>3, <3>4, Zenon DEF Stated
  <2>13. Says(T, c, Made(s4, 2, x))
    BY <2>11, <2>12, SaysMade, Arities
  <2> QED
    BY <2>1, <2>13, Zenon
<1> QED
  BY <1>2, <1>3

LEMMA TxnSays ==
  ASSUME NEW T, IsToks(T), NEW c, Reads(T, c), NEW stmt \in {"begin", "commit", "rollback"}
  PROVE  Says(T, c, ParseTxn(c, stmt))
<1> DEFINE s1 == Advance(c)
           s2 == Accept(s1, "TRANSACTION")
           x == [stmt |-> stmt]
           r == Returns(s2, x)
<1>1. ParseTxn(c, stmt) = r
  BY Zenon DEF ParseTxn
<1>2. Adds(T, c, s1, 0) /\ Reads(T, s1)
  BY AdvanceIs DEF Adds
<1> HIDE DEF s1
<1>3. Adds(T, s1, s2, 0) /\ Reads(T, s2)
  BY <1>2, AcceptAdds DEF Adds
<1> HIDE DEF s2
<1>4. x.stmt = stmt
  OBVIOUS
<1> HIDE DEF x
<1>5. Stated(x)
  BY <1>4 DEF Stated
<1>6. Adds(T, s2, r, 1) /\ r.err = s2.err /\ (~s2.err => Top(s2, r, 1) = x)
  BY <1>3, ReturnsAdds, ToksHave
<1> HIDE DEF r
<1>7. Says(T, s2, r)
  BY <1>5, <1>6 DEF Says
<1>8. Says(T, s1, r)
  BY <1>3, <1>7, SaysOn
<1>9. Says(T, c, r)
  BY <1>2, <1>8, SaysOn
<1> QED
  BY <1>1, <1>9, Zenon

\* EXPLAIN says what is read further on.
LEMMA ExplainSays ==
  ASSUME NEW T, IsToks(T), NEW p \in 1 .. Size(T), NEW f, NEW g,
         Agree("statement", T, T, p, f, g), Peek(StartAt(T, p)).kind = "EXPLAIN"
  PROVE  /\ ParseExplain(StartAt(T, p), f) = ParseExplain(StartAt(T, p), g)
         /\ Says(T, StartAt(T, p), ParseExplain(StartAt(T, p), f))
<1> DEFINE c == StartAt(T, p)
           d == Advance(c)
           e == Advance(d)
           b == IF Sees(d, "QUERY") THEN Skip(e, "PLAN") ELSE d
           a1 == Call(b, f)
           a2 == Call(b, g)
           x1 == [stmt |-> "explain", of |-> Latest(a1, 1)[1]]
           x2 == [stmt |-> "explain", of |-> Latest(a2, 1)[1]]
           r == ParseExplain(c, f)
           s == ParseExplain(c, g)
           q == b.pos
<1>1. Size(T) \in Nat /\ Reads(T, c) /\ c.pos = p
  BY StartReads, ToksHave
<1>2. r = Made(a1, 1, x1) /\ s = Made(a2, 1, x2)
  BY Zenon DEF ParseExplain, Makes, Made
<1>3. x1.stmt = "explain"
  OBVIOUS
<1>4. Adds(T, c, d, 0) /\ Reads(T, d) /\ d.pos > p
  <2>1. Peek(c).kind # "EOF"
    OBVIOUS
  <2> QED
    BY <1>1, <2>1, AdvanceIs DEF Adds
<1> HIDE DEF c, r, s
<1>5. Adds(T, d, b, 0) /\ Reads(T, b)
  <2>1. Adds(T, d, d, 0)
    BY <1>1, <1>4, SameAdds
  <2>2. Adds(T, d, Skip(e, "PLAN"), 0)
    <3> HIDE DEF d
    <3>1. Adds(T, d, e, 0) /\ Reads(T, e)
      BY <1>4, AdvanceIs DEF Adds
    <3> HIDE DEF e
    <3>2. Adds(T, e, Skip(e, "PLAN"), 0)
      BY <3>1, SkipAdds
    <3> QED
      BY <3>1, <3>2, On, Arities, ToksHave
  <2>3. b = d \/ b = Skip(e, "PLAN")
    OBVIOUS
  <2> HIDE DEF b, d, e
  <2> QED
    BY <2>1, <2>2, <2>3 DEF Adds
<1> HIDE DEF b, d, e
<1>6. q \in p + 1 .. Size(T)
  <2>1. d.pos <= q
    BY <1>5 DEF Adds
  <2>2. d.pos \in 1 .. Size(T) /\ q \in 1 .. Size(T)
    BY <1>4, <1>5, ReadsHas
  <2> QED
    BY <1>1, <1>4, <2>1, <2>2
<1>7. f[q] = g[q] /\ Good("statement", T, T, q, f[q])
  <2> HIDE DEF q
  <2> QED
    BY <1>6 DEF Agree
<1>8. a1 = a2
  BY <1>7, Zenon DEF Call
<1>9. Adds(T, StartAt(T, q), f[q], 1)
  <2>1. "statement" \notin {"items", "constraints", "expression"}
    OBVIOUS
  <2> QED
    BY <1>7, <2>1, Zenon DEF Good
<1>10. Adds(T, b, a1, 1)
  BY <1>1, <1>5, <1>9, CallAdds, Arities
<1>11. x1 = x2
  BY <1>8
<1> HIDE DEF a1, a2, x1, x2
<1>12. Stated(x1)
  BY <1>3 DEF Stated
<1>13. Adds(T, d, a1, 1)
  BY <1>5, <1>10, On, Arities, ToksHave
<1>14. Adds(T, c, a1, 1)
  BY <1>4, <1>13, On, Arities, ToksHave
<1>15. Says(T, c, r)
  BY <1>2, <1>12, <1>14, SaysMade, Arities
<1>16. r = s
  BY <1>2, <1>8, <1>11
<1> QED
  BY <1>15, <1>16, Zenon DEF c, r, s

LEMMA StmtCases ==
  ASSUME NEW c, NEW read
  PROVE  LET kind == Peek(c).kind IN
         \/ kind = "EXPLAIN" /\ ParseStmt(c, read) = ParseExplain(c, read)
         \/ /\ kind # "EXPLAIN"
            /\ \/ ParseStmt(c, read) \in {ParseSelect(c), ParseInsert(c), ParseUpdate(c),
                                         ParseDelete(c), ParseCreate(c)}
               \/ \E stmt \in {"begin", "commit", "rollback"} : ParseStmt(c, read) = ParseTxn(c, stmt)
               \/ ParseStmt(c, read) = Failed(c)
<1> DEFINE kind == Peek(c).kind
           X == ParseStmt(c, read)
<1>1. ASSUME kind = "EXPLAIN" PROVE X = ParseExplain(c, read)
  <2>1. /\ kind # "SELECT" /\ kind # "INSERT" /\ kind # "UPDATE" /\ kind # "DELETE" /\ kind # "CREATE"
        /\ kind # "BEGIN" /\ kind \notin {"COMMIT", "END"} /\ kind # "ROLLBACK"
    BY <1>1
  <2> QED
    BY <1>1, <2>1, Zenon DEF ParseStmt
<1>2. ASSUME kind # "EXPLAIN"
      PROVE  \/ X \in {ParseSelect(c), ParseInsert(c), ParseUpdate(c), ParseDelete(c), ParseCreate(c)}
             \/ \E stmt \in {"begin", "commit", "rollback"} : X = ParseTxn(c, stmt)
             \/ X = Failed(c)
  <2> DEFINE a == ParseSelect(c)
             b == ParseInsert(c)
             d == ParseUpdate(c)
             e == ParseDelete(c)
             f == ParseCreate(c)
             g == ParseTxn(c, "begin")
             h == ParseTxn(c, "commit")
             i == ParseTxn(c, "rollback")
             j == Failed(c)
             k == ParseExplain(c, read)
  <2>1. X = CASE kind = "SELECT" -> a [] kind = "INSERT" -> b [] kind = "UPDATE" -> d
              [] kind = "DELETE" -> e [] kind = "CREATE" -> f [] kind = "EXPLAIN" -> k
              [] kind = "BEGIN" -> g [] kind \in {"COMMIT", "END"} -> h
              [] kind = "ROLLBACK" -> i [] OTHER -> j
    BY Zenon DEF ParseStmt
  <2> HIDE DEF a, b, d, e, f, g, h, i, j, k, X, kind
  <2>2. X \in {a, b, d, e, f, g, h, i, j}
    BY <1>2, <2>1
  <2> QED
    BY <2>2, Zenon DEF a, b, d, e, f, g, h, i, j
<1> QED
  BY <1>1, <1>2, Zenon

LEMMA StatementsLook ==
  ASSUME NEW T, IsToks(T)
  PROVE  LooksOn("statement", T, T)
<1> SUFFICES ASSUME NEW p \in 1 .. Size(T), NEW f, NEW g, Agree("statement", T, T, p, f, g)
             PROVE  /\ Reading("statement", T, T, f, p) = Reading("statement", T, T, g, p)
                    /\ Good("statement", T, T, p, Reading("statement", T, T, f, p))
  BY Zenon DEF LooksOn
<1> DEFINE c == StartAt(T, p)
           kind == Peek(c).kind
           r == ParseStmt(c, f)
           s == ParseStmt(c, g)
<1>0. "statement" # "items" /\ "statement" # "constraints" /\ "statement" # "expression"
  OBVIOUS
<1>1. Reading("statement", T, T, f, p) = r /\ Reading("statement", T, T, g, p) = s
  BY <1>0, Zenon DEF Reading
<1>2. Reads(T, c) /\ Top(c, r, 1) = r.vals[1]
  BY StartReads, StartTop, Arities
<1>3. SUFFICES r = s /\ Says(T, c, r)
  <2> SUFFICES ASSUME r = s, Says(T, c, r) PROVE Good("statement", T, T, p, r)
    BY <1>1, Zenon
  <2> HIDE DEF r
  <2>1. Adds(T, c, r, 1) /\ (~r.err => Stated(r.vals[1]))
    BY <1>2 DEF Says
  <2> QED
    BY <1>0, <2>1, Zenon DEF Good
<1>4. CASE kind = "EXPLAIN"
  <2>1. r = ParseExplain(c, f) /\ s = ParseExplain(c, g)
    BY <1>4, StmtCases, Zenon
  <2>2. ParseExplain(c, f) = ParseExplain(c, g) /\ Says(T, c, ParseExplain(c, f))
    BY <1>4, ExplainSays
  <2> QED
    BY <2>1, <2>2, Zenon
<1>5. CASE kind # "EXPLAIN"
  <2>1. r = s
    BY <1>5, Zenon DEF ParseStmt
  <2>2. \/ r \in {ParseSelect(c), ParseInsert(c), ParseUpdate(c), ParseDelete(c), ParseCreate(c)}
        \/ \E stmt \in {"begin", "commit", "rollback"} : r = ParseTxn(c, stmt)
        \/ r = Failed(c)
    BY <1>5, StmtCases, Zenon
  <2> HIDE DEF r, s, c
  <2>3. /\ Says(T, c, ParseSelect(c)) /\ Says(T, c, ParseInsert(c)) /\ Says(T, c, ParseUpdate(c))
        /\ Says(T, c, ParseDelete(c)) /\ Says(T, c, ParseCreate(c))
    BY <1>2, SelectSays, InsertSays, UpdateSays, DeleteSays, CreateSays
  <2>4. \A stmt \in {"begin", "commit", "rollback"} : Says(T, c, ParseTxn(c, stmt))
    BY <1>2, TxnSays
  <2>5. Says(T, c, Failed(c))
    BY <1>2, FailedAdds, ToksHave DEF Says
  <2>6. Says(T, c, r)
    BY <2>2, <2>3, <2>4, <2>5
  <2> QED
    BY <2>1, <2>6, Zenon DEF c, r, s
<1> QED
  BY <1>4, <1>5

LEMMA StatementsAre ==
  ASSUME NEW T, IsToks(T)
  PROVE  \A p \in 1 .. Size(T) : Good("statement", T, T, p, StatementFrom(T)[p])
<1> DEFINE Right(h) == IsReading("statement", T, T, h)
           h == StatementFrom(T)
<1>1. Size(T) \in Nat /\ LooksOn("statement", T, T)
  BY StatementsLook, ToksHave
<1>2. \E r : Right(r)
  BY <1>1, ReadingIs
<1>3. h = CHOOSE r : Right(r)
  <2>1. 1 .. Size(T) = DOMAIN T
    BY DEF IsToks
  <2> DEFINE One(r, pos) == ParseStmt(StartAt(T, pos), r)
  <2>2. h = CHOOSE r : r = [pos \in DOMAIN T |-> One(r, pos)]
    BY Zenon DEF StatementFrom
  <2>3. \A r, p : One(r, p) = Reading("statement", T, T, r, p)
    <3>1. "statement" # "items" /\ "statement" # "constraints" /\ "statement" # "expression"
      OBVIOUS
    <3> QED
      BY <3>1, Zenon DEF Reading
  <2> HIDE DEF One
  <2>5. \A r : [pos \in DOMAIN T |-> One(r, pos)]
                 = [p \in DOMAIN T |-> Reading("statement", T, T, r, p)]
    BY <2>3, Zenon
  <2>4. h = CHOOSE r : r = [p \in DOMAIN T |-> Reading("statement", T, T, r, p)]
    BY <2>2, <2>5, Zenon
  <2> QED
    BY <2>1, <2>4, Zenon DEF IsReading
<1> HIDE DEF Right
<1>4. Right(h)
  BY <1>2, <1>3, Zenon
<1> HIDE DEF h
<1> QED
  BY <1>1, <1>4, ReadingGood DEF h, Right

LEMMA ParseSays ==
  ASSUME NEW T, IsToks(T)
  PROVE  Parse(T) = None \/ Stated(Parse(T))
<1> DEFINE c == StartAt(T, 1)
           x == StatementFrom(T)[1]
           a == Accept(x, "SEMICOLON")
<1>1. 1 \in 1 .. Size(T)
  BY DEF IsToks
<1>2. Good("statement", T, T, 1, x)
  BY <1>1, StatementsAre
<1>3. Parse(T) = IF Sees(a, "EOF") THEN a.vals[1] ELSE None
  BY Zenon DEF Parse, Whole
<1> HIDE DEF x
<1>4. Adds(T, c, x, 1) /\ (~x.err => Stated(x.vals[1]))
  <2>1. "statement" # "items" /\ "statement" # "constraints" /\ "statement" # "expression"
    OBVIOUS
  <2> QED
    BY <1>2, <2>1, Zenon DEF Good
<1>5. Adds(T, x, a, 0) /\ a.err = x.err
  BY <1>4, AcceptAdds DEF Adds
<1> HIDE DEF a
<1>6. /\ Adds(T, c, a, 1) /\ (~a.err => ~x.err)
      /\ ~a.err => Top(c, a, 1) = Top(c, x, 1)
  <2>1. 1 \in 1 .. 1
    OBVIOUS
  <2> HIDE DEF c
  <2> QED
    BY <1>4, <1>5, <2>1, Off, Arities, ToksHave
<1>7. Top(c, a, 1) = a.vals[1] /\ Top(c, x, 1) = x.vals[1]
  BY <1>1, StartTop, Arities
<1>8. CASE Sees(a, "EOF")
  <2>1. ~a.err
    BY <1>8 DEF Sees
  <2> QED
    BY <1>3, <1>4, <1>6, <1>7, <1>8, <2>1
<1>9. CASE ~Sees(a, "EOF")
  BY <1>3, <1>9
<1> QED
  BY <1>8, <1>9

-----------------------------------------------------------------------------
(* The tokens of a text.                                                   *)

LEMMA LexIsToks ==
  ASSUME NEW src \in Seq(Characters)
  PROVE  IsToks(Lex(src))
<1> DEFINE N == Len(src) + 1
           f == TokensFrom(src)
           E == Entries(src)
           Ends1(t) == t[Len(t)].kind = "EOF"
           S == {p \in 1 .. N : Ends1(f[p])}
<1>1. Len(src) \in Nat /\ N \in Nat /\ 1 \in 1 .. N /\ N = Len(src) + 1
  BY CharsAt
<1>2. \A p \in 1 .. N : f[p] = TokensOf(src, f, p) /\ SkipTrivia(src)[p] \in p .. N
  BY TokensIs, TriviaIs
<1>3. \A p \in 1 .. N : f[p] \in Seq(E) /\ f[p] # << >>
  BY TokensRange
<1> HIDE DEF f
<1>4. ASSUME NEW p \in 1 .. N, \A q \in p + 1 .. N : q \in S
      PROVE  p \in S
  <2> DEFINE start == SkipTrivia(src)[p]
             next == ScanToken(src, start).next
             entry == Entry(ScanToken(src, start))
  <2> SUFFICES Ends1(f[p])
    OBVIOUS
  <2>1. CASE start > Len(src)
    <3>1. f[p] = <<Last1>>
      BY <1>2, <2>1 DEF TokensOf
    <3> QED
      BY <3>1 DEF Last1
  <2>2. CASE ~ (start > Len(src))
    <3>1. f[p] = <<entry>> \o f[next]
      BY <1>2, <2>2 DEF TokensOf
    <3>2. start \in 1 .. Len(src) /\ start \in p .. N
      <4>1. start \in p .. N
        BY <1>2
      <4> HIDE DEF start
      <4> QED
        BY <1>1, <2>2, <4>1
    <3>3. entry \in E
      BY <3>2 DEF Entries
    <3>4. next \in start + 1 .. Len(src) + 1
      <4> HIDE DEF start
      <4> QED
        BY <3>2, ScanLeads DEF Fits
    <3> HIDE DEF start, next, entry
    <3>5. next \in p + 1 .. N /\ next \in 1 .. N
      BY <1>1, <3>2, <3>4
    <3>6. Ends1(f[next])
      BY <1>4, <3>5
    <3> DEFINE t == f[next]
               one == <<entry>>
    <3>7. t \in Seq(E) /\ t # << >> /\ one \in Seq(E) /\ Len(one) = 1
      BY <1>3, <3>3, <3>5
    <3>8. t[Len(t)].kind = "EOF" /\ f[p] = one \o t
      BY <3>1, <3>6
    <3> HIDE DEF t, one, E, f
    <3>9. Len(t) \in Nat /\ Len(t) >= 1
      BY <3>7
    <3>10. Len(one \o t) = 1 + Len(t) /\ (one \o t)[1 + Len(t)] = t[Len(t)]
      <4>1. Stack(one) /\ Stack(t)
        BY <3>7, Zenon DEF Stack
      <4>2. Len(t) \in 1 .. Len(t)
        BY <3>9
      <4> DEFINE u == one \o t
                 n == Len(t)
      <4>3. Len(u) = Len(one) + n /\ \A i \in 1 .. n : u[Len(one) + i] = t[i]
        BY <4>1, StackJoin
      <4>4. Len(one) = 1 /\ n \in Nat
        BY <3>7, <3>9
      <4>5. Len(u) = 1 + n /\ u[1 + n] = t[n]
        <5> HIDE DEF u, n
        <5> QED
          BY <4>2, <4>3, <4>4 DEF n
      <4> QED
        BY <4>5
    <3> QED
      BY <3>8, <3>10
  <2> QED
    BY <2>1, <2>2
<1>5. \A p \in 1 .. N : p \in S
  <2> HIDE DEF S, N
  <2> QED
    BY <1>1, <1>4, Downwards
<1>6. ASSUME NEW e \in E PROVE e.text \in Texts
  <2>1. CASE e = Last1
    <3>1. << >> \in Texts
      BY DEF Texts
    <3> QED
      BY <2>1, <3>1 DEF Last1
  <2>2. CASE \E p \in 1 .. Len(src) : e = Entry(ScanToken(src, p))
    <3>1. PICK p \in 1 .. Len(src) : e = Entry(ScanToken(src, p))
      BY <2>2
    <3>2. ScanToken(src, p).text \in Seq(Characters)
      BY ScanLeads DEF Fits
    <3> QED
      BY <3>1, <3>2 DEF Entry, Texts
  <2> QED
    BY <2>1, <2>2 DEF Entries
<1> DEFINE T == f[1]
<1>7. T \in Seq(E) /\ T # << >> /\ T[Len(T)].kind = "EOF"
  BY <1>1, <1>3, <1>5
<1>8. Lex(src) = T
  BY Zenon DEF Lex, f
<1> HIDE DEF T, E
<1>9. Len(T) \in Nat /\ Len(T) # 0 /\ DOMAIN T = 1 .. Len(T) /\ \A i \in 1 .. Len(T) : T[i] \in E
  BY <1>7
<1>10. \A i \in 1 .. Len(T) : T[i].text \in Texts
  BY <1>6, <1>9
<1>11. IsToks(T)
  BY <1>7, <1>9, <1>10 DEF IsToks, Size
<1> QED
  BY <1>8, <1>11

\* What the lexer and the parser make of a text, any at all, is a statement with all that the
\* engine takes from it, or nothing (parser.go, Parse and parseStatement): every function of
\* the parser returns as many values as its caller takes.
THEOREM StatementSays ==
  ASSUME NEW text \in Seq(Characters)
  PROVE  Statement(text) = None \/ Stated(Statement(text))
<1> DEFINE T == Lex(text)
<1>1. IsToks(T)
  BY LexIsToks
<1>2. Statement(text) = IF LexFails(T) THEN None ELSE Parse(T)
  BY Zenon DEF Statement, Checked
<1> HIDE DEF T
<1>3. Parse(T) = None \/ Stated(Parse(T))
  BY <1>1, ParseSays
<1> QED
  BY <1>2, <1>3, Zenon

-----------------------------------------------------------------------------
(* The session from line to line.                                          *)

\* Pages within the bound; what is left of a session when no process runs.
Allowed(p) == p.next <= MaxPages + 1
Unopened(p) == [cat |-> NewCatalog, claimed |-> {}, pages |-> p]
Saves(p) == Sound(p) /\ Allowed(p)

\* What is open of the saved pages p: outside of a transaction, they themselves.
Opens(on, txn, s, p) ==
  /\ on => (Kept(s) /\ Allowed(s.pages))
  /\ (on /\ ~txn) => s.pages = p
  /\ ~on => s = Unopened(p)

\* What is shown to the user.
Reports(on, txn, typed, l) ==
  /\ on \in BOOLEAN /\ txn \in BOOLEAN
  /\ Len(typed) <= MaxPending /\ l.ok \in BOOLEAN /\ DOMAIN l = DOMAIN Nothing

\* What holds after every line.
SavedInv == Saves(saved)
OpenInv == Opens(running, inTxn, session, saved)
ReportInv == Reports(running, inTxn, buf, last)
SessionInv == SavedInv /\ OpenInv /\ ReportInv /\ ScannerInv

LEMMA DatabaseIs ==
  ASSUME NEW p, IsDatabase(p)
  PROVE  Saves(p)
<1>1. /\ p = [schema |-> p.schema, trees |-> p.trees, next |-> p.next]
      /\ p.next \in 1 .. MaxPages + 1 /\ DOMAIN p.trees \subseteq 1 .. p.next - 1
      /\ \A root \in DOMAIN p.trees : p.trees[root] \in Seq(Seq(Int))
  BY Zenon DEF IsDatabase
<1>2. MaxPages \in Nat
  BY ShellAssumption DEF ShellAssumption
<1>3. p.next \in Nat \ {0} /\ p.next <= MaxPages + 1
  BY <1>1, <1>2
<1>4. \A root \in DOMAIN p.trees : Stack(p.trees[root])
  BY <1>1, Zenon DEF Stack
<1>5. Paged(p)
  BY <1>1, <1>3, <1>4, Zenon DEF Paged
<1>6. PICK cat \in Unmarshal(p.schema) :
        /\ cat.tables \subseteq Tables /\ cat.indexes \subseteq Indexes
        /\ IsFiniteSet(cat.tables) /\ IsFiniteSet(cat.indexes)
        /\ \A t \in cat.tables : t.root \in DOMAIN p.trees
        /\ \E form \in Marshals(cat) :
             /\ Len(form) <= PageSize
             /\ p.schema = form \o Zeros(PageSize - Len(form))
  BY Zenon DEF IsDatabase
<1>7. \E a, b : cat = [tables |-> a, indexes |-> b]
  BY Zenon DEF Unmarshal
<1>8. TypedCat(cat)
  BY <1>6, <1>7 DEF TypedCat
<1>9. HasSchema(p, cat) /\ Rooted(p, cat)
  BY <1>6, <1>8, Zenon DEF HasSchema, Rooted
<1> QED
  BY <1>3, <1>5, <1>9 DEF Saves, Allowed, Sound

LEMMA Reopened ==
  ASSUME NEW p, Saves(p), NEW txn
  PROVE  Opens(TRUE, txn, Reload(p), p)
<1>1. Kept(Reload(p)) /\ Reload(p).pages = p
  BY ReloadKeeps DEF Saves
<1> QED
  BY <1>1, Zenon DEF Opens, Saves

\* The session's invariant.
LEMMA SessionInit == Init => SessionInv
<1> SUFFICES ASSUME Init PROVE SessionInv
  OBVIOUS
<1>1. /\ running = TRUE /\ buf = << >> /\ inTxn = FALSE /\ last = Nothing
      /\ saved \in Files /\ session = Reload(saved)
  BY DEF Init
<1>2. SavedInv
  BY <1>1, DatabaseIs, ShellAssumption DEF ShellAssumption, SavedInv
<1>3. OpenInv
  BY <1>1, <1>2, Reopened, Zenon DEF OpenInv, SavedInv
<1>4. ReportInv
  <2>1. Len(buf) <= MaxPending
    BY <1>1, ShellAssumption DEF ShellAssumption
  <2>2. Nothing.ok \in BOOLEAN
    BY DEF Nothing
  <2> QED
    BY <1>1, <2>1, <2>2 DEF ReportInv, Reports
<1> QED
  BY <1>2, <1>3, <1>4, ScannerInit DEF SessionInv

LEMMA Reported ==
  ASSUME ReportInv, NEW typed, NEW st, NEW ok \in BOOLEAN, NEW rows,
         Report(typed, st, ok, rows), inTxn' \in BOOLEAN
  PROVE  ReportInv' /\ running' = running
<1>1. /\ last' = [typed |-> typed, text |-> Text(typed), stmt |-> st, ok |-> ok, rows |-> rows]
      /\ buf' = << >> /\ running' = running
  BY DEF Report
<1>2. last'.ok \in BOOLEAN
  BY <1>1
<1>3. DOMAIN last' = DOMAIN Nothing
  BY <1>1 DEF Nothing
<1>4. Len(buf') <= MaxPending
  BY <1>1, ShellAssumption DEF ShellAssumption
<1>5. running' \in BOOLEAN
  BY <1>1 DEF ReportInv, Reports
<1> QED
  BY <1>1, <1>2, <1>3, <1>4, <1>5, Zenon DEF ReportInv, Reports

LEMMA QuietLine ==
  ASSUME SavedInv, OpenInv, ReportInv, UNCHANGED <<running, session, saved, inTxn>>,
         last' = Nothing, Len(buf') <= MaxPending
  PROVE  SavedInv' /\ OpenInv' /\ ReportInv'
<1>1. SavedInv' /\ OpenInv'
  BY DEF SavedInv, OpenInv
<1>2. Nothing.ok \in BOOLEAN
  BY DEF Nothing
<1>3. ReportInv'
  BY <1>2 DEF ReportInv, Reports
<1> QED
  BY <1>1, <1>3

\* A statement that has been read to its semicolon.
LEMMA SubmitKeeps ==
  ASSUME SessionInv, NEW line \in Lines \cup Probes, Submit(line)
  PROVE  SavedInv' /\ OpenInv' /\ ReportInv'
<1> DEFINE typed == Push(line)
           st == Statement(Text(typed))
<1>1. /\ running /\ Complete(typed)
      /\ IF st = None THEN Refuse(typed, st)
         ELSE Begin(typed, st) \/ Commit(typed, st) \/ Rollback(typed, st) \/ Run(typed, st)
  BY Zenon DEF Submit, Read
<1>2. SavedInv /\ OpenInv /\ ReportInv /\ buf \in Seq(Characters)
  BY DEF SessionInv, ScannerInv
<1>3. typed \in Seq(Characters)
  BY <1>2, PushTyped
<1>4. st = None \/ Stated(st)
  <2> HIDE DEF typed
  <2>1. PICK k : Framed(Text(typed), TrimRight(typed), k)
    BY <1>1, <1>3, TextFramed
  <2>2. Text(typed) \in Seq(Characters)
    BY <2>1 DEF Framed
  <2> QED
    BY <2>2, StatementSays
<1> HIDE DEF typed, st
<1>5. /\ running = TRUE /\ inTxn \in BOOLEAN
      /\ Kept(session) /\ Allowed(session.pages) /\ Saves(saved)
  BY <1>1, <1>2, Zenon DEF SavedInv, OpenInv, ReportInv, Opens, Reports
<1>6. ~inTxn => session.pages = saved
  BY <1>1, <1>2, Zenon DEF OpenInv, Opens
<1>7. Saves(session.pages)
  BY <1>5, KeptIsSound DEF Saves
\* What is left to show of each statement.
<1>8. ASSUME NEW ok \in BOOLEAN, NEW rows, Report(typed, st, ok, rows), inTxn' \in BOOLEAN,
             Saves(saved'), Opens(TRUE, inTxn', session', saved')
      PROVE  SavedInv' /\ OpenInv' /\ ReportInv'
  <2>1. ReportInv' /\ running' = running
    BY <1>2, <1>8, Reported
  <2>2. SavedInv'
    BY <1>8 DEF SavedInv
  <2>3. OpenInv'
    BY <1>5, <1>8, <2>1, Zenon DEF OpenInv
  <2> QED
    BY <2>1, <2>2, <2>3
<1>9. CASE Refuse(typed, st)
  <2>1. Report(typed, st, FALSE, << >>) /\ session' = session /\ saved' = saved /\ inTxn' = inTxn
    BY <1>9, Zenon DEF Refuse
  <2>2. Opens(TRUE, inTxn', session', saved')
    BY <1>5, <1>6, <2>1, Zenon DEF Opens
  <2>3. inTxn' \in BOOLEAN /\ Saves(saved')
    BY <1>5, <2>1, Zenon
  <2> QED
    BY <1>8, <2>1, <2>2, <2>3
<1>10. CASE Begin(typed, st)
  <2>1. Report(typed, st, ~inTxn, << >>) /\ session' = session /\ saved' = saved /\ inTxn' = TRUE
    BY <1>10, Zenon DEF Begin
  <2>2. Opens(TRUE, inTxn', session', saved')
    BY <1>5, <2>1, Zenon DEF Opens
  <2>3. inTxn' \in BOOLEAN /\ Saves(saved') /\ (~inTxn) \in BOOLEAN
    BY <1>5, <2>1, Zenon
  <2> QED
    BY <1>8, <2>1, <2>2, <2>3
<1>11. CASE Commit(typed, st)
  <2>1. /\ Report(typed, st, inTxn, << >>) /\ session' = session /\ inTxn' = FALSE
        /\ saved' = IF inTxn THEN session.pages ELSE saved
    BY <1>11, Zenon DEF Commit
  <2>2. saved' = session.pages
    BY <1>6, <2>1, Zenon
  <2>3. Opens(TRUE, inTxn', session', saved')
    BY <1>5, <2>1, <2>2, Zenon DEF Opens
  <2>4. inTxn' \in BOOLEAN /\ Saves(saved')
    BY <1>7, <2>1, <2>2, Zenon
  <2> QED
    BY <1>5, <1>8, <2>1, <2>3, <2>4
<1>12. CASE Rollback(typed, st)
  <2>1. /\ Report(typed, st, inTxn, << >>) /\ saved' = saved /\ inTxn' = FALSE
        /\ session' = IF inTxn THEN Reload(saved) ELSE session
    BY <1>12, Zenon DEF Rollback
  <2>2. CASE inTxn
    <3>1. session' = Reload(saved)
      BY <2>1, <2>2, Zenon
    <3>2. Opens(TRUE, inTxn', Reload(saved), saved)
      BY <1>5, Reopened
    <3> QED
      BY <1>5, <1>8, <2>1, <3>1, <3>2, Zenon
  <2>3. CASE ~inTxn
    <3>1. session' = session
      BY <2>1, <2>3, Zenon
    <3>2. Opens(TRUE, inTxn', session', saved')
      BY <1>5, <1>6, <2>1, <2>3, <3>1, Zenon DEF Opens
    <3> QED
      BY <1>5, <1>8, <2>1, <3>2, Zenon
  <2> QED
    BY <2>2, <2>3
<1>13. CASE Run(typed, st) /\ st # None
  <2>1. PICK end \in Dispatch(session, st) :
          /\ Small(end.session)
          /\ Report(typed, st, end.ok, end.rows)
          /\ session' = IF end.ok \/ inTxn THEN end.session ELSE Reload(saved)
          /\ saved' = IF end.ok /\ ~inTxn THEN end.session.pages ELSE saved
    BY <1>13, Zenon DEF Run
  <2>2. st.stmt \notin Transactions /\ inTxn' = inTxn
    BY <1>13, Zenon DEF Run
  <2>3. AllWell(Dispatch(session, st))
    BY <1>4, <1>5, <1>13, <2>2, StatementsKeep
  <2>4. end.ok \in BOOLEAN /\ Kept(end.session)
    BY <2>1, <2>3, Zenon DEF AllWell, Well
  <2>5. Allowed(end.session.pages)
    BY <2>1, Zenon DEF Small, Allowed
  <2>6. Saves(end.session.pages)
    BY <2>4, <2>5, KeptIsSound DEF Saves
  <2>7. inTxn' \in BOOLEAN
    BY <1>5, <2>2, Zenon
  <2>8. CASE inTxn
    <3>1. session' = end.session /\ saved' = saved
      BY <2>1, <2>8, Zenon
    <3>2. Opens(TRUE, inTxn', session', saved')
      BY <2>2, <2>4, <2>5, <2>8, <3>1, Zenon DEF Opens
    <3> QED
      BY <1>5, <1>8, <2>1, <2>4, <2>7, <3>1, <3>2, Zenon
  <2>9. CASE ~inTxn /\ end.ok
    <3>1. session' = end.session /\ saved' = end.session.pages
      BY <2>1, <2>9, Zenon
    <3>2. Opens(TRUE, inTxn', session', saved')
      BY <2>4, <2>5, <3>1, Zenon DEF Opens
    <3> QED
      BY <1>8, <2>1, <2>4, <2>6, <2>7, <3>1, <3>2, Zenon
  <2>10. CASE ~inTxn /\ ~end.ok
    <3>1. session' = Reload(saved) /\ saved' = saved
      BY <2>1, <2>10, Zenon
    <3>2. Opens(TRUE, inTxn', Reload(saved), saved)
      BY <1>5, Reopened
    <3> QED
      BY <1>5, <1>8, <2>1, <2>4, <2>7, <3>1, <3>2, Zenon
  <2> QED
    BY <2>8, <2>9, <2>10
<1> QED
  BY <1>1, <1>9, <1>10, <1>11, <1>12, <1>13

LEMMA SessionStep == SessionInv /\ [Next]_vars => SessionInv'
<1> SUFFICES ASSUME SessionInv, [Next]_vars PROVE SavedInv' /\ OpenInv' /\ ReportInv'
  BY ScannerStep DEF SessionInv
<1>1. SavedInv /\ OpenInv /\ ReportInv
  BY DEF SessionInv
<1>2. CASE UNCHANGED vars
  BY <1>1, <1>2 DEF vars, SavedInv, OpenInv, ReportInv
<1>3. CASE Ends
  <2>1. /\ running' = FALSE /\ buf' = << >> /\ inTxn' = FALSE /\ last' = Nothing
        /\ session' = Unopened(saved) /\ saved' = saved
    BY <1>3, Zenon DEF Ends, Unopened
  <2>2. SavedInv'
    BY <1>1, <2>1 DEF SavedInv
  <2>3. OpenInv'
    BY <2>1, Zenon DEF OpenInv, Opens
  <2>4. Nothing.ok \in BOOLEAN /\ Len(<< >>) <= MaxPending
    BY ShellAssumption DEF Nothing, ShellAssumption
  <2>5. ReportInv'
    BY <2>1, <2>4, Zenon DEF ReportInv, Reports
  <2> QED
    BY <2>2, <2>3, <2>5
<1>4. CASE Open
  <2>1. /\ running' = TRUE /\ session' = Reload(saved)
        /\ buf' = buf /\ saved' = saved /\ inTxn' = inTxn /\ last' = last
    BY <1>4, Zenon DEF Open
  <2>2. SavedInv'
    BY <1>1, <2>1 DEF SavedInv
  <2>3. Opens(TRUE, inTxn, Reload(saved), saved)
    BY <1>1, Reopened DEF SavedInv
  <2>4. OpenInv'
    BY <2>1, <2>3, Zenon DEF OpenInv
  <2>5. ReportInv'
    BY <1>1, <2>1, Zenon DEF ReportInv, Reports
  <2> QED
    BY <2>2, <2>4, <2>5
<1>5. ASSUME NEW line \in Lines \cup Probes, Enter(line)
      PROVE  SavedInv' /\ OpenInv' /\ ReportInv'
  <2>1. CASE Quit(line)
    BY <1>3, <2>1 DEF Quit
  <2>2. CASE Continue(line)
    <3>1. /\ UNCHANGED <<running, session, saved, inTxn>> /\ last' = Nothing
          /\ Len(buf') <= MaxPending
      BY <2>2 DEF Continue
    <3> QED
      BY <1>1, <3>1, QuietLine
  <2>3. CASE Empty(line)
    <3>1. /\ UNCHANGED <<running, session, saved, inTxn>> /\ last' = Nothing /\ buf' = << >>
      BY <2>3 DEF Empty
    <3>2. Len(buf') <= MaxPending
      BY <3>1, ShellAssumption DEF ShellAssumption
    <3> QED
      BY <1>1, <3>1, <3>2, QuietLine
  <2>4. CASE Submit(line)
    BY <1>5, <2>4, SubmitKeeps
  <2> QED
    BY <1>5, <2>1, <2>2, <2>3, <2>4 DEF Enter
<1> QED
  BY <1>2, <1>3, <1>4, <1>5 DEF Next

LEMMA SessionAlways == Spec => []SessionInv
BY SessionInit, SessionStep, PTL DEF Spec

LEMMA PagesTyped ==
  ASSUME NEW p, Saves(p)
  PROVE  /\ Len(p.schema) = PageSize /\ p.next \in 1 .. MaxPages + 1
         /\ DOMAIN p.trees \subseteq 1 .. p.next - 1
<1>1. PICK c : HasSchema(p, c)
  BY DEF Saves, Sound
<1>2. Len(p.schema) = PageSize
  BY <1>1, SchemaIs
<1>3. /\ p.next \in Nat \ {0} /\ p.next <= MaxPages + 1
      /\ DOMAIN p.trees \subseteq 1 .. p.next - 1
  BY DEF Saves, Sound, Allowed, Paged
<1>4. MaxPages \in Nat
  BY ShellAssumption DEF ShellAssumption
<1>5. p.next \in 1 .. MaxPages + 1
  BY <1>3, <1>4
<1> QED
  BY <1>2, <1>3, <1>5

\* The pages of a session and of its file are pages of a database after every line: one
\* schema page, a page number for every tree and none beyond what has been allocated
\* (engine.go, Exec; pager.go, Allocate); what is reported is a result and the buffer
\* keeps within its bound.
THEOREM SessionTyped == Spec => []TypeOK
<1>1. SessionInv => TypeOK
  <2> SUFFICES ASSUME SessionInv PROVE TypeOK
    OBVIOUS
  <2>1. Saves(saved) /\ OpenInv /\ ReportInv
    BY DEF SessionInv, SavedInv
  <2>2. /\ running \in BOOLEAN /\ inTxn \in BOOLEAN
        /\ Len(buf) <= MaxPending /\ last.ok \in BOOLEAN /\ DOMAIN last = DOMAIN Nothing
    BY <2>1, Zenon DEF ReportInv, Reports
  <2>3. DOMAIN session = {"cat", "claimed", "pages"} /\ Saves(session.pages)
    <3>1. CASE running
      <4>1. Kept(session) /\ Allowed(session.pages)
        BY <2>1, <3>1, Zenon DEF OpenInv, Opens
      <4>2. session = [cat |-> session.cat, claimed |-> session.claimed, pages |-> session.pages]
        BY <4>1 DEF Kept, Shaped
      <4>3. DOMAIN session = {"cat", "claimed", "pages"}
        BY <4>2
      <4>4. Saves(session.pages)
        BY <4>1, KeptIsSound DEF Saves
      <4> QED
        BY <4>3, <4>4
    <3>2. CASE ~running
      <4>1. session = Unopened(saved)
        BY <2>1, <3>2, Zenon DEF OpenInv, Opens
      <4>2. DOMAIN session = {"cat", "claimed", "pages"} /\ session.pages = saved
        BY <4>1 DEF Unopened
      <4> QED
        BY <2>1, <4>2
    <3> QED
      BY <3>1, <3>2
  <2>4. \A pages \in {session.pages, saved} :
          /\ Len(pages.schema) = PageSize /\ pages.next \in 1 .. MaxPages + 1
          /\ DOMAIN pages.trees \subseteq 1 .. pages.next - 1
    BY <2>1, <2>3, PagesTyped
  <2> QED
    BY <2>2, <2>3, <2>4 DEF TypeOK
<1> QED
  BY <1>1, SessionAlways, PTL

\* The catalog is in its page: whatever order the maps are walked in, reading the page
\* gives the catalog back, and outside of a transaction the page has the session's, unless
\* that has grown past the page (catalog.go:90-242, engine.go:42-79).
THEOREM CatalogSurvives == Spec => []SchemaSurvives
<1>1. SessionInv => SchemaSurvives
  <2> SUFFICES ASSUME SessionInv PROVE SchemaSurvives
    OBVIOUS
  <2>1. OpenInv
    BY DEF SessionInv
  <2>2. TypedCat(session.cat)
    <3>1. CASE running
      BY <2>1, <3>1, Zenon DEF OpenInv, Opens, Kept, Shaped
    <3>2. CASE ~running
      <4>1. session = Unopened(saved)
        BY <2>1, <3>2, Zenon DEF OpenInv, Opens
      <4>2. session.cat = [tables |-> {}, indexes |-> {}]
        BY <4>1 DEF Unopened, NewCatalog
      <4>3. IsFiniteSet({})
        BY FS_EmptySet
      <4> QED
        BY <4>2, <4>3 DEF TypedCat
    <3> QED
      BY <3>1, <3>2
  <2>3. \A form \in Marshals(session.cat) : \A pad \in 0 .. 1 :
          Unmarshal(form \o Zeros(pad)) = {session.cat}
    <3> SUFFICES ASSUME NEW form \in Marshals(session.cat), NEW pad \in 0 .. 1
                 PROVE  Unmarshal(form \o Zeros(pad)) = {session.cat}
      OBVIOUS
    <3> DEFINE cat == session.cat
               rest == Zeros(pad)
    <3>1. rest \in Seq(Int)
      BY ZerosInts
    <3>2. /\ cat \in [tables : SUBSET Tables, indexes : SUBSET Indexes]
          /\ IsFiniteSet(cat.tables) /\ IsFiniteSet(cat.indexes)
      BY <2>2 DEF TypedCat
    <3>3. form \in Marshals(cat)
      OBVIOUS
    <3> HIDE DEF cat, rest
    <3>4. Unmarshal(form \o rest) = {cat}
      BY <3>1, <3>2, <3>3, SchemaReadBack
    <3> QED
      BY <3>4, Zenon DEF cat, rest
  <2>4. running => \E stored \in Unmarshal(session.pages.schema) :
          \/ stored = session.cat
          \/ /\ stored.tables \subseteq session.cat.tables
             /\ stored.indexes \subseteq session.cat.indexes
             /\ \A form \in Marshals(session.cat) : Len(form) > PageSize
    <3> SUFFICES ASSUME running
                 PROVE  \E stored \in Unmarshal(session.pages.schema) :
                          \/ stored = session.cat
                          \/ Grown(stored, session.cat) /\ Outgrows(session.cat)
      BY Zenon DEF Grown, Outgrows
    <3>1. Shows(session.pages, session.cat)
      BY <2>1, Zenon DEF OpenInv, Opens, Kept
    <3>2. PICK c : /\ HasSchema(session.pages, c)
                   /\ c = session.cat \/ (Grown(c, session.cat) /\ Outgrows(session.cat))
      BY <3>1, Zenon DEF Shows
    <3>3. c \in Unmarshal(session.pages.schema)
      BY <3>2, SchemaIs
    <3> QED
      BY <3>2, <3>3
  <2>5. (running /\ ~inTxn) => session.pages = saved
    BY <2>1, Zenon DEF OpenInv, Opens
  <2> QED
    BY <2>3, <2>4, <2>5, Zenon DEF SchemaSurvives
<1> QED
  BY <1>1, SessionAlways, PTL
=============================================================================
