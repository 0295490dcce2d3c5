---------------------------- MODULE ShellProofs ----------------------------
(***************************************************************************)
(* A session of the shell, whatever is typed: what the scanner takes for a *)
(* statement is a whole one to the lexer too.                              *)
(***************************************************************************)
EXTENDS Shell, ValuesProofs

-----------------------------------------------------------------------------
(* A text inside of a longer one.                                          *)

\* What can stand next to a text without being part of its last word.
Outside == Spaces \cup {Semicolon, NoCharacter}

\* The text begins after the first k characters, white space; white space and a
\* semicolon follow it.
Framed(part, src, k) ==
  /\ part \in Seq(Characters) /\ src \in Seq(Characters) /\ k \in Nat
  /\ k + Len(part) < Len(src)
  /\ \A i \in 1 .. k : src[i] \in Spaces
  /\ \A i \in 1 .. Len(part) : src[k + i] = part[i]
  /\ \A i \in k + Len(part) + 1 .. Len(src) - 1 : src[i] \in Spaces
  /\ src[Len(src)] = Semicolon

LEMMA CharsAt ==
  ASSUME NEW V, NEW s \in Seq(V)
  PROVE  /\ Len(s) \in Nat /\ DOMAIN s = 1 .. Len(s)
         /\ \A p \in 1 .. Len(s) : CharAt(s, p) = s[p] /\ s[p] \in V
         /\ \A p \in Nat : p > Len(s) => CharAt(s, p) = NoCharacter
<1>1. Len(s) \in Nat /\ DOMAIN s = 1 .. Len(s) /\ \A p \in 1 .. Len(s) : s[p] \in V
  OBVIOUS
<1> QED
  BY <1>1 DEF CharAt

LEMMA FramedChars ==
  ASSUME NEW part, NEW src, NEW k, Framed(part, src, k)
  PROVE  /\ Len(part) \in Nat /\ Len(src) \in Nat /\ k \in Nat /\ k + Len(part) < Len(src)
         /\ DOMAIN part = 1 .. Len(part) /\ DOMAIN src = 1 .. Len(src)
         /\ \A p \in 1 .. Len(part) :
              /\ CharAt(part, p) = part[p] /\ CharAt(src, k + p) = part[p]
              /\ src[k + p] = part[p]
         /\ CharAt(part, Len(part) + 1) = NoCharacter
         /\ CharAt(src, k + Len(part) + 1) \in Outside
<1>1. /\ part \in Seq(Characters) /\ src \in Seq(Characters) /\ k \in Nat
      /\ k + Len(part) < Len(src)
      /\ \A i \in 1 .. Len(part) : src[k + i] = part[i]
      /\ \A i \in k + Len(part) + 1 .. Len(src) - 1 : src[i] \in Spaces
      /\ src[Len(src)] = Semicolon
  BY DEF Framed
<1>2. /\ Len(part) \in Nat /\ DOMAIN part = 1 .. Len(part)
      /\ \A p \in 1 .. Len(part) : CharAt(part, p) = part[p]
      /\ CharAt(part, Len(part) + 1) = NoCharacter
  BY <1>1, CharsAt
<1>3. /\ Len(src) \in Nat /\ DOMAIN src = 1 .. Len(src)
      /\ \A p \in 1 .. Len(src) : CharAt(src, p) = src[p]
  BY <1>1, CharsAt
<1>4. ASSUME NEW p \in 1 .. Len(part)
      PROVE  CharAt(src, k + p) = part[p] /\ src[k + p] = part[p]
  <2>1. k + p \in 1 .. Len(src)
    BY <1>1, <1>2, <1>3
  <2> QED
    BY <2>1, <1>1, <1>3
<1>5. CharAt(src, k + Len(part) + 1) \in Outside
  <2> DEFINE q == k + Len(part) + 1
  <2>0. k \in Nat /\ Len(part) \in Nat /\ Len(src) \in Nat /\ k + Len(part) < Len(src)
    BY <1>1, <1>2, <1>3
  <2>1. q \in 1 .. Len(src) /\ (q = Len(src) \/ q \in q .. Len(src) - 1)
    <3> DEFINE m == Len(part)
               n == Len(src)
    <3> HIDE DEF m, n
    <3>1. k \in Nat /\ m \in Nat /\ n \in Nat /\ k + m < n
      BY <2>0 DEF m, n
    <3>2. k + m + 1 \in 1 .. n /\ (k + m + 1 = n \/ k + m + 1 \in k + m + 1 .. n - 1)
      BY <3>1
    <3> QED
      BY <3>2, Zenon DEF m, n
  <2>2. CharAt(src, q) = src[q]
    BY <2>1, <1>3
  <2>3. src[q] \in Spaces \cup {Semicolon}
    BY <2>1, <1>1
  <2> QED
    BY <2>2, <2>3 DEF Outside
<1> QED
  BY <1>1, <1>2, <1>3, <1>4, <1>5

\* A character of the text and the one that takes its place are in the same classes.
LEMMA SameClass ==
  ASSUME NEW part, NEW src, NEW k, Framed(part, src, k), NEW p \in 1 .. Len(part) + 1,
         NEW class, class \cap Outside = {}
  PROVE  CharAt(src, k + p) \in class <=> CharAt(part, p) \in class
<1>1. NoCharacter \in Outside
  BY DEF Outside
<1>2. CASE p = Len(part) + 1
  <2>1. k + p = k + Len(part) + 1
    BY <1>2, FramedChars
  <2> QED
    BY <1>1, <1>2, <2>1, FramedChars
<1>3. CASE p # Len(part) + 1
  BY <1>3, FramedChars
<1> QED
  BY <1>2, <1>3

-----------------------------------------------------------------------------
(* The end of a run of characters.                                         *)

LEMMA PastIs ==
  ASSUME NEW V, NEW src \in Seq(V), NEW p \in 1 .. Len(src) + 1, NEW class, NoCharacter \notin class
  PROVE  /\ Past(src, p, class) \in p .. Len(src) + 1
         /\ \A i \in p .. Past(src, p, class) - 1 : src[i] \in class
         /\ CharAt(src, Past(src, p, class)) \notin class
<1> DEFINE N == Len(src)
           Ends1(q) == /\ \A i \in p .. (q - 1) : src[i] \in class
                       /\ CharAt(src, q) \notin class
           out == {q \in p .. N + 1 : CharAt(src, q) \notin class}
<1>1. N \in Nat /\ p \in Nat /\ \A q \in 1 .. N : CharAt(src, q) = src[q]
  BY CharsAt
<1>2. N + 1 \in out
  BY <1>1, CharsAt
<1>3. out \in SUBSET Nat
  BY <1>1
<1>4. PICK q \in out : \A r \in out : q <= r
  <2> HIDE DEF out
  <2> QED
    BY <1>2, <1>3, LeastNat
<1>5. q \in p .. N + 1 /\ Ends1(q)
  <2>1. ASSUME NEW i \in p .. (q - 1) PROVE src[i] \in class
    <3>1. i \in 1 .. N /\ i \notin out
      BY <1>1, <1>4
    <3> QED
      BY <3>1, <1>1
  <2> QED
    BY <2>1, <1>4
<1>6. Past(src, p, class) \in p .. N + 1 /\ Ends1(Past(src, p, class))
  BY <1>5, Zenon DEF Past
<1> QED
  BY <1>6

LEMMA PastUnique ==
  ASSUME NEW V, NEW src \in Seq(V), NEW p \in 1 .. Len(src) + 1, NEW class, NoCharacter \notin class,
         NEW q \in p .. Len(src) + 1, \A i \in p .. q - 1 : src[i] \in class,
         CharAt(src, q) \notin class
  PROVE  Past(src, p, class) = q
<1> DEFINE r == Past(src, p, class)
<1>1. /\ r \in p .. Len(src) + 1 /\ \A i \in p .. r - 1 : src[i] \in class
      /\ CharAt(src, r) \notin class
  BY PastIs
<1>2. Len(src) \in Nat /\ \A i \in 1 .. Len(src) : CharAt(src, i) = src[i]
  BY CharsAt
<1> HIDE DEF r
<1>3. ~ (r < q)
  <2> SUFFICES ASSUME r < q PROVE FALSE
    OBVIOUS
  <2>1. r \in p .. q - 1 /\ r \in 1 .. Len(src)
    BY <1>1, <1>2
  <2> QED
    BY <2>1, <1>1, <1>2
<1>4. ~ (q < r)
  <2> SUFFICES ASSUME q < r PROVE FALSE
    OBVIOUS
  <2>1. q \in p .. r - 1 /\ q \in 1 .. Len(src)
    BY <1>1, <1>2
  <2> QED
    BY <2>1, <1>1, <1>2
<1>5. r = q
  BY <1>1, <1>2, <1>3, <1>4
<1> QED
  BY <1>5 DEF r

LEMMA PastShifts ==
  ASSUME NEW part, NEW src, NEW k, Framed(part, src, k), NEW p \in 1 .. Len(part) + 1,
         NEW class, class \cap Outside = {}
  PROVE  /\ Past(part, p, class) \in p .. Len(part) + 1
         /\ Past(src, k + p, class) = k + Past(part, p, class)
<1> DEFINE q == Past(part, p, class)
<1>1. /\ part \in Seq(Characters) /\ src \in Seq(Characters) /\ NoCharacter \notin class
  BY DEF Framed, Outside
<1>2. /\ Len(part) \in Nat /\ Len(src) \in Nat /\ k \in Nat /\ k + Len(part) < Len(src)
      /\ \A i \in 1 .. Len(part) : src[k + i] = part[i]
  BY FramedChars
<1>3. q \in p .. Len(part) + 1 /\ (\A i \in p .. q - 1 : part[i] \in class)
      /\ CharAt(part, q) \notin class
  BY <1>1, PastIs
<1> HIDE DEF q
<1>4. q \in 1 .. Len(part) + 1
  BY <1>2, <1>3
<1>5. CharAt(src, k + q) \notin class
  BY <1>3, <1>4, SameClass
<1>6. \A i \in k + p .. (k + q) - 1 : src[i] \in class
  <2> SUFFICES ASSUME NEW i \in k + p .. (k + q) - 1 PROVE src[i] \in class
    OBVIOUS
  <2>1. i - k \in p .. q - 1 /\ i - k \in 1 .. Len(part) /\ k + (i - k) = i
    BY <1>2, <1>4
  <2> QED
    BY <2>1, <1>2, <1>3, Zenon
<1>7. k + p \in 1 .. Len(src) + 1 /\ k + q \in k + p .. Len(src) + 1
  BY <1>2, <1>3, <1>4
<1>8. Past(src, k + p, class) = k + q
  BY <1>1, <1>5, <1>6, <1>7, PastUnique
<1> QED
  BY <1>3, <1>8 DEF q

-----------------------------------------------------------------------------
(* Functions of positions that look ahead.                                 *)

\* What holds of a position when it holds of all later ones holds of all.
LEMMA Downwards ==
  ASSUME NEW N \in Nat, NEW S,
         \A p \in 1 .. N : (\A q \in p + 1 .. N : q \in S) => p \in S
  PROVE  \A p \in 1 .. N : p \in S
<1> DEFINE bad == {i \in 0 .. N - 1 : N - i \notin S}
<1>1. SUFFICES ASSUME bad # {} PROVE FALSE
  <2> SUFFICES ASSUME NEW p \in 1 .. N, p \notin S PROVE bad # {}
    BY <1>1
  <2>1. N - p \in 0 .. N - 1 /\ N - (N - p) = p
    OBVIOUS
  <2> QED
    BY <2>1
<1>2. bad \in SUBSET Nat
  OBVIOUS
<1>3. PICK i \in bad : \A j \in bad : i <= j
  <2> HIDE DEF bad
  <2> QED
    BY <1>1, <1>2, LeastNat
<1>4. N - i \in 1 .. N /\ N - i \notin S
  OBVIOUS
<1>5. ASSUME NEW q \in (N - i) + 1 .. N PROVE q \in S
  <2>1. N - q \in 0 .. N - 1 /\ N - q < i /\ N - (N - q) = q /\ i \in Nat
    OBVIOUS
  <2>2. N - q \notin bad
    <3> HIDE DEF bad
    <3> QED
      BY <1>3, <2>1
  <2> QED
    BY <2>1, <2>2
<1> QED
  BY <1>4, <1>5

\* The values at a position, from those at later ones f: what stands in quotes, the end
\* of white space and comments, and the tokens.
RestOf(src, quote, f, p) ==
  IF p > Len(src) THEN [text |-> << >>, next |-> 0]
  ELSE IF src[p] # quote
  THEN [f[p + 1] EXCEPT !.text = <<src[p]>> \o @]
  ELSE IF CharAt(src, p + 1) = quote
  THEN [f[p + 2] EXCEPT !.text = <<quote>> \o @]
  ELSE [text |-> << >>, next |-> p + 1]

LineEnds(src, p) == {q \in p .. Len(src) : src[q] = "\n"}
TriviaOf(src, f, p) ==
  IF CharAt(src, p) \in Spaces THEN f[p + 1]
  ELSE IF <<CharAt(src, p), CharAt(src, p + 1)>> = <<"-", "-">>
  THEN IF LineEnds(src, p) = {} THEN Len(src) + 1
       ELSE f[CHOOSE q \in LineEnds(src, p) : \A r \in LineEnds(src, p) : q <= r]
  ELSE IF <<CharAt(src, p), CharAt(src, p + 1)>> = <<"/", "*">> THEN f[CommentEnd(src, p + 2)]
  ELSE p

Entry(token) == [kind |-> token.kind, text |-> token.text]
Last1 == [kind |-> "EOF", text |-> << >>]
TokensOf(src, f, p) ==
  IF SkipTrivia(src)[p] > Len(src) THEN <<Last1>>
  ELSE <<Entry(ScanToken(src, SkipTrivia(src)[p]))>> \o f[ScanToken(src, SkipTrivia(src)[p]).next]

Ahead(what, src, quote, f, p) ==
  IF what = "quoted" THEN RestOf(src, quote, f, p)
  ELSE IF what = "trivia" THEN TriviaOf(src, f, p) ELSE TokensOf(src, f, p)

\* They depend on nothing else.
LooksAhead(what, src, quote, N) ==
  \A p \in 1 .. N : \A f, g :
    (\A q \in p + 1 .. N : f[q] = g[q]) => Ahead(what, src, quote, f, p) = Ahead(what, src, quote, g, p)

\* So there is a function of them.
LEMMA AheadIs ==
  ASSUME NEW what, NEW src, NEW quote, NEW N \in Nat, N >= 1, LooksAhead(what, src, quote, N)
  PROVE  \E h : h = [p \in 1 .. N |-> Ahead(what, src, quote, h, p)]
<1> DEFINE Step(f, p) == Ahead(what, src, quote, f, p)
           Behind(f, m) == \A p \in m .. N : f[p] = Step(f, p)
           reach == {m \in 1 .. N + 1 : \E f : Behind(f, m)}
           Right(h) == h = [p \in 1 .. N |-> Step(h, p)]
<1>2. ASSUME NEW p \in 1 .. N, NEW f, NEW g, \A q \in p + 1 .. N : f[q] = g[q]
      PROVE  Step(f, p) = Step(g, p)
  BY <1>2, Zenon DEF LooksAhead
<1>9. SUFFICES \E h : Right(h)
  BY Zenon
<1> HIDE DEF Step
<1>3. \E f : Behind(f, 1)
  <2>1. N + 1 \in reach
    OBVIOUS
  <2>2. reach \in SUBSET Nat
    OBVIOUS
  <2>3. PICK m \in reach : \A l \in reach : m <= l
    <3> HIDE DEF reach
    <3> QED
      BY <2>1, <2>2, LeastNat
  <2>4. PICK f : Behind(f, m)
    OBVIOUS
  <2>5. m = 1
    <3> SUFFICES ASSUME m # 1 PROVE FALSE
      OBVIOUS
    <3> DEFINE l == m - 1
               g == [p \in 1 .. N |-> IF p = l THEN Step(f, l) ELSE f[p]]
    <3>1. l \in 1 .. N /\ m = l + 1 /\ ~ (m <= l)
      OBVIOUS
    <3> HIDE DEF l
    <3>2. \A q \in l + 1 .. N : g[q] = f[q]
      BY <3>1
    <3>3. g[l] = Step(f, l)
      BY <3>1
    <3> HIDE DEF g
    <3>4. ASSUME NEW p \in l .. N PROVE g[p] = Step(g, p)
      <4>1. p \in 1 .. N /\ \A q \in p + 1 .. N : q \in l + 1 .. N
        BY <3>1
      <4>2. Step(g, p) = Step(f, p)
        BY <1>2, <3>2, <4>1
      <4>3. g[p] = Step(f, p)
        <5>1. CASE p = l
          BY <3>3, <5>1
        <5>2. CASE p # l
          <6>1. p \in m .. N /\ p \in l + 1 .. N
            BY <3>1, <5>2
          <6> QED
            BY <2>4, <3>2, <6>1
        <5> QED
          BY <5>1, <5>2
      <4> QED
        BY <4>2, <4>3
    <3>5. Behind(g, l)
      BY <3>4
    <3>6. l \in reach
      <4> HIDE DEF Behind
      <4> QED
        BY <3>1, <3>5
    <3> QED
      BY <2>3, <3>1, <3>6
  <2> QED
    BY <2>4, <2>5
<1>4. PICK f : Behind(f, 1)
  <2> HIDE DEF Behind
  <2> QED
    BY <1>3
<1> DEFINE g == [p \in 1 .. N |-> f[p]]
<1>5. ASSUME NEW p \in 1 .. N PROVE g[p] = Step(g, p)
  <2>1. f[p] = Step(f, p) /\ g[p] = f[p]
    BY <1>4
  <2>2. \A q \in p + 1 .. N : g[q] = f[q]
    OBVIOUS
  <2> HIDE DEF g
  <2> QED
    BY <1>2, <2>1, <2>2
<1>6. Right(g)
  <2>1. g = [p \in 1 .. N |-> g[p]]
    OBVIOUS
  <2> HIDE DEF g
  <2> QED
    BY <1>5, <2>1
<1> QED
  <2> HIDE DEF Right, g
  <2> QED
    BY <1>6

LEMMA QuotedIs ==
  ASSUME NEW V, NEW src \in Seq(V), NEW quote, quote # NoCharacter
  PROVE  \A p \in 1 .. Len(src) + 1 :
           Quoted(src, quote)[p] = RestOf(src, quote, Quoted(src, quote), p)
<1> DEFINE N == Len(src) + 1
           Step(f, p) == RestOf(src, quote, f, p)
           Right(h) == h = [p \in 1 .. N |-> Step(h, p)]
<1>1. Len(src) \in Nat /\ N \in Nat /\ N >= 1 /\ CharAt(src, N) = NoCharacter
  BY CharsAt
<1>2. \A f, p : Ahead("quoted", src, quote, f, p) = Step(f, p)
  BY DEF Ahead
<1>3. ASSUME NEW p \in 1 .. N, NEW f, NEW g, \A q \in p + 1 .. N : f[q] = g[q]
      PROVE  Step(f, p) = Step(g, p)
  <2>1. CASE p > Len(src)
    BY <2>1 DEF RestOf
  <2>2. CASE ~ (p > Len(src)) /\ src[p] # quote
    <3>1. f[p + 1] = g[p + 1]
      BY <1>1, <1>3, <2>2
    <3> QED
      BY <2>2, <3>1, Zenon DEF RestOf
  <2>3. CASE ~ (p > Len(src)) /\ ~ (src[p] # quote)
    <3>1. CASE CharAt(src, p + 1) # quote
      BY <2>3, <3>1 DEF RestOf
    <3>2. CASE CharAt(src, p + 1) = quote
      <4>1. p + 1 # N
        BY <1>1, <3>2
      <4>2. f[p + 2] = g[p + 2]
        BY <1>1, <1>3, <2>3, <4>1
      <4> QED
        BY <2>3, <3>2, <4>2, Zenon DEF RestOf
    <3> QED
      BY <3>1, <3>2
  <2> QED
    BY <2>1, <2>2, <2>3
<1> HIDE DEF Step
<1>4. LooksAhead("quoted", src, quote, N)
  <2> HIDE DEF N
  <2>1. ASSUME NEW p \in 1 .. N, NEW f, NEW g, \A q \in p + 1 .. N : f[q] = g[q]
        PROVE  Ahead("quoted", src, quote, f, p) = Ahead("quoted", src, quote, g, p)
    <3>1. Step(f, p) = Step(g, p)
      BY <1>3, <2>1
    <3> QED
      BY <1>2, <3>1
  <2> QED
    BY <2>1, Zenon DEF LooksAhead
<1>5. PICK g : g = [p \in 1 .. N |-> Ahead("quoted", src, quote, g, p)]
  <2> HIDE DEF N
  <2> QED
    BY <1>1, <1>4, AheadIs
<1>6. Right(g)
  BY <1>2, <1>5
<1>7. Quoted(src, quote) = CHOOSE h : Right(h)
  BY Zenon DEF Quoted, Step, RestOf
<1>8. Right(Quoted(src, quote))
  <2> HIDE DEF Right
  <2> QED
    BY <1>6, <1>7, Zenon
<1> DEFINE h == Quoted(src, quote)
<1>9. h = [i \in 1 .. N |-> Step(h, i)]
  BY <1>8, Zenon
<1> HIDE DEF h
<1>10. \A p \in 1 .. N : h[p] = Step(h, p)
  BY <1>9
<1> QED
  BY <1>10 DEF Step, h

-----------------------------------------------------------------------------
(* White space and comments.                                               *)

LEMMA CommentEnds ==
  ASSUME NEW V, NEW src \in Seq(V), NEW p \in 1 .. Len(src) + 1
  PROVE  CommentEnd(src, p) \in p .. Len(src) + 1
<1> DEFINE closings == {q \in p .. (Len(src) - 1) : src[q] = "*" /\ src[q + 1] = "/"}
           first == CHOOSE q \in closings : \A r \in closings : q <= r
<1>1. CommentEnd(src, p) = IF closings = {} THEN Len(src) + 1 ELSE 2 + first
  BY Zenon DEF CommentEnd
<1>2. Len(src) \in Nat
  BY CharsAt
<1>3. CASE closings = {}
  BY <1>1, <1>2, <1>3
<1>4. CASE closings # {}
  <2>1. closings \in SUBSET Nat
    BY <1>2
  <2>2. first \in closings
    <3> HIDE DEF closings
    <3> QED
      BY <1>4, <2>1, LeastOf
  <2>3. first \in p .. Len(src) - 1
    <3> HIDE DEF first
    <3> QED
      BY <2>2
  <2> HIDE DEF closings, first
  <2> QED
    BY <1>1, <1>2, <1>4, <2>3
<1> QED
  BY <1>3, <1>4

LEMMA LineEndsAre ==
  ASSUME NEW V, NEW src \in Seq(V), NEW p \in 1 .. Len(src) + 1, LineEnds(src, p) # {},
         CharAt(src, p) = "-"
  PROVE  LET q == CHOOSE q \in LineEnds(src, p) : \A r \in LineEnds(src, p) : q <= r
         IN  q \in p + 1 .. Len(src) /\ src[q] = "\n" /\ \A r \in LineEnds(src, p) : q <= r
<1> DEFINE q == CHOOSE q \in LineEnds(src, p) : \A r \in LineEnds(src, p) : q <= r
<1>1. Len(src) \in Nat /\ \A i \in 1 .. Len(src) : CharAt(src, i) = src[i]
  BY CharsAt
<1>2. LineEnds(src, p) \in SUBSET Nat
  BY <1>1 DEF LineEnds
<1>3. q \in LineEnds(src, p) /\ \A r \in LineEnds(src, p) : q <= r
  BY <1>2, LeastOf
<1> HIDE DEF q
<1>4. q \in p .. Len(src) /\ src[q] = "\n"
  BY <1>3 DEF LineEnds
<1>5. q # p
  BY <1>1, <1>4
<1>6. q \in p + 1 .. Len(src)
  BY <1>1, <1>4, <1>5
<1> QED
  BY <1>3, <1>4, <1>6 DEF q

\* Where a step over trivia may lead, and that it leads on.
LEMMA TriviaLeads ==
  ASSUME NEW V, NEW src \in Seq(V), NEW p \in 1 .. Len(src) + 1
  PROVE  /\ CharAt(src, p) \in Spaces => p + 1 \in p + 1 .. Len(src) + 1
         /\ CharAt(src, p) = "/" /\ CharAt(src, p + 1) = "*" =>
              CommentEnd(src, p + 2) \in p + 1 .. Len(src) + 1
<1>1. Len(src) \in Nat /\ \A i \in Nat : i > Len(src) => CharAt(src, i) = NoCharacter
  BY CharsAt
<1>2. NoCharacter \notin Spaces /\ NoCharacter # "*" /\ NoCharacter # "/"
  BY Zenon DEF NoCharacter, Spaces
<1>3. CASE CharAt(src, p) \in Spaces
  <2>1. ~ (p > Len(src))
    BY <1>1, <1>2, <1>3
  <2>2. CharAt(src, p) # "/"
    BY <1>3, Zenon DEF Spaces
  <2> QED
    BY <1>1, <2>1, <2>2
<1>4. CASE CharAt(src, p) = "/" /\ CharAt(src, p + 1) = "*"
  <2>1. ~ (p + 1 > Len(src))
    BY <1>1, <1>2, <1>4
  <2>2. p + 2 \in 1 .. Len(src) + 1
    BY <1>1, <2>1
  <2>3. CommentEnd(src, p + 2) \in p + 2 .. Len(src) + 1
    BY <2>2, CommentEnds
  <2>4. CharAt(src, p) \notin Spaces
    BY <1>4, Zenon DEF Spaces
  <2> QED
    BY <1>1, <2>3, <2>4
<1> QED
  BY <1>3, <1>4

LEMMA TriviaIs ==
  ASSUME NEW V, NEW src \in Seq(V)
  PROVE  \A p \in 1 .. Len(src) + 1 :
           /\ SkipTrivia(src)[p] = TriviaOf(src, SkipTrivia(src), p)
           /\ SkipTrivia(src)[p] \in p .. Len(src) + 1
<1> DEFINE N == Len(src) + 1
           Step(f, p) == TriviaOf(src, f, p)
           Right(h) == h = [p \in 1 .. N |-> Step(h, p)]
           line(p) == CHOOSE q \in LineEnds(src, p) : \A r \in LineEnds(src, p) : q <= r
<1>1. Len(src) \in Nat /\ N \in Nat /\ N >= 1 /\ N = Len(src) + 1
  BY CharsAt
<1>2. \A f, p : Ahead("trivia", src, src, f, p) = Step(f, p)
  BY DEF Ahead
<1>3. ASSUME NEW p \in 1 .. N, NEW f
      PROVE  \/ Step(f, p) \in p .. N /\ \A g : Step(g, p) = Step(f, p)
             \/ \E q \in p + 1 .. N : \A g : Step(g, p) = g[q]
  <2>0. p \in 1 .. Len(src) + 1 /\ p \in p .. N /\ N \in p .. N
    BY <1>1
  <2>1. CASE CharAt(src, p) \in Spaces
    <3>1. p + 1 \in p + 1 .. N
      BY <2>0, <2>1, TriviaLeads
    <3>2. \A g : Step(g, p) = g[p + 1]
      BY <2>1 DEF TriviaOf
    <3> QED
      BY <3>1, <3>2, Zenon
  <2>2. CASE /\ CharAt(src, p) \notin Spaces
             /\ <<CharAt(src, p), CharAt(src, p + 1)>> = <<"-", "-">>
    <3>1. CASE LineEnds(src, p) = {}
      <4>1. \A g : Step(g, p) = N
        BY <2>2, <3>1 DEF TriviaOf
      <4> QED
        BY <2>0, <4>1
    <3>2. CASE LineEnds(src, p) # {}
      <4>1. \A g : Step(g, p) = g[line(p)]
        BY <2>2, <3>2, Zenon DEF TriviaOf
      <4>2. CharAt(src, p) = "-"
        BY <2>2
      <4>3. line(p) \in p + 1 .. Len(src)
        BY <2>0, <3>2, <4>2, LineEndsAre, Zenon
      <4> HIDE DEF line
      <4>4. line(p) \in p + 1 .. N
        BY <1>1, <4>3
      <4> QED
        BY <4>1, <4>4, Zenon
    <3> QED
      BY <3>1, <3>2
  <2>3. CASE /\ CharAt(src, p) \notin Spaces
             /\ <<CharAt(src, p), CharAt(src, p + 1)>> = <<"/", "*">>
    <3>1. CharAt(src, p) = "/" /\ CharAt(src, p + 1) = "*"
      BY <2>3
    <3>2. CommentEnd(src, p + 2) \in p + 1 .. N
      BY <2>0, <3>1, TriviaLeads
    <3>3. \A g : Step(g, p) = g[CommentEnd(src, p + 2)]
      BY <2>3, <3>1 DEF TriviaOf
    <3> QED
      BY <3>2, <3>3, Zenon
  <2>4. CASE /\ CharAt(src, p) \notin Spaces
             /\ <<CharAt(src, p), CharAt(src, p + 1)>> # <<"-", "-">>
             /\ <<CharAt(src, p), CharAt(src, p + 1)>> # <<"/", "*">>
    <3>1. \A g : Step(g, p) = p
      BY <2>4 DEF TriviaOf
    <3> QED
      BY <2>0, <3>1
  <2> QED
    BY <2>1, <2>2, <2>3, <2>4
<1> HIDE DEF Step, line
<1>4. LooksAhead("trivia", src, src, N)
  <2> HIDE DEF N
  <2>1. ASSUME NEW p \in 1 .. N, NEW f, NEW g, \A q \in p + 1 .. N : f[q] = g[q]
        PROVE  Ahead("trivia", src, src, f, p) = Ahead("trivia", src, src, g, p)
    <3>1. Step(f, p) = Step(g, p)
      BY <1>3, <2>1
    <3> QED
      BY <1>2, <3>1
  <2> QED
    BY <2>1, Zenon DEF LooksAhead
<1>5. PICK g : g = [p \in 1 .. N |-> Ahead("trivia", src, src, g, p)]
  <2> HIDE DEF N
  <2> QED
    BY <1>1, <1>4, AheadIs
<1>6. Right(g)
  BY <1>2, <1>5
<1>7. SkipTrivia(src) = CHOOSE h : Right(h)
  BY Zenon DEF SkipTrivia, Step, TriviaOf, LineEnds
<1>8. Right(SkipTrivia(src))
  <2> HIDE DEF Right
  <2> QED
    BY <1>6, <1>7, Zenon
<1> DEFINE h == SkipTrivia(src)
<1>9. h = [i \in 1 .. N |-> Step(h, i)]
  BY <1>8, Zenon
<1> HIDE DEF h
<1>10. \A p \in 1 .. N : h[p] = Step(h, p)
  BY <1>9
<1>11. \A p \in 1 .. N : h[p] \in p .. N
  <2> DEFINE S == {p \in 1 .. N : h[p] \in p .. N}
  <2>1. ASSUME NEW p \in 1 .. N, \A q \in p + 1 .. N : q \in S
        PROVE  p \in S
    <3>1. CASE Step(h, p) \in p .. N
      BY <1>10, <3>1
    <3>2. CASE \E q \in p + 1 .. N : Step(h, p) = h[q]
      <4>1. PICK q \in p + 1 .. N : Step(h, p) = h[q]
        BY <3>2
      <4>2. h[q] \in q .. N
        BY <2>1
      <4>3. h[p] = h[q]
        BY <1>10, <4>1
      <4>4. h[p] \in p .. N
        BY <1>1, <4>2, <4>3
      <4> QED
        BY <4>4
    <3> QED
      BY <1>3, <3>1, <3>2
  <2> HIDE DEF S, N
  <2>2. \A p \in 1 .. N : p \in S
    BY <1>1, <2>1, Downwards
  <2> QED
    BY <2>2 DEF S
<1> QED
  BY <1>10, <1>11 DEF Step, h

-----------------------------------------------------------------------------
(* A token and the next one.                                               *)

\* No class the scanner knows has a character that can stand next to a text.
LEMMA ClassesApart ==
  /\ Digits \cap Outside = {} /\ (Letters \cup Digits) \cap Outside = {}
  /\ Letters \cap Outside = {}
  /\ {"."} \cap Outside = {} /\ {"e", "E"} \cap Outside = {} /\ {"+", "-"} \cap Outside = {}
  /\ {"-"} \cap Outside = {} /\ {"*"} \cap Outside = {} /\ {"/"} \cap Outside = {}
<1>1. Digits \cap Outside = {}
  BY Zenon DEF Digits, Outside, Spaces, Semicolon, NoCharacter
<1>2. Letters \cap Outside = {}
  BY LexerAssumption, Zenon DEF LexerAssumption, Outside
<1>3. {"."} \cap Outside = {} /\ {"e", "E"} \cap Outside = {} /\ {"+", "-"} \cap Outside = {}
  BY Zenon DEF Outside, Spaces, Semicolon, NoCharacter
<1>4. {"-"} \cap Outside = {} /\ {"*"} \cap Outside = {} /\ {"/"} \cap Outside = {}
  BY Zenon DEF Outside, Spaces, Semicolon, NoCharacter
<1>5. (Letters \cup Digits) \cap Outside = {}
  BY <1>1, <1>2
<1> QED
  BY <1>1, <1>2, <1>3, <1>4, <1>5

LEMMA NoneInClasses ==
  /\ NoCharacter \notin Digits /\ NoCharacter \notin Letters /\ NoCharacter \notin Letters \cup Digits
  /\ NoCharacter \notin {"."} /\ NoCharacter \notin {"e", "E"} /\ NoCharacter \notin {"+", "-"}
<1>1. NoCharacter \in Outside
  BY DEF Outside
<1> QED
  BY <1>1, ClassesApart

\* The parts of a number.
WholeEnd(src, p) == Past(src, p, Digits)
HasPoint(src, p) == CharAt(src, WholeEnd(src, p)) = "."
FracEnd(src, p) ==
  IF HasPoint(src, p) THEN Past(src, WholeEnd(src, p) + 1, Digits) ELSE WholeEnd(src, p)
HasExponent(src, p) == CharAt(src, FracEnd(src, p)) \in {"e", "E"}
ExpDigits(src, p) ==
  IF CharAt(src, FracEnd(src, p) + 1) \in {"+", "-"} THEN FracEnd(src, p) + 2
  ELSE FracEnd(src, p) + 1
NumberEnd(src, p) ==
  IF HasExponent(src, p) THEN Past(src, ExpDigits(src, p), Digits) ELSE FracEnd(src, p)

LEMMA ScanNumberIs ==
  ASSUME NEW src, NEW p
  PROVE  ScanNumber(src, p) =
           IF HasExponent(src, p) /\ NumberEnd(src, p) = ExpDigits(src, p)
           THEN Slice(src, "ILLEGAL", p, ExpDigits(src, p))
           ELSE IF CharAt(src, NumberEnd(src, p)) \in Letters
           THEN Slice(src, "ILLEGAL", p, Past(src, NumberEnd(src, p), Letters \cup Digits))
           ELSE Slice(src, IF HasPoint(src, p) \/ HasExponent(src, p) THEN "FLOAT" ELSE "INT",
                      p, NumberEnd(src, p))
  BY Zenon DEF ScanNumber, WholeEnd, HasPoint, FracEnd, HasExponent, ExpDigits, NumberEnd

LEMMA NumberParts ==
  ASSUME NEW V, NEW src \in Seq(V), NEW p \in 1 .. Len(src)
  PROVE  /\ WholeEnd(src, p) \in p .. Len(src) + 1
         /\ src[p] \in Digits => WholeEnd(src, p) > p
         /\ HasPoint(src, p) => WholeEnd(src, p) <= Len(src) /\ FracEnd(src, p) > WholeEnd(src, p)
         /\ FracEnd(src, p) \in WholeEnd(src, p) .. Len(src) + 1
         /\ HasExponent(src, p) => /\ FracEnd(src, p) <= Len(src)
                                   /\ ExpDigits(src, p) \in FracEnd(src, p) + 1 .. Len(src) + 1
                                   /\ NumberEnd(src, p) \in ExpDigits(src, p) .. Len(src) + 1
         /\ ~HasExponent(src, p) => NumberEnd(src, p) = FracEnd(src, p)
         /\ NumberEnd(src, p) \in FracEnd(src, p) .. Len(src) + 1
<1> DEFINE N == Len(src) + 1
           whole == WholeEnd(src, p)
           frac == FracEnd(src, p)
           digits == ExpDigits(src, p)
           end == NumberEnd(src, p)
<1>1. /\ Len(src) \in Nat /\ N = Len(src) + 1 /\ \A i \in 1 .. Len(src) : CharAt(src, i) = src[i]
      /\ \A i \in Nat : i > Len(src) => CharAt(src, i) = NoCharacter
  BY CharsAt
<1>2. whole \in p .. N /\ CharAt(src, whole) \notin Digits
  BY PastIs, NoneInClasses DEF WholeEnd
<1>3. src[p] \in Digits => whole > p
  <2> SUFFICES ASSUME src[p] \in Digits PROVE whole > p
    OBVIOUS
  <2>1. CharAt(src, p) \in Digits
    BY <1>1
  <2>2. whole # p
    BY <1>2, <2>1
  <2> HIDE DEF whole
  <2> QED
    BY <1>1, <1>2, <2>2
<1>4. HasPoint(src, p) => whole <= Len(src)
  <2> SUFFICES ASSUME HasPoint(src, p), ~ (whole <= Len(src)) PROVE FALSE
    BY <1>1, <1>2
  <2>1. CharAt(src, whole) = NoCharacter
    BY <1>1, <1>2
  <2>2. CharAt(src, whole) = "."
    BY DEF HasPoint
  <2> QED
    BY <2>1, <2>2, NoneInClasses
<1> HIDE DEF whole
<1>5. /\ HasPoint(src, p) => frac > whole
      /\ frac \in whole .. N
  <2>1. CASE HasPoint(src, p)
    <3>1. whole + 1 \in 1 .. Len(src) + 1
      BY <1>1, <1>2, <1>4, <2>1
    <3>2. frac = Past(src, whole + 1, Digits)
      BY <2>1 DEF FracEnd, whole
    <3>3. frac \in whole + 1 .. N
      BY <3>1, <3>2, PastIs, NoneInClasses
    <3> HIDE DEF frac
    <3> QED
      BY <1>1, <1>2, <3>3
  <2>2. CASE ~HasPoint(src, p)
    <3>1. frac = whole
      BY <2>2 DEF FracEnd, whole
    <3> QED
      BY <1>1, <1>2, <2>2, <3>1
  <2> QED
    BY <2>1, <2>2
<1> HIDE DEF frac
<1>6. frac \in 1 .. N
  BY <1>1, <1>2, <1>5
<1>7. ASSUME HasExponent(src, p)
      PROVE  frac <= Len(src) /\ digits \in frac + 1 .. N /\ end \in digits .. N
  <2>1. CharAt(src, frac) # NoCharacter
    BY <1>7, NoneInClasses DEF HasExponent, frac
  <2>2. frac <= Len(src)
    BY <1>1, <1>6, <2>1
  <2>3. ASSUME CharAt(src, frac + 1) \in {"+", "-"} PROVE digits \in frac + 1 .. N
    <3>1. digits = frac + 2
      BY <2>3 DEF ExpDigits, frac
    <3>2. CharAt(src, frac + 1) # NoCharacter
      BY <2>3, NoneInClasses
    <3>3. frac + 1 <= Len(src)
      BY <1>1, <1>6, <3>2
    <3> HIDE DEF digits
    <3> QED
      BY <1>1, <1>6, <3>1, <3>3
  <2>4. ASSUME CharAt(src, frac + 1) \notin {"+", "-"} PROVE digits \in frac + 1 .. N
    <3>1. digits = frac + 1
      BY <2>4 DEF ExpDigits, frac
    <3> HIDE DEF digits
    <3> QED
      BY <1>1, <1>6, <2>2, <3>1
  <2>5. digits \in frac + 1 .. N
    BY <2>3, <2>4
  <2> HIDE DEF digits
  <2>6. digits \in 1 .. Len(src) + 1
    BY <1>1, <1>6, <2>5
  <2>7. end = Past(src, digits, Digits)
    BY <1>7 DEF NumberEnd, digits
  <2>8. end \in digits .. N
    BY <2>6, <2>7, PastIs, NoneInClasses
  <2> QED
    BY <2>2, <2>5, <2>8 DEF digits
<1>8. ~HasExponent(src, p) => end = frac
  BY DEF NumberEnd, frac
<1> HIDE DEF digits, end
<1>9. end \in frac .. N
  BY <1>1, <1>6, <1>7, <1>8
<1> QED
  BY <1>2, <1>3, <1>4, <1>5, <1>7, <1>8, <1>9 DEF whole, frac, digits, end

LEMMA Longer ==
  ASSUME NEW T, NEW S, NEW r \in [text : T, next : S], NEW c
  PROVE  [r EXCEPT !.text = <<c>> \o @] = [text |-> <<c>> \o r.text, next |-> r.next]
<1>1. \A e : [r EXCEPT !.text = e] = [text |-> e, next |-> r.next]
  OBVIOUS
<1>2. [r EXCEPT !.text = <<c>> \o @] = [r EXCEPT !.text = <<c>> \o r.text]
  BY Zenon
<1> QED
  BY <1>1, <1>2

LEMMA QuotedRange ==
  ASSUME NEW V, NEW src \in Seq(V), NEW quote \in V, quote # NoCharacter
  PROVE  \A p \in 1 .. Len(src) + 1 :
           Quoted(src, quote)[p] \in [text : Seq(V), next : {0} \cup p + 1 .. Len(src) + 1]
<1> DEFINE N == Len(src) + 1
           h == Quoted(src, quote)
           Typed(p) == [text : Seq(V), next : {0} \cup p + 1 .. N]
           S == {p \in 1 .. N : h[p] \in Typed(p)}
<1>1. /\ Len(src) \in Nat /\ N \in Nat /\ N = Len(src) + 1
      /\ \A i \in 1 .. Len(src) : src[i] \in V
      /\ \A i \in Nat : i > Len(src) => CharAt(src, i) = NoCharacter
  BY CharsAt
<1>2. \A p \in 1 .. N : h[p] = RestOf(src, quote, h, p)
  BY QuotedIs
<1> HIDE DEF h
<1>3. ASSUME NEW p \in 1 .. N, NEW q \in p + 1 .. N, NEW c \in V, h[q] \in Typed(q)
      PROVE  [h[q] EXCEPT !.text = <<c>> \o @] \in Typed(p)
  <2>1. h[q].text \in Seq(V) /\ h[q].next \in {0} \cup p + 1 .. N
    BY <1>1, <1>3
  <2>2. <<c>> \o h[q].text \in Seq(V)
    BY <2>1
  <2>3. h[q] \in [text : Seq(V), next : {0} \cup q + 1 .. N]
    BY <1>3
  <2>4. [h[q] EXCEPT !.text = <<c>> \o @] = [text |-> <<c>> \o h[q].text, next |-> h[q].next]
    BY <2>3, Longer, Zenon
  <2> QED
    BY <2>1, <2>2, <2>4
<1>4. ASSUME NEW p \in 1 .. N, \A q \in p + 1 .. N : q \in S
      PROVE  p \in S
  <2>0. \A q \in p + 1 .. N : h[q] \in Typed(q)
    BY <1>4
  <2> HIDE DEF Typed
  <2>1. CASE p > Len(src)
    <3>1. h[p] = [text |-> << >>, next |-> 0]
      BY <1>2, <2>1 DEF RestOf
    <3>2. h[p] \in Typed(p)
      BY <3>1 DEF Typed
    <3> QED
      BY <3>2
  <2>2. CASE ~ (p > Len(src)) /\ src[p] # quote
    <3>1. h[p] = [h[p + 1] EXCEPT !.text = <<src[p]>> \o @]
      BY <1>2, <2>2, Zenon DEF RestOf
    <3>2. p + 1 \in p + 1 .. N /\ src[p] \in V
      BY <1>1, <2>2
    <3> QED
      BY <1>3, <2>0, <3>1, <3>2
  <2>3. CASE ~ (p > Len(src)) /\ ~ (src[p] # quote)
    <3>1. CASE CharAt(src, p + 1) # quote
      <4>1. h[p] = [text |-> << >>, next |-> p + 1]
        BY <1>2, <2>3, <3>1 DEF RestOf
      <4>2. p + 1 \in p + 1 .. N
        BY <1>1, <2>3
      <4>3. h[p] \in Typed(p)
        BY <4>1, <4>2 DEF Typed
      <4> QED
        BY <4>3
    <3>2. CASE CharAt(src, p + 1) = quote
      <4>1. ~ (p + 1 > Len(src))
        BY <1>1, <3>2
      <4>2. p + 2 \in p + 1 .. N
        BY <1>1, <4>1
      <4>3. h[p] = [h[p + 2] EXCEPT !.text = <<quote>> \o @]
        BY <1>2, <2>3, <3>2, Zenon DEF RestOf
      <4>4. [h[p + 2] EXCEPT !.text = <<quote>> \o @] \in Typed(p)
        BY <1>3, <2>0, <4>2
      <4> QED
        BY <4>3, <4>4, Zenon
    <3> QED
      BY <3>1, <3>2
  <2> QED
    BY <2>1, <2>2, <2>3
<1> HIDE DEF S, N, Typed
<1>5. \A p \in 1 .. N : p \in S
  BY <1>1, <1>4, Downwards
<1>6. \A p \in 1 .. N : h[p] \in Typed(p)
  BY <1>5 DEF S
<1> QED
  BY <1>6, Zenon DEF N, Typed, h

Cut(src, p, next) == SubSeq(src, p, next - 1)

LEMMA SlicesAre ==
  ASSUME NEW src, NEW kind, NEW p, NEW next
  PROVE  /\ Slice(src, kind, p, next).kind = kind /\ Slice(src, kind, p, next).next = next
         /\ Slice(src, kind, p, next).text = Cut(src, p, next)
  BY DEF Slice, Scanned, Cut

Quotes == {"'", "\""}

LEMMA QuotesApart == Quotes \cap Outside = {} /\ NoCharacter \notin Quotes
<1>1. Quotes \cap Outside = {}
  BY Zenon DEF Quotes, Outside, Spaces, Semicolon, NoCharacter
<1> QED
  BY <1>1 DEF Outside

\* A token in quotes.
LEMMA QuotedScans ==
  ASSUME NEW V, NEW src \in Seq(V), NEW p \in 1 .. Len(src), src[p] \in Quotes, NEW kind
  PROVE  LET quoted == Quoted(src, src[p])[p + 1]
         IN  /\ quoted \in [text : Seq(V), next : {0} \cup p + 2 .. Len(src) + 1]
             /\ quoted.next = 0 => ScanQuoted(src, p, kind) = Slice(src, "ILLEGAL", p, Len(src) + 1)
             /\ quoted.next # 0 => ScanQuoted(src, p, kind) = Scanned(kind, quoted.text, quoted.next)
<1> DEFINE quoted == Quoted(src, src[p])[p + 1]
<1>1. p + 1 \in 1 .. Len(src) + 1 /\ src[p] \in V /\ src[p] # NoCharacter /\ p + 1 + 1 = p + 2
  BY CharsAt, QuotesApart
<1>2. quoted \in [text : Seq(V), next : {0} \cup p + 1 + 1 .. Len(src) + 1]
  BY <1>1, QuotedRange
<1>3. ScanQuoted(src, p, kind) = IF quoted.next = 0 THEN Unterminated(src, p, kind, quoted.text)
                                 ELSE Scanned(kind, quoted.text, quoted.next)
  BY Zenon DEF ScanQuoted
<1> HIDE DEF quoted
<1>4. quoted \in [text : Seq(V), next : {0} \cup p + 2 .. Len(src) + 1]
  BY <1>1, <1>2
<1> QED
  BY <1>3, <1>4, Zenon DEF Unterminated, quoted

\* The parts of a symbol.
LEMMA SymbolScans ==
  ASSUME NEW V, NEW src \in Seq(V), NEW p \in 1 .. Len(src)
  PROVE  \E kind :
           \/ ScanSymbol(src, p) = Slice(src, kind, p, p + 1)
           \/ ScanSymbol(src, p) = Slice(src, kind, p, p + 2) /\ p + 2 \in p + 1 .. Len(src) + 1
<1> DEFINE pairs == {s \in Pairs : s[1] = src[p] /\ s[2] = CharAt(src, p + 1)}
           single == {s \in Symbols : s[1] = src[p]}
<1>1. CASE pairs # {}
  <2>1. ScanSymbol(src, p) = Slice(src, (CHOOSE s \in pairs : TRUE)[3], p, p + 2)
    BY <1>1, Zenon DEF ScanSymbol
  <2>2. PICK s \in Pairs : s[2] = CharAt(src, p + 1)
    BY <1>1
  <2>3. s[2] # NoCharacter
    <3>1. s[2] \in {"=", ">", "|"}
      BY DEF Pairs
    <3> QED
      BY <3>1, Zenon DEF NoCharacter
  <2>4. ~ (p + 1 > Len(src))
    BY <2>2, <2>3, CharsAt
  <2>5. p + 2 \in p + 1 .. Len(src) + 1
    BY <2>4, CharsAt
  <2> QED
    BY <2>1, <2>5, Zenon
<1>2. CASE pairs = {}
  <2>1. \/ ScanSymbol(src, p) = Slice(src, (CHOOSE s \in single : TRUE)[2], p, p + 1)
        \/ ScanSymbol(src, p) = Slice(src, "ILLEGAL", p, p + 1)
    BY <1>2, Zenon DEF ScanSymbol
  <2> QED
    BY <2>1, Zenon
<1> QED
  BY <1>1, <1>2

\* What a token begins with.
Numeric(src, p) == src[p] \in Digits \/ (src[p] = "." /\ CharAt(src, p + 1) \in Digits)

LEMMA ScanCases ==
  ASSUME NEW src, NEW p
  PROVE  \/ Numeric(src, p) /\ ScanToken(src, p) = ScanNumber(src, p)
         \/ ~Numeric(src, p) /\ src[p] \in Letters /\ ScanToken(src, p) = ScanWord(src, p)
         \/ /\ ~Numeric(src, p) /\ src[p] \notin Letters /\ src[p] = "'"
            /\ ScanToken(src, p) = ScanQuoted(src, p, "STRING")
         \/ /\ ~Numeric(src, p) /\ src[p] \notin Letters /\ src[p] # "'" /\ src[p] = "\""
            /\ ScanToken(src, p) = ScanQuoted(src, p, "IDENT")
         \/ /\ ~Numeric(src, p) /\ src[p] \notin Letters /\ src[p] # "'" /\ src[p] # "\""
            /\ ScanToken(src, p) = ScanSymbol(src, p)
  BY Zenon DEF ScanToken, Numeric

LEMMA ScanWordIs ==
  ASSUME NEW src, NEW p
  PROVE  LET next == Past(src, p, Letters \cup Digits)
         IN  ScanWord(src, p) = Slice(src, Lookup(Cut(src, p, next)), p, next)
  BY Zenon DEF ScanWord, Cut

\* A token ends behind its beginning.
Fits(V, src, p, token) == token.next \in p + 1 .. Len(src) + 1 /\ token.text \in Seq(V)

LEMMA SliceFits ==
  ASSUME NEW V, NEW src \in Seq(V), NEW p \in 1 .. Len(src), NEW next \in p + 1 .. Len(src) + 1,
         NEW kind
  PROVE  Fits(V, src, p, Slice(src, kind, p, next))
<1>1. Len(src) \in Nat /\ \A i \in 1 .. Len(src) : src[i] \in V
  BY CharsAt
<1>2. \A i \in p .. next - 1 : src[i] \in V
  BY <1>1
<1>3. Cut(src, p, next) \in Seq(V)
  BY <1>1, <1>2 DEF Cut
<1>4. /\ Slice(src, kind, p, next).next = next
      /\ Slice(src, kind, p, next).text = Cut(src, p, next)
  BY SlicesAre
<1> QED
  BY <1>3, <1>4, Zenon DEF Fits

LEMMA ScanLeads ==
  ASSUME NEW V, NEW src \in Seq(V), NEW p \in 1 .. Len(src)
  PROVE  Fits(V, src, p, ScanToken(src, p))
<1> DEFINE N == Len(src) + 1
<1>1. /\ Len(src) \in Nat /\ N = Len(src) + 1 /\ CharAt(src, p) = src[p]
  BY CharsAt
<1>2. CASE Numeric(src, p) /\ ScanToken(src, p) = ScanNumber(src, p)
  <2> DEFINE whole == WholeEnd(src, p)
             frac == FracEnd(src, p)
             digits == ExpDigits(src, p)
             end == NumberEnd(src, p)
  <2>1. /\ whole \in p .. N
        /\ src[p] \in Digits => whole > p
        /\ HasPoint(src, p) => whole <= Len(src) /\ frac > whole
        /\ frac \in whole .. N
        /\ HasExponent(src, p) => digits \in frac + 1 .. N
        /\ end \in frac .. N
    BY NumberParts
  <2>2. src[p] \notin Digits => whole # p \/ HasPoint(src, p)
    BY <1>1, <1>2 DEF Numeric, HasPoint
  <2> HIDE DEF whole, frac, digits, end, N
  <2>3. frac \in p + 1 .. N
    BY <1>1, <2>1, <2>2
  <2>4. end \in p + 1 .. N
    BY <1>1, <2>1, <2>3
  <2>5. HasExponent(src, p) => digits \in p + 1 .. N
    BY <1>1, <2>1, <2>3
  <2>6. end \in 1 .. Len(src) + 1
    BY <1>1, <2>4
  <2>7. Past(src, end, Letters \cup Digits) \in end .. N
    BY <2>6, PastIs, NoneInClasses DEF N
  <2>8. Past(src, end, Letters \cup Digits) \in p + 1 .. N
    BY <1>1, <2>4, <2>7
  <2>9. \E kind : \E next \in p + 1 .. N : ScanNumber(src, p) = Slice(src, kind, p, next)
    BY <2>4, <2>5, <2>8, ScanNumberIs, Zenon DEF end, digits
  <2> QED
    BY <1>2, <2>9, SliceFits DEF N
<1>3. CASE src[p] \in Letters /\ ScanToken(src, p) = ScanWord(src, p)
  <2> DEFINE next == Past(src, p, Letters \cup Digits)
  <2>1. next \in p .. N /\ CharAt(src, next) \notin Letters \cup Digits
    BY <1>1, PastIs, NoneInClasses
  <2>2. next # p
    BY <1>1, <1>3, <2>1
  <2>3. ScanWord(src, p) = Slice(src, Lookup(Cut(src, p, next)), p, next)
    BY ScanWordIs
  <2> HIDE DEF next
  <2>4. next \in p + 1 .. N
    BY <1>1, <2>1, <2>2
  <2> QED
    BY <1>3, <2>3, <2>4, SliceFits
<1>4. ASSUME NEW kind, src[p] \in Quotes, ScanToken(src, p) = ScanQuoted(src, p, kind)
      PROVE  Fits(V, src, p, ScanToken(src, p))
  <2> DEFINE quoted == Quoted(src, src[p])[p + 1]
  <2>1. /\ quoted \in [text : Seq(V), next : {0} \cup p + 2 .. Len(src) + 1]
        /\ quoted.next = 0 => ScanQuoted(src, p, kind) = Slice(src, "ILLEGAL", p, Len(src) + 1)
        /\ quoted.next # 0 => ScanQuoted(src, p, kind) = Scanned(kind, quoted.text, quoted.next)
    BY <1>4, QuotedScans
  <2> HIDE DEF quoted
  <2>2. CASE quoted.next = 0
    <3>1. Len(src) + 1 \in p + 1 .. Len(src) + 1
      BY <1>1
    <3> QED
      BY <1>4, <2>1, <2>2, <3>1, SliceFits
  <2>3. CASE quoted.next # 0
    <3>1. quoted.text \in Seq(V) /\ quoted.next \in {0} \cup p + 2 .. Len(src) + 1
      BY <2>1
    <3>2. quoted.next \in p + 1 .. Len(src) + 1
      BY <1>1, <2>3, <3>1
    <3>3. ScanToken(src, p).text = quoted.text /\ ScanToken(src, p).next = quoted.next
      BY <1>4, <2>1, <2>3 DEF Scanned
    <3> QED
      BY <3>1, <3>2, <3>3 DEF Fits
  <2> QED
    BY <2>2, <2>3
<1>5. CASE ScanToken(src, p) = ScanSymbol(src, p)
  <2>1. p + 1 \in p + 1 .. Len(src) + 1
    BY <1>1
  <2> QED
    BY <1>5, <2>1, SymbolScans, SliceFits
<1>6. src[p] = "'" \/ src[p] = "\"" => src[p] \in Quotes
  BY Zenon DEF Quotes
<1> QED
  BY <1>2, <1>3, <1>4, <1>5, <1>6, ScanCases

\* The tokens from a position are a token and those from its end.
LEMMA TokensIs ==
  ASSUME NEW V, NEW src \in Seq(V)
  PROVE  \A p \in 1 .. Len(src) + 1 : TokensFrom(src)[p] = TokensOf(src, TokensFrom(src), p)
<1> DEFINE N == Len(src) + 1
           Step(f, p) == TokensOf(src, f, p)
           Right(h) == h = [p \in 1 .. N |-> Step(h, p)]
<1>1. Len(src) \in Nat /\ N \in Nat /\ N >= 1 /\ N = Len(src) + 1
  BY CharsAt
<1>2. \A f, p : Ahead("tokens", src, src, f, p) = Step(f, p)
  BY DEF Ahead
<1>3. ASSUME NEW p \in 1 .. N, NEW f, NEW g, \A q \in p + 1 .. N : f[q] = g[q]
      PROVE  Step(f, p) = Step(g, p)
  <2> DEFINE start == SkipTrivia(src)[p]
             next == ScanToken(src, start).next
  <2>1. start \in p .. N
    BY TriviaIs
  <2>2. CASE start > Len(src)
    BY <2>2 DEF TokensOf
  <2>3. CASE ~ (start > Len(src))
    <3>1. start \in 1 .. Len(src)
      <4> HIDE DEF start
      <4> QED
        BY <1>1, <2>1, <2>3
    <3>2. next \in start + 1 .. N
      <4> HIDE DEF start
      <4> QED
        BY <3>1, ScanLeads DEF Fits
    <3>3. next \in p + 1 .. N
      <4> HIDE DEF start, next
      <4> QED
        BY <1>1, <2>1, <3>2
    <3>4. f[next] = g[next]
      <4> HIDE DEF next
      <4> QED
        BY <1>3, <3>3
    <3>5. \A e : Step(e, p) = <<Entry(ScanToken(src, start))>> \o e[next]
      BY <2>3, Zenon DEF TokensOf
    <3> HIDE DEF next, start, Step
    <3> QED
      BY <3>4, <3>5
  <2> QED
    BY <2>2, <2>3
<1> HIDE DEF Step
<1>4. LooksAhead("tokens", src, src, N)
  <2> HIDE DEF N
  <2>1. ASSUME NEW p \in 1 .. N, NEW f, NEW g, \A q \in p + 1 .. N : f[q] = g[q]
        PROVE  Ahead("tokens", src, src, f, p) = Ahead("tokens", src, src, g, p)
    <3>1. Step(f, p) = Step(g, p)
      BY <1>3, <2>1
    <3> QED
      BY <1>2, <3>1
  <2> QED
    BY <2>1, Zenon DEF LooksAhead
<1>5. PICK g : g = [p \in 1 .. N |-> Ahead("tokens", src, src, g, p)]
  <2> HIDE DEF N
  <2> QED
    BY <1>1, <1>4, AheadIs
<1>6. Right(g)
  BY <1>2, <1>5
<1>7. TokensFrom(src) = CHOOSE h : Right(h)
  BY Zenon DEF TokensFrom, Step, TokensOf, Entry, Last1
<1>8. Right(TokensFrom(src))
  <2> HIDE DEF Right
  <2> QED
    BY <1>6, <1>7, Zenon
<1> DEFINE h == TokensFrom(src)
<1>9. h = [i \in 1 .. N |-> Step(h, i)]
  BY <1>8, Zenon
<1> HIDE DEF h
<1>10. \A p \in 1 .. N : h[p] = Step(h, p)
  BY <1>9
<1> QED
  BY <1>10 DEF Step, h

-----------------------------------------------------------------------------
(* A token inside of a longer text.                                        *)

Shifted(token, other, k) ==
  other.kind = token.kind /\ other.text = token.text /\ other.next = k + token.next

LEMMA SliceShifts ==
  ASSUME NEW part, NEW src, NEW k, Framed(part, src, k), NEW p \in 1 .. Len(part) + 1,
         NEW next \in p .. Len(part) + 1
  PROVE  /\ Cut(src, k + p, k + next) = Cut(part, p, next)
         /\ \A kind : Shifted(Slice(part, kind, p, next), Slice(src, kind, k + p, k + next), k)
<1> DEFINE a == Cut(part, p, next)
           b == Cut(src, k + p, k + next)
           n == next - p
<1>1. /\ Len(part) \in Nat /\ Len(src) \in Nat /\ k \in Nat /\ k + Len(part) < Len(src)
      /\ \A i \in 1 .. Len(part) : src[k + i] = part[i]
  BY FramedChars
<1>2. /\ n \in Nat /\ p \in Nat /\ (next - 1) - p + 1 = n /\ ((k + next) - 1) - (k + p) + 1 = n
      /\ \A i \in 1 .. n : p + i - 1 \in 1 .. Len(part) /\ (k + p) + i - 1 = k + (p + i - 1)
  BY <1>1
<1>3. a = [i \in 1 .. n |-> part[p + i - 1]]
  BY <1>1, <1>2 DEF Cut
<1>4. b = [i \in 1 .. n |-> src[(k + p) + i - 1]]
  BY <1>1, <1>2 DEF Cut
<1> HIDE DEF n, a, b
<1>5. \A i \in 1 .. n : src[(k + p) + i - 1] = part[p + i - 1]
  BY <1>1, <1>2, Zenon
<1>6. a = b
  BY <1>3, <1>4, <1>5
<1>7. ASSUME NEW kind
      PROVE  Shifted(Slice(part, kind, p, next), Slice(src, kind, k + p, k + next), k)
  <2>1. Cut(src, k + p, k + next) = Cut(part, p, next)
    BY <1>6 DEF a, b
  <2> DEFINE token == Slice(part, kind, p, next)
             other == Slice(src, kind, k + p, k + next)
  <2>2. token.kind = kind /\ token.next = next /\ token.text = Cut(part, p, next)
    BY SlicesAre
  <2>3. other.kind = kind /\ other.next = k + next /\ other.text = Cut(src, k + p, k + next)
    BY SlicesAre
  <2> HIDE DEF token, other
  <2>4. Shifted(token, other, k)
    BY <2>1, <2>2, <2>3, Zenon DEF Shifted
  <2> QED
    BY <2>4 DEF token, other
<1> QED
  BY <1>6, <1>7 DEF a, b

LEMMA NumberShifts ==
  ASSUME NEW part, NEW src, NEW k, Framed(part, src, k), NEW p \in 1 .. Len(part)
  PROVE  /\ HasPoint(src, k + p) <=> HasPoint(part, p)
         /\ HasExponent(src, k + p) <=> HasExponent(part, p)
         /\ HasExponent(part, p) => ExpDigits(src, k + p) = k + ExpDigits(part, p)
         /\ NumberEnd(src, k + p) = k + NumberEnd(part, p)
<1> DEFINE N == Len(part) + 1
           whole == WholeEnd(part, p)
           frac == FracEnd(part, p)
           digits == ExpDigits(part, p)
           end == NumberEnd(part, p)
<1>1. /\ Len(part) \in Nat /\ k \in Nat /\ N = Len(part) + 1 /\ p \in 1 .. N
      /\ part \in Seq(Characters)
  BY FramedChars DEF Framed
<1>2. /\ whole \in p .. Len(part) + 1
      /\ HasPoint(part, p) => whole <= Len(part) /\ frac > whole
      /\ frac \in whole .. Len(part) + 1
      /\ HasExponent(part, p) => /\ frac <= Len(part)
                                 /\ digits \in frac + 1 .. Len(part) + 1
                                 /\ end \in digits .. Len(part) + 1
      /\ end \in frac .. Len(part) + 1
  BY <1>1, NumberParts
<1>3. WholeEnd(src, k + p) = k + whole
  BY <1>1, PastShifts, ClassesApart DEF WholeEnd
<1> HIDE DEF whole
<1>4. whole \in 1 .. N
  BY <1>1, <1>2
<1>5. HasPoint(src, k + p) <=> HasPoint(part, p)
  <2>1. CharAt(src, k + whole) \in {"."} <=> CharAt(part, whole) \in {"."}
    BY <1>4, SameClass, ClassesApart
  <2> QED
    BY <1>3, <2>1 DEF HasPoint, whole
<1>6. FracEnd(src, k + p) = k + frac
  <2>1. CASE HasPoint(part, p)
    <3>1. whole + 1 \in 1 .. Len(part) + 1 /\ k + (whole + 1) = (k + whole) + 1
      BY <1>1, <1>2, <2>1
    <3>2. Past(src, k + (whole + 1), Digits) = k + Past(part, whole + 1, Digits)
      BY <3>1, PastShifts, ClassesApart
    <3>3. frac = Past(part, whole + 1, Digits)
      BY <2>1 DEF FracEnd, whole
    <3>4. FracEnd(src, k + p) = Past(src, (k + whole) + 1, Digits)
      BY <1>3, <1>5, <2>1, Zenon DEF FracEnd
    <3> HIDE DEF frac
    <3> QED
      BY <3>1, <3>2, <3>3, <3>4
  <2>2. CASE ~HasPoint(part, p)
    BY <1>3, <1>5, <2>2 DEF FracEnd, whole
  <2> QED
    BY <2>1, <2>2
<1> HIDE DEF frac
<1>7. frac \in 1 .. N
  BY <1>1, <1>2, <1>4
<1>8. HasExponent(src, k + p) <=> HasExponent(part, p)
  <2>1. CharAt(src, k + frac) \in {"e", "E"} <=> CharAt(part, frac) \in {"e", "E"}
    BY <1>7, SameClass, ClassesApart
  <2> QED
    BY <1>6, <2>1 DEF HasExponent, frac
<1>9. HasExponent(part, p) => ExpDigits(src, k + p) = k + digits
  <2> SUFFICES ASSUME HasExponent(part, p) PROVE ExpDigits(src, k + p) = k + digits
    OBVIOUS
  <2>1. frac + 1 \in 1 .. Len(part) + 1 /\ k + (frac + 1) = (k + frac) + 1
    BY <1>1, <1>2, <1>7
  <2>2. CharAt(src, k + (frac + 1)) \in {"+", "-"} <=> CharAt(part, frac + 1) \in {"+", "-"}
    BY <2>1, SameClass, ClassesApart
  <2>3. CharAt(src, (k + frac) + 1) \in {"+", "-"} <=> CharAt(part, frac + 1) \in {"+", "-"}
    BY <2>1, <2>2
  <2>4. ExpDigits(src, k + p) = IF CharAt(src, (k + frac) + 1) \in {"+", "-"}
                                THEN (k + frac) + 2 ELSE (k + frac) + 1
    BY <1>6, Zenon DEF ExpDigits
  <2>5. digits = IF CharAt(part, frac + 1) \in {"+", "-"} THEN frac + 2 ELSE frac + 1
    BY Zenon DEF ExpDigits, frac
  <2> HIDE DEF digits
  <2> QED
    BY <1>1, <1>7, <2>3, <2>4, <2>5
<1>10. NumberEnd(src, k + p) = k + end
  <2>1. CASE HasExponent(part, p)
    <3>1. ExpDigits(src, k + p) = k + digits
      BY <1>9, <2>1
    <3> HIDE DEF digits
    <3>2. digits \in 1 .. Len(part) + 1
      BY <1>1, <1>2, <1>7, <2>1
    <3>3. Past(src, k + digits, Digits) = k + Past(part, digits, Digits)
      BY <3>2, PastShifts, ClassesApart
    <3>4. NumberEnd(src, k + p) = Past(src, k + digits, Digits)
      BY <1>8, <2>1, <3>1, Zenon DEF NumberEnd
    <3>5. end = Past(part, digits, Digits)
      BY <2>1, Zenon DEF NumberEnd, digits
    <3> HIDE DEF end
    <3> QED
      BY <3>3, <3>4, <3>5
  <2>2. CASE ~HasExponent(part, p)
    BY <1>6, <1>8, <2>2 DEF NumberEnd, frac
  <2> QED
    BY <2>1, <2>2
<1> QED
  BY <1>5, <1>8, <1>9, <1>10

LEMMA QuotedShifts ==
  ASSUME NEW part, NEW src, NEW k, Framed(part, src, k), NEW quote \in Quotes \cap Characters
  PROVE  \A p \in 1 .. Len(part) + 1 :
           Quoted(part, quote)[p].next # 0 =>
             /\ Quoted(src, quote)[k + p].next = k + Quoted(part, quote)[p].next
             /\ Quoted(src, quote)[k + p].text = Quoted(part, quote)[p].text
<1> DEFINE N == Len(part) + 1
           f == Quoted(part, quote)
           g == Quoted(src, quote)
           Moved(p) == f[p].next # 0 => g[k + p].next = k + f[p].next /\ g[k + p].text = f[p].text
           S == {p \in 1 .. N : Moved(p)}
<1>1. /\ Len(part) \in Nat /\ Len(src) \in Nat /\ k \in Nat /\ k + Len(part) < Len(src)
      /\ \A i \in 1 .. Len(part) : src[k + i] = part[i]
      /\ part \in Seq(Characters) /\ src \in Seq(Characters) /\ N = Len(part) + 1
      /\ \A i \in Nat : i > Len(part) => CharAt(part, i) = NoCharacter
  BY FramedChars, CharsAt DEF Framed
<1>2. quote # NoCharacter /\ {quote} \cap Outside = {}
  BY QuotesApart
<1>3. \A p \in 1 .. Len(part) + 1 : f[p] = RestOf(part, quote, f, p)
  BY <1>1, <1>2, QuotedIs
<1>4. \A p \in 1 .. Len(src) + 1 : g[p] = RestOf(src, quote, g, p)
  BY <1>1, <1>2, QuotedIs
<1>5. \A p \in 1 .. Len(part) + 1 :
        f[p] \in [text : Seq(Characters), next : {0} \cup p + 1 .. Len(part) + 1]
  BY <1>1, <1>2, QuotedRange
<1>6. \A p \in 1 .. Len(src) + 1 :
        g[p] \in [text : Seq(Characters), next : {0} \cup p + 1 .. Len(src) + 1]
  BY <1>1, <1>2, QuotedRange
<1> HIDE DEF f, g
<1>7. ASSUME NEW p \in 1 .. Len(part), NEW q \in p + 1 .. N, Moved(q), NEW c,
             f[p] = [f[q] EXCEPT !.text = <<c>> \o @],
             g[k + p] = [g[k + q] EXCEPT !.text = <<c>> \o @]
      PROVE  Moved(p)
  <2>1. q \in 1 .. Len(part) + 1 /\ k + q \in 1 .. Len(src) + 1
    BY <1>1
  <2>2. f[p] = [text |-> <<c>> \o f[q].text, next |-> f[q].next]
    BY <1>5, <1>7, <2>1, Longer, Zenon
  <2>3. g[k + p] = [text |-> <<c>> \o g[k + q].text, next |-> g[k + q].next]
    BY <1>6, <1>7, <2>1, Longer, Zenon
  <2>4. f[p].next = f[q].next /\ f[p].text = <<c>> \o f[q].text
    BY <2>2
  <2>5. g[k + p].next = g[k + q].next /\ g[k + p].text = <<c>> \o g[k + q].text
    BY <2>3
  <2> QED
    BY <1>7, <2>4, <2>5
<1>8. ASSUME NEW p \in 1 .. N, \A q \in p + 1 .. N : q \in S
      PROVE  p \in S
  <2>0. \A q \in p + 1 .. N : Moved(q)
    BY <1>8
  <2>1. p \in 1 .. Len(part) + 1 /\ k + p \in 1 .. Len(src) + 1
    BY <1>1
  <2> HIDE DEF Moved, N
  <2>2. CASE p > Len(part)
    <3>1. f[p] = [text |-> << >>, next |-> 0]
      BY <1>3, <2>1, <2>2 DEF RestOf
    <3>2. Moved(p)
      BY <3>1 DEF Moved
    <3> QED
      BY <3>2
  <2>3. ASSUME ~ (p > Len(part)) PROVE Moved(p)
    <3>1. p \in 1 .. Len(part) /\ ~ (k + p > Len(src)) /\ src[k + p] = part[p]
      BY <1>1, <2>1, <2>3
    <3>2. CASE part[p] # quote
      <4>1. f[p] = [f[p + 1] EXCEPT !.text = <<part[p]>> \o @]
        BY <1>3, <2>1, <2>3, <3>2, Zenon DEF RestOf
      <4>2. g[k + p] = [g[(k + p) + 1] EXCEPT !.text = <<part[p]>> \o @]
        BY <1>4, <2>1, <3>1, <3>2, Zenon DEF RestOf
      <4>3. p + 1 \in p + 1 .. N /\ (k + p) + 1 = k + (p + 1)
        BY <1>1, <3>1
      <4> DEFINE q == p + 1
      <4>4. q \in p + 1 .. N /\ f[p] = [f[q] EXCEPT !.text = <<part[p]>> \o @]
            /\ g[k + p] = [g[k + q] EXCEPT !.text = <<part[p]>> \o @] /\ Moved(q)
        BY <2>0, <4>1, <4>2, <4>3, Zenon
      <4> HIDE DEF q
      <4> QED
        BY <1>7, <3>1, <4>4, Zenon
    <3>3. CASE part[p] = quote
      <4>1. CharAt(src, (k + p) + 1) = quote <=> CharAt(part, p + 1) = quote
        <5>1. p + 1 \in 1 .. Len(part) + 1 /\ (k + p) + 1 = k + (p + 1)
          BY <1>1, <3>1
        <5>2. CharAt(src, k + (p + 1)) \in {quote} <=> CharAt(part, p + 1) \in {quote}
          BY <1>2, <5>1, SameClass
        <5> QED
          BY <5>1, <5>2
      <4>2. CASE CharAt(part, p + 1) # quote
        <5>1. f[p] = [text |-> << >>, next |-> p + 1]
          BY <1>3, <2>1, <2>3, <3>3, <4>2 DEF RestOf
        <5>2. g[k + p] = [text |-> << >>, next |-> (k + p) + 1]
          BY <1>4, <2>1, <3>1, <3>3, <4>1, <4>2 DEF RestOf
        <5>3. (k + p) + 1 = k + (p + 1)
          BY <1>1
        <5> QED
          BY <5>1, <5>2, <5>3 DEF Moved
      <4>3. CASE CharAt(part, p + 1) = quote
        <5>1. f[p] = [f[p + 2] EXCEPT !.text = <<quote>> \o @]
          BY <1>3, <2>1, <2>3, <3>3, <4>3, Zenon DEF RestOf
        <5>2. g[k + p] = [g[(k + p) + 2] EXCEPT !.text = <<quote>> \o @]
          BY <1>4, <2>1, <3>1, <3>3, <4>1, <4>3, Zenon DEF RestOf
        <5>3. ~ (p + 1 > Len(part))
          BY <1>1, <1>2, <4>3
        <5>4. p + 2 \in p + 1 .. N /\ (k + p) + 2 = k + (p + 2)
          BY <1>1, <5>3
        <5> DEFINE q == p + 2
        <5>5. q \in p + 1 .. N /\ f[p] = [f[q] EXCEPT !.text = <<quote>> \o @]
              /\ g[k + p] = [g[k + q] EXCEPT !.text = <<quote>> \o @] /\ Moved(q)
          BY <2>0, <5>1, <5>2, <5>4, Zenon
        <5> HIDE DEF q
        <5> QED
          BY <1>7, <3>1, <5>5, Zenon
      <4> QED
        BY <4>2, <4>3
    <3> QED
      BY <3>2, <3>3
  <2> QED
    BY <2>2, <2>3
<1> HIDE DEF S, N
<1>9. \A p \in 1 .. N : p \in S
  <2>1. N \in Nat
    BY <1>1
  <2> QED
    BY <1>8, <2>1, Downwards
<1>10. \A p \in 1 .. N : Moved(p)
  BY <1>9 DEF S
<1> QED
  BY <1>10, Zenon DEF N, f, g

LEMMA SymbolShifts ==
  ASSUME NEW part, NEW src, NEW k, Framed(part, src, k), NEW p \in 1 .. Len(part)
  PROVE  Shifted(ScanSymbol(part, p), ScanSymbol(src, k + p), k)
<1> DEFINE pairs == {s \in Pairs : s[1] = part[p] /\ s[2] = CharAt(part, p + 1)}
           single == {s \in Symbols : s[1] = part[p]}
           others == {s \in Pairs : s[1] = src[k + p] /\ s[2] = CharAt(src, (k + p) + 1)}
           ones == {s \in Symbols : s[1] = src[k + p]}
           pair == CHOOSE s \in pairs : TRUE
           one == CHOOSE s \in single : TRUE
<1>1. /\ Len(part) \in Nat /\ k \in Nat /\ src[k + p] = part[p] /\ part \in Seq(Characters)
      /\ p + 1 \in 1 .. Len(part) + 1 /\ (k + p) + 1 = k + (p + 1) /\ (k + p) + 2 = k + (p + 2)
      /\ p \in 1 .. Len(part) + 1
  BY FramedChars DEF Framed
<1>2. ASSUME NEW s \in Pairs
      PROVE  s[2] = CharAt(src, (k + p) + 1) <=> s[2] = CharAt(part, p + 1)
  <2>1. s[2] \in {"=", ">", "|"}
    BY DEF Pairs
  <2>2. s[2] \notin Outside
    BY <2>1, Zenon DEF Outside, Spaces, Semicolon, NoCharacter
  <2>3. {s[2]} \cap Outside = {}
    BY <2>2
  <2> DEFINE class == {s[2]}
  <2>4. CharAt(src, k + (p + 1)) \in class <=> CharAt(part, p + 1) \in class
    <3>1. class \cap Outside = {} /\ p + 1 \in 1 .. Len(part) + 1
      BY <1>1, <2>3
    <3> HIDE DEF class
    <3> QED
      BY <3>1, SameClass
  <2> QED
    BY <1>1, <2>4
<1>3. others = pairs /\ ones = single
  BY <1>1, <1>2
<1>4. ScanSymbol(part, p) = IF pairs # {} THEN Slice(part, pair[3], p, p + 2)
                            ELSE IF single # {} THEN Slice(part, one[2], p, p + 1)
                            ELSE Slice(part, "ILLEGAL", p, p + 1)
  BY Zenon DEF ScanSymbol
<1>5. ScanSymbol(src, k + p) =
        IF others # {} THEN Slice(src, (CHOOSE s \in others : TRUE)[3], k + p, (k + p) + 2)
        ELSE IF ones # {} THEN Slice(src, (CHOOSE s \in ones : TRUE)[2], k + p, (k + p) + 1)
        ELSE Slice(src, "ILLEGAL", k + p, (k + p) + 1)
  BY Zenon DEF ScanSymbol
<1>6. ScanSymbol(src, k + p) =
        IF pairs # {} THEN Slice(src, pair[3], k + p, k + (p + 2))
        ELSE IF single # {} THEN Slice(src, one[2], k + p, k + (p + 1))
        ELSE Slice(src, "ILLEGAL", k + p, k + (p + 1))
  BY <1>1, <1>3, <1>5, Zenon
<1>7. pairs # {} => p + 2 \in p .. Len(part) + 1
  <2> SUFFICES ASSUME NEW s \in pairs PROVE p + 2 \in p .. Len(part) + 1
    BY Zenon
  <2>1. s[2] \in {"=", ">", "|"} /\ s[2] = CharAt(part, p + 1)
    BY DEF Pairs
  <2>2. s[2] # NoCharacter
    BY <2>1, Zenon DEF NoCharacter
  <2>3. ~ (p + 1 > Len(part))
    BY <1>1, <2>1, <2>2, CharsAt
  <2> QED
    BY <1>1, <2>3
<1>8. p + 1 \in p .. Len(part) + 1
  BY <1>1
<1> HIDE DEF pairs, single, pair, one
<1> QED
  BY <1>1, <1>4, <1>6, <1>7, <1>8, SliceShifts

LEMMA ScanShifts ==
  ASSUME NEW part, NEW src, NEW k, Framed(part, src, k), NEW p \in 1 .. Len(part),
         ScanToken(part, p).kind # "ILLEGAL"
  PROVE  Shifted(ScanToken(part, p), ScanToken(src, k + p), k)
<1>1. /\ Len(part) \in Nat /\ k \in Nat /\ src[k + p] = part[p] /\ part[p] \in Characters
      /\ part \in Seq(Characters) /\ src \in Seq(Characters) /\ p \in 1 .. Len(part) + 1
      /\ p + 1 \in 1 .. Len(part) + 1 /\ (k + p) + 1 = k + (p + 1)
      /\ k + p \in 1 .. Len(src)
  BY FramedChars, CharsAt DEF Framed
<1>2. Numeric(src, k + p) <=> Numeric(part, p)
  <2>1. CharAt(src, k + (p + 1)) \in Digits <=> CharAt(part, p + 1) \in Digits
    BY <1>1, SameClass, ClassesApart
  <2>2. CharAt(src, (k + p) + 1) \in Digits <=> CharAt(part, p + 1) \in Digits
    BY <1>1, <2>1
  <2> QED
    BY <1>1, <2>2 DEF Numeric
<1>3. CASE Numeric(part, p)
  <2> DEFINE frac == FracEnd(part, p)
             digits == ExpDigits(part, p)
             end == NumberEnd(part, p)
             tail == Past(part, end, Letters \cup Digits)
             kind == IF HasPoint(part, p) \/ HasExponent(part, p) THEN "FLOAT" ELSE "INT"
  <2>1. /\ WholeEnd(part, p) \in p .. Len(part) + 1
        /\ frac \in WholeEnd(part, p) .. Len(part) + 1
        /\ HasExponent(part, p) => digits \in frac + 1 .. Len(part) + 1
        /\ end \in frac .. Len(part) + 1
    BY <1>1, NumberParts
  <2>2. /\ HasPoint(src, k + p) <=> HasPoint(part, p)
        /\ HasExponent(src, k + p) <=> HasExponent(part, p)
        /\ HasExponent(part, p) => ExpDigits(src, k + p) = k + digits
        /\ NumberEnd(src, k + p) = k + end
    BY NumberShifts
  <2>3. ScanToken(part, p) = ScanNumber(part, p) /\ ScanToken(src, k + p) = ScanNumber(src, k + p)
    BY <1>2, <1>3, ScanCases
  <2>4. ScanNumber(part, p) =
          IF HasExponent(part, p) /\ end = digits THEN Slice(part, "ILLEGAL", p, digits)
          ELSE IF CharAt(part, end) \in Letters THEN Slice(part, "ILLEGAL", p, tail)
          ELSE Slice(part, kind, p, end)
    BY ScanNumberIs, Zenon
  <2>5. ~ (HasExponent(part, p) /\ end = digits) /\ CharAt(part, end) \notin Letters
    <3>1. \A next : Slice(part, "ILLEGAL", p, next).kind = "ILLEGAL"
      BY SlicesAre
    <3> HIDE DEF digits, end, tail, kind
    <3> QED
      BY <2>3, <2>4, <3>1
  <2>6. ScanToken(part, p) = Slice(part, kind, p, end)
    BY <2>3, <2>4, <2>5, Zenon
  <2> HIDE DEF frac, digits, end, tail
  <2>7. end \in p .. Len(part) + 1 /\ end \in 1 .. Len(part) + 1
    BY <1>1, <2>1
  <2>8. ~ (HasExponent(src, k + p) /\ NumberEnd(src, k + p) = ExpDigits(src, k + p))
    <3> SUFFICES ASSUME HasExponent(part, p) PROVE k + end # k + digits
      BY <2>2
    <3>1. digits \in frac + 1 .. Len(part) + 1
      BY <2>1
    <3> QED
      BY <1>1, <2>1, <2>5, <3>1
  <2>9. CharAt(src, k + end) \notin Letters
    BY <2>5, <2>7, SameClass, ClassesApart
  <2>10. ScanNumber(src, k + p) = Slice(src, kind, k + p, k + end)
    BY <2>2, <2>8, <2>9, ScanNumberIs, Zenon DEF kind
  <2> QED
    BY <1>1, <2>3, <2>6, <2>7, <2>10, SliceShifts
<1>4. CASE ~Numeric(part, p) /\ part[p] \in Letters
  <2> DEFINE stop == Past(part, p, Letters \cup Digits)
  <2>1. ScanToken(part, p) = ScanWord(part, p) /\ ScanToken(src, k + p) = ScanWord(src, k + p)
    BY <1>1, <1>2, <1>4, ScanCases
  <2>2. /\ stop \in p .. Len(part) + 1
        /\ Past(src, k + p, Letters \cup Digits) = k + stop
    <3> DEFINE class == Letters \cup Digits
    <3>1. class \cap Outside = {} /\ p \in 1 .. Len(part) + 1
      BY <1>1, ClassesApart, Zenon
    <3> HIDE DEF class
    <3>2. /\ Past(part, p, class) \in p .. Len(part) + 1
          /\ Past(src, k + p, class) = k + Past(part, p, class)
      BY <3>1, PastShifts
    <3> QED
      BY <3>2, Zenon DEF class
  <2>3. ScanWord(part, p) = Slice(part, Lookup(Cut(part, p, stop)), p, stop)
    BY ScanWordIs
  <2>4. ScanWord(src, k + p) = Slice(src, Lookup(Cut(src, k + p, k + stop)), k + p, k + stop)
    BY <2>2, ScanWordIs, Zenon
  <2> HIDE DEF stop
  <2>5. Cut(src, k + p, k + stop) = Cut(part, p, stop)
    BY <1>1, <2>2, SliceShifts
  <2> QED
    BY <1>1, <2>1, <2>2, <2>3, <2>4, <2>5, SliceShifts
<1>5. ASSUME NEW kind, part[p] \in Quotes, ScanToken(part, p) = ScanQuoted(part, p, kind),
             ScanToken(src, k + p) = ScanQuoted(src, k + p, kind)
      PROVE  Shifted(ScanToken(part, p), ScanToken(src, k + p), k)
  <2> DEFINE quoted == Quoted(part, part[p])[p + 1]
             other == Quoted(src, part[p])[(k + p) + 1]
  <2>1. /\ quoted \in [text : Seq(Characters), next : {0} \cup p + 2 .. Len(part) + 1]
        /\ quoted.next = 0 => ScanQuoted(part, p, kind) = Slice(part, "ILLEGAL", p, Len(part) + 1)
        /\ quoted.next # 0 => ScanQuoted(part, p, kind) = Scanned(kind, quoted.text, quoted.next)
    BY <1>1, <1>5, QuotedScans
  <2>2. other.next # 0 => ScanQuoted(src, k + p, kind) = Scanned(kind, other.text, other.next)
    <3>1. src \in Seq(Characters) /\ k + p \in 1 .. Len(src) /\ src[k + p] = part[p]
      BY <1>1
    <3> DEFINE end == k + p
    <3> HIDE DEF end
    <3>2. LET there == Quoted(src, src[end])[end + 1]
          IN  there.next # 0 => ScanQuoted(src, end, kind) = Scanned(kind, there.text, there.next)
      <4>1. end \in 1 .. Len(src) /\ src[end] \in Quotes
        BY <1>5, <3>1, Zenon DEF end
      <4> QED
        BY <3>1, <4>1, QuotedScans
    <3> QED
      BY <3>1, <3>2, Zenon DEF end
  <2>3. quoted.next # 0
    <3>1. Slice(part, "ILLEGAL", p, Len(part) + 1).kind = "ILLEGAL"
      BY SlicesAre
    <3> HIDE DEF quoted
    <3> QED
      BY <1>5, <2>1, <3>1
  <2>4. /\ Quoted(src, part[p])[k + (p + 1)].next = k + quoted.next
        /\ Quoted(src, part[p])[k + (p + 1)].text = quoted.text
    <3> DEFINE quote == part[p]
               next == p + 1
    <3>1. quote \in Quotes \cap Characters /\ next \in 1 .. Len(part) + 1
      BY <1>1, <1>5
    <3> HIDE DEF quote, next
    <3>2. Quoted(part, quote)[next].next # 0 =>
            /\ Quoted(src, quote)[k + next].next = k + Quoted(part, quote)[next].next
            /\ Quoted(src, quote)[k + next].text = Quoted(part, quote)[next].text
      BY <3>1, QuotedShifts
    <3> QED
      BY <2>3, <3>2, Zenon DEF quote, next
  <2>5. other.next = k + quoted.next /\ other.text = quoted.text
    BY <1>1, <2>4
  <2> HIDE DEF quoted, other
  <2>6. quoted.next \in Nat /\ quoted.next # 0
    BY <1>1, <2>1, <2>3
  <2>7. other.next # 0
    BY <1>1, <2>5, <2>6
  <2>8. /\ ScanToken(part, p) = Scanned(kind, quoted.text, quoted.next)
        /\ ScanToken(src, k + p) = Scanned(kind, other.text, other.next)
    BY <1>5, <2>1, <2>2, <2>3, <2>7
  <2> QED
    BY <2>5, <2>8 DEF Scanned, Shifted
<1>6. CASE /\ ~Numeric(part, p) /\ part[p] \notin Letters /\ part[p] # "'" /\ part[p] # "\""
  <2>1. ScanToken(part, p) = ScanSymbol(part, p) /\ ScanToken(src, k + p) = ScanSymbol(src, k + p)
    BY <1>1, <1>2, <1>6, ScanCases
  <2> QED
    BY <2>1, SymbolShifts
<1>7. CASE ~Numeric(part, p) /\ part[p] \notin Letters /\ (part[p] = "'" \/ part[p] = "\"")
  <2>1. part[p] \in Quotes
    BY <1>7, Zenon DEF Quotes
  <2>2. \E kind : /\ ScanToken(part, p) = ScanQuoted(part, p, kind)
                  /\ ScanToken(src, k + p) = ScanQuoted(src, k + p, kind)
    <3>1. CASE part[p] = "'"
      BY <1>1, <1>2, <1>7, <3>1, ScanCases
    <3>2. CASE part[p] = "\""
      BY <1>1, <1>2, <1>7, <3>2, ScanCases
    <3> QED
      BY <1>7, <3>1, <3>2
  <2> QED
    BY <1>5, <2>1, <2>2
<1> QED
  BY <1>3, <1>4, <1>6, <1>7
-----------------------------------------------------------------------------
(* White space and comments inside of a longer text.                       *)

Least(S) == CHOOSE q \in S : \A r \in S : q <= r

LEMMA TheLeast ==
  ASSUME NEW S \in SUBSET Nat, NEW q \in S, \A r \in S : q <= r
  PROVE  Least(S) = q
<1>1. \E p \in S : \A r \in S : p <= r
  OBVIOUS
<1>2. Least(S) \in S /\ \A r \in S : Least(S) <= r
  BY <1>1, Zenon DEF Least
<1> DEFINE l == Least(S)
<1> HIDE DEF l
<1>3. l \in S /\ \A r \in S : l <= r
  BY <1>2 DEF l
<1>4. l <= q /\ q <= l /\ l \in Nat /\ q \in Nat
  BY <1>3
<1>5. l = q
  BY <1>4
<1> QED
  BY <1>5 DEF l

\* After the text the scanner goes on to the semicolon.
LEMMA TailSkipped ==
  ASSUME NEW part, NEW src, NEW k, Framed(part, src, k)
  PROVE  \A q \in k + Len(part) + 1 .. Len(src) : SkipTrivia(src)[q] = Len(src)
<1> DEFINE M == Len(src)
           first == k + Len(part) + 1
           skip == SkipTrivia(src)
           S == {q \in 1 .. M : q >= first => skip[q] = M}
<1>1. /\ M \in Nat /\ first \in Nat /\ first >= 1 /\ first <= M
      /\ \A q \in first .. M - 1 : src[q] \in Spaces
      /\ \A q \in 1 .. M : CharAt(src, q) = src[q]
      /\ src[M] = Semicolon
  <2>1. /\ \A q \in k + Len(part) + 1 .. Len(src) - 1 : src[q] \in Spaces
        /\ src[Len(src)] = Semicolon /\ src \in Seq(Characters)
    BY DEF Framed
  <2>2. /\ Len(part) \in Nat /\ Len(src) \in Nat /\ k \in Nat /\ k + Len(part) < Len(src)
    BY FramedChars
  <2>3. \A q \in 1 .. M : CharAt(src, q) = src[q]
    BY <2>1, CharsAt
  <2> QED
    BY <2>1, <2>2, <2>3
<1>2. \A q \in 1 .. M + 1 : skip[q] = TriviaOf(src, skip, q)
  BY TriviaIs DEF Framed
<1> HIDE DEF first, skip
<1>3. skip[M] = M
  <2>1. CharAt(src, M) = Semicolon /\ M \in 1 .. M + 1
    BY <1>1
  <2>2. Semicolon \notin Spaces /\ Semicolon # "-" /\ Semicolon # "/"
    BY Zenon DEF Semicolon, Spaces
  <2>3. /\ <<CharAt(src, M), CharAt(src, M + 1)>> # <<"-", "-">>
        /\ <<CharAt(src, M), CharAt(src, M + 1)>> # <<"/", "*">>
    BY <2>1, <2>2
  <2>4. TriviaOf(src, skip, M) = M
    BY <2>1, <2>2, <2>3, Zenon DEF TriviaOf
  <2> QED
    BY <1>2, <2>1, <2>4
<1>4. ASSUME NEW q \in 1 .. M, \A r \in q + 1 .. M : r \in S
      PROVE  q \in S
  <2> SUFFICES ASSUME q >= first PROVE skip[q] = M
    OBVIOUS
  <2>1. CASE q = M
    BY <1>3, <2>1
  <2>2. CASE q # M
    <3>1. q \in first .. M - 1 /\ q + 1 \in q + 1 .. M /\ q + 1 >= first /\ q \in 1 .. M + 1
      <4> HIDE DEF M, S
      <4>1. M \in Nat /\ first \in Nat /\ first >= 1 /\ q \in 1 .. M /\ q # M /\ q >= first
        BY <1>1, <2>2
      <4> QED
        BY <4>1
    <3>2. CharAt(src, q) \in Spaces
      BY <1>1, <3>1
    <3>3. skip[q] = skip[q + 1]
      BY <1>2, <3>1, <3>2 DEF TriviaOf
    <3>4. skip[q + 1] = M
      BY <1>4, <3>1
    <3> QED
      BY <3>3, <3>4
  <2> QED
    BY <2>1, <2>2
<1> HIDE DEF S, M
<1>5. \A q \in 1 .. M : q \in S
  BY <1>1, <1>4, Downwards
<1>6. \A q \in first .. M : skip[q] = M
  BY <1>1, <1>5 DEF S
<1> QED
  BY <1>6 DEF first, skip, M

\* Before the text it goes on to its first character.
LEMMA HeadSkipped ==
  ASSUME NEW part, NEW src, NEW k, Framed(part, src, k)
  PROVE  SkipTrivia(src)[1] = SkipTrivia(src)[k + 1]
<1> DEFINE N == k + 1
           skip == SkipTrivia(src)
           S == {q \in 1 .. N : skip[q] = skip[N]}
<1>1. /\ k \in Nat /\ k < Len(src) /\ Len(src) \in Nat
      /\ \A q \in 1 .. k : src[q] \in Spaces /\ CharAt(src, q) = src[q]
  <2>1. (\A q \in 1 .. k : src[q] \in Spaces) /\ src \in Seq(Characters)
    BY DEF Framed
  <2>2. /\ Len(part) \in Nat /\ Len(src) \in Nat /\ k \in Nat /\ k + Len(part) < Len(src)
    BY FramedChars
  <2>3. \A q \in 1 .. Len(src) : CharAt(src, q) = src[q]
    BY <2>1, CharsAt
  <2> QED
    BY <2>1, <2>2, <2>3
<1>2. \A q \in 1 .. Len(src) + 1 : skip[q] = TriviaOf(src, skip, q)
  BY TriviaIs DEF Framed
<1> HIDE DEF skip
<1>3. ASSUME NEW q \in 1 .. N, \A r \in q + 1 .. N : r \in S
      PROVE  q \in S
  <2>1. CASE q = N
    BY <2>1
  <2>2. CASE q # N
    <3>1. q \in 1 .. k /\ q \in 1 .. Len(src) + 1 /\ q + 1 \in q + 1 .. N
      BY <1>1, <2>2
    <3>2. CharAt(src, q) \in Spaces
      BY <1>1, <3>1
    <3>3. skip[q] = skip[q + 1]
      BY <1>2, <3>1, <3>2 DEF TriviaOf
    <3>4. skip[q + 1] = skip[N]
      BY <1>3, <3>1
    <3> QED
      BY <3>3, <3>4
  <2> QED
    BY <2>1, <2>2
<1>4. N \in Nat /\ 1 \in 1 .. N
  BY <1>1
<1> HIDE DEF S, N
<1>5. \A q \in 1 .. N : q \in S
  BY <1>4, <1>3, Downwards
<1>6. skip[1] = skip[N]
  BY <1>4, <1>5 DEF S
<1> QED
  BY <1>6 DEF skip, N

\* A comment that ends in the text ends there in the longer one, and one that does not
\* runs to the end of that.
LEMMA CommentShifts ==
  ASSUME NEW part, NEW src, NEW k, Framed(part, src, k), NEW p \in 1 .. Len(part) + 1
  PROVE  \/ CommentEnd(src, k + p) = k + CommentEnd(part, p)
         \/ CommentEnd(part, p) = Len(part) + 1 /\ CommentEnd(src, k + p) = Len(src) + 1
<1> DEFINE here == {q \in p .. (Len(part) - 1) : part[q] = "*" /\ part[q + 1] = "/"}
           there == {q \in (k + p) .. (Len(src) - 1) : src[q] = "*" /\ src[q + 1] = "/"}
<1>1. CommentEnd(part, p) = IF here = {} THEN Len(part) + 1 ELSE 2 + Least(here)
  BY Zenon DEF CommentEnd, Least
<1>2. CommentEnd(src, k + p) = IF there = {} THEN Len(src) + 1 ELSE 2 + Least(there)
  BY Zenon DEF CommentEnd, Least
<1>3. /\ Len(part) \in Nat /\ Len(src) \in Nat /\ k \in Nat /\ k + Len(part) < Len(src)
      /\ \A i \in 1 .. Len(part) : src[k + i] = part[i]
      /\ src \in Seq(Characters)
  BY FramedChars DEF Framed
<1>4. ASSUME NEW q \in here PROVE k + q \in there
  <2>1. /\ q \in 1 .. Len(part) /\ q + 1 \in 1 .. Len(part) /\ k + (q + 1) = (k + q) + 1
        /\ k + q \in (k + p) .. (Len(src) - 1)
    BY <1>3
  <2>2. part[q] = "*" /\ part[q + 1] = "/"
    OBVIOUS
  <2>3. src[k + q] = "*" /\ src[(k + q) + 1] = "/"
    BY <1>3, <2>1, <2>2
  <2> QED
    BY <2>1, <2>3
<1>5. ASSUME NEW q \in there PROVE q - k \in here
  <2>1. q \in (k + p) .. (Len(src) - 1) /\ src[q] = "*" /\ src[q + 1] = "/"
    OBVIOUS
  <2>2. "*" \notin Outside /\ "/" \notin Outside
    BY ClassesApart
  <2>3. q <= k + Len(part)
    <3> SUFFICES ASSUME ~ (q <= k + Len(part)) PROVE FALSE
      OBVIOUS
    <3>1. q \in k + Len(part) + 1 .. Len(src) - 1
      BY <1>3, <2>1
    <3>2. src[q] \in Spaces
      BY <3>1 DEF Framed
    <3> QED
      BY <2>1, <2>2, <3>2 DEF Outside
  <2>4. q # k + Len(part)
    <3> SUFFICES ASSUME q = k + Len(part) PROVE FALSE
      OBVIOUS
    <3>1. CharAt(src, q + 1) \in Outside
      BY FramedChars
    <3>2. q + 1 \in 1 .. Len(src)
      BY <1>3, <2>1
    <3>3. CharAt(src, q + 1) = src[q + 1]
      BY <1>3, <3>2, CharsAt
    <3> QED
      BY <2>1, <2>2, <3>1, <3>3
  <2>5. /\ q - k \in p .. Len(part) - 1 /\ q - k \in 1 .. Len(part) /\ (q - k) + 1 \in 1 .. Len(part)
        /\ k + (q - k) = q /\ k + ((q - k) + 1) = q + 1
    <3> DEFINE n == Len(part)
               m == Len(src)
    <3>1. n \in Nat /\ m \in Nat /\ k \in Nat /\ q \in (k + p) .. (m - 1) /\ q <= k + n /\ q # k + n
      BY <1>3, <2>1, <2>3, <2>4, Zenon
    <3> HIDE DEF n, m
    <3>2. q \in Int /\ p \in Nat \ {0}
      BY <3>1
    <3>3. q - k \in p .. n - 1 /\ q - k \in 1 .. n /\ (q - k) + 1 \in 1 .. n
      BY <3>1, <3>2
    <3>4. k + (q - k) = q /\ k + ((q - k) + 1) = q + 1
      BY <3>1, <3>2
    <3> QED
      BY <3>3, <3>4, Zenon DEF n
  <2>6. part[q - k] = "*" /\ part[(q - k) + 1] = "/"
    BY <1>3, <2>1, <2>5
  <2> QED
    BY <2>5, <2>6
<1>6. here \in SUBSET Nat /\ there \in SUBSET Nat
  BY <1>3
<1> HIDE DEF here, there
<1>7. CASE here = {}
  <2>1. there = {}
    BY <1>5, <1>7
  <2> QED
    BY <1>1, <1>2, <1>7, <2>1
<1>8. CASE here # {}
  <2>1. PICK q \in here : \A r \in here : q <= r
    BY <1>6, <1>8, LeastNat
  <2>2. Least(here) = q
    BY <1>6, <2>1, TheLeast
  <2>3. ASSUME NEW r \in there PROVE k + q <= r
    <3>1. q <= r - k /\ r \in Nat /\ q \in Nat
      BY <1>5, <1>6, <2>1
    <3> QED
      BY <1>3, <3>1
  <2>4. k + q \in there
    BY <1>4
  <2>5. Least(there) = k + q
    BY <1>6, <2>3, <2>4, TheLeast
  <2>6. q \in Nat /\ there # {}
    BY <1>6, <2>4
  <2> QED
    BY <1>1, <1>2, <1>3, <1>8, <2>2, <2>5, <2>6
<1> QED
  BY <1>7, <1>8
\* What stands before the next token of the text does in the longer one; after the last
\* token comes the semicolon, or a comment that is not closed.
LEMMA TriviaShifts ==
  ASSUME NEW part, NEW src, NEW k, Framed(part, src, k)
  PROVE  \A p \in 1 .. Len(part) + 1 :
           LET start == SkipTrivia(part)[p]
           IN  /\ start <= Len(part) => SkipTrivia(src)[k + p] = k + start
               /\ start > Len(part) => SkipTrivia(src)[k + p] \in {Len(src), Len(src) + 1}
<1> DEFINE N == Len(part) + 1
           f == SkipTrivia(part)
           g == SkipTrivia(src)
           Moved(p) == /\ f[p] <= Len(part) => g[k + p] = k + f[p]
                       /\ f[p] > Len(part) => g[k + p] \in {Len(src), Len(src) + 1}
           S == {p \in 1 .. N : Moved(p)}
<1>1. /\ Len(part) \in Nat /\ Len(src) \in Nat /\ k \in Nat /\ k + Len(part) < Len(src)
      /\ \A i \in 1 .. Len(part) : src[k + i] = part[i]
      /\ part \in Seq(Characters) /\ src \in Seq(Characters) /\ N = Len(part) + 1
      /\ \A i \in 1 .. Len(part) : CharAt(part, i) = part[i] /\ CharAt(src, k + i) = part[i]
      /\ CharAt(part, N) = NoCharacter
  <2>1. /\ Len(part) \in Nat /\ Len(src) \in Nat /\ k \in Nat /\ k + Len(part) < Len(src)
        /\ CharAt(part, Len(part) + 1) = NoCharacter
    BY FramedChars
  <2>2. \A i \in 1 .. Len(part) : /\ src[k + i] = part[i]
                                 /\ CharAt(part, i) = part[i] /\ CharAt(src, k + i) = part[i]
    BY FramedChars
  <2>3. part \in Seq(Characters) /\ src \in Seq(Characters)
    BY DEF Framed
  <2> HIDE DEF f, g, Moved, S
  <2> QED
    BY <2>1, <2>2, <2>3
<1>2. \A p \in 1 .. N : f[p] = TriviaOf(part, f, p) /\ f[p] \in p .. N
  BY <1>1, TriviaIs
<1>3. \A p \in 1 .. Len(src) + 1 : g[p] = TriviaOf(src, g, p) /\ g[p] \in p .. Len(src) + 1
  BY <1>1, TriviaIs
<1>4. \A q \in k + Len(part) + 1 .. Len(src) : g[q] = Len(src)
  BY TailSkipped
<1>5. NoCharacter \notin Spaces /\ NoCharacter # "-" /\ NoCharacter # "/" /\ NoCharacter # "*"
  BY Zenon DEF NoCharacter, Spaces
<1> HIDE DEF f, g
<1>6. ASSUME NEW p \in 1 .. N, \A q \in p + 1 .. N : q \in S
      PROVE  Moved(p)
  <2>0. /\ \A q \in p + 1 .. N : Moved(q)
        /\ p \in 1 .. Len(part) + 1 /\ k + p \in 1 .. Len(src) + 1 /\ p \in Nat
    BY <1>1, <1>6
  <2> HIDE DEF Moved, S
  <2>1. CASE p = N
    <3>1. f[p] > Len(part) /\ k + p \in k + Len(part) + 1 .. Len(src)
      BY <1>1, <1>2, <2>1
    <3>2. g[k + p] = Len(src) /\ ~ (f[p] <= Len(part))
      BY <1>1, <1>2, <1>4, <3>1
    <3> QED
      BY <3>1, <3>2 DEF Moved
  <2>2. CASE p # N
    <3>0. p \in 1 .. Len(part) /\ (k + p) + 1 = k + (p + 1) /\ (k + p) + 2 = k + (p + 2)
          /\ p + 1 \in 1 .. Len(part) + 1
      BY <1>1, <2>2
    <3> DEFINE c == CharAt(part, p)
               d == CharAt(part, p + 1)
               e == CharAt(src, (k + p) + 1)
    <3>1. CharAt(src, k + p) = c
      BY <1>1, <3>0
    <3>2. (e = "-" <=> d = "-") /\ (e = "*" <=> d = "*")
      <4>1. CharAt(src, k + (p + 1)) \in {"-"} <=> CharAt(part, p + 1) \in {"-"}
        BY <3>0, SameClass, ClassesApart
      <4>2. CharAt(src, k + (p + 1)) \in {"*"} <=> CharAt(part, p + 1) \in {"*"}
        BY <3>0, SameClass, ClassesApart
      <4> QED
        BY <3>0, <4>1, <4>2
    <3>3. ASSUME NEW q \in p + 1 .. N, f[p] = f[q], g[k + p] = g[k + q] PROVE Moved(p)
      <4>1. Moved(q)
        BY <2>0
      <4> QED
        BY <3>3, <4>1 DEF Moved
    <3>4. CASE c \in Spaces
      <4>1. p + 1 \in p + 1 .. N
        BY <1>1, <3>0
      <4>2. f[p] = f[p + 1]
        BY <1>2, <3>4 DEF TriviaOf
      <4>3. g[k + p] = g[(k + p) + 1]
        BY <1>3, <2>0, <3>1, <3>4 DEF TriviaOf
      <4> QED
        BY <3>0, <3>3, <4>1, <4>2, <4>3
    <3>5. CASE c \notin Spaces /\ c = "-" /\ d = "-"
      <4>1. f[p] = IF LineEnds(part, p) = {} THEN N ELSE f[Least(LineEnds(part, p))]
        <5>1. <<c, d>> = <<"-", "-">>
          BY <3>5
        <5> QED
          BY <1>2, <3>5, <5>1, Zenon DEF TriviaOf, Least
      <4>2. g[k + p] = IF LineEnds(src, k + p) = {} THEN Len(src) + 1
                       ELSE g[Least(LineEnds(src, k + p))]
        <5>1. <<CharAt(src, k + p), e>> = <<"-", "-">> /\ CharAt(src, k + p) \notin Spaces
          BY <3>1, <3>2, <3>5
        <5> QED
          BY <1>3, <2>0, <5>1, Zenon DEF TriviaOf, Least
      <4>3. ASSUME NEW r \in LineEnds(src, k + p)
            PROVE  r \in k + p .. Len(src) /\ (r <= k + Len(part) => r - k \in LineEnds(part, p))
        <5>1. r \in k + p .. Len(src) /\ src[r] = "\n"
          BY DEF LineEnds
        <5>2. ASSUME r <= k + Len(part) PROVE r - k \in LineEnds(part, p)
          <6>1. r - k \in p .. Len(part) /\ r - k \in 1 .. Len(part) /\ k + (r - k) = r
            BY <1>1, <3>0, <5>1, <5>2
          <6>2. part[r - k] = "\n"
            BY <1>1, <5>1, <6>1
          <6> QED
            BY <6>1, <6>2 DEF LineEnds
        <5> QED
          BY <5>1, <5>2
      <4>4. LineEnds(part, p) \in SUBSET Nat /\ LineEnds(src, k + p) \in SUBSET Nat
        BY <1>1, <3>0 DEF LineEnds
      <4>5. CASE LineEnds(part, p) = {}
        <5>1. f[p] = N
          BY <4>1, <4>5
        <5>2. g[k + p] \in {Len(src), Len(src) + 1}
          <6>1. CASE LineEnds(src, k + p) = {}
            BY <4>2, <6>1
          <6>2. CASE LineEnds(src, k + p) # {}
            <7>1. PICK r \in LineEnds(src, k + p) : \A s \in LineEnds(src, k + p) : r <= s
              BY <4>4, <6>2, LeastNat
            <7>2. Least(LineEnds(src, k + p)) = r
              BY <4>4, <7>1, TheLeast
            <7>3. r \in k + p .. Len(src) /\ ~ (r <= k + Len(part))
              BY <4>3, <4>5
            <7>4. r \in k + Len(part) + 1 .. Len(src)
              BY <1>1, <3>0, <7>3
            <7>5. g[r] = Len(src)
              BY <1>4, <7>4
            <7> QED
              BY <4>2, <6>2, <7>2, <7>5
          <6> QED
            BY <6>1, <6>2
        <5>3. f[p] > Len(part) /\ ~ (f[p] <= Len(part))
          BY <1>1, <5>1
        <5> QED
          BY <5>2, <5>3 DEF Moved
      <4>6. CASE LineEnds(part, p) # {}
        <5>1. PICK q \in LineEnds(part, p) : \A s \in LineEnds(part, p) : q <= s
          BY <4>4, <4>6, LeastNat
        <5>2. Least(LineEnds(part, p)) = q
          BY <4>4, <5>1, TheLeast
        <5>3. q \in p .. Len(part) /\ part[q] = "\n"
          BY <5>1 DEF LineEnds
        <5>4. q \in 1 .. Len(part) /\ q # p
          <6>1. q \in 1 .. Len(part)
            BY <1>1, <3>0, <5>3
          <6>2. "\n" # "-"
            OBVIOUS
          <6>3. CharAt(part, q) = "\n"
            BY <1>1, <5>3, <6>1
          <6> QED
            BY <3>5, <6>1, <6>2, <6>3
        <5>5. q \in p + 1 .. N
          BY <1>1, <3>0, <5>3, <5>4
        <5>6. k + q \in LineEnds(src, k + p)
          <6>1. k + q \in k + p .. Len(src) /\ src[k + q] = "\n"
            BY <1>1, <3>0, <5>3, <5>4
          <6> QED
            BY <6>1 DEF LineEnds
        <5>7. ASSUME NEW r \in LineEnds(src, k + p) PROVE k + q <= r
          <6>1. CASE r <= k + Len(part)
            <7>1. q <= r - k
              BY <4>3, <5>1, <6>1
            <7>2. r \in Nat /\ q \in Nat
              BY <1>1, <4>4, <5>4
            <7> QED
              BY <1>1, <7>1, <7>2
          <6>2. CASE ~ (r <= k + Len(part))
            <7>1. r \in Nat /\ q \in 1 .. Len(part)
              BY <4>4, <5>4
            <7> QED
              BY <1>1, <6>2, <7>1
          <6> QED
            BY <6>1, <6>2
        <5>8. Least(LineEnds(src, k + p)) = k + q
          BY <4>4, <5>6, <5>7, TheLeast
        <5>9. LineEnds(src, k + p) # {}
          BY <5>6
        <5>10. f[p] = f[q] /\ g[k + p] = g[k + q]
          BY <4>1, <4>2, <4>6, <5>2, <5>8, <5>9
        <5> QED
          BY <3>3, <5>5, <5>10
      <4> QED
        BY <4>5, <4>6
    <3>6. CASE c \notin Spaces /\ c = "/" /\ d = "*"
      <4>0. p + 1 # N /\ <<c, d>> = <<"/", "*">> /\ <<c, d>> # <<"-", "-">>
            /\ <<CharAt(src, k + p), e>> = <<"/", "*">> /\ <<CharAt(src, k + p), e>> # <<"-", "-">>
        BY <1>1, <1>5, <3>1, <3>2, <3>6
      <4>1. p + 2 \in 1 .. Len(part) + 1
        BY <1>1, <3>0, <4>0
      <4>2. f[p] = f[CommentEnd(part, p + 2)]
        BY <1>2, <3>6, <4>0, Zenon DEF TriviaOf
      <4>3. g[k + p] = g[CommentEnd(src, (k + p) + 2)]
        BY <1>3, <2>0, <3>1, <3>6, <4>0, Zenon DEF TriviaOf
      <4>4. CommentEnd(part, p + 2) \in p + 2 .. Len(part) + 1
        BY <1>1, <4>1, CommentEnds
      <4> DEFINE q == CommentEnd(part, p + 2)
      <4>5. CASE CommentEnd(src, k + (p + 2)) = k + q
        <5>1. q \in p + 1 .. N
          BY <1>1, <3>0, <4>4
        <5>2. f[p] = f[q] /\ g[k + p] = g[k + q]
          BY <3>0, <4>2, <4>3, <4>5
        <5> HIDE DEF q
        <5> QED
          BY <3>3, <5>1, <5>2
      <4>6. CASE q = Len(part) + 1 /\ CommentEnd(src, k + (p + 2)) = Len(src) + 1
        <5>1. f[p] = f[N] /\ g[k + p] = g[Len(src) + 1]
          BY <1>1, <3>0, <4>2, <4>3, <4>6
        <5>2. f[N] \in N .. N /\ g[Len(src) + 1] \in Len(src) + 1 .. Len(src) + 1
          <6> DEFINE M == Len(src) + 1
          <6>1. N \in 1 .. N /\ M \in 1 .. M
            BY <1>1
          <6>2. \A i \in 1 .. M : g[i] \in i .. M
            BY <1>3
          <6> HIDE DEF N, M
          <6>3. f[N] \in N .. N /\ g[M] \in M .. M
            BY <1>2, <6>1, <6>2
          <6> QED
            BY <6>3 DEF M
        <5>3. f[p] = N /\ g[k + p] = Len(src) + 1
          BY <1>1, <5>1, <5>2
        <5>4. ~ (N <= Len(part)) /\ N > Len(part)
          BY <1>1
        <5> QED
          BY <5>3, <5>4 DEF Moved
      <4> QED
        BY <4>1, <4>5, <4>6, CommentShifts
    <3>7. CASE c \notin Spaces /\ ~ (c = "-" /\ d = "-") /\ ~ (c = "/" /\ d = "*")
      <4>1. <<c, d>> # <<"-", "-">> /\ <<c, d>> # <<"/", "*">>
        BY <3>7
      <4>2. <<CharAt(src, k + p), e>> # <<"-", "-">> /\ <<CharAt(src, k + p), e>> # <<"/", "*">>
        BY <3>1, <3>2, <3>7
      <4>3. f[p] = p
        BY <1>2, <3>7, <4>1, Zenon DEF TriviaOf
      <4>4. g[k + p] = k + p
        BY <1>3, <2>0, <3>1, <3>7, <4>2, Zenon DEF TriviaOf
      <4>5. ~ (p > Len(part))
        BY <1>1, <3>0
      <4> QED
        BY <4>3, <4>4, <4>5 DEF Moved
    <3> HIDE DEF c, d
    <3> QED
      BY <3>4, <3>5, <3>6, <3>7
  <2> QED
    BY <2>1, <2>2
<1>7. ASSUME NEW p \in 1 .. N, \A q \in p + 1 .. N : q \in S
      PROVE  p \in S
  BY <1>6, <1>7
<1> HIDE DEF S, N
<1>8. \A p \in 1 .. N : p \in S
  <2>1. N \in Nat
    BY <1>1
  <2> QED
    BY <1>7, <2>1, Downwards
<1>9. \A p \in 1 .. N : Moved(p)
  BY <1>8 DEF S
<1> QED
  BY <1>9, Zenon DEF N, f, g
-----------------------------------------------------------------------------
(* The tokens of a text inside of a longer one.                            *)

LEMMA FrontIs ==
  ASSUME NEW S, NEW s \in Seq(S), s # << >>
  PROVE  Front(s) = [i \in 1 .. Len(s) - 1 |-> s[i]]
<1>1. Len(s) \in Nat /\ Len(s) >= 1
  OBVIOUS
<1>2. Front(s) = [i \in 1 .. (Len(s) - 1) - 1 + 1 |-> s[1 + i - 1]]
  BY <1>1 DEF Front
<1> QED
  BY <1>1, <1>2

LEMMA FrontOfLonger ==
  ASSUME NEW S, NEW a \in S, NEW s \in Seq(S), s # << >>
  PROVE  Front(<<a>> \o s) = <<a>> \o Front(s) /\ Front(<<a>>) = << >>
<1> DEFINE t == <<a>> \o s
           n == Len(s)
<1>1. n \in Nat /\ n >= 1 /\ t \in Seq(S) /\ t # << >> /\ Len(t) = n + 1
  OBVIOUS
<1>2. \A i \in 1 .. n : t[i] = IF i = 1 THEN a ELSE s[i - 1]
  OBVIOUS
<1>3. Front(t) = [i \in 1 .. n |-> t[i]]
  <2> HIDE DEF t
  <2>1. Len(t) - 1 = n
    BY <1>1
  <2> QED
    BY <1>1, <2>1, FrontIs
<1>4. Front(s) = [i \in 1 .. n - 1 |-> s[i]]
  BY FrontIs
<1> DEFINE f == Front(s)
<1>5. f \in Seq(S) /\ Len(f) = n - 1 /\ \A i \in 1 .. n - 1 : f[i] = s[i]
  BY <1>1, <1>4
<1> HIDE DEF f
<1>6. <<a>> \o f = [i \in 1 .. n |-> IF i = 1 THEN a ELSE s[i - 1]]
  BY <1>1, <1>5
<1>7. Front(<<a>>) = << >>
  <2>1. <<a>> \in Seq(S) /\ <<a>> # << >> /\ Len(<<a>>) - 1 = 0
    OBVIOUS
  <2>2. Front(<<a>>) = [i \in 1 .. 0 |-> <<a>>[i]]
    BY <2>1, FrontIs
  <2> QED
    BY <2>2
<1> HIDE DEF n, t
<1> QED
  BY <1>2, <1>3, <1>6, <1>7 DEF t, f

LEMMA LegalTail ==
  ASSUME NEW S, NEW a \in S, NEW s \in Seq(S), ~LexFails(<<a>> \o s)
  PROVE  a.kind # "ILLEGAL" /\ ~LexFails(s)
<1> DEFINE t == <<a>> \o s
<1>1. Len(s) \in Nat /\ DOMAIN s = 1 .. Len(s) /\ DOMAIN t = 1 .. Len(s) + 1 /\ t[1] = a
      /\ \A i \in 1 .. Len(s) : t[i + 1] = s[i]
  OBVIOUS
<1>2. \A i \in DOMAIN t : t[i].kind # "ILLEGAL"
  BY Zenon DEF LexFails
<1> HIDE DEF t
<1>3. a.kind # "ILLEGAL"
  BY <1>1, <1>2
<1>4. \A i \in DOMAIN s : s[i].kind # "ILLEGAL"
  BY <1>1, <1>2
<1> QED
  BY <1>3, <1>4 DEF LexFails

\* The tokens there may be in a text.
Entries(src) == {Entry(ScanToken(src, p)) : p \in 1 .. Len(src)} \cup {Last1}

LEMMA TokensRange ==
  ASSUME NEW V, NEW src \in Seq(V)
  PROVE  \A p \in 1 .. Len(src) + 1 :
           TokensFrom(src)[p] \in Seq(Entries(src)) /\ TokensFrom(src)[p] # << >>
<1> DEFINE N == Len(src) + 1
           f == TokensFrom(src)
           T == Entries(src)
           S == {p \in 1 .. N : f[p] \in Seq(T) /\ f[p] # << >>}
<1>1. Len(src) \in Nat /\ N \in Nat
  BY CharsAt
<1>2. \A p \in 1 .. N : f[p] = TokensOf(src, f, p) /\ SkipTrivia(src)[p] \in p .. N
  BY TokensIs, TriviaIs
<1>3. ASSUME NEW p \in 1 .. N, \A q \in p + 1 .. N : q \in S
      PROVE  p \in S
  <2> DEFINE start == SkipTrivia(src)[p]
             next == ScanToken(src, start).next
             entry == Entry(ScanToken(src, start))
  <2> SUFFICES f[p] \in Seq(T) /\ f[p] # << >>
    OBVIOUS
  <2> HIDE DEF f
  <2>1. CASE start > Len(src)
    <3>1. f[p] = <<Last1>>
      BY <1>2, <2>1 DEF TokensOf
    <3>2. Last1 \in T
      BY DEF Entries
    <3> HIDE DEF T
    <3> QED
      BY <3>1, <3>2
  <2>2. CASE ~ (start > Len(src))
    <3>1. f[p] = <<entry>> \o f[next]
      BY <1>2, <2>2 DEF TokensOf
    <3>2. start \in 1 .. Len(src) /\ start \in p .. N
      <4>1. start \in p .. N
        BY <1>2
      <4> HIDE DEF start
      <4> QED
        BY <1>1, <2>2, <4>1
    <3>3. entry \in T
      BY <3>2 DEF Entries
    <3>4. next \in start + 1 .. Len(src) + 1
      <4> HIDE DEF start
      <4> QED
        BY <3>2, ScanLeads DEF Fits
    <3> HIDE DEF start, next, entry
    <3>5. next \in p + 1 .. N
      BY <1>1, <3>2, <3>4
    <3>6. f[next] \in Seq(T)
      BY <1>3, <3>5
    <3> HIDE DEF T
    <3> QED
      BY <3>1, <3>3, <3>6
  <2> QED
    BY <2>1, <2>2
<1> HIDE DEF S, N
<1>4. \A p \in 1 .. N : p \in S
  BY <1>1, <1>3, Downwards
<1> QED
  BY <1>4 DEF S, N

Semi == [kind |-> "SEMICOLON", text |-> <<Semicolon>>]

\* The semicolon that ends a statement is one to the lexer.
LEMMA SemicolonScans ==
  ASSUME NEW part, NEW src, NEW k, Framed(part, src, k)
  PROVE  /\ Entry(ScanToken(src, Len(src))) = Semi
         /\ ScanToken(src, Len(src)).next = Len(src) + 1
<1> DEFINE M == Len(src)
           pairs == {s \in Pairs : s[1] = src[M] /\ s[2] = CharAt(src, M + 1)}
           single == {s \in Symbols : s[1] = src[M]}
           one == CHOOSE s \in single : TRUE
<1>1. src[M] = Semicolon /\ M \in 1 .. Len(src) /\ src \in Seq(Characters)
  <2>1. src[Len(src)] = Semicolon /\ src \in Seq(Characters)
    BY DEF Framed
  <2>2. Len(part) \in Nat /\ Len(src) \in Nat /\ k \in Nat /\ k + Len(part) < Len(src)
    BY FramedChars
  <2> QED
    BY <2>1, <2>2
<1>2. /\ Semicolon \notin Digits /\ Semicolon # "." /\ Semicolon # "'" /\ Semicolon # "\""
      /\ Semicolon # "<" /\ Semicolon # ">" /\ Semicolon # "!" /\ Semicolon # "|"
  BY Zenon DEF Semicolon, Digits
<1>3. Semicolon \notin Letters
  BY LexerAssumption, Zenon DEF LexerAssumption
<1> HIDE DEF M
<1>4. ScanToken(src, M) = ScanSymbol(src, M)
  <2>1. ~Numeric(src, M)
    BY <1>1, <1>2 DEF Numeric
  <2> QED
    BY <1>1, <1>2, <1>3, <2>1, ScanCases
<1>5. pairs = {}
  <2>1. ASSUME NEW s \in Pairs PROVE s[1] \in {"<", ">", "!", "|"}
    BY DEF Pairs
  <2>2. \A s \in Pairs : s[1] # src[M]
    BY <1>1, <1>2, <2>1
  <2> QED
    BY <2>2
<1>6. single = {<<Semicolon, "SEMICOLON">>}
  <2>1. ASSUME NEW s \in Symbols, s[1] = Semicolon PROVE s = <<Semicolon, "SEMICOLON">>
    <3>1. /\ Semicolon # "(" /\ Semicolon # ")" /\ Semicolon # "," /\ Semicolon # "."
          /\ Semicolon # "+" /\ Semicolon # "-" /\ Semicolon # "*" /\ Semicolon # "/"
          /\ Semicolon # "%" /\ Semicolon # "=" /\ Semicolon # "<" /\ Semicolon # ">"
      BY Zenon DEF Semicolon
    <3> DEFINE others == {"(", ")", ",", ".", "+", "-", "*", "/", "%", "=", "<", ">"}
               few == {<<"(", "LPAREN">>, <<")", "RPAREN">>, <<",", "COMMA">>, <<".", "DOT">>}
               more == {<<"+", "PLUS">>, <<"-", "MINUS">>, <<"*", "STAR">>, <<"/", "SLASH">>}
               rest == {<<"%", "PERCENT">>, <<"=", "EQ">>, <<"<", "LT">>, <<">", "GT">>}
    <3>4. s \in few \/ s \in more \/ s \in rest \/ s = <<Semicolon, "SEMICOLON">>
      BY Zenon DEF Symbols
    <3>5. (\A t \in few : t[1] \in {"(", ")", ",", "."})
          /\ (\A t \in more : t[1] \in {"+", "-", "*", "/"})
          /\ (\A t \in rest : t[1] \in {"%", "=", "<", ">"})
      OBVIOUS
    <3> HIDE DEF few, more, rest
    <3>2. \/ s[1] \in others
          \/ s = <<Semicolon, "SEMICOLON">>
      BY <3>4, <3>5
    <3>3. Semicolon \notin others
      BY <3>1
    <3> HIDE DEF others
    <3> QED
      BY <2>1, <3>2, <3>3
  <2>2. <<Semicolon, "SEMICOLON">> \in Symbols
    BY Zenon DEF Symbols
  <2> QED
    BY <1>1, <2>1, <2>2
<1>7. one = <<Semicolon, "SEMICOLON">>
  BY <1>6
<1>8. ScanSymbol(src, M) = IF pairs # {} THEN Slice(src, (CHOOSE s \in pairs : TRUE)[3], M, M + 2)
                           ELSE IF single # {} THEN Slice(src, one[2], M, M + 1)
                           ELSE Slice(src, "ILLEGAL", M, M + 1)
  BY Zenon DEF ScanSymbol
<1>9. ScanSymbol(src, M) = Slice(src, "SEMICOLON", M, M + 1)
  BY <1>5, <1>6, <1>7, <1>8
<1> DEFINE token == Slice(src, "SEMICOLON", M, M + 1)
<1>10. token.kind = "SEMICOLON" /\ token.next = M + 1 /\ token.text = Cut(src, M, M + 1)
  BY SlicesAre
<1> HIDE DEF token
<1>11. Cut(src, M, M + 1) = <<Semicolon>>
  <2>1. M \in Nat /\ (M + 1) - 1 = M
    BY <1>1
  <2>2. Cut(src, M, M + 1) = SubSeq(src, M, M)
    BY <2>1 DEF Cut
  <2> DEFINE cut == Cut(src, M, M + 1)
  <2>3. cut = [i \in 1 .. M - M + 1 |-> src[M + i - 1]]
    BY <1>1, <2>1, <2>2
  <2> HIDE DEF cut
  <2>4. cut = [i \in 1 .. 1 |-> Semicolon]
    BY <1>1, <2>1, <2>3
  <2> QED
    BY <2>4 DEF cut
<1>12. ScanToken(src, M) = token
  BY <1>4, <1>9 DEF token
<1>13. Entry(token) = Semi
  BY <1>10, <1>11 DEF Entry, Semi
<1> QED
  BY <1>10, <1>12, <1>13 DEF M
LEMMA TwoOf ==
  ASSUME NEW a, NEW b
  PROVE  <<a>> \o <<b>> = <<a, b>>
<1> DEFINE S == {a, b}
           x == <<a>> \o <<b>>
           y == <<a, b>>
<1>1. <<a>> \in Seq(S) /\ <<b>> \in Seq(S)
  OBVIOUS
<1>2. /\ x \in Seq(S) /\ Len(x) = 2 /\ y \in Seq(S) /\ Len(y) = 2
      /\ x[1] = a /\ x[2] = b /\ y[1] = a /\ y[2] = b
  BY <1>1
<1> HIDE DEF x, y, S
<1>3. \A i \in 1 .. 2 : x[i] = y[i]
  BY <1>2
<1>4. x = y
  BY <1>2, <1>3, SeqEqual
<1> QED
  BY <1>4 DEF x, y

\* From the semicolon on there are that and the end.
LEMMA LastTokens ==
  ASSUME NEW part, NEW src, NEW k, Framed(part, src, k)
  PROVE  /\ TokensFrom(src)[Len(src)] = <<Semi, Last1>>
         /\ TokensFrom(src)[Len(src) + 1] = <<Last1>>
<1> DEFINE M == Len(src)
           f == TokensFrom(src)
<1>1. src \in Seq(Characters) /\ M \in Nat /\ M \in k + Len(part) + 1 .. Len(src)
  BY FramedChars DEF Framed
<1>2. M \in 1 .. M + 1 /\ M + 1 \in 1 .. M + 1
  <2>1. Len(part) \in Nat /\ Len(src) \in Nat /\ k \in Nat /\ k + Len(part) < Len(src)
    BY FramedChars
  <2> QED
    BY <2>1
<1>3. \A p \in 1 .. M + 1 : f[p] = TokensOf(src, f, p) /\ SkipTrivia(src)[p] \in p .. M + 1
  BY <1>1, TokensIs, TriviaIs
<1>4. SkipTrivia(src)[M] = M
  BY <1>1, TailSkipped
<1>5. SkipTrivia(src)[M + 1] = M + 1
  <2> DEFINE last1 == SkipTrivia(src)[M + 1]
  <2>1. last1 \in M + 1 .. M + 1
    BY <1>2, <1>3
  <2> HIDE DEF last1
  <2>2. last1 = M + 1
    BY <1>1, <2>1
  <2> QED
    BY <2>2 DEF last1
<1>6. Entry(ScanToken(src, M)) = Semi /\ ScanToken(src, M).next = M + 1
  BY SemicolonScans
<1> HIDE DEF f
<1>7. f[M + 1] = <<Last1>>
  <2>1. f[M + 1] = TokensOf(src, f, M + 1) /\ M + 1 > Len(src)
    BY <1>1, <1>2, <1>3
  <2> HIDE DEF M
  <2> QED
    BY <1>5, <2>1, Zenon DEF TokensOf
<1>8. f[M] = <<Semi>> \o f[M + 1]
  <2>1. f[M] = TokensOf(src, f, M) /\ ~ (M > Len(src))
    BY <1>1, <1>2, <1>3
  <2> HIDE DEF M
  <2> QED
    BY <1>4, <1>6, <2>1, Zenon DEF TokensOf
<1>9. f[M] = <<Semi, Last1>>
  BY <1>7, <1>8, TwoOf
<1> QED
  BY <1>7, <1>9 DEF f, M

LEMMA TokensShift ==
  ASSUME NEW part, NEW src, NEW k, Framed(part, src, k)
  PROVE  \A p \in 1 .. Len(part) + 1 :
           ~LexFails(TokensFrom(part)[p]) =>
             TokensFrom(src)[k + p]
               \in {Front(TokensFrom(part)[p]) \o <<Semi, Last1>>, TokensFrom(part)[p]}
<1> DEFINE N == Len(part) + 1
           M == Len(src)
           f == TokensFrom(part)
           g == TokensFrom(src)
           End == <<Semi, Last1>>
           T == Entries(part) \cup {Semi}
           Moved(p) == ~LexFails(f[p]) => g[k + p] \in {Front(f[p]) \o End, f[p]}
           S == {p \in 1 .. N : Moved(p)}
<1>1. /\ Len(part) \in Nat /\ M \in Nat /\ k \in Nat /\ k + Len(part) < M
      /\ N = Len(part) + 1
  BY FramedChars
<1>2. part \in Seq(Characters) /\ src \in Seq(Characters)
  BY DEF Framed
<1>3. \A p \in 1 .. N : /\ f[p] = TokensOf(part, f, p) /\ SkipTrivia(part)[p] \in p .. N
                        /\ f[p] \in Seq(Entries(part)) /\ f[p] # << >>
  BY <1>2, TokensIs, TriviaIs, TokensRange
<1>4. \A p \in 1 .. M + 1 : g[p] = TokensOf(src, g, p)
  BY <1>2, TokensIs
<1>5. /\ g[M + 1] = <<Last1>> /\ Entry(ScanToken(src, M)) = Semi
      /\ ScanToken(src, M).next = M + 1
  BY LastTokens, SemicolonScans
<1>6. Last1 \in T /\ Semi \in T /\ End \in Seq(T)
  BY DEF Entries
<1>7. \A p \in 1 .. N : f[p] \in Seq(T)
  <2>1. Entries(part) \subseteq T
    OBVIOUS
  <2> HIDE DEF T
  <2> QED
    BY <1>3, <2>1
<1> HIDE DEF f, g, T
<1>8. ASSUME NEW p \in 1 .. N, \A q \in p + 1 .. N : q \in S, ~LexFails(f[p])
      PROVE  g[k + p] \in {Front(f[p]) \o End, f[p]}
  <2> DEFINE start == SkipTrivia(part)[p]
             token == ScanToken(part, start)
             other == ScanToken(src, k + start)
  <2>0. /\ \A q \in p + 1 .. N : Moved(q)
        /\ p \in 1 .. Len(part) + 1 /\ k + p \in 1 .. M + 1
    <3>1. \A q \in p + 1 .. N : Moved(q)
      BY <1>8
    <3> HIDE DEF Moved, S, M
    <3> QED
      BY <1>1, <3>1
  <2> HIDE DEF S, Moved
  <2>1. /\ start <= Len(part) => SkipTrivia(src)[k + p] = k + start
        /\ start > Len(part) => SkipTrivia(src)[k + p] \in {M, M + 1}
    BY <2>0, TriviaShifts
  <2>2. start \in p .. N /\ f[p] = TokensOf(part, f, p) /\ g[k + p] = TokensOf(src, g, k + p)
    BY <1>3, <1>4, <2>0
  <2>3. CASE start > Len(part)
    <3>1. f[p] = <<Last1>>
      BY <2>2, <2>3, Zenon DEF TokensOf
    <3>2. CASE SkipTrivia(src)[k + p] = M + 1
      <4>1. M + 1 > Len(src)
        BY <1>1
      <4>2. g[k + p] = <<Last1>>
        <5> HIDE DEF M
        <5> QED
          BY <2>2, <3>2, <4>1, Zenon DEF TokensOf
      <4> QED
        BY <3>1, <4>2
    <3>3. CASE SkipTrivia(src)[k + p] = M
      <4>1. ~ (M > Len(src))
        BY <1>1
      <4>2. g[k + p] = <<Semi>> \o <<Last1>>
        <5> HIDE DEF M
        <5> QED
          BY <1>5, <2>2, <3>3, <4>1, Zenon DEF TokensOf
      <4>3. g[k + p] = End
        BY <4>2, TwoOf
      <4>4. Front(<<Last1>>) = << >>
        <5>1. <<Last1>> \in Seq(T) /\ <<Last1>> # << >>
          BY <1>6
        <5> QED
          BY <1>6, <5>1, FrontOfLonger
      <4>5. << >> \o End = End
        BY <1>6
      <4>6. Front(f[p]) \o End = End
        BY <3>1, <4>4, <4>5
      <4> HIDE DEF End
      <4> QED
        BY <4>3, <4>6
    <3> QED
      BY <2>1, <2>3, <3>2, <3>3
  <2>4. CASE ~ (start > Len(part))
    <3>1. start \in 1 .. Len(part) /\ start <= Len(part)
      <4> HIDE DEF start
      <4> QED
        BY <1>1, <2>2, <2>4
    <3>2. f[p] = <<Entry(token)>> \o f[token.next]
      BY <2>2, <2>4, Zenon DEF TokensOf
    <3>3. token.next \in start + 1 .. Len(part) + 1
      <4> HIDE DEF start
      <4> QED
        BY <1>2, <3>1, ScanLeads DEF Fits
    <3>4. Entry(token) \in T
      BY <3>1 DEF T, Entries
    <3> DEFINE q == token.next
    <3> HIDE DEF start, token, other
    <3>5. q \in p + 1 .. N /\ q \in 1 .. N
      BY <1>1, <2>2, <3>3
    <3> DEFINE a == Entry(token)
               s == f[q]
    <3>6. s \in Seq(T) /\ s # << >>
      BY <1>3, <1>7, <3>5
    <3>7. a.kind # "ILLEGAL" /\ ~LexFails(s)
      <4>1. f[p] = <<a>> \o s /\ a \in T
        BY <3>2, <3>4
      <4> HIDE DEF a, s
      <4>2. ~LexFails(<<a>> \o s)
        BY <1>8, <4>1
      <4> QED
        BY <3>6, <4>1, <4>2, LegalTail
    <3>8. token.kind # "ILLEGAL"
      BY <3>7 DEF Entry
    <3>9. Shifted(token, other, k)
      BY <3>1, <3>8, ScanShifts DEF token, other
    <3>10. Entry(other) = a /\ other.next = k + q
      BY <3>9 DEF Shifted, Entry
    <3>11. g[k + p] = <<Entry(other)>> \o g[other.next]
      <4>1. SkipTrivia(src)[k + p] = k + start
        BY <2>1, <3>1 DEF start
      <4>2. ~ (k + start > Len(src))
        BY <1>1, <3>1
      <4> HIDE DEF M
      <4> QED
        BY <2>2, <4>1, <4>2, Zenon DEF TokensOf, other
    <3>12. g[k + q] \in {Front(s) \o End, s}
      BY <2>0, <3>5, <3>7 DEF Moved
    <3>13. g[k + p] = <<a>> \o g[k + q] /\ f[p] = <<a>> \o s /\ a \in T
      BY <3>2, <3>4, <3>10, <3>11
    <3> HIDE DEF a, s, q, End
    <3>14. Front(<<a>> \o s) = <<a>> \o Front(s) /\ Front(s) \in Seq(T)
      <4>1. Front(s) \in Seq(T)
        <5>1. Front(s) = [i \in 1 .. Len(s) - 1 |-> s[i]]
          BY <3>6, FrontIs
        <5> DEFINE e == Front(s)
        <5>2. e = [i \in 1 .. Len(s) - 1 |-> s[i]]
          BY <5>1
        <5> HIDE DEF e
        <5>3. e \in Seq(T)
          BY <3>6, <5>2
        <5> QED
          BY <5>3 DEF e
      <4> QED
        BY <3>6, <3>13, <4>1, FrontOfLonger
    <3>15. (<<a>> \o Front(s)) \o End = <<a>> \o (Front(s) \o End)
      <4> DEFINE e == Front(s)
      <4>1. e \in Seq(T)
        BY <3>14
      <4> HIDE DEF e
      <4>2. <<a>> \in Seq(T)
        BY <3>13
      <4>3. (<<a>> \o e) \o End = <<a>> \o (e \o End)
        BY <1>6, <4>1, <4>2, ConcatAssociative
      <4> QED
        BY <4>3 DEF e
    <3>16. Front(f[p]) \o End = <<a>> \o (Front(s) \o End)
      BY <3>13, <3>14, <3>15
    <3> QED
      BY <3>12, <3>13, <3>16
  <2> QED
    BY <2>3, <2>4
<1>9. ASSUME NEW p \in 1 .. N, \A q \in p + 1 .. N : q \in S
      PROVE  p \in S
  BY <1>8, <1>9
<1> HIDE DEF S, N
<1>10. \A p \in 1 .. N : p \in S
  <2>1. N \in Nat
    BY <1>1
  <2> QED
    BY <1>9, <2>1, Downwards
<1>11. \A p \in 1 .. N : Moved(p)
  BY <1>10 DEF S
<1> QED
  BY <1>11, Zenon DEF N, f, g
\* A statement that has no illegal token has, with its semicolon, the same tokens and
\* the semicolon's; if that stands in a comment, the same tokens.
LEMMA WholeLex ==
  ASSUME NEW part, NEW src, NEW k, Framed(part, src, k), ~LexFails(Lex(part))
  PROVE  Lex(src) \in {Front(Lex(part)) \o Lex(<<Semicolon>>), Lex(part)}
<1> DEFINE g == TokensFrom(src)
           one == <<Semicolon>>
<1>1. /\ Len(part) \in Nat /\ Len(src) \in Nat /\ k \in Nat /\ k + Len(part) < Len(src)
  BY FramedChars
<1>2. src \in Seq(Characters) /\ src[Len(src)] = Semicolon
  BY DEF Framed
<1>3. 1 \in 1 .. Len(src) + 1 /\ k + 1 \in 1 .. Len(src) + 1 /\ 1 \in 1 .. Len(part) + 1
  BY <1>1
<1>4. g[1] = TokensOf(src, g, 1) /\ g[k + 1] = TokensOf(src, g, k + 1)
  BY <1>2, <1>3, TokensIs
<1>5. SkipTrivia(src)[1] = SkipTrivia(src)[k + 1]
  BY HeadSkipped
<1> HIDE DEF g
<1>6. g[1] = g[k + 1]
  <2> DEFINE skip == SkipTrivia(src)
             At(n) == IF n > Len(src) THEN <<Last1>>
                      ELSE <<Entry(ScanToken(src, n))>> \o g[ScanToken(src, n).next]
  <2>1. g[1] = At(skip[1]) /\ g[k + 1] = At(skip[k + 1])
    BY <1>4, Zenon DEF TokensOf
  <2> HIDE DEF At, skip
  <2> QED
    BY <1>5, <2>1 DEF skip
<1>7. g[k + 1] \in {Front(Lex(part)) \o <<Semi, Last1>>, Lex(part)}
  BY <1>3, TokensShift DEF Lex, g
<1>8. Lex(<<Semicolon>>) = <<Semi, Last1>>
  <2>1. Semicolon \in Characters
    <3>1. Len(src) \in 1 .. Len(src)
      BY <1>1
    <3> QED
      BY <1>2, <3>1
  <2>2. /\ one \in Seq(Characters) /\ Len(one) = 1 /\ one[1] = Semicolon
        /\ << >> \in Seq(Characters) /\ Len(<< >>) = 0
    BY <2>1
  <2> HIDE DEF one
  <2>3. Framed(<< >>, one, 0)
    BY <2>2 DEF Framed
  <2>4. TokensFrom(one)[1] = <<Semi, Last1>>
    BY <2>2, <2>3, LastTokens, Zenon
  <2> QED
    BY <2>4, Zenon DEF Lex, one
<1> QED
  BY <1>6, <1>7, <1>8, Zenon DEF Lex, g

-----------------------------------------------------------------------------
(* What the scanner takes from a line.                                     *)

\* The part stands after the first k characters, with white space around it.
Core(part, whole, k) ==
  /\ k \in Nat /\ k + Len(part) <= Len(whole)
  /\ \A i \in 1 .. k : whole[i] \in Spaces
  /\ \A i \in 1 .. Len(part) : part[i] = whole[k + i]
  /\ \A i \in k + Len(part) + 1 .. Len(whole) : whole[i] \in Spaces

LEMMA TrimRightIs ==
  ASSUME NEW V, NEW s \in Seq(V)
  PROVE  TrimRight(s) \in Seq(V) /\ Core(TrimRight(s), s, 0)
<1> DEFINE n == Len(s)
           ends == {m \in 0 .. n : \A i \in m + 1 .. n : s[i] \in Spaces}
           m == Min(ends)
           t == TrimRight(s)
<1>1. n \in Nat /\ ends \in SUBSET Nat /\ n \in ends /\ \A i \in 1 .. n : s[i] \in V
  OBVIOUS
<1>2. m \in ends
  <2>1. m = CHOOSE x \in ends : \A y \in ends : x <= y
    BY DEF Min
  <2> HIDE DEF ends
  <2> QED
    BY <1>1, <2>1, LeastOf
<1>3. t = SubSeq(s, 1, m)
  BY DEF TrimRight, Trim
<1> HIDE DEF m
<1>4. m \in 0 .. n /\ \A i \in m + 1 .. n : s[i] \in Spaces
  BY <1>2
<1> HIDE DEF ends, t
<1>5. t \in Seq(V) /\ Len(t) = m /\ \A i \in 1 .. m : t[i] = s[i]
  BY <1>1, <1>3, <1>4
<1>6. Core(t, s, 0)
  BY <1>1, <1>4, <1>5 DEF Core
<1> QED
  BY <1>5, <1>6 DEF t

LEMMA ReverseIs ==
  ASSUME NEW V, NEW s \in Seq(V)
  PROVE  /\ Reverse(s) \in Seq(V) /\ Len(Reverse(s)) = Len(s)
         /\ \A i \in 1 .. Len(s) : Reverse(s)[i] = s[(Len(s) - i) + 1]
<1>1. Len(s) \in Nat /\ \A i \in 1 .. Len(s) : (Len(s) - i) + 1 \in 1 .. Len(s)
  OBVIOUS
<1> DEFINE r == Reverse(s)
<1>2. r = [i \in 1 .. Len(s) |-> s[(Len(s) - i) + 1]]
  BY DEF Reverse
<1> HIDE DEF r
<1>3. \A i \in 1 .. Len(s) : s[(Len(s) - i) + 1] \in V
  BY <1>1
<1>4. r \in Seq(V) /\ Len(r) = Len(s) /\ \A i \in 1 .. Len(s) : r[i] = s[(Len(s) - i) + 1]
  BY <1>1, <1>2, <1>3
<1> QED
  BY <1>4 DEF r

LEMMA TrimSpaceIs ==
  ASSUME NEW V, NEW s \in Seq(V)
  PROVE  TrimSpace(s) \in Seq(V) /\ \E k : Core(TrimSpace(s), s, k)
<1> DEFINE a == TrimRight(s)
           b == Reverse(a)
           c == TrimRight(b)
           d == Reverse(c)
<1>0. d = TrimSpace(s)
  BY DEF TrimSpace
<1>1. a \in Seq(V) /\ Core(a, s, 0)
  BY TrimRightIs
<1> HIDE DEF a
<1>2. b \in Seq(V) /\ Len(b) = Len(a) /\ \A i \in 1 .. Len(a) : b[i] = a[(Len(a) - i) + 1]
  BY <1>1, ReverseIs
<1> HIDE DEF b
<1>3. c \in Seq(V) /\ Core(c, b, 0)
  BY <1>2, TrimRightIs
<1> HIDE DEF c
<1>4. d \in Seq(V) /\ Len(d) = Len(c) /\ \A i \in 1 .. Len(c) : d[i] = c[(Len(c) - i) + 1]
  BY <1>3, ReverseIs
<1> HIDE DEF d
<1> DEFINE m == Len(a)
           l == Len(c)
           k == m - l
<1>5. m \in Nat /\ l \in Nat /\ Len(s) \in Nat /\ Len(b) = m /\ Len(d) = l
  BY <1>1, <1>2, <1>3, <1>4
<1>6. /\ m <= Len(s) /\ (\A i \in 1 .. m : a[i] = s[i])
      /\ \A i \in m + 1 .. Len(s) : s[i] \in Spaces
  BY <1>1, <1>5 DEF Core
<1>7. /\ l <= m /\ (\A i \in 1 .. l : c[i] = b[i])
      /\ \A i \in l + 1 .. m : b[i] \in Spaces
  BY <1>3, <1>5 DEF Core
<1>8. /\ \A i \in 1 .. m : b[i] = a[(m - i) + 1]
      /\ \A i \in 1 .. l : d[i] = c[(l - i) + 1]
  BY <1>2, <1>4
<1> HIDE DEF m, l
<1>9. k \in Nat /\ k + l = m
  BY <1>5, <1>7
<1>10. \A i \in 1 .. k : s[i] \in Spaces
  <2> SUFFICES ASSUME NEW i \in 1 .. k PROVE s[i] \in Spaces
    OBVIOUS
  <2> DEFINE j == (m - i) + 1
  <2>1. j \in l + 1 .. m /\ j \in 1 .. m /\ (m - j) + 1 = i /\ i \in 1 .. m
    BY <1>5, <1>7
  <2> HIDE DEF j
  <2> QED
    BY <1>6, <1>7, <1>8, <2>1
<1>11. \A i \in 1 .. l : d[i] = s[k + i]
  <2> SUFFICES ASSUME NEW i \in 1 .. l PROVE d[i] = s[k + i]
    OBVIOUS
  <2> DEFINE j == (l - i) + 1
  <2>1. j \in 1 .. l /\ j \in 1 .. m /\ (m - j) + 1 = k + i /\ k + i \in 1 .. m
    BY <1>5, <1>7
  <2> HIDE DEF j, k
  <2>2. d[i] = c[j]
    BY <1>8 DEF j
  <2> QED
    BY <1>6, <1>7, <1>8, <2>1, <2>2
<1> HIDE DEF k
<1>12. Core(d, s, k)
  BY <1>5, <1>6, <1>9, <1>10, <1>11 DEF Core
<1> QED
  BY <1>0, <1>4, <1>12

\* The text of a statement stands in what was typed up to the semicolon.
LEMMA TextFramed ==
  ASSUME NEW typed \in Seq(Characters), Complete(typed)
  PROVE  \E k : Framed(Text(typed), TrimRight(typed), k)
<1> DEFINE src == TrimRight(typed)
           M == Len(src)
           front == Front(src)
           part == TrimSpace(front)
<1>1. src \in Seq(Characters) /\ src # << >> /\ src[M] = Semicolon
  BY TrimRightIs DEF Complete, Last
<1>2. part = Text(typed)
  BY DEF Text
<1> HIDE DEF src
<1>3. M \in Nat /\ M >= 1
  BY <1>1
<1>4. front = [i \in 1 .. M - 1 |-> src[i]]
  BY <1>1, FrontIs
<1> HIDE DEF front
<1>5. front \in Seq(Characters) /\ Len(front) = M - 1 /\ \A i \in 1 .. M - 1 : front[i] = src[i]
  BY <1>1, <1>3, <1>4
<1>6. part \in Seq(Characters) /\ \E k : Core(part, front, k)
  BY <1>5, TrimSpaceIs
<1> HIDE DEF part
<1>7. PICK k : Core(part, front, k)
  BY <1>6
<1>8. Len(part) \in Nat /\ k \in Nat /\ k + Len(part) <= M - 1
  BY <1>5, <1>6, <1>7 DEF Core
<1>9. /\ \A i \in 1 .. k : front[i] \in Spaces
      /\ \A i \in 1 .. Len(part) : part[i] = front[k + i]
      /\ \A i \in k + Len(part) + 1 .. M - 1 : front[i] \in Spaces
  BY <1>5, <1>7 DEF Core
<1>10. \A i \in 1 .. k : src[i] \in Spaces
  <2> SUFFICES ASSUME NEW i \in 1 .. k PROVE src[i] \in Spaces
    OBVIOUS
  <2>1. i \in 1 .. M - 1
    BY <1>3, <1>8
  <2> QED
    BY <1>5, <1>9, <2>1
<1>11. \A i \in 1 .. Len(part) : src[k + i] = part[i]
  <2> SUFFICES ASSUME NEW i \in 1 .. Len(part) PROVE src[k + i] = part[i]
    OBVIOUS
  <2>1. k + i \in 1 .. M - 1
    BY <1>3, <1>8
  <2> QED
    BY <1>5, <1>9, <2>1
<1>12. \A i \in k + Len(part) + 1 .. M - 1 : src[i] \in Spaces
  BY <1>3, <1>5, <1>8, <1>9
<1>13. k + Len(part) < M
  BY <1>3, <1>8
<1>14. Framed(part, src, k)
  BY <1>1, <1>6, <1>8, <1>10, <1>11, <1>12, <1>13 DEF Framed
<1> QED
  BY <1>2, <1>14 DEF src
-----------------------------------------------------------------------------
(* The session.                                                            *)

\* What has been executed is what the scanner took from complete lines, and the lexer
\* has had no complaint.
Taken(l) ==
  l.stmt # None =>
    /\ l.typed \in Seq(Characters) /\ Complete(l.typed) /\ l.text = Text(l.typed)
    /\ ~LexFails(Lex(l.text))
ScannerInv == buf \in Seq(Characters) /\ Taken(last)

LEMMA PushTyped ==
  ASSUME buf \in Seq(Characters), NEW line \in Lines \cup Probes
  PROVE  Push(line) \in Seq(Characters)
<1>1. line \in Seq(Characters) /\ "\n" \in Characters
  BY ShellAssumption DEF ShellAssumption
<1>2. <<"\n">> \in Seq(Characters)
  BY <1>1
<1>3. \A s, t \in Seq(Characters) : s \o t \in Seq(Characters)
  OBVIOUS
<1> QED
  BY <1>1, <1>2, <1>3, Zenon DEF Push

LEMMA NothingTaken == Taken(Nothing)
<1>1. Nothing.stmt = None
  BY DEF Nothing
<1> QED
  BY <1>1 DEF Taken

LEMMA ScannerInit == Init => ScannerInv
<1> SUFFICES ASSUME Init PROVE ScannerInv
  OBVIOUS
<1>1. buf = << >> /\ last = Nothing
  BY DEF Init
<1>2. buf \in Seq(Characters)
  BY <1>1
<1> QED
  BY <1>1, <1>2, NothingTaken DEF ScannerInv

LEMMA ScannerStep == ScannerInv /\ [Next]_vars => ScannerInv'
<1> SUFFICES ASSUME ScannerInv, [Next]_vars PROVE ScannerInv'
  OBVIOUS
<1>1. buf \in Seq(Characters) /\ Taken(last) /\ << >> \in Seq(Characters)
  BY DEF ScannerInv
<1>2. ASSUME buf' \in Seq(Characters), last' = Nothing \/ last' = last PROVE ScannerInv'
  <2>1. Taken(last')
    BY <1>1, <1>2, NothingTaken
  <2> QED
    BY <1>2, <2>1 DEF ScannerInv, Taken
<1>3. CASE UNCHANGED vars
  <2>1. buf' = buf /\ last' = last
    BY <1>3 DEF vars
  <2> QED
    BY <1>1, <1>2, <2>1
<1>4. CASE Ends
  BY <1>1, <1>2, <1>4 DEF Ends
<1>5. CASE Open
  BY <1>1, <1>2, <1>5 DEF Open
<1>6. ASSUME NEW line \in Lines \cup Probes, Enter(line)
      PROVE  ScannerInv'
  <2>0. Push(line) \in Seq(Characters)
    BY <1>1, PushTyped
  <2>1. CASE Quit(line)
    BY <1>1, <1>2, <2>1 DEF Quit, Ends
  <2>2. CASE Continue(line)
    BY <1>2, <2>0, <2>2 DEF Continue
  <2>3. CASE Empty(line)
    BY <1>1, <1>2, <2>3 DEF Empty
  <2>4. CASE Submit(line)
    <3> DEFINE typed == Push(line)
               st == Statement(Text(typed))
    <3>1. /\ Complete(typed)
          /\ IF st = None THEN Refuse(typed, st)
             ELSE Begin(typed, st) \/ Commit(typed, st) \/ Rollback(typed, st) \/ Run(typed, st)
      BY <2>4, Zenon DEF Submit
    <3>2. \E ok, rows : Report(typed, st, ok, rows)
      <4> HIDE DEF typed, st
      <4>1. CASE Refuse(typed, st)
        BY <4>1, Zenon DEF Refuse
      <4>2. CASE Begin(typed, st)
        BY <4>2, Zenon DEF Begin
      <4>3. CASE Commit(typed, st)
        BY <4>3, Zenon DEF Commit
      <4>4. CASE Rollback(typed, st)
        BY <4>4, Zenon DEF Rollback
      <4>5. CASE Run(typed, st)
        BY <4>5, Zenon DEF Run
      <4> QED
        BY <3>1, <4>1, <4>2, <4>3, <4>4, <4>5
    <3>3. PICK ok, rows : Report(typed, st, ok, rows)
      BY <3>2
    <3>4. st # None => ~LexFails(Lex(Text(typed)))
      BY Zenon DEF Statement, Checked
    <3> HIDE DEF st
    <3>5. buf' = << >> /\ last'.stmt = st /\ last'.typed = typed /\ last'.text = Text(typed)
      BY <3>3 DEF Report
    <3>6. Taken(last')
      BY <2>0, <3>1, <3>4, <3>5 DEF Taken
    <3> QED
      BY <1>1, <3>5, <3>6 DEF ScannerInv, Taken
  <2> QED
    BY <1>6, <2>1, <2>2, <2>3, <2>4 DEF Enter
<1> QED
  BY <1>3, <1>4, <1>5, <1>6 DEF Next

\* What ends a statement in the scanner ends it in the lexer too: no half of a
\* statement is executed because a string or a quoted name had a semicolon at the end
\* of a line (scanner.go leaves that to the lexer).
THEOREM EveryStatementIsWhole == Spec => []WholeStatements
<1>1. ScannerInv => WholeStatements
  <2> SUFFICES ASSUME ScannerInv, Executed PROVE WholeStatements
    BY Zenon DEF WholeStatements
  <2> DEFINE typed == last.typed
             part == last.text
             src == TrimRight(typed)
  <2>1. /\ typed \in Seq(Characters) /\ Complete(typed) /\ part = Text(typed)
        /\ ~LexFails(Lex(part))
    BY DEF ScannerInv, Taken, Executed
  <2>2. PICK k : Framed(part, src, k)
    BY <2>1, TextFramed
  <2>3. Lex(src) \in {Front(Lex(part)) \o Lex(<<Semicolon>>), Lex(part)}
    BY <2>1, <2>2, WholeLex
  <2> QED
    BY <2>3, Zenon DEF WholeStatements
<1>2. Spec => []ScannerInv
  BY ScannerInit, ScannerStep, PTL DEF Spec
<1> QED
  BY <1>1, <1>2, PTL

=============================================================================
