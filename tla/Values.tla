------------------------------- MODULE Values -------------------------------
(***************************************************************************)
(* The values of internal/values: their order, their arithmetic, and the   *)
(* three-valued logic of exec.go over them.                                *)
(*                                                                         *)
(* An integer has Bits bits and wraps, as int64 does.  A real is counted   *)
(* in halves; it is rounded to a half, as a float64 is to what it can      *)
(* hold, and has no infinities.  A text is a sequence of characters.  No   *)
(* statement can write a blob.                                             *)
(***************************************************************************)
EXTENDS Integers, Sequences

CONSTANTS
  Bits,     \* the width of an integer
  Mantissa, \* the integers a real tells apart are those up to here
  Alphabet  \* the characters, in the order of their bytes

\* The power is a number: of ^ alone that cannot be proved.
ASSUME ValuesAssumption ==
  /\ Bits \in Nat \ {0} /\ 2 ^ (Bits - 1) \in Nat \ {0} /\ Mantissa \in Nat
  /\ DOMAIN Alphabet \subseteq Int

Characters == {Alphabet[i] : i \in DOMAIN Alphabet}

NewNull == <<"null">>
NewInteger(n) == <<"int", n>>
NewReal(h) == <<"real", h>>
NewText(s) == <<"text", s>>

\* What a step returns in place of a value when it returns an error.
Error == <<"error">>

Type(v) == v[1]
IsNull(v) == Type(v) = "null"
IsInteger(v) == Type(v) = "int"

Half == 2 ^ (Bits - 1)
Wrap(n) == ((n + Half) % (2 * Half)) - Half
MinInt == -Half
MaxInt == Half - 1

-----------------------------------------------------------------------------
(* Comparison.                                                             *)

\* An odd integer beyond Mantissa goes to the neighbour with an even mantissa.
ToReal(v) ==
  LET n == v[2]
      rounded == IF n \in -Mantissa .. Mantissa \/ n % 2 = 0 THEN n
                 ELSE IF n % 4 = 1 THEN n - 1 ELSE n + 1
  IN  CASE IsInteger(v) -> 2 * rounded
        [] Type(v) = "real" -> v[2]
        [] OTHER -> 0

ValueRank(v) == CASE IsNull(v) -> 0 [] Type(v) \in {"int", "real"} -> 1 [] Type(v) = "text" -> 2

Sign(n) == IF n < 0 THEN -1 ELSE IF n > 0 THEN 1 ELSE 0

\* Mutant: a real is compared as an integer when it is on the right.
CompareNumericCuts(a, b) ==
  IF IsInteger(a) THEN Sign(a[2] - ToReal(b) \div 2) ELSE Sign(ToReal(a) - ToReal(b))

CompareNumeric(a, b) ==
  IF IsInteger(a) /\ IsInteger(b) THEN Sign(a[2] - b[2]) ELSE Sign(ToReal(a) - ToReal(b))

Code(c) == CHOOSE i \in DOMAIN Alphabet : Alphabet[i] = c

\* Texts differ at their first difference, or one is the beginning of the other.
CompareText(s, t) ==
  LET shorter == IF Len(s) < Len(t) THEN Len(s) ELSE Len(t)
      differ == {i \in 1 .. shorter : s[i] # t[i]}
      first == CHOOSE i \in differ : \A j \in differ : i <= j
  IN  IF differ = {} THEN Sign(Len(s) - Len(t)) ELSE Sign(Code(s[first]) - Code(t[first]))

Compare(a, b) ==
  IF ValueRank(a) # ValueRank(b) THEN Sign(ValueRank(a) - ValueRank(b))
  ELSE CASE IsNull(a) -> 0
         [] Type(a) = "text" -> CompareText(a[2], b[2])
         [] OTHER -> CompareNumeric(a, b)

-----------------------------------------------------------------------------
(* Arithmetic.  Go's quotient is cut off towards zero, and its remainder   *)
(* has the sign of the dividend.                                           *)

Abs(n) == IF n < 0 THEN -n ELSE n
Quotient(a, b) == Sign(a) * Sign(b) * (Abs(a) \div Abs(b))
\* Mutant: the remainder is never negative.
RemainderPositive(a, b) == Abs(a) % Abs(b)
Remainder(a, b) == a - b * Quotient(a, b)

BothIntegers(a, b) == IsInteger(a) /\ IsInteger(b)

Add(a, b) ==
  IF BothIntegers(a, b) THEN NewInteger(Wrap(a[2] + b[2])) ELSE NewReal(ToReal(a) + ToReal(b))
Sub(a, b) ==
  IF BothIntegers(a, b) THEN NewInteger(Wrap(a[2] - b[2])) ELSE NewReal(ToReal(a) - ToReal(b))
Mul(a, b) ==
  IF BothIntegers(a, b) THEN NewInteger(Wrap(a[2] * b[2]))
  ELSE NewReal((ToReal(a) * ToReal(b)) \div 2)

\* Only a number is refused as a divisor.  A text divides as 0.0, which gives an
\* infinity or no number at all: it is no divisor here.
IsZero(v) == Type(v) \in {"int", "real"} /\ v[2] = 0

Div(a, b) ==
  IF IsZero(b) THEN NewNull
  ELSE IF BothIntegers(a, b) THEN NewInteger(Wrap(Quotient(a[2], b[2])))
  ELSE NewReal((2 * ToReal(a)) \div ToReal(b))
Mod(a, b) ==
  IF IsZero(b) THEN NewNull
  ELSE IF BothIntegers(a, b) THEN NewInteger(Remainder(a[2], b[2]))
  ELSE NewReal(Remainder(ToReal(a), ToReal(b)))

Digit(n) == <<"0", "1", "2", "3", "4", "5", "6", "7", "8", "9">>[n + 1]

Numeral[n \in Nat] ==
  IF n < 10 THEN <<Digit(n)>> ELSE Append(Numeral[n \div 10], Digit(n % 10))

ToText(v) ==
  LET minus == IF v[2] < 0 THEN <<"-">> ELSE << >>
      half == IF v[2] % 2 = 1 THEN <<".", "5">> ELSE << >>
  IN  CASE IsInteger(v) -> minus \o Numeral[Abs(v[2])]
        [] Type(v) = "real" -> minus \o Numeral[Abs(v[2]) \div 2] \o half
        [] Type(v) = "text" -> v[2]

Concat(a, b) == NewText(ToText(a) \o ToText(b))

-----------------------------------------------------------------------------
(* Three-valued logic.  Only an integer can be true.                       *)

Truth(v) == IF IsNull(v) THEN -1 ELSE IF IsInteger(v) /\ v[2] # 0 THEN 1 ELSE 0

Boolean(b) == NewInteger(IF b THEN 1 ELSE 0)

And3(l, r) ==
  IF Truth(l) = 0 \/ Truth(r) = 0 THEN Boolean(FALSE)
  ELSE IF Truth(l) = 1 /\ Truth(r) = 1 THEN Boolean(TRUE) ELSE NewNull
Or3(l, r) ==
  IF Truth(l) = 1 \/ Truth(r) = 1 THEN Boolean(TRUE)
  ELSE IF Truth(l) = 0 /\ Truth(r) = 0 THEN Boolean(FALSE) ELSE NewNull
Not3(v) == IF IsNull(v) THEN NewNull ELSE Boolean(Truth(v) = 0)

Comparisons == {"EQ", "NEQ", "LT", "LTE", "GT", "GTE"}

EvalCompare(a, b, op) ==
  LET c == Compare(a, b)
  IN  IF IsNull(a) \/ IsNull(b) THEN NewNull
      ELSE Boolean(CASE op = "EQ" -> c = 0 [] op = "NEQ" -> c # 0
                     [] op = "LT" -> c < 0 [] op = "LTE" -> c <= 0
                     [] op = "GT" -> c > 0 [] op = "GTE" -> c >= 0)

\* The operators of Eval.  IS does not look at its right side.
Apply(op, l, r) ==
  CASE op \in Comparisons -> EvalCompare(l, r, op)
    [] op = "AND" -> And3(l, r)
    [] op = "OR" -> Or3(l, r)
    [] op = "IS" -> Boolean(Truth(l) # 1)
    [] op \notin Comparisons \cup {"AND", "OR", "IS"} ->
         IF IsNull(l) \/ IsNull(r) THEN NewNull
         ELSE CASE op = "PLUS" -> Add(l, r) [] op = "MINUS" -> Sub(l, r)
                [] op = "STAR" -> Mul(l, r) [] op = "SLASH" -> Div(l, r)
                [] op = "PERCENT" -> Mod(l, r) [] op = "CONCAT" -> Concat(l, r)

-----------------------------------------------------------------------------
(* What is to be relied on.                                                *)

\* A real can hold the number.
Exact(v) == IsInteger(v) => ToReal(v) = 2 * v[2]

\* Compare is total and transitive on these values.
Ordered(V) ==
  \A a, b, c \in V :
    /\ Compare(a, b) = -Compare(b, a)
    /\ Compare(a, b) <= 0 /\ Compare(b, c) <= 0 => Compare(a, c) <= 0

\* Quotient and remainder of integers belong together.
Divides(a, b) ==
  IF b[2] = 0 THEN {Div(a, b), Mod(a, b)} = {NewNull}
  ELSE Add(Mul(Div(a, b), b), Mod(a, b)) = a /\ Abs(Mod(a, b)[2]) < Abs(b[2])
=============================================================================
