------------------------------- MODULE Lexer -------------------------------
(***************************************************************************)
(* internal/lexer and internal/token: a source text to tokens.             *)
(*                                                                         *)
(* A text is a sequence of characters.  A word is one character of its     *)
(* own, a letter, so that a text stays short: two letters side by side are *)
(* a longer word, which is no keyword.                                     *)
(***************************************************************************)
EXTENDS Naturals, Sequences

CONSTANTS
  Letters,   \* the words, and single letters such as "e"
  LowerCase  \* a function: the lower case of the letters that have another

Lower(c) == IF c \in DOMAIN LowerCase THEN LowerCase[c] ELSE c
\* strings.ToLower, and what strings.EqualFold compares.
Fold(word) == [i \in DOMAIN word |-> Lower(word[i])]

Digits == {"0", "1", "2", "3", "4", "5", "6", "7", "8", "9"}
Spaces == {" ", "\t", "\r", "\n"}
Semicolon == ";"
NoCharacter == ""

ASSUME LexerAssumption ==
  /\ {"e", "E"} \subseteq Letters /\ DOMAIN LowerCase \subseteq Letters
  /\ Letters \cap (Spaces \cup {Semicolon, NoCharacter}) = {}

\* The character at p; past the end, one that is in no class.
CharAt(src, p) == IF p \in DOMAIN src THEN src[p] ELSE NoCharacter

\* Where the run of characters of `class' that begins at p ends.
Past(src, p, class) ==
  CHOOSE q \in p .. (Len(src) + 1) :
    /\ \A i \in p .. (q - 1) : src[i] \in class
    /\ CharAt(src, q) \notin class

\* A scanned token: what it is, its decoded text, and where the rest begins.
Scanned(kind, text, next) == [kind |-> kind, text |-> text, next |-> next]
Slice(src, kind, p, next) == Scanned(kind, SubSeq(src, p, next - 1), next)

-----------------------------------------------------------------------------
Keywords ==
  [select |-> "SELECT", from |-> "FROM", where |-> "WHERE", insert |-> "INSERT",
   into |-> "INTO", values |-> "VALUES", update |-> "UPDATE", set |-> "SET",
   delete |-> "DELETE", create |-> "CREATE", table |-> "TABLE", and |-> "AND",
   or |-> "OR", not |-> "NOT", null |-> "NULL", is |-> "IS", as |-> "AS",
   primary |-> "PRIMARY", key |-> "KEY", true |-> "TRUE", false |-> "FALSE",
   explain |-> "EXPLAIN", query |-> "QUERY", plan |-> "PLAN", begin |-> "BEGIN",
   commit |-> "COMMIT", rollback |-> "ROLLBACK", transaction |-> "TRANSACTION",
   end |-> "END", index |-> "INDEX", on |-> "ON", unique |-> "UNIQUE",
   order |-> "ORDER", by |-> "BY", asc |-> "ASC", desc |-> "DESC",
   limit |-> "LIMIT", offset |-> "OFFSET"]

\* A word in any case; a quoted identifier is not looked up.
Lookup(word) ==
  LET w == Fold(word)[1]
  IN  IF Len(word) = 1 /\ w \in DOMAIN Keywords THEN Keywords[w] ELSE "IDENT"

ScanWord(src, p) ==
  LET next == Past(src, p, Letters \cup Digits)
  IN  Slice(src, Lookup(SubSeq(src, p, next - 1)), p, next)

\* Digits, a point, more digits, an exponent.  An exponent without digits is
\* malformed, and so is a number that a letter follows: the whole tail is.
ScanNumber(src, p) ==
  LET whole == Past(src, p, Digits)
      point == CharAt(src, whole) = "."
      frac == IF point THEN Past(src, whole + 1, Digits) ELSE whole
      exponent == CharAt(src, frac) \in {"e", "E"}
      digits == IF CharAt(src, frac + 1) \in {"+", "-"} THEN frac + 2 ELSE frac + 1
      end == IF exponent THEN Past(src, digits, Digits) ELSE frac
  IN  IF exponent /\ end = digits THEN Slice(src, "ILLEGAL", p, digits)
      ELSE IF CharAt(src, end) \in Letters
      THEN Slice(src, "ILLEGAL", p, Past(src, end, Letters \cup Digits))
      ELSE Slice(src, IF point \/ exponent THEN "FLOAT" ELSE "INT", p, end)

\* Without a closing quote everything to the end is the bad token.
\* Mutant: it is the text.
UnterminatedText(src, start, kind, text) == Scanned(kind, text, Len(src) + 1)
Unterminated(src, start, kind, text) == Slice(src, "ILLEGAL", start, Len(src) + 1)

\* What stands in quotes from p on, a doubled quote standing for itself, and where it
\* ends; at 0 without a closing quote.
Quoted(src, quote) ==
  LET rest[p \in 1 .. Len(src) + 1] ==
        IF p > Len(src) THEN [text |-> << >>, next |-> 0]
        ELSE IF src[p] # quote
        THEN [rest[p + 1] EXCEPT !.text = <<src[p]>> \o @]
        ELSE IF CharAt(src, p + 1) = quote
        THEN [rest[p + 2] EXCEPT !.text = <<quote>> \o @]
        ELSE [text |-> << >>, next |-> p + 1]
  IN  rest
ScanQuoted(src, p, kind) ==
  LET quoted == Quoted(src, src[p])[p + 1]
  IN  IF quoted.next = 0 THEN Unterminated(src, p, kind, quoted.text)
      ELSE Scanned(kind, quoted.text, quoted.next)

Symbols ==
  {<<"(", "LPAREN">>, <<")", "RPAREN">>, <<",", "COMMA">>, <<Semicolon, "SEMICOLON">>, <<".", "DOT">>,
   <<"+", "PLUS">>, <<"-", "MINUS">>, <<"*", "STAR">>, <<"/", "SLASH">>, <<"%", "PERCENT">>,
   <<"=", "EQ">>, <<"<", "LT">>, <<">", "GT">>}
Pairs ==
  {<<"<", "=", "LTE">>, <<"<", ">", "NEQ">>, <<">", "=", "GTE">>, <<"!", "=", "NEQ">>,
   <<"|", "|", "CONCAT">>}

\* The longer symbol first; a lone ! or | is illegal.
ScanSymbol(src, p) ==
  LET pairs == {s \in Pairs : s[1] = src[p] /\ s[2] = CharAt(src, p + 1)}
      single == {s \in Symbols : s[1] = src[p]}
  IN  IF pairs # {} THEN Slice(src, (CHOOSE s \in pairs : TRUE)[3], p, p + 2)
      ELSE IF single # {} THEN Slice(src, (CHOOSE s \in single : TRUE)[2], p, p + 1)
      ELSE Slice(src, "ILLEGAL", p, p + 1)

ScanToken(src, p) ==
  LET c == src[p]
  IN  IF c \in Digits \/ (c = "." /\ CharAt(src, p + 1) \in Digits) THEN ScanNumber(src, p)
      ELSE IF c \in Letters THEN ScanWord(src, p)
      ELSE IF c = "'" THEN ScanQuoted(src, p, "STRING")
      ELSE IF c = "\"" THEN ScanQuoted(src, p, "IDENT")
      ELSE ScanSymbol(src, p)

-----------------------------------------------------------------------------
\* Where a block comment that was opened before p ends; one that is not closed
\* ends with the text, and nobody complains.
CommentEnd(src, p) ==
  LET closings == {q \in p .. (Len(src) - 1) : src[q] = "*" /\ src[q + 1] = "/"}
  IN  IF closings = {} THEN Len(src) + 1 ELSE 2 + CHOOSE q \in closings : \A r \in closings : q <= r

\* The first position from p on that is neither white space nor in a comment.
SkipTrivia(src) ==
  LET skip[p \in 1 .. Len(src) + 1] ==
        LET two == <<CharAt(src, p), CharAt(src, p + 1)>>
            lineEnd == {q \in p .. Len(src) : src[q] = "\n"}
        IN  IF CharAt(src, p) \in Spaces THEN skip[p + 1]
            ELSE IF two = <<"-", "-">>
            THEN IF lineEnd = {} THEN Len(src) + 1
                 ELSE skip[CHOOSE q \in lineEnd : \A r \in lineEnd : q <= r]
            ELSE IF two = <<"/", "*">> THEN skip[CommentEnd(src, p + 2)]
            ELSE p
  IN  skip

\* The tokens from p on.
TokensFrom(src) ==
  LET from[p \in 1 .. Len(src) + 1] ==
        LET start == SkipTrivia(src)[p]
            token == ScanToken(src, start)
        IN  IF start > Len(src) THEN <<[kind |-> "EOF", text |-> << >>]>>
            ELSE <<[kind |-> token.kind, text |-> token.text]>> \o from[token.next]
  IN  from

Lex(src) == TokensFrom(src)[1]

\* Each illegal token is an error, and there are no other errors.
LexFails(toks) == \E i \in DOMAIN toks : toks[i].kind = "ILLEGAL"
=============================================================================
