------------------------------ MODULE MCShell ------------------------------
(***************************************************************************)
(* Small instances of Shell for TLC.                                       *)
(***************************************************************************)
EXTENDS Shell

MCLowerCase ==
  [SELECT |-> "select", E |-> "e", T |-> "t", A |-> "a", B |-> "b", S |-> "s", I |-> "i"]
MCLetters ==
  DOMAIN Keywords \cup DOMAIN MCLowerCase \cup {MCLowerCase[c] : c \in DOMAIN MCLowerCase}
    \cup {"int", "exit", "x"}
MCAlphabet ==
  <<"\n", " ", "\"", "%", "'", "(", ")", "*", "+", ",", "-", ".", "/",
    "0", "1", "2", "3", "4", "5", "6", "7", "8", "9", ";", "<", "=", ">",
    "A", "B", "E", "I", "S", "SELECT", "T", "a", "and", "as", "b", "begin", "by",
    "create", "delete", "desc", "e", "end", "exit", "explain", "from", "i", "index",
    "insert", "int", "into", "is", "key", "limit", "not", "null", "offset", "on", "or",
    "order", "plan", "primary", "query", "rollback", "s", "select", "set", "t", "table",
    "transaction", "unique", "update", "values", "where", "x", "|">>

\* A line from its words, with spaces only where two words would become one.
Spaced(w, v) ==
  w \in MCLetters \cup Digits /\ v \in MCLetters \cup Digits /\ ~{w, v} \subseteq Digits
Words(ws) ==
  FlattenSeq([i \in DOMAIN ws |->
               IF i < Len(ws) /\ Spaced(ws[i], ws[i + 1]) THEN <<ws[i], " ">> ELSE <<ws[i]>>])

CreateT ==
  Words(<<"create", "table", "T", "(", "A", "int", "not", "null", ",", "b", "int", ")", ";">>)
CreateI == Words(<<"create", "unique", "index", "I", "on", "t", "(", "a", ")", ";">>)
\* A table that fits in the schema page, but not with T.
CreateS ==
  Words(<<"create", "table", "s", "(", "a", "int", ",", "b", "int", ",",
          "x", "int", "primary", "key", ",", "i", "int", ")", ";">>)
\* Both are the same key to the unique index.
InsertTwo ==
  Words(<<"insert", "into", "T", "values", "(", "1", ",", "'", "x", "'", ")", ",",
          "(", "1", ".", "0", ",", "null", ")", ";">>)
InsertNamed ==
  Words(<<"insert", "into", "t", "(", "b", ",", "a", ")", "values",
          "(", "2", ",", "null", ")", ";">>)
Update ==
  Words(<<"update", "t", "set", "a", "=", "a", "-", "3", ",", "B", "=", "a",
          "where", "not", "A", "<", "1", "or", "a", ">", "1", "and", "b", "<", "1", ";">>)
\* A statement over two lines: the second makes it bad, good or is a comment.
DeleteOpen == Words(<<"delete", "from", "T", "where">>)
Bad == Words(<<"b", "=", "'", "x", ";">>)
Good == Words(<<"b", "=", "'", "x", "'", ";">>)
Comment == Words(<<"delete", "from", "t", "-", "-", "x", ";">>)
MCLines ==
  {CreateT, CreateI, CreateS, InsertTwo, Update, DeleteOpen, Bad, Good, Comment,
   Words(<<"begin", "transaction", ";">>), <<"end", ";">>, <<"rollback", " ", ";">>,
   <<".", "exit", " ">>, << >>, <<";">>}

\* Expressions, with the parentheses they need and no others.
Select(ws) == Words(<<"select">> \o ws)
ProbedExpressions ==
  {Select(<<"1", "+", "2", "*", "3", "-", "1", ";">>),
   Select(<<"1", "or", "2", "and", "not", "3", "<", "1", "+", "2", "|", "|", "1",
            "*", "3", "%", "2", ";">>),
   Select(<<"(", "1", "or", "2", ")", "and", "3", ";">>),
   Select(<<"1", "-", "(", "2", "-", "3", ")", "*", "(", "1", "+", "1", ")", "/", "2", ";">>),
   Select(<<"not", "1", "is", "not", "null", "or", "2", "is", "null", ";">>),
   Select(<<"-", "1", "*", "2", "+", "-", "(", "1", "+", "1", ")", ";">>),
   <<"select", " ", "1", ".", "5", "E", "1", "-", ".", "2", "e", "-", "1", ";">>,
   <<"select", " ", "1", "e", ";">>, <<"select", " ", "2", "x", ";">>, Select(<<"8", ";">>)}

\* Queries: names in any case, aliases, orders, limits, strings, comments, errors.
Queries ==
  {Select(<<"S", ".", "a", ",", "b", "as", "i", "from", "T", "as", "s",
            "where", "S", ".", "A", ">", "0",
            "order", "by", "I", "desc", ",", "1", "limit", "1", "offset", "1", ";">>),
   Select(<<"t", ".", "*", "from", "T",
            "where", "not", "(", "A", "=", "1", "and", "b", "=", "'", "x", "'", ")",
            "or", "null", "and", "a", "<", "2", "limit", "-", "1", ";">>),
   Select(<<"\"", "A", "\"", "from", "t",
            "where", "not", "b", "<", ">", "'", "x", ";", "'", "'", "'",
            "/", "*", ";", "*", "/", ";">>),
   Select(<<"a", "/", "b", "from", "t",
            "where", "a", "|", "|", "b", "=", "'", "1", "x", "'",
            "or", "a", "*", "b", "<", "0", ";">>),
   Select(<<"*", ";">>), Select(<<"x", "from", "t", ";">>),
   Select(<<"*", "from", "t", "order", "by", "1", ";">>),
   Words(<<"explain", "query", "plan", "delete", "from", "T", "where", "a", "=", "1", ";">>),
   Words(<<"explain", "begin", ";">>),
   Words(<<"insert", "into", "t", "values", "(", "1", ",", "2", ")", ",",
           "(", "-", "1", ",", "2", ")", ";">>)}
MCProbes == ProbedExpressions \cup Queries

\* A database with what CreateT makes, and these rows.
TableT ==
  [name |-> <<"t">>, root |-> 1,
   columns |-> <<[name |-> <<"A">>, type |-> <<"int">>, primaryKey |-> FALSE, notNull |-> TRUE],
                 [name |-> <<"b">>, type |-> <<"int">>, primaryKey |-> FALSE, notNull |-> FALSE]>>]
Database(rows) ==
  LET form == CHOOSE f \in Marshals(Create(NewCatalog, TableT)) : TRUE
  IN  [schema |-> form \o Zeros(PageSize - Len(form)), next |-> 2,
       trees |-> <<[i \in DOMAIN rows |-> Encode(rows[i])]>>]

\* One with a null, and one with values no INSERT can write: the smallest integer,
\* -1 and, beside them, 1 and 1.5.
MCFiles ==
  {EmptyPages, Database(<<<<NewInteger(2), NewNull>>>>),
   Database(<<<<NewInteger(-8), NewReal(3)>>, <<NewInteger(-1), NewInteger(1)>>>>)}
=============================================================================
