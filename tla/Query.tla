------------------------------- MODULE Query -------------------------------
(***************************************************************************)
(* A SELECT on one table: the plan, and its operators pulling rows from    *)
(* one another, a scan with its filter, a sort and a limit.                *)
(*                                                                         *)
(* Rows are named by their rowids; the projection that ends the pipeline   *)
(* changes no row's place.  The entries of an index are what Engine shows  *)
(* them to be.                                                             *)
(***************************************************************************)
EXTENDS Planner, FiniteSets, SequencesExt

CONSTANTS
  Columns,  \* the columns of the tables
  Contents, \* the tables: functions from rowids to rows
  Schemas,  \* sequences of indexes [cols], in the order of their names
  Clauses,  \* WHERE clauses
  Orders,   \* ORDER BY clauses: sequences of [col, desc]
  Limits    \* [count, offset]; a count of -1 is no limit

ASSUME QueryAssumption ==
  /\ \A r \in Contents :
       /\ IsFiniteSet(DOMAIN r) /\ DOMAIN r \subseteq Int
       /\ \A id \in DOMAIN r : r[id] \in [Columns -> Value]
  /\ Schemas \subseteq Seq([cols : Seq(Columns) \ {<< >>}])
  /\ \A w \in Clauses : IsClause(w, Columns)
  /\ Orders \subseteq Seq([col : Columns, desc : BOOLEAN])
  /\ Limits \subseteq [count : Int, offset : Nat]

VARIABLES
  rows, indexes, where, order, limit, \* the table and the statement
  phase,   \* "plan", "sort", "run" or "done"
  plan,    \* of Planner's Scan
  cursor,  \* the entries or rows the scan's cursor has left: [vals, id]
  sorted,  \* the rows the sort holds
  skipped, \* rows that OFFSET has dropped
  answer   \* the rows returned

input == <<rows, indexes, where, order, limit>>
vars == <<input, phase, plan, cursor, sorted, skipped, answer>>

Init ==
  /\ rows \in Contents /\ indexes \in Schemas /\ where \in Clauses
  /\ order \in Orders /\ limit \in Limits
  /\ phase = "plan" /\ plan = [index |-> 0, low |-> {}, high |-> {}, rest |-> {}]
  /\ cursor = << >> /\ sorted = << >> /\ skipped = 0 /\ answer = << >>

Ids == DOMAIN rows

\* Index keys compare value by value, and then by the rowid.
KeyLess(e, f) ==
  LET differ == {i \in DOMAIN e.vals : Class[e.vals[i]] # Class[f.vals[i]]}
  IN  IF differ = {} THEN e.id < f.id
      ELSE Class[e.vals[First(differ)]] < Class[f.vals[First(differ)]]

TableEntries == {[vals |-> rows[id], id |-> id] : id \in Ids}
IndexEntries(ix) ==
  {[vals |-> [i \in DOMAIN ix.cols |-> rows[id][ix.cols[i]]], id |-> id] : id \in Ids}

\* S as a sequence, the least first.
InOrder(S, Less(_, _)) ==
  CHOOSE s \in SetToSeqs(S) : \A i, j \in DOMAIN s : i < j => Less(s[i], s[j])

\* Mutant: the entries equal to the low bound are passed over.
OpenedPastLow(p) ==
  IF p.index = 0 THEN InOrder(TableEntries, LAMBDA e, f : e.id < f.id)
  ELSE InOrder({e \in IndexEntries(indexes[p.index]) :
                  \A i \in p.low : Class[e.vals[1]] > Class[where[i].lit]}, KeyLess)

\* Where the scan's cursor stands once it is opened.
Opened(p) ==
  IF p.index = 0 THEN InOrder(TableEntries, LAMBDA e, f : e.id < f.id)
  ELSE InOrder({e \in IndexEntries(indexes[p.index]) :
                  \A i \in p.low : Class[e.vals[1]] >= Class[where[i].lit]}, KeyLess)

Plan ==
  /\ phase = "plan"
  /\ plan' = Scan(where, indexes)
  /\ cursor' = Opened(plan')
  /\ phase' = IF order = << >> THEN "run" ELSE "sort"
  /\ UNCHANGED <<input, sorted, skipped, answer>>

\* OFFSET is served before LIMIT is looked at.
Full == skipped = limit.offset /\ limit.count >= 0 /\ Len(answer) >= limit.count

\* Mutant: one row too many is skipped.
DeliverSkipsMore(id) ==
  IF skipped <= limit.offset
  THEN skipped' = skipped + 1 /\ UNCHANGED answer
  ELSE answer' = Append(answer, id) /\ UNCHANGED skipped

\* A row reaches the limit.
Deliver(id) ==
  IF skipped < limit.offset
  THEN skipped' = skipped + 1 /\ UNCHANGED answer
  ELSE answer' = Append(answer, id) /\ UNCHANGED skipped

\* The cursor's next entry, for the sort or straight for the limit.
ScanRow ==
  /\ phase = "sort" \/ (phase = "run" /\ order = << >> /\ ~Full)
  /\ cursor # << >>
  /\ LET e == Head(cursor)
         past == plan.index # 0 /\ ~ToHigh(where, plan.high, e.vals[1])
         short == plan.index # 0 /\ ~FromLow(where, plan.low, e.vals[1])
     IN  /\ cursor' = IF past /\ ~short THEN << >> ELSE Tail(cursor)
         /\ IF past \/ short \/ ~Passes(where, plan.rest, rows[e.id])
            THEN UNCHANGED <<sorted, skipped, answer>>
            ELSE IF phase = "sort"
                 THEN sorted' = Append(sorted, e.id) /\ UNCHANGED <<skipped, answer>>
                 ELSE Deliver(e.id) /\ UNCHANGED sorted
  /\ UNCHANGED <<input, phase, plan>>

\* id comes before jd: by the sort's keys alone.
Before(id, jd) ==
  LET x(i) == Class[rows[id][order[i].col]]
      y(i) == Class[rows[jd][order[i].col]]
      differ == {i \in DOMAIN order : x(i) # y(i)}
  IN  differ # {} /\ (x(First(differ)) < y(First(differ))) # order[First(differ)].desc

Place(s, i) ==
  Cardinality({j \in DOMAIN s : Before(s[j], s[i]) \/ (j <= i /\ ~Before(s[i], s[j]))})

\* Mutant: rows with equal keys change places.
SortUnstable ==
  /\ phase = "sort" /\ cursor = << >>
  /\ sorted' = SortSeq(Reverse(sorted), Before)
  /\ phase' = "run"
  /\ UNCHANGED <<input, plan, cursor, skipped, answer>>

\* A stable sort, once the input has ended.
Sort ==
  /\ phase = "sort" /\ cursor = << >>
  /\ sorted' = [n \in DOMAIN sorted |-> sorted[CHOOSE i \in DOMAIN sorted : Place(sorted, i) = n]]
  /\ phase' = "run"
  /\ UNCHANGED <<input, plan, cursor, skipped, answer>>

SortedRow ==
  /\ phase = "run" /\ order # << >> /\ ~Full /\ sorted # << >>
  /\ sorted' = Tail(sorted)
  /\ Deliver(Head(sorted))
  /\ UNCHANGED <<input, phase, plan, cursor>>

Done ==
  /\ phase = "run"
  /\ Full \/ IF order = << >> THEN cursor = << >> ELSE sorted = << >>
  /\ phase' = "done"
  /\ UNCHANGED <<input, plan, cursor, sorted, skipped, answer>>

Next == Plan \/ ScanRow \/ Sort \/ SortedRow \/ Done

Spec == Init /\ [][Next]_vars

-----------------------------------------------------------------------------
TypeOK ==
  /\ phase \in {"plan", "sort", "run", "done"}
  /\ plan.index \in 0 .. Len(indexes)
  /\ plan.low \subseteq DOMAIN where /\ plan.high \subseteq DOMAIN where
  /\ plan.rest \subseteq DOMAIN where
  /\ \A i \in DOMAIN cursor : cursor[i].id \in Ids
  /\ sorted \in Seq(Ids) /\ answer \in Seq(Ids) /\ skipped \in 0 .. limit.offset

Matching == {id \in Ids : Passes(where, DOMAIN where, rows[id])}

\* A scan with a high bound alone starts at the nulls, which sort below it.
Leaked ==
  {id \in Ids : /\ plan.index # 0 /\ plan.low = {}
                /\ rows[id][indexes[plan.index].cols[1]] = Null
                /\ Passes(where, plan.rest, rows[id])}
Chosen == Matching \cup Leaked

\* A finished SELECT has returned, once each, the rows at the places that LIMIT
\* and OFFSET ask for, of all that pass the clause (or leak past it) in the order
\* of ORDER BY: whatever index, bounds and filter the plan has, no row is lost.
RightAnswer ==
  phase = "done" =>
    LET left == Cardinality(Chosen) - limit.offset
        length == IF left < 0 THEN 0 ELSE left
    IN  /\ Len(answer) = IF limit.count >= 0 /\ limit.count < length THEN limit.count ELSE length
        /\ \A n \in DOMAIN answer :
             /\ answer[n] \in Chosen /\ \A m \in 1 .. n - 1 : answer[m] # answer[n]
             /\ Cardinality({id \in Chosen : Before(id, answer[n])}) < limit.offset + n
             /\ Cardinality({id \in Chosen : ~Before(answer[n], id)}) >= limit.offset + n

ScanLess(id, jd) ==
  IF plan.index = 0 THEN id < jd
  ELSE \E e, f \in IndexEntries(indexes[plan.index]) : e.id = id /\ f.id = jd /\ KeyLess(e, f)

\* Rows that ORDER BY does not tell apart come in the order of the scan: the sort
\* is stable (exec.go:213) and the filter and the limit keep the order.
TiesInScanOrder ==
  \A n \in DOMAIN answer : \A m \in 1 .. n - 1 :
    Before(answer[m], answer[n]) \/ ScanLess(answer[m], answer[n])

\* Queries return the same rows whichever access path is chosen.
PathsAgree ==
  phase = "done" /\ limit = [count |-> -1, offset |-> 0] =>
    {answer[n] : n \in DOMAIN answer} = Matching
=============================================================================
