----------------------------- MODULE OrderedMap -----------------------------
(***************************************************************************)
(* What a B+tree promises to internal/storage, with no page, node or       *)
(* sibling: a map from keys to payloads, searched by key or walked in key  *)
(* order, inside transactions that take effect as a whole or not at all.   *)
(***************************************************************************)
EXTENDS Integers

CONSTANTS Key, Val

VARIABLES
  stable, \* the map the last commit left
  work,   \* the map the tree's caller sees
  mode,   \* "idle", "txn", or "failed": only a rollback may follow
  todo,   \* the cursor: the keys it has not returned yet
  out     \* the last answer of Get, Delete or Next

vars == <<stable, work, mode, todo, out>>

Map == UNION {[K -> Val] : K \in SUBSET Key}

With(m, k, v) == [j \in DOMAIN m \cup {k} |-> IF j = k THEN v ELSE m[j]]
Without(m, k) == [j \in DOMAIN m \ {k} |-> m[j]]

NoAnswer == [found |-> FALSE]
Cell(m, k) == [found |-> TRUE, key |-> k, val |-> m[k]]
Lookup(m, k) == IF k \in DOMAIN m THEN [found |-> TRUE, val |-> m[k]] ELSE NoAnswer

Init == stable = << >> /\ work = stable /\ mode = "idle" /\ todo = {} /\ out = NoAnswer

Begin == mode = "idle" /\ mode' = "txn" /\ UNCHANGED <<stable, work, todo, out>>

Insert(k, v) ==
  /\ mode = "txn" /\ k \notin DOMAIN work
  /\ work' = With(work, k, v)
  /\ UNCHANGED <<stable, mode, todo, out>>

Delete(k) ==
  /\ mode = "txn"
  /\ out' = [found |-> k \in DOMAIN work]
  /\ work' = Without(work, k)
  /\ UNCHANGED <<stable, mode, todo>>

Get(k) ==
  /\ mode = "txn"
  /\ out' = Lookup(work, k)
  /\ UNCHANGED <<stable, work, mode, todo>>

\* A cursor placed before every key from k on.
Seek(k) ==
  /\ mode = "txn"
  /\ todo' = {j \in DOMAIN work : j >= k}
  /\ UNCHANGED <<stable, work, mode, out>>

\* The next cell in key order, or none.
NextCell ==
  /\ mode = "txn"
  /\ IF todo = {}
     THEN out' = NoAnswer /\ todo' = todo
     ELSE \E k \in todo :
            /\ \A j \in todo : k <= j
            /\ out' = Cell(work, k) /\ todo' = todo \ {k}
  /\ UNCHANGED <<stable, work, mode>>

\* The caller is done with the last answer.
Forget == out' = NoAnswer /\ UNCHANGED <<stable, work, mode, todo>>

CloseCursor == todo' = {} /\ out' = NoAnswer /\ UNCHANGED <<stable, work, mode>>

Commit == mode = "txn" /\ mode' = "idle" /\ stable' = work /\ UNCHANGED <<work, todo, out>>

\* A call that returned an error.
Fail == mode = "txn" /\ mode' = "failed" /\ todo' = {} /\ UNCHANGED <<stable, work, out>>

\* ROLLBACK, or a crash and the next Open.
Restore == mode' = "idle" /\ work' = stable /\ todo' = {} /\ UNCHANGED <<stable, out>>

Next ==
  \/ Begin \/ NextCell \/ CloseCursor \/ Forget \/ Commit \/ Fail \/ Restore
  \/ \E k \in Key : Delete(k) \/ Get(k) \/ Seek(k) \/ \E v \in Val : Insert(k, v)

Spec == Init /\ [][Next]_vars
=============================================================================
