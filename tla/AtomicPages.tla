---------------------------- MODULE AtomicPages ----------------------------
(***************************************************************************)
(* What the pager promises to its callers, with no file, cache or journal: *)
(* a sequence of pages that a transaction changes all at once or not at    *)
(* all, whatever instant the process dies at.                              *)
(***************************************************************************)
EXTENDS Integers

CONSTANTS MaxPages, Data

Page == 0 .. (MaxPages - 1)

\* A database of n pages.
Database == [n : 0 .. MaxPages, img : [Page -> Data]]

VARIABLES
  stable, \* the database the last commit left
  work,   \* the database its one client sees
  mode    \* "down", "idle", or "txn": a transaction is active

vars == <<stable, work, mode>>

\* r is s with, at most, pages added behind its last one.
Extends(r, s) == r.n >= s.n /\ \A p \in Page : p < s.n => r.img[p] = s.img[p]

Init == stable \in Database /\ work = stable /\ mode = "down"

Open == mode = "down" /\ mode' = "idle" /\ work' = stable /\ UNCHANGED stable

Close == mode = "idle" /\ mode' = "down" /\ work' = stable /\ UNCHANGED stable

Begin == mode = "idle" /\ mode' = "txn" /\ UNCHANGED <<stable, work>>

Change == mode = "txn" /\ work' \in Database /\ UNCHANGED <<stable, mode>>

Commit == mode = "txn" /\ mode' = "idle" /\ stable' = work /\ UNCHANGED work

Rollback == mode = "txn" /\ mode' = "idle" /\ work' = stable /\ UNCHANGED stable

\* A crash of a process with no transaction changes nothing.  One in a
\* transaction leaves the old database, or the new one.  A transaction that
\* only added pages has no journal and may leave some of them behind: they
\* are reachable from nothing.
Crash ==
  /\ mode' = "down" /\ work' = stable'
  /\ \/ stable' = stable
     \/ mode = "txn" /\ stable' = work
     \/ mode = "txn" /\ Extends(work, stable) /\ stable' \in Database /\ Extends(stable', stable)

Next == Open \/ Close \/ Begin \/ Change \/ Commit \/ Rollback \/ Crash

Spec == Init /\ [][Next]_vars
=============================================================================
