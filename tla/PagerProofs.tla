---------------------------- MODULE PagerProofs ----------------------------
(***************************************************************************)
(* What Pager guarantees for every number of pages and every content, and  *)
(* why: the types of its state, an inductive invariant, its preservation   *)
(* by every step, and the theorems that follow from it.                    *)
(***************************************************************************)
EXTENDS Pager, TLAPS

-----------------------------------------------------------------------------
(* Lemmas about the journal's operators.                                   *)

\* The parts of a journal and of its records.
LEMMA JournalType ==
  ASSUME NEW j \in JournalFile
  PROVE  /\ j.hdr \in BOOLEAN /\ j.pages \in Nat /\ j.recs \in Seq(JournalRecord)
         /\ Len(j.recs) \in Nat
         /\ \A i \in 1..Len(j.recs) :
              /\ j.recs[i] \in JournalRecord
              /\ j.recs[i].id \in Page /\ j.recs[i].data \in Data /\ j.recs[i].ok \in BOOLEAN
<1>1. j.hdr \in BOOLEAN /\ j.pages \in Nat /\ j.recs \in Seq(JournalRecord)
  BY DEF JournalFile
<1>2. Len(j.recs) \in Nat /\ \A i \in 1..Len(j.recs) : j.recs[i] \in JournalRecord
  BY <1>1
<1>3. \A r \in JournalRecord : r.id \in Page /\ r.data \in Data /\ r.ok \in BOOLEAN
  BY DEF JournalRecord
<1>. QED
  BY <1>1, <1>2, <1>3

\* Appending a record keeps the records there are and adds one of page p.
LEMMA AppendLemma ==
  ASSUME NEW j \in JournalFile, NEW p \in Page, NEW d \in Data, NEW b \in BOOLEAN
  PROVE  LET k == AppendUnit(j, p, d, b) IN
         /\ k \in JournalFile
         /\ k.hdr = j.hdr /\ k.pages = j.pages
         /\ Len(k.recs) = Len(j.recs) + 1
         /\ \A i \in 1..Len(j.recs) : k.recs[i] = j.recs[i]
         /\ k.recs[Len(j.recs) + 1] = [id |-> p, data |-> d, ok |-> b]
<1>. DEFINE r == [id |-> p, data |-> d, ok |-> b]
            k == AppendUnit(j, p, d, b)
<1>1. r \in JournalRecord
  BY DEF JournalRecord
<1>2. j.recs \in Seq(JournalRecord) /\ Len(j.recs) \in Nat
  BY JournalType
<1>3. k.recs = Append(j.recs, r) /\ k.hdr = j.hdr /\ k.pages = j.pages
  BY DEF JournalFile, AppendUnit
<1>4. k \in JournalFile
  <2>. Append(j.recs, r) \in Seq(JournalRecord)
    BY <1>1, <1>2
  <2>. QED
    BY DEF JournalFile, AppendUnit
<1>. HIDE DEF r, k
<1>5. /\ Len(Append(j.recs, r)) = Len(j.recs) + 1
      /\ \A i \in 1..Len(j.recs) : Append(j.recs, r)[i] = j.recs[i]
      /\ Append(j.recs, r)[Len(j.recs) + 1] = r
  BY <1>1, <1>2
<1>. QED
  BY <1>3, <1>4, <1>5 DEF r, k

\* A journal cut after k units keeps its first k - 1 records.
LEMMA PrefixLemma ==
  ASSUME NEW j \in JournalFile, NEW k \in 0..Units(j)
  PROVE  LET c == Prefix(j, k) IN
         /\ c \in JournalFile
         /\ Units(c) = k
         /\ k > 0 => /\ c.hdr /\ j.hdr /\ c.pages = j.pages
                     /\ Len(c.recs) = k - 1 /\ k - 1 <= Len(j.recs)
                     /\ \A i \in 1..(k - 1) : c.recs[i] = j.recs[i]
         /\ k = 0 => ~c.hdr
<1>1. CASE k = 0
  <2>1. Prefix(j, 0) = EmptyJournal
    BY DEF Prefix
  <2>2. EmptyJournal \in JournalFile /\ Units(EmptyJournal) = 0 /\ ~EmptyJournal.hdr
    <3>. << >> \in Seq(JournalRecord)
      OBVIOUS
    <3>. QED
      BY DEF EmptyJournal, JournalFile, Units
  <2>. QED
    BY <1>1, <2>1, <2>2
<1>2. CASE k > 0
  <2>1. j.hdr /\ k - 1 \in 0..Len(j.recs) /\ j.recs \in Seq(JournalRecord) /\ Len(j.recs) \in Nat
    BY <1>2, JournalType DEF Units
  <2>2. /\ Prefix(j, k).recs = SubSeq(j.recs, 1, k - 1)
        /\ Prefix(j, k).hdr = j.hdr /\ Prefix(j, k).pages = j.pages
        /\ Prefix(j, k) = [j EXCEPT !.recs = SubSeq(j.recs, 1, k - 1)]
    BY <1>2 DEF Prefix, JournalFile
  <2>3. /\ SubSeq(j.recs, 1, k - 1) \in Seq(JournalRecord)
        /\ Len(SubSeq(j.recs, 1, k - 1)) = k - 1
        /\ \A i \in 1..(k - 1) : SubSeq(j.recs, 1, k - 1)[i] = j.recs[i]
    BY <2>1
  <2>4. Prefix(j, k) \in JournalFile
    BY <2>2, <2>3 DEF JournalFile
  <2>5. Units(Prefix(j, k)) = k
    BY <2>1, <2>2, <2>3 DEF Units
  <2>. QED
    BY <1>2, <2>1, <2>2, <2>3, <2>4, <2>5
<1>. QED
  BY <1>1, <1>2, JournalType DEF Units

\* Records of a page carry its number, and none before them is bad.
LEMMA RecordsType ==
  ASSUME NEW j \in JournalFile, NEW p \in Page
  PROVE  \A i \in Records(j, p) :
           /\ i \in 1..Len(j.recs) /\ \A k \in 1..i : j.recs[k].ok
           /\ j.recs[i].ok /\ j.recs[i].id = p /\ j.recs[i].data \in Data
  BY JournalType DEF Records, Valid

\* The pre-image of a journaled page is the content of one of its records.
LEMMA PreImageRecord ==
  ASSUME NEW j \in JournalFile, NEW p \in Page, Journaled(j, p)
  PROVE  \E i \in Records(j, p) : PreImage(j, p) = j.recs[i].data
<1>. DEFINE IsLast(i) == \A k \in Records(j, p) : k <= i
            LastOne(i) == \A k \in Records(j, p) : IsLast(k) => k = i
<1>1. \A i \in Records(j, p) : i \in Int
  BY RecordsType
<1>2. \A i, k \in Records(j, p) : IsLast(i) /\ IsLast(k) => i = k
  BY <1>1
<1>3. \E i \in Records(j, p) : LastOne(i)
  BY <1>2 DEF Journaled
<1>4. (CHOOSE i \in Records(j, p) : LastOne(i)) \in Records(j, p)
  BY <1>3
<1>. QED
  BY <1>4 DEF PreImage

\* A journal that agrees with j up to record n keeps j's replayable records up
\* to n.
LEMMA RecordsKept ==
  ASSUME NEW j \in JournalFile, NEW k \in JournalFile, NEW p \in Page, NEW n \in Nat,
         n <= Len(j.recs), n <= Len(k.recs),
         \A i \in 1..n : k.recs[i] = j.recs[i]
  PROVE  \A i \in Records(j, p) : i <= n => i \in Records(k, p)
<1>. SUFFICES ASSUME NEW i \in Records(j, p), i <= n PROVE i \in Records(k, p)
  OBVIOUS
<1>1. i \in 1..Len(j.recs) /\ (\A m \in 1..i : j.recs[m].ok) /\ j.recs[i].id = p
  BY RecordsType
<1>2. i \in 1..Len(k.recs) /\ i \in 1..n /\ \A m \in 1..i : m \in 1..n
  BY <1>1, JournalType
<1>3. i \in Valid(k) /\ k.recs[i].id = p
  BY <1>1, <1>2 DEF Valid
<1>. QED
  BY <1>3 DEF Records

-----------------------------------------------------------------------------
(* Type correctness, whatever fails and however often the machine crashes. *)

LEMMA MaxPagesNat == MaxPages \in Nat
  BY PagerAssumption

LEMMA ConstantTypes ==
  /\ 0 \in Page /\ MinPages \in 0..MaxPages /\ MaxPages \in Nat
  /\ \A p \in Page : p \in Nat /\ p + 1 \in 0..MaxPages
  BY PagerAssumption DEF Page, MinPages

LEMMA EmptyJournalType ==
  /\ EmptyJournal \in JournalFile /\ EmptyJournal.pages = 0 /\ ~EmptyJournal.hdr
  /\ Units(EmptyJournal) = 0
<1>1. << >> \in Seq(JournalRecord)
  OBVIOUS
<1>. QED
  BY <1>1 DEF EmptyJournal, JournalFile, Units

LEMMA HeaderOnlyType ==
  ASSUME NEW n \in Nat
  PROVE  /\ HeaderOnly(n) \in JournalFile /\ HeaderOnly(n).pages = n /\ HeaderOnly(n).hdr
         /\ HeaderOnly(n).recs = << >> /\ Units(HeaderOnly(n)) = 1
<1>1. << >> \in Seq(JournalRecord)
  OBVIOUS
<1>. QED
  BY <1>1 DEF HeaderOnly, JournalFile, Units

LEMMA LargerType ==
  ASSUME NEW m \in 0..MaxPages, NEW n \in 0..MaxPages
  PROVE  Larger(m, n) \in 0..MaxPages /\ Larger(m, n) >= m /\ Larger(m, n) >= n
  BY PagerAssumption DEF Larger

LEMMA TruncatedType ==
  ASSUME NEW d \in [Page -> Data], NEW n \in 0..MaxPages
  PROVE  Truncated(d, n) \in [Page -> Data]
  BY PagerAssumption DEF Truncated

LEMMA WriteAtType ==
  ASSUME NEW d \in [Page -> Data], NEW p \in Page, NEW x \in Data
  PROVE  WriteAt(d, p, x) \in [Page -> Data]
  BY DEF WriteAt

LEMMA NoCacheType == NoCache \in [Page -> Data \cup {Absent}]
  BY DEF NoCache

\* What is recovered from a journal and a file of the right types is a
\* database.
LEMMA RecoveredType ==
  ASSUME NEW j \in JournalFile, j.pages <= MaxPages, NEW d \in [Page -> Data],
         NEW s \in 0..MaxPages, NEW ex \in BOOLEAN
  PROVE  Recovered(d, s, ex, j) \in [n : 0 .. MaxPages, img : [Page -> Data]]
<1>1. ASSUME NEW p \in Page, Journaled(j, p) PROVE PreImage(j, p) \in Data
  BY <1>1, PreImageRecord, RecordsType
<1>. DEFINE f == [p \in Page |-> IF Journaled(j, p) THEN PreImage(j, p) ELSE d[p]]
<1>2. f \in [Page -> Data]
  BY <1>1
<1>. HIDE DEF f
<1>3. ASSUME NEW n \in 0..MaxPages, NEW g \in [Page -> Data]
      PROVE  Image(n, g) \in [n : 0 .. MaxPages, img : [Page -> Data]]
  BY <1>3, PagerAssumption DEF Image
<1>4. j.pages \in 0..MaxPages /\ Larger(s, MinPages) \in 0..MaxPages
  BY JournalType, PagerAssumption DEF Larger, MinPages
<1>. QED
  BY <1>2, <1>3, <1>4 DEF Recovered, f

\* What is dirty, and what is being journaled, is in the cache.
Cached ==
  /\ \A p \in dirty : cache[p] # Absent
  /\ op = "write" => cache[wpage] # Absent
  /\ phase \in {"jcreate", "jheader", "jappend"} => op = "write"

TypeInv == TypeOK /\ Cached

LEMMA ViewType ==
  ASSUME TypeOK
  PROVE  View \in [n : 0 .. MaxPages, img : [Page -> Data]]
  BY PagerAssumption DEF TypeOK, View, Image

LEMMA UnitsType ==
  ASSUME NEW j \in JournalFile
  PROVE  Units(j) \in Nat
  BY JournalType DEF Units

\* What a crash may leave of the journal is a journal.
LEMMA CrashedJournalType ==
  ASSUME TypeInv, NEW j \in KilledJournals \cup LostJournals
  PROVE  j \in JournalFile /\ j.pages <= MaxPages
<1>. USE DEF TypeOK, TypeInv, Cached
<1>1. ASSUME NEW c \in JournalFile, NEW p \in Page, NEW d \in Data
      PROVE  AppendTorn(c, p, d) \in JournalFile /\ AppendTorn(c, p, d).pages = c.pages
  BY <1>1, AppendLemma DEF AppendTorn
<1>2. CASE j \in KilledJournals
  <2>1. jfile \in JournalFile /\ wpage \in Page /\ jfile.pages <= MaxPages
    OBVIOUS
  <2>2. CASE j = jfile
    BY <2>1, <2>2
  <2>3. CASE phase = "jappend" /\ j = AppendTorn(jfile, wpage, cache[wpage])
    BY <2>1, <2>3, <1>1
  <2>. QED
    BY <1>2, <2>2, <2>3 DEF KilledJournals
<1>3. ASSUME NEW k \in 0..Units(jfile)
      PROVE  Prefix(jfile, k) \in JournalFile /\ Prefix(jfile, k).pages <= MaxPages
  <2>1. CASE k = 0
    BY <2>1, EmptyJournalType, MaxPagesNat DEF Prefix
  <2>2. CASE k > 0
    BY <2>2, PrefixLemma
  <2>. QED
    BY <2>1, <2>2, UnitsType
<1>4. CASE j \in LostJournals
  <2>1. CASE \E k \in jdur .. Units(jfile) : j = Prefix(jfile, k)
    BY <2>1, <1>3, UnitsType
  <2>2. CASE \E k \in Larger(jdur, 1) .. (Units(jfile) - 1) : j = AppendTorn(Prefix(jfile, k), 0, Zero)
    <3>1. PICK k \in Larger(jdur, 1) .. (Units(jfile) - 1) : j = AppendTorn(Prefix(jfile, k), 0, Zero)
      BY <2>2
    <3>2. k \in 0..Units(jfile)
      BY UnitsType DEF Larger
    <3>. QED
      BY <3>1, <3>2, <1>1, <1>3, ConstantTypes, PagerAssumption
  <2>. QED
    BY <1>4, <2>1, <2>2 DEF LostJournals
<1>. QED
  BY <1>2, <1>4

\* Where a call that returns, and a process that ends, leave the types.
LEMMA DoneType ==
  ASSUME Done
  PROVE  op' = "none" /\ phase' = "ready" /\ ri' \in Nat /\ 1 <= ri' /\ wpage' \in Page
  BY ConstantTypes DEF Done

LEMMA EndsType ==
  ASSUME ProcessEnds
  PROVE  /\ cache' \in [Page -> Data \cup {Absent}] /\ dirty' \subseteq Page
         /\ count' \in 0..MaxPages /\ startCount' \in 0..MaxPages
         /\ inTxn' \in BOOLEAN /\ handle' = "none" /\ active' \in BOOLEAN
         /\ op' = "none" /\ phase' = "closed" /\ ri' \in Nat /\ 1 <= ri' /\ wpage' \in Page
<1>1. count' \in 0..MaxPages /\ startCount' \in 0..MaxPages /\ wpage' \in Page
  BY ConstantTypes, MaxPagesNat DEF ProcessEnds
<1>2. cache' \in [Page -> Data \cup {Absent}] /\ dirty' \subseteq Page
  BY NoCacheType DEF ProcessEnds
<1>3. inTxn' \in BOOLEAN /\ active' \in BOOLEAN
  BY DEF ProcessEnds
<1>4. handle' = "none" /\ op' = "none" /\ phase' = "closed" /\ ri' = 1
  BY DEF ProcessEnds
<1>. QED
  BY <1>1, <1>2, <1>3, <1>4

LEMMA CrashType ==
  ASSUME TypeInv, Crash
  PROVE  TypeOK'
<1>. USE MaxPagesNat DEF TypeOK, TypeInv
<1>1. jex' \in BOOLEAN /\ dent' \in BOOLEAN /\ jdur' \in Nat
  BY UnitsType, EmptyJournalType, CrashedJournalType DEF Crash, Kill, LosePower, disk
<1>2. jfile' \in JournalFile /\ jfile'.pages <= MaxPages
  BY EmptyJournalType, CrashedJournalType, PagerAssumption DEF Crash, Kill, LosePower
<1>3. size' \in 0..MaxPages /\ dsize' \in 0..MaxPages
  BY DEF Crash, Kill, LosePower, disk
<1>4. db' \in [Page -> Data] /\ ddb' \in [Page -> Data]
  <2>1. CASE Kill
    BY <2>1 DEF Kill, disk
  <2>2. CASE LosePower
    <3>. \A d \in [Page -> Data] : Truncated(d, size') \in [Page -> Data]
      BY <1>3, TruncatedType
    <3>. QED
      BY <2>2, <1>3 DEF LosePower, LostFiles
  <2>. QED
    BY <2>1, <2>2 DEF Crash
<1>5. committed' \in [n : 0 .. MaxPages, img : [Page -> Data]]
  BY <1>1, <1>2, <1>3, <1>4, RecoveredType DEF Crash
<1>. QED
  BY <1>1, <1>2, <1>3, <1>4, <1>5, EndsType DEF Crash, Phases

LEMMA TypeStep ==
  ASSUME TypeInv, [Next]_vars
  PROVE  TypeOK'
<1>. USE MaxPagesNat DEF TypeOK, TypeInv, disk, jvars, mem, Phases
<1>1. CASE Open
  BY <1>1 DEF Open
<1>2. CASE ReplayRefused
  <2>1. CASE ProcessEnds
    BY <1>2, <2>1, EndsType DEF ReplayRefused
  <2>2. CASE ~ProcessEnds
    BY <1>2, <2>2, DoneType DEF ReplayRefused, ReturnError
  <2>. QED
    BY <2>1, <2>2
<1>3. CASE ReplayRecord
  <2>. DEFINE r == jfile.recs[ri]
  <2>1. r.id \in Page /\ r.data \in Data
    BY <1>3, JournalType DEF ReplayRecord, MoreRecords
  <2>2. r.id + 1 \in 0..MaxPages
    BY <2>1, ConstantTypes
  <2>3. db' \in [Page -> Data]
    BY <1>3, <2>1, WriteAtType DEF ReplayRecord
  <2>4. size' \in 0..MaxPages
    BY <1>3, <2>2, LargerType DEF ReplayRecord
  <2>. QED
    BY <1>3, <2>3, <2>4 DEF ReplayRecord
<1>4. CASE ReplayEnd
  BY <1>4 DEF ReplayEnd, Goto
<1>5. CASE ReplayTruncate
  <2>1. jfile.pages \in 0..MaxPages
    BY JournalType
  <2>2. db' \in [Page -> Data]
    BY <1>5, <2>1, TruncatedType DEF ReplayTruncate
  <2>. QED
    BY <1>5, <2>1, <2>2 DEF ReplayTruncate, Goto
<1>6. CASE ReplaySync
  BY <1>6 DEF ReplaySync, Goto
<1>7. CASE Remove
  BY <1>7 DEF Remove, Goto
<1>8. CASE OpenDirSync
  <2>1. jfile' \in JournalFile /\ jfile'.pages <= MaxPages
    BY <1>8, EmptyJournalType DEF OpenDirSync, SyncDir
  <2>. QED
    BY <1>8, <2>1 DEF OpenDirSync, SyncDir, Goto
<1>9. CASE Stat
  <2>1. count' \in 0..MaxPages
    BY <1>9, LargerType, ConstantTypes DEF Stat
  <2>2. cache' \in [Page -> Data \cup {Absent}] /\ dirty' \subseteq Page
    BY <1>9, PagerAssumption DEF Stat, Page, MinPages
  <2>. QED
    BY <1>9, <2>1, <2>2, DoneType DEF Stat
<1>10. CASE Begin
  BY <1>10 DEF Begin
<1>11. CASE \E p \in Page : Get(p)
  BY <1>11 DEF Get
<1>12. CASE Allocate
  BY <1>12, PagerAssumption, ConstantTypes DEF Allocate, Page, MinPages
<1>13. CASE \E p \in Page, x \in Data : WriteUnjournaled(p, x)
  BY <1>13 DEF WriteUnjournaled
<1>14. CASE \E p \in Page : WriteJournaled(p)
  BY <1>14 DEF WriteJournaled
<1>15. CASE JournalCreate
  <2>1. jfile' \in JournalFile /\ jfile'.pages <= MaxPages
    BY <1>15, EmptyJournalType DEF JournalCreate
  <2>. QED
    BY <1>15, <2>1 DEF JournalCreate, Goto
<1>16. CASE JournalHeader
  <2>1. jfile' \in JournalFile /\ jfile'.pages <= MaxPages
    BY <1>16, HeaderOnlyType DEF JournalHeader
  <2>. QED
    BY <1>16, <2>1 DEF JournalHeader, Goto
<1>17. CASE \E x \in Data : JournalAppend(x)
  <2>1. PICK x \in Data : JournalAppend(x)
    BY <1>17
  <2>2. cache[wpage] \in Data
    BY <2>1 DEF JournalAppend, Cached
  <2>3. jfile' \in JournalFile /\ jfile'.pages <= MaxPages
    BY <2>1, <2>2, AppendLemma DEF JournalAppend, AppendRecord
  <2>. QED
    BY <2>1, <2>3, DoneType DEF JournalAppend
<1>18. CASE Commit
  BY <1>18 DEF Commit
<1>19. CASE JournalSync
  BY <1>19, UnitsType DEF JournalSync, Goto
<1>20. CASE \E p \in Page : FlushPage(p)
  <2>1. PICK p \in Page : FlushPage(p)
    BY <1>20
  <2>2. cache[p] \in Data
    BY <2>1 DEF FlushPage, Cached
  <2>3. db' \in [Page -> Data]
    BY <2>1, <2>2, WriteAtType DEF FlushPage
  <2>4. size' \in 0..MaxPages
    BY <2>1, LargerType, ConstantTypes DEF FlushPage
  <2>. QED
    BY <2>1, <2>3, <2>4 DEF FlushPage
<1>21. CASE FlushEnd
  BY <1>21 DEF FlushEnd, Goto
<1>22. CASE FlushTruncate
  <2>1. db' \in [Page -> Data]
    BY <1>22, TruncatedType DEF FlushTruncate
  <2>. QED
    BY <1>22, <2>1 DEF FlushTruncate, Goto
<1>23. CASE FlushSync
  <2>1. committed' \in [n : 0 .. MaxPages, img : [Page -> Data]]
    BY <1>23, ViewType DEF FlushSync, CommitReturns
  <2>2. CASE op = "close" /\ ProcessEnds /\ UNCHANGED committed
    BY <1>23, <2>2, EndsType DEF FlushSync
  <2>3. CASE op = "commit" /\ Goto("remove") /\ UNCHANGED <<mem, handle, active, committed>>
    BY <1>23, <2>3 DEF FlushSync, Goto
  <2>4. CASE op = "commit" /\ CommitReturns /\ UNCHANGED <<cache, dirty, count, startCount, handle>>
    BY <1>23, <2>1, <2>4, DoneType DEF FlushSync, CommitReturns
  <2>. QED
    BY <1>23, <2>2, <2>3, <2>4 DEF FlushSync
<1>24. CASE CommitDirSync
  <2>1. committed' \in [n : 0 .. MaxPages, img : [Page -> Data]]
    BY <1>24, ViewType DEF CommitDirSync, CommitReturns
  <2>2. jfile' \in JournalFile /\ jfile'.pages <= MaxPages
    BY <1>24, EmptyJournalType DEF CommitDirSync, SyncDir
  <2>. QED
    BY <1>24, <2>1, <2>2, DoneType DEF CommitDirSync, CommitReturns, SyncDir
<1>25. CASE Rollback
  BY <1>25, ConstantTypes DEF Rollback
<1>26. CASE RollbackTruncate
  <2>1. db' \in [Page -> Data]
    BY <1>26, TruncatedType DEF RollbackTruncate
  <2>. QED
    BY <1>26, <2>1, NoCacheType, DoneType DEF RollbackTruncate, RollbackReturns
<1>27. CASE RollbackDirSync
  <2>1. jfile.pages \in 0..MaxPages
    BY JournalType
  <2>2. jfile' \in JournalFile /\ jfile'.pages <= MaxPages
    BY <1>27, EmptyJournalType DEF RollbackDirSync, SyncDir
  <2>. QED
    BY <1>27, <2>1, <2>2, NoCacheType, DoneType DEF RollbackDirSync, RollbackReturns, SyncDir
<1>28. CASE Close
  BY <1>28 DEF Close
<1>29. CASE IOError
  <2>1. jfile' \in JournalFile /\ jfile'.pages <= MaxPages
    <3>1. jfile' \in KilledJournals
      BY <1>29 DEF IOError, KilledJournals
    <3>. QED
      BY <3>1, CrashedJournalType
  <2>2. CASE ProcessEnds
    BY <1>29, <2>1, <2>2, EndsType DEF IOError
  <2>3. CASE ~ProcessEnds
    BY <1>29, <2>1, <2>3, DoneType DEF IOError, ReturnError
  <2>. QED
    BY <2>2, <2>3
<1>30. CASE HandleClosed
  BY <1>30, DoneType, EndsType DEF HandleClosed, ReturnError
<1>31. CASE Crash
  BY <1>31, CrashType
<1>32. CASE UNCHANGED vars
  BY <1>32 DEF vars
<1>. HIDE DEF TypeOK
<1>. QED
  BY <1>1, <1>2, <1>3, <1>4, <1>5, <1>6, <1>7, <1>8, <1>9, <1>10, <1>11,
     <1>12, <1>13, <1>14, <1>15, <1>16, <1>17, <1>18, <1>19, <1>20, <1>21, <1>22,
     <1>23, <1>24, <1>25, <1>26, <1>27, <1>28, <1>29, <1>30, <1>31, <1>32
  DEF Next, Client, Writing, Committing, Recovery

LEMMA CachedStep ==
  ASSUME TypeInv, [Next]_vars
  PROVE  Cached'
<1>. USE DEF TypeInv, TypeOK, Cached, mem
<1>1. CASE Client
  <2>1. CASE Open \/ Begin \/ Commit \/ Rollback \/ Close
    BY <1>1, <2>1 DEF Open, Begin, Commit, Rollback, Close
  <2>2. CASE Allocate
    BY <2>2, PagerAssumption DEF Allocate, Page
  <2>3. ASSUME NEW p \in Page, Get(p) \/ WriteJournaled(p) PROVE Cached'
    BY <2>3, PagerAssumption DEF Get, WriteJournaled
  <2>4. ASSUME NEW p \in Page, NEW x \in Data, WriteUnjournaled(p, x) PROVE Cached'
    BY <2>4, PagerAssumption DEF WriteUnjournaled
  <2>. QED
    BY <1>1, <2>1, <2>2, <2>3, <2>4 DEF Client
<1>2. CASE Writing
  BY <1>2, PagerAssumption DEF Writing, JournalCreate, JournalHeader, JournalAppend, Goto, Done
<1>3. CASE Committing
  BY <1>3 DEF Committing, JournalSync, FlushPage, FlushEnd, FlushTruncate, FlushSync,
    CommitDirSync, CommitReturns, ProcessEnds, Goto, Done, At
<1>4. CASE Recovery
  <2>1. CASE Stat
    BY <2>1, PagerAssumption DEF Stat, Done, Page, MinPages
  <2>. QED
    BY <1>4, <2>1 DEF Recovery, ReplayRefused, ReplayRecord, ReplayEnd, ReplayTruncate,
      ReplaySync, Remove, OpenDirSync, RollbackDirSync, RollbackTruncate, RollbackReturns,
      ReturnError, ProcessEnds, Goto, Done, At
<1>5. CASE IOError \/ HandleClosed
  BY <1>5 DEF IOError, HandleClosed, ReturnError, ProcessEnds, Done
<1>6. CASE Crash
  BY <1>6 DEF Crash, ProcessEnds
<1>7. CASE UNCHANGED vars
  BY <1>7 DEF vars
<1>. QED
  BY <1>1, <1>2, <1>3, <1>4, <1>5, <1>6, <1>7 DEF Next

LEMMA TypeInit == Init => TypeInv
<1>. SUFFICES ASSUME Init PROVE TypeInv
  OBVIOUS
<1>. USE MaxPagesNat DEF Init
<1>1. size \in 0..MaxPages
  BY PagerAssumption
<1>2. db \in [Page -> Data]
  <2>. \A d \in [Page -> Data] : Truncated(d, size) \in [Page -> Data]
    BY <1>1, TruncatedType
  <2>. QED
    OBVIOUS
<1>3. committed \in [n : 0 .. MaxPages, img : [Page -> Data]]
  BY <1>1, <1>2, RecoveredType, EmptyJournalType, MaxPagesNat, 0 <= MaxPages
<1>4. jfile \in JournalFile /\ jfile.pages <= MaxPages
  BY EmptyJournalType
<1>. QED
  <2>1. 0 \in Page /\ 0 \in 0..MaxPages
    BY ConstantTypes
  <2>2. TypeOK
    <3>1. cache \in [Page -> Data \cup {Absent}] /\ dirty \subseteq Page
      BY NoCacheType
    <3>2. ri \in Nat /\ 1 <= ri /\ wpage \in Page /\ jdur \in Nat
      BY <2>1
    <3>. QED
      BY <1>1, <1>2, <1>3, <1>4, <2>1, <3>1, <3>2 DEF TypeOK, Phases
  <2>. QED
    BY <2>2 DEF TypeInv, Cached

\* The pager's state is always of its type, whatever system call fails, after
\* any number of crashes of either kind: no page number leaves the database
\* and no page is flushed or journaled that is not in the cache.
THEOREM TypeCorrect == Spec => []TypeOK
<1>1. TypeInv /\ [Next]_vars => TypeInv'
  BY TypeStep, CachedStep DEF TypeInv
<1>2. TypeInv => TypeOK
  BY DEF TypeInv
<1>. QED
  BY TypeInit, <1>1, <1>2, PTL DEF Spec

-----------------------------------------------------------------------------
(* When the guarantees hold.                                               *)

\* The theorems hold when fsync makes the journal's name durable too, when the
\* only system calls that fail are ones the code survives, and from a database
\* that has the two pages a first successful commit gives it.
Reliable ==
  /\ Faults \subseteq {"stat", "jcreate", "jheader"}
  /\ PowerLoss => EntrySync
  /\ InitSizes \subseteq MinPages .. MaxPages

-----------------------------------------------------------------------------
(* The inductive invariant.                                                *)

\* A pager is there for callers to use.
Up == phase # "closed" /\ op # "open"

\* Which steps a call goes through, and the journal handle it has there.
Steps ==
  /\ op = "none" => phase \in {"closed", "ready"}
  /\ op = "open" => phase \in {"replay", "rtruncate", "rsync", "remove", "dirsync", "stat"}
  /\ op = "write" => \/ phase \in {"jcreate", "jheader"} /\ handle = "none"
                     \/ phase = "jappend" /\ handle = "open"
  /\ op = "commit" => \/ phase \in {"jsync", "remove", "dirsync"} /\ handle = "open"
                      \/ phase \in {"flush", "truncate", "fsync"}
  /\ op = "rollback" =>
       \/ phase \in {"replay", "rtruncate", "rsync", "remove", "dirsync"} /\ handle = "open"
       \/ phase = "rbtruncate" /\ handle = "none"
  /\ op = "close" => phase \in {"flush", "truncate", "fsync"}

\* The transaction the engine and the pager agree on.
Transaction ==
  /\ inTxn = active
  /\ op \in {"write", "commit", "rollback"} => active
  /\ ~Up \/ op = "close" => ~active
  /\ active => startCount = committed.n /\ startCount <= count
  /\ Up /\ ~active => count = committed.n /\ dirty = {}

\* The header and the whole records of journal j are true of the committed
\* database.
Truthful(j) ==
  j.hdr => /\ j.pages = committed.n
           /\ \A i \in 1..Len(j.recs) :
                j.recs[i].ok => /\ j.recs[i].id < committed.n
                                /\ j.recs[i].data = committed.img[j.recs[i].id]

JournalInv ==
  /\ handle # "closed"
  /\ handle = "open" => active /\ jfile.hdr /\ \A i \in 1..Len(jfile.recs) : jfile.recs[i].ok
  /\ Up /\ handle = "none" => ~jfile.hdr
  /\ jfile.hdr /\ phase # "dirsync" => jex
  /\ phase = "dirsync" => ~jex
  /\ phase = "jheader" => jex
  /\ phase \in {"rtruncate", "rsync", "remove"} => jfile.hdr
  /\ phase = "stat" => ~jfile.hdr
  /\ jdur <= Units(jfile)
  /\ PowerLoss /\ ~Up /\ jfile.hdr => jdur = Units(jfile)
  /\ PowerLoss /\ ~Up /\ jfile.hdr /\ phase # "dirsync" => dent
  /\ Truthful(jfile)

\* The cache over the file.
CacheInv ==
  /\ ~Up => cache = NoCache /\ dirty = {}
  /\ \A p \in Page :
       /\ cache[p] # Absent => p < count
       /\ cache[p] # Absent /\ p \notin dirty => cache[p] = db[p]
       /\ Up /\ committed.n <= p /\ p < count => cache[p] # Absent
       /\ Up /\ op # "commit" /\ committed.n <= p /\ p < count => p \in dirty
       /\ p \in dirty /\ p < committed.n => handle = "open" /\ Journaled(jfile, p)
  /\ op = "write" => wpage \notin dirty /\ wpage < committed.n

\* A durable record restores page p.
Durable(p) ==
  jfile.hdr /\ (PowerLoss => dent) /\ \E i \in Records(jfile, p) : i < jdur

\* The pages of file d are the committed ones, or can be restored.
Shielded(d) == \A p \in Page : p < committed.n => d[p] = committed.img[p] \/ Durable(p)

\* A file of s pages d is the committed database.
Old(d, s) == s = committed.n /\ \A p \in Page : p < committed.n => d[p] = committed.img[p]

\* Nothing of a commit has reached the file, or a recovery has undone it.
AtRest ==
  \/ phase = "closed" /\ ~jfile.hdr
  \/ phase # "closed" /\ op \in {"none", "write", "rollback", "close"}
  \/ op = "commit" /\ phase = "jsync"
  \/ op = "open" /\ (phase \in {"remove", "dirsync", "stat"} \/ ~jfile.hdr)

FileInv ==
  /\ MinPages <= committed.n
  /\ \A p \in Page : p >= committed.n => committed.img[p] = Zero
  /\ committed.n <= size
  /\ PowerLoss => committed.n <= dsize
  /\ Shielded(db)
  /\ PowerLoss => Shielded(ddb)
  /\ AtRest => Old(db, size) /\ (PowerLoss => Old(ddb, dsize))

\* How far a recovery has come.
RecoveryInv ==
  /\ op \in {"none", "close"} => ri = 1
  /\ op = "open" =>
    /\ phase = "replay" /\ jfile.hdr =>
         /\ ri \in 1 .. Len(jfile.recs) + 1
         /\ \A i \in 1 .. (ri - 1) :
              jfile.recs[i].ok /\ db[jfile.recs[i].id] = committed.img[jfile.recs[i].id]
    /\ phase \in {"rtruncate", "rsync"} =>
         \A p \in Page : p < committed.n => db[p] = committed.img[p]
    /\ phase = "rsync" => size = committed.n

\* How far a commit has come.
CommitInv ==
  op = "commit" =>
    /\ handle = "open" /\ phase # "jsync" => jdur = Units(jfile) /\ (PowerLoss => dent)
    /\ phase \in {"truncate", "fsync", "remove", "dirsync"} => dirty = {}
    /\ phase \in {"fsync", "remove", "dirsync"} => size = count
    /\ phase \in {"remove", "dirsync"} /\ PowerLoss => ddb = db /\ dsize = size

SafeInv ==
  Steps /\ Transaction /\ JournalInv /\ CacheInv /\ FileInv /\ RecoveryInv /\ CommitInv

IInv == TypeInv /\ SafeInv

-----------------------------------------------------------------------------
(* Lemmas about recovery.                                                  *)

\* What a truthful journal and a shielded file recover is the committed
\* database.
LEMMA RecoveredCommitted ==
  ASSUME TypeOK, FileInv, NEW j \in JournalFile, Truthful(j), j.hdr,
         NEW d \in [Page -> Data], NEW s,
         \A p \in Page : p < committed.n => d[p] = committed.img[p] \/ Journaled(j, p)
  PROVE  Recovered(d, s, TRUE, j) = committed
<1>. DEFINE f == [p \in Page |-> IF Journaled(j, p) THEN PreImage(j, p) ELSE d[p]]
<1>1. ASSUME NEW p \in Page, p < committed.n PROVE f[p] = committed.img[p]
  <2>1. CASE ~Journaled(j, p)
    BY <1>1, <2>1
  <2>2. CASE Journaled(j, p)
    <3>1. PICK i \in Records(j, p) : PreImage(j, p) = j.recs[i].data
      BY <2>2, PreImageRecord
    <3>2. i \in 1..Len(j.recs) /\ j.recs[i].ok /\ j.recs[i].id = p
      BY RecordsType
    <3>3. PreImage(j, p) = committed.img[p]
      BY <3>1, <3>2 DEF Truthful
    <3>. QED
      BY <2>2, <3>3
  <2>. QED
    BY <2>1, <2>2
<1>2. committed \in [n : 0 .. MaxPages, img : [Page -> Data]]
      /\ \A p \in Page : p >= committed.n => committed.img[p] = Zero
  BY DEF TypeOK, FileInv
<1>3. Recovered(d, s, TRUE, j) = Image(committed.n, f)
  BY DEF Recovered, Truthful
<1>. HIDE DEF f
<1>4. [p \in Page |-> IF p < committed.n THEN f[p] ELSE Zero] = committed.img
  BY <1>1, <1>2, PagerAssumption DEF Page
<1>. QED
  BY <1>2, <1>3, <1>4 DEF Image

\* One page after a write and after a truncation.
LEMMA WriteAtPoint ==
  ASSUME NEW d \in [Page -> Data], NEW p \in Page, NEW x \in Data
  PROVE  \A q \in Page : WriteAt(d, p, x)[q] = IF q = p THEN x ELSE d[q]
  BY DEF WriteAt

LEMMA TruncatedPoint ==
  ASSUME NEW d \in [Page -> Data], NEW n \in 0..MaxPages
  PROVE  \A q \in Page : Truncated(d, n)[q] = IF q < n THEN d[q] ELSE Zero
  BY DEF Truncated

\* The next record to replay is true of the committed database.
LEMMA NextRecord ==
  ASSUME IInv, phase = "replay", jfile.hdr, MoreRecords
  PROVE  /\ ri \in 1..Len(jfile.recs) /\ jfile.recs[ri].ok
         /\ jfile.recs[ri].id \in Page /\ jfile.recs[ri].id < committed.n
         /\ jfile.recs[ri].data = committed.img[jfile.recs[ri].id]
         /\ committed.img[jfile.recs[ri].id] \in Data
         /\ Larger(size, jfile.recs[ri].id + 1) = size
<1>. USE DEF IInv, SafeInv, TypeInv, TypeOK
<1>1. ri \in 1..Len(jfile.recs) /\ jfile.recs[ri].ok
  BY JournalType DEF MoreRecords
<1>2. jfile.recs[ri].id \in Page
  BY <1>1, JournalType
<1>3. jfile.recs[ri].id < committed.n /\ jfile.recs[ri].data = committed.img[jfile.recs[ri].id]
  BY <1>1 DEF JournalInv, Truthful
<1>4. committed.n <= size /\ committed.n \in Int /\ size \in Int /\ jfile.recs[ri].id \in Int
  BY <1>2, ConstantTypes, MaxPagesNat DEF FileInv
<1>. QED
  BY <1>1, <1>2, <1>3, <1>4 DEF Larger

\* With nothing dirty, the view is the file.
LEMMA ViewClean ==
  ASSUME TypeInv, CacheInv, dirty = {}
  PROVE  /\ View.n = count
         /\ \A p \in Page : View.img[p] = IF p < count THEN db[p] ELSE Zero
  BY DEF TypeInv, TypeOK, CacheInv, View, Image

-----------------------------------------------------------------------------
(* Every step preserves the invariant.                                     *)

LEMMA OpenStep ==
  ASSUME IInv, TypeInv', Reliable, Open
  PROVE  SafeInv'
<1>. USE MaxPagesNat DEF IInv, SafeInv, TypeInv, TypeOK, Open, disk, jvars, mem
<1>1. Steps'
  BY DEF Steps, JournalInv
<1>2. Transaction'
  BY DEF Transaction, Steps, JournalInv, Up
<1>3. JournalInv'
  BY DEF JournalInv, Steps, Transaction, Up, Truthful, Units
<1>4. CacheInv'
  BY DEF CacheInv, Steps, Transaction, JournalInv, Up, Journaled, NoCache, Cached
<1>5. FileInv'
  BY DEF FileInv, Steps, Transaction, JournalInv, CacheInv, Up, Shielded, Durable, Old, AtRest, Truthful, MinPages
<1>6. RecoveryInv'
  BY DEF RecoveryInv, Steps, Transaction, JournalInv, FileInv, Truthful
<1>7. CommitInv'
  BY DEF CommitInv, Steps, Transaction, JournalInv, CacheInv, Units
<1>. QED
  BY <1>1, <1>2, <1>3, <1>4, <1>5, <1>6, <1>7 DEF SafeInv

LEMMA ReplayRefusedStep ==
  ASSUME IInv, TypeInv', Reliable, ReplayRefused
  PROVE  SafeInv'
<1>. USE MaxPagesNat DEF IInv, SafeInv, TypeInv, TypeOK, ReplayRefused, ReturnError, ProcessEnds, Done, disk, jvars, mem
<1>1. Steps'
  BY DEF Steps, JournalInv
<1>2. Transaction'
  BY DEF Transaction, Steps, JournalInv, Up
<1>3. JournalInv'
  BY DEF JournalInv, Steps, Transaction, Up, Truthful, Units
<1>4. CacheInv'
  BY DEF CacheInv, Steps, Transaction, JournalInv, Up, Journaled, NoCache, Cached
<1>5. FileInv'
  BY DEF FileInv, Steps, Transaction, JournalInv, CacheInv, Up, Shielded, Durable, Old, AtRest, Truthful, MinPages
<1>6. RecoveryInv'
  BY DEF RecoveryInv, Steps, Transaction, JournalInv, FileInv, Truthful
<1>7. CommitInv'
  BY DEF CommitInv, Steps, Transaction, JournalInv, CacheInv, Units
<1>. QED
  BY <1>1, <1>2, <1>3, <1>4, <1>5, <1>6, <1>7 DEF SafeInv

LEMMA ReplayRecordStep ==
  ASSUME IInv, TypeInv', Reliable, ReplayRecord
  PROVE  SafeInv'
<1>. DEFINE id == jfile.recs[ri].id
<1>1. /\ ri \in 1..Len(jfile.recs) /\ jfile.recs[ri].ok /\ id \in Page /\ id < committed.n
      /\ size' = size /\ committed.img[id] \in Data
      /\ db' = WriteAt(db, id, committed.img[id])
  BY NextRecord DEF ReplayRecord
<1>. HIDE DEF id
<1>2. \A p \in Page : db'[p] = IF p = id THEN committed.img[id] ELSE db[p]
  <2>. DEFINE x == committed.img[id]
  <2>1. db \in [Page -> Data] /\ x \in Data
    BY <1>1 DEF IInv, TypeInv, TypeOK
  <2>2. db' = WriteAt(db, id, x)
    BY <1>1
  <2>. HIDE DEF x
  <2>3. \A p \in Page : db'[p] = IF p = id THEN x ELSE db[p]
    BY <1>1, <2>1, <2>2, WriteAtPoint
  <2>. QED
    BY <2>3 DEF x
<1>3. ASSUME op = "rollback" PROVE \A p \in Page : db'[p] = db[p]
  BY <1>1, <1>2, <1>3 DEF IInv, SafeInv, FileInv, AtRest, Old, ReplayRecord
<1>. USE MaxPagesNat DEF IInv, SafeInv, TypeInv, TypeOK, ReplayRecord, jvars, mem
<1>4. Steps'
  BY DEF Steps
<1>5. Transaction'
  BY DEF Transaction, Steps, Up
<1>6. JournalInv'
  BY DEF JournalInv, Steps, Up, Truthful
<1>7. CacheInv'
  BY <1>1, <1>3 DEF CacheInv, Steps, Up, NoCache
<1>8. FileInv'
  BY <1>1, <1>2, <1>3 DEF FileInv, Steps, Shielded, Durable, Old, AtRest
<1>9. RecoveryInv'
  <2>1. ri' = ri + 1 /\ jfile' = jfile /\ committed' = committed /\ phase' = phase /\ op' = op
    OBVIOUS
  <2>2. ASSUME op = "open", NEW i \in 1..ri
        PROVE  jfile.recs[i].ok /\ db'[jfile.recs[i].id] = committed.img[jfile.recs[i].id]
    <3>1. CASE i = ri
      BY <1>1, <1>2, <3>1 DEF id
    <3>2. CASE i # ri
      <4>1. i \in 1..(ri - 1) /\ i \in 1..Len(jfile.recs)
        BY <1>1, <3>2
      <4>2. jfile.recs[i].id \in Page
        BY <4>1, JournalType
      <4>3. jfile.recs[i].ok /\ db[jfile.recs[i].id] = committed.img[jfile.recs[i].id]
        BY <2>2, <4>1 DEF RecoveryInv
      <4>. QED
        BY <1>2, <4>2, <4>3
    <3>. QED
      BY <3>1, <3>2
  <2>3. \A i \in 1..(ri' - 1) : i \in 1..ri
    BY <2>1
  <2>4. ri' \in 1..(Len(jfile.recs) + 1)
    BY <1>1, <2>1
  <2>. QED
    BY <2>1, <2>2, <2>3, <2>4 DEF RecoveryInv, Steps
<1>10. CommitInv'
  BY DEF CommitInv, Steps
<1>. QED
  BY <1>4, <1>5, <1>6, <1>7, <1>8, <1>9, <1>10 DEF SafeInv

LEMMA ReplayEndStep ==
  ASSUME IInv, TypeInv', Reliable, ReplayEnd
  PROVE  SafeInv'
<1>. USE MaxPagesNat DEF IInv, SafeInv, TypeInv, TypeOK, ReplayEnd, MoreRecords, Goto, disk, jvars, mem
<1>1. Steps'
  BY DEF Steps, JournalInv
<1>2. Transaction'
  BY DEF Transaction, Steps, JournalInv, Up
<1>3. JournalInv'
  BY DEF JournalInv, Steps, Transaction, Up, Truthful, Units
<1>4. CacheInv'
  BY DEF CacheInv, Steps, Transaction, JournalInv, Up, Journaled, NoCache, Cached
<1>5. FileInv'
  BY DEF FileInv, Steps, Transaction, JournalInv, CacheInv, Up, Shielded, Durable, Old, AtRest, Truthful, MinPages
<1>6. RecoveryInv'
  <2>1. ASSUME op = "open", NEW p \in Page, p < committed.n
        PROVE  db[p] = committed.img[p]
    <3>1. CASE db[p] = committed.img[p]
      BY <3>1
    <3>2. CASE \E i \in Records(jfile, p) : TRUE
      <4>1. PICK i \in Records(jfile, p) : TRUE
        BY <3>2
      <4>2. /\ i \in 1..Len(jfile.recs) /\ jfile.recs[i].id = p
            /\ \A k \in 1..i : jfile.recs[k].ok
        BY <4>1, RecordsType
      <4>3. ri \in 1..(Len(jfile.recs) + 1)
        BY <2>1 DEF RecoveryInv
      <4>4. i < ri
        BY <4>2, <4>3
      <4>. QED
        BY <2>1, <4>2, <4>3, <4>4 DEF RecoveryInv
    <3>. QED
      BY <2>1, <3>1, <3>2 DEF FileInv, Shielded, Durable
  <2>. QED
    BY <2>1 DEF RecoveryInv, Steps
<1>7. CommitInv'
  BY DEF CommitInv, Steps, Transaction, JournalInv, CacheInv, Units
<1>. QED
  BY <1>1, <1>2, <1>3, <1>4, <1>5, <1>6, <1>7 DEF SafeInv

LEMMA ReplayTruncateStep ==
  ASSUME IInv, TypeInv', Reliable, ReplayTruncate
  PROVE  SafeInv'
<1>1. jfile.pages = committed.n /\ op \in {"open", "rollback"}
  BY DEF IInv, SafeInv, TypeInv, TypeOK, JournalInv, Truthful, Steps, ReplayTruncate
<1>2. /\ size' = committed.n
      /\ \A p \in Page : db'[p] = IF p < committed.n THEN db[p] ELSE Zero
  BY <1>1, TruncatedPoint DEF IInv, TypeInv, TypeOK, ReplayTruncate
<1>3. \A p \in Page : p < committed.n => db[p] = committed.img[p]
  BY <1>1 DEF IInv, SafeInv, FileInv, AtRest, Old, RecoveryInv, ReplayTruncate
<1>. USE MaxPagesNat DEF IInv, SafeInv, TypeInv, TypeOK, ReplayTruncate, Goto, jvars, mem
<1>4. Steps'
  BY DEF Steps
<1>5. Transaction'
  BY DEF Transaction, Steps, Up
<1>6. JournalInv'
  BY DEF JournalInv, Steps, Up, Truthful
<1>7. CacheInv'
  <2>1. ASSUME NEW p \in Page, cache[p] # Absent, p \notin dirty
        PROVE  cache[p] = db[p] /\ p < committed.n
    BY <1>1, <2>1, ConstantTypes DEF CacheInv, Up, NoCache
  <2>. QED
    BY <1>2, <2>1 DEF CacheInv, Up
<1>8. FileInv'
  BY <1>1, <1>2, <1>3 DEF FileInv, Steps, JournalInv, Shielded, Durable, Old, AtRest
<1>9. RecoveryInv'
  BY <1>1, <1>2, <1>3 DEF RecoveryInv
<1>10. CommitInv'
  BY <1>1 DEF CommitInv
<1>. QED
  BY <1>4, <1>5, <1>6, <1>7, <1>8, <1>9, <1>10 DEF SafeInv

LEMMA ReplaySyncStep ==
  ASSUME IInv, TypeInv', Reliable, ReplaySync
  PROVE  SafeInv'
<1>. USE MaxPagesNat DEF IInv, SafeInv, TypeInv, TypeOK, ReplaySync, Goto, disk, jvars, mem
<1>1. Steps'
  BY DEF Steps, JournalInv
<1>2. Transaction'
  BY DEF Transaction, Steps, JournalInv, Up
<1>3. JournalInv'
  BY DEF JournalInv, Steps, Transaction, Up, Truthful, Units
<1>4. CacheInv'
  BY DEF CacheInv, Steps, Transaction, JournalInv, Up, Journaled, NoCache, Cached
<1>5. FileInv'
  <2>1. op \in {"open", "rollback"}
    BY DEF Steps
  <2>2. size = committed.n /\ \A p \in Page : p < committed.n => db[p] = committed.img[p]
    BY <2>1 DEF FileInv, AtRest, Old, RecoveryInv
  <2>. QED
    BY <2>1, <2>2 DEF FileInv, Shielded, Durable, Old, AtRest
<1>6. RecoveryInv'
  BY DEF RecoveryInv, Steps, Transaction, JournalInv, FileInv, Truthful
<1>7. CommitInv'
  BY DEF CommitInv, Steps, Transaction, JournalInv, CacheInv, Units
<1>. QED
  BY <1>1, <1>2, <1>3, <1>4, <1>5, <1>6, <1>7 DEF SafeInv

LEMMA RemoveStep ==
  ASSUME IInv, TypeInv', Reliable, Remove
  PROVE  SafeInv'
<1>. USE MaxPagesNat DEF IInv, SafeInv, TypeInv, TypeOK, Remove, Goto, disk, jvars, mem
<1>1. Steps'
  BY DEF Steps, JournalInv
<1>2. Transaction'
  BY DEF Transaction, Steps, JournalInv, Up
<1>3. JournalInv'
  BY DEF JournalInv, Steps, Transaction, Up, Truthful, Units
<1>4. CacheInv'
  BY DEF CacheInv, Steps, Transaction, JournalInv, Up, Journaled, NoCache, Cached
<1>5. FileInv'
  BY DEF FileInv, Steps, Transaction, JournalInv, CacheInv, Up, Shielded, Durable, Old, AtRest, Truthful, MinPages
<1>6. RecoveryInv'
  BY DEF RecoveryInv, Steps, Transaction, JournalInv, FileInv, Truthful
<1>7. CommitInv'
  BY DEF CommitInv, Steps, Transaction, JournalInv, CacheInv, Units
<1>. QED
  BY <1>1, <1>2, <1>3, <1>4, <1>5, <1>6, <1>7 DEF SafeInv

LEMMA OpenDirSyncStep ==
  ASSUME IInv, TypeInv', Reliable, OpenDirSync
  PROVE  SafeInv'
<1>. USE MaxPagesNat DEF IInv, SafeInv, TypeInv, TypeOK, OpenDirSync, At, SyncDir, Goto, disk, jvars, mem
<1>1. Steps'
  BY DEF Steps, JournalInv
<1>2. Transaction'
  BY DEF Transaction, Steps, JournalInv, Up
<1>3. JournalInv'
  BY EmptyJournalType DEF JournalInv, Steps, Transaction, Up, Truthful
<1>4. CacheInv'
  BY DEF CacheInv, Steps, Transaction, JournalInv, Up, Journaled, NoCache, Cached
<1>5. FileInv'
  BY DEF FileInv, Steps, Transaction, JournalInv, CacheInv, Up, Shielded, Durable, Old, AtRest, Truthful, MinPages
<1>6. RecoveryInv'
  BY DEF RecoveryInv, Steps, Transaction, JournalInv, FileInv, Truthful
<1>7. CommitInv'
  BY DEF CommitInv, Steps, Transaction, JournalInv, CacheInv, Units
<1>. QED
  BY <1>1, <1>2, <1>3, <1>4, <1>5, <1>6, <1>7 DEF SafeInv

LEMMA StatStep ==
  ASSUME IInv, TypeInv', Reliable, Stat
  PROVE  SafeInv'
<1>. USE MaxPagesNat DEF IInv, SafeInv, TypeInv, TypeOK, Stat, Done, disk, jvars, mem
<1>1. Steps'
  BY DEF Steps, JournalInv
<1>2. Transaction'
  <2>1. size = committed.n /\ MinPages <= size
    BY DEF FileInv, AtRest, Old, JournalInv, Steps
  <2>. QED
    BY <2>1 DEF Transaction, Steps, Up, Larger, MinPages
<1>3. JournalInv'
  BY DEF JournalInv, Steps, Transaction, Up, Truthful, Units
<1>4. CacheInv'
  <2>1. size = committed.n /\ MinPages <= size
    BY DEF FileInv, AtRest, Old, JournalInv, Steps
  <2>2. size .. (MinPages - 1) = {} /\ count' = committed.n
    BY <2>1 DEF Larger, MinPages
  <2>. QED
    BY <2>2 DEF CacheInv, Up
<1>5. FileInv'
  BY DEF FileInv, Steps, Transaction, JournalInv, CacheInv, Up, Shielded, Durable, Old, AtRest, Truthful, MinPages
<1>6. RecoveryInv'
  BY DEF RecoveryInv, Steps, Transaction, JournalInv, FileInv, Truthful
<1>7. CommitInv'
  BY DEF CommitInv, Steps, Transaction, JournalInv, CacheInv, Units
<1>. QED
  BY <1>1, <1>2, <1>3, <1>4, <1>5, <1>6, <1>7 DEF SafeInv

LEMMA BeginStep ==
  ASSUME IInv, TypeInv', Reliable, Begin
  PROVE  SafeInv'
<1>. USE MaxPagesNat DEF IInv, SafeInv, TypeInv, TypeOK, Begin, disk, jvars, mem
<1>1. Steps'
  BY DEF Steps, JournalInv
<1>2. Transaction'
  BY DEF Transaction, Steps, JournalInv, Up
<1>3. JournalInv'
  BY DEF JournalInv, Steps, Transaction, Up, Truthful, Units
<1>4. CacheInv'
  BY DEF CacheInv, Steps, Transaction, JournalInv, Up, Journaled, NoCache, Cached
<1>5. FileInv'
  BY DEF FileInv, Steps, Transaction, JournalInv, CacheInv, Up, Shielded, Durable, Old, AtRest, Truthful, MinPages
<1>6. RecoveryInv'
  BY DEF RecoveryInv, Steps, Transaction, JournalInv, FileInv, Truthful
<1>7. CommitInv'
  BY DEF CommitInv, Steps, Transaction, JournalInv, CacheInv, Units
<1>. QED
  BY <1>1, <1>2, <1>3, <1>4, <1>5, <1>6, <1>7 DEF SafeInv

LEMMA GetStep ==
  ASSUME IInv, TypeInv', Reliable, NEW p \in Page, Get(p)
  PROVE  SafeInv'
<1>. USE MaxPagesNat DEF IInv, SafeInv, TypeInv, TypeOK, Get, disk, jvars, mem
<1>1. Steps'
  BY DEF Steps, JournalInv
<1>2. Transaction'
  BY DEF Transaction, Steps, JournalInv, Up
<1>3. JournalInv'
  BY DEF JournalInv, Steps, Transaction, Up, Truthful, Units
<1>4. CacheInv'
  BY DEF CacheInv, Steps, Transaction, JournalInv, Up, Journaled, NoCache, Cached
<1>5. FileInv'
  BY DEF FileInv, Steps, Transaction, JournalInv, CacheInv, Up, Shielded, Durable, Old, AtRest, Truthful, MinPages
<1>6. RecoveryInv'
  BY DEF RecoveryInv, Steps, Transaction, JournalInv, FileInv, Truthful
<1>7. CommitInv'
  BY DEF CommitInv, Steps, Transaction, JournalInv, CacheInv, Units
<1>. QED
  BY <1>1, <1>2, <1>3, <1>4, <1>5, <1>6, <1>7 DEF SafeInv

LEMMA AllocateStep ==
  ASSUME IInv, TypeInv', Reliable, Allocate
  PROVE  SafeInv'
<1>. USE MaxPagesNat DEF IInv, SafeInv, TypeInv, TypeOK, Allocate, disk, jvars, mem
<1>1. Steps'
  BY DEF Steps, JournalInv
<1>2. Transaction'
  BY DEF Transaction, Steps, JournalInv, Up
<1>3. JournalInv'
  BY DEF JournalInv, Steps, Transaction, Up, Truthful, Units
<1>4. CacheInv'
  <2>1. count \in Page /\ committed.n <= count /\ committed.n \in Int
    BY PagerAssumption DEF Page, Transaction
  <2>2. \A p \in Page : cache'[p] = IF p = count THEN Zero ELSE cache[p]
    BY <2>1
  <2>3. cache[count] = Absent /\ Zero # Absent /\ Up
    BY <2>1, PagerAssumption DEF CacheInv, Up, Steps
  <2>4. ASSUME NEW p \in Page, p < count' PROVE p < count \/ p = count
    BY <2>4, ConstantTypes
  <2>5. ASSUME NEW p \in Page, p < count PROVE p < count'
    BY <2>5, ConstantTypes
  <2>6. count < count' /\ ~(count < committed.n)
    BY <2>1
  <2>. QED
    BY <2>1, <2>2, <2>3, <2>4, <2>5, <2>6 DEF CacheInv, Up
<1>5. FileInv'
  BY DEF FileInv, Steps, Transaction, JournalInv, CacheInv, Up, Shielded, Durable, Old, AtRest, Truthful, MinPages
<1>6. RecoveryInv'
  BY DEF RecoveryInv, Steps, Transaction, JournalInv, FileInv, Truthful
<1>7. CommitInv'
  BY DEF CommitInv, Steps, Transaction, JournalInv, CacheInv, Units
<1>. QED
  BY <1>1, <1>2, <1>3, <1>4, <1>5, <1>6, <1>7 DEF SafeInv

LEMMA WriteUnjournaledStep ==
  ASSUME IInv, TypeInv', Reliable, NEW p \in Page, NEW x \in Data, WriteUnjournaled(p, x)
  PROVE  SafeInv'
<1>. USE MaxPagesNat DEF IInv, SafeInv, TypeInv, TypeOK, WriteUnjournaled, NeedsJournal, disk, jvars, mem
<1>1. Steps'
  BY DEF Steps, JournalInv
<1>2. Transaction'
  BY DEF Transaction, Steps, JournalInv, Up
<1>3. JournalInv'
  BY DEF JournalInv, Steps, Transaction, Up, Truthful, Units
<1>4. CacheInv'
  BY DEF CacheInv, Steps, Transaction, JournalInv, Up, Journaled, NoCache, Cached
<1>5. FileInv'
  BY DEF FileInv, Steps, Transaction, JournalInv, CacheInv, Up, Shielded, Durable, Old, AtRest, Truthful, MinPages
<1>6. RecoveryInv'
  BY DEF RecoveryInv, Steps, Transaction, JournalInv, FileInv, Truthful
<1>7. CommitInv'
  BY DEF CommitInv, Steps, Transaction, JournalInv, CacheInv, Units
<1>. QED
  BY <1>1, <1>2, <1>3, <1>4, <1>5, <1>6, <1>7 DEF SafeInv

LEMMA WriteJournaledStep ==
  ASSUME IInv, TypeInv', Reliable, NEW p \in Page, WriteJournaled(p)
  PROVE  SafeInv'
<1>. USE MaxPagesNat DEF IInv, SafeInv, TypeInv, TypeOK, WriteJournaled, NeedsJournal, disk, jvars, mem
<1>1. Steps'
  BY DEF Steps, JournalInv
<1>2. Transaction'
  BY DEF Transaction, Steps, JournalInv, Up
<1>3. JournalInv'
  BY DEF JournalInv, Steps, Transaction, Up, Truthful, Units
<1>4. CacheInv'
  BY DEF CacheInv, Steps, Transaction, JournalInv, Up, Journaled, NoCache, Cached
<1>5. FileInv'
  BY DEF FileInv, Steps, Transaction, JournalInv, CacheInv, Up, Shielded, Durable, Old, AtRest, Truthful, MinPages
<1>6. RecoveryInv'
  BY DEF RecoveryInv, Steps, Transaction, JournalInv, FileInv, Truthful
<1>7. CommitInv'
  BY DEF CommitInv, Steps, Transaction, JournalInv, CacheInv, Units
<1>. QED
  BY <1>1, <1>2, <1>3, <1>4, <1>5, <1>6, <1>7 DEF SafeInv

LEMMA JournalCreateStep ==
  ASSUME IInv, TypeInv', Reliable, JournalCreate
  PROVE  SafeInv'
<1>. USE MaxPagesNat DEF IInv, SafeInv, TypeInv, TypeOK, JournalCreate, Goto, disk, jvars, mem
<1>1. Steps'
  BY DEF Steps, JournalInv
<1>2. Transaction'
  BY DEF Transaction, Steps, JournalInv, Up
<1>3. JournalInv'
  BY EmptyJournalType DEF JournalInv, Steps, Transaction, Up, Truthful
<1>4. CacheInv'
  BY DEF CacheInv, Steps, Transaction, JournalInv, Up, Journaled, NoCache, Cached
<1>5. FileInv'
  BY DEF FileInv, Steps, Transaction, JournalInv, CacheInv, Up, Shielded, Durable, Old, AtRest, Truthful, MinPages
<1>6. RecoveryInv'
  BY DEF RecoveryInv, Steps, Transaction, JournalInv, FileInv, Truthful
<1>7. CommitInv'
  BY DEF CommitInv, Steps, Transaction, JournalInv, CacheInv, Units
<1>. QED
  BY <1>1, <1>2, <1>3, <1>4, <1>5, <1>6, <1>7 DEF SafeInv

LEMMA JournalHeaderStep ==
  ASSUME IInv, TypeInv', Reliable, JournalHeader
  PROVE  SafeInv'
<1>. USE MaxPagesNat DEF IInv, SafeInv, TypeInv, TypeOK, JournalHeader, Goto, disk, jvars, mem
<1>1. Steps'
  BY DEF Steps, JournalInv
<1>2. Transaction'
  BY DEF Transaction, Steps, JournalInv, Up
<1>3. JournalInv'
  <2>1. startCount \in Nat /\ startCount = committed.n
    BY DEF Transaction, Steps
  <2>2. /\ jfile'.hdr /\ jfile'.recs = << >> /\ jfile'.pages = committed.n
        /\ Units(jfile') = 1
    BY <2>1, HeaderOnlyType
  <2>3. 1..Len(jfile'.recs) = {}
    BY <2>2
  <2>4. jdur = 0
    BY EmptyJournalType DEF JournalInv, Steps, Up, Units
  <2>. QED
    BY <2>2, <2>3, <2>4 DEF JournalInv, Steps, Transaction, Up, Truthful
<1>4. CacheInv'
  BY DEF CacheInv, Steps, Transaction, JournalInv, Up, Journaled, NoCache, Cached
<1>5. FileInv'
  BY DEF FileInv, Steps, Transaction, JournalInv, CacheInv, Up, Shielded, Durable, Old, AtRest, Truthful, MinPages
<1>6. RecoveryInv'
  BY DEF RecoveryInv, Steps, Transaction, JournalInv, FileInv, Truthful
<1>7. CommitInv'
  BY DEF CommitInv, Steps, Transaction, JournalInv, CacheInv, Units
<1>. QED
  BY <1>1, <1>2, <1>3, <1>4, <1>5, <1>6, <1>7 DEF SafeInv

LEMMA JournalAppendStep ==
  ASSUME IInv, TypeInv', Reliable, NEW x \in Data, JournalAppend(x)
  PROVE  SafeInv'
<1>1. cache[wpage] \in Data /\ jfile \in JournalFile /\ wpage \in Page /\ jfile' \in JournalFile
  BY DEF IInv, SafeInv, TypeInv, TypeOK, Cached, Steps, JournalAppend
<1>2. jfile' = AppendUnit(jfile, wpage, cache[wpage], TRUE)
  BY DEF AppendRecord, JournalAppend
<1>. DEFINE n == Len(jfile.recs)
            r == [id |-> wpage, data |-> cache[wpage], ok |-> TRUE]
<1>3. n \in Nat
  BY <1>1, JournalType
<1>4. /\ jfile'.hdr = jfile.hdr /\ jfile'.pages = jfile.pages
      /\ Len(jfile'.recs) = n + 1
      /\ \A i \in 1..n : jfile'.recs[i] = jfile.recs[i]
      /\ jfile'.recs[n + 1] = r
  BY <1>1, <1>2, AppendLemma
<1>5. r.id = wpage /\ r.ok /\ r.data = cache[wpage]
  OBVIOUS
<1>6. \A i \in 1..(n + 1) : i \in 1..n \/ i = n + 1
  BY <1>3
<1>. HIDE DEF n, r
<1>7. /\ op = "write" /\ phase = "jappend" /\ handle = "open" /\ active /\ jfile.hdr /\ jex
      /\ Up /\ \A i \in 1..n : jfile.recs[i].ok
  BY DEF IInv, SafeInv, TypeInv, TypeOK, Steps, Transaction, JournalInv, JournalAppend, Up, n
<1>8. Old(db, size) /\ (PowerLoss => Old(ddb, dsize)) /\ wpage < committed.n /\ wpage \notin dirty
  BY <1>7 DEF IInv, SafeInv, CacheInv, FileInv, AtRest
<1>9. cache[wpage] = committed.img[wpage]
  BY <1>1, <1>7, <1>8 DEF IInv, SafeInv, TypeInv, Cached, CacheInv, Old
<1>10. ASSUME NEW p \in Page
       PROVE  \A i \in Records(jfile, p) : i \in Records(jfile', p)
  <2>1. \A i \in Records(jfile, p) : i <= n => i \in Records(jfile', p)
    BY <1>1, <1>3, <1>4, RecordsKept DEF n
  <2>2. \A i \in Records(jfile, p) : i \in 1..n
    BY <1>1, RecordsType DEF n
  <2>. QED
    BY <1>3, <2>1, <2>2
<1>11. n + 1 \in Records(jfile', wpage)
  <2>1. \A k \in 1..(n + 1) : jfile'.recs[k].ok
    BY <1>4, <1>5, <1>6, <1>7
  <2>2. n + 1 \in 1..Len(jfile'.recs)
    BY <1>3, <1>4
  <2>3. n + 1 \in Valid(jfile')
    BY <2>1, <2>2 DEF Valid
  <2>. QED
    BY <2>3, <1>4, <1>5 DEF Records
<1>. USE MaxPagesNat DEF IInv, SafeInv, TypeInv, TypeOK, JournalAppend, Done, disk
<1>12. Steps'
  BY <1>7 DEF Steps
<1>13. Transaction'
  BY <1>7 DEF Transaction, Up
<1>14. JournalInv'
  <2>1. /\ handle' = "open" /\ active' /\ jfile'.hdr /\ jex' /\ phase' = "ready" /\ jdur' = jdur
        /\ committed' = committed /\ Up'
    BY <1>4, <1>7 DEF Up
  <2>2. \A i \in 1..Len(jfile'.recs) : jfile'.recs[i].ok
    BY <1>4, <1>5, <1>6, <1>7
  <2>3. jdur <= Units(jfile')
    <3>1. jdur <= n + 1 /\ jdur \in Nat
      BY <1>7 DEF JournalInv, Units, n
    <3>2. Units(jfile') = n + 2
      BY <1>3, <1>4, <1>7 DEF Units
    <3>. QED
      BY <1>3, <3>1, <3>2
  <2>4. Truthful(jfile)'
    <3>1. jfile.pages = committed.n
          /\ \A i \in 1..n : jfile.recs[i].id < committed.n
                            /\ jfile.recs[i].data = committed.img[jfile.recs[i].id]
      BY <1>7 DEF JournalInv, Truthful, n
    <3>. QED
      BY <1>4, <1>5, <1>6, <1>8, <1>9, <2>1, <3>1 DEF Truthful
  <2>. QED
    BY <2>1, <2>2, <2>3, <2>4 DEF JournalInv
<1>15. CacheInv'
  <2>1. ASSUME NEW p \in Page, p \in dirty', p < committed.n PROVE Journaled(jfile', p)
    <3>1. CASE p = wpage
      BY <1>11, <3>1 DEF Journaled
    <3>2. CASE p # wpage
      BY <1>7, <1>10, <2>1, <3>2 DEF CacheInv, Journaled
    <3>. QED
      BY <3>1, <3>2
  <2>2. /\ op' = "none" /\ Up' /\ handle' = "open" /\ committed' = committed /\ count' = count
        /\ db' = db /\ x # Absent /\ cache[wpage] # Absent
        /\ dirty' = dirty \cup {wpage}
        /\ \A p \in Page : cache'[p] = IF p = wpage THEN x ELSE cache[p]
    BY <1>1, <1>7, PagerAssumption DEF Up
  <2>3. \A p \in Page :
          /\ cache'[p] # Absent => p < count
          /\ cache'[p] # Absent /\ p \notin dirty' => cache'[p] = db[p]
          /\ committed.n <= p /\ p < count => cache'[p] # Absent /\ p \in dirty'
    BY <1>1, <1>7, <2>2 DEF CacheInv
  <2>. QED
    BY <2>1, <2>2, <2>3 DEF CacheInv
<1>16. FileInv'
  <2>1. Old(db, size)' /\ (PowerLoss => Old(ddb, dsize))' /\ committed' = committed
    BY <1>8 DEF Old
  <2>2. size = committed.n /\ (PowerLoss => dsize = committed.n)
    BY <1>8 DEF Old
  <2>. QED
    BY <2>1, <2>2 DEF FileInv, Old, Shielded
<1>17. RecoveryInv'
  BY DEF RecoveryInv
<1>18. CommitInv'
  BY DEF CommitInv
<1>. QED
  BY <1>12, <1>13, <1>14, <1>15, <1>16, <1>17, <1>18 DEF SafeInv

LEMMA CommitStep ==
  ASSUME IInv, TypeInv', Reliable, Commit
  PROVE  SafeInv'
<1>. USE MaxPagesNat DEF IInv, SafeInv, TypeInv, TypeOK, Commit, disk, jvars, mem
<1>1. Steps'
  BY DEF Steps, JournalInv
<1>2. Transaction'
  BY DEF Transaction, Steps, JournalInv, Up
<1>3. JournalInv'
  BY DEF JournalInv, Steps, Transaction, Up, Truthful, Units
<1>4. CacheInv'
  BY DEF CacheInv, Steps, Transaction, JournalInv, Up, Journaled, NoCache, Cached
<1>5. FileInv'
  BY DEF FileInv, Steps, Transaction, JournalInv, CacheInv, Up, Shielded, Durable, Old, AtRest, Truthful, MinPages
<1>6. RecoveryInv'
  BY DEF RecoveryInv, Steps, Transaction, JournalInv, FileInv, Truthful
<1>7. CommitInv'
  BY DEF CommitInv, Steps, Transaction, JournalInv, CacheInv, Units
<1>. QED
  BY <1>1, <1>2, <1>3, <1>4, <1>5, <1>6, <1>7 DEF SafeInv

LEMMA JournalSyncStep ==
  ASSUME IInv, TypeInv', Reliable, JournalSync
  PROVE  SafeInv'
<1>. USE MaxPagesNat DEF IInv, SafeInv, TypeInv, TypeOK, JournalSync, Goto, disk, jvars, mem
<1>1. Steps'
  BY DEF Steps, JournalInv
<1>2. Transaction'
  BY DEF Transaction, Steps, JournalInv, Up
<1>3. JournalInv'
  BY DEF JournalInv, Steps, Transaction, Up, Truthful, Units
<1>4. CacheInv'
  BY DEF CacheInv, Steps, Transaction, JournalInv, Up, Journaled, NoCache, Cached
<1>5. FileInv'
  BY DEF FileInv, Steps, Transaction, JournalInv, CacheInv, Up, Shielded, Durable, Old, AtRest, Truthful, MinPages
<1>6. RecoveryInv'
  BY DEF RecoveryInv, Steps, Transaction, JournalInv, FileInv, Truthful
<1>7. CommitInv'
  BY DEF CommitInv, Steps, JournalInv, Reliable
<1>. QED
  BY <1>1, <1>2, <1>3, <1>4, <1>5, <1>6, <1>7 DEF SafeInv

LEMMA FlushPageStep ==
  ASSUME IInv, TypeInv', Reliable, NEW p \in Page, FlushPage(p)
  PROVE  SafeInv'
<1>11. op = "commit" /\ Up /\ db \in [Page -> Data] /\ cache[p] \in Data /\ p \in dirty
  BY DEF IInv, SafeInv, TypeInv, TypeOK, Steps, Transaction, Up, Cached, FlushPage
<1>12. \A q \in Page : db'[q] = IF q = p THEN cache[p] ELSE db[q]
  <2>. DEFINE x == cache[p]
  <2>1. x \in Data /\ db' = WriteAt(db, p, x)
    BY <1>11 DEF FlushPage
  <2>. HIDE DEF x
  <2>2. \A q \in Page : db'[q] = IF q = p THEN x ELSE db[q]
    BY <1>11, <2>1, WriteAtPoint
  <2>. QED
    BY <2>2 DEF x
<1>. USE MaxPagesNat DEF IInv, SafeInv, TypeInv, TypeOK, FlushPage, disk, jvars, mem
<1>1. Steps'
  BY DEF Steps, JournalInv
<1>2. Transaction'
  BY DEF Transaction, Steps, JournalInv, Up
<1>3. JournalInv'
  BY DEF JournalInv, Steps, Transaction, Up, Truthful, Units
<1>4. CacheInv'
  <2>. QED
    BY <1>11, <1>12 DEF CacheInv, Up
<1>5. FileInv'
  <2>1. ASSUME p < committed.n PROVE Durable(p)
    <3>1. handle = "open" /\ Journaled(jfile, p) /\ jfile.hdr
      BY <1>11, <2>1 DEF CacheInv, JournalInv
    <3>2. jdur = Len(jfile.recs) + 1 /\ (PowerLoss => dent)
      BY <1>11, <3>1 DEF CommitInv, Units
    <3>3. \A i \in Records(jfile, p) : i < jdur
      BY <3>2, RecordsType, JournalType
    <3>. QED
      BY <3>1, <3>2, <3>3 DEF Durable, Journaled
  <2>2. Larger(size, p + 1) >= size
    BY LargerType, ConstantTypes
  <2>3. \A q \in Page : Durable(q) => Durable(q)'
    BY DEF Durable
  <2>4. Shielded(db)'
    BY <1>12, <2>1, <2>3 DEF FileInv, Shielded
  <2>5. PowerLoss => Shielded(ddb)'
    BY <2>3 DEF FileInv, Shielded
  <2>6. ~AtRest' /\ committed.n \in Nat /\ size \in Nat /\ Larger(size, p + 1) \in Nat
    BY <1>11, LargerType, ConstantTypes DEF AtRest
  <2>. QED
    BY <2>2, <2>4, <2>5, <2>6 DEF FileInv
<1>6. RecoveryInv'
  BY DEF RecoveryInv, Steps, Transaction, JournalInv, FileInv, Truthful
<1>7. CommitInv'
  BY DEF CommitInv, Steps, Transaction, JournalInv, CacheInv, Units
<1>. QED
  BY <1>1, <1>2, <1>3, <1>4, <1>5, <1>6, <1>7 DEF SafeInv

LEMMA FlushEndStep ==
  ASSUME IInv, TypeInv', Reliable, FlushEnd
  PROVE  SafeInv'
<1>. USE MaxPagesNat DEF IInv, SafeInv, TypeInv, TypeOK, FlushEnd, Goto, disk, jvars, mem
<1>1. Steps'
  BY DEF Steps, JournalInv
<1>2. Transaction'
  BY DEF Transaction, Steps, JournalInv, Up
<1>3. JournalInv'
  BY DEF JournalInv, Steps, Transaction, Up, Truthful, Units
<1>4. CacheInv'
  BY DEF CacheInv, Steps, Transaction, JournalInv, Up, Journaled, NoCache, Cached
<1>5. FileInv'
  BY DEF FileInv, Steps, Transaction, JournalInv, CacheInv, Up, Shielded, Durable, Old, AtRest, Truthful, MinPages
<1>6. RecoveryInv'
  BY DEF RecoveryInv, Steps, Transaction, JournalInv, FileInv, Truthful
<1>7. CommitInv'
  BY DEF CommitInv, Steps, Transaction, JournalInv, CacheInv, Units
<1>. QED
  BY <1>1, <1>2, <1>3, <1>4, <1>5, <1>6, <1>7 DEF SafeInv

LEMMA FlushTruncateStep ==
  ASSUME IInv, TypeInv', Reliable, FlushTruncate
  PROVE  SafeInv'
<1>. USE MaxPagesNat DEF IInv, SafeInv, TypeInv, TypeOK, FlushTruncate, Goto, disk, jvars, mem
<1>1. Steps'
  BY DEF Steps, JournalInv
<1>2. Transaction'
  BY DEF Transaction, Steps, JournalInv, Up
<1>3. JournalInv'
  BY DEF JournalInv, Steps, Transaction, Up, Truthful, Units
<1>4. CacheInv'
  <2>1. \A q \in Page : db'[q] = IF q < count THEN db[q] ELSE Zero
    BY TruncatedPoint
  <2>. QED
    BY <2>1 DEF CacheInv, Steps, Up
<1>5. FileInv'
  <2>1. \A q \in Page : db'[q] = IF q < count THEN db[q] ELSE Zero
    BY TruncatedPoint
  <2>2. op \in {"commit", "close"} /\ Up /\ committed.n <= count /\ (op = "close" => count = committed.n)
    BY DEF Steps, Transaction, Up
  <2>3. \A q \in Page : q < committed.n => db'[q] = db[q]
    BY <2>1, <2>2, ConstantTypes
  <2>4. \A q \in Page : Durable(q) => Durable(q)'
    BY DEF Durable
  <2>5. Shielded(db)' /\ (PowerLoss => Shielded(ddb)')
    BY <2>3, <2>4 DEF FileInv, Shielded
  <2>6. AtRest' => op = "close"
    BY <2>2 DEF AtRest
  <2>7. op = "close" => Old(db, size)' /\ (PowerLoss => Old(ddb, dsize)')
    BY <2>2, <2>3 DEF FileInv, Old, AtRest
  <2>. QED
    BY <2>2, <2>5, <2>6, <2>7 DEF FileInv
<1>6. RecoveryInv'
  BY DEF RecoveryInv, Steps, Transaction, JournalInv, FileInv, Truthful
<1>7. CommitInv'
  BY DEF CommitInv, Steps, Transaction, JournalInv, CacheInv, Units
<1>. QED
  BY <1>1, <1>2, <1>3, <1>4, <1>5, <1>6, <1>7 DEF SafeInv

LEMMA FlushSyncStep ==
  ASSUME IInv, TypeInv', Reliable, FlushSync
  PROVE  SafeInv'
<1>. USE MaxPagesNat DEF IInv, SafeInv, TypeInv, TypeOK, FlushSync, Goto, CommitReturns, Done, ProcessEnds, disk, jvars, mem
<1>1. Steps'
  BY DEF Steps, JournalInv
<1>2. Transaction'
  <2>1. dirty = {} /\ Up
    BY DEF CommitInv, Transaction, Steps, Up
  <2>2. op = "commit" /\ handle = "none" => committed'.n = count
    BY <2>1, ViewClean
  <2>. QED
    BY <2>1, <2>2 DEF Transaction, Steps, JournalInv, Up
<1>3. JournalInv'
  BY DEF JournalInv, Steps, Transaction, Up, Truthful, Units
<1>4. CacheInv'
  <2>1. dirty = {} /\ Up
    BY DEF CommitInv, Transaction, Steps, Up
  <2>2. CASE op = "commit" /\ handle # "none"
    BY <2>1, <2>2 DEF CacheInv, Up
  <2>3. CASE op = "commit" /\ handle = "none"
    <3>1. committed'.n = count
      BY <2>1, <2>3, ViewClean
    <3>2. /\ cache' = cache /\ dirty' = {} /\ count' = count /\ db' = db
          /\ op' = "none" /\ Up' /\ committed'.n = count
      BY <2>1, <2>3, <3>1 DEF Up
    <3>3. ~\E p \in Page : committed'.n <= p /\ p < count
      BY <3>1, ConstantTypes
    <3>. QED
      BY <2>1, <3>2, <3>3 DEF CacheInv
  <2>4. CASE op = "close"
    BY <2>1, <2>4 DEF CacheInv, Up, NoCache
  <2>. QED
    BY <2>2, <2>3, <2>4
<1>5. FileInv'
  <2>1. dirty = {} /\ Up /\ (op = "commit" => size = count)
    BY DEF CommitInv, Transaction, Steps, Up
  <2>2. CASE op = "commit" /\ handle # "none"
    <3>1. ~AtRest' /\ committed' = committed
      BY <2>2 DEF AtRest
    <3>2. \A q \in Page : Durable(q) => Durable(q)'
      BY <2>2 DEF Durable
    <3>3. Shielded(db)' /\ Shielded(ddb)'
      BY <3>1, <3>2 DEF FileInv, Shielded
    <3>. QED
      BY <3>1, <3>3 DEF FileInv
  <2>3. CASE op = "commit" /\ handle = "none"
    <3>1. /\ committed'.n = count
          /\ \A p \in Page : committed'.img[p] = IF p < count THEN db[p] ELSE Zero
      BY <2>1, <2>3, ViewClean
    <3>2. Old(db, size)' /\ Old(ddb, dsize)'
      BY <2>1, <2>3, <3>1 DEF Old
    <3>3. MinPages <= committed'.n /\ committed'.n \in Nat
      <4>1. MinPages <= committed.n /\ committed.n <= count /\ MinPages \in Nat
        BY <2>3, ConstantTypes DEF FileInv, Transaction
      <4>. QED
        BY <3>1, <4>1
    <3>4. \A p \in Page : p >= committed'.n => committed'.img[p] = Zero
      BY <3>1, ConstantTypes
    <3>. QED
      BY <3>1, <3>2, <3>3, <3>4 DEF FileInv, Old, Shielded
  <2>4. CASE op = "close"
    <3>1. Old(db, size) /\ committed' = committed
      BY <2>4 DEF FileInv, AtRest
    <3>2. Old(db, size)' /\ Old(ddb, dsize)'
      BY <2>4, <3>1 DEF Old
    <3>. QED
      BY <3>1, <3>2 DEF FileInv, Old, Shielded
  <2>. QED
    BY <2>2, <2>3, <2>4
<1>6. RecoveryInv'
  BY DEF RecoveryInv, Steps, Transaction, JournalInv, FileInv, Truthful
<1>7. CommitInv'
  BY DEF CommitInv, Steps, Transaction, JournalInv, CacheInv, Units
<1>. QED
  BY <1>1, <1>2, <1>3, <1>4, <1>5, <1>6, <1>7 DEF SafeInv

LEMMA CommitDirSyncStep ==
  ASSUME IInv, TypeInv', Reliable, CommitDirSync
  PROVE  SafeInv'
<1>. USE MaxPagesNat DEF IInv, SafeInv, TypeInv, TypeOK, CommitDirSync, At, SyncDir, CommitReturns, Done, disk, jvars, mem
<1>1. Steps'
  BY DEF Steps, JournalInv
<1>2. Transaction'
  <2>1. dirty = {} /\ Up
    BY DEF CommitInv, Up
  <2>2. committed'.n = count
    BY <2>1, ViewClean
  <2>. QED
    BY <2>1, <2>2 DEF Transaction, Up
<1>3. JournalInv'
  BY EmptyJournalType DEF JournalInv, Steps, Transaction, Up, Truthful
<1>4. CacheInv'
  <2>1. dirty = {} /\ Up
    BY DEF CommitInv, Up
  <2>2. committed'.n = count
    BY <2>1, ViewClean
  <2>. QED
    BY <2>1, <2>2 DEF CacheInv, Up
<1>5. FileInv'
  <2>1. dirty = {} /\ Up /\ size = count /\ (PowerLoss => ddb = db /\ dsize = size)
    BY DEF CommitInv, Up
  <2>2. /\ committed'.n = count
        /\ \A p \in Page : committed'.img[p] = IF p < count THEN db[p] ELSE Zero
    BY <2>1, ViewClean
  <2>3. Old(db, size)' /\ (PowerLoss => Old(ddb, dsize)')
    BY <2>1, <2>2 DEF Old
  <2>4. MinPages <= committed'.n /\ committed'.n \in Nat
    <3>1. MinPages <= committed.n /\ committed.n <= count /\ MinPages \in Nat
      BY ConstantTypes DEF FileInv, Transaction
    <3>. QED
      BY <2>2, <3>1
  <2>5. \A p \in Page : p >= committed'.n => committed'.img[p] = Zero
    BY <2>2, ConstantTypes
  <2>. QED
    BY <2>2, <2>3, <2>4, <2>5 DEF FileInv, Old, Shielded
<1>6. RecoveryInv'
  BY DEF RecoveryInv, Steps, Transaction, JournalInv, FileInv, Truthful
<1>7. CommitInv'
  BY DEF CommitInv, Steps, Transaction, JournalInv, CacheInv, Units
<1>. QED
  BY <1>1, <1>2, <1>3, <1>4, <1>5, <1>6, <1>7 DEF SafeInv

LEMMA RollbackStep ==
  ASSUME IInv, TypeInv', Reliable, Rollback
  PROVE  SafeInv'
<1>. USE MaxPagesNat DEF IInv, SafeInv, TypeInv, TypeOK, Rollback, disk, jvars, mem
<1>1. Steps'
  BY DEF Steps, JournalInv
<1>2. Transaction'
  BY DEF Transaction, Steps, JournalInv, Up
<1>3. JournalInv'
  BY DEF JournalInv, Steps, Transaction, Up, Truthful, Units
<1>4. CacheInv'
  BY DEF CacheInv, Steps, Transaction, JournalInv, Up, Journaled, NoCache, Cached
<1>5. FileInv'
  BY DEF FileInv, Steps, Transaction, JournalInv, CacheInv, Up, Shielded, Durable, Old, AtRest, Truthful, MinPages
<1>6. RecoveryInv'
  BY DEF RecoveryInv, Steps, Transaction, JournalInv, FileInv, Truthful
<1>7. CommitInv'
  BY DEF CommitInv, Steps, Transaction, JournalInv, CacheInv, Units
<1>. QED
  BY <1>1, <1>2, <1>3, <1>4, <1>5, <1>6, <1>7 DEF SafeInv

LEMMA RollbackTruncateStep ==
  ASSUME IInv, TypeInv', Reliable, RollbackTruncate
  PROVE  SafeInv'
<1>. USE MaxPagesNat DEF IInv, SafeInv, TypeInv, TypeOK, RollbackTruncate, RollbackReturns, Done, disk, jvars, mem
<1>1. Steps'
  BY DEF Steps, JournalInv
<1>2. Transaction'
  BY DEF Transaction, Steps, JournalInv, Up
<1>3. JournalInv'
  BY DEF JournalInv, Steps, Transaction, Up, Truthful, Units
<1>4. CacheInv'
  BY DEF CacheInv, Steps, Transaction, JournalInv, Up, Journaled, NoCache, Cached
<1>5. FileInv'
  <2>1. startCount = committed.n /\ op = "rollback"
    BY DEF Transaction, Steps
  <2>2. \A q \in Page : db'[q] = IF q < committed.n THEN db[q] ELSE Zero
    BY <2>1, TruncatedPoint
  <2>3. Old(db, size) /\ (PowerLoss => Old(ddb, dsize))
    BY <2>1 DEF FileInv, AtRest
  <2>4. Old(db, size)' /\ (PowerLoss => Old(ddb, dsize)')
    BY <2>1, <2>2, <2>3 DEF Old
  <2>. QED
    BY <2>4 DEF FileInv, Old, Shielded
<1>6. RecoveryInv'
  BY DEF RecoveryInv, Steps, Transaction, JournalInv, FileInv, Truthful
<1>7. CommitInv'
  BY DEF CommitInv, Steps, Transaction, JournalInv, CacheInv, Units
<1>. QED
  BY <1>1, <1>2, <1>3, <1>4, <1>5, <1>6, <1>7 DEF SafeInv

LEMMA RollbackDirSyncStep ==
  ASSUME IInv, TypeInv', Reliable, RollbackDirSync
  PROVE  SafeInv'
<1>. USE MaxPagesNat DEF IInv, SafeInv, TypeInv, TypeOK, RollbackDirSync, At, SyncDir, RollbackReturns, Done, disk, jvars, mem
<1>1. Steps'
  BY DEF Steps, JournalInv
<1>2. Transaction'
  <2>1. jfile.pages = committed.n
    BY DEF JournalInv, Steps, Truthful
  <2>. QED
    BY <2>1 DEF Transaction, Up
<1>3. JournalInv'
  BY EmptyJournalType DEF JournalInv, Steps, Transaction, Up, Truthful
<1>4. CacheInv'
  <2>1. jfile.pages = committed.n
    BY DEF JournalInv, Steps, Truthful
  <2>2. \A p \in Page : cache'[p] = Absent
    BY DEF NoCache
  <2>. QED
    BY <2>1, <2>2 DEF CacheInv, Up
<1>5. FileInv'
  BY DEF FileInv, Steps, Transaction, JournalInv, CacheInv, Up, Shielded, Durable, Old, AtRest, Truthful, MinPages
<1>6. RecoveryInv'
  BY DEF RecoveryInv, Steps, Transaction, JournalInv, FileInv, Truthful
<1>7. CommitInv'
  BY DEF CommitInv, Steps, Transaction, JournalInv, CacheInv, Units
<1>. QED
  BY <1>1, <1>2, <1>3, <1>4, <1>5, <1>6, <1>7 DEF SafeInv

LEMMA CloseStep ==
  ASSUME IInv, TypeInv', Reliable, Close
  PROVE  SafeInv'
<1>. USE MaxPagesNat DEF IInv, SafeInv, TypeInv, TypeOK, Close, disk, jvars, mem
<1>1. Steps'
  BY DEF Steps, JournalInv
<1>2. Transaction'
  BY DEF Transaction, Steps, JournalInv, Up
<1>3. JournalInv'
  BY DEF JournalInv, Steps, Transaction, Up, Truthful, Units
<1>4. CacheInv'
  BY DEF CacheInv, Steps, Transaction, JournalInv, Up, Journaled, NoCache, Cached
<1>5. FileInv'
  BY DEF FileInv, Steps, Transaction, JournalInv, CacheInv, Up, Shielded, Durable, Old, AtRest, Truthful, MinPages
<1>6. RecoveryInv'
  BY DEF RecoveryInv, Steps, Transaction, JournalInv, FileInv, Truthful
<1>7. CommitInv'
  BY DEF CommitInv, Steps, Transaction, JournalInv, CacheInv, Units
<1>. QED
  BY <1>1, <1>2, <1>3, <1>4, <1>5, <1>6, <1>7 DEF SafeInv

LEMMA IOErrorStep ==
  ASSUME IInv, TypeInv', Reliable, IOError
  PROVE  SafeInv'
<1>. USE MaxPagesNat DEF IInv, SafeInv, TypeInv, TypeOK, IOError, ReturnError, ProcessEnds, Done, Reliable, disk, jvars, mem
<1>1. Steps'
  BY DEF Steps, JournalInv
<1>2. Transaction'
  BY DEF Transaction, Steps, JournalInv, Up
<1>3. JournalInv'
  BY DEF JournalInv, Steps, Transaction, Up, Truthful, Units
<1>4. CacheInv'
  BY DEF CacheInv, Steps, Transaction, JournalInv, Up, Journaled, NoCache, Cached
<1>5. FileInv'
  BY DEF FileInv, Steps, Transaction, JournalInv, CacheInv, Up, Shielded, Durable, Old, AtRest, Truthful, MinPages
<1>6. RecoveryInv'
  BY DEF RecoveryInv, Steps, Transaction, JournalInv, FileInv, Truthful
<1>7. CommitInv'
  BY DEF CommitInv, Steps, Transaction, JournalInv, CacheInv, Units
<1>. QED
  BY <1>1, <1>2, <1>3, <1>4, <1>5, <1>6, <1>7 DEF SafeInv

LEMMA HandleClosedStep ==
  ASSUME IInv, TypeInv', Reliable, HandleClosed
  PROVE  SafeInv'
<1>. USE MaxPagesNat DEF IInv, SafeInv, TypeInv, TypeOK, HandleClosed, ReturnError, Done, ProcessEnds, disk, jvars, mem
<1>1. Steps'
  BY DEF Steps, JournalInv
<1>2. Transaction'
  BY DEF Transaction, Steps, JournalInv, Up
<1>3. JournalInv'
  BY DEF JournalInv, Steps, Transaction, Up, Truthful, Units
<1>4. CacheInv'
  BY DEF CacheInv, Steps, Transaction, JournalInv, Up, Journaled, NoCache, Cached
<1>5. FileInv'
  BY DEF FileInv, Steps, Transaction, JournalInv, CacheInv, Up, Shielded, Durable, Old, AtRest, Truthful, MinPages
<1>6. RecoveryInv'
  BY DEF RecoveryInv, Steps, Transaction, JournalInv, FileInv, Truthful
<1>7. CommitInv'
  BY DEF CommitInv, Steps, Transaction, JournalInv, CacheInv, Units
<1>. QED
  BY <1>1, <1>2, <1>3, <1>4, <1>5, <1>6, <1>7 DEF SafeInv

-----------------------------------------------------------------------------
(* What a crash leaves.                                                    *)

\* A torn record says nothing false, and hides no record before it.
LEMMA TornKept ==
  ASSUME NEW j \in JournalFile, NEW p \in Page, NEW d \in Data
  PROVE  LET t == AppendTorn(j, p, d) IN
         /\ t \in JournalFile /\ t.hdr = j.hdr /\ Units(t) >= Units(j)
         /\ Truthful(j) => Truthful(t)
         /\ \A q \in Page : Records(j, q) \subseteq Records(t, q)
<1>. DEFINE t == AppendTorn(j, p, d)
            r == [id |-> p, data |-> d, ok |-> FALSE]
            n == Len(j.recs)
<1>1. n \in Nat
  BY JournalType
<1>2. /\ t \in JournalFile /\ t.hdr = j.hdr /\ t.pages = j.pages
      /\ Len(t.recs) = n + 1
      /\ \A i \in 1..n : t.recs[i] = j.recs[i]
      /\ t.recs[n + 1] = r
  BY AppendLemma DEF AppendTorn
<1>3. ~r.ok
  OBVIOUS
<1>. HIDE DEF t, r, n
<1>4. \A i \in 1..(n + 1) : i \in 1..n \/ i = n + 1
  BY <1>1
<1>5. Units(t) >= Units(j)
  BY <1>1, <1>2 DEF Units, n
<1>6. ASSUME Truthful(j), j.hdr PROVE Truthful(t)
  <2>1. \A i \in 1..n : t.recs[i].ok => /\ t.recs[i].id < committed.n
                                        /\ t.recs[i].data = committed.img[t.recs[i].id]
    BY <1>2, <1>6 DEF Truthful, n
  <2>2. \A i \in 1..(n + 1) : t.recs[i].ok => /\ t.recs[i].id < committed.n
                                              /\ t.recs[i].data = committed.img[t.recs[i].id]
    BY <1>2, <1>3, <1>4, <2>1
  <2>. QED
    BY <1>2, <1>6, <2>2 DEF Truthful
<1>7. ASSUME NEW q \in Page PROVE Records(j, q) \subseteq Records(t, q)
  <2>1. \A i \in Records(j, q) : i <= n => i \in Records(t, q)
    BY <1>1, <1>2, RecordsKept DEF n
  <2>2. \A i \in Records(j, q) : i \in 1..n
    BY RecordsType DEF n
  <2>. QED
    BY <1>1, <2>1, <2>2
<1>8. ~j.hdr => Truthful(t)
  BY <1>2 DEF Truthful
<1>. QED
  BY <1>2, <1>5, <1>6, <1>7, <1>8 DEF t

\* A journal cut short says nothing false, and keeps the records of the part
\* that is left.
LEMMA PrefixKept ==
  ASSUME NEW j \in JournalFile, NEW k \in 1..Units(j), Truthful(j)
  PROVE  LET c == Prefix(j, k) IN
         /\ c \in JournalFile /\ j.hdr /\ Units(c) = k /\ Truthful(c)
         /\ \A q \in Page : \A i \in Records(j, q) : i < k => i \in Records(c, q)
<1>. DEFINE c == Prefix(j, k)
<1>0. Units(j) \in Nat /\ k \in 0..Units(j) /\ k > 0 /\ k - 1 \in Nat
  BY UnitsType
<1>1. /\ c \in JournalFile /\ Units(c) = k /\ c.hdr /\ j.hdr /\ c.pages = j.pages
      /\ Len(c.recs) = k - 1 /\ k - 1 <= Len(j.recs)
      /\ \A i \in 1..(k - 1) : c.recs[i] = j.recs[i]
  BY <1>0, PrefixLemma
<1>. HIDE DEF c
<1>2. Truthful(c)
  <2>1. \A i \in 1..(k - 1) : i \in 1..Len(j.recs)
    BY <1>0, <1>1, JournalType
  <2>. QED
    BY <1>1, <2>1 DEF Truthful
<1>3. ASSUME NEW q \in Page, NEW i \in Records(j, q), i < k PROVE i \in Records(c, q)
  <2>1. i <= k - 1
    BY <1>0, <1>3, RecordsType
  <2>. QED
    BY <1>0, <1>1, <2>1, RecordsKept
<1>. QED
  BY <1>1, <1>2, <1>3 DEF c

\* A crash keeps the durable records, and leaves no journal that lies.
LEMMA CrashedJournal ==
  ASSUME IInv, NEW j \in KilledJournals \cup LostJournals
  PROVE  /\ j \in JournalFile /\ Truthful(j) /\ jdur <= Units(j)
         /\ j.hdr => \A p \in Page : \A i \in Records(jfile, p) : i < jdur => i \in Records(j, p)
<1>1. /\ jfile \in JournalFile /\ Truthful(jfile) /\ jdur \in Nat /\ jdur <= Units(jfile)
      /\ Units(jfile) \in Nat
  BY UnitsType DEF IInv, SafeInv, TypeInv, TypeOK, JournalInv
<1>2. CASE j \in KilledJournals
  <2>1. CASE j = jfile
    BY <1>1, <2>1
  <2>2. CASE phase = "jappend" /\ j = AppendTorn(jfile, wpage, cache[wpage])
    <3>1. wpage \in Page /\ cache[wpage] \in Data
      BY <2>2 DEF IInv, SafeInv, TypeInv, TypeOK, Cached
    <3>2. /\ j \in JournalFile /\ Units(j) >= Units(jfile) /\ Truthful(j)
          /\ \A q \in Page : Records(jfile, q) \subseteq Records(j, q)
      BY <1>1, <2>2, <3>1, TornKept
    <3>3. Units(j) \in Nat
      BY <3>2, UnitsType
    <3>. QED
      BY <1>1, <3>2, <3>3
  <2>. QED
    BY <1>2, <2>1, <2>2 DEF KilledJournals
<1>3. CASE j \in LostJournals
  <2>1. CASE j = Prefix(jfile, 0) /\ jdur = 0
    <3>1. j = EmptyJournal
      BY <2>1 DEF Prefix
    <3>. QED
      BY <2>1, <3>1, EmptyJournalType DEF Truthful
  <2>2. CASE \E k \in 1..Units(jfile) : jdur <= k /\ j = Prefix(jfile, k)
    <3>1. PICK k \in 1..Units(jfile) : jdur <= k /\ j = Prefix(jfile, k)
      BY <2>2
    <3>2. /\ j \in JournalFile /\ Units(j) = k /\ Truthful(j)
          /\ \A q \in Page : \A i \in Records(jfile, q) : i < k => i \in Records(j, q)
      BY <1>1, <3>1, PrefixKept
    <3>3. \A q \in Page : \A i \in Records(jfile, q) : i < jdur => i < k
      BY <1>1, <3>1, RecordsType
    <3>. QED
      BY <3>1, <3>2, <3>3
  <2>3. CASE \E k \in 1..Units(jfile) : jdur <= k /\ j = AppendTorn(Prefix(jfile, k), 0, Zero)
    <3>1. PICK k \in 1..Units(jfile) : jdur <= k /\ j = AppendTorn(Prefix(jfile, k), 0, Zero)
      BY <2>3
    <3>. DEFINE c == Prefix(jfile, k)
    <3>2. /\ c \in JournalFile /\ Units(c) = k /\ Truthful(c)
          /\ \A q \in Page : \A i \in Records(jfile, q) : i < k => i \in Records(c, q)
      BY <1>1, <3>1, PrefixKept
    <3>. HIDE DEF c
    <3>3. j = AppendTorn(c, 0, Zero)
      BY <3>1 DEF c
    <3>4. /\ j \in JournalFile /\ Units(j) >= Units(c) /\ Truthful(j)
          /\ \A q \in Page : Records(c, q) \subseteq Records(j, q)
      BY <3>2, <3>3, TornKept, ConstantTypes, PagerAssumption
    <3>5. \A q \in Page : \A i \in Records(jfile, q) : i < jdur => i < k
      BY <1>1, <3>1, RecordsType
    <3>6. Units(j) \in Nat /\ jdur <= Units(j)
      BY <1>1, <3>1, <3>2, <3>4, UnitsType
    <3>. QED
      BY <3>2, <3>4, <3>5, <3>6
  <2>4. ASSUME NEW k \in jdur..Units(jfile)
        PROVE  (k = 0 /\ jdur = 0) \/ (k \in 1..Units(jfile) /\ jdur <= k)
    BY <1>1
  <2>5. ASSUME NEW k \in Larger(jdur, 1)..(Units(jfile) - 1)
        PROVE  k \in 1..Units(jfile) /\ jdur <= k
    BY <1>1 DEF Larger
  <2>. QED
    BY <1>3, <2>1, <2>2, <2>3, <2>4, <2>5 DEF LostJournals
<1>. QED
  BY <1>2, <1>3

\* A power loss harms no page that is not shielded by a durable record.
LEMMA CrashedFile ==
  ASSUME IInv, PowerLoss, NEW n \in {size, dsize}, NEW d \in LostFiles(n)
  PROVE  \A p \in Page : p < committed.n => d[p] = committed.img[p] \/ Durable(p)
<1>1. n \in 0..MaxPages /\ committed.n <= n /\ committed.n \in Nat
  BY MaxPagesNat DEF IInv, SafeInv, TypeInv, TypeOK, FileInv
<1>2. PICK e \in [Page -> Data] : /\ d = Truncated(e, n)
                                  /\ \A p \in Page : db[p] = ddb[p] => e[p] = db[p]
  BY DEF LostFiles
<1>3. \A p \in Page : p < committed.n => d[p] = e[p]
  BY <1>1, <1>2, TruncatedPoint, ConstantTypes, MaxPagesNat
<1>. QED
  BY <1>2, <1>3 DEF IInv, SafeInv, FileInv, Shielded

\* What is there after a crash: a file that the next Open can use, and a
\* journal that still restores what was shielded, or no journal.
LEMMA CrashLeaves ==
  ASSUME IInv, TypeInv', Crash
  PROVE  /\ db' \in [Page -> Data] /\ jfile' \in JournalFile
         /\ MinPages <= size' /\ size' \in Nat /\ MinPages \in Nat
         /\ (PowerLoss => ddb' = db' /\ dsize' = size')
         /\ committed.n <= size'
         /\ \A p \in Page : p < committed.n => db'[p] = committed.img[p] \/ Durable(p)
         /\ jfile'.hdr => /\ jex' /\ Truthful(jfile') /\ committed' = committed
                          /\ \A p \in Page : Durable(p) => Durable(p)'
         /\ ~jfile'.hdr => /\ committed'.n = size'
                           /\ \A p \in Page : committed'.img[p] = IF p < size' THEN db'[p] ELSE Zero
<1>. USE MaxPagesNat
<1>1. committed' = Recovered(db', size', jex', jfile')
  BY DEF Crash
<1>2. /\ db' \in [Page -> Data] /\ size' \in 0..MaxPages /\ jfile' \in JournalFile
      /\ jex' \in BOOLEAN /\ MinPages <= size' /\ size' \in Nat /\ MinPages \in Nat
      /\ (PowerLoss => ddb' = db' /\ dsize' = size')
  <2>1. size' \in {size, dsize} /\ (~PowerLoss => size' = size)
        /\ (PowerLoss => ddb' = db' /\ dsize' = size')
    BY DEF Crash, Kill, LosePower, disk
  <2>2. MinPages <= committed.n /\ committed.n <= size /\ (PowerLoss => committed.n <= dsize)
        /\ committed.n \in 0..MaxPages /\ size \in 0..MaxPages /\ dsize \in 0..MaxPages
    BY DEF IInv, SafeInv, FileInv, TypeInv, TypeOK
  <2>3. MinPages <= size'
    BY <2>1, <2>2, ConstantTypes
  <2>. QED
    BY <2>1, <2>2, <2>3, ConstantTypes DEF TypeInv, TypeOK
<1>3. ASSUME jfile'.hdr
      PROVE  /\ jex' /\ Truthful(jfile') /\ jdur <= jdur'
             /\ \A p \in Page : Durable(p) => Durable(p)'
  <2>1. jex' /\ jfile' \in KilledJournals \cup LostJournals
    BY <1>3, EmptyJournalType DEF Crash, Kill, LosePower
  <2>2. /\ Truthful(jfile') /\ jdur <= Units(jfile')
        /\ \A p \in Page : \A i \in Records(jfile, p) : i < jdur => i \in Records(jfile', p)
    BY <1>3, <2>1, CrashedJournal
  <2>3. jdur' = jdur \/ jdur' = Units(jfile')
    BY <2>1 DEF Crash, Kill, LosePower
  <2>4. jdur <= jdur' /\ jdur \in Nat /\ jdur' \in Nat
    BY <2>2, <2>3 DEF IInv, TypeInv, TypeOK
  <2>5. PowerLoss => dent'
    BY <2>1 DEF Crash, Kill, LosePower
  <2>6. ASSUME NEW p \in Page, Durable(p) PROVE Durable(p)'
    <3>1. PICK i \in Records(jfile, p) : i < jdur
      BY <2>6 DEF Durable
    <3>2. i \in Records(jfile', p) /\ i < jdur'
      BY <2>2, <2>4, <3>1, RecordsType DEF IInv, TypeInv, TypeOK
    <3>. QED
      BY <1>3, <2>5, <3>2 DEF Durable
  <2>. QED
    BY <2>1, <2>2, <2>4, <2>6
<1>4. \A p \in Page : p < committed.n => db'[p] = committed.img[p] \/ Durable(p)
  <2>1. CASE Kill
    BY <2>1 DEF Kill, disk, IInv, SafeInv, FileInv, Shielded
  <2>2. CASE LosePower
    BY <2>2, CrashedFile DEF LosePower
  <2>. QED
    BY <2>1, <2>2 DEF Crash
<1>5. ASSUME jfile'.hdr PROVE committed' = committed
  <2>1. \A p \in Page : Durable(p)' => Journaled(jfile', p)
    BY DEF Durable, Journaled
  <2>2. \A p \in Page : p < committed.n => db'[p] = committed.img[p] \/ Journaled(jfile', p)
    BY <1>3, <1>4, <1>5, <2>1
  <2>3. Recovered(db', size', TRUE, jfile') = committed
    BY <1>2, <1>3, <1>5, <2>2, RecoveredCommitted DEF IInv, SafeInv, TypeInv
  <2>. QED
    BY <1>1, <1>3, <1>5, <2>3
<1>6. ASSUME ~jfile'.hdr
      PROVE  /\ committed'.n = size'
             /\ \A p \in Page : committed'.img[p] = IF p < size' THEN db'[p] ELSE Zero
  <2>1. Larger(size', MinPages) = size'
    BY <1>2 DEF Larger
  <2>. QED
    BY <1>1, <1>6, <2>1 DEF Recovered, Image
<1>7. committed.n <= size'
  BY DEF IInv, SafeInv, FileInv, Crash, Kill, LosePower, disk
<1>. QED
  BY <1>2, <1>3, <1>4, <1>5, <1>6, <1>7

LEMMA CrashStep ==
  ASSUME IInv, TypeInv', Reliable, Crash
  PROVE  SafeInv'
<1>. USE MaxPagesNat
<1>1. /\ op' = "none" /\ phase' = "closed" /\ ri' = 1 /\ inTxn' = FALSE /\ active' = FALSE /\ handle' = "none"
      /\ cache' = NoCache /\ dirty' = {} /\ ~Up'
  BY DEF Crash, ProcessEnds, Up
<1>2. Steps'
  BY <1>1 DEF Steps
<1>3. Transaction'
  BY <1>1 DEF Transaction
<1>4. JournalInv'
  <2>1. jdur' <= Units(jfile')
    <3>1. CASE Kill /\ jex
      <4>1. jdur' = jdur /\ jfile' \in KilledJournals
        BY <3>1 DEF Kill
      <4>. QED
        BY <4>1, CrashedJournal
    <3>2. CASE Kill /\ ~jex
      BY <3>2, EmptyJournalType DEF Kill
    <3>3. CASE LosePower
      BY CrashLeaves, <3>3, UnitsType DEF LosePower
    <3>. QED
      BY <3>1, <3>2, <3>3 DEF Crash
  <2>2. Truthful(jfile)'
    BY CrashLeaves DEF Truthful
  <2>3. PowerLoss => jdur' = Units(jfile') /\ dent' = jex'
    BY DEF Crash, Kill, LosePower
  <2>. QED
    BY <1>1, CrashLeaves, <2>1, <2>2, <2>3 DEF JournalInv
<1>5. CacheInv'
  BY <1>1 DEF CacheInv, NoCache
<1>6. FileInv'
  <2>1. CASE jfile'.hdr
    <3>1. committed' = committed /\ ~AtRest'
      BY <1>1, CrashLeaves, <2>1 DEF AtRest
    <3>2. Shielded(db)' /\ (PowerLoss => Shielded(ddb)')
      BY CrashLeaves, <2>1, <3>1 DEF Shielded
    <3>3. committed.n <= size' /\ MinPages <= committed.n
          /\ \A p \in Page : p >= committed.n => committed.img[p] = Zero
      BY DEF IInv, SafeInv, FileInv, Crash, Kill, LosePower, disk
    <3>. QED
      BY CrashLeaves, <3>1, <3>2, <3>3 DEF FileInv
  <2>2. CASE ~jfile'.hdr
    <3>1. Old(db, size)' /\ (PowerLoss => Old(ddb, dsize)')
      BY CrashLeaves, <2>2 DEF Old
    <3>2. \A p \in Page : p >= committed'.n => committed'.img[p] = Zero
      BY CrashLeaves, <2>2, ConstantTypes
    <3>3. committed'.n = size'
      BY CrashLeaves, <2>2
    <3>. QED
      BY CrashLeaves, <3>1, <3>2, <3>3 DEF FileInv, Old, Shielded
  <2>. QED
    BY <2>1, <2>2
<1>7. RecoveryInv'
  BY <1>1 DEF RecoveryInv
<1>8. CommitInv'
  BY <1>1 DEF CommitInv
<1>. QED
  BY <1>2, <1>3, <1>4, <1>5, <1>6, <1>7, <1>8 DEF SafeInv

-----------------------------------------------------------------------------
(* The invariant.                                                          *)

LEMMA InvInit ==
  ASSUME Reliable, Init
  PROVE  IInv
<1>. USE MaxPagesNat
<1>1. TypeInv
  BY TypeInit
<1>2. /\ op = "none" /\ phase = "closed" /\ ri = 1 /\ inTxn = FALSE /\ active = FALSE /\ handle = "none"
      /\ cache = NoCache /\ dirty = {} /\ ~Up /\ jfile = EmptyJournal /\ jdur = 0
  BY DEF Init, Up
<1>3. /\ MinPages <= size /\ size \in Nat /\ MinPages \in Nat /\ ddb = db /\ dsize = size
  BY PagerAssumption, ConstantTypes DEF Init, Reliable
<1>4. Larger(size, MinPages) = size
  BY <1>3 DEF Larger
<1>5. /\ committed.n = size
      /\ \A p \in Page : committed.img[p] = IF p < size THEN db[p] ELSE Zero
  BY <1>4 DEF Init, Recovered, Image
<1>6. Steps /\ Transaction /\ RecoveryInv /\ CommitInv
  BY <1>2 DEF Steps, Transaction, RecoveryInv, CommitInv
<1>7. JournalInv
  BY <1>2, EmptyJournalType DEF JournalInv, Truthful
<1>8. CacheInv
  BY <1>2 DEF CacheInv, NoCache
<1>9. FileInv
  <2>1. Old(db, size) /\ Old(ddb, dsize)
    BY <1>3, <1>5 DEF Old
  <2>2. \A p \in Page : p >= committed.n => committed.img[p] = Zero
    <3>1. size \in Int /\ \A p \in Page : p \in Int
      BY <1>3, ConstantTypes
    <3>2. \A p \in Page : p >= size => ~(p < size)
      BY <3>1
    <3>. QED
      BY <1>5, <3>2
  <2>3. committed.n \in Int /\ committed.n = size /\ committed.n = dsize /\ MinPages <= committed.n
    BY <1>3, <1>5
  <2>. QED
    BY <2>1, <2>2, <2>3 DEF FileInv, Old, Shielded
<1>. QED
  BY <1>1, <1>6, <1>7, <1>8, <1>9 DEF IInv, SafeInv

LEMMA StutterStep ==
  ASSUME IInv, UNCHANGED vars
  PROVE  SafeInv'
<1>. USE DEF IInv, SafeInv, vars, disk, jvars, mem
<1>1. Steps' /\ Transaction' /\ JournalInv'
  BY DEF Steps, Transaction, JournalInv, Up, Truthful
<1>2. CacheInv' /\ RecoveryInv' /\ CommitInv'
  BY DEF CacheInv, RecoveryInv, CommitInv, Up
<1>3. FileInv'
  BY DEF FileInv, Shielded, Durable, Old, AtRest
<1>. QED
  BY <1>1, <1>2, <1>3

LEMMA InvStep ==
  ASSUME IInv, Reliable, [Next]_vars
  PROVE  IInv'
<1>1. TypeInv'
  BY TypeStep, CachedStep DEF IInv, TypeInv
<1>2. CASE Client
  BY <1>1, <1>2, OpenStep, BeginStep, AllocateStep, CommitStep, RollbackStep, CloseStep,
     GetStep, WriteJournaledStep, WriteUnjournaledStep DEF Client, IInv
<1>3. CASE Writing
  BY <1>1, <1>3, JournalCreateStep, JournalHeaderStep, JournalAppendStep DEF Writing, IInv
<1>4. CASE Committing
  BY <1>1, <1>4, JournalSyncStep, FlushEndStep, FlushTruncateStep, FlushSyncStep,
     CommitDirSyncStep, FlushPageStep DEF Committing, IInv
<1>5. CASE Recovery
  BY <1>1, <1>5, ReplayRefusedStep, ReplayRecordStep, ReplayEndStep, ReplayTruncateStep,
     ReplaySyncStep, RemoveStep, OpenDirSyncStep, RollbackDirSyncStep, RollbackTruncateStep,
     StatStep DEF Recovery, IInv
<1>6. CASE IOError \/ HandleClosed \/ Crash
  BY <1>1, <1>6, IOErrorStep, HandleClosedStep, CrashStep DEF IInv
<1>7. CASE UNCHANGED vars
  BY <1>1, <1>7, StutterStep DEF IInv
<1>. QED
  BY <1>2, <1>3, <1>4, <1>5, <1>6, <1>7 DEF Next

-----------------------------------------------------------------------------
(* What the invariant gives.                                               *)

\* Two databases are the same when they have as many pages and the same content
\* in each, and zeros behind the last one.
LEMMA SameDatabase ==
  ASSUME NEW d \in [n : 0 .. MaxPages, img : [Page -> Data]],
         NEW e \in [n : 0 .. MaxPages, img : [Page -> Data]],
         d.n = e.n, \A p \in Page : d.img[p] = e.img[p]
  PROVE  d = e
<1>1. d.img = e.img
  OBVIOUS
<1>. QED
  BY <1>1

\* Without a journal that Replay accepts, what is recovered is the file.
LEMMA RecoveredFile ==
  ASSUME IInv, ~(jex /\ jfile.hdr)
  PROVE  LET r == Recovered(db, size, jex, jfile) IN
         r.n = size /\ \A p \in Page : r.img[p] = IF p < size THEN db[p] ELSE Zero
<1>1. MinPages <= size /\ size \in Nat /\ MinPages \in Nat
  BY ConstantTypes, MaxPagesNat DEF IInv, SafeInv, FileInv, TypeInv, TypeOK
<1>2. Larger(size, MinPages) = size
  BY <1>1 DEF Larger
<1>. QED
  BY <1>2 DEF Recovered, Image

\* A transaction without a journal has changed no committed page.
LEMMA Unjournaled ==
  ASSUME IInv, ~jfile.hdr
  PROVE  \A p \in Page : p < committed.n => /\ db[p] = committed.img[p]
                                            /\ PowerLoss => ddb[p] = committed.img[p]
  BY DEF IInv, SafeInv, FileInv, Shielded, Durable

LEMMA InvRecoverable == ASSUME IInv PROVE Recoverable
<1>. USE MaxPagesNat
<1>. DEFINE r == Recovered(db, size, jex, jfile)
<1>1. /\ r \in [n : 0 .. MaxPages, img : [Page -> Data]]
      /\ View \in [n : 0 .. MaxPages, img : [Page -> Data]]
      /\ committed \in [n : 0 .. MaxPages, img : [Page -> Data]]
  BY RecoveredType, ViewType DEF IInv, TypeInv, TypeOK
<1>2. CASE jex /\ jfile.hdr
  <2>1. \A p \in Page : p < committed.n => db[p] = committed.img[p] \/ Journaled(jfile, p)
    BY DEF IInv, SafeInv, FileInv, Shielded, Durable, Journaled
  <2>2. Recovered(db, size, TRUE, jfile) = committed
    BY <1>2, <2>1, RecoveredCommitted DEF IInv, SafeInv, TypeInv, TypeOK, JournalInv
  <2>3. jex = TRUE
    BY <1>2 DEF IInv, TypeInv, TypeOK
  <2>. QED
    BY <2>2, <2>3 DEF Recoverable
<1>3. CASE ~(jex /\ jfile.hdr)
  <2>1. r.n = size /\ \A p \in Page : r.img[p] = IF p < size THEN db[p] ELSE Zero
    BY <1>3, RecoveredFile
  <2>. HIDE DEF r
  <2>2. CASE AtRest
    <3>1. size = committed.n /\ \A p \in Page : p < committed.n => db[p] = committed.img[p]
      BY <2>2 DEF IInv, SafeInv, FileInv, Old
    <3>2. \A p \in Page : p >= committed.n => committed.img[p] = Zero
      BY DEF IInv, SafeInv, FileInv
    <3>3. \A p \in Page : r.img[p] = committed.img[p]
      BY <1>1, <2>1, <3>1, <3>2, ConstantTypes
    <3>4. r = committed
      BY <1>1, <2>1, <3>1, <3>3, SameDatabase
    <3>. QED
      BY <3>4 DEF Recoverable, r
  <2>3. CASE ~AtRest /\ phase = "dirsync"
    <3>1. op = "commit" /\ dirty = {} /\ size = count
      BY <2>3 DEF IInv, SafeInv, TypeInv, TypeOK, Steps, CommitInv, AtRest
    <3>2. View.n = count /\ \A p \in Page : View.img[p] = IF p < count THEN db[p] ELSE Zero
      BY <3>1, ViewClean DEF IInv, SafeInv
    <3>3. r = View
      BY <1>1, <2>1, <3>1, <3>2, SameDatabase
    <3>. QED
      BY <3>1, <3>3 DEF Recoverable, r
  <2>4. CASE ~AtRest /\ phase # "dirsync"
    <3>1. ~jfile.hdr
      BY <1>3, <2>4 DEF IInv, SafeInv, JournalInv
    <3>2. inTxn /\ handle = "none"
      BY <2>4, <3>1 DEF IInv, SafeInv, TypeInv, TypeOK, Steps, Transaction, JournalInv, AtRest
    <3>3. committed.n <= size
      BY DEF IInv, SafeInv, FileInv
    <3>4. Extends(r, committed)
      BY <1>1, <2>1, <3>1, <3>3, Unjournaled, ConstantTypes DEF Extends, IInv, TypeInv, TypeOK
    <3>. QED
      BY <3>2, <3>4 DEF Recoverable, r
  <2>. QED
    BY <2>2, <2>3, <2>4
<1>. QED
  BY <1>2, <1>3

LEMMA InvWriteAhead == ASSUME IInv PROVE WriteAhead
<1>. SUFFICES ASSUME phase # "dirsync", NEW p \in Page, p < committed.n, db[p] # committed.img[p]
              PROVE  /\ jex /\ jfile.hdr /\ jfile.pages = committed.n
                     /\ PowerLoss => dent
                     /\ \E i \in Records(jfile, p) : i < jdur
                     /\ \A i \in Records(jfile, p) : jfile.recs[i].data = committed.img[p]
  BY DEF WriteAhead
<1>1. Durable(p)
  BY DEF IInv, SafeInv, FileInv, Shielded
<1>2. Truthful(jfile) /\ jfile \in JournalFile
  BY DEF IInv, SafeInv, TypeInv, TypeOK, JournalInv
<1>3. jex /\ jfile.pages = committed.n
  BY <1>1, <1>2 DEF Durable, Truthful, IInv, SafeInv, JournalInv
<1>4. \A i \in Records(jfile, p) : jfile.recs[i].data = committed.img[p]
  BY <1>1, <1>2, RecordsType DEF Durable, Truthful
<1>. QED
  BY <1>1, <1>3, <1>4 DEF Durable

\* Between two transactions, the view is the committed database.
LEMMA QuietView ==
  ASSUME IInv, Up, ~active
  PROVE  View = committed
<1>1. op \in {"none", "close"} /\ count = committed.n /\ dirty = {}
  BY DEF IInv, SafeInv, TypeInv, TypeOK, Steps, Transaction, Up
<1>2. \A p \in Page : p < committed.n => db[p] = committed.img[p]
  BY <1>1 DEF IInv, SafeInv, FileInv, AtRest, Old, Up
<1>3. \A p \in Page : p >= committed.n => committed.img[p] = Zero
  BY DEF IInv, SafeInv, FileInv
<1>4. View.n = count /\ \A p \in Page : View.img[p] = IF p < count THEN db[p] ELSE Zero
  BY <1>1, ViewClean DEF IInv, SafeInv
<1>5. /\ View \in [n : 0 .. MaxPages, img : [Page -> Data]]
      /\ committed \in [n : 0 .. MaxPages, img : [Page -> Data]]
  BY ViewType DEF IInv, TypeInv, TypeOK
<1>6. \A p \in Page : View.img[p] = committed.img[p]
  BY <1>1, <1>2, <1>3, <1>4, <1>5, ConstantTypes, MaxPagesNat
<1>. QED
  BY <1>1, <1>4, <1>5, <1>6, SameDatabase

LEMMA InvCommittedView == ASSUME IInv PROVE CommittedView
<1>1. phase = "ready" => Up
  BY DEF IInv, SafeInv, Steps, Up
<1>. QED
  BY <1>1, QuietView DEF CommittedView

LEMMA InvNoShortRead == ASSUME IInv PROVE NoShortRead
<1>1. phase = "ready" => Up /\ op # "commit"
  BY DEF IInv, SafeInv, Steps, Up
<1>. QED
  BY <1>1, ConstantTypes, MaxPagesNat
     DEF NoShortRead, IInv, SafeInv, TypeInv, TypeOK, CacheInv, FileInv

-----------------------------------------------------------------------------
(* How the committed database changes.                                     *)

\* A COMMIT that returns, and nothing else but a crash, replaces the committed
\* database; BEGIN and nothing else starts a transaction.
LEMMA StepKinds ==
  ASSUME IInv, Reliable, [Next]_vars
  PROVE  /\ \/ committed' = committed \/ Crash
            \/ /\ op = "commit" /\ op' = "none" /\ phase' = "ready" /\ active' = FALSE
               /\ committed' = View
         /\ active \/ active' = FALSE \/ Begin
<1>. USE DEF IInv, SafeInv, TypeInv, TypeOK
<1>1. CASE Client
  BY <1>1 DEF Client, Open, Begin, Allocate, Commit, Rollback, Close, Get, WriteJournaled,
     WriteUnjournaled
<1>2. CASE Writing
  BY <1>2 DEF Writing, JournalCreate, JournalHeader, JournalAppend
<1>3. CASE Committing
  BY <1>3 DEF Committing, JournalSync, FlushEnd, FlushTruncate, FlushSync, CommitDirSync,
     FlushPage, CommitReturns, ProcessEnds, Done, At
<1>4. CASE Recovery
  <2>1. CASE ReplayRefused
    <3>1. op = "open"
      BY <2>1 DEF ReplayRefused, Steps, JournalInv
    <3>. QED
      BY <2>1, <3>1 DEF ReplayRefused, ReturnError, ProcessEnds
  <2>2. CASE ~ReplayRefused
    BY <1>4, <2>2 DEF Recovery, ReplayRecord, ReplayEnd, ReplayTruncate, ReplaySync, Remove,
       OpenDirSync, RollbackDirSync, RollbackTruncate, Stat, RollbackReturns
  <2>. QED
    BY <2>1, <2>2
<1>5. CASE IOError
  <2>1. op \in {"open", "write"}
    BY <1>5 DEF IOError, Reliable, Steps
  <2>. QED
    BY <1>5, <2>1 DEF IOError, ReturnError, ProcessEnds
<1>6. CASE HandleClosed
  BY <1>6 DEF HandleClosed, JournalInv
<1>7. CASE UNCHANGED vars
  BY <1>7 DEF vars
<1>8. CASE Crash
  BY <1>8 DEF Crash, ProcessEnds
<1>. QED
  BY <1>1, <1>2, <1>3, <1>4, <1>5, <1>6, <1>7, <1>8 DEF Next

\* A journal that restores anything survives a crash: it is durable before a
\* page of the file changes, until its name has left the directory.
LEMMA JournalSurvives ==
  ASSUME IInv, Crash, jfile.hdr, ~AtRest, phase # "dirsync"
  PROVE  jfile'.hdr
<1>. USE DEF IInv, SafeInv, TypeInv, TypeOK
<1>1. jex
  BY DEF JournalInv
<1>2. PowerLoss => jdur = Units(jfile) /\ dent
  BY DEF JournalInv, CommitInv, Steps, AtRest, Crash, Up
<1>3. CASE Kill
  <2>1. jfile' \in KilledJournals
    BY <1>1, <1>3 DEF Kill
  <2>2. phase # "jappend"
    BY DEF Steps, AtRest
  <2>. QED
    BY <2>1, <2>2 DEF KilledJournals
<1>4. CASE LosePower
  <2>1. jfile' \in LostJournals
    BY <1>1, <1>2, <1>4 DEF LosePower
  <2>2. jdur \in 1..Units(jfile) /\ jdur = Units(jfile) /\ jdur \in Nat
    BY <1>2, <1>4, JournalType DEF LosePower, Units
  <2>3. \A k \in jdur..Units(jfile) : k = jdur
    BY <2>2
  <2>4. Larger(jdur, 1)..(Units(jfile) - 1) = {}
    BY <2>2 DEF Larger
  <2>5. jfile' = Prefix(jfile, jdur)
    BY <2>1, <2>3, <2>4 DEF LostJournals
  <2>. QED
    BY <2>2, <2>5, PrefixLemma
<1>. QED
  BY <1>3, <1>4 DEF Crash

\* The file a crash leaves has every page that the file and its durable copy
\* agree on.
LEMMA CrashedPages ==
  ASSUME IInv, Crash
  PROVE  \A p \in Page : p < size' /\ (PowerLoss => db[p] = ddb[p]) => db'[p] = db[p]
<1>. USE DEF IInv, SafeInv, TypeInv, TypeOK
<1>1. CASE Kill
  BY <1>1 DEF Kill, disk
<1>2. CASE LosePower
  <2>1. size' \in 0..MaxPages /\ db' \in LostFiles(size')
    BY <1>2 DEF LosePower
  <2>2. PICK e \in [Page -> Data] : /\ db' = Truncated(e, size')
                                    /\ \A p \in Page : db[p] = ddb[p] => e[p] = db[p]
    BY <2>1 DEF LostFiles
  <2>. QED
    BY <1>2, <2>1, <2>2, TruncatedPoint DEF LosePower
<1>. QED
  BY <1>1, <1>2 DEF Crash

LEMMA CrashOldOrNew ==
  ASSUME IInv, IInv', Crash
  PROVE  \/ committed' = committed
         \/ op = "commit" /\ committed' = View
         \/ inTxn /\ handle = "none" /\ ~jfile.hdr /\ Extends(committed', committed)
<1>. USE MaxPagesNat
<1>1. /\ View \in [n : 0 .. MaxPages, img : [Page -> Data]]
      /\ committed \in [n : 0 .. MaxPages, img : [Page -> Data]]
      /\ committed' \in [n : 0 .. MaxPages, img : [Page -> Data]]
      /\ TypeInv'
  BY ViewType DEF IInv, TypeInv, TypeOK
<1>2. /\ committed.n <= size'
      /\ jfile'.hdr => committed' = committed
      /\ ~jfile'.hdr => /\ committed'.n = size'
                        /\ \A p \in Page : committed'.img[p] = IF p < size' THEN db'[p] ELSE Zero
  BY <1>1, CrashLeaves
<1>3. size' \in {size, dsize} /\ (~PowerLoss => size' = size)
  BY DEF Crash, Kill, LosePower, disk
<1>4. CASE jfile'.hdr
  BY <1>2, <1>4
<1>5. CASE ~jfile'.hdr /\ AtRest
  <2>1. size' = committed.n
    BY <1>3, <1>5 DEF IInv, SafeInv, FileInv, Old
  <2>2. \A p \in Page : p < committed.n => db'[p] = committed.img[p]
    BY <1>5, <2>1, CrashedPages DEF IInv, SafeInv, FileInv, Old
  <2>3. \A p \in Page : p >= committed.n => committed.img[p] = Zero
    BY DEF IInv, SafeInv, FileInv
  <2>4. \A p \in Page : committed'.img[p] = committed.img[p]
    BY <1>1, <1>2, <1>5, <2>1, <2>2, <2>3, ConstantTypes
  <2>5. committed'.n = committed.n
    BY <1>2, <1>5, <2>1
  <2>. QED
    BY <1>1, <2>4, <2>5, SameDatabase
<1>6. CASE ~jfile'.hdr /\ ~AtRest /\ phase = "dirsync"
  <2>1. op = "commit" /\ dirty = {} /\ size = count /\ (PowerLoss => ddb = db /\ dsize = size)
    BY <1>6 DEF IInv, SafeInv, TypeInv, TypeOK, Steps, CommitInv, AtRest
  <2>2. View.n = count /\ \A p \in Page : View.img[p] = IF p < count THEN db[p] ELSE Zero
    BY <2>1, ViewClean DEF IInv, SafeInv
  <2>3. size' = count
    BY <1>3, <2>1
  <2>4. \A p \in Page : p < count => db'[p] = db[p]
    BY <2>1, <2>3, CrashedPages
  <2>5. \A p \in Page : committed'.img[p] = View.img[p]
    BY <1>2, <1>6, <2>2, <2>3, <2>4
  <2>6. committed'.n = View.n
    BY <1>2, <1>6, <2>2, <2>3
  <2>7. committed' = View
    BY <1>1, <2>5, <2>6, SameDatabase
  <2>. QED
    BY <2>1, <2>7
<1>7. CASE ~jfile'.hdr /\ ~AtRest /\ phase # "dirsync"
  <2>1. ~jfile.hdr
    BY <1>7, JournalSurvives
  <2>2. inTxn /\ handle = "none"
    BY <1>7, <2>1
       DEF IInv, SafeInv, TypeInv, TypeOK, Steps, Transaction, JournalInv, AtRest, Crash
  <2>3. \A p \in Page : p < committed.n => db'[p] = committed.img[p] /\ p < size'
    BY <1>1, <1>2, <2>1, Unjournaled, CrashedPages, ConstantTypes, <1>3
       DEF IInv, TypeInv, TypeOK
  <2>4. Extends(committed', committed)
    BY <1>1, <1>2, <1>7, <2>3 DEF Extends
  <2>. QED
    BY <2>1, <2>2, <2>4
<1>. QED
  BY <1>4, <1>5, <1>6, <1>7

-----------------------------------------------------------------------------
(* The theorems.                                                           *)

\* The inductive invariant: a journal on disk belongs to the transaction that is
\* open or being undone and holds the committed content of every page the file
\* has lost; a clean cached page is the file's; a replay may be begun again at any
\* of its steps (Begin, Write, Commit, Rollback and Open of pager.go; Replay of
\* journal.go).
THEOREM Invariance == ASSUME Reliable PROVE Spec => []IInv
<1>1. Init => IInv
  BY InvInit
<1>2. IInv /\ [Next]_vars => IInv'
  BY InvStep
<1>. QED
  BY <1>1, <1>2, PTL DEF Spec

\* Whatever instant the process or the machine dies at, the next Open finds the
\* last committed database, or the one a COMMIT under way was writing.
THEOREM CrashSafety == ASSUME Reliable PROVE Spec => []Recoverable
<1>1. IInv => Recoverable
  BY InvRecoverable
<1>. QED
  BY <1>1, Invariance, PTL

\* No page of the file changes before a durable record holds what it was.
THEOREM WriteAheadRule == ASSUME Reliable PROVE Spec => []WriteAhead
<1>1. IInv => WriteAhead
  BY InvWriteAhead
<1>. QED
  BY <1>1, Invariance, PTL

\* Between transactions the cache, the page count and the file agree on the
\* committed database.
THEOREM RollbackRestores == ASSUME Reliable PROVE Spec => []CommittedView
<1>1. IInv => CommittedView
  BY InvCommittedView
<1>. QED
  BY <1>1, Invariance, PTL

\* A page below the page count is in the cache or in the file.
THEOREM ReadsFindPages == ASSUME Reliable PROVE Spec => []NoShortRead
<1>1. IInv => NoShortRead
  BY InvNoShortRead
<1>. QED
  BY <1>1, Invariance, PTL

\* A crash, a recovery, a rollback or a failed call never changes the database
\* that the client committed, except into the one it is committing.
THEOREM AllOrNothing == ASSUME Reliable PROVE Spec => OldOrNew
<1>1. IInv /\ IInv' /\ [Next]_vars =>
        [committed' # committed =>
             \/ op = "commit" /\ committed' = View
             \/ inTxn /\ handle = "none" /\ Extends(committed', committed)]_vars
  BY StepKinds, CrashOldOrNew
<1>. QED
  BY <1>1, Invariance, PTL DEF Spec, OldOrNew

-----------------------------------------------------------------------------
(* The pager implements the atomic database.                               *)

\* A transaction without a journal has only added pages.
LEMMA ViewExtends ==
  ASSUME IInv, active, ~jfile.hdr
  PROVE  Extends(View, committed)
<1>. USE DEF IInv, SafeInv, TypeInv, TypeOK
<1>1. /\ Up /\ handle # "open" /\ committed.n <= count
      /\ committed.n \in Int /\ count \in Int
  BY MaxPagesNat DEF Transaction, JournalInv
<1>2. ASSUME NEW p \in Page, p < committed.n
      PROVE  p < count /\ db[p] = committed.img[p] /\ (cache[p] # Absent => cache[p] = db[p])
  BY <1>1, <1>2, Unjournaled, ConstantTypes DEF CacheInv
<1>. QED
  BY <1>1, <1>2 DEF Extends, View, Image

LEMMA RefinementInit ==
  ASSUME IInv, Init
  PROVE  Atomic!Init
<1>1. mode = "down"
  BY DEF Init, mode
<1>. QED
  BY <1>1 DEF Atomic!Init, Atomic!Database, Atomic!Page, Page, IInv, TypeInv, TypeOK

\* The same two facts about the state a step leads to.
LEMMA QuietViewNext == IInv' /\ Up' /\ ~active' => View' = committed'
<1>1. IInv /\ Up /\ ~active => View = committed
  BY QuietView
<1>2. (IInv /\ Up /\ ~active => View = committed)'
  BY <1>1, PTL
<1>. QED
  BY <1>2

LEMMA ViewTypeNext == TypeOK' => View' \in [n : 0 .. MaxPages, img : [Page -> Data]]
<1>1. TypeOK => View \in [n : 0 .. MaxPages, img : [Page -> Data]]
  BY ViewType
<1>2. (TypeOK => View \in [n : 0 .. MaxPages, img : [Page -> Data]])'
  BY <1>1, PTL
<1>. QED
  BY <1>2

LEMMA RefinementStep ==
  ASSUME IInv, IInv', Reliable, [Next]_vars
  PROVE  [Atomic!Next]_(Atomic!vars)
<1>. DEFINE work == IF mode = "down" THEN committed ELSE View
            DB == [n : 0 .. MaxPages, img : [Page -> Data]]
<1>1. /\ View' \in DB /\ committed' \in DB /\ View \in DB /\ committed \in DB
      /\ active \in BOOLEAN /\ active' \in BOOLEAN
      /\ Atomic!Database = DB
  BY ViewType, ViewTypeNext DEF IInv, TypeInv, TypeOK, Atomic!Database, Atomic!Page, Page
<1>2. /\ mode = IF Up THEN IF active THEN "txn" ELSE "idle" ELSE "down"
      /\ mode' = IF Up' THEN IF active' THEN "txn" ELSE "idle" ELSE "down"
  BY DEF mode, Up
<1>3. /\ mode = "idle" => View = committed
      /\ mode' = "idle" => View' = committed'
  BY <1>1, <1>2, QuietView, QuietViewNext
<1>4. /\ work = IF mode = "down" THEN committed ELSE View
      /\ work' = IF mode' = "down" THEN committed' ELSE View'
  OBVIOUS
<1>. HIDE DEF work, DB
<1>5. CASE Begin
  <2>1. /\ Up /\ Up' /\ active = FALSE /\ active' = TRUE /\ committed' = committed
        /\ View' = View
    BY <1>1, <1>5 DEF Begin, disk, IInv, SafeInv, Steps, Up, View
  <2>2. Atomic!Begin
    BY <1>2, <1>4, <2>1 DEF Atomic!Begin, work
  <2>. QED
    BY <2>2 DEF Atomic!Next
<1>6. CASE ~Begin /\ committed' = committed
  <2>1. active = FALSE => active' = FALSE
    BY <1>1, <1>6, StepKinds
  <2>2. mode = "down" => active = FALSE
    BY <1>1, <1>2 DEF IInv, SafeInv, Transaction
  <2>3. CASE mode = "down"
    BY <1>2, <1>3, <1>4, <1>6, <2>1, <2>2, <2>3
       DEF Atomic!Next, Atomic!Open, Atomic!vars, work
  <2>4. CASE mode = "idle"
    BY <1>1, <1>2, <1>3, <1>4, <1>6, <2>1, <2>4
       DEF Atomic!Next, Atomic!Close, Atomic!vars, work
  <2>5. CASE mode = "txn"
    <3>1. CASE mode' = "txn"
      BY <1>1, <1>4, <1>6, <2>5, <3>1 DEF Atomic!Next, Atomic!Change, work
    <3>2. CASE mode' = "idle"
      BY <1>3, <1>4, <1>6, <2>5, <3>2 DEF Atomic!Next, Atomic!Rollback, work
    <3>3. CASE mode' = "down"
      BY <1>4, <1>6, <2>5, <3>3 DEF Atomic!Next, Atomic!Crash, work
    <3>. QED
      BY <1>2, <3>1, <3>2, <3>3
  <2>. QED
    BY <1>2, <2>3, <2>4, <2>5
<1>7. CASE ~Begin /\ committed' # committed /\ ~Crash
  <2>1. /\ op = "commit" /\ op' = "none" /\ phase' = "ready" /\ active' = FALSE
        /\ committed' = View
    BY <1>7, StepKinds
  <2>2. Up /\ active = TRUE /\ Up'
    BY <1>1, <2>1 DEF IInv, SafeInv, Steps, Transaction, Up
  <2>3. Atomic!Commit
    BY <1>2, <1>3, <1>4, <2>1, <2>2 DEF Atomic!Commit, work
  <2>. QED
    BY <2>3 DEF Atomic!Next
<1>8. CASE committed' # committed /\ Crash
  <2>1. mode' = "down" /\ work' = committed'
    BY <1>8 DEF Crash, ProcessEnds, mode, work
  <2>2. \/ op = "commit" /\ committed' = View
        \/ inTxn /\ handle = "none" /\ ~jfile.hdr /\ Extends(committed', committed)
    BY <1>8, CrashOldOrNew
  <2>3. mode = "txn" /\ work = View /\ active = TRUE
    BY <1>1, <1>2, <2>2 DEF IInv, SafeInv, TypeInv, TypeOK, Transaction, work
  <2>4. Atomic!Crash
    <3>1. CASE committed' = View
      BY <2>1, <2>3, <3>1 DEF Atomic!Crash, work
    <3>2. CASE ~jfile.hdr /\ Extends(committed', committed)
      <4>1. Extends(View, committed)
        BY <2>3, <3>2, ViewExtends
      <4>. QED
        BY <1>1, <2>1, <2>3, <3>2, <4>1
           DEF Atomic!Crash, Atomic!Extends, Atomic!Page, Extends, Page, work
    <3>. QED
      BY <2>2, <3>1, <3>2
  <2>. QED
    BY <2>4 DEF Atomic!Next
<1>. QED
  BY <1>5, <1>6, <1>7, <1>8

\* Seen from its callers the pager is the atomic database of AtomicPages: every
\* step of it, a system call, a crash or a recovery, is a step of that database
\* or changes nothing there.
THEOREM Refinement == ASSUME Reliable PROVE Spec => RefinesAtomic
<1>1. IInv /\ Init => Atomic!Init
  BY RefinementInit
<1>2. IInv /\ IInv' /\ [Next]_vars => [Atomic!Next]_(Atomic!vars)
  BY RefinementStep
<1>. QED
  BY <1>1, <1>2, Invariance, PTL DEF Spec, RefinesAtomic, Atomic!Spec

=============================================================================
