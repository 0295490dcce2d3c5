------------------------------- MODULE Pager -------------------------------
(***************************************************************************)
(* The transactional pager of internal/pager over the rollback journal of  *)
(* internal/journal, with the file system underneath it and the process    *)
(* or machine crashes it must survive.                                     *)
(*                                                                         *)
(* One system call is one step: a crash can fall between any two of them.  *)
(* Everything the code does in memory between two system calls belongs to  *)
(* the step of the call before it.  The client is internal/storage driven  *)
(* by internal/engine: it writes pages only inside a transaction, and      *)
(* opens one only when it believes that none is active.                    *)
(***************************************************************************)
EXTENDS Integers, Sequences

CONSTANTS
  MaxPages,   \* bound: page numbers are 0 .. MaxPages - 1
  Data,       \* page contents
  Zero,       \* the content of a page never written
  Absent,     \* stands for "not in the cache"
  InitSizes,  \* sizes in pages the database file may have at first
  PowerLoss,  \* TRUE: a crash loses what was not fsynced; FALSE: kill -9
  EntrySync,  \* TRUE: fsync of a new file also makes its directory entry durable
  Faults      \* the steps whose system call may return an error

Page == 0 .. (MaxPages - 1)

Phases == {"closed", "ready", "replay", "rtruncate", "rsync", "remove",
           "dirsync", "stat", "jcreate", "jheader", "jappend", "jsync",
           "flush", "truncate", "fsync", "rbtruncate"}

\* pager.Open allocates page 0 and storage.Open page 1, the schema page.
MinPages == 2

ASSUME PagerAssumption ==
  /\ MaxPages \in Nat
  /\ MinPages <= MaxPages
  /\ Zero \in Data
  /\ Absent \notin Data
  /\ InitSizes \subseteq 0 .. MaxPages
  /\ PowerLoss \in BOOLEAN
  /\ EntrySync \in BOOLEAN
  /\ Faults \subseteq Phases

INSTANCE Journal

VARIABLES
  \* What the operating system shows to any process.
  db,         \* content of the database file, page by page
  size,       \* its length in pages
  jex,        \* the journal's name is in the directory
  jfile,      \* the journal's content
  \* What would be left if the machine lost power now.
  ddb, dsize, \* the database file as of its last fsync
  dent,       \* the journal's name is in the durable directory
  jdur,       \* how many units of the journal are durable
  \* The Pager struct.
  cache,      \* page -> content, or Absent
  dirty,      \* the cached pages whose dirty flag is set
  count, startCount, inTxn,
  handle,     \* p.journal: "none", "open", or "closed" after a failed Delete
  \* The API call in progress.
  op, phase,
  ri,         \* next journal record to replay
  wpage,      \* the page pager.Write is journaling
  \* The client.
  active,     \* a transaction is active as far as the engine knows
  committed   \* history: the state the client may rely on

disk == <<db, size, ddb, dsize>>
jvars == <<jex, jfile, dent, jdur>>
mem == <<cache, dirty, count, startCount, inTxn>>
vars == <<disk, jvars, mem, handle, op, phase, ri, wpage, active, committed>>

-----------------------------------------------------------------------------
\* The database as a value: n pages and their content.
Image(n, d) == [n |-> n, img |-> [p \in Page |-> IF p < n THEN d[p] ELSE Zero]]

\* What the pager's callers see: the cache over the file.
View == Image(count, [p \in Page |-> IF cache[p] # Absent THEN cache[p] ELSE db[p]])

Larger(a, b) == IF a < b THEN b ELSE a

\* What the next successful Open would serve, from a file of s pages d and
\* a journal j that exists iff ex.
Recovered(d, s, ex, j) ==
  IF ex /\ j.hdr
  THEN Image(j.pages, [p \in Page |-> IF Journaled(j, p) THEN PreImage(j, p) ELSE d[p]])
  ELSE Image(Larger(s, MinPages), d)

\* The file after WriteAt of page p, and after Truncate to n pages: a hole
\* and an extension both read as zeros.
WriteAt(d, p, x) == [d EXCEPT ![p] = x]
Truncated(d, n) == [p \in Page |-> IF p < n THEN d[p] ELSE Zero]

NoCache == [p \in Page |-> Absent]

Done == op' = "none" /\ phase' = "ready" /\ ri' = 1 /\ wpage' = 0
At(o, ph) == op = o /\ phase = ph
Goto(ph) == phase' = ph /\ UNCHANGED <<op, ri, wpage>>

-----------------------------------------------------------------------------
Init ==
  /\ size \in InitSizes
  /\ db \in {Truncated(d, size) : d \in [Page -> Data]}
  /\ ddb = db /\ dsize = size
  /\ jex = FALSE /\ dent = FALSE /\ jfile = EmptyJournal /\ jdur = 0
  /\ cache = NoCache /\ dirty = {} /\ count = 0 /\ startCount = 0
  /\ inTxn = FALSE /\ handle = "none"
  /\ op = "none" /\ phase = "closed" /\ ri = 1 /\ wpage = 0
  /\ active = FALSE
  /\ committed = Recovered(db, size, FALSE, EmptyJournal)

\* The process is gone, and with it everything it held in memory.
ProcessEnds ==
  /\ cache' = NoCache /\ dirty' = {} /\ count' = 0 /\ startCount' = 0
  /\ inTxn' = FALSE /\ handle' = "none" /\ active' = FALSE
  /\ op' = "none" /\ phase' = "closed" /\ ri' = 1 /\ wpage' = 0

\* The call in progress returns an error.  The pager keeps what it has.  After
\* a failed COMMIT or ROLLBACK the engine still believes in its transaction if
\* the user began it, and believes that none is active if it was an autocommit.
\* Open and Close pass the error up and the shell exits.
ReturnError ==
  \/ /\ op \in {"open", "close"}
     /\ ProcessEnds
  \/ /\ op \in {"write", "commit", "rollback"}
     /\ Done
     /\ active' \in (IF op = "write" THEN {active} ELSE BOOLEAN)
     /\ UNCHANGED <<cache, dirty, startCount, inTxn>>

-----------------------------------------------------------------------------
(* Open: recovery first, then the page count from the recovered file.      *)

Open ==
  /\ phase = "closed"
  /\ op' = "open"
  /\ phase' = IF jex THEN "replay" ELSE "stat"
  /\ UNCHANGED <<disk, jvars, mem, handle, ri, wpage, active, committed>>

\* Replay refuses a journal without a header.  Open then fails and the shell
\* exits; a rollback returns the error.
ReplayRefused ==
  /\ phase = "replay" /\ ~(jex /\ jfile.hdr)
  /\ ReturnError
  /\ UNCHANGED <<disk, jvars, count, committed, handle>>

\* The next record is whole and its checksum matches.
MoreRecords == ri <= Len(jfile.recs) /\ jfile.recs[ri].ok

ReplayRecord ==
  /\ phase = "replay" /\ jex /\ jfile.hdr
  /\ MoreRecords
  /\ LET r == jfile.recs[ri] IN
       /\ db' = WriteAt(db, r.id, r.data)
       /\ size' = Larger(size, r.id + 1)
  /\ ri' = ri + 1
  /\ UNCHANGED <<ddb, dsize, jvars, mem, handle, op, phase, wpage, active, committed>>

\* End of file, a short record or a bad checksum ends the loop.
ReplayEnd ==
  /\ phase = "replay" /\ jex /\ jfile.hdr
  /\ ~MoreRecords
  /\ Goto("rtruncate")
  /\ UNCHANGED <<disk, jvars, mem, handle, active, committed>>

ReplayTruncate ==
  /\ phase = "rtruncate"
  /\ size' = jfile.pages
  /\ db' = Truncated(db, jfile.pages)
  /\ Goto("rsync")
  /\ UNCHANGED <<ddb, dsize, jvars, mem, handle, active, committed>>

\* Mutant: the journal is deleted before the restored pages are fsynced.
ReplayNoSync ==
  /\ phase = "rsync"
  /\ Goto("remove")
  /\ UNCHANGED <<disk, jvars, mem, handle, active, committed>>

ReplaySync ==
  /\ phase = "rsync"
  /\ ddb' = db /\ dsize' = size
  /\ Goto("remove")
  /\ UNCHANGED <<db, size, jvars, mem, handle, active, committed>>

\* The name leaves the directory; the journal's blocks are still on the disk.
\* Journal.Delete closes the file first, and fails on one already closed.
Remove ==
  /\ phase = "remove" /\ handle # "closed"
  /\ jex' = FALSE
  /\ Goto("dirsync")
  /\ UNCHANGED <<disk, jfile, dent, jdur, mem, handle, active, committed>>

SyncDir == dent' = FALSE /\ jex' = jex /\ jfile' = EmptyJournal /\ jdur' = 0

OpenDirSync ==
  /\ At("open", "dirsync")
  /\ SyncDir
  /\ Goto("stat")
  /\ UNCHANGED <<disk, mem, handle, active, committed>>

\* Mutant: Open allocates its pages whatever the file holds.
StatAllocates ==
  /\ phase = "stat"
  /\ count' = size + MinPages
  /\ cache' = [p \in Page |-> IF p \in size .. (size + MinPages - 1) THEN Zero ELSE Absent]
  /\ dirty' = {}
  /\ Done
  /\ UNCHANGED <<disk, jvars, startCount, inTxn, handle, active, committed>>

\* Count from the file size; a new file gets its first two pages in memory.
Stat ==
  /\ phase = "stat"
  /\ count' = Larger(size, MinPages)
  /\ cache' = [p \in Page |-> IF p \in size .. (MinPages - 1) THEN Zero ELSE Absent]
  /\ dirty' = size .. (MinPages - 1)
  /\ Done
  /\ UNCHANGED <<disk, jvars, startCount, inTxn, handle, active, committed>>

-----------------------------------------------------------------------------
(* BEGIN and the page operations.                                          *)

Begin ==
  /\ phase = "ready" /\ ~active
  /\ inTxn' = TRUE /\ startCount' = count
  /\ active' = TRUE
  /\ UNCHANGED <<disk, jvars, cache, dirty, count, handle, op, phase, ri, wpage, committed>>

\* The engine also reads the schema page outside a transaction, to rebuild its
\* catalog after Open and ROLLBACK.
Get(p) ==
  /\ phase = "ready"
  /\ p < count /\ cache[p] = Absent
  /\ p < size
  /\ cache' = [cache EXCEPT ![p] = db[p]]
  /\ UNCHANGED <<disk, jvars, dirty, count, startCount, inTxn, handle, op, phase, ri,
                 wpage, active, committed>>

Allocate ==
  /\ phase = "ready" /\ active
  /\ count < MaxPages
  /\ cache' = [cache EXCEPT ![count] = Zero]
  /\ dirty' = dirty \cup {count}
  /\ count' = count + 1
  /\ UNCHANGED <<disk, jvars, startCount, inTxn, handle, op, phase, ri, wpage, active, committed>>

\* Mutant: an off-by-one leaves the last committed page without a pre-image.
NeedsJournalButLast(p) == p \notin dirty /\ inTxn /\ p + 1 < startCount

NeedsJournal(p) == p \notin dirty /\ inTxn /\ p < startCount

\* Write, then the caller's change of page.Data, when there is nothing to
\* journal: the page is dirty already, or it is newer than the transaction.
WriteUnjournaled(p, x) ==
  /\ phase = "ready" /\ active
  /\ p < count /\ cache[p] # Absent
  /\ ~NeedsJournal(p)
  /\ dirty' = dirty \cup {p}
  /\ cache' = [cache EXCEPT ![p] = x]
  /\ UNCHANGED <<disk, jvars, count, startCount, inTxn, handle, op, phase, ri, wpage, active,
                 committed>>

WriteJournaled(p) ==
  /\ phase = "ready" /\ active
  /\ p < count /\ cache[p] # Absent
  /\ NeedsJournal(p)
  /\ op' = "write" /\ wpage' = p /\ ri' = ri
  /\ phase' = IF handle = "none" THEN "jcreate" ELSE "jappend"
  /\ UNCHANGED <<disk, jvars, mem, handle, active, committed>>

JournalCreate ==
  /\ phase = "jcreate"
  /\ jex' = TRUE /\ jfile' = EmptyJournal /\ jdur' = 0 /\ dent' = dent
  /\ Goto("jheader")
  /\ UNCHANGED <<disk, mem, handle, active, committed>>

\* Mutant: the header records the page count of now, not of BEGIN.
JournalHeaderNow ==
  /\ phase = "jheader"
  /\ jfile' = HeaderOnly(count)
  /\ handle' = "open"
  /\ Goto("jappend")
  /\ UNCHANGED <<disk, jex, dent, jdur, mem, active, committed>>

JournalHeader ==
  /\ phase = "jheader"
  /\ jfile' = HeaderOnly(startCount)
  /\ handle' = "open"
  /\ Goto("jappend")
  /\ UNCHANGED <<disk, jex, dent, jdur, mem, active, committed>>

\* Mutant: the page is not marked dirty.
JournalAppendClean(x) ==
  /\ phase = "jappend" /\ handle = "open"
  /\ jfile' = AppendRecord(jfile, wpage, cache[wpage])
  /\ cache' = [cache EXCEPT ![wpage] = x]
  /\ Done
  /\ UNCHANGED <<disk, jex, dent, jdur, dirty, count, startCount, inTxn, handle, active, committed>>

\* The pre-image is in the journal file: mark the page dirty and return, and
\* the caller changes it.
JournalAppend(x) ==
  /\ phase = "jappend" /\ handle = "open"
  /\ jfile' = AppendRecord(jfile, wpage, cache[wpage])
  /\ dirty' = dirty \cup {wpage}
  /\ cache' = [cache EXCEPT ![wpage] = x]
  /\ Done
  /\ UNCHANGED <<disk, jex, dent, jdur, count, startCount, inTxn, handle, active, committed>>

-----------------------------------------------------------------------------
(* Commit: journal durable, pages out, file durable, journal removed.      *)

Commit ==
  /\ phase = "ready" /\ active
  /\ op' = "commit"
  /\ phase' = IF handle = "none" THEN "flush" ELSE "jsync"
  /\ UNCHANGED <<disk, jvars, mem, handle, ri, wpage, active, committed>>

\* Mutant: the journal is not fsynced before the pages go out.
JournalNoSync ==
  /\ phase = "jsync" /\ handle = "open"
  /\ Goto("flush")
  /\ UNCHANGED <<disk, jvars, mem, handle, active, committed>>

JournalSync ==
  /\ phase = "jsync" /\ handle = "open"
  /\ jdur' = Units(jfile)
  /\ dent' = (dent \/ EntrySync)
  /\ Goto("flush")
  /\ UNCHANGED <<disk, jex, jfile, mem, handle, active, committed>>

\* Mutant: a written page keeps its dirty flag.
FlushPageAgain(p) ==
  /\ phase = "flush" /\ p \in dirty
  /\ db' = WriteAt(db, p, cache[p])
  /\ size' = Larger(size, p + 1)
  /\ UNCHANGED <<ddb, dsize, jvars, cache, dirty, count, startCount, inTxn, handle, op, phase,
                 ri, wpage, active, committed>>

\* Flush walks the cache map, in whatever order the runtime chooses.
FlushPage(p) ==
  /\ phase = "flush" /\ p \in dirty
  /\ db' = WriteAt(db, p, cache[p])
  /\ size' = Larger(size, p + 1)
  /\ dirty' = dirty \ {p}
  /\ UNCHANGED <<ddb, dsize, jvars, cache, count, startCount, inTxn, handle, op, phase, ri,
                 wpage, active, committed>>

FlushEnd ==
  /\ phase = "flush" /\ dirty = {}
  /\ Goto("truncate")
  /\ UNCHANGED <<disk, jvars, mem, handle, active, committed>>

FlushTruncate ==
  /\ phase = "truncate"
  /\ size' = count
  /\ db' = Truncated(db, count)
  /\ Goto("fsync")
  /\ UNCHANGED <<ddb, dsize, jvars, mem, handle, active, committed>>

\* COMMIT returns: the client relies on the new state from here on.
CommitReturns ==
  /\ inTxn' = FALSE /\ active' = FALSE
  /\ committed' = View
  /\ Done

\* Mutant: the journal is deleted before the database file is fsynced.
FlushNoSync ==
  /\ phase = "fsync" /\ op = "commit" /\ handle # "none"
  /\ Goto("remove")
  /\ UNCHANGED <<disk, jvars, mem, handle, active, committed>>

\* Without a journal the fsync is the end of the commit, or of Close.
FlushSync ==
  /\ phase = "fsync"
  /\ ddb' = db /\ dsize' = size
  /\ UNCHANGED <<db, size, jvars>>
  /\ \/ /\ op = "commit" /\ handle # "none"
        /\ Goto("remove")
        /\ UNCHANGED <<mem, handle, active, committed>>
     \/ /\ op = "commit" /\ handle = "none"
        /\ CommitReturns
        /\ UNCHANGED <<cache, dirty, count, startCount, handle>>
     \/ /\ op = "close"
        /\ ProcessEnds
        /\ UNCHANGED committed

CommitDirSync ==
  /\ At("commit", "dirsync")
  /\ SyncDir
  /\ handle' = "none"
  /\ CommitReturns
  /\ UNCHANGED <<disk, cache, dirty, count, startCount>>

-----------------------------------------------------------------------------
(* Rollback and Close.                                                     *)

Rollback ==
  /\ phase = "ready" /\ active
  /\ op' = "rollback" /\ ri' = 1 /\ wpage' = 0
  /\ phase' = IF handle = "none" THEN "rbtruncate" ELSE "replay"
  /\ UNCHANGED <<disk, jvars, mem, handle, active, committed>>

\* Mutant: the cache keeps the pages of the transaction.
RollbackKeepsCache ==
  /\ dirty' = {}
  /\ inTxn' = FALSE /\ active' = FALSE
  /\ Done
  /\ UNCHANGED cache

RollbackReturns ==
  /\ cache' = NoCache /\ dirty' = {}
  /\ inTxn' = FALSE /\ active' = FALSE
  /\ Done

\* Mutant: Count is not put back.
RollbackKeepsCount ==
  /\ phase = "rbtruncate"
  /\ size' = startCount
  /\ db' = Truncated(db, startCount)
  /\ RollbackReturns
  /\ UNCHANGED <<count, ddb, dsize, jvars, startCount, handle, committed>>

RollbackTruncate ==
  /\ phase = "rbtruncate"
  /\ count' = startCount
  /\ size' = startCount
  /\ db' = Truncated(db, startCount)
  /\ RollbackReturns
  /\ UNCHANGED <<ddb, dsize, jvars, startCount, handle, committed>>

RollbackDirSync ==
  /\ At("rollback", "dirsync")
  /\ SyncDir
  /\ handle' = "none"
  /\ count' = jfile.pages
  /\ RollbackReturns
  /\ UNCHANGED <<disk, startCount, committed>>

\* The engine rolls an open transaction back before it closes the store.
Close ==
  /\ phase = "ready" /\ ~active
  /\ op' = "close" /\ phase' = "flush"
  /\ UNCHANGED <<disk, jvars, mem, handle, ri, wpage, active, committed>>

-----------------------------------------------------------------------------
(* What can go wrong: a system call that fails, and a crash.               *)

\* The system call of the current step returns an error.  A failed append may
\* have written a part of its record.  Journal.Delete closes the journal's
\* handle before it fails, and the failing Rollback has reset Count already.
IOError ==
  /\ phase \in Faults \ {"closed", "ready"}
  /\ jfile' \in {jfile} \cup (IF phase = "jappend"
                              THEN {AppendTorn(jfile, wpage, cache[wpage])} ELSE {})
  /\ ReturnError
  /\ IF op \in {"open", "close"}
     THEN TRUE
     ELSE /\ handle' = IF phase \in {"remove", "dirsync"} THEN "closed" ELSE handle
          /\ count' = IF phase = "rbtruncate" THEN startCount ELSE count
  /\ UNCHANGED <<disk, jex, dent, jdur, committed>>

\* A journal whose handle an earlier failed Delete has closed.
HandleClosed ==
  /\ phase \in {"jappend", "jsync", "remove"} /\ handle = "closed"
  /\ ReturnError
  /\ UNCHANGED <<disk, jvars, count, handle, committed>>

\* What a kill -9 leaves of the journal: an append under way may be cut short.
KilledJournals ==
  {jfile} \cup (IF phase = "jappend" THEN {AppendTorn(jfile, wpage, cache[wpage])} ELSE {})

\* What a power loss may leave of it: at least what was fsynced, then any part
\* of the rest, the last of it possibly cut short.
LostJournals ==
  {Prefix(jfile, k) : k \in jdur .. Units(jfile)} \cup
  {AppendTorn(Prefix(jfile, k), 0, Zero) : k \in Larger(jdur, 1) .. (Units(jfile) - 1)}

\* What a power loss may leave of the database: a page written since the last
\* fsync may be old, new, or anything between.
LostFiles(s) ==
  {Truncated(d, s) : d \in {e \in [Page -> Data] : \A p \in Page : db[p] = ddb[p] => e[p] = db[p]}}

Kill ==
  /\ ~PowerLoss
  /\ jfile' \in IF jex THEN KilledJournals ELSE {EmptyJournal}
  /\ jdur' = IF jex THEN jdur ELSE 0
  /\ UNCHANGED <<disk, jex, dent>>

LosePower ==
  /\ PowerLoss
  /\ size' \in {size, dsize}
  /\ db' \in LostFiles(size')
  /\ ddb' = db' /\ dsize' = size'
  /\ jex' \in {jex, dent}
  /\ jfile' \in IF jex' THEN LostJournals ELSE {EmptyJournal}
  /\ dent' = jex' /\ jdur' = Units(jfile')

Crash ==
  /\ phase # "closed"
  /\ Kill \/ LosePower
  /\ ProcessEnds
  /\ committed' = Recovered(db', size', jex', jfile')

-----------------------------------------------------------------------------
Recovery ==
  \/ ReplayRefused \/ ReplayRecord \/ ReplayEnd \/ ReplayTruncate \/ ReplaySync
  \/ Remove \/ OpenDirSync \/ RollbackDirSync \/ RollbackTruncate \/ Stat

Committing ==
  \/ JournalSync \/ FlushEnd \/ FlushTruncate \/ FlushSync \/ CommitDirSync
  \/ \E p \in Page : FlushPage(p)

Writing == JournalCreate \/ JournalHeader \/ \E x \in Data : JournalAppend(x)

Client ==
  \/ Open \/ Begin \/ Allocate \/ Commit \/ Rollback \/ Close
  \/ \E p \in Page : Get(p) \/ WriteJournaled(p)
  \/ \E p \in Page, x \in Data : WriteUnjournaled(p, x)

Next == Client \/ Writing \/ Committing \/ Recovery \/ IOError \/ HandleClosed \/ Crash

Spec == Init /\ [][Next]_vars

\* A call that has begun is carried on: the pager has one thread and no lock.
Fairness ==
  WF_vars(Writing) /\ WF_vars(Committing) /\ WF_vars(Recovery) /\ WF_vars(HandleClosed)

FairSpec == Spec /\ Fairness

-----------------------------------------------------------------------------
TypeOK ==
  /\ db \in [Page -> Data] /\ size \in 0 .. MaxPages
  /\ ddb \in [Page -> Data] /\ dsize \in 0 .. MaxPages
  /\ jex \in BOOLEAN /\ dent \in BOOLEAN
  /\ jfile \in JournalFile /\ jfile.pages <= MaxPages /\ jdur \in Nat
  /\ cache \in [Page -> Data \cup {Absent}] /\ dirty \subseteq Page
  /\ count \in 0 .. MaxPages /\ startCount \in 0 .. MaxPages
  /\ inTxn \in BOOLEAN /\ handle \in {"none", "open", "closed"}
  /\ op \in {"none", "open", "write", "commit", "rollback", "close"}
  /\ phase \in Phases
  /\ ri \in Nat /\ 1 <= ri /\ wpage \in Page
  /\ active \in BOOLEAN
  /\ committed \in [n : 0 .. MaxPages, img : [Page -> Data]]

\* r has every page of s, with the content s gives it.
Extends(r, s) == r.n >= s.n /\ \A p \in Page : p < s.n => r.img[p] = s.img[p]

\* At every moment, what a crash would leave to the next Open is the committed
\* database.  A commit under way may already have replaced it, or, when it
\* allocated pages and changed none, may have added some of its pages to it.
\* This is the promise of the journal: Replay in Open (pager.go:40-47) undoes
\* whatever part of Flush reached the file.
Recoverable ==
  LET r == Recovered(db, size, jex, jfile) IN
    \/ r = committed
    \/ op = "commit" /\ r = View
    \/ inTxn /\ handle = "none" /\ Extends(r, committed)

\* The write-ahead rule of pager.Commit, "pre-images durable FIRST": a page of
\* the file differs from its committed content only while a durable record of
\* a durable journal holds that content, and no
\* record of that page holds anything else.
WriteAhead ==
  phase # "dirsync" =>
    \A p \in Page :
      p < committed.n /\ db[p] # committed.img[p] =>
        /\ jex /\ jfile.hdr /\ jfile.pages = committed.n
        /\ PowerLoss => dent
        /\ \E i \in Records(jfile, p) : i < jdur
        /\ \A i \in Records(jfile, p) : jfile.recs[i].data = committed.img[p]

\* Outside a transaction the callers see exactly the committed database: a
\* rollback, a recovery or a failed statement has left nothing behind, neither
\* in the cache nor in the page count.
CommittedView == phase = "ready" /\ ~active => View = committed

\* Every page a caller may ask for can be read: Get never meets the end of the
\* file (pager.go:74).
NoShortRead ==
  phase = "ready" => \A p \in Page : p < count => cache[p] # Absent \/ p < size

\* Open never meets a journal that Replay refuses.
OpenAccepts == At("open", "replay") => jfile.hdr

\* The state the client relies on changes only by its own COMMIT: when COMMIT
\* returns, or when a crash during it lets the next Open find it done.  A crash
\* at any other moment, a recovery and a rollback all leave it as it was.
OldOrNew ==
  [][committed' # committed =>
       \/ op = "commit" /\ committed' = View
       \/ inTxn /\ handle = "none" /\ Extends(committed', committed)]_vars

\* The pager implements the atomic database of AtomicPages: the cache over the
\* file is what the client works on, and what its last commit left is what the
\* file and the journal together recover.
mode == IF phase = "closed" \/ op = "open" THEN "down" ELSE IF active THEN "txn" ELSE "idle"

Atomic == INSTANCE AtomicPages WITH
  stable <- committed, work <- IF mode = "down" THEN committed ELSE View

RefinesAtomic == Atomic!Spec

\* A COMMIT, a ROLLBACK or an Open that has begun returns, unless the process
\* dies first: Flush and the replay loop come to an end.
CallsReturn == phase \notin {"ready", "closed"} ~> phase \in {"ready", "closed"}
=============================================================================
