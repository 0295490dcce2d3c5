------------------------------ MODULE Journal ------------------------------
(***************************************************************************)
(* The rollback journal file of internal/journal: a header that records    *)
(* how many pages the database had when the transaction began, followed by *)
(* one checksummed record per page holding the page's original content.    *)
(*                                                                         *)
(* A page's 4096 bytes are one member of Data.  A record whose checksum    *)
(* does not match, or that is cut short, is a record with ok = FALSE:      *)
(* Replay stops at the first of those whatever its bytes are.              *)
(***************************************************************************)
EXTENDS Integers, Sequences

CONSTANTS Page, \* page numbers
          Data  \* page contents

JournalRecord == [id : Page, data : Data, ok : BOOLEAN]

\* hdr is FALSE while the file is shorter than its 16 byte header.
JournalFile == [hdr : BOOLEAN, pages : Nat, recs : Seq(JournalRecord)]

\* The file as os.OpenFile(O_CREATE|O_TRUNC) leaves it.
EmptyJournal == [hdr |-> FALSE, pages |-> 0, recs |-> << >>]

\* The header written: magic, page count at BEGIN, page size.
HeaderOnly(n) == [hdr |-> TRUE, pages |-> n, recs |-> << >>]

\* A record written whole, and one of which only a part reached the file.
AppendUnit(j, p, d, b) == [j EXCEPT !.recs = Append(@, [id |-> p, data |-> d, ok |-> b])]
AppendRecord(j, p, d) == AppendUnit(j, p, d, TRUE)
AppendTorn(j, p, d) == AppendUnit(j, p, d, FALSE)

\* The file cut after its first k units, where unit 1 is the header and unit
\* k + 1 is record k.
Prefix(j, k) ==
  IF k = 0 THEN EmptyJournal ELSE [j EXCEPT !.recs = SubSeq(@, 1, k - 1)]

Units(j) == IF j.hdr THEN Len(j.recs) + 1 ELSE 0

\* The records Replay applies: those before the first bad one.
Valid(j) == {i \in 1..Len(j.recs) : \A k \in 1..i : j.recs[k].ok}

Records(j, p) == {i \in Valid(j) : j.recs[i].id = p}

Journaled(j, p) == Records(j, p) # {}

\* What a whole replay leaves in a journaled page: records are applied in
\* file order, so the last one wins.
PreImage(j, p) ==
  LET IsLast(i) == \A k \in Records(j, p) : k <= i
  IN  j.recs[CHOOSE i \in Records(j, p) : \A k \in Records(j, p) : IsLast(k) => k = i].data
=============================================================================
