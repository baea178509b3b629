------------------------------- MODULE MCUsn -------------------------------
(***************************************************************************)
(* Five $MFT records: a journal with runs of every kind, a second one, a   *)
(* resident file, a folder and a record without DATA.                      *)
(***************************************************************************)
EXTENDS UsnJournal, TLC

CONSTANTS journal, brief, other, dir, broken

MCRec == {journal, brief, other, dir, broken}

\* The parent is the root directory; a USN, a time, a reason, no source, an id and a flag.
Mid(n) == <<5, 0, 0, 5, 80 * n, 0, 0, 0, 1, 2, 55555, 465, 256, 0, 0, 0, 259, 0, 32, 0>>

\* A record of 80 bytes about file n, of 10 characters; the one that ends in a j (106)
\* makes the walk leave 60 bytes of 512.
It(n)  == [ref |-> n, seq |-> 1, mid |-> Mid(n), name |-> [k \in 1 .. 10 |-> 97]]
ItJ(n) == [It(n) EXCEPT !.name[10] = 106]

Read(s) == [kind |-> "read", items |-> s, size |-> 512, spare |-> FALSE]
Sparse  == [Read(<<>>) EXCEPT !.kind = "sparse"]
Beyond  == [Read(<<>>) EXCEPT !.kind = "beyond"]

\* A resident file: two records of 88 and of 80 bytes; the record of the $MFT is behind it.
Small == [Read(<<[It(15) EXCEPT !.name = [k \in 1 .. 12 |-> 97]], It(16)>>)
            EXCEPT !.size = 168, !.spare = TRUE]

R(f, d, rs, n) == [folder |-> f, data |-> d, runs |-> rs, links |-> <<>>, size |-> n]

\* A sparse run before the data, one record by itself, three of which the walk sees one,
\* six that it leaves with an error, a run beyond the disk and one more behind it.
Long  == <<Sparse, Read(<<It(1)>>), Read(<<It(2), It(3), It(4)>>),
           Read(<<It(5), It(6), It(7), It(8), It(9), It(10)>>), Beyond, Read(<<It(11)>>)>>

\* Zeros only, and a chunk that leaves 60 bytes, with and without room behind it.
Brief(spare) == <<Read(<<>>), [Read(<<It(12), It(13), ItJ(14)>>) EXCEPT !.spare = spare]>>

Table(n, m, spare) ==
  (journal :> R(FALSE, "runs", Long, n)) @@
  (brief   :> R(FALSE, "runs", Brief(spare), m)) @@
  (other   :> R(FALSE, "resident", <<Small>>, m)) @@
  (dir     :> R(TRUE, "none", <<>>, 0)) @@
  (broken  :> R(FALSE, "none", <<>>, 0))

\* Sizes from a channel without a buffer to one that takes all chunks.
MCJobs ==
  {[mftrecords |-> rs, mft |-> Table(n, m, spare)] :
     rs \in {<<>>, <<journal, dir, brief>>, <<other, brief, broken, journal>>},
     n \in {0, 1, 4}, m \in {0, 2}, spare \in BOOLEAN}
=============================================================================
