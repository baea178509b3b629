------------------------------ MODULE MCExport ------------------------------
(***************************************************************************)
(* Five records: a plain file, a second file that may share its name, a    *)
(* folder, a file with an attribute list, and the extension record of it,  *)
(* which has no name of its own and is not linked.                         *)
(***************************************************************************)
EXTENDS ExportRefinement

CONSTANTS file, twin, dir, base, ext, a, b, dash

MCRec     == {file, twin, dir, base, ext}
MCNames   == {a, b, dash}  \* GetFname of a record without a name is "-"
MCEntries == 0..4

NoData     == [kind |-> "none", size |-> 0, runs |-> <<>>]
Resident   == [kind |-> "resident", size |-> 1, runs |-> <<>>]
Runs(rs)   == [kind |-> "runs", size |-> 0, runs |-> rs]
Rn(o, l)   == [off |-> o, len |-> l]

Backward == Runs(<<Rn(5, 2), Rn(0, 1), Rn(-3, 1)>>)  \* sparse run, then a lower cluster
Beyond   == Runs(<<Rn(2, 1), Rn(9, 1), Rn(-8, 1)>>)  \* second run starts beyond the disk

R(e, f, nm, d) ==
  [entry |-> e, folder |-> f, fname |-> nm, data |-> d, links |-> <<>>, origin |-> NoRec]

Table(d1, n2, d2, db) ==
  (file :> R(0, FALSE, a, d1)) @@
  (twin :> R(1, FALSE, n2, d2)) @@
  (dir  :> R(2, TRUE, b, NoData)) @@
  (base :> R(3, FALSE, b, db)) @@
  (ext  :> R(4, FALSE, dash, Runs(<<Rn(4, 1)>>)))

Empty == [k \in Keys |-> NoFile]
Old   == [k \in Keys |-> IF k.id = NoId THEN <<[at |-> 9, len |-> 9]>> ELSE NoFile]

J(rs, t, s, hs, fs) ==
  [records |-> rs, mft |-> t, strategy |-> s, hash |-> hs, part |-> 1, disk |-> 10,
   files |-> fs]

\* Three records in every combination of data and shared names, into a directory that
\* holds an older file of every name.
Busy ==
  {J(<<file, base, twin>>, Table(d1, n2, d2, Runs(<<Rn(7, 1)>>)), s, "MD5", Old) :
     d1 \in {Resident, Backward}, n2 \in {a, b}, d2 \in {Resident, Beyond, NoData},
     s \in {"overwrite", "Id"}}

\* Nothing to export, only a folder, a folder between two files; a hash that is not
\* asked for, and one that is not supported.
Plain ==
  {J(rs, Table(Backward, n2, Resident, NoData), "overwrite", hs, Empty) :
     rs \in {<<>>, <<dir>>, <<file, dir, twin>>}, n2 \in {a, b}, hs \in {"", "MD5", "md5"}}

\* An extension record as a file of its own, its file with the first piece of the DATA
\* or with none; and a record that two extensions have selected twice.
Lists ==
  {J(rs, Table(Resident, a, Resident, db), s, "MD5", Old) :
     rs \in {<<ext, base>>, <<file, ext, file>>}, db \in {Runs(<<Rn(7, 1)>>), NoData},
     s \in {"overwrite", "Id"}}

MCJobs == Busy \union Plain \union Lists

HashJobs == {J(<<file, twin>>, Table(Resident, b, Resident, NoData), s, "MD5", Empty) :
               s \in {"overwrite", "Id"}}
=============================================================================
