-------------------------- MODULE ExportRefinement --------------------------
(***************************************************************************)
(* The concurrent export implements the sequential one.  The plan is       *)
(* defined from the records alone: which records are located, in which     *)
(* order, and which clusters of the disk each run list denotes.            *)
(***************************************************************************)
EXTENDS ExportPipeline, SequencesExt

\* The records whose data are located, in order: nothing of a folder, and the linked
\* records in place of a record that has some.
Parts ==
  [k \in DOMAIN records |->
    IF mft[records[k]].folder THEN <<>>
    ELSE IF mft[records[k]].links = <<>> THEN <<records[k]>>
    ELSE mft[records[k]].links]
Units == FlattenSeq(Parts)

\* A run list: offsets are relative to the previous run, the first one to the
\* partition; the list ends at the first run that starts beyond the disk, and a run
\* without an offset is no cluster of the file.
Starts(rs) ==
  LET at[k \in 1 .. Len(rs)] == (IF k = 1 THEN job.part ELSE at[k - 1]) + rs[k].off IN at
OffDisk(rs) == {k \in DOMAIN rs : Starts(rs)[k] > job.disk}
Inside(rs) == IF OffDisk(rs) = {} THEN Len(rs) ELSE Min(OffDisk(rs)) - 1
Pieces(rs) ==
  [k \in DOMAIN rs |-> IF rs[k].off # 0 /\ rs[k].len > 0
                       THEN <<[at |-> Starts(rs)[k], len |-> rs[k].len]>> ELSE <<>>]
Mapped(rs) == FlattenSeq(SubSeq(Pieces(rs), 1, Inside(rs)))

ContentOf(r) ==
  IF mft[r].data.kind = "resident" THEN <<[at |-> -1, len |-> mft[r].data.size]>>
  ELSE Mapped(RunListOf(r))

Plan ==
  [k \in DOMAIN Units |->
    LET u == Units[k] IN
    [path |-> [id |-> IF job.strategy = "Id" THEN mft[u].entry ELSE -1,
               name |-> GetFname(u)],
     content |-> ContentOf(u)]]

Sequential == INSTANCE SequentialExport WITH
  plan   <- Plan,
  count  <- Len(written),
  stage  <- CASE epc = "open" -> "removed" [] epc = "append" -> "opened" [] OTHER -> "next",
  status <- IF mpc \in {"hash", "done"} \/ records = <<>> THEN "returned"
            ELSE IF crashed THEN "aborted" ELSE "running"

\* The goroutines, the channel and the WaitGroup add nothing to the loop: the files
\* change as the sequential export changes them, and ExportRecords returns when the
\* plan is exhausted.
ImplementsSequential == Sequential!Spec

-----------------------------------------------------------------------------
\* README.md:52: "hash exported files": the file of every result is hashed.
ExportedFilesHashed ==
  mpc = "done" /\ job.hash # "" /\ faulty = {} =>
    \A k \in DOMAIN written :
      \E l \in DOMAIN hashes : HashNameOf(hashes[l].rec) = PathOf(written[k])
=============================================================================
