------------------------------ MODULE MFTTable ------------------------------
(***************************************************************************)
(* NTFS.Process (disk/volume/ntfs.go) and MFTTable (FS/NTFS/MFT/Table.go): *)
(* the $MFT is collected from the disk, the selected records are parsed    *)
(* into a table, and the references between the records are resolved into  *)
(* pointers: extension records, parent directories and file sizes.         *)
(*                                                                         *)
(* The volume of -evidence and -vmdk is an image; that of -physicaldrive   *)
(* is in use while it is read.  A pointer to a record is its index in the  *)
(* table.  One method call is one step, but for CollectMFTArea, which reads *)
(* the disk piece by piece.                                                *)
(*                                                                         *)
(* What Process makes of a record is in RecordParser: an attribute list    *)
(* yields no linked records, and of an index the entries in the index      *)
(* root are all that is known.                                             *)
(***************************************************************************)
EXTENDS NTFSVolume, SequencesExt

CONSTANTS
  Calls,   \* the calls of NTFS.Process that are considered
  MaxBad   \* bound on the unreadable records

NoFrom == -1
NoLimit == N  \* the default of -toEntry, math.MaxUint32: beyond every entry

Selection == [entries: Seq(Nat), from: Nat \union {NoFrom}, to: Nat]
NoSelection == [entries |-> <<>>, from |-> NoFrom, to |-> NoLimit]

\* live: the volume is in use while it is read.  large: the entries of the $I30 indexes
\* are in index blocks, not in the index root.  ops: bound on the operations of the driver.
Call == [sel: Selection, live: BOOLEAN, large: BOOLEAN, ops: 0 .. MaxOps]

ASSUME TableAssumption == Calls \subseteq Call /\ MaxBad \in Nat

VARIABLES
  call,     \* the call; never changes
  phase,    \* "volume", "collect", "select", "nonresident", "link", "parents", "sizes",
            \* "done" or "panic"
  since,    \* how many operations have changed the volume while it was being read
  image,    \* the records read by CollectMFTArea, unreadable ones with signature "BAAD"
  Records   \* mfttable.Records

sel == call.sel

vars == <<slots, ops, call, phase, since, image, Records>>

-----------------------------------------------------------------------------
(* Records in memory.                                                      *)

MemRecord ==
  [entry: Entries, seq: 0 .. SeqModulus - 1, gen: Nat, used: BOOLEAN, folder: BOOLEAN,
   parent: Ref \union {NoRef}, index: SUBSET Ref, LinkedRecordsInfo: Seq(Ref),
   LinkedRecords: Seq(Entries), OriginLinkedRecord: Entries \union {None},
   Parent: Entries \union {None}, I30Size: Nat]

\* The entries of an attribute list are parsed without a type, and only those of type
\* DATA would be linked.
InMemory(c, index) ==
  [entry |-> c.entry, seq |-> c.seq, gen |-> c.gen, used |-> c.used, folder |-> c.folder,
   parent |-> c.parent, index |-> index, LinkedRecordsInfo |-> <<>>,
   LinkedRecords |-> <<>>, OriginLinkedRecord |-> None, Parent |-> None, I30Size |-> 0]

\* The zero value of Record, at the entries that were skipped.
Zero == InMemory(Unused(0), {})

\* A zero area, and a record without the FILE signature, are skipped.
Readable(e) == ~image[e + 1].bad /\ image[e + 1].content.gen # 0

\* The difference of two uint16.
SeqDiff(seq, ref) == (seq - ref) % SeqModulus

IgnoresReuse(r) ==
  /\ r.entry \in DOMAIN Records /\ Records[r.entry].entry = r.entry
  /\ SeqDiff(Records[r.entry].seq, r.seq) <= 2
EntryOnly(r) == r.entry \in DOMAIN Records /\ Records[r.entry].entry = r.entry

\* GetRecord finds a record at its entry, with the sequence number of the reference or
\* the next one.  The search of all records beyond the table finds nothing: every record
\* is stored at its entry.
HasRecord(r) ==
  /\ r.entry \in DOMAIN Records /\ Records[r.entry].entry = r.entry
  /\ SeqDiff(Records[r.entry].seq, r.seq) <= 1

-----------------------------------------------------------------------------
Init ==
  /\ VolumeInit
  /\ call \in Calls
  /\ phase = "volume" /\ since = 0 /\ image = <<>> /\ Records = <<>>

\* The file system is in use before it is imaged, and a live one until it has been read.
UseVolume ==
  /\ phase = "volume" \/ (call.live /\ phase = "collect")
  /\ ops < call.ops /\ Operation
  /\ since' = IF phase = "collect" THEN since + 1 ELSE since
  /\ UNCHANGED <<call, phase, image, Records>>

Start ==
  /\ phase = "volume" /\ phase' = "collect"
  /\ UNCHANGED <<slots, ops, call, since, image, Records>>

CollectedTwice(c) == image \o <<c, c>>
Collected(c) == Append(image, c)

\* CollectMFTArea reads the $MFT run by run.
CollectMFTArea ==
  /\ phase = "collect"
  /\ IF Len(image) < N
     THEN /\ \E bad \in BOOLEAN :
               /\ bad => /\ Len(image) \notin {0, Root}
                         /\ Cardinality({k \in DOMAIN image : image[k].bad}) < MaxBad
               /\ image' = Collected([content |-> slots[Len(image)], bad |-> bad])
          /\ UNCHANGED phase
     ELSE phase' = "select" /\ UNCHANGED image
  /\ UNCHANGED <<slots, ops, call, since, Records>>

\* The range checks of ProcessMFT.
FromTotal == IF sel.from = NoFrom THEN N ELSE N - sel.from
OutOfRange ==
  \/ sel.from > FromTotal
  \/ sel.to # NoLimit /\ sel.to > FromTotal

\* The records ProcessMFT copies, and how many copies there are.
Chosen ==
  IF sel.entries = <<>> THEN {e \in Entries : sel.from <= e /\ e <= sel.to}
  ELSE {e \in Entries : e <= sel.to /\ \E j \in DOMAIN sel.entries : sel.entries[j] = e}
Copies ==
  IF sel.entries = <<>> THEN Cardinality(Chosen)
  ELSE Cardinality({j \in DOMAIN sel.entries : sel.entries[j] \in Chosen})

\* The table has as many records as were selected, and a record is stored at its entry.
ProcessMFT ==
  /\ phase = "select"
  /\ IF OutOfRange \/ \E e \in Chosen : Readable(e) /\ e >= Copies
     THEN phase' = "panic" /\ UNCHANGED Records
     ELSE /\ Records' = [e \in 0 .. Copies - 1 |->
               IF e \in Chosen /\ Readable(e)
               THEN LET c == image[e + 1].content
                    IN InMemory(c, IF call.large THEN {} ELSE c.index)
               ELSE Zero]
          /\ phase' = "nonresident"
  /\ UNCHANGED <<slots, ops, call, since, image>>

\* ProcessNonResidentRecords reads the non resident attributes but DATA.  Those it parses
\* leave nothing the table depends on: of an index block not even the signature.
ProcessNonResidentRecords ==
  /\ phase = "nonresident" /\ phase' = IF sel = NoSelection THEN "link" ELSE "done"
  /\ UNCHANGED <<slots, ops, call, since, image, Records>>

OtherPart(k, r) == Records[k].entry # r.entry /\ HasRecord(r)

\* The entries linked to record k: a record cannot point to itself.
Linked(k) ==
  LET info == Records[k].LinkedRecordsInfo
  IN FlattenSeq([j \in DOMAIN info |-> IF OtherPart(k, info[j]) THEN <<info[j].entry>> ELSE <<>>])

\* The origin of a record is the last one that links it.
OriginOf(k) ==
  LET bases == {b \in DOMAIN Records : \E j \in DOMAIN Linked(b) : Linked(b)[j] = k}
  IN IF bases = {} THEN None ELSE CHOOSE b \in bases : \A c \in bases : c <= b

CreateLinkedRecords ==
  /\ phase = "link" /\ phase' = "parents"
  /\ Records' = [k \in DOMAIN Records |->
       [Records[k] EXCEPT !.LinkedRecords = Linked(k), !.OriginLinkedRecord = OriginOf(k)]]
  /\ UNCHANGED <<slots, ops, call, since, image>>

\* The reference in the FileName attribute; a record without one has no parent.
FindParentRecords ==
  /\ phase = "parents" /\ phase' = "sizes"
  /\ Records' = [k \in DOMAIN Records |->
       IF Records[k].parent # NoRef /\ HasRecord(Records[k].parent)
       THEN [Records[k] EXCEPT !.Parent = Records[k].parent.entry]
       ELSE Records[k]]
  /\ UNCHANGED <<slots, ops, call, since, image>>

\* The size that the last directory with an entry for record k gives for it; the size of
\* a file stands for the file, so it is gen.  Directories have no size.
SizeEntries(k, d) ==
  {r \in Records[d].index : Records[d].folder /\ r.entry = k /\ HasRecord(r)}
SizeOf(k) ==
  LET dirs == {d \in DOMAIN Records : SizeEntries(k, d) # {}}
  IN IF Records[k].folder \/ dirs = {} THEN 0
     ELSE LET last == CHOOSE d \in dirs : \A c \in dirs : c <= d
          IN (CHOOSE r \in SizeEntries(k, last) : TRUE).gen

CalculateFileSizes ==
  /\ phase = "sizes" /\ phase' = "done"
  /\ Records' = [k \in DOMAIN Records |-> [Records[k] EXCEPT !.I30Size = SizeOf(k)]]
  /\ UNCHANGED <<slots, ops, call, since, image>>

\* Where the loop of GetFullPath over the parents of a record stops.
StopsAtNil(p) == p = None
PathStops(p) == p \in {None, Root}

Ended == phase \in {"done", "panic"} /\ UNCHANGED vars

Next ==
  \/ UseVolume \/ Start \/ CollectMFTArea \/ ProcessMFT \/ ProcessNonResidentRecords
  \/ CreateLinkedRecords \/ FindParentRecords \/ CalculateFileSizes \/ Ended

Spec == Init /\ [][Next]_vars

-----------------------------------------------------------------------------
(* Properties.                                                             *)

TypeOK ==
  /\ slots \in [Entries -> Slot] /\ ops \in 0 .. MaxOps
  /\ call \in Calls
  /\ phase \in {"volume", "collect", "select", "nonresident", "link", "parents", "sizes",
                "done", "panic"}
  /\ since \in 0 .. ops
  /\ image \in Seq([content: Slot, bad: BOOLEAN]) /\ Len(image) <= N
  /\ \E n \in 0 .. N + Len(sel.entries) : Records \in [0 .. n - 1 -> MemRecord]

\* How many files further on in its entry the record can be that GetRecord takes for the
\* one referred to (Table.go:108-115), under each reading of MFT.go:66: none if the driver
\* counts both when it allocates and when it frees an entry; the next file if it does not
\* count a deletion; that or, in a volume in use, the one before if it counts nothing else.
Tolerated ==
  IF "free" \notin CountedOn THEN {0, 1}
  ELSE IF "alloc" \notin CountedOn THEN -1 .. 1 ELSE {0}

\* Every pointer to a parent directory leads to the entry that the FileName attribute refers
\* to, and to the directory that was there, as it is or as it was when it was deleted, or
\* to a tolerated neighbour of it, never to any other file that got its entry; and it is
\* there whenever that directory has been read.
ParentIsReferredDirectory ==
  phase = "done" /\ sel = NoSelection =>
    \A k \in DOMAIN Records :
      LET r == Records[k].parent
          there == r # NoRef /\ Records[r.entry].entry = r.entry
          after == Records[r.entry].gen - r.gen
      IN /\ Records[k].Parent \in {None, r.entry}
         /\ Records[k].Parent # None => there /\ after \in Tolerated
         /\ there /\ after = 0 => Records[k].Parent # None

\* The I30 size of a record was computed from an index entry of the same file, or of a
\* tolerated neighbour of it, and every file that an index in memory still names has one.
SizeIsOwn ==
  phase = "done" /\ sel = NoSelection =>
    \A k \in DOMAIN Records :
      /\ Records[k].I30Size # 0 => Records[k].gen - Records[k].I30Size \in Tolerated
      /\ (\E d \in DOMAIN Records : \E r \in Records[d].index :
             r.entry = k /\ r.gen = Records[k].gen /\ ~Records[k].folder)
           => Records[k].I30Size # 0

\* The loop of GetFullPath over the parents of a record ends, at the root directory or at
\* a record without a parent, in the table of an image, and in that of a volume in use
\* unless it was changed more than once while it was read: two moves put each of two
\* directories into the other, one as it was and one as it is.
PathsEnd ==
  phase = "done" /\ since <= 1 =>
    \A k \in DOMAIN Records :
      LET up[j \in 0 .. N] ==
            IF j = 0 THEN Records[k].Parent
            ELSE IF PathStops(up[j - 1]) THEN None
            ELSE Records[up[j - 1]].Parent
      IN PathStops(up[N])

\* README.md:34, "select file system records by entering its id": every readable record
\* that is selected is in the table.
SelectedRecordsLoaded ==
  phase \in {"done", "panic"} =>
    \A j \in DOMAIN sel.entries :
      LET e == sel.entries[j] IN
      e \in Entries /\ e <= sel.to /\ Readable(e)
        => \E k \in DOMAIN Records : Records[k].entry = e /\ Records[k].gen = image[e + 1].content.gen

\* Table.go:113, "entry %d has been reallocated": a record with another file than the one
\* referred to is refused, and never becomes a parent.
ReallocatedRefused ==
  phase = "done" =>
    \A k \in DOMAIN Records :
      Records[k].Parent # None => Records[Records[k].Parent].gen = Records[k].parent.gen
=============================================================================
