# FileSystemForensics in TLA+

FileSystemForensics (the repository is called MFTExtractor) reads a disk, an
EWF or a VMDK image, finds the NTFS volumes on it, reads the `$MFT` of each,
resolves the references between its records, and shows, exports or hashes what
they describe. This directory holds a TLA+ model of the parts of it that have
state, TLC runs that check them on small instances, and TLAPS proofs.

Paths below are relative to `src/`. Line numbers are those of the commit the
models were written from.

## 1. The system

| Component | Source | State | Operations |
|---|---|---|---|
| Partitions and volumes | `disk/disk.go`, `disk/partition/MBR`, `disk/partition/GPT` | the list `Disk.Partitions`, the volume of each | `Disk.Process`: `DiscoverPartitions`, `ProcessPartitions`, `DiscoverFileSystems`, `GetFileSystemMetadata` |
| `$MFT` table | `disk/volume/ntfs.go`, `FS/NTFS/MFT/Table.go`, `FS/NTFS/MFT/MFT.go` | the table of records with pointers between them | `NTFS.Process`: `CollectMFTArea`, `ProcessMFT`, `ProcessNonResidentRecords`, `CreateLinkedRecords`, `FindParentRecords`, `CalculateFileSizes` |
| Directory tree | `tree/builder.go` | nodes with an entry range | `Build`, `AddRecord`, `insert` |
| Export | `exporter/exporter.go`, `disk/disk.go` (`Worker`), `MFT.go` (`LocateData`) | a channel of results, a WaitGroup, the export directory | `ExportRecords`, `HashFiles` |
| Unallocated clusters | `exporter/exporter.go`, `disk/disk.go`, `disk/volume`, `attributes/bitmap.go` | a channel of blocks, one file | `ExportUnallocated`, `CollectedUnallocated`, `CollectUnallocated` |
| USN journal | `FS/NTFS/usnjrnl/usnjrnl.go`, `disk/disk.go` (`AsyncWorker`), `MFT.go` (`LocateDataAsync`) | two channels and a WaitGroup per `$MFT` record | `Process`, `AsyncProcess` |
| Record and attribute parsers | `MFT.go` (`Record.Process`), `attributes`, `utils` (`Unmarshal`) | the record parsed into, the offsets in it and in its attributes | `Process`, `ProcessNoNResidentAttributes`, `Parse` of lists, run lists and indexes |
| Filters | `filters`, `filtermanager`, `MFT.go` | the list of filters, the list of records | `Register`, `ApplyFilters` |
| Disk readers | `img` | an open handle | `ReadFile`, `GetDiskSize` |
| LVM and mdraid | `disk/volume/lvm.go`, `disk/raid` | decoded headers, the data areas | `ProcessHeader`, `Process` |
| BTRFS | `FS/BTRFS` | the superblock | `Process`, decoding |
| Reporter | `reporter`, `MFT.go`, `tree/builder.go` | none | `Show` |
| Logger, utilities | `logger`, `utils` | a log file | logging, decoding |
| Command line | `main.go` | flags | the order of everything above |

How they interact. `main` calls `Disk.Process`, which fills the partitions and
makes every volume read its `$MFT`. If asked it then exports the unallocated
clusters (main and one goroutine, one channel). For every partition in the map
that `GetFileSystemMetadata` returns it filters the records, exports them (main
and two goroutines over one channel), hashes the files, reads the journal (main
and two goroutines per record over two channels), adds the records to one tree
and prints. In this commit the statement that fills that map is a comment
(`disk.go:203`), so the loop of `main` is never entered; the functions behind it
are modelled as they would be called.

What is hard in this code:

* three sets of goroutines, joined by channels and WaitGroups, of which one set
  is not joined at all (`exporter.go:40`);
* panics in a goroutine, which end the process while another one is between the
  removal of a file and its rewriting;
* volumes that are in use while their `$MFT` is read, and references to entries
  that have been freed and allocated again;
* search by ranges that are updated step by step, over one tree for all volumes;
* structures read by reflection, where a field of an unexpected kind moves all
  fields behind it, and loops over lengths that were read that way;
* off-by-one and modular arithmetic: 0-based and 1-based numbers of partitions,
  relative sector numbers, `uint8` and `uint16` products.

What makes each component correct, in words: a volume is read where it lies,
once, and only if it was selected; what is in memory of an attribute is what was
stored; a filter keeps what was asked for; a pointer leads to the file that was referred
to, never to another one that got its entry, and pointers form no cycle; the
tree is the one an exhaustive search would build; the directory after an export
is that of a sequential loop, and nobody reads it too early; the journal records
are those of a sequential loop; every goroutine ends.

The list of hazards, each with its line and the properties aimed at it, is in
`PROJECT.json`.

## 2. Modules

| Module | Models | Used by |
|---|---|---|
| `ExportPipeline` | `ExportRecords`, `Worker`, `LocateData`, `ExportData`, `CreateFile`, `WriteFile`, `HashFiles` | |
| `SequentialExport` | abstract: a loop that replaces one file after another | |
| `ExportRefinement` | the mapping of the first to the second | |
| `MCExport` | instance | runs `export*` |
| `ExportProofs` | theorems about `ExportPipeline` | |
| `RefinementProofs` | theorem: `ExportPipeline` implements `SequentialExport` | |
| `TreeBuilder` | `Tree.Build`, search by ranges | |
| `ParentTree` | abstract: search of all nodes | |
| `MCTree` | instance | run `tree` |
| `TreeProofs` | theorems about `TreeBuilder` | |
| `NTFSVolume` | external: what a file system driver does to a `$MFT` | `MFTTable` |
| `MFTTable` | `NTFS.Process` and the table | |
| `MCTable` | instance | runs `mft*` |
| `TableProofs` | theorems about `MFTTable` | |
| `Unmarshal` | `utils.Unmarshal`: where the fields of a structure are read, and where they are stored | `Layouts` |
| `Layouts` | every structure it fills: NTFS, partition tables, RAID, LVM, BTRFS | `RecordParser`, `UsnJournal` |
| `RecordParser` | `Record.Process` for the entries of a `$MFT`, `ProcessNoNResidentAttributes` | `RecordFilters` |
| `RecordFilters` | the filters of the command line, after the parser, and `Reporter.Show` after them | |
| `MCRecords` | instance | runs `record*` |
| `RecordProofs` | theorems about `RecordParser` and `RecordFilters` | |
| `DiskPartitions` | `Disk.Process` over MBR, extended, GPT and pseudo partitions, RAID members with LVM and BTRFS | `UnallocatedExport` |
| `UnallocatedExport` | the export of unallocated clusters after `Disk.Process` | |
| `MCDisk` | instance | runs `disk*` |
| `DiskProofs` | theorems about `DiskPartitions` and `UnallocatedExport` | |
| `UsnJournal` | `usnjrnl.Process`, `AsyncProcess`, `AsyncWorker`, `LocateDataAsync`, `Record.Parse` on bytes | |
| `MCUsn` | instance | run `usn` |
| `UsnProofs` | theorems about `UsnJournal` | |
| `Progress` | how much is left to do, as a tuple of numbers, the outermost loop first | `ExportPipeline`, `UsnJournal` |
| `SequenceLemmas` | lemmas: induction over an interval, flattened sequences, first and last elements, enumeration of a set in order, measures | `RefinementProofs`, `UsnProofs`, `DiskProofs`, `TableProofs`, `RecordProofs` |

`PROJECT.json` ("map") gives for every definition the lines it stands for.

### Export

State: `mpc`, `wpc`, `epc` are where main, `Worker` and `ExportData` are; `results` is
the channel, `closed` that it is closed; `wg` the WaitGroup; `files` the export
directory; `sent` and `written` are histories. One action per step of a goroutine that
another goroutine can see: the next record, the start of a run list, one run read, one
send, the close, one receive, `os.Remove`, the opening and the writing of the file, the
return. `Keys` are paths, which under the Id strategy carry the entry number. A record
has one source of DATA, its own: `Worker` also follows linked records, and the module
does, but the parser never links one (see below), so the instance has none. A run list
is a sequence of relative offsets and lengths, as the parser leaves it; content is the
sequence of cluster ranges that were read. `faulty` has the numbers of the results for
which a system call failed: the old file is not removed, or nothing is opened, or only a
beginning is written (`utils.go:320`, whose error is dropped); the code goes on in each
case, and so does the model. The properties exempt that result, not its path: the next
result of the same path must replace whatever was left there. `GetRunList` on a record
without a DATA attribute sets `crashed`: the process is gone, the files stay as they
are.

### Tree

A node is named by the path of list positions from the root, so its ancestors are
its prefixes; `tree` maps a node to its range. One `AddRecord` is one step. The
recursion of `insert` visits a set of nodes, `Visits`, defined without recursion:
the root, and a node whose range contains the parent's entry if the recursion
came to its parent and went on. All visited nodes that are the parent get the
record, as in the code; `WidenedNodes` is the walk of `updateEntryRange`.

### $MFT table

`NTFSVolume` produces the volumes the code can meet: files and directories are created,
moved into another directory, extended by extension records, deleted, and entries
allocated again. `gen` identifies the file and is not on the disk; the properties use
it, the code does not. `MFTTable` collects the `$MFT` entry by entry, for a volume in
use with operations of the driver in between, copies what was selected, parses, and
resolves. A pointer is an entry number. `BAAD` records are skipped, at most `MaxBad` of
them. Sequence numbers are taken modulo `SeqModulus`; they do not wrap around within the
bounded number of operations. `CountedOn` is what the driver increments a sequence
number for: allocations, deletions or both, as `MFT.go:66` leaves it "determined by the
OS". `GetRecord` accepts a number that is one off (`Table.go:112`); `Tolerated` says how
many files before or after the one referred to, in the same entry, can be taken for it
under each of the three: none with both, the next one with allocations only, the one
before or the next with deletions only. `since` is a history variable: how many
operations of the driver fell between the reads.

`RecordParser` is why an attribute list makes no linked records here and why the
entries of an index block are unknown: `large` calls have their indexes in blocks.

### Parser and filters

A record on disk is a sequence of attributes with lengths; of a resident one it has what
the code takes from it, of a non resident one the offset and the bytes of its run list,
of an attribute list the 16 bits at each offset, of an index node the lengths of its
entries. The run list of an attribute begins where the attribute says, at 64 or, if it
is sparse, compressed or has a name, further on. A record is as a file system writes it
(`IsSound`): a run list is the bytes of its runs (`IsRunList`), an index node is whole,
a FileName attribute is resident and has one name. `ProcessAttribute` and
`ParseListEntry` are one turn of a loop each. `SliceFails` is the slice of the name of a
list entry (`attrlist.go:46`), which the code takes for every entry, with an offset and
a length read from the wrong bytes: `NameEnd` is where it ends, `BufferEnd` where the
memory with the table ends. In front of that the slice reads what lies behind the list,
and the name is not used; behind it the code panics, or not if the memory was allocated
larger.

`Unmarshal` computes the offset of every field from the kinds of the fields before it. A
`string` has no case in `utils.Unmarshal` and is skipped without advancing, and so are
`int16`, slices and pointers. That decides what becomes of two structures: the entries
of an attribute list are read four bytes off, have no type, and the loop takes parts of
record numbers for their lengths; an index block has no signature, so its entries are
never parsed. `Layouts` lists the fields of every structure with the bytes they have on
disk, which are not part of the code but of the formats; `LayoutsAsStored` names the
thirteen structures in which a field is read from other bytes than its own or has none,
like `IndexEntry`, whose `ChildVCN` is filled from the name that follows, and `Record`,
whose `I30Size` is not stored. A reference to a record, which is stored in six bytes, is
read in six if its field is called `ParRef` and in eight otherwise.

`RecordFilters` goes on with the table: `Register` is the part of `main` that turns
options into filters, `ApplyFilter` one turn of the loop of the manager. Names are
model values with the set of extensions they end with; parents and paths are
those `MFTTable` gives. A table of `-MFT` (`file` in a job) is parsed and filtered
only: it has no parents and no paths. `ShowRecord` is one turn of the loop of
`Reporter.Show`: what it prints is left out, what it dereferences is not.

### Partitions and unallocated clusters

A disk is given by its partition tables and by the sectors at which NTFS boot sectors
and RAID superblocks are. `Located` is the three `LocateVolume`s: MBR partitions check
the signature, GPT ones do not, and logical ones read at a sector that is relative to
their table. `DiscoverFileSystem` reads a volume if a `$MFT` is where the boot sector
says, from the offset of the partition, and panics otherwise. What is found there can be
the `$MFT` of another volume than the one whose boot sector was read (`MFTVolume`):
cluster sizes are then those of the one, the bitmap that of the other, or missing if the
sizes differ (`HasBitmap`). The label and the data areas of a RAID member are taken from
its data (`ProcessHeader`), of which neither the signature is compared nor the content
known to be LVM; the superblock of BTRFS is read at its fixed place in the first data
area, and nothing more is read of it. `UnallocatedExport` goes on from there: blocks are
sequences of reads, a read is an offset and a length in bytes in the widths of the code,
and the buffer of a volume is never reset. The end of main ends the process; if main
waits and the collector is gone, the runtime ends it.

### USN journal

For every `$MFT` record new channels and a new WaitGroup. A chunk is what is read of
a run: journal records as they are stored, in halves of 16 bits, and what is left
of the run behind them. `Parse` reads a record at `offset` with the offsets of
`Layouts`, and goes on by the length that it computes; where a field is filled from the
halves of two others it is so in the model. A chunk that cannot hold the fixed part of
a record is an error, which ends the chunk; one that holds the fixed part but not the
62 bytes that are taken makes the goroutine, and the program, panic. The channel of
chunks has the logical size of the file as its capacity; an unbuffered send needs a
receiver.

## 3. Runs

Every run but the violations also checks for deadlock.

| Run | Shows |
|---|---|
| `export` | The interleavings of the three goroutines write what the sequential loop writes, in its order, and all of it before `ExportRecords` returns; a panic loses nothing written. |
| `export_hash` | *violation*: under the Id strategy nothing exported is hashed. |
| `tree` | Search by ranges equals exhaustive search, ranges cover, one place per record. |
| `mft` | Parents and sizes are those of the file referred to; paths end, in a volume in use unless it changed more than once. |
| `mft_entries` | *violation*: `-entries 2` panics. |
| `mft_reuse` | *violation*: where a driver counts a sequence number only when an entry is freed, the parent of a deleted file becomes the directory that got the entry of its own. |
| `records` | What was stored is in memory, what was asked for is selected, showing it panics over odd records only, every loop ends; the layouts of the structures. |
| `record_lists` | *violation*: the DATA of an attribute list is never linked. |
| `usn` | Reader, parser and collector give what one loop gives, and end; the parser panics only where its walk leaves 60 or 61 bytes of a chunk. |
| `disk` | Which volumes are read, from where, what may panic, which unallocated blocks are written; nobody waits for ever. |
| `disk_number` | *violation*: on a GPT disk `-partition 1` reads the second partition. |
| `disk_unallocated` | *violation*: unallocated clusters are missing from the file. |

The main properties, beyond the type invariants:

* `Protocol` (export, journal): the WaitGroup counts the goroutines that run, a
  channel is closed once and after the last send, the consumer ends with nothing
  left.
* `WaitCoversWrites`: all results sent are written when the wait returns.
* `LastWriterWins`, `CrashKeepsWritten`: what the directory holds after an export
  and after a panic, for every result for which no system call failed.
* `IdNeverOverwrites`, `HashOfOwnContent`: names and hashes.
* `ImplementsSequential`: the refinement of `SequentialExport`.
* `RangesCover`, `OneEntryOnePlace`, `ImplementsReference`: the tree. `ParentTree`, which
  the last one refers to, has its own definition of a parent.
* `ParsedAsStored`: run lists with offsets of either sign, the named entries of an index
  root though its slice stops short, no attribute over a byte that was not put back.
  `ListsReadInTable`: the parser panics over a name only from a list at the end of the
  last record that was read. `SelectedAsAsked`: a record is in the result as often as
  one of its names ends with an asked extension, or once, if all else that was asked
  holds. `ShownUnlessOddRecord`: which records and trees `Show` panics over.
  `LayoutsAsStored`, a part of `ParsedAsStored`: in which structures a field is read
  from the wrong bytes.
* `ParentIsReferredDirectory`, `SizeIsOwn`: the table, stated with `gen`; the code
  compares sequence numbers with a tolerance of one, and the properties say which file
  can be taken for the one referred to (`Tolerated`): no other one in the run, where the
  driver counts allocations and deletions. `PathsEnd`: the parents form no cycle, unless
  at least two operations of the driver fell between the reads of a volume in use.
* `VolumesReadAtTheirBoot`, `SelectedVolumesRead`, `PanicsAreExplained`,
  `BlocksAreRuns`, `OneVolumeIsCollected`: disks and unallocated clusters.
* `CollectedInOrder`, `PanicsAreExplained` (journal): what is collected, and when the
  parser runs beyond its chunk.
* `NoCircularWait` (export, journal): a goroutine that waits for a channel or the
  WaitGroup waits for one that can move, so that the runtime never finds all of them
  asleep. In the journal the channel of chunks can be smaller than what is sent on it.
  In the export it never fills: it has room for one result per record, and only records
  with links would send more, which the program never makes (`record_lists`).
* `EveryStepCounts` (export, journal): every step of any goroutine makes a tuple of ten
  natural numbers smaller in lexicographic order. The loops of the producer come first:
  a result or a chunk on its way then counts for less than the piece or the run it
  came from. In the journal it is the length read by `Parse`, at least 60, that counts.
* `Termination` (export, journal, disk, records).

Every property of a passing run has a mutant of the modelled code, in
`PROJECT.json`, that breaks it. The mutated form stands before the definition it
replaces, with `Bug` in its name or a name that says what is wrong with it.

### Bounds and why they are enough

* `export`: up to three records of five, in all combinations of resident,
  backward, out-of-disk and missing data and shared names, an extension record of
  its own, and one record twice; the disk has 10 clusters. Two results and one
  shared name are the least that can be reordered or overwritten. `MaxFaults` bounds the
  results for which a call fails, at any of the three calls.
* `tree`: the root and three records with every parent and sequence number, and
  five records where the range of one directory contains the entry of another,
  without which pruning never skips a directory that matters; entry numbers occur
  twice in the lists of two volumes.
* `mft`: five entries, five operations of the driver for an image and four for a
  volume in use: enough to create a directory and a file, delete the directory,
  use its entry again and refer to either, or to create two directories and move
  each into the other between two reads; one unreadable record. `SeqModulus` is 16,
  larger than any number of increments. The driver of the run counts allocations and
  deletions, that of `mft_reuse` deletions only; the theorems are of all three.
* `records`: three runs with offsets on both sides of each boundary of a width, one in
  the middle sparse or of either sign; index nodes from an empty leaf to four entries;
  attribute lists of four entries with numbers that end the walk at each of its exits,
  and with bytes that are taken for the offset and the length of a name; run lists at 64
  and at 72; records that end in front of the end marker; a directory of nine entries,
  two of them skipped, with two names of a file in either order, for all 256
  combinations of filters, from a volume and from a file, and with what is to be shown.
* `disk`: two primary partitions, one logical, also where it is located by the boot
  sector of another volume and has a bitmap of its own, three entries of a GPT; bitmaps
  with runs at both ends, with none, with one only, and with one of sixteen clusters,
  whose length is 2^16 bytes; RAID members with one and with two data areas, an empty
  array and one with other data.
* `usn`: records of up to six runs, chunks of 512 bytes with up to six journal records
  (which the walk of the code sees as none, one, or one and an error), with a name
  that makes the walk end 60 bytes in front of the end, and a resident journal with
  room behind it; channels from no buffer to one that takes everything.

### Findings

The six violations are disagreements of the code with what the README, a comment
or a flag says; `PROJECT.json` quotes both sides. Facts of the same kind that are
no run of their own:

* Disks. The loop of `main` is never entered (`disk.go:203`). A logical partition is
  read only by coincidence (`mbr.go:67`; the run `disk` has the case). A FAT partition
  of a GPT (`gpt.go:119`) and a RAID array without LVM (`lvm.go:71`) make the program
  panic. Exported content is whole clusters (`disk.go:267`).
* Table. On a drive in use `GetFullPath` can meet a cycle, when two directories are
  moved while the `$MFT` is read: `PathsEnd` says that it takes two changes.
* Tree. A record whose directory comes later in the list is dropped (`builder.go:33`).
* Records. Index blocks are never parsed (`indexattributes.go:43`, a string), so
  files of large directories have no I30 size. The run list of an attribute that ends no
  farther from the end of the record than the run list is from the start of the attribute,
  64 bytes or more, is not read (`MFT.go:709`). The walk over an attribute
  list can go in a circle, for a file whose record number is 32 modulo 2^16 and whose
  second entry names a record that is 65504 (`attrlist.go:41`): `Termination` of the
  run `records` is of lists without such a circle.
* Layouts. The reference to its file is read from a journal record in eight bytes and
  not in six (`usnjrnl.go:71`), so that the length of the name is taken from its offset
  and everything behind it from two bytes further on. The offsets and lengths of the
  names of a reparse point are `int16` and not read; the flags of an extended attribute
  come where its offset, an `int32`, is; the sizes in a BTRFS superblock are read eight
  bytes early, behind its signature; the items and pointers of BTRFS nodes 17 bytes
  early, but no code of the program gets there.
* Options. `-extensions` looks at the first name of a file, which may be the short one
  (`MFT.go:497`), and lists a file once per extension it matches. `-deleted` and
  `-orphans` keep unused and unreadable entries of the `$MFT`, as the zero record has
  the flags of a deleted file. With `-entries`, and of a `-MFT` file, no record has a
  parent: every deleted one is an orphan, and none has a path but the empty one.
  `-filesize` panics over a record without a name, `-runlist` over one whose
  run list was not read, `-showtree` without `-tree`.

### Fairness

Weak fairness of each goroutine, and of the deadlock detector in
`UnallocatedExport`: the Go scheduler runs every goroutine that can run. No
strong fairness is needed, as a goroutine that can send or receive stays able to:
each channel has one sender and one receiver. The parser and the filters
are one goroutine, which goes on. The tree and the table are sequential and have
safety properties only. No fairness is assumed of the file
system: a call may fail, but it returns.

## 4. Proofs

What TLC checks on small instances is proved for every value of the constants:
every property of a passing run but `Termination`. The
assumptions are those the modules declare (`JobsAssumption`, `ListsAssumption`,
`VolumeAssumption`, `EntriesAssumption` and so on): types of the constants, and what
the file system guarantees of what it stores. TLC evaluates them in every run.

Theorems have the properties they state in `PROJECT.json` ("theorems"); this is how
they are obtained. An invariant with conjuncts of its own is defined in the module
with the proof, with a lemma per action that says how the step keeps it.

**Export** (`ExportProofs`), for all jobs, records, names, strategies and disks:

* `TypeCorrect`, `ProtocolHolds`: from the inductive invariant `IInv == TypeOK /\
  Protocol /\ Delivered`, where `Delivered` says where each result sent is: written, in
  hand or in the channel. `TypeOK` alone is not inductive: that the WaitGroup does not
  go below zero, and that `Worker` has a record to work on, needs `Protocol`.
* `WaitCovers` follows from `IInv`: when the WaitGroup is zero both goroutines are
  done, so nothing is in the channel or in hand, and `Delivered` gives the rest.
* `CrashSafety`, `LastResultStays`: from `FInv`, which adds `FilesSoFar`, the content of
  every path in the middle of an export: without what `os.Remove` and the opening have
  prepared, the append of `WriteFile` could not be shown to replace a file. What is
  exempt is a result for which a call failed; the conjunct for a path starts anew with
  the next result of that path.
* `HashesOwnContent`: from `HInv`, which adds `HashesOfFiles`, that a hash is the one
  of the file that is there.
* `IdsKeepFilesApart`, an action property: from `SentIds`, that what was sent under
  the Id strategy came from different entries, so that two results of a call have
  the same path only if they are the same result. It uses `EntriesAssumption`: records
  of a table that can be exported have different entry numbers.

**Refinement** (`RefinementProofs`): `ExportImplementsSequential`, for every job and
interleaving, from `SInv == IInv /\ SentAsPlanned /\ Placed /\ Reading`. What the
goroutines have sent is the beginning of the plan of `SequentialExport`, what `Worker`
has in front of it is what is left of the units of its record, and the buffer of
`LocateData` holds the clusters of the runs already read. The steps that are not a
stutter are the three of `ExportData` that touch the file, failed ones too, and the end.

**Tree** (`TreeProofs`), for all lists and moduli of sequence numbers:

* `TypeCorrect`, `RangesAlwaysCover`: from
  `IInv == TypeOK /\ RangesCover /\ FoldersAbove`; the cover of a new node needs
  that it hangs below nodes whose ranges are widened together, and that only
  directories have nodes below them.
* `OneEntryAlwaysOnePlace`: from `PlacesInv`, which adds that every edge is a reference to
  a parent, and the property itself. A record gets a second place only if two nodes are
  the parent it names, which in the list of one volume are the same.
* `BuildImplementsReference`: `TreeBuilder` implements `ParentTree`. The lemma
  `SearchIsComplete` says that the search by ranges finds every node an
  exhaustive search finds; it needs `RangesCover`.

**`$MFT` table** (`TableProofs`), for any number of entries, every history of the
volume, every driver and every selection:

* `TypeCorrect`.
* `ParentsAreReferred`, `SizesAreOwn`: for drivers that count allocations, deletions or
  both, each with what it makes `Tolerated`. The inductive invariant `IInv == Typed /\
  VolumeSound /\ PartsApart /\ ImageSound /\ RecordsSound /\ TableSound` says which
  number a record has: `FileSeq`, how many files the entry has had, counted once or
  twice, and one more while the entry is free if the driver counts deletions. A
  reference was made to a record in use. `FoundIsTolerated` concludes from the
  difference of two such numbers that the comparison in `GetRecord` accepts the record
  of that file, be it in use or just deleted, and no other one than a tolerated
  neighbour. `mft_reuse` shows that neighbours are met: the tolerance of one is too much
  for a driver that counts once for each file.
* `AllPathsEnd`: `GetFullPath` ends, for an image, and for a volume in use that changed
  at most once while it was read, whatever the driver counts. `PathsInv` assumes nothing
  of the numbers. Its `HomesSound` says that every file in use is in a directory in use
  and in its index; hence a directory with an empty index, the only kind the driver
  deletes, has no file in use below it. What `GetRecord` makes of a reference is nothing
  or the entry it names, so a cycle of parents would be one of entries. `NoTrap` says of
  a set of edges that from every nonempty set of entries without the root some edge
  leads out, which is the same as that there is no cycle, and easier to keep: an
  operation of the driver changes the edges of one entry. A table is read entry by
  entry, so what is in memory (`AsRead`) is a mixture of two volumes: with one change
  only, it is the volume before the change or the one behind it. That no path of more
  than N steps is without a repetition is the pigeonhole lemma `NoLongPath`.

**Journal** (`UsnProofs`), for all journals and capacities: `TypeCorrect`,
`ProtocolKept`, `CollectsInOrder`, `PanicsExplained`, from `IInv == Typed /\ Turns /\
Reading /\ Chunked /\ Flow /\ PanicsAreExplained`. `Turns` is the protocol of the
goroutines; `Reading` how far the runs are read; `Chunked` what the walk of `Parse` has
made of the chunk in hand; `Flow` that what was collected, what is in the two channels
and what is in hand are, in this order, the beginning of what one loop collects, which
is what the walk of the code makes of each chunk up to its first error, not every record
stored in it. Lemmas on the walk over a chunk say where it can end; from them comes
which lengths make the parser panic.

**Disks** (`DiskProofs`), for all disks, boot sectors, RAID members and bitmaps:

* `TypeCorrect`, `ReadsAtTheirBoot`, `SelectedAreRead`, `PanicsExplained`,
  `OneIsCollected`: from an invariant of seven parts: the types (`Counts`, `Shape`),
  what was read of the partitions so far (`ReadsSoFar`), why it panicked, and
  where main and the collector are relative to each other (`Idle`, `Collecting`,
  `Closing`).
* `BlocksOfFirstVolume`: from `RunsInv`, that the blocks sent are the first of the runs
  of free entries in the bitmap of the `$MFT` that was read for the first volume. The
  runs are defined by an enumeration of the clusters where one begins; the lemmas on
  them are about that enumeration.

**Records** (`RecordProofs`), for all tables and command lines: `TypeCorrect`,
`AlwaysParsedAsStored`, `AlwaysReadInTable`, `AlwaysSelectedAsAsked`,
`AlwaysShownUnlessOdd`, from `IInv == PInv /\ Selected /\ ShownUnlessOddRecord /\
ListsReadInTable`. `TypeCorrect` is about types: where an attribute parser may read is
`AlwaysReadInTable`, of lists, and `AlwaysParsedAsStored`, of run lists and index roots.
`PInv` is about the parser: that the walk is at the beginning of an attribute, what is
in memory of those before, and which bytes are overwritten and not yet put back. The
lemmas it rests on say what the loops compute: `RunListIsRead`, that reading the bytes
of a run list, of any length, with lengths of up to eight bytes and offsets in two's
complement of up to four, gives the list it was made from; `RootIsRead`, which entries
of an index root are read; `StructsInPlace` and `StructsOutOfPlace`, struct by struct,
whether a field in front of another one moves it (`ReadAsStored`, `ShiftedIsMisread`, by
induction over the fields); `RegisteredOnce`, which filters a command line makes;
`KeepCounts`, how often a record is in the result of a filter. An attribute list is an
exception everywhere: its entries have no type, so nothing is linked.

**Induction.** The prover has no induction over data, so `SequenceLemmas` derives what
the others need from the naturals being well-founded: `InductionUpTo` says that a set
that has 0, and with every number below n the next one, has all numbers up to n; it is
proved with the least counterexample, whose existence (`LeastNatural`) is a theorem about
the naturals. A recursive function is first shown to exist, by the same induction over
the length of its domain, and then unfolds by its definition. So what a recursive
function computes can be proved, if each time by hand.

**Nothing goes on for ever.** For the export and the journal, `NobodyWaitsForEver` and
`NothingGoesOnForEver` prove `NoCircularWait` and `EveryStepCounts` for all constants:
the first from `Protocol` (the worker closes the channel exactly when it ends) and, in the
journal, from the WaitGroup being counted goroutine by goroutine; the second from a lemma
`StepCounts` with a step for each action, over `LateDifference` and `FirstDifference`,
which say what makes one tuple smaller than another. Together they leave one step to
`Termination`, that what can move at last does, which is the fairness of the Go
scheduler.

**Model-checked only.** `Termination` of the export, the journal, the disks and the
records, since the prover has neither fairness nor ENABLED. The loop over an attribute
list (`RecordParser`) has no measure at all: it goes in a circle for some pairs of numbers
(section 3), and ends for the lists of the run, which have none of them.

## 5. Not modelled

* The contents of attributes that only the printing uses (standard information,
  reparse points, object ids, extended attributes, volume attributes), the boot
  sector and the partition tables beyond their layouts; the readers; printing and
  logging. They have no state that others see.
* The system chunks, nodes, trees and file entries of BTRFS: definitions that no code
  of the program calls; their structures are in `Layouts`. The metadata text of LVM,
  which is only printed, and `disk/lvm2`, an unused copy.
* The names of attributes: of one that is not resident they move the run list, which is
  modelled. Attribute lists whose entries have a name.
* The parsing of an attribute list that is not resident (`MFT.go:154`): it is the same
  loop, with the same slices, over a buffer of its own; nothing uses what it yields, but
  it can panic or go in a circle like that of a resident one, and `ListsReadInTable`
  does not speak of it.
* What a slice of a name beyond its list contains (`attrlist.go:46`), as no one reads it.
* `SetFilesToLogicalSize` and `FS/NTFS/ntfs.go`, which nothing calls.
* The allocation of the journal's channel, 24 bytes for each byte of the file.

## 6. Plan

Done, in this order: export with its abstract specification and proofs; tree with
its abstract specification and proofs; `$MFT` table over volumes in use; journal;
partitions with unallocated clusters; parser and filters; the layouts of all
structures and with them the bytes of the journal; LVM and BTRFS behind a RAID member;
`Show` and the table of `-MFT`. Then the proofs: export and tree first, the refinement of
the sequential loop, journal, table, disks, records, and the paths of the table.

All safety properties of the passing runs are theorems, and so are the measures that make
the export and the journal end.

Next, most important first:

1. `RecordFilters` composed with `MFTTable`, so that parents and paths are computed
   and not given; then `ParentsAreReferred` and `AllPathsEnd` bear on what is shown.
2. A measure for `DiskPartitions` and `UnallocatedExport`.
3. The `Termination`s, should the prover learn ENABLED.
