--------------------------- MODULE RecordFilters ---------------------------
(***************************************************************************)
(* The filters of the command line: main.go registers them, the manager    *)
(* (filtermanager/manager.go) applies one after the other, and each keeps  *)
(* some of the records of the table (filters/filters.go, MFT.go).  What is *)
(* left is shown (reporter/reporter.go): of the options only those matter  *)
(* that do more than print what is there.                                  *)
(***************************************************************************)
EXTENDS RecordParser

CONSTANT UsnJrnl   \* the name of the journal, which -usnjrnl adds to the names

NoPath == ""       \* the path of a record in the root directory, or without a parent

\* The options: -filenames, -usnjrnl, -extensions, -path, -orphans and -deleted (an
\* empty sequence is an option that is not given), -tree, and what is to be shown.
Flags == [filenames: Seq(Names), usnjrnl: BOOLEAN, extensions: Seq(Exts),
          path: Seq(Paths \ {NoPath}), orphans: BOOLEAN, deleted: BOOLEAN, tree: BOOLEAN,
          show: SUBSET {"runlist", "filesize", "showfull", "showtree"}]

ASSUME FiltersAssumption ==
  /\ UsnJrnl \in Names /\ NoPath \in Paths
  /\ \A j \in Jobs : j.flags \in Flags /\ Len(j.flags.path) <= 1
  /\ \A j \in Jobs : \A k \in DOMAIN j.disk : j.disk[k].hasParent \/ j.disk[k].path = NoPath

VARIABLES
  filters,   \* the filters that are still to be applied
  records,   \* the records that are left
  shown      \* how many of them have been shown

filterVars == <<filters, records, shown>>
vars == <<parserVars, filterVars>>

flags == job.flags

Kinds == {"folders", "names", "extensions", "path", "orphans", "deleted"}
Filter == [kind: Kinds, args: Seq(Names \union Exts \union Paths)]

-----------------------------------------------------------------------------
(* A record of the table.                                                  *)

OnDisk(rec) == disk[rec.number]

Parsable(rec) == rec.number # 0
Used(rec) == Parsable(rec) /\ OnDisk(rec).used
IsFolder(rec) == Parsable(rec) /\ OnDisk(rec).folder
HasParent(rec) == Parsable(rec) /\ ~job.file /\ OnDisk(rec).hasParent
GetFullPath(rec) == IF Parsable(rec) /\ ~job.file THEN OnDisk(rec).path ELSE NoPath

IsDeletedFile(rec) == ~Used(rec) /\ ~IsFolder(rec)

\* Flags of zero are those of a deleted file: the zero record is one.
IsDeleted(rec) == ~Used(rec)

\* utils.Filter: the elements at some places, in their order.
Keep(s, places) == FlattenSeq([k \in DOMAIN s |-> IF k \in places THEN <<s[k]>> ELSE <<>>])

\* The FileName attributes, by their places, and the name in one.
FNames(rec) == {k \in DOMAIN rec.attributes : rec.attributes[k].type = "FileName"}
FNameAt(rec, k) == rec.attributes[k].disk.fnames[1]

\* One name is kept of each namespace, the last one, and the first namespace that has
\* one decides; a record without a name is called "-".
Schemes == <<"Win32", "Win32 & Dos", "POSIX", "Dos">>
OfScheme(rec, s) == {k \in FNames(rec) : FNameAt(rec, k).space = s}
HasScheme(rec, k) == OfScheme(rec, Schemes[k]) # {}
GetFname(rec) ==
  IF \E k \in DOMAIN Schemes : HasScheme(rec, k)
  THEN LET scheme == Schemes[Min({k \in DOMAIN Schemes : HasScheme(rec, k)})]
       IN FNameAt(rec, Max(OfScheme(rec, scheme))).name
  ELSE "-"

\* The name is that of the first attribute, of whatever namespace.
HasFilenameExtension(rec, e) ==
  FNames(rec) # {} /\ e \in FNameAt(rec, Min(FNames(rec))).exts

-----------------------------------------------------------------------------
(* The filters.                                                            *)

FilterOutFolders(recs) == Keep(recs, {k \in DOMAIN recs : ~IsFolder(recs[k])})
FilterByNames(recs, names) == Keep(recs, {k \in DOMAIN recs : GetFname(recs[k]) \in Range(names)})
FilterByPath(recs, path) == Keep(recs, {k \in DOMAIN recs : GetFullPath(recs[k]) = path})
FilterOrphans(recs) ==
  Keep(recs, {k \in DOMAIN recs : IsDeleted(recs[k]) /\ ~HasParent(recs[k])})
FilterDeleted(recs) == Keep(recs, {k \in DOMAIN recs : IsDeleted(recs[k])})

\* The records of each extension follow those of the one before.
FilterByExtension(recs, e) == Keep(recs, {k \in DOMAIN recs : HasFilenameExtension(recs[k], e)})
FilterByExtensions(recs, exts) ==
  FlattenSeq([k \in DOMAIN exts |-> FilterByExtension(recs, exts[k])])

Execute(f, recs) ==
  CASE f.kind = "folders"    -> FilterOutFolders(recs)
    [] f.kind = "names"      -> FilterByNames(recs, f.args)
    [] f.kind = "extensions" -> FilterByExtensions(recs, f.args)
    [] f.kind = "path"       -> FilterByPath(recs, f.args[1])
    [] f.kind = "orphans"    -> FilterOrphans(recs)
    [] f.kind = "deleted"    -> FilterDeleted(recs)

\* The filters of the command line, in the order in which main registers them.
If(b, kind, args) == IF b THEN <<[kind |-> kind, args |-> args]>> ELSE <<>>
fileNamesToExport == (IF flags.usnjrnl THEN <<UsnJrnl>> ELSE <<>>) \o flags.filenames

Registered ==
  If(flags.filenames # <<>>, "folders", <<>>) \o
  If(flags.filenames # <<>>, "names", fileNamesToExport) \o
  If(flags.extensions # <<>>, "extensions", flags.extensions) \o
  If(flags.path # <<>>, "path", flags.path) \o
  If(flags.orphans, "orphans", <<>>) \o
  If(flags.deleted, "deleted", <<>>)

-----------------------------------------------------------------------------
Init == ParserInit /\ filters = <<>> /\ records = <<>> /\ shown = 0

Register ==
  /\ pc = "select" /\ pc' = "filter"
  /\ filters' = Registered /\ records' = Records
  /\ UNCHANGED <<job, r, ReadPtr, restored, attrLen, entries, record, Records, shown>>

\* One turn of the loop of ApplyFilters.
ApplyFilter ==
  /\ pc = "filter" /\ filters # <<>>
  /\ records' = Execute(Head(filters), records)
  /\ filters' = Tail(filters)
  /\ UNCHANGED <<parserVars, shown>>

Applied ==
  /\ pc = "filter" /\ filters = <<>> /\ pc' = "show"
  /\ UNCHANGED <<job, r, ReadPtr, restored, attrLen, entries, record, Records, filterVars>>

ApplyFilters == Register \/ ApplyFilter \/ Applied

(* Show.                                                                   *)

IsAskedToShow(o) == {o, "showfull"} \cap flags.show # {}

\* GetRunLists dereferences the run list of every non resident attribute.
HasRunLists(rec) ==
  \A k \in DOMAIN rec.attributes : rec.attributes[k].nonResident => rec.attributes[k].hasRunList

\* GetPhysicalSize takes the FileName attribute for granted.
HasPhysicalSize(rec) == FNames(rec) # {}

\* One turn of the loop over the records.
ShowRecord ==
  /\ pc = "show" /\ shown < Len(records)
  /\ LET rec == records[shown + 1] IN
     IF /\ IsAskedToShow("runlist") => HasRunLists(rec)
        /\ IsAskedToShow("filesize") => HasPhysicalSize(rec)
     THEN shown' = shown + 1 /\ UNCHANGED pc
     ELSE pc' = "panic" /\ UNCHANGED shown
  /\ UNCHANGED <<job, r, ReadPtr, restored, attrLen, entries, record, Records, filters, records>>

\* Build leaves out the entries below 5; the entry of a zero record is 0.
HasRoot == flags.tree /\ \E k \in DOMAIN records : records[k].number > 5

\* The root of the tree, which may be nil, is dereferenced.
ShowTree ==
  /\ pc = "show" /\ shown = Len(records)
  /\ pc' = IF "showtree" \in flags.show /\ ~HasRoot THEN "panic" ELSE "done"
  /\ UNCHANGED <<job, r, ReadPtr, restored, attrLen, entries, record, Records, filterVars>>

Show == ShowRecord \/ ShowTree

-----------------------------------------------------------------------------
Ended == pc \in {"done", "panic"} /\ UNCHANGED vars

Next == (Process /\ UNCHANGED filterVars) \/ ApplyFilters \/ Show \/ Ended

\* A sequential program goes on.
Fairness ==
  WF_vars(Process /\ UNCHANGED filterVars) /\ WF_vars(ApplyFilters) /\ WF_vars(Show)

Spec == Init /\ [][Next]_vars /\ Fairness

-----------------------------------------------------------------------------
(* Properties.                                                             *)

MemRecord ==
  [number: Nat, attributes: Seq(Attribute), Bitmap: BOOLEAN,
   LinkedRecordsInfo: Seq([ref: Numbers16, vcn: Numbers16])]

\* The variables of Process and of ApplyFilters keep their types: a read offset never
\* leaves the record, and what the filters keep are records of the table.
TypeOK ==
  /\ pc \in {"record", "attribute", "list", "nonresident", "select", "filter", "show", "done", "panic"}
  /\ r \in 1 .. Len(disk) + 1
  /\ ReadPtr \in 0 .. RecordSize - EndMarker
  /\ restored \subseteq SectorEnds
  /\ attrLen \in Numbers16
  /\ entries \in Seq([ref: Numbers16, vcn: Numbers16])
  /\ record \in MemRecord
  /\ Records \in Seq(MemRecord) /\ Len(Records) <= Len(disk)
  /\ filters \in Seq(Filter)
  /\ Range(records) \subseteq Range(Records)
  /\ shown \in 0 .. Len(records)

\* What is asked of a record, by what is on the disk.
DiskNames(d) ==
  UNION {Range(d.attrs[k].fnames) : k \in {i \in DOMAIN d.attrs : d.attrs[i].type = "FileName"}}
Asked(d) ==
  /\ flags.path # <<>> => ~job.file /\ d.path = flags.path[1]
  /\ flags.orphans => ~d.used /\ (job.file \/ ~d.hasParent)
  /\ flags.deleted => ~d.used
  /\ flags.filenames # <<>> => ~d.folder
CalledBy(d) == IF DiskNames(d) = {} THEN {"-"} ELSE {f.name : f \in DiskNames(d)}
AskedNames(d) ==
  IF flags.filenames = <<>> THEN CalledBy(d) ELSE CalledBy(d) \cap Range(fileNamesToExport)
SomeEnd(d) ==
  {k \in DOMAIN flags.extensions : \E f \in DiskNames(d) : flags.extensions[k] \in f.exts}
AllEnd(d) ==
  {k \in SomeEnd(d) : \A f \in DiskNames(d) : flags.extensions[k] \in f.exts}

AtMost(d) ==
  IF ~Asked(d) \/ AskedNames(d) = {} THEN 0
  ELSE IF flags.extensions = <<>> THEN 1 ELSE Cardinality(SomeEnd(d))
AtLeast(d) ==
  IF ~Asked(d) \/ AskedNames(d) # CalledBy(d) THEN 0
  ELSE IF flags.extensions = <<>> THEN 1 ELSE Cardinality(AllEnd(d))

\* ApplyFilters: in the end a record that was parsed is among the records as often as one
\* of its names ends with an asked extension, or once, if everything else that was asked
\* holds of it, and it is missing only if that is not so of all of its names. The records
\* of a file have no parents: every deleted one is an orphan, and none has a path. A record
\* without a name is called "-".
SelectedAsAsked ==
  pc \in {"show", "done", "panic"} /\ ~Stopped =>
    \A k \in {n \in DOMAIN disk : disk[n].signature = "FILE"} :
      LET times == Cardinality({i \in DOMAIN records : records[i].number = k})
      IN AtLeast(disk[k]) <= times /\ times <= AtMost(disk[k])

\* Show: the program panics over a record that is asked for only if its size is and the
\* record is unreadable or has no name, or if its run lists are and it has a non resident
\* attribute that is not farther from its end than the run list is from the start of the
\* attribute, or over a tree that is empty.
ShownUnlessOddRecord ==
  pc = "panic" /\ ~Stopped =>
    IF shown < Len(records)
    THEN LET n == records[shown + 1].number IN
         \/ IsAskedToShow("filesize") /\ (n = 0 \/ DiskNames(disk[n]) = {})
         \/ /\ IsAskedToShow("runlist") /\ n # 0
            /\ \E k \in DOMAIN disk[n].attrs :
                 /\ disk[n].attrs[k].nonResident
                 /\ RecordSize - StartOf(disk[n].attrs, k + 1) <= disk[n].attrs[k].runOff
    ELSE "showtree" \in flags.show
         /\ (flags.tree => \A k \in DOMAIN records : records[k].number <= 5)

\* ProcessRecords, ApplyFilters and Show end: none of their loops stands still, also on an
\* attribute list, whose entries are read at the wrong offsets, unless the numbers in
\* the list lead in a circle (the lists of Jobs do not).
Termination == <>(pc \in {"done", "panic"})
=============================================================================
