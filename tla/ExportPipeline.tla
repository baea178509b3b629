--------------------------- MODULE ExportPipeline ---------------------------
(***************************************************************************)
(* One call of Exporter.ExportRecords (exporter/exporter.go) and the       *)
(* HashFiles call that main.go makes after it.                             *)
(*                                                                         *)
(* Three goroutines: main (ExportRecords, then HashFiles), the producer    *)
(* (Disk.Worker, which locates the data of every record) and the consumer  *)
(* (Exporter.ExportData, which writes one file per result).  They share a  *)
(* buffered channel of capacity len(records) and a WaitGroup of two.  A    *)
(* panic in any goroutine ends the whole process.                          *)
(*                                                                         *)
(* A record is an identity; what is in memory of it (entry number, name,   *)
(* DATA attribute, links to extension records) is job.mft, the table that  *)
(* module MFTTable builds.  It builds it without links: they are kept here *)
(* because the code handles them.  Offsets and lengths are in clusters.    *)
(***************************************************************************)
EXTENDS Integers, Sequences, FiniteSets, Progress

CONSTANTS
  Rec,       \* records in memory
  NoRec,     \* a nil *Record
  Names,     \* file names
  Entries,   \* $MFT entry numbers
  Jobs,      \* the calls of ExportRecords that are considered
  NoFile,    \* a path of the location directory that holds no file
  NoItem,    \* the consumer holds no result
  MaxFaults  \* bound on the results whose os.Remove, os.OpenFile or Write fails

NoId == -1
Keys  == [id: Entries \union {NoId}, name: Names]
Chunk == [at: Int, len: Int]
Content == Seq(Chunk)
Run   == [off: Int, len: Nat]
DataKinds == {"resident", "runs", "nolist", "none"}

Record == [entry: Entries, folder: BOOLEAN, fname: Names,
           data: [kind: DataKinds, size: Nat, runs: Seq(Run)],
           links: Seq(Rec), origin: Rec \union {NoRec}]

Job == [records: Seq(Rec), mft: [Rec -> Record], strategy: STRING, hash: STRING,
        part: Nat, disk: Nat, files: [Keys -> Content \union {NoFile}]]

\* utils.AskedFile, with the record it comes from.
Result == [rec: Rec, fname: Names, id: Entries, content: Content]

\* An origin (the record whose attribute list names this one) has no origin itself, or
\* GetFname would not end.  The tables of MFTTable have no origins.
LinksAreFlat(mft) ==
  \A r \in Rec : mft[r].origin # NoRec => mft[mft[r].origin].origin = NoRec

ASSUME JobsAssumption ==
  /\ Jobs \subseteq Job
  /\ \A j \in Jobs : LinksAreFlat(j.mft)
  /\ NoRec \notin Rec
  /\ NoFile \notin Content
  /\ NoItem \notin Result
  /\ MaxFaults \in Nat

\* Records with data to export have entries of their own: the table stores a record at
\* its entry, and what is at the entries that were skipped has entry 0 but no attributes.
Exportable(m, r) == m[r].data.kind \in {"resident", "runs"} \/ m[r].links # <<>>

ASSUME EntriesAssumption ==
  \A j \in Jobs : \A x, y \in {r \in Rec : Exportable(j.mft, r)} :
    j.mft[x].entry = j.mft[y].entry => x = y

VARIABLES
  job,      \* the arguments of the call; never changes
  mpc,      \* main goroutine: "call", "wait", "hash", "done"
  wg,       \* the WaitGroup counter
  wpc,      \* Worker: "idle", "record", "locate", "run", "send", "return", "done"
  i,        \* Worker: index of the current record
  todo,     \* Worker: records still to locate for the current record
  run,      \* LocateData: index of the current run
  offset,   \* LocateData: absolute offset, in clusters
  buf,      \* LocateData: the bytes collected
  results,  \* the channel
  closed,   \* close(results) was called
  epc,      \* ExportData: "idle", "recv", "remove", "open", "append", "done"
  item,     \* ExportData: the result being written
  files,    \* the location directory
  h,        \* HashFiles: index of the current record
  hashes,   \* HashFiles: what was printed
  crashed,  \* a panic ended the process
  faulty,   \* numbers of the results for which an operating system call failed
  sent,     \* history: results sent
  written   \* history: results CreateFile has dealt with

mainVars   == <<mpc, wg, h, hashes>>
locateVars == <<run, offset, buf>>
workVars   == <<wpc, i, todo, locateVars, sent>>
exportVars == <<epc, item, files, faulty, written>>
vars == <<job, mainVars, workVars, results, closed, exportVars, crashed>>

-----------------------------------------------------------------------------
(* Accessors of the records.                                               *)

mft == job.mft
records == job.records

\* GetFname of an extension record is the name of its origin.
Owner(r) == IF mft[r].origin = NoRec THEN r ELSE mft[r].origin
GetFname(r) == mft[Owner(r)].fname

HasResidentDataAttr(r) == mft[r].data.kind = "resident"

\* GetRunList dereferences the DATA attribute of the record, or of its first
\* linked record, and panics when there is no attribute or no run list.
RunListHolder(r) == IF mft[r].links = <<>> THEN r ELSE Head(mft[r].links)
HasRunList(r) == mft[RunListHolder(r)].data.kind = "runs"
RunListOf(r) == mft[RunListHolder(r)].data.runs

\* What Worker locates for one record: the record, or its linked records.
WorkOf(r) == IF mft[r].links = <<>> THEN <<r>> ELSE mft[r].links

\* The file a result is written to, and the file HashFiles reads.
NameOfAnyCase(id, name) == [id |-> NoId, name |-> name]
NameOf(id, name) ==
  [id |-> IF job.strategy = "Id" THEN id ELSE NoId, name |-> name]
HashNameOf(r) == [id |-> NoId, name |-> GetFname(r)]

-----------------------------------------------------------------------------
Init ==
  /\ job \in Jobs
  /\ mpc = "call" /\ wg = 0 /\ h = 1 /\ hashes = <<>>
  /\ wpc = "idle" /\ i = 1 /\ todo = <<>> /\ sent = <<>>
  /\ run = 1 /\ offset = 0 /\ buf = <<>>
  /\ results = <<>> /\ closed = FALSE
  /\ epc = "idle" /\ item = NoItem /\ files = job.files
  /\ faulty = {} /\ written = <<>>
  /\ crashed = FALSE

(* Main goroutine.  The guard on an empty Location never holds: main.go      *)
(* calls ExportRecords only with a location.                               *)

AfterExport == IF job.hash = "" THEN "done" ELSE "hash"

\* wg.Add(2).
GoroutinesBug == 1
GoroutinesMore == 3
Goroutines == 2

\* ExportRecords returns at once when there is nothing to export, otherwise it
\* starts the two goroutines and waits.
ExportRecords ==
  /\ mpc = "call"
  /\ IF records = <<>>
     THEN mpc' = AfterExport /\ UNCHANGED <<wg, wpc, epc>>
     ELSE mpc' = "wait" /\ wg' = Goroutines /\ wpc' = "record" /\ epc' = "recv"
  /\ UNCHANGED <<job, h, hashes, i, todo, locateVars, sent, results, closed,
                 item, files, faulty, written, crashed>>

WaitReturns ==
  /\ mpc = "wait" /\ wg = 0
  /\ mpc' = AfterExport
  /\ UNCHANGED <<job, wg, h, hashes, workVars, results, closed, exportVars, crashed>>

SupportedHash == job.hash \in {"MD5", "SHA1"}

\* HashFiles reads the files back one record at a time; one that cannot be read
\* is reported and skipped.
HashFiles ==
  /\ mpc = "hash"
  /\ IF ~SupportedHash \/ h > Len(records)
     THEN mpc' = "done" /\ UNCHANGED <<h, hashes>>
     ELSE LET r == records[h]
              data == files[HashNameOf(r)]
          IN /\ h' = h + 1
             /\ hashes' = IF data = NoFile THEN hashes
                          ELSE Append(hashes, [rec |-> r, data |-> data])
             /\ UNCHANGED mpc
  /\ UNCHANGED <<job, wg, workVars, results, closed, exportVars, crashed>>

-----------------------------------------------------------------------------
(* Producer: Disk.Worker and Record.LocateData.                            *)

\* The head of the loop over the records; a folder has no data to export.
NextRecord ==
  /\ wpc = "record" /\ i <= Len(records)
  /\ IF mft[records[i]].folder
     THEN i' = i + 1 /\ UNCHANGED <<wpc, todo>>
     ELSE todo' = WorkOf(records[i]) /\ wpc' = "locate" /\ UNCHANGED i
  /\ UNCHANGED <<job, mainVars, locateVars, sent, results, closed, exportVars, crashed>>

\* LocateData up to the loop over the runs.
LocateData ==
  /\ wpc = "locate"
  /\ LET r == Head(todo) IN
     \/ /\ HasResidentDataAttr(r)
        /\ buf' = <<[at |-> -1, len |-> mft[r].data.size]>>
        /\ wpc' = "send"
        /\ UNCHANGED <<run, offset, crashed>>
     \/ /\ ~HasResidentDataAttr(r) /\ HasRunList(r)
        /\ run' = 1 /\ offset' = job.part /\ buf' = <<>>
        /\ wpc' = "run"
        /\ UNCHANGED crashed
     \/ /\ ~HasResidentDataAttr(r) /\ ~HasRunList(r)
        /\ crashed' = TRUE
        /\ UNCHANGED <<wpc, locateVars>>
  /\ UNCHANGED <<job, mainVars, i, todo, sent, results, closed, exportVars>>

\* A run whose relative offset is zero is sparse and is skipped, not zero filled.
IsReadBug(rn) == rn.len > 0
IsRead(rn) == rn.off # 0 /\ rn.len > 0

\* runlist = *runlist.Next.
NextRunBug == IF IsRead(RunListOf(Head(todo))[run]) THEN run + 1 ELSE run
NextRunAgain == IF IsRead(RunListOf(Head(todo))[run]) THEN run + 1 ELSE 1
NextRun == run + 1

\* One iteration of the loop over the runs.
ReadRun ==
  /\ wpc = "run"
  /\ LET runs == RunListOf(Head(todo)) IN
     IF run > Len(runs)
     THEN wpc' = "send" /\ UNCHANGED locateVars
     ELSE LET at == offset + runs[run].off IN
          /\ offset' = at
          /\ IF at > job.disk
             THEN wpc' = "send" /\ UNCHANGED <<run, buf>>
             ELSE /\ buf' = IF IsRead(runs[run])
                            THEN Append(buf, [at |-> at, len |-> runs[run].len])
                            ELSE buf
                  /\ run' = NextRun
                  /\ UNCHANGED wpc
  /\ UNCHANGED <<job, mainVars, i, todo, sent, results, closed, exportVars, crashed>>

\* A send blocks while the channel holds len(records) results.
HasRoom == Len(results) < Len(records)

Enqueued(res) == Append(results, res)

SendResult ==
  /\ wpc = "send" /\ HasRoom
  /\ LET r == Head(todo)
         res == [rec |-> r, fname |-> GetFname(r), id |-> mft[r].entry, content |-> buf]
     IN results' = Enqueued(res) /\ sent' = Append(sent, res)
  /\ todo' = Tail(todo)
  /\ IF Tail(todo) = <<>> THEN wpc' = "record" /\ i' = i + 1
                          ELSE wpc' = "locate" /\ UNCHANGED i
  /\ UNCHANGED <<job, mainVars, locateVars, closed, exportVars, crashed>>

CloseResults ==
  /\ wpc = "record" /\ i > Len(records)
  /\ closed' = TRUE /\ wpc' = "return"
  /\ UNCHANGED <<job, mainVars, i, todo, locateVars, sent, results, exportVars, crashed>>

\* The deferred wg.Done.
WorkerReturns ==
  /\ wpc = "return"
  /\ wpc' = "done" /\ wg' = wg - 1
  /\ UNCHANGED <<job, mpc, h, hashes, i, todo, locateVars, sent, results, closed,
                 exportVars, crashed>>

-----------------------------------------------------------------------------
(* Consumer: ExportData and CreateFile.                                    *)

Receive ==
  /\ epc = "recv" /\ results # <<>>
  /\ item' = Head(results) /\ results' = Tail(results)
  /\ epc' = "remove"
  /\ UNCHANGED <<job, mainVars, workVars, closed, files, faulty, written, crashed>>

Path == NameOf(item.id, item.fname)

RemovedNothing == files
RemovedAll == [k \in Keys |-> NoFile]
Removed == [files EXCEPT ![Path] = NoFile]

\* The results are numbered in the order in which ExportData takes them.
Number == Len(written) + 1
MayFail == Cardinality(faulty \union {Number}) <= MaxFaults

\* A failed os.Remove is printed and ignored.
RemoveFile ==
  /\ epc = "remove"
  /\ files' = Removed
  /\ epc' = "open"
  /\ UNCHANGED <<job, mainVars, workVars, results, closed, item, faulty, written, crashed>>

RemoveFails ==
  /\ epc = "remove" /\ files[Path] # NoFile
  /\ MayFail /\ faulty' = faulty \union {Number}
  /\ epc' = "open"
  /\ UNCHANGED <<job, mainVars, workVars, results, closed, item, files, written, crashed>>

\* O_CREATE: what is there stays, or there is an empty file.
Opened(old) == IF old = NoFile THEN <<>> ELSE old

OpenFile ==
  /\ epc = "open"
  /\ files' = [files EXCEPT ![Path] = Opened(@)]
  /\ epc' = "append"
  /\ UNCHANGED <<job, mainVars, workVars, results, closed, item, faulty, written, crashed>>

\* A failed os.OpenFile is printed and the result is dropped.
OpenFails ==
  /\ epc = "open"
  /\ MayFail /\ faulty' = faulty \union {Number}
  /\ written' = Append(written, item)
  /\ epc' = "recv" /\ item' = NoItem
  /\ UNCHANGED <<job, mainVars, workVars, results, closed, files, crashed>>

\* O_APPEND: the bytes go behind what is there.
WriteFile ==
  /\ epc = "append"
  /\ files' = [files EXCEPT ![Path] = Opened(@) \o item.content]
  /\ written' = Append(written, item)
  /\ epc' = "recv" /\ item' = NoItem
  /\ UNCHANGED <<job, mainVars, workVars, results, closed, faulty, crashed>>

\* The error of a Write that stops before the end is printed; the first pieces stay.
WriteFails ==
  /\ epc = "append"
  /\ MayFail /\ faulty' = faulty \union {Number}
  /\ \E n \in 0 .. Len(item.content) - 1 :
       files' = [files EXCEPT ![Path] = Opened(@) \o SubSeq(item.content, 1, n)]
  /\ written' = Append(written, item)
  /\ epc' = "recv" /\ item' = NoItem
  /\ UNCHANGED <<job, mainVars, workVars, results, closed, crashed>>

DrainedBug == closed
Drained == closed /\ results = <<>>

\* The range over the channel ends when it is closed and drained.
ExportDataReturns ==
  /\ epc = "recv" /\ Drained
  /\ epc' = "done" /\ wg' = wg - 1
  /\ UNCHANGED <<job, mpc, h, hashes, workVars, results, closed, item, files,
                 faulty, written, crashed>>

-----------------------------------------------------------------------------
Main == ExportRecords \/ WaitReturns \/ HashFiles
Worker == NextRecord \/ LocateData \/ ReadRun \/ SendResult \/ CloseResults \/ WorkerReturns
ExportData == \/ Receive \/ RemoveFile \/ RemoveFails \/ OpenFile \/ OpenFails
              \/ WriteFile \/ WriteFails \/ ExportDataReturns

\* The process has ended: nothing moves any more.
Ended == (mpc = "done" \/ crashed) /\ UNCHANGED vars

Next == (~crashed /\ (Main \/ Worker \/ ExportData)) \/ Ended

\* The Go scheduler runs every goroutine that can run.
Fairness ==
  /\ WF_vars(~crashed /\ Main)
  /\ WF_vars(~crashed /\ Worker)
  /\ WF_vars(~crashed /\ ExportData)

Spec == Init /\ [][Next]_vars /\ Fairness

-----------------------------------------------------------------------------
(* Properties.                                                             *)

InHand == IF item = NoItem THEN <<>> ELSE <<item>>

\* Every variable has its type; the channel never holds more results than its
\* capacity, len(records), and the WaitGroup counter never goes negative.
TypeOK ==
  /\ job \in Jobs
  /\ mpc \in {"call", "wait", "hash", "done"}
  /\ wg \in 0..2
  /\ h \in Nat \ {0} /\ hashes \in Seq([rec: Rec, data: Content])
  /\ wpc \in {"idle", "record", "locate", "run", "send", "return", "done"}
  /\ i \in Nat \ {0} /\ todo \in Seq(Rec)
  /\ run \in Nat \ {0} /\ offset \in Int /\ buf \in Content
  /\ sent \in Seq(Result) /\ written \in Seq(Result) /\ results \in Seq(Result)
  /\ Len(results) <= Len(records)
  /\ closed \in BOOLEAN /\ crashed \in BOOLEAN
  /\ epc \in {"idle", "recv", "remove", "open", "append", "done"}
  /\ item \in Result \union {NoItem}
  /\ epc \in {"remove", "open", "append"} <=> item # NoItem
  /\ files \in [Keys -> Content \union {NoFile}]
  /\ faulty \subseteq Nat \ {0}

Running(pc) == IF pc = "done" THEN 0 ELSE 1

\* The WaitGroup counts the goroutines that have not returned; the channel is closed
\* exactly when Worker is past its loop, never under a send; ExportData returns only
\* with nothing in hand and nothing in the channel.
Protocol ==
  /\ mpc = "call" => wpc = "idle"
  /\ mpc = "wait" => wpc # "idle" /\ wg = Running(wpc) + Running(epc)
  /\ mpc \in {"hash", "done"} => (wpc = "idle" \/ (wpc = "done" /\ epc = "done"))
  /\ wpc = "idle" <=> epc = "idle"
  /\ wpc = "idle" => results = <<>> /\ item = NoItem
  /\ wpc \in {"locate", "run", "send"} => todo # <<>> /\ i <= Len(records)
  /\ closed <=> wpc \in {"return", "done"}
  /\ epc = "done" => closed /\ results = <<>> /\ item = NoItem

\* What was sent is what was written, then what is in hand, then what is in the channel
\* (a part of the inductive invariant).
Delivered == sent = written \o InHand \o results

\* ExportRecords returns (wg.Wait) only after every result sent has been written:
\* HashFiles and the caller never see a file that is still to be replaced.
WaitCoversWrites ==
  mpc \in {"hash", "done"} => written = sent /\ results = <<>> /\ item = NoItem

PathOf(res) == NameOf(res.id, res.fname)

\* A file that has been written is there from then on, also after a panic in Worker,
\* except the one CreateFile has removed and not yet opened again, and one that a failed
\* call has left without a file.
CrashKeepsWritten ==
  \A k \in DOMAIN written :
    LET p == PathOf(written[k]) IN
    \/ files[p] # NoFile
    \/ \E l \in k .. Len(written) : l \in faulty /\ PathOf(written[l]) = p
    \/ epc = "open" /\ p = Path

\* The same while the goroutines run, for the results written so far, with what os.Remove
\* and os.OpenFile have prepared: nothing, then an empty file, unless a call failed.
FilesSoFar ==
  /\ epc = "open" => Number \in faulty \/ files[Path] = NoFile
  /\ epc = "append" => Number \in faulty \/ files[Path] = <<>>
  /\ \A k \in DOMAIN written :
       LET p == PathOf(written[k]) IN
       \/ k \in faulty
       \/ \E l \in k + 1 .. Len(written) : PathOf(written[l]) = p
       \/ files[p] = written[k].content
       \/ epc \in {"open", "append"} /\ p = Path

\* Once ExportRecords has returned, the file of a path holds exactly the content of the
\* last result for that path, whatever the directory held before and whatever failed for
\* the results before it: what a failed remove, open or write has left behind does not
\* survive the next result of the same path.
LastWriterWins ==
  mpc \in {"hash", "done"} =>
    \A k \in DOMAIN sent :
      \/ k \in faulty
      \/ \E l \in k + 1 .. Len(sent) : PathOf(sent[l]) = PathOf(sent[k])
      \/ files[PathOf(sent[k])] = sent[k].content

\* What HashFiles prints for a record with a name of its own, exported under the
\* overwrite strategy from one piece, is the hash of that record's content.
HashOfOwnContent ==
  \A k \in DOMAIN hashes :
    LET r == hashes[k].rec
        own == {l \in DOMAIN sent : sent[l].fname = GetFname(r)}
    IN job.strategy # "Id" /\ Cardinality(own) = 1
         => \A l \in own \ faulty : hashes[k].data = sent[l].content

\* Under the Id strategy a result never replaces what this call has written of another
\* record; the same record may be in the list twice (FilterByExtensions).
IdNeverOverwrites ==
  [][ job.strategy = "Id" /\ epc = "remove" /\ epc' = "open"
        => \A k \in DOMAIN written : written[k].rec # item.rec => PathOf(written[k]) # Path ]_vars

\* Whether a goroutine has something to do that waits for no other one.
MainMoves   == mpc \in {"call", "hash"} \/ (mpc = "wait" /\ wg = 0)
WorkerMoves == wpc \in {"record", "locate", "run", "return"} \/ (wpc = "send" /\ HasRoom)
ExportMoves ==
  epc \in {"remove", "open", "append"} \/ (epc = "recv" /\ (results # <<>> \/ Drained))

\* ExportRecords, Worker, ExportData: whoever waits, for the WaitGroup, for room in the
\* channel or for a result, waits for a goroutine that moves: no two wait for each other,
\* however many records there are.
NoCircularWait ==
  ~crashed =>
    /\ mpc = "wait" /\ ~MainMoves => WorkerMoves \/ ExportMoves
    /\ wpc = "send" /\ ~WorkerMoves => ExportMoves
    /\ epc = "recv" /\ ~ExportMoves => WorkerMoves

Alive == IF crashed THEN 0 ELSE IF wpc = "idle" THEN 2 ELSE 1
PieceStage ==
  CASE wpc = "locate" -> 3 [] wpc = "run" -> 2 [] wpc \in {"send", "return"} -> 1 [] OTHER -> 0
RunsLeft == IF wpc = "run" THEN TurnsLeft(Len(RunListOf(Head(todo))), run) ELSE 0
ExportStage ==
  CASE epc = "remove" -> 4 [] epc = "open" -> 3 [] epc = "append" -> 2 [] epc = "recv" -> 1
    [] OTHER -> 0
MainStage == CASE mpc = "call" -> 3 [] mpc = "wait" -> 2 [] mpc = "hash" -> 1 [] OTHER -> 0

\* What is left: of the records of Worker, of the pieces of a record and of the runs of a
\* piece; of the results of ExportData; of main and of the records of HashFiles.
LeftToDo ==
  <<Alive, TurnsLeft(Len(records), i), OneIf(wpc = "record"), Len(todo), PieceStage, RunsLeft,
    Len(results), ExportStage, MainStage, TurnsLeft(Len(records), h)>>

\* Worker, LocateData, ExportData, HashFiles: every step of any goroutine leaves less to
\* do, so that none of the loops, and no sequence of steps of all, goes on for ever.
EveryStepCounts == [][IsMeasure(LeftToDo) /\ Below(LeftToDo', LeftToDo)]_vars

\* Every goroutine ends: ExportRecords and HashFiles return, or a panic has ended
\* the process.
Termination == <>(mpc = "done" \/ crashed)
=============================================================================
