----------------------------- MODULE UsnJournal -----------------------------
(***************************************************************************)
(* UsnJrnl.Process (FS/NTFS/usnjrnl/usnjrnl.go): for every record that is  *)
(* selected, one after another, two goroutines are started, joined by two  *)
(* channels: Disk.AsyncWorker reads the data of the record run by run,     *)
(* AsyncProcess parses the journal records in them, and Process collects   *)
(* them.                                                                   *)
(*                                                                         *)
(* A run holds journal records that lie behind each other, and zeros behind *)
(* them.  The parser goes through it by the lengths it reads, which need   *)
(* not be those that are stored; what is read from where is in Layouts.    *)
(* MFTTable leaves links empty.                                            *)
(***************************************************************************)
EXTENDS Integers, Sequences, FiniteSets, SequencesExt, Progress

Fields == INSTANCE Layouts

CONSTANTS
  Rec,   \* $MFT records
  Jobs   \* the calls of Process that are considered

MaxHalf == 65535
Half == 0 .. MaxHalf

\* A stored journal record: the file it is about, the 20 halves from the parent to the file
\* attributes, and the characters of the name, of which NTFS has no more than 255.
MidLength == 20
Item  == {it \in [ref: Half, seq: Half, mid: [1 .. MidLength -> Half], name: Seq(Half)] :
            Len(it.name) <= 255}

\* size: bytes of the run; spare: the slice they are read into has room behind them.
Run   == [kind: {"read", "sparse", "beyond"}, items: Seq(Item), size: Nat, spare: BOOLEAN]
Record == [folder: BOOLEAN, data: {"resident", "runs", "none"}, runs: Seq(Run), links: Seq(Rec), size: Nat]
Job   == [mftrecords: Seq(Rec), mft: [Rec -> Record]]

ASSUME JobsAssumption == Jobs \subseteq Job

VARIABLES
  job,            \* the arguments of the call; never changes
  r,              \* Process: index of the current $MFT record
  mpc,            \* Process: "next", "recv", "wait", "done"
  wg,             \* the WaitGroup of the current record
  wpc,            \* AsyncWorker: "start", "locate", "run", "return", "done"
  todo,           \* AsyncWorker: records still to locate
  run,            \* LocateDataAsync: index of the current run
  dataClusters,   \* the buffered channel of what was read
  dataClosed,     \* it is closed
  ppc,            \* AsyncProcess: "recv", "parse", "emit", "return", "done"
  dataCluster,    \* AsyncProcess: the current chunk
  offset,         \* AsyncProcess: where in it the next record begins
  record,         \* AsyncProcess: the last record parsed
  recordsClosed,  \* recordsCH is closed; it has no buffer
  records,        \* the journal records collected
  crashed         \* a panic ended the process

mainVars == <<r, mpc, records>>
workVars == <<wpc, todo, run>>
dataVars == <<dataClusters, dataClosed>>
parseVars == <<ppc, dataCluster, offset, record, recordsClosed>>
vars == <<job, mainVars, wg, workVars, dataVars, parseVars, crashed>>

mft == job.mft
Current == mft[job.mftrecords[r]]

\* dataClusters has room for as many chunks as the file has bytes.
Capacity == Current.size

\* GetRunList of a record looks at the record, or at its first linked record.
RunListHolder(x) == IF mft[x].links = <<>> THEN x ELSE Head(mft[x].links)

\* A resident DATA attribute is one chunk; GetRunList panics without runs.
HasData(x) == mft[x].data = "resident" \/ mft[RunListHolder(x)].data = "runs"
RunsOf(x) == IF mft[x].data = "resident" THEN mft[x].runs ELSE mft[RunListHolder(x)].runs

\* The records that stand for the data of a record, in the order they are read.
WorkOf(x) == IF mft[x].folder THEN <<>>
             ELSE IF mft[x].links = <<>> THEN <<x>> ELSE mft[x].links

-----------------------------------------------------------------------------
(* What is stored, in halves of 16 bits, and what Parse makes of it.       *)

HeaderLength == 30

\* A record is filled up to a multiple of eight bytes.
Encode(it) ==
  LET length == 4 * ((HeaderLength + Len(it.name) + 3) \div 4)
      header == <<2 * length, 0, 2, 0, it.ref, 0, 0, it.seq>> \o it.mid
                  \o <<2 * Len(it.name), 2 * HeaderLength>>
      filler == [k \in 1 .. length - HeaderLength - Len(it.name) |-> 0]
  IN header \o it.name \o filler

Bytes(rn) == FlattenSeq([k \in DOMAIN rn.items |-> Encode(rn.items[k])])

\* A run has room for the records in it.
FitsIn(rn) == rn.kind = "read" => 2 * Len(Bytes(rn)) <= rn.size
ASSUME RunsAssumption ==
  \A j \in Jobs : \A x \in Rec : \A k \in DOMAIN j.mft[x].runs : FitsIn(j.mft[x].runs[k])

HalfAt(rn, p) == LET k == p \div 2 + 1
                 IN IF k \in DOMAIN Bytes(rn) THEN Bytes(rn)[k] ELSE 0

Field(rn, o, name) == o + Fields!OffsetOf(Fields!UsnRecord, name)
FnameLen(rn, o) == HalfAt(rn, Field(rn, o, "FnameLen"))
EntryRef(rn, o) == [k \in 1 .. 4 |-> HalfAt(rn, Field(rn, o, "EntryRef") + 2 * (k - 1))]

ReadFrom == 60
ReadTo(rn, o) == ReadFrom + 2 * FnameLen(rn, o)

\* The bytes that the fields take up to the name.
FilledBytes == Fields!OffsetOf(Fields!UsnRecord, "FnameOffset") + 2

EnoughBug(rn, o) == TRUE
Enough(rn, o) == rn.size - o >= ReadFrom

\* Unmarshal takes its slices from the data, and from the room behind them if there is any.
Overruns(rn, o) == Enough(rn, o) /\ rn.size - o < FilledBytes /\ ~rn.spare

\* Parse returns no error.
IsParsed(rn, o) == Enough(rn, o) /\ ReadTo(rn, o) <= rn.size - o
Parsed(rn, o) == [EntryRef |-> EntryRef(rn, o), FnameLen |-> FnameLen(rn, o)]
IsZero(rn, o) == EntryRef(rn, o) = <<0, 0, 0, 0>>

NoChunk == [kind |-> "read", items |-> <<>>, size |-> 0, spare |-> FALSE]
NoRecord == [EntryRef |-> <<0, 0, 0, 0>>, FnameLen |-> 0]

-----------------------------------------------------------------------------
Init ==
  /\ job \in Jobs
  /\ r = 1 /\ mpc = "next" /\ wg = 0 /\ records = <<>>
  /\ wpc = "done" /\ todo = <<>> /\ run = 1
  /\ dataClusters = <<>> /\ dataClosed = TRUE
  /\ ppc = "done" /\ dataCluster = NoChunk /\ offset = 0 /\ record = NoRecord
  /\ recordsClosed = TRUE
  /\ crashed = FALSE

(* Process.                                                                *)

GoroutinesBug == 1
Goroutines == 2

\* New channels and a new WaitGroup for every record.
StartGoroutines ==
  /\ mpc = "next" /\ r <= Len(job.mftrecords)
  /\ wg' = Goroutines
  /\ wpc' = "start" /\ todo' = <<>> /\ run' = 1
  /\ dataClusters' = <<>> /\ dataClosed' = FALSE
  /\ ppc' = "recv" /\ dataCluster' = NoChunk /\ offset' = 0 /\ record' = NoRecord
  /\ recordsClosed' = FALSE
  /\ mpc' = "recv"
  /\ UNCHANGED <<job, r, records, crashed>>

RecordsEnd ==
  /\ mpc = "recv" /\ recordsClosed
  /\ mpc' = "wait"
  /\ UNCHANGED <<job, r, records, wg, workVars, dataVars, parseVars, crashed>>

WaitReturns ==
  /\ mpc = "wait" /\ wg = 0
  /\ r' = r + 1 /\ mpc' = "next"
  /\ UNCHANGED <<job, records, wg, workVars, dataVars, parseVars, crashed>>

Return ==
  /\ mpc = "next" /\ r > Len(job.mftrecords)
  /\ mpc' = "done"
  /\ UNCHANGED <<job, r, records, wg, workVars, dataVars, parseVars, crashed>>

(* AsyncWorker and LocateDataAsync.                                        *)

\* For a folder there is nothing to locate: the channel is closed at once.
OpenRecord ==
  /\ wpc = "start"
  /\ todo' = WorkOf(job.mftrecords[r]) /\ wpc' = "locate"
  /\ UNCHANGED <<job, mainVars, wg, run, dataVars, parseVars, crashed>>

CloseData ==
  /\ wpc = "locate" /\ todo = <<>>
  /\ dataClosed' = TRUE /\ wpc' = "return"
  /\ UNCHANGED <<job, mainVars, wg, todo, run, dataClusters, parseVars, crashed>>

LocateDataAsync ==
  /\ wpc = "locate" /\ todo # <<>>
  /\ IF HasData(Head(todo))
     THEN run' = 1 /\ wpc' = "run" /\ UNCHANGED crashed
     ELSE crashed' = TRUE /\ UNCHANGED <<run, wpc>>
  /\ UNCHANGED <<job, mainVars, wg, todo, dataVars, parseVars>>

\* A send on a channel without a buffer needs a receiver.
CanSendBug == Len(dataClusters) < Capacity
CanSend == \/ Len(dataClusters) < Capacity
           \/ Capacity = 0 /\ dataClusters = <<>> /\ ppc = "recv"

\* break: what follows a run beyond the disk is not read.
AfterBeyondBug(runs) == run
AfterBeyond(runs) == Len(runs) + 1

RunLoop ==
  /\ wpc = "run"
  /\ LET runs == RunsOf(Head(todo)) IN
     \/ /\ run > Len(runs)
        /\ todo' = Tail(todo) /\ wpc' = "locate"
        /\ UNCHANGED <<run, dataClusters>>
     \/ /\ run <= Len(runs) /\ runs[run].kind = "beyond"
        /\ run' = AfterBeyond(runs)
        /\ UNCHANGED <<wpc, todo, dataClusters>>
     \/ /\ run <= Len(runs) /\ runs[run].kind = "sparse"
        /\ run' = run + 1
        /\ UNCHANGED <<wpc, todo, dataClusters>>
     \/ /\ run <= Len(runs) /\ runs[run].kind = "read" /\ CanSend
        /\ dataClusters' = Append(dataClusters, runs[run])
        /\ run' = run + 1
        /\ UNCHANGED <<wpc, todo>>
  /\ UNCHANGED <<job, mainVars, wg, dataClosed, parseVars, crashed>>

WorkerReturns ==
  /\ wpc = "return" /\ wpc' = "done" /\ wg' = wg - 1
  /\ UNCHANGED <<job, mainVars, todo, run, dataVars, parseVars, crashed>>

(* AsyncProcess.                                                           *)

ReceiveChunk ==
  /\ ppc = "recv" /\ dataClusters # <<>>
  /\ dataCluster' = Head(dataClusters) /\ dataClusters' = Tail(dataClusters)
  /\ offset' = 0 /\ ppc' = "parse"
  /\ UNCHANGED <<job, mainVars, wg, workVars, dataClosed, record, recordsClosed, crashed>>

\* break: where a chunk that cannot be parsed any further is left.
AfterErrorBug == offset + ReadFrom
AfterErrorAgain == 0
AfterError == dataCluster.size

\* One turn of the loop over a chunk: an error leaves the chunk, not the goroutine.
Parse ==
  /\ ppc = "parse"
  /\ \/ /\ offset >= dataCluster.size
        /\ ppc' = "recv" /\ UNCHANGED <<offset, record, crashed>>
     \/ /\ offset < dataCluster.size /\ Overruns(dataCluster, offset)
        /\ crashed' = TRUE /\ UNCHANGED <<ppc, offset, record>>
     \/ /\ offset < dataCluster.size /\ ~Overruns(dataCluster, offset)
        /\ ~IsParsed(dataCluster, offset)
        /\ offset' = AfterError /\ UNCHANGED <<ppc, record, crashed>>
     \/ /\ offset < dataCluster.size /\ ~Overruns(dataCluster, offset)
        /\ IsParsed(dataCluster, offset)
        /\ record' = Parsed(dataCluster, offset)
        /\ offset' = offset + ReadTo(dataCluster, offset)
        /\ ppc' = IF IsZero(dataCluster, offset) THEN "parse" ELSE "emit"
        /\ UNCHANGED crashed
  /\ UNCHANGED <<job, mainVars, wg, workVars, dataVars, dataCluster, recordsClosed>>

\* recordsCH <- *record, received by the loop in Process.
Emit ==
  /\ ppc = "emit" /\ mpc = "recv"
  /\ records' = Append(records, record)
  /\ ppc' = "parse"
  /\ UNCHANGED <<job, r, mpc, wg, workVars, dataVars, dataCluster, offset, record,
                 recordsClosed, crashed>>

DrainedBug == dataClosed
Drained == dataClosed /\ dataClusters = <<>>

CloseRecords ==
  /\ ppc = "recv" /\ Drained
  /\ recordsClosed' = TRUE /\ ppc' = "return"
  /\ UNCHANGED <<job, mainVars, wg, workVars, dataVars, dataCluster, offset, record, crashed>>

ParserReturns ==
  /\ ppc = "return" /\ ppc' = "done" /\ wg' = wg - 1
  /\ UNCHANGED <<job, mainVars, workVars, dataVars, dataCluster, offset, record, recordsClosed,
                 crashed>>

-----------------------------------------------------------------------------
Process == StartGoroutines \/ RecordsEnd \/ WaitReturns \/ Return
AsyncWorker == OpenRecord \/ CloseData \/ LocateDataAsync \/ RunLoop \/ WorkerReturns
AsyncProcess == ReceiveChunk \/ Parse \/ Emit \/ CloseRecords \/ ParserReturns

Ended == (mpc = "done" \/ crashed) /\ UNCHANGED vars

Next == (~crashed /\ (Process \/ AsyncWorker \/ AsyncProcess)) \/ Ended

\* The Go scheduler runs every goroutine that can run.
Fairness ==
  /\ WF_vars(~crashed /\ Process)
  /\ WF_vars(~crashed /\ AsyncWorker)
  /\ WF_vars(~crashed /\ AsyncProcess)

Spec == Init /\ [][Next]_vars /\ Fairness
-----------------------------------------------------------------------------
(* Properties.                                                             *)

\* Type invariant. At most Capacity chunks wait for AsyncProcess; without a
\* buffer, the one it is about to take.
TypeOK ==
  /\ job \in Jobs
  /\ r \in 1 .. Len(job.mftrecords) + 1
  /\ mpc \in {"next", "recv", "wait", "done"}
  /\ wg \in 0 .. 2
  /\ wpc \in {"start", "locate", "run", "return", "done"}
  /\ todo \in Seq(Rec) /\ run \in Nat \ {0}
  /\ dataClusters \in Seq(Run) /\ dataClosed \in BOOLEAN
  /\ mpc # "next" /\ mpc # "done" =>
       Len(dataClusters) <= IF Capacity = 0 THEN 1 ELSE Capacity
  /\ ppc \in {"recv", "parse", "emit", "return", "done"}
  /\ dataCluster \in Run
  /\ offset \in 0 .. dataCluster.size
  /\ {record} \union Range(records) \subseteq [EntryRef: Seq(Half), FnameLen: Half]
  /\ recordsClosed \in BOOLEAN /\ crashed \in BOOLEAN

\* Process, AsyncWorker and AsyncProcess: the WaitGroup counts the goroutines
\* that run, each closes its channel exactly when it ends, and between two
\* $MFT records neither goroutine nor data of the previous one is left.
Protocol ==
  /\ wg = Cardinality({g \in {"worker", "parser"} :
                          IF g = "worker" THEN wpc # "done" ELSE ppc # "done"})
  /\ dataClosed <=> wpc \in {"return", "done"}
  /\ recordsClosed <=> ppc \in {"return", "done"}
  /\ recordsClosed => dataClosed /\ dataClusters = <<>> /\ offset >= dataCluster.size
  /\ mpc \in {"next", "done"} => recordsClosed /\ wg = 0

\* The reference: what one loop over the data of a record, up to the first run
\* beyond the disk, and over each chunk, up to the first error, collects.
UpTo(s, stop(_)) == IF \E i \in DOMAIN s : stop(s[i])
                    THEN SubSeq(s, 1, SelectInSeq(s, stop) - 1) ELSE s

\* The runs of a record that are looked at, and what is parsed in one of them.
Seen(x) == UpTo(RunsOf(x), LAMBDA rn : rn.kind = "beyond")

Ends(rn, o) == o >= rn.size \/ Overruns(rn, o) \/ ~IsParsed(rn, o)
Collected(rn, o) == IF IsZero(rn, o) THEN <<>> ELSE <<Parsed(rn, o)>>

\* The walk over a chunk from each offset: the records it collects and where it stops.
Walk(rn) ==
  LET walk[o \in 0 .. rn.size] ==
        IF Ends(rn, o) THEN [records |-> <<>>, end |-> o]
        ELSE LET next == walk[o + ReadTo(rn, o)]
             IN [records |-> Collected(rn, o) \o next.records, end |-> next.end]
  IN walk

ParsedFrom(rn) == IF rn.kind = "read" THEN Walk(rn)[0].records ELSE <<>>
LastOffset(rn) == Walk(rn)[0].end

RunData(x) == [k \in DOMAIN Seen(x) |-> ParsedFrom(Seen(x)[k])]
WorkData(x) == [w \in DOMAIN WorkOf(x) |-> FlattenSeq(RunData(WorkOf(x)[w]))]
DataOf(x) == FlattenSeq(WorkData(x))

Expected(n) == FlattenSeq([i \in 1 .. n |-> DataOf(job.mftrecords[i])])

\* Process: whatever the interleaving of the three goroutines, the records are
\* collected in the order of the data, none twice and none of a chunk after an
\* error in it; and a $MFT record is left only when all of its are collected.
CollectedInOrder ==
  /\ r <= Len(job.mftrecords) =>
       IsPrefix(records, Expected(r))
  /\ mpc \in {"wait", "next", "done"} =>
       records = Expected(IF mpc = "wait" THEN r ELSE r - 1)

\* AsyncWorker, Parse: a record without data makes the process panic, and so does a chunk
\* whose records, by the lengths that are read, leave 60 or 61 bytes at its end in a
\* slice that has no room behind them: 62 are taken. Nothing else in the data does.
PanicsAreExplained ==
  crashed =>
    LET x == job.mftrecords[r] IN
    \/ \E w \in Range(WorkOf(x)) : ~HasData(w)
    \/ \E w \in Range(WorkOf(x)) : \E rn \in Range(Seen(w)) :
         rn.kind = "read" /\ ~rn.spare /\ rn.size - LastOffset(rn) \in {60, 61}

\* Whether a goroutine has something to do that waits for no other one.
ProcessMoves == mpc = "next" \/ (mpc = "recv" /\ recordsClosed) \/ (mpc = "wait" /\ wg = 0)
WorkerMoves ==
  \/ wpc \in {"start", "locate", "return"}
  \/ /\ wpc = "run"
     /\ \/ run > Len(RunsOf(Head(todo)))
        \/ RunsOf(Head(todo))[run].kind # "read"
        \/ CanSend
ParserMoves ==
  \/ ppc \in {"parse", "return"}
  \/ ppc = "recv" /\ (dataClusters # <<>> \/ Drained)
  \/ ppc = "emit" /\ mpc = "recv"

\* Process, AsyncWorker, AsyncProcess: the loop over the collected records waits for one of
\* the two goroutines, the worker for the parser when it cannot send, the parser for the
\* worker when nothing is sent, and never both for each other: of any capacity, none too.
NoCircularWait ==
  ~crashed =>
    /\ mpc \in {"recv", "wait"} /\ ~ProcessMoves => WorkerMoves \/ ParserMoves
    /\ wpc = "run" /\ ~WorkerMoves => ParserMoves
    /\ ppc = "recv" /\ ~ParserMoves => WorkerMoves
    /\ ppc = "emit" => ParserMoves

ProcessStage == CASE mpc = "next" -> 3 [] mpc = "recv" -> 2 [] mpc = "wait" -> 1 [] OTHER -> 0
WorkerStage == CASE wpc = "locate" -> 3 [] wpc = "run" -> 2 [] wpc = "return" -> 1 [] OTHER -> 0
RunsLeft == IF wpc = "run" THEN TurnsLeft(Len(RunsOf(Head(todo))), run) ELSE 0
BytesLeft == IF ppc \in {"parse", "emit"} THEN dataCluster.size - offset ELSE 0
ParserStage ==
  CASE ppc = "emit" -> 4 [] ppc = "parse" -> 3 [] ppc = "recv" -> 2 [] ppc = "return" -> 1
    [] OTHER -> 0

\* What is left: of the $MFT records and of the turn of Process; of the records that stand
\* for one, and of the runs of each; of the chunks on their way, and of the one in hand.
LeftToDo ==
  <<OneIf(~crashed), TurnsLeft(Len(job.mftrecords), r), ProcessStage, OneIf(wpc = "start"),
    Len(todo), WorkerStage, RunsLeft, Len(dataClusters), BytesLeft, ParserStage>>

\* Process, RunLoop, Parse: every step of any goroutine leaves less to do, whatever is in
\* the data: an error, a zero area or a run beyond the disk keeps no loop going.
EveryStepCounts == [][IsMeasure(LeftToDo) /\ Below(LeftToDo', LeftToDo)]_vars

\* Process: a panic apart, it returns: an error in a chunk, a run beyond the
\* disk or an empty file stops neither goroutine for ever.
Termination == <>(mpc = "done" \/ crashed)
=============================================================================
