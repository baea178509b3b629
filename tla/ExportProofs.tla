---------------------------- MODULE ExportProofs ----------------------------
(***************************************************************************)
(* Safety of the export pipeline for every set of records, every job and   *)
(* every interleaving: type correctness, the channel and WaitGroup         *)
(* protocol, and that wg.Wait covers the writes.                           *)
(*                                                                         *)
(* None of them is inductive alone.  TypeOK needs Protocol (a goroutine    *)
(* that calls wg.Done has not returned before; Worker takes the head of a  *)
(* list that is not empty), WaitCoversWrites needs Protocol and Delivered. *)
(***************************************************************************)
EXTENDS ExportPipeline, SequenceLemmas

IInv == TypeOK /\ Protocol /\ Delivered

-----------------------------------------------------------------------------
(* What the accessors return.                                              *)

\* The table and the records of a job are what Job says.
LEMMA JobType ==
  ASSUME job \in Jobs
  PROVE  /\ records \in Seq(Rec) /\ Len(records) \in Nat
         /\ job.part \in Int /\ job.disk \in Int
         /\ job.files \in [Keys -> Content \union {NoFile}]
         /\ \A r \in Rec :
              /\ mft[r].entry \in Entries /\ mft[r].fname \in Names
              /\ mft[r].data.size \in Nat /\ mft[r].data.runs \in Seq(Run)
              /\ mft[r].links \in Seq(Rec) /\ mft[r].origin \in Rec \union {NoRec}
  <1>1. job \in Job
    BY JobsAssumption
  <1>2. records \in Seq(Rec) /\ mft \in [Rec -> Record] /\ job.part \in Nat
        /\ job.disk \in Nat /\ job.files \in [Keys -> Content \union {NoFile}]
    BY <1>1 DEF Job, records, mft
  <1>3. \A r \in Rec : mft[r] \in Record
    BY <1>2
  <1> QED
    BY <1>2, <1>3, LenProperties DEF Record

\* GetFname yields a name, whether the record is a base or an extension record.
LEMMA FnameType ==
  ASSUME job \in Jobs, NEW r \in Rec
  PROVE  GetFname(r) \in Names
  <1>1. Owner(r) \in Rec
    BY JobType DEF Owner
  <1> QED
    BY <1>1, JobType DEF GetFname

\* GetRunList yields a run list.
LEMMA RunListType ==
  ASSUME job \in Jobs, NEW r \in Rec
  PROVE  RunListOf(r) \in Seq(Run)
  <1>1. RunListHolder(r) \in Rec
    BY JobType, HeadTailProperties DEF RunListHolder
  <1> QED
    BY <1>1, JobType DEF RunListOf

\* There is something to locate for every record, and it is a list of records.
LEMMA WorkType ==
  ASSUME job \in Jobs, NEW r \in Rec
  PROVE  WorkOf(r) \in Seq(Rec) /\ WorkOf(r) # <<>>
  BY JobType DEF WorkOf

\* A result in hand has a path.
LEMMA PathType ==
  ASSUME item \in Result
  PROVE  Path \in Keys
  BY DEF Path, NameOf, Result, Keys

\* What Worker sends is a result.
LEMMA SentType ==
  ASSUME job \in Jobs, NEW r \in Rec, buf \in Content
  PROVE  [rec |-> r, fname |-> GetFname(r), id |-> mft[r].entry, content |-> buf] \in Result
  BY JobType, FnameType DEF Result

\* Opening a file and appending to it yields contents.
LEMMA AppendedType ==
  ASSUME NEW old \in Content \union {NoFile}, NEW new \in Content
  PROVE  Opened(old) \in Content /\ Opened(old) \o new \in Content
  <1>1. Opened(old) \in Content
    BY EmptySeq DEF Opened, Content
  <1> QED
    BY <1>1, ConcatProperties DEF Content

-----------------------------------------------------------------------------
(* The initial states.                                                     *)

\* The call of ExportRecords starts with no goroutine, an empty channel and nothing written.
LEMMA InitIInv == Init => IInv
  <1> SUFFICES ASSUME Init PROVE IInv
    OBVIOUS
  <1> USE DEF Init
  <1>1. TypeOK
    <2>1. /\ buf \in Content /\ hashes \in Seq([rec: Rec, data: Content])
          /\ sent \in Seq(Result) /\ written \in Seq(Result) /\ results \in Seq(Result)
          /\ todo \in Seq(Rec)
      BY EmptySeq DEF Content
    <2>2. job \in Jobs /\ Len(results) <= Len(records)
      BY JobType
    <2>3. files \in [Keys -> Content \union {NoFile}]
      BY JobType
    <2>4. item \in Result \union {NoItem} /\ (epc \in {"remove", "open", "append"} <=> item # NoItem)
      OBVIOUS
    <2>5. /\ mpc \in {"call", "wait", "hash", "done"} /\ wg \in 0..2 /\ h \in Nat \ {0}
          /\ wpc \in {"idle", "record", "locate", "run", "send", "return", "done"}
          /\ i \in Nat \ {0} /\ run \in Nat \ {0} /\ offset \in Int
      OBVIOUS
    <2>6. /\ closed \in BOOLEAN /\ crashed \in BOOLEAN /\ faulty \subseteq Nat \ {0}
          /\ epc \in {"idle", "recv", "remove", "open", "append", "done"}
      OBVIOUS
    <2> HIDE DEF Init
    <2> QED
      BY <2>1, <2>2, <2>3, <2>4, <2>5, <2>6 DEF TypeOK
  <1>2. Protocol
    BY DEF Protocol
  <1>3. Delivered
    BY DEF Delivered, InHand
  <1> QED
    BY <1>1, <1>2, <1>3 DEF IInv

-----------------------------------------------------------------------------
(* Type correctness is preserved.  A step needs Protocol for the counter   *)
(* of the WaitGroup and for the head of todo.                              *)

\* ExportRecords, wg.Wait and HashFiles keep the types.
LEMMA MainTypeOK ==
  ASSUME TypeOK, Protocol, Main
  PROVE  TypeOK'
  <1> USE DEF vars, mainVars, workVars, locateVars, exportVars
  <1>1. CASE ExportRecords
    <2>1. UNCHANGED <<job, h, hashes, i, todo, locateVars, sent, results, closed,
                      item, files, faulty, written, crashed>>
      BY <1>1 DEF ExportRecords
    <2>2. item = NoItem /\ epc = "idle" /\ wpc = "idle" /\ wg \in 0..2
      BY <1>1 DEF ExportRecords, Protocol, TypeOK
    <2>3. AfterExport \in {"done", "hash"}
      BY DEF AfterExport
    <2>4. /\ mpc' \in {"wait", "hash", "done"} /\ wg' \in 0..2
          /\ wpc' \in {"idle", "record"} /\ epc' \in {"idle", "recv"}
      BY <1>1, <2>2, <2>3 DEF ExportRecords, Goroutines
    <2> QED
      BY <2>1, <2>2, <2>3, <2>4 DEF TypeOK, records
  <1>2. CASE WaitReturns
    BY <1>2 DEF WaitReturns, TypeOK, AfterExport, records
  <1>3. CASE HashFiles
    <2>1. /\ UNCHANGED <<job, wg, workVars, results, closed, exportVars, crashed>>
          /\ h' \in Nat \ {0} /\ mpc' \in {"call", "wait", "hash", "done"}
      BY <1>3 DEF HashFiles, TypeOK
    <2>2. hashes' \in Seq([rec: Rec, data: Content])
      <3>1. CASE ~SupportedHash \/ h > Len(records)
        BY <1>3, <3>1 DEF HashFiles, TypeOK
      <3>2. CASE ~(~SupportedHash \/ h > Len(records))
        <4> DEFINE r == records[h]
                   data == files[HashNameOf(r)]
        <4>1. hashes' = IF data = NoFile THEN hashes ELSE Append(hashes, [rec |-> r, data |-> data])
          BY <1>3, <3>2 DEF HashFiles
        <4>2. r \in Rec
          BY <3>2, JobType, ElementOfSeq DEF TypeOK
        <4>3. HashNameOf(r) \in Keys
          BY <4>2, FnameType DEF TypeOK, HashNameOf, Keys
        <4>4. data \in Content \union {NoFile}
          BY <4>3 DEF TypeOK
        <4>5. hashes \in Seq([rec: Rec, data: Content])
          BY DEF TypeOK
        <4> HIDE DEF r, data
        <4>6. CASE data = NoFile
          BY <4>1, <4>5, <4>6
        <4>7. CASE data # NoFile
          <5>1. [rec |-> r, data |-> data] \in [rec: Rec, data: Content]
            BY <4>2, <4>4, <4>7
          <5> QED
            BY <4>1, <4>5, <4>7, <5>1
        <4> QED
          BY <4>6, <4>7
      <3> QED
        BY <3>1, <3>2
    <2> QED
      BY <2>1, <2>2 DEF TypeOK, records
  <1> QED
    BY <1>1, <1>2, <1>3 DEF Main

\* Worker, LocateData and the deferred wg.Done keep the types and the channel capacity.
LEMMA WorkerTypeOK ==
  ASSUME TypeOK, Protocol, Worker
  PROVE  TypeOK'
  <1> USE DEF vars, mainVars, workVars, locateVars, exportVars
  <1>0. job \in Jobs /\ todo \in Seq(Rec) /\ buf \in Content /\ i \in Nat \ {0}
        /\ run \in Nat \ {0} /\ offset \in Int
    BY DEF TypeOK
  <1>h. wpc \in {"locate", "run", "send"} => Head(todo) \in Rec /\ Tail(todo) \in Seq(Rec)
    BY <1>0, HeadTailProperties DEF Protocol
  <1>1. CASE NextRecord
    <2>1. UNCHANGED <<job, mainVars, locateVars, sent, results, closed, exportVars, crashed>>
      BY <1>1 DEF NextRecord
    <2>2. records[i] \in Rec
      BY <1>0, <1>1, JobType, ElementOfSeq DEF NextRecord
    <2>3. WorkOf(records[i]) \in Seq(Rec)
      BY <1>0, <2>2, WorkType
    <2>4. i' \in Nat \ {0} /\ todo' \in Seq(Rec) /\ wpc' \in {"record", "locate"}
      BY <1>0, <1>1, <2>3 DEF NextRecord
    <2> QED
      BY <2>1, <2>4 DEF TypeOK, records
  <1>2. CASE LocateData
    <2>1. UNCHANGED <<job, mainVars, i, todo, sent, results, closed, exportVars>>
      BY <1>2 DEF LocateData
    <2>2. Head(todo) \in Rec
      BY <1>h, <1>2 DEF LocateData
    <2>3. mft[Head(todo)].data.size \in Nat /\ job.part \in Int
      BY <1>0, <2>2, JobType
    <2>4. <<[at |-> -1, len |-> mft[Head(todo)].data.size]>> \in Content /\ <<>> \in Content
      BY <2>3 DEF Content, Chunk
    <2>5. buf' \in Content /\ run' \in Nat \ {0} /\ offset' \in Int
      BY <1>0, <1>2, <2>3, <2>4 DEF LocateData
    <2>6. wpc' \in {"locate", "run", "send"} /\ crashed' \in BOOLEAN
      BY <1>2 DEF LocateData, TypeOK
    <2> QED
      BY <2>1, <2>5, <2>6 DEF TypeOK, records
  <1>3. CASE ReadRun
    <2> DEFINE runs == RunListOf(Head(todo))
               at == offset + runs[run].off
    <2>1. UNCHANGED <<job, mainVars, i, todo, sent, results, closed, exportVars, crashed>>
      BY <1>3 DEF ReadRun
    <2>2. runs \in Seq(Run)
      BY <1>0, <1>h, <1>3, RunListType DEF ReadRun
    <2>3. CASE run > Len(runs)
      <3>1. wpc' = "send" /\ UNCHANGED locateVars
        BY <1>3, <2>3 DEF ReadRun
      <3> QED
        BY <2>1, <3>1 DEF TypeOK, records
    <2>4. CASE ~(run > Len(runs))
      <3>1. run \in 1..Len(runs)
        BY <1>0, <2>2, <2>4, LenProperties
      <3>2. runs[run] \in Run
        BY <2>2, <3>1, ElementOfSeq
      <3>3. at \in Int /\ runs[run].len \in Int
        BY <1>0, <3>2 DEF Run
      <3>4. Append(buf, [at |-> at, len |-> runs[run].len]) \in Content
        <4>1. [at |-> at, len |-> runs[run].len] \in Chunk
          BY <3>3 DEF Chunk
        <4> HIDE DEF at, runs
        <4> QED
          BY <1>0, <4>1 DEF Content
      <3>5. /\ offset' = at
            /\ buf' = buf \/ buf' = Append(buf, [at |-> at, len |-> runs[run].len])
            /\ run' = run \/ run' = run + 1
            /\ wpc' = "send" \/ wpc' = wpc
        BY <1>3, <2>4 DEF ReadRun, NextRun
      <3>6. buf' \in Content /\ offset' \in Int
        BY <1>0, <3>3, <3>4, <3>5
      <3>7. run' \in Nat \ {0} /\ wpc' \in {"send", "run"}
        BY <1>0, <1>3, <3>5 DEF ReadRun
      <3> QED
        BY <2>1, <3>6, <3>7 DEF TypeOK, records
    <2> QED
      BY <2>3, <2>4
  <1>4. CASE SendResult
    <2> DEFINE r == Head(todo)
               res == [rec |-> r, fname |-> GetFname(r), id |-> mft[r].entry, content |-> buf]
    <2>1. UNCHANGED <<job, mainVars, locateVars, closed, exportVars, crashed>>
      BY <1>4 DEF SendResult
    <2>2. res \in Result
      BY <1>0, <1>h, <1>4, SentType DEF SendResult
    <2>3. results' = Append(results, res) /\ sent' = Append(sent, res)
      BY <1>4 DEF SendResult, Enqueued
    <2>4. todo' \in Seq(Rec) /\ i' \in Nat \ {0} /\ wpc' \in {"record", "locate"}
      BY <1>0, <1>h, <1>4 DEF SendResult
    <2>5. Len(results) < Len(records) /\ Len(records) \in Nat
      BY <1>0, <1>4, JobType DEF SendResult, HasRoom
    <2> HIDE DEF res
    <2>6. results' \in Seq(Result) /\ sent' \in Seq(Result) /\ Len(results') <= Len(records)
      BY <2>2, <2>3, <2>5 DEF TypeOK
    <2> QED
      BY <2>1, <2>4, <2>6 DEF TypeOK, records
  <1>5. CASE CloseResults
    BY <1>5 DEF CloseResults, TypeOK, records
  <1>6. CASE WorkerReturns
    <2>1. wg = 1 \/ wg = 2
      BY <1>6 DEF WorkerReturns, TypeOK, Protocol, Running
    <2>2. wg' \in 0..2 /\ wpc' = "done"
      BY <1>6, <2>1 DEF WorkerReturns
    <2>3. UNCHANGED <<job, mpc, h, hashes, i, todo, locateVars, sent, results, closed,
                      exportVars, crashed>>
      BY <1>6 DEF WorkerReturns
    <2> QED
      BY <2>2, <2>3 DEF TypeOK, records
  <1> QED
    BY <1>1, <1>2, <1>3, <1>4, <1>5, <1>6 DEF Worker

\* ExportData and CreateFile keep the types.
LEMMA ExportDataTypeOK ==
  ASSUME TypeOK, Protocol, ExportData
  PROVE  TypeOK'
  <1> USE DEF vars, mainVars, workVars, locateVars, exportVars
  <1>0. /\ job \in Jobs /\ results \in Seq(Result) /\ written \in Seq(Result)
        /\ files \in [Keys -> Content \union {NoFile}]
        /\ Len(results) <= Len(records) /\ Len(records) \in Nat
    BY JobType DEF TypeOK
  <1>f. faulty \union {Number} \subseteq Nat \ {0}
    <2>1. Number \in Nat \ {0}
      BY <1>0, LenProperties DEF Number
    <2>2. faulty \subseteq Nat \ {0}
      BY DEF TypeOK
    <2> QED
      BY <2>1, <2>2
  <1>i. epc \in {"remove", "open", "append"} =>
          /\ item \in Result /\ Path \in Keys /\ item.content \in Content
          /\ Append(written, item) \in Seq(Result)
    <2>1. epc \in {"remove", "open", "append"} => item \in Result
      BY DEF TypeOK
    <2>2. item \in Result => item.content \in Content /\ Append(written, item) \in Seq(Result)
      BY <1>0 DEF Result
    <2> QED
      BY <2>1, <2>2, PathType
  <1>n. NoItem \notin Result
    BY JobsAssumption
  <1>1. CASE Receive
    <2>1. UNCHANGED <<job, mainVars, workVars, closed, files, faulty, written, crashed>>
      BY <1>1 DEF Receive
    <2>2. item' \in Result /\ results' \in Seq(Result) /\ Len(results') <= Len(records)
      BY <1>0, <1>1, HeadTailProperties, LenProperties DEF Receive
    <2>3. epc' = "remove"
      BY <1>1 DEF Receive
    <2> QED
      BY <1>n, <2>1, <2>2, <2>3 DEF TypeOK, records
  <1>2. CASE RemoveFile
    <2>1. UNCHANGED <<job, mainVars, workVars, results, closed, item, faulty, written, crashed>>
      BY <1>2 DEF RemoveFile
    <2>2. files' \in [Keys -> Content \union {NoFile}]
      BY <1>0, <1>2 DEF RemoveFile, Removed
    <2>3. epc = "remove" /\ epc' = "open"
      BY <1>2 DEF RemoveFile
    <2> QED
      BY <2>1, <2>2, <2>3 DEF TypeOK, records
  <1>3. CASE RemoveFails
    <2>1. UNCHANGED <<job, mainVars, workVars, results, closed, item, files, written, crashed>>
      BY <1>3 DEF RemoveFails
    <2>2. epc = "remove" /\ epc' = "open" /\ faulty' \subseteq Nat \ {0}
      BY <1>f, <1>3 DEF RemoveFails
    <2> QED
      BY <2>1, <2>2 DEF TypeOK, records
  <1>4. CASE OpenFile
    <2>1. UNCHANGED <<job, mainVars, workVars, results, closed, item, faulty, written, crashed>>
      BY <1>4 DEF OpenFile
    <2>2. epc = "open" /\ epc' = "append"
      BY <1>4 DEF OpenFile
    <2>3. Opened(files[Path]) \in Content
      BY <1>0, <1>i, <2>2, AppendedType
    <2>4. files' \in [Keys -> Content \union {NoFile}]
      BY <1>0, <1>4, <2>3 DEF OpenFile
    <2> QED
      BY <2>1, <2>2, <2>4 DEF TypeOK, records
  <1>5. CASE OpenFails \/ WriteFile \/ WriteFails
    <2>1. UNCHANGED <<job, mainVars, workVars, results, closed, crashed>>
      BY <1>5 DEF OpenFails, WriteFile, WriteFails
    <2>2. /\ epc \in {"open", "append"} /\ epc' = "recv" /\ item' = NoItem
          /\ written' = Append(written, item)
          /\ faulty' \in {faulty, faulty \union {Number}}
      BY <1>5 DEF OpenFails, WriteFile, WriteFails
    <2>3. files' \in [Keys -> Content \union {NoFile}]
      <3>1. CASE OpenFails
        BY <1>0, <3>1 DEF OpenFails
      <3>2. CASE WriteFile
        <4>1. Opened(files[Path]) \o item.content \in Content
          BY <1>0, <1>i, <2>2, AppendedType
        <4> QED
          BY <1>0, <3>2, <4>1 DEF WriteFile
      <3>3. CASE WriteFails
        <4>1. PICK n \in 0 .. Len(item.content) - 1 :
                files' = [files EXCEPT ![Path] = Opened(@) \o SubSeq(item.content, 1, n)]
          BY <3>3 DEF WriteFails
        <4>2. SubSeq(item.content, 1, n) \in Content
          BY <1>i, <2>2, FirstOnes, LenProperties DEF Content
        <4>3. Opened(files[Path]) \o SubSeq(item.content, 1, n) \in Content
          BY <1>0, <1>i, <2>2, <4>2, AppendedType
        <4> QED
          BY <1>0, <4>1, <4>3
      <3> QED
        BY <1>5, <3>1, <3>2, <3>3
    <2>4. faulty' \subseteq Nat \ {0}
      BY <1>f, <2>2
    <2> QED
      BY <1>i, <2>1, <2>2, <2>3, <2>4 DEF TypeOK, records
  <1>6. CASE ExportDataReturns
    <2>1. wg \in 1..2
      BY <1>6 DEF ExportDataReturns, Drained, TypeOK, Protocol, Running
    <2>2. wg' \in 0..2 /\ epc = "recv" /\ epc' = "done"
      BY <1>6, <2>1 DEF ExportDataReturns
    <2>3. UNCHANGED <<job, mpc, h, hashes, workVars, results, closed, item, files,
                      faulty, written, crashed>>
      BY <1>6 DEF ExportDataReturns
    <2> QED
      BY <2>2, <2>3 DEF TypeOK, records
  <1> QED
    BY <1>1, <1>2, <1>3, <1>4, <1>5, <1>6 DEF ExportData

-----------------------------------------------------------------------------
(* The protocol of the channel and the WaitGroup is preserved.             *)

\* ExportRecords starts the two goroutines it counts; wg.Wait returns when both are done.
LEMMA MainProtocol ==
  ASSUME TypeOK, Protocol, Main
  PROVE  Protocol'
  <1> USE DEF vars, mainVars, workVars, locateVars, exportVars
  <1>0. AfterExport \in {"done", "hash"}
    BY DEF AfterExport
  <1>1. CASE ExportRecords
    <2>1. /\ wpc = "idle" /\ epc = "idle" /\ ~closed /\ results = <<>> /\ item = NoItem
          /\ UNCHANGED <<i, todo, closed, results, item>>
      BY <1>1 DEF ExportRecords, Protocol
    <2>2. CASE records = <<>>
      <3>1. mpc' \in {"done", "hash"} /\ UNCHANGED <<wpc, epc>>
        BY <1>0, <1>1, <2>2 DEF ExportRecords
      <3> QED
        BY <2>1, <3>1 DEF Protocol
    <2>3. CASE records # <<>>
      <3>1. mpc' = "wait" /\ wg' = 2 /\ wpc' = "record" /\ epc' = "recv"
        BY <1>1, <2>3 DEF ExportRecords, Goroutines
      <3> QED
        BY <2>1, <3>1 DEF Protocol, Running
    <2> QED
      BY <2>2, <2>3
  <1>2. CASE WaitReturns
    <2>1. wpc = "done" /\ epc = "done"
      BY <1>2 DEF WaitReturns, Protocol, Running
    <2>2. /\ mpc' \in {"done", "hash"}
          /\ UNCHANGED <<wg, job, wpc, epc, i, todo, closed, results, item>>
      BY <1>0, <1>2 DEF WaitReturns
    <2> QED
      BY <2>1, <2>2 DEF Protocol, records
  <1>3. CASE HashFiles
    BY <1>3 DEF HashFiles, Protocol, Running, records
  <1> QED
    BY <1>1, <1>2, <1>3 DEF Main

\* Worker closes the channel once, after its last send, and returns after that.
LEMMA WorkerProtocol ==
  ASSUME TypeOK, Protocol, Worker
  PROVE  Protocol'
  <1> USE DEF vars, mainVars, workVars, locateVars, exportVars
  <1>1. CASE NextRecord
    <2>1. records[i] \in Rec
      BY <1>1, JobType, ElementOfSeq DEF NextRecord, TypeOK
    <2>2. WorkOf(records[i]) # <<>>
      BY <2>1, WorkType DEF TypeOK
    <2> QED
      BY <1>1, <2>2 DEF NextRecord, Protocol, Running, records
  <1>2. CASE LocateData
    BY <1>2 DEF LocateData, Protocol, Running, records
  <1>3. CASE ReadRun
    BY <1>3 DEF ReadRun, Protocol, Running, records
  <1>4. CASE SendResult
    BY <1>4 DEF SendResult, Protocol, Running, records
  <1>5. CASE CloseResults
    BY <1>5 DEF CloseResults, Protocol, Running, records
  <1>6. CASE WorkerReturns
    BY <1>6 DEF WorkerReturns, Protocol, Running, TypeOK, records
  <1> QED
    BY <1>1, <1>2, <1>3, <1>4, <1>5, <1>6 DEF Worker

\* ExportData returns only when the channel is closed and drained.
LEMMA ExportDataProtocol ==
  ASSUME TypeOK, Protocol, ExportData
  PROVE  Protocol'
  <1> USE DEF vars, mainVars, workVars, locateVars, exportVars
  <1>1. CASE Receive
    BY <1>1 DEF Receive, Protocol, Running, records
  <1>2. CASE RemoveFile
    BY <1>2 DEF RemoveFile, Protocol, Running, records
  <1>3. CASE RemoveFails
    BY <1>3 DEF RemoveFails, Protocol, Running, records
  <1>4. CASE OpenFile
    BY <1>4 DEF OpenFile, Protocol, Running, records
  <1>5. CASE OpenFails
    BY <1>5 DEF OpenFails, Protocol, Running, records
  <1>6. CASE WriteFile
    BY <1>6 DEF WriteFile, Protocol, Running, records
  <1>7. CASE WriteFails
    BY <1>7 DEF WriteFails, Protocol, Running, records
  <1>8. CASE ExportDataReturns
    BY <1>8 DEF ExportDataReturns, Drained, Protocol, Running, TypeOK, records
  <1> QED
    BY <1>1, <1>2, <1>3, <1>4, <1>5, <1>6, <1>7, <1>8 DEF ExportData

-----------------------------------------------------------------------------
(* Nothing is lost between Worker and CreateFile.                          *)

\* Sending puts a result behind the channel, at the end of the concatenation.
KeepsOrder(w, b, c, x) == Append(w \o b \o c, x) = w \o b \o Append(c, x)
LEMMA SendKeepsOrder ==
  ASSUME NEW w \in Seq(Result), NEW c \in Seq(Result), NEW b \in Seq(Result), NEW x \in Result
  PROVE  KeepsOrder(w, b, c, x)
  <1> DEFINE l == w \o b
  <1>1. l \in Seq(Result)
    BY ConcatProperties
  <1> HIDE DEF l
  <1>2. Append(l \o c, x) = l \o Append(c, x)
    <2>1. <<x>> \in Seq(Result)
      OBVIOUS
    <2>2. (l \o c) \o <<x>> = l \o (c \o <<x>>)
      BY <1>1, <2>1, ConcatAssociative
    <2>3. l \o c \in Seq(Result)
      BY <1>1, ConcatProperties
    <2>4. c \o <<x>> = Append(c, x)
      OBVIOUS
    <2>5. (l \o c) \o <<x>> = Append(l \o c, x)
      <3> DEFINE lc == l \o c
      <3> HIDE DEF lc
      <3>1. lc \in Seq(Result)
        BY <2>3 DEF lc
      <3>2. lc \o <<x>> = Append(lc, x)
        BY <3>1
      <3> QED
        BY <3>2 DEF lc
    <2> QED
      BY <2>2, <2>4, <2>5
  <1> QED
    BY <1>2, Zenon DEF l, KeepsOrder

\* Receiving moves the head of the channel into the hand of ExportData.
LEMMA ReceiveKeepsOrder ==
  ASSUME NEW w \in Seq(Result), NEW c \in Seq(Result), c # <<>>
  PROVE  w \o <<>> \o c = w \o <<Head(c)>> \o Tail(c)
  <1>1. c = <<Head(c)>> \o Tail(c)
    BY HeadTailProperties
  <1>2. <<Head(c)>> \in Seq(Result) /\ Tail(c) \in Seq(Result)
    BY HeadTailProperties
  <1>3. w \o (<<Head(c)>> \o Tail(c)) = (w \o <<Head(c)>>) \o Tail(c)
    BY <1>2, ConcatAssociative
  <1>4. w \o <<>> = w
    BY ConcatEmptySeq
  <1> QED
    BY <1>1, <1>3, <1>4

\* Writing moves the result in hand behind the ones written.
LEMMA WriteKeepsOrder ==
  ASSUME NEW w \in Seq(Result), NEW c \in Seq(Result), NEW x \in Result
  PROVE  w \o <<x>> \o c = Append(w, x) \o <<>> \o c
  <1>1. w \o <<x>> = Append(w, x)
    OBVIOUS
  <1>2. Append(w, x) \in Seq(Result)
    OBVIOUS
  <1>3. Append(w, x) \o <<>> = Append(w, x)
    BY <1>2, ConcatEmptySeq
  <1> QED
    BY <1>1, <1>3

\* No step of any goroutine loses, duplicates or reorders a result.
LEMMA DeliveredStep ==
  ASSUME IInv, Main \/ Worker \/ ExportData
  PROVE  Delivered'
  <1> USE DEF vars, mainVars, workVars, locateVars, exportVars
  <1>0. /\ TypeOK /\ Protocol /\ Delivered /\ job \in Jobs
        /\ sent \in Seq(Result) /\ written \in Seq(Result) /\ results \in Seq(Result)
    BY DEF IInv, TypeOK
  <1>n. NoItem \notin Result
    BY JobsAssumption
  <1>1. CASE UNCHANGED <<sent, written, item, results>>
    BY <1>0, <1>1 DEF Delivered, InHand
  <1>2. CASE SendResult
    <2> DEFINE r == Head(todo)
               res == [rec |-> r, fname |-> GetFname(r), id |-> mft[r].entry, content |-> buf]
    <2>1. /\ sent' = Append(sent, res) /\ results' = Append(results, res)
          /\ UNCHANGED <<written, item>>
      BY <1>2 DEF SendResult, Enqueued
    <2>2. res \in Result
      BY <1>0, <1>2, HeadTailProperties, SentType DEF SendResult, Protocol, TypeOK
    <2>3. InHand \in Seq(Result) /\ InHand' = InHand
      BY <1>0, <2>1 DEF InHand, TypeOK
    <2> HIDE DEF res
    <2>4. Append(written \o InHand \o results, res) = written \o InHand \o Append(results, res)
      <3>1. KeepsOrder(written, InHand, results, res)
        BY <1>0, <2>2, <2>3, SendKeepsOrder, Zenon
      <3> QED
        BY <3>1, Zenon DEF KeepsOrder
    <2> QED
      BY <1>0, <2>1, <2>3, <2>4 DEF Delivered
  <1>3. CASE Receive
    <2>1. item = NoItem /\ results # <<>>
      BY <1>0, <1>3 DEF Receive, TypeOK
    <2>2. item' = Head(results) /\ results' = Tail(results) /\ UNCHANGED <<sent, written>>
      BY <1>3 DEF Receive
    <2>3. Head(results) # NoItem
      BY <1>0, <1>n, <2>1, HeadTailProperties
    <2>4. InHand = <<>> /\ InHand' = <<Head(results)>>
      BY <2>1, <2>2, <2>3 DEF InHand
    <2> QED
      BY <1>0, <2>1, <2>2, <2>4, ReceiveKeepsOrder DEF Delivered
  <1>4. CASE OpenFails \/ WriteFile \/ WriteFails
    <2>1. item' = NoItem /\ written' = Append(written, item) /\ UNCHANGED <<sent, results>>
      BY <1>4 DEF OpenFails, WriteFile, WriteFails
    <2>2. item \in Result
      <3>1. epc \in {"open", "append"}
        BY <1>4 DEF OpenFails, WriteFile, WriteFails
      <3> QED
        BY <1>0, <3>1 DEF TypeOK
    <2>3. InHand = <<item>> /\ InHand' = <<>>
      BY <1>n, <2>1, <2>2 DEF InHand
    <2> QED
      BY <1>0, <2>1, <2>2, <2>3, WriteKeepsOrder DEF Delivered
  <1>5. Main => UNCHANGED <<sent, written, item, results>>
    BY DEF Main, ExportRecords, WaitReturns, HashFiles
  <1>6. Worker => SendResult \/ UNCHANGED <<sent, written, item, results>>
    BY DEF Worker, NextRecord, LocateData, ReadRun, CloseResults, WorkerReturns
  <1>7. ExportData => \/ Receive \/ OpenFails \/ WriteFile \/ WriteFails
                     \/ UNCHANGED <<sent, written, item, results>>
    BY DEF ExportData, RemoveFile, RemoveFails, OpenFile, ExportDataReturns
  <1> QED
    BY <1>1, <1>2, <1>3, <1>4, <1>5, <1>6, <1>7

-----------------------------------------------------------------------------
(* The invariant and what follows from it.                                 *)

\* Every step of the three goroutines preserves the invariant.
LEMMA IInvStep == IInv /\ [Next]_vars => IInv'
  <1> SUFFICES ASSUME IInv, [Next]_vars PROVE IInv'
    OBVIOUS
  <1>0. TypeOK /\ Protocol /\ Delivered
    BY DEF IInv
  <1>1. CASE Main
    BY <1>0, <1>1, MainTypeOK, MainProtocol, DeliveredStep DEF IInv
  <1>2. CASE Worker
    BY <1>0, <1>2, WorkerTypeOK, WorkerProtocol, DeliveredStep DEF IInv
  <1>3. CASE ExportData
    BY <1>0, <1>3, ExportDataTypeOK, ExportDataProtocol, DeliveredStep DEF IInv
  <1>4. CASE UNCHANGED vars
    <2> USE <1>4 DEF vars, mainVars, workVars, locateVars, exportVars
    <2>1. TypeOK'
      BY <1>0 DEF TypeOK, records
    <2>2. Protocol'
      BY <1>0 DEF Protocol, Running, records
    <2>3. Delivered'
      BY <1>0 DEF Delivered, InHand
    <2> QED
      BY <2>1, <2>2, <2>3 DEF IInv
  <1> QED
    BY <1>1, <1>2, <1>3, <1>4 DEF Next, Ended

\* The invariant holds of every reachable state.
LEMMA IInvAlways == Spec => []IInv
  BY InitIInv, IInvStep, PTL DEF Spec

\* Every variable has its type in every reachable state: the channel stays within its
\* capacity and the WaitGroup counter never goes negative (Go would panic).
THEOREM TypeCorrect == Spec => []TypeOK
  <1>1. IInv => TypeOK
    BY DEF IInv
  <1> QED
    BY IInvAlways, <1>1, PTL

\* The WaitGroup, the closing of the channel and the states of the goroutines agree.
THEOREM ProtocolHolds == Spec => []Protocol
  <1>1. IInv => Protocol
    BY DEF IInv
  <1> QED
    BY IInvAlways, <1>1, PTL

\* After wg.Wait nothing is in hand or in the channel, so what was sent was written.
LEMMA DrainedAfterWait == IInv => WaitCoversWrites
  <1> SUFFICES ASSUME IInv, mpc \in {"hash", "done"}
               PROVE  written = sent /\ results = <<>> /\ item = NoItem
    BY DEF WaitCoversWrites
  <1>1. results = <<>> /\ item = NoItem
    BY DEF IInv, Protocol
  <1>2. sent = written \o <<>> \o <<>> /\ written \in Seq(Result)
    BY <1>1 DEF IInv, Delivered, InHand, TypeOK
  <1>3. written \o <<>> = written
    BY <1>2, ConcatEmptySeq
  <1> QED
    BY <1>1, <1>2, <1>3

\* When wg.Wait has returned, CreateFile has dealt with every result.
THEOREM WaitCovers == Spec => []WaitCoversWrites
  BY IInvAlways, DrainedAfterWait, PTL

-----------------------------------------------------------------------------
(* What is in the location directory.  FilesSoFar and CrashKeepsWritten    *)
(* are inductive relative to IInv: only the goroutine of ExportData        *)
(* changes the files, and of these only the one of the result in hand.     *)

FInv == IInv /\ FilesSoFar /\ CrashKeepsWritten

\* The results written have paths.
LEMMA WrittenPaths ==
  ASSUME written \in Seq(Result)
  PROVE  \A k \in DOMAIN written : PathOf(written[k]) \in Keys
  <1>1. \A k \in DOMAIN written : written[k] \in Result
    BY ElementOfSeq, LenProperties
  <1>2. \A x \in Result : PathOf(x) \in Keys
    BY DEF PathOf, NameOf, Keys, Result
  <1> QED
    BY <1>1, <1>2

\* Those written after one of them have been written too.
LEMMA LaterPaths ==
  ASSUME written \in Seq(Result), NEW k \in DOMAIN written
  PROVE  \A l \in k .. Len(written) : l \in DOMAIN written
  BY LenProperties

\* Steps of the other goroutines leave all that the two invariants speak of.
LEMMA FilesUntouched ==
  ASSUME FilesSoFar, CrashKeepsWritten, written \in Seq(Result),
         UNCHANGED <<job, epc, item, files, faulty, written>>
  PROVE  FilesSoFar' /\ CrashKeepsWritten'
  <1>1. Path' = Path /\ \A k \in DOMAIN written : PathOf(written[k])' = PathOf(written[k])
    BY DEF Path, PathOf, NameOf
  <1>2. Number' = Number
    BY DEF Number
  <1>3. FilesSoFar'
    BY <1>1, <1>2, LaterPaths DEF FilesSoFar
  <1>4. CrashKeepsWritten'
    BY <1>1, <1>2, LaterPaths DEF CrashKeepsWritten
  <1> QED
    BY <1>3, <1>4

\* Every step of ExportData keeps the files of the results written.
LEMMA FilesStep ==
  ASSUME FInv, ExportData
  PROVE  FilesSoFar' /\ CrashKeepsWritten'
  <1>0. /\ TypeOK /\ FilesSoFar /\ CrashKeepsWritten /\ written \in Seq(Result)
        /\ files \in [Keys -> Content \union {NoFile}]
    BY DEF FInv, IInv, TypeOK
  <1>n. NoFile \notin Content
    BY JobsAssumption
  <1>1. job' = job
    BY DEF ExportData, Receive, RemoveFile, RemoveFails, OpenFile, OpenFails, WriteFile,
       WriteFails, ExportDataReturns
  <1>2. CASE Receive
    <2>1. /\ UNCHANGED <<files, faulty, written>> /\ epc = "recv" /\ epc' = "remove"
      BY <1>2 DEF Receive, exportVars
    <2>2. \A k \in DOMAIN written : PathOf(written[k])' = PathOf(written[k])
      BY <1>1, <2>1 DEF PathOf, NameOf
    <2> QED
      BY <1>0, <2>1, <2>2, LaterPaths DEF FilesSoFar, CrashKeepsWritten
  <1>3. CASE ExportDataReturns
    <2>1. /\ UNCHANGED <<files, faulty, written>> /\ epc = "recv" /\ epc' = "done"
      BY <1>3 DEF ExportDataReturns
    <2>2. \A k \in DOMAIN written : PathOf(written[k])' = PathOf(written[k])
      BY <1>1, <2>1 DEF PathOf, NameOf
    <2> QED
      BY <1>0, <2>1, <2>2, LaterPaths DEF FilesSoFar, CrashKeepsWritten
  <1>4. CASE RemoveFile \/ RemoveFails \/ OpenFile
    <2>1. /\ UNCHANGED <<item, written>>
          /\ \/ epc = "remove" /\ epc' = "open"
             \/ epc = "open" /\ epc' = "append"
          /\ faulty' \in {faulty, faulty \union {Number}}
      BY <1>4 DEF RemoveFile, RemoveFails, OpenFile
    <2>2. /\ \A k \in DOMAIN written : PathOf(written[k])' = PathOf(written[k])
          /\ Path' = Path /\ Number' = Number
      BY <1>1, <2>1 DEF PathOf, Path, NameOf, Number
    <2>3. Path \in Keys
      <3>1. item \in Result
        BY <1>0, <2>1 DEF TypeOK
      <3> QED
        BY <3>1, PathType
    <2>4. /\ \A p \in Keys : p # Path => files'[p] = files[p]
          /\ epc' = "open" => Number \in faulty' \/ files'[Path] = NoFile
          /\ epc' = "append" => files'[Path] = Opened(files[Path]) /\ faulty' = faulty
      BY <1>0, <1>4, <2>3 DEF RemoveFile, RemoveFails, OpenFile, Removed
    <2>5. ASSUME NEW k \in DOMAIN written
          PROVE  PathOf(written[k])' = Path' \/ files'[PathOf(written[k])'] = files[PathOf(written[k])]
      BY <1>0, <2>2, <2>4, WrittenPaths
    <2>6. epc' = "append" => Number' \in faulty' \/ files'[Path'] = <<>>
      BY <1>0, <2>1, <2>2, <2>4 DEF FilesSoFar, Opened
    <2>7. FilesSoFar'
      <3>1. ASSUME NEW k \in DOMAIN written'
            PROVE  LET p == PathOf(written[k])' IN
                   \/ k \in faulty'
                   \/ \E l \in k + 1 .. Len(written') : PathOf(written[l])' = p
                   \/ files'[p] = written'[k].content
                   \/ epc' \in {"open", "append"} /\ p = Path'
        <4>1. k \in DOMAIN written
          BY <2>1
        <4>2. \A l \in k + 1 .. Len(written) : PathOf(written[l])' = PathOf(written[l])
          BY <1>0, <2>2, <4>1, LaterPaths
        <4> QED
          BY <1>0, <2>1, <2>2, <2>5, <4>1, <4>2 DEF FilesSoFar
      <3> QED
        BY <2>2, <2>4, <2>6, <3>1 DEF FilesSoFar
    <2>8. CrashKeepsWritten'
      <3>1. ASSUME NEW k \in DOMAIN written'
            PROVE  LET p == PathOf(written[k])' IN
                   \/ files'[p] # NoFile
                   \/ \E l \in k .. Len(written') : l \in faulty' /\ PathOf(written[l])' = p
                   \/ epc' = "open" /\ p = Path'
        <4>1. k \in DOMAIN written
          BY <2>1
        <4>2. \A l \in k .. Len(written) : PathOf(written[l])' = PathOf(written[l])
          BY <1>0, <2>2, <4>1, LaterPaths
        <4>3. CASE PathOf(written[k])' = Path'
          <5>1. epc' = "append" => files'[Path'] # NoFile
            <6>1. epc' = "append" => files'[Path'] \in Content
              <7>1. Opened(files[Path]) \in Content
                BY <1>0, <2>3, EmptySeq DEF Opened, Content
              <7> QED
                BY <2>2, <2>4, <7>1
            <6> QED
              BY <1>n, <6>1
          <5> QED
            BY <2>1, <4>3, <5>1
        <4>4. CASE PathOf(written[k])' # Path'
          BY <1>0, <2>1, <2>2, <2>5, <4>1, <4>2, <4>4 DEF CrashKeepsWritten
        <4> QED
          BY <4>3, <4>4
      <3> QED
        BY <3>1 DEF CrashKeepsWritten
    <2> QED
      BY <2>7, <2>8
  <1>5. CASE OpenFails \/ WriteFile \/ WriteFails
    <2>1. /\ written' = Append(written, item) /\ epc \in {"open", "append"} /\ epc' = "recv"
          /\ faulty \subseteq faulty'
          /\ WriteFile \/ Number \in faulty'
      BY <1>5 DEF OpenFails, WriteFile, WriteFails
    <2>2. item \in Result /\ item.content \in Content
      BY <1>0, <2>1 DEF TypeOK, Result
    <2>3. Path \in Keys /\ PathOf(item) = Path
      BY <2>2, PathType DEF Path, PathOf
    <2>4. /\ DOMAIN written = 1..Len(written) /\ DOMAIN written' = 1..Len(written')
          /\ Len(written') = Len(written) + 1 /\ Len(written) \in Nat
          /\ written'[Len(written) + 1] = item /\ Number = Len(written) + 1
          /\ \A k \in DOMAIN written : written'[k] = written[k]
      BY <1>0, <2>1, <2>2 DEF Number
    <2>5. \A k \in DOMAIN written' :
            PathOf(written[k])' = IF k \in DOMAIN written THEN PathOf(written[k]) ELSE Path
      <3>1. \A k \in DOMAIN written : PathOf(written[k])' = PathOf(written[k])
        BY <1>1, <2>4 DEF PathOf, NameOf
      <3>2. ASSUME NEW k, k = Len(written) + 1
            PROVE  PathOf(written[k])' = Path
        BY <1>1, <2>4, <3>2 DEF PathOf, NameOf, Path
      <3> QED
        BY <2>4, <3>1, <3>2
    <2>6. \A p \in Keys : p # Path => files'[p] = files[p]
      BY <1>0, <1>5, <2>3 DEF OpenFails, WriteFile, WriteFails
    <2>7. Number \in faulty' \/ files'[Path] = item.content
      <3>1. CASE WriteFile
        <4>1. /\ epc = "append" /\ files'[Path] = Opened(files[Path]) \o item.content
              /\ faulty' = faulty
          BY <1>0, <2>3, <3>1 DEF WriteFile
        <4>2. <<>> \o item.content = item.content
          BY <2>2, ConcatEmptySeq DEF Content
        <4>3. Number \in faulty \/ Opened(files[Path]) = <<>>
          BY <1>0, <4>1 DEF FilesSoFar, Opened
        <4> QED
          BY <4>1, <4>2, <4>3
      <3> QED
        BY <2>1, <3>1
    <2>8. ASSUME NEW k \in DOMAIN written'
          PROVE  LET p == PathOf(written[k])' IN
                 \/ k \in faulty'
                 \/ \E l \in k + 1 .. Len(written') : PathOf(written[l])' = p
                 \/ files'[p] = written'[k].content
      <3>1. CASE k = Len(written) + 1
        BY <2>3, <2>4, <2>5, <2>7, <3>1
      <3>2. CASE k \in DOMAIN written /\ PathOf(written[k]) = Path
        <4>1. \A l : l = Len(written) + 1 =>
                l \in k + 1 .. Len(written') /\ PathOf(written[l])' = PathOf(written[k])'
          BY <2>4, <2>5, <3>2
        <4> QED
          BY <4>1
      <3>3. CASE k \in DOMAIN written /\ PathOf(written[k]) # Path
        <4>1. PathOf(written[k])' = PathOf(written[k]) /\ written'[k] = written[k]
          BY <2>4, <2>5, <3>3
        <4>2. files'[PathOf(written[k])] = files[PathOf(written[k])]
          BY <1>0, <2>6, <3>3, WrittenPaths
        <4>3. \A l \in k + 1 .. Len(written) :
                l \in DOMAIN written /\ PathOf(written[l])' = PathOf(written[l])
          BY <2>4, <2>5, <3>3
        <4>4. k + 1 .. Len(written) \subseteq k + 1 .. Len(written')
          BY <2>4, <3>3
        <4>5. \/ k \in faulty
              \/ \E l \in k + 1 .. Len(written) : PathOf(written[l]) = PathOf(written[k])
              \/ files[PathOf(written[k])] = written[k].content
          BY <1>0, <3>3 DEF FilesSoFar
        <4> QED
          BY <2>1, <4>1, <4>2, <4>3, <4>4, <4>5
      <3> QED
        BY <2>4, <3>1, <3>2, <3>3
    <2>9. CrashKeepsWritten'
      <3>1. ASSUME NEW k \in DOMAIN written'
            PROVE  LET p == PathOf(written[k])' IN
                   \/ files'[p] # NoFile
                   \/ \E l \in k .. Len(written') : l \in faulty' /\ PathOf(written[l])' = p
        <4>1. CASE PathOf(written[k])' = Path
          <5>0. PICK last : last = Len(written) + 1
            OBVIOUS
          <5>1. last \in DOMAIN written' /\ last \notin DOMAIN written /\ last \in k .. Len(written')
            BY <2>4, <5>0
          <5>2. PathOf(written[last])' = Path
            BY <2>5, <5>1
          <5>3. last \in faulty' \/ files'[Path] # NoFile
            BY <1>n, <2>2, <2>4, <2>7, <5>0
          <5> QED
            BY <4>1, <5>1, <5>2, <5>3
        <4>2. CASE k \in DOMAIN written /\ PathOf(written[k]) # Path
          <5>1. PathOf(written[k])' = PathOf(written[k])
            BY <2>5, <2>4, <4>2
          <5>2. files'[PathOf(written[k])] = files[PathOf(written[k])]
            BY <1>0, <2>6, <4>2, WrittenPaths
          <5>3. \/ files[PathOf(written[k])] # NoFile
                \/ \E l \in k .. Len(written) :
                     l \in faulty /\ PathOf(written[l]) = PathOf(written[k])
            BY <1>0, <4>2 DEF CrashKeepsWritten
          <5>4. \A l \in k .. Len(written) :
                  l \in k .. Len(written') /\ PathOf(written[l])' = PathOf(written[l])
            BY <2>4, <2>5, <4>2
          <5> QED
            BY <2>1, <5>1, <5>2, <5>3, <5>4
        <4> QED
          BY <2>4, <2>5, <4>1, <4>2
      <3> QED
        BY <3>1 DEF CrashKeepsWritten
    <2> QED
      BY <2>1, <2>8, <2>9 DEF FilesSoFar
  <1> QED
    BY <1>2, <1>3, <1>4, <1>5 DEF ExportData

\* The invariant on the files holds of every reachable state.
LEMMA FInvAlways == Spec => []FInv
  <1>1. Init => FInv
    <2> SUFFICES ASSUME Init PROVE FInv
      OBVIOUS
    <2>1. IInv
      BY InitIInv
    <2>2. FilesSoFar /\ CrashKeepsWritten
      BY DEF Init, FilesSoFar, CrashKeepsWritten
    <2> QED
      BY <2>1, <2>2 DEF FInv
  <1>2. FInv /\ [Next]_vars => FInv'
    <2> SUFFICES ASSUME FInv, [Next]_vars PROVE FInv'
      OBVIOUS
    <2>1. IInv'
      BY IInvStep DEF FInv
    <2>2. CASE ExportData
      BY <2>1, <2>2, FilesStep DEF FInv
    <2>3. CASE WaitReturns \/ HashFiles
      <3>1. UNCHANGED <<job, epc, item, files, faulty, written>>
        BY <2>3 DEF WaitReturns, HashFiles, exportVars
      <3> QED
        BY <2>1, <3>1, FilesUntouched DEF FInv, IInv, TypeOK
    <2>4. CASE Worker \/ UNCHANGED vars
      <3>1. UNCHANGED <<job, epc, item, files, faulty, written>>
        BY <2>4 DEF Worker, NextRecord, LocateData, ReadRun, SendResult, CloseResults,
                    WorkerReturns, vars, exportVars
      <3> QED
        BY <2>1, <3>1, FilesUntouched DEF FInv, IInv, TypeOK
    <2>5. CASE ExportRecords
      <3>1. UNCHANGED <<job, item, files, faulty, written>>
            /\ epc \notin {"open", "append"} /\ epc' \in {"idle", "recv"}
        BY <2>5 DEF ExportRecords, FInv, IInv, Protocol
      <3>2. \A k \in DOMAIN written : PathOf(written[k])' = PathOf(written[k])
        BY <3>1 DEF PathOf, NameOf
      <3>3. FilesSoFar' /\ CrashKeepsWritten'
        BY <3>1, <3>2 DEF FInv, FilesSoFar, CrashKeepsWritten
      <3> QED
        BY <2>1, <3>3 DEF FInv
    <2> QED
      BY <2>2, <2>3, <2>4, <2>5 DEF Next, Ended, Main
  <1> QED
    BY <1>1, <1>2, PTL DEF Spec

\* A file that was written stays there, also when a panic ends the process, but for
\* the one that CreateFile has removed to write it again.
THEOREM CrashSafety == Spec => []CrashKeepsWritten
  <1>1. FInv => CrashKeepsWritten
    BY DEF FInv
  <1> QED
    BY FInvAlways, <1>1, PTL

\* Once ExportRecords has returned, nothing is about to be written: what holds of the
\* files so far holds of the files for good.
LEMMA LastStays == FInv => LastWriterWins
  <1> SUFFICES ASSUME FInv, mpc \in {"hash", "done"}, NEW k \in DOMAIN sent
               PROVE  LET p == PathOf(sent[k]) IN
                      \/ k \in faulty
                      \/ \E l \in k + 1 .. Len(sent) : PathOf(sent[l]) = p
                      \/ files[p] = sent[k].content
    BY DEF LastWriterWins
  <1>1. sent = written
    BY DrainedAfterWait DEF WaitCoversWrites, FInv
  <1>2. epc \notin {"open", "append"}
    BY DEF FInv, IInv, Protocol
  <1> QED
    BY <1>1, <1>2 DEF FInv, FilesSoFar

\* The files that ExportRecords leaves behind are those of the last result per path,
\* whatever was there before.
THEOREM LastResultStays == Spec => []LastWriterWins
  BY FInvAlways, LastStays, PTL

-----------------------------------------------------------------------------
(* What HashFiles has read is what is still there: nobody writes any more. *)

HashesOfFiles ==
  /\ hashes # <<>> => mpc \in {"hash", "done"}
  /\ \A k \in DOMAIN hashes :
       hashes[k].rec \in Rec /\ hashes[k].data = files[HashNameOf(hashes[k].rec)]

HInv == FInv /\ HashesOfFiles

\* Every step keeps the hashes those of the files.
LEMMA HashesStep ==
  ASSUME HInv, [Next]_vars
  PROVE  HashesOfFiles'
  <1>0. TypeOK /\ Protocol /\ HashesOfFiles
    BY DEF HInv, FInv, IInv
  <1>1. CASE HashFiles
    <2>1. UNCHANGED <<job, files>> /\ mpc = "hash" /\ mpc' \in {"hash", "done"}
      BY <1>1 DEF HashFiles, exportVars
    <2>2. \A r : HashNameOf(r)' = HashNameOf(r)
      BY <2>1 DEF HashNameOf, GetFname, Owner, mft
    <2>3. CASE hashes' = hashes
      BY <1>0, <2>1, <2>2, <2>3 DEF HashesOfFiles
    <2>4. CASE hashes' # hashes
      <3> DEFINE r == records[h]
      <3>1. /\ hashes' = Append(hashes, [rec |-> r, data |-> files[HashNameOf(r)]])
            /\ h <= Len(records)
        <4>1. ~(~SupportedHash \/ h > Len(records))
          BY <1>1, <2>4 DEF HashFiles
        <4>2. hashes' = IF files[HashNameOf(r)] = NoFile THEN hashes
                        ELSE Append(hashes, [rec |-> r, data |-> files[HashNameOf(r)]])
          BY <1>1, <4>1, Zenon DEF HashFiles
        <4> HIDE DEF r
        <4>3. h \in Nat /\ Len(records) \in Nat
          BY <1>0, JobType DEF TypeOK
        <4> QED
          BY <2>4, <4>1, <4>2, <4>3
      <3>2. r \in Rec
        BY <1>0, <3>1, JobType, ElementOfSeq DEF TypeOK
      <3> HIDE DEF r
      <3>3. hashes \in Seq([rec: Rec, data: Content])
        BY <1>0 DEF TypeOK
      <3>4. /\ DOMAIN hashes = 1 .. Len(hashes) /\ DOMAIN hashes' = 1 .. Len(hashes) + 1
            /\ Len(hashes) \in Nat
            /\ \A k \in DOMAIN hashes : hashes'[k] = hashes[k]
            /\ hashes'[Len(hashes) + 1] = [rec |-> r, data |-> files[HashNameOf(r)]]
        BY <3>1, <3>3
      <3>5. ASSUME NEW k \in DOMAIN hashes'
            PROVE  hashes'[k].rec \in Rec /\ hashes'[k].data = files[HashNameOf(hashes'[k].rec)]
        <4>1. CASE k \in DOMAIN hashes
          BY <1>0, <3>4, <4>1 DEF HashesOfFiles
        <4>2. CASE k = Len(hashes) + 1
          BY <3>2, <3>4, <4>2
        <4> QED
          BY <3>4, <4>1, <4>2
      <3> QED
        BY <2>1, <2>2, <3>5 DEF HashesOfFiles
    <2> QED
      BY <2>3, <2>4
  <1>2. CASE RemoveFile \/ OpenFile \/ WriteFile \/ WriteFails
    <2>1. UNCHANGED <<job, mpc, hashes>> /\ epc \in {"remove", "open", "append"}
      BY <1>2 DEF RemoveFile, OpenFile, WriteFile, WriteFails, mainVars
    <2>2. mpc \notin {"hash", "done"}
      BY <1>0, <2>1 DEF Protocol
    <2>3. hashes = <<>>
      BY <1>0, <2>2 DEF HashesOfFiles
    <2> QED
      BY <2>1, <2>3 DEF HashesOfFiles
  <1>3. CASE ExportRecords \/ WaitReturns
    <2>1. UNCHANGED <<job, files, hashes>> /\ mpc \notin {"hash", "done"}
      BY <1>3 DEF ExportRecords, WaitReturns, exportVars
    <2>2. hashes = <<>>
      BY <1>0, <2>1 DEF HashesOfFiles
    <2> QED
      BY <2>1, <2>2 DEF HashesOfFiles
  <1>4. CASE UNCHANGED <<job, files, mpc, hashes>>
    <2>1. \A r : HashNameOf(r)' = HashNameOf(r)
      BY <1>4 DEF HashNameOf, GetFname, Owner, mft
    <2> QED
      BY <1>0, <1>4, <2>1 DEF HashesOfFiles
  <1>5. Worker => UNCHANGED <<job, files, mpc, hashes>>
    BY DEF Worker, NextRecord, LocateData, ReadRun, SendResult, CloseResults, WorkerReturns,
           mainVars, exportVars
  <1>6. Receive \/ RemoveFails \/ OpenFails \/ ExportDataReturns
          => UNCHANGED <<job, files, mpc, hashes>>
    BY DEF Receive, RemoveFails, OpenFails, ExportDataReturns, mainVars
  <1>7. UNCHANGED vars => UNCHANGED <<job, files, mpc, hashes>>
    BY DEF vars, mainVars, exportVars
  <1> QED
    BY <1>1, <1>2, <1>3, <1>4, <1>5, <1>6, <1>7 DEF Next, Ended, Main, ExportData

\* The only result with the name of a record is the last one for its path, so the file
\* that HashFiles has read holds its content.
LEMMA HashedFileIsOwn == HInv => HashOfOwnContent
  <1> SUFFICES ASSUME HInv, NEW k \in DOMAIN hashes, job.strategy # "Id",
                      NEW own, own = {l \in DOMAIN sent : sent[l].fname = GetFname(hashes[k].rec)},
                      Cardinality(own) = 1, NEW l \in own \ faulty
               PROVE  hashes[k].data = sent[l].content
    BY Zenon DEF HashOfOwnContent
  <1> DEFINE p == HashNameOf(hashes[k].rec)
  <1>1. /\ sent \in Seq(Result) /\ hashes \in Seq([rec: Rec, data: Content])
        /\ LastWriterWins /\ HashesOfFiles
    BY LastStays DEF HInv, FInv, IInv, TypeOK
  <1>2. mpc \in {"hash", "done"} /\ hashes[k].data = files[p]
    BY <1>1 DEF HashesOfFiles
  <1>3. \A j \in DOMAIN sent : PathOf(sent[j]) = p <=> j \in own
    BY DEF PathOf, NameOf, HashNameOf
  <1>4. own = {l}
    <2>1. DOMAIN sent = 1 .. Len(sent) /\ Len(sent) \in Nat
      BY <1>1
    <2>2. IsFiniteSet(own)
      <3>1. own \subseteq 1 .. Len(sent)
        BY <2>1
      <3>2. IsFiniteSet(1 .. Len(sent))
        BY <2>1, FS_Interval
      <3> QED
        BY <3>1, <3>2, FS_Subset
    <2> QED
      BY <2>2, FS_Singleton
  <1>5. /\ DOMAIN sent = 1 .. Len(sent) /\ Len(sent) \in Nat
    BY <1>1
  <1>6. l \in DOMAIN sent /\ PathOf(sent[l]) = p
    BY <1>3
  <1>7. \A j \in l + 1 .. Len(sent) : PathOf(sent[j]) # p
    <2> SUFFICES ASSUME NEW j \in l + 1 .. Len(sent) PROVE PathOf(sent[j]) # p
      OBVIOUS
    <2>1. j \in DOMAIN sent /\ j # l
      BY <1>5, <1>6
    <2> QED
      BY <1>3, <1>4, <2>1
  <1> QED
    BY <1>1, <1>2, <1>6, <1>7 DEF LastWriterWins

\* HashFiles prints, for a record whose name no other result has, the hash of the content
\* that was located for it.
THEOREM HashesOwnContent == Spec => []HashOfOwnContent
  <1>1. Init => HashesOfFiles
    BY DEF Init, HashesOfFiles
  <1>2. FInv /\ HashesOfFiles /\ [Next]_vars => HashesOfFiles'
    BY HashesStep DEF HInv
  <1>3. FInv /\ HashesOfFiles => HashOfOwnContent
    BY HashedFileIsOwn DEF HInv
  <1> QED
    BY FInvAlways, <1>1, <1>2, <1>3, PTL DEF Spec
-----------------------------------------------------------------------------
(* The Id strategy: a result is of a record that has data, under the entry *)
(* of that record, and no two of those have the same entry.                *)

SentIds ==
  /\ \A k \in DOMAIN sent :
       Exportable(mft, sent[k].rec) /\ sent[k].id = mft[sent[k].rec].entry
  /\ wpc \in {"run", "send"} => Exportable(mft, Head(todo))

\* Worker comes to the send only for a record whose data it has located, and sends it
\* with its entry.
LEMMA SentIdsStep ==
  ASSUME IInv, SentIds, [Next]_vars
  PROVE  SentIds'
  <1>0. TypeOK /\ Protocol /\ job \in Jobs
    BY DEF IInv, TypeOK
  <1>1. CASE UNCHANGED <<job, wpc, todo, sent>>
    BY <1>1 DEF SentIds, mft
  <1>2. CASE UNCHANGED <<job, sent>> /\ wpc' \notin {"run", "send"}
    BY <1>2 DEF SentIds, mft
  <1>3. CASE LocateData
    <2>1. UNCHANGED <<job, todo, sent>>
      BY <1>3 DEF LocateData
    <2>2. wpc' \in {"run", "send"} => HasResidentDataAttr(Head(todo)) \/ HasRunList(Head(todo))
      BY <1>3 DEF LocateData
    <2>3. \A r : HasResidentDataAttr(r) \/ HasRunList(r) => Exportable(mft, r)
      BY DEF HasResidentDataAttr, HasRunList, RunListHolder, Exportable
    <2> QED
      BY <2>1, <2>2, <2>3 DEF SentIds, mft
  <1>4. CASE ReadRun
    BY <1>4 DEF ReadRun, SentIds, mft
  <1>5. CASE SendResult
    <2> DEFINE r == Head(todo)
               res == [rec |-> r, fname |-> GetFname(r), id |-> mft[r].entry, content |-> buf]
    <2>1. job' = job /\ sent' = Append(sent, res) /\ wpc' \in {"record", "locate"}
      BY <1>5, Zenon DEF SendResult
    <2>2. Exportable(mft, r) /\ res.rec = r /\ res.id = mft[r].entry
      BY <1>5 DEF SendResult, SentIds
    <2> HIDE DEF res
    <2>3. sent \in Seq(Result)
      BY <1>0 DEF TypeOK
    <2>4. /\ DOMAIN sent' = DOMAIN sent \union {Len(sent) + 1} /\ sent'[Len(sent) + 1] = res
          /\ \A k \in DOMAIN sent : sent'[k] = sent[k]
      BY <2>1, <2>3
    <2>5. \A k \in DOMAIN sent' :
            Exportable(mft, sent'[k].rec) /\ sent'[k].id = mft[sent'[k].rec].entry
      BY <2>2, <2>4 DEF SentIds
    <2> QED
      BY <2>1, <2>5 DEF SentIds, mft
  <1>6. Main \/ NextRecord \/ CloseResults \/ WorkerReturns
          => \/ UNCHANGED <<job, wpc, todo, sent>>
             \/ UNCHANGED <<job, sent>> /\ wpc' \notin {"run", "send"}
    BY DEF Main, ExportRecords, WaitReturns, HashFiles, NextRecord, CloseResults,
           WorkerReturns, workVars
  <1>7. ExportData => UNCHANGED <<job, wpc, todo, sent>>
    BY DEF ExportData, Receive, RemoveFile, RemoveFails, OpenFile, OpenFails, WriteFile,
           WriteFails, ExportDataReturns, workVars
  <1>8. UNCHANGED vars => UNCHANGED <<job, wpc, todo, sent>>
    BY DEF vars, workVars
  <1> QED
    BY <1>1, <1>2, <1>3, <1>4, <1>5, <1>6, <1>7, <1>8 DEF Next, Ended, Worker

\* What is in hand and what was written was sent.
LEMMA InHandWasSent ==
  ASSUME IInv, item # NoItem
  PROVE  /\ \E j \in DOMAIN sent : sent[j] = item
         /\ \A k \in DOMAIN written : \E j \in DOMAIN sent : sent[j] = written[k]
         /\ item \in Result /\ written \in Seq(Result)
  <1>1. /\ item \in Result /\ written \in Seq(Result) /\ results \in Seq(Result)
        /\ sent = written \o <<item>> \o results
    BY DEF IInv, TypeOK, Delivered, InHand
  <1>2. PICK s, w, q : s = sent /\ w = written /\ q = results
    OBVIOUS
  <1>3. w \in Seq(Result) /\ q \in Seq(Result) /\ <<item>> \in Seq(Result)
    BY <1>1, <1>2
  <1>4. w \o <<item>> \in Seq(Result) /\ Len(w \o <<item>>) = Len(w) + 1
    BY <1>3, ConcatProperties
  <1>5. s = (w \o <<item>>) \o q
    BY <1>1, <1>2
  <1>6. Len(s) = Len(w) + 1 + Len(q) /\ DOMAIN s = 1 .. Len(s)
    BY <1>3, <1>4, <1>5, ConcatProperties
  <1>7. \A k \in 1 .. Len(w) + 1 : s[k] = (w \o <<item>>)[k]
    BY <1>3, <1>4, <1>5, ConcatProperties
  <1>8. /\ \A k \in 1 .. Len(w) : (w \o <<item>>)[k] = w[k]
        /\ (w \o <<item>>)[Len(w) + 1] = item
    BY <1>3, ConcatProperties
  <1>9. /\ Len(w) \in Nat /\ Len(q) \in Nat /\ DOMAIN w = 1 .. Len(w)
    BY <1>3
  <1>10. /\ Len(w) + 1 \in DOMAIN s /\ s[Len(w) + 1] = item
         /\ \A k \in DOMAIN w : k \in DOMAIN s /\ s[k] = w[k]
    BY <1>6, <1>7, <1>8, <1>9
  <1> QED
    BY <1>1, <1>2, <1>10

\* A file that the Id strategy is about to remove is not one that this call has written
\* of another record.
THEOREM IdsKeepFilesApart == Spec => IdNeverOverwrites
  <1>1. Init => SentIds
    BY DEF Init, SentIds
  <1>2. IInv /\ SentIds /\ [Next]_vars => SentIds'
    BY SentIdsStep
  <1>3. IInv /\ SentIds =>
          (job.strategy = "Id" /\ epc = "remove" =>
             \A k \in DOMAIN written :
               written[k].rec # item.rec => PathOf(written[k]) # Path)
    <2> SUFFICES ASSUME IInv, SentIds, job.strategy = "Id", epc = "remove",
                        NEW k \in DOMAIN written, written[k].rec # item.rec
                 PROVE  PathOf(written[k]) # Path
      OBVIOUS
    <2>1. item # NoItem /\ job \in Jobs
      BY DEF IInv, TypeOK
    <2>2. /\ \E j \in DOMAIN sent : sent[j] = item
          /\ \E j \in DOMAIN sent : sent[j] = written[k]
          /\ item \in Result /\ written[k] \in Result
      BY <2>1, InHandWasSent
    <2>3. /\ Exportable(mft, item.rec) /\ item.id = mft[item.rec].entry
          /\ Exportable(mft, written[k].rec) /\ written[k].id = mft[written[k].rec].entry
      BY <2>2 DEF SentIds
    <2>4. written[k].id # item.id
      BY <2>1, <2>2, <2>3, EntriesAssumption DEF mft, Result
    <2> QED
      BY <2>4 DEF PathOf, Path, NameOf
  <1>4. IInv /\ SentIds /\ [Next]_vars =>
          [ job.strategy = "Id" /\ epc = "remove" /\ epc' = "open"
              => \A k \in DOMAIN written :
                   written[k].rec # item.rec => PathOf(written[k]) # Path ]_vars
    BY <1>3
  <1> QED
    BY IInvAlways, <1>1, <1>2, <1>4, PTL DEF Spec, IdNeverOverwrites

-----------------------------------------------------------------------------
(* Nothing goes on for ever, and nobody waits for ever.                    *)

\* A goroutine that waits, waits for one that moves: the channel is full only when there
\* is a result to take, empty and open only when Worker is at work.
LEMMA WaitsForAnother == IInv => NoCircularWait
  <1> SUFFICES ASSUME IInv, ~crashed
               PROVE  /\ mpc = "wait" /\ ~MainMoves => WorkerMoves \/ ExportMoves
                      /\ wpc = "send" /\ ~WorkerMoves => ExportMoves
                      /\ epc = "recv" /\ ~ExportMoves => WorkerMoves
    BY DEF NoCircularWait
  <1>0. TypeOK /\ Protocol
    BY DEF IInv
  <1>1. PICK n \in Nat, m \in Nat : n = Len(records) /\ m = Len(results)
    BY <1>0, JobType, LenProperties DEF TypeOK
  <1>2. results = <<>> => m = 0
    BY <1>1
  <1>3. wpc = "send" /\ ~WorkerMoves => ExportMoves
    <2>1. SUFFICES ASSUME wpc = "send", ~HasRoom
                   PROVE  ExportMoves
      BY DEF WorkerMoves
    <2>2. i \in Nat \ {0} /\ i <= n /\ ~(m < n)
      BY <1>0, <1>1, <2>1 DEF TypeOK, Protocol, HasRoom
    <2>3. results # <<>>
      BY <1>2, <2>2
    <2>4. epc \in {"recv", "remove", "open", "append"}
      BY <1>0, <2>1 DEF TypeOK, Protocol
    <2> QED
      BY <2>3, <2>4 DEF ExportMoves
  <1>4. epc = "recv" /\ ~ExportMoves => WorkerMoves
    <2>1. SUFFICES ASSUME epc = "recv", results = <<>>, ~closed
                   PROVE  WorkerMoves
      BY DEF ExportMoves, Drained
    <2>2. wpc \in {"record", "locate", "run", "send"}
      BY <1>0, <2>1 DEF TypeOK, Protocol
    <2>3. wpc = "send" => HasRoom
      <3>1. wpc = "send" => i \in Nat \ {0} /\ i <= n
        BY <1>0, <1>1 DEF TypeOK, Protocol
      <3> QED
        BY <1>1, <1>2, <2>1, <3>1 DEF HasRoom
    <2> QED
      BY <2>2, <2>3 DEF WorkerMoves
  <1>5. mpc = "wait" /\ ~MainMoves => WorkerMoves \/ ExportMoves
    <2>1. SUFFICES ASSUME mpc = "wait", wg # 0, ~WorkerMoves, ~ExportMoves
                   PROVE  FALSE
      BY DEF MainMoves
    <2>2. wpc = "done" /\ epc = "done"
      BY <1>0, <1>3, <1>4, <2>1 DEF TypeOK, Protocol, WorkerMoves, ExportMoves
    <2> QED
      BY <1>0, <2>1, <2>2 DEF Protocol, Running
  <1> QED
    BY <1>3, <1>4, <1>5

\* No two of the goroutines of an export wait for each other, in any reachable state.
THEOREM NobodyWaitsForEver == Spec => []NoCircularWait
  BY IInvAlways, WaitsForAnother, PTL

\* What is left to do is told in natural numbers.
LEMMA LeftIsMeasure == IInv => IsMeasure(LeftToDo)
  <1> SUFFICES ASSUME IInv PROVE IsMeasure(LeftToDo)
    OBVIOUS
  <1>0. TypeOK /\ Protocol
    BY DEF IInv
  <1>1. \A n \in Nat : \A k \in Nat : TurnsLeft(n, k) \in Nat
    BY DEF TurnsLeft
  <1>2. Len(records) \in Nat /\ Len(todo) \in Nat /\ Len(results) \in Nat
    BY <1>0, JobType, LenProperties DEF TypeOK
  <1>3. RunsLeft \in Nat
    <2>1. ASSUME wpc = "run"
          PROVE  Len(RunListOf(Head(todo))) \in Nat
      BY <1>0, <2>1, RunListType, HeadTailProperties, LenProperties DEF TypeOK, Protocol
    <2> QED
      BY <1>0, <1>1, <2>1 DEF RunsLeft, TypeOK
  <1>4. /\ Alive \in Nat /\ PieceStage \in Nat /\ ExportStage \in Nat /\ MainStage \in Nat
        /\ OneIf(wpc = "record") \in Nat
    BY DEF Alive, PieceStage, ExportStage, MainStage, OneIf
  <1>5. TurnsLeft(Len(records), i) \in Nat /\ TurnsLeft(Len(records), h) \in Nat
    BY <1>0, <1>1, <1>2 DEF TypeOK
  <1>6. /\ DOMAIN LeftToDo = 1 .. 10
        /\ LeftToDo[1] = Alive /\ LeftToDo[2] = TurnsLeft(Len(records), i)
        /\ LeftToDo[3] = OneIf(wpc = "record") /\ LeftToDo[4] = Len(todo)
        /\ LeftToDo[5] = PieceStage /\ LeftToDo[6] = RunsLeft /\ LeftToDo[7] = Len(results)
        /\ LeftToDo[8] = ExportStage /\ LeftToDo[9] = MainStage
        /\ LeftToDo[10] = TurnsLeft(Len(records), h)
    BY DEF LeftToDo
  <1> QED
    BY <1>2, <1>3, <1>4, <1>5, <1>6, TenNumbers

\* Every step of a goroutine takes what is left below what it was: the worker's steps in
\* its own loops, which are the first numbers, so that a result it sends counts for less
\* than the piece it has finished.
LEMMA StepCounts ==
  ASSUME IInv, ~crashed, Main \/ Worker \/ ExportData
  PROVE  Below(LeftToDo', LeftToDo)
  <1> USE DEF vars, mainVars, workVars, locateVars, exportVars
  <1>0. /\ TypeOK /\ Protocol /\ job \in Jobs
        /\ records \in Seq(Rec) /\ Len(records) \in Nat /\ i \in Nat /\ h \in Nat /\ run \in Nat
        /\ todo \in Seq(Rec) /\ results \in Seq(Result)
    BY JobType DEF IInv, TypeOK
  <1>a. /\ DOMAIN LeftToDo = 1 .. 10
        /\ LeftToDo[1] = Alive /\ LeftToDo[2] = TurnsLeft(Len(records), i)
        /\ LeftToDo[3] = OneIf(wpc = "record") /\ LeftToDo[4] = Len(todo)
        /\ LeftToDo[5] = PieceStage /\ LeftToDo[6] = RunsLeft /\ LeftToDo[7] = Len(results)
        /\ LeftToDo[8] = ExportStage /\ LeftToDo[9] = MainStage
        /\ LeftToDo[10] = TurnsLeft(Len(records), h)
    BY DEF LeftToDo
  <1>b. /\ LeftToDo'[1] = Alive' /\ LeftToDo'[2] = TurnsLeft(Len(records), i)'
        /\ LeftToDo'[3] = OneIf(wpc = "record")' /\ LeftToDo'[4] = Len(todo)'
        /\ LeftToDo'[5] = PieceStage' /\ LeftToDo'[6] = RunsLeft' /\ LeftToDo'[7] = Len(results)'
        /\ LeftToDo'[8] = ExportStage' /\ LeftToDo'[9] = MainStage'
        /\ LeftToDo'[10] = TurnsLeft(Len(records), h)'
    BY DEF LeftToDo
  <1>c. \A k \in 1 .. 10 : SmallerAt(LeftToDo', LeftToDo, k) => Below(LeftToDo', LeftToDo)
    BY <1>a, FirstDifference
  <1>f. SmallerSixth(LeftToDo', LeftToDo) => Below(LeftToDo', LeftToDo)
    BY <1>a, SixthDifference
  <1>d. job' = job => Len(records)' = Len(records)
    BY DEF records
  <1>e. SameFront(LeftToDo', LeftToDo) /\ SmallerBack(LeftToDo', LeftToDo)
          => Below(LeftToDo', LeftToDo)
    BY <1>a, LateDifference
  <1>1. CASE ExportRecords
    <2>1. CASE records = <<>>
      <3>1. /\ Alive' = Alive /\ TurnsLeft(Len(records), i)' = TurnsLeft(Len(records), i)
            /\ OneIf(wpc = "record")' = OneIf(wpc = "record") /\ Len(todo)' = Len(todo)
            /\ PieceStage' = PieceStage /\ RunsLeft' = 0 /\ RunsLeft = 0
            /\ Len(results)' = Len(results) /\ ExportStage' = ExportStage
        BY <1>0, <1>1, <1>d, <2>1 DEF ExportRecords, Protocol, Alive, PieceStage, RunsLeft, ExportStage
      <3>2. mpc = "call" /\ mpc' \in {"hash", "done"}
        BY <1>1, <2>1 DEF ExportRecords, AfterExport
      <3>3. MainStage' < MainStage
        BY <3>2 DEF MainStage
      <3>7. SameFront(LeftToDo', LeftToDo)
        BY <1>a, <1>b, <3>1 DEF SameFront
      <3>8. SmallerBack(LeftToDo', LeftToDo)
        BY <1>a, <1>b, <3>1, <3>3 DEF SmallerBack
      <3> QED
        BY <1>e, <3>7, <3>8
    <2>2. CASE records # <<>>
      <3>1. Alive' < Alive
        BY <1>0, <1>1, <2>2 DEF ExportRecords, Protocol, Alive
      <3>2. SmallerAt(LeftToDo', LeftToDo, 1)
        BY <1>a, <1>b, <3>1 DEF SmallerAt
      <3> QED
        BY <1>c, <3>2
    <2> QED
      BY <2>1, <2>2
  <1>2. CASE WaitReturns \/ HashFiles
    <2>0. UNCHANGED <<job, i, todo, wpc, run, results, epc, crashed>>
      BY <1>2 DEF WaitReturns, HashFiles
    <2>1. /\ Alive' = Alive /\ TurnsLeft(Len(records), i)' = TurnsLeft(Len(records), i)
          /\ OneIf(wpc = "record")' = OneIf(wpc = "record") /\ Len(todo)' = Len(todo)
          /\ PieceStage' = PieceStage /\ RunsLeft' = RunsLeft
          /\ Len(results)' = Len(results) /\ ExportStage' = ExportStage
      BY <1>d, <2>0 DEF Alive, PieceStage, RunsLeft, ExportStage, RunListOf, RunListHolder, mft
    <2>2. \/ mpc = "wait" /\ mpc' \in {"hash", "done"}
          \/ mpc = "hash" /\ mpc' = "done"
          \/ mpc' = mpc /\ h' = h + 1 /\ ~(h > Len(records))
      <3>1. WaitReturns => mpc = "wait" /\ mpc' \in {"hash", "done"}
        BY DEF WaitReturns, AfterExport
      <3>2. HashFiles => \/ mpc = "hash" /\ mpc' = "done"
                         \/ mpc' = mpc /\ h' = h + 1 /\ ~(h > Len(records))
        BY DEF HashFiles
      <3> QED
        BY <1>2, <3>1, <3>2
    <2>3. CASE \/ mpc = "wait" /\ mpc' \in {"hash", "done"}
               \/ mpc = "hash" /\ mpc' = "done"
      <3>1. MainStage' < MainStage
        BY <2>3 DEF MainStage
      <3>7. SameFront(LeftToDo', LeftToDo)
        BY <1>a, <1>b, <2>1 DEF SameFront
      <3>8. SmallerBack(LeftToDo', LeftToDo)
        BY <1>a, <1>b, <2>1, <3>1 DEF SmallerBack
      <3> QED
        BY <1>e, <3>7, <3>8
    <2>4. CASE mpc' = mpc /\ h' = h + 1 /\ ~(h > Len(records))
      <3>1. MainStage' = MainStage
        BY <2>4 DEF MainStage
      <3>2. TurnsLeft(Len(records), h)' < TurnsLeft(Len(records), h)
        BY <1>0, <1>d, <2>0, <2>4, TurnsAreLeft
      <3>7. SameFront(LeftToDo', LeftToDo)
        BY <1>a, <1>b, <2>1 DEF SameFront
      <3>8. SmallerBack(LeftToDo', LeftToDo)
        BY <1>a, <1>b, <2>1, <3>1, <3>2 DEF SmallerBack
      <3> QED
        BY <1>e, <3>7, <3>8
    <2> QED
      BY <2>2, <2>3, <2>4
  <1>3. CASE NextRecord
    <2>1. Alive' = Alive /\ job' = job /\ i <= Len(records)
      BY <1>3 DEF NextRecord, Alive
    <2>2. CASE mft[records[i]].folder
      <3>1. i' = i + 1
        BY <1>3, <2>2 DEF NextRecord
      <3>2. TurnsLeft(Len(records), i)' < TurnsLeft(Len(records), i)
        BY <1>0, <1>d, <2>1, <3>1, TurnsAreLeft
      <3>3. SmallerAt(LeftToDo', LeftToDo, 2)
        BY <1>a, <1>b, <2>1, <3>2 DEF SmallerAt
      <3> QED
        BY <1>c, <3>3
    <2>3. CASE ~mft[records[i]].folder
      <3>1. TurnsLeft(Len(records), i)' = TurnsLeft(Len(records), i)
        BY <1>3, <1>d, <2>3 DEF NextRecord
      <3>2. OneIf(wpc = "record")' < OneIf(wpc = "record")
        BY <1>3, <2>3 DEF NextRecord, OneIf
      <3>3. SmallerAt(LeftToDo', LeftToDo, 3)
        BY <1>a, <1>b, <2>1, <3>1, <3>2 DEF SmallerAt
      <3> QED
        BY <1>c, <3>3
    <2> QED
      BY <2>2, <2>3
  <1>4. CASE LocateData
    <2>1. CASE crashed'
      <3>1. Alive' < Alive
        BY <2>1 DEF Alive
      <3>2. SmallerAt(LeftToDo', LeftToDo, 1)
        BY <1>a, <1>b, <3>1 DEF SmallerAt
      <3> QED
        BY <1>c, <3>2
    <2>2. CASE ~crashed'
      <3>1. wpc = "locate" /\ wpc' \in {"send", "run"} /\ UNCHANGED <<job, i, todo, crashed>>
        BY <1>4, <2>2 DEF LocateData
      <3>2. /\ Alive' = Alive /\ TurnsLeft(Len(records), i)' = TurnsLeft(Len(records), i)
            /\ OneIf(wpc = "record")' = OneIf(wpc = "record") /\ Len(todo)' = Len(todo)
        BY <1>d, <3>1 DEF Alive, OneIf
      <3>3. PieceStage' < PieceStage
        BY <3>1 DEF PieceStage
      <3>4. SmallerAt(LeftToDo', LeftToDo, 5)
        BY <1>a, <1>b, <3>2, <3>3 DEF SmallerAt
      <3> QED
        BY <1>c, <3>4
    <2> QED
      BY <2>1, <2>2
  <1>5. CASE ReadRun
    <2>1. wpc = "run" /\ UNCHANGED <<job, i, todo, crashed>> /\ wpc' \in {"run", "send"}
      BY <1>5 DEF ReadRun
    <2>2. /\ Alive' = Alive /\ TurnsLeft(Len(records), i)' = TurnsLeft(Len(records), i)
          /\ OneIf(wpc = "record")' = OneIf(wpc = "record") /\ Len(todo)' = Len(todo)
      BY <1>d, <2>1 DEF Alive, OneIf
    <2>3. CASE wpc' = "send"
      <3>1. PieceStage' < PieceStage
        BY <2>1, <2>3 DEF PieceStage
      <3>2. SmallerAt(LeftToDo', LeftToDo, 5)
        BY <1>a, <1>b, <2>2, <3>1 DEF SmallerAt
      <3> QED
        BY <1>c, <3>2
    <2>4. CASE wpc' = "run"
      <3>1. run <= Len(RunListOf(Head(todo))) /\ run' = run + 1
        BY <1>0, <1>5, <2>4 DEF ReadRun, NextRun
      <3>2. PICK n \in Nat : n = Len(RunListOf(Head(todo))) /\ n = Len(RunListOf(Head(todo)))'
        <4>1. Head(todo) \in Rec
          BY <1>0, <2>1, HeadTailProperties DEF Protocol
        <4>2. Len(RunListOf(Head(todo))) \in Nat
          BY <1>0, <4>1, RunListType, LenProperties
        <4>3. RunListOf(Head(todo))' = RunListOf(Head(todo))
          BY <2>1 DEF RunListOf, RunListHolder, mft
        <4> QED
          BY <4>2, <4>3
      <3>3. RunsLeft = TurnsLeft(n, run) /\ RunsLeft' = TurnsLeft(n, run + 1)
        BY <2>1, <2>4, <3>1, <3>2 DEF RunsLeft
      <3>4. RunsLeft' < RunsLeft /\ PieceStage' = PieceStage
        BY <1>0, <2>1, <2>4, <3>1, <3>2, <3>3, TurnsAreLeft DEF PieceStage
      <3>5. SmallerSixth(LeftToDo', LeftToDo)
        BY <1>a, <1>b, <2>2, <3>4 DEF SmallerSixth
      <3> QED
        BY <1>f, <3>5
    <2> QED
      BY <2>1, <2>3, <2>4
  <1>6. CASE SendResult
    <2>1. /\ wpc = "send" /\ job' = job /\ crashed' = crashed /\ todo' = Tail(todo)
          /\ todo # <<>> /\ i <= Len(records)
      BY <1>0, <1>6 DEF SendResult, Protocol
    <2>2. CASE Tail(todo) = <<>>
      <3>1. wpc' = "record" /\ i' = i + 1
        BY <1>6, <2>2 DEF SendResult
      <3>2. TurnsLeft(Len(records), i)' < TurnsLeft(Len(records), i)
        BY <1>0, <1>d, <2>1, <3>1, TurnsAreLeft
      <3>3. Alive' = Alive
        BY <2>1, <3>1 DEF Alive
      <3>4. SmallerAt(LeftToDo', LeftToDo, 2)
        BY <1>a, <1>b, <3>2, <3>3 DEF SmallerAt
      <3> QED
        BY <1>c, <3>4
    <2>3. CASE Tail(todo) # <<>>
      <3>1. wpc' = "locate" /\ i' = i
        BY <1>6, <2>3 DEF SendResult
      <3>2. /\ Alive' = Alive /\ TurnsLeft(Len(records), i)' = TurnsLeft(Len(records), i)
            /\ OneIf(wpc = "record")' = OneIf(wpc = "record")
        BY <1>d, <2>1, <3>1 DEF Alive, OneIf
      <3>3. Len(todo)' < Len(todo)
        BY <1>0, <2>1, HeadTailProperties, LenProperties
      <3>4. SmallerAt(LeftToDo', LeftToDo, 4)
        BY <1>a, <1>b, <3>2, <3>3 DEF SmallerAt
      <3> QED
        BY <1>c, <3>4
    <2> QED
      BY <2>2, <2>3
  <1>7. CASE CloseResults
    <2>1. Alive' = Alive /\ TurnsLeft(Len(records), i)' = TurnsLeft(Len(records), i)
      BY <1>7, <1>d DEF CloseResults, Alive
    <2>2. OneIf(wpc = "record")' < OneIf(wpc = "record")
      BY <1>7 DEF CloseResults, OneIf
    <2>3. SmallerAt(LeftToDo', LeftToDo, 3)
      BY <1>a, <1>b, <2>1, <2>2 DEF SmallerAt
    <2> QED
      BY <1>c, <2>3
  <1>8. CASE WorkerReturns
    <2>1. wpc = "return" /\ wpc' = "done" /\ UNCHANGED <<job, i, todo, crashed>>
      BY <1>8 DEF WorkerReturns
    <2>2. /\ Alive' = Alive /\ TurnsLeft(Len(records), i)' = TurnsLeft(Len(records), i)
          /\ OneIf(wpc = "record")' = OneIf(wpc = "record") /\ Len(todo)' = Len(todo)
      BY <1>d, <2>1 DEF Alive, OneIf
    <2>3. PieceStage' < PieceStage
      BY <2>1 DEF PieceStage
    <2>4. SmallerAt(LeftToDo', LeftToDo, 5)
      BY <1>a, <1>b, <2>2, <2>3 DEF SmallerAt
    <2> QED
      BY <1>c, <2>4
  <1>9. CASE ExportData
    <2>1. UNCHANGED <<job, i, todo, wpc, run, crashed>>
      BY <1>9 DEF ExportData, Receive, RemoveFile, RemoveFails, OpenFile, OpenFails,
                  WriteFile, WriteFails, ExportDataReturns
    <2>2. /\ Alive' = Alive /\ TurnsLeft(Len(records), i)' = TurnsLeft(Len(records), i)
          /\ OneIf(wpc = "record")' = OneIf(wpc = "record") /\ Len(todo)' = Len(todo)
          /\ PieceStage' = PieceStage /\ RunsLeft' = RunsLeft
      BY <1>d, <2>1 DEF Alive, PieceStage, RunsLeft, RunListOf, RunListHolder, mft
    <2>3. CASE Receive
      <3>1. results # <<>> /\ results' = Tail(results)
        BY <2>3 DEF Receive
      <3>2. Len(results)' < Len(results)
        BY <1>0, <3>1, HeadTailProperties, LenProperties
      <3>7. SameFront(LeftToDo', LeftToDo)
        BY <1>a, <1>b, <2>2 DEF SameFront
      <3>8. SmallerBack(LeftToDo', LeftToDo)
        BY <1>a, <1>b, <2>2, <3>2 DEF SmallerBack
      <3> QED
        BY <1>e, <3>7, <3>8
    <2>4. CASE ~Receive
      <3>1. Len(results)' = Len(results)
        BY <1>9, <2>4 DEF ExportData, RemoveFile, RemoveFails, OpenFile, OpenFails,
                          WriteFile, WriteFails, ExportDataReturns
      <3>2. ExportStage' < ExportStage
        <4>1. \/ epc = "remove" /\ epc' = "open"
              \/ epc = "open" /\ epc' \in {"append", "recv"}
              \/ epc = "append" /\ epc' = "recv"
              \/ epc = "recv" /\ epc' = "done"
          BY <1>9, <2>4 DEF ExportData, RemoveFile, RemoveFails, OpenFile, OpenFails,
                            WriteFile, WriteFails, ExportDataReturns
        <4> QED
          BY <4>1 DEF ExportStage
      <3>7. SameFront(LeftToDo', LeftToDo)
        BY <1>a, <1>b, <2>2 DEF SameFront
      <3>8. SmallerBack(LeftToDo', LeftToDo)
        BY <1>a, <1>b, <2>2, <3>1, <3>2 DEF SmallerBack
      <3> QED
        BY <1>e, <3>7, <3>8
    <2> QED
      BY <2>3, <2>4
  <1> QED
    BY <1>1, <1>2, <1>3, <1>4, <1>5, <1>6, <1>7, <1>8, <1>9 DEF Main, Worker

\* No step of main, of Worker or of ExportData is taken for ever, alone or in turns with
\* those of the others, whatever the records and the runs are and however many.
THEOREM NothingGoesOnForEver == Spec => EveryStepCounts
  <1>1. IInv /\ [Next]_vars => [IsMeasure(LeftToDo) /\ Below(LeftToDo', LeftToDo)]_vars
    BY LeftIsMeasure, StepCounts DEF Next, Ended
  <1> QED
    BY IInvAlways, <1>1, PTL DEF Spec, EveryStepCounts
=============================================================================
