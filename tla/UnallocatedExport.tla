-------------------------- MODULE UnallocatedExport --------------------------
(***************************************************************************)
(* ExportUnallocated (exporter/exporter.go): after Disk.Process, one       *)
(* goroutine sends blocks of unallocated clusters of every volume into a   *)
(* channel without a buffer, closed by each NTFS volume; the main          *)
(* goroutine appends them to one file until the channel is closed, and     *)
(* goes on. When it ends, the process ends, whatever the other does.       *)
(***************************************************************************)
EXTENDS DiskPartitions

VARIABLES
  writable,    \* the file Unallocated can be opened; never changes
  epc,         \* main: "start", "recv", "write", "done"
  block,       \* the block being written
  file,        \* what has been appended to the file Unallocated
  cpc,         \* CollectedUnallocated: "start", "volume", "collect", "return", "done"
  vol,         \* index of the current partition
  ci,          \* index in the list of unallocated clusters
  blockSize,   \* number of consecutive clusters
  buf,         \* the buffer of the volume, a sequence of reads
  closed       \* the channel is closed

uvars == <<writable, epc, block, file, cpc, vol, ci, blockSize, buf, closed>>
allVars == <<vars, uvars>>

UInit ==
  /\ Init
  /\ writable \in BOOLEAN
  /\ epc = "start" /\ block = <<>> /\ file = <<>>
  /\ cpc = "start" /\ vol = 1 /\ ci = 1 /\ blockSize = 1 /\ buf = <<>> /\ closed = FALSE

\* The boot sector the volume was located by, and the volume whose $MFT was read: that of
\* a logical partition may be another one.
Volume == disk.boots[partitions[vol].boot]
MFTVolume(p) == disk.boots[(GetOffset(p) * disk.boots[p.boot].bps) \div 512]
Found == MFTVolume(partitions[vol])

\* CollectMFTArea reads the $MFT again, at the clusters of its run list: with clusters of
\* another size it reads no $MFT, and record 0 has no bitmap.
HasBitmap == Found.spc * Found.bps = Volume.spc * Volume.bps

\* The bitmap is that of record 0, the $MFT: its bits are entries, counted from 1.
GetUnallocatedClusters ==
  Positions(Found.mftBitmap, {i \in DOMAIN Found.mftBitmap : ~Found.mftBitmap[i]})

Clusters == GetUnallocatedClusters

\* The offset takes the bytes per sector modulo 2^8, the length is computed modulo 2^16.
ReadBlock(first, n) ==
  [at  |-> GetOffset(partitions[vol]) * Volume.bps
             + first * ((Volume.spc * (Volume.bps % 256)) % 256),
   len |-> (n * ((Volume.spc * Volume.bps) % 65536)) % 65536]

-----------------------------------------------------------------------------
(* main: ExportUnallocated.                                                *)

StartCollector ==
  /\ pc = "ready" /\ epc = "start"
  /\ epc' = "recv" /\ cpc' = "volume"
  /\ UNCHANGED <<vars, writable, block, file, vol, ci, blockSize, buf, closed>>

AfterWriteBug == IF writable THEN "recv" ELSE "write"
AfterWrite == "recv"

\* WriteFile appends; a file that cannot be opened is reported, and the loop goes on.
WriteFile ==
  /\ epc = "write"
  /\ file' = IF writable THEN Append(file, block) ELSE file
  /\ epc' = AfterWrite
  /\ UNCHANGED <<vars, writable, block, cpc, vol, ci, blockSize, buf, closed>>

\* The range loop ends with the channel; main has nothing else to do.
BlocksEnd ==
  /\ epc = "recv" /\ closed
  /\ epc' = "done"
  /\ UNCHANGED <<vars, writable, block, file, cpc, vol, ci, blockSize, buf, closed>>

(* CollectedUnallocated and CollectUnallocated.                            *)

FirstIndexBug == 1
FirstIndex == 2

\* A partition without a volume, or with LVM, sends nothing; without a bitmap, or without a
\* free entry, the volume panics.
OpenVolume ==
  /\ cpc = "volume" /\ vol <= Len(partitions)
  /\ \/ /\ partitions[vol].volume \in {"nil", "lvm"}
        /\ vol' = vol + 1
        /\ UNCHANGED <<failed, cpc, ci, blockSize, buf>>
     \/ /\ partitions[vol].volume = "ntfs" /\ (~HasBitmap \/ Clusters = <<>>)
        /\ failed' = TRUE
        /\ UNCHANGED <<cpc, vol, ci, blockSize, buf>>
     \/ /\ partitions[vol].volume = "ntfs" /\ HasBitmap /\ Clusters # <<>>
        /\ cpc' = "collect" /\ ci' = FirstIndex /\ blockSize' = 1 /\ buf' = <<>>
        /\ UNCHANGED <<failed, vol>>
  /\ UNCHANGED <<disk, partitionNum, pc, idx, partitions, reads,
                 writable, epc, block, file, closed>>

ConsecutiveBug == Clusters[ci] - Clusters[ci - 1] <= 2
Consecutive == Clusters[ci] - Clusters[ci - 1] <= 1

GrowBlock ==
  /\ cpc = "collect" /\ ci <= Len(Clusters) /\ Consecutive
  /\ blockSize' = blockSize + 1 /\ ci' = ci + 1
  /\ UNCHANGED <<vars, writable, epc, block, file, cpc, vol, buf, closed>>

\* The buffer holds the blocks before it, too.
FirstOfBlock == ci - blockSize

\* A send waits for main; on a closed channel it panics.
SendBlock ==
  /\ cpc = "collect" /\ ci <= Len(Clusters) /\ ~Consecutive
  /\ closed \/ epc = "recv"
  /\ buf' = Append(buf, ReadBlock(Clusters[FirstOfBlock], blockSize))
  /\ IF closed
     THEN failed' = TRUE /\ UNCHANGED <<epc, block>>
     ELSE block' = buf' /\ epc' = "write" /\ UNCHANGED failed
  /\ blockSize' = 1 /\ ci' = ci + 1
  /\ UNCHANGED <<disk, partitionNum, pc, idx, partitions, reads,
                 writable, file, cpc, vol, closed>>

ClosesTwiceBug == FALSE
ClosesTwice == closed

\* Every NTFS volume closes the channel; the second time panics.
CloseBlocks ==
  /\ cpc = "collect" /\ ci > Len(Clusters)
  /\ IF ClosesTwice THEN failed' = TRUE /\ UNCHANGED <<closed, cpc, vol>>
     ELSE closed' = TRUE /\ cpc' = "volume" /\ vol' = vol + 1 /\ UNCHANGED failed
  /\ UNCHANGED <<disk, partitionNum, pc, idx, partitions, reads,
                 writable, epc, block, file, ci, blockSize, buf>>

CollectorReturns ==
  /\ cpc = "volume" /\ vol > Len(partitions)
  /\ cpc' = "done"
  /\ UNCHANGED <<vars, writable, epc, block, file, vol, ci, blockSize, buf, closed>>

\* The Go runtime ends a program whose goroutines are all asleep.
AllAsleep ==
  /\ cpc = "done" /\ epc = "recv" /\ ~closed
  /\ failed' = TRUE
  /\ UNCHANGED <<disk, partitionNum, pc, idx, partitions, reads, uvars>>

-----------------------------------------------------------------------------
ExportUnallocated == StartCollector \/ WriteFile \/ BlocksEnd
CollectUnallocated == OpenVolume \/ GrowBlock \/ SendBlock \/ CloseBlocks \/ CollectorReturns

Running == ~failed /\ epc # "done"
Disk == Process /\ UNCHANGED uvars
Main == Running /\ (Disk \/ ExportUnallocated)
Collector == Running /\ CollectUnallocated
Runtime == Running /\ AllAsleep

Ended == ~Running /\ UNCHANGED allVars

UNext == Main \/ Collector \/ Runtime \/ Ended

\* The Go scheduler runs both goroutines, and its deadlock detector.
USpec == UInit /\ [][UNext]_allVars
           /\ WF_allVars(Main) /\ WF_allVars(Collector) /\ WF_allVars(Runtime)

-----------------------------------------------------------------------------
(* Properties.                                                             *)

\* Type invariant: blockSize never counts more clusters than have been seen.
TypeOK ==
  /\ PartitionsOK
  /\ epc \in {"start", "recv", "write", "done"}
  /\ cpc \in {"start", "volume", "collect", "return", "done"}
  /\ vol \in 1 .. Len(partitions) + 1
  /\ cpc = "collect" => blockSize \in 1 .. ci - 1 /\ ci <= Len(Clusters) + 1
  /\ writable \in BOOLEAN /\ closed \in BOOLEAN

NTFSVolumes == Positions(partitions, {i \in DOMAIN partitions : partitions[i].volume = "ntfs"})

\* Where the free bits of a bitmap begin, and how many there are in a row from f on.
RunStarts(bits) == {i \in DOMAIN bits : ~bits[i] /\ (i > 1 => bits[i - 1])}
IsRun(bits, f, n) ==
  /\ f + n - 1 <= Len(bits)
  /\ \A i \in f .. f + n - 1 : ~bits[i]
  /\ f + n <= Len(bits) => bits[f + n]
RunLength(bits, f) == CHOOSE n \in DOMAIN bits : IsRun(bits, f, n)

\* The lengths of the runs the loop sends: those but the last, in their order.
SentRuns(bits) ==
  LET starts == Positions(bits, RunStarts(bits))
  IN [k \in 1 .. Len(starts) - 1 |-> RunLength(bits, starts[k])]

\* How many bytes of them are read: the length of a read is computed modulo 2^16.
RunBytes(run, b) == (run * b.spc * b.bps) % 65536

\* CollectUnallocated, ExportUnallocated: what is written, and the block on its way,
\* are blocks of the first NTFS volume only, the k-th of them the first k of the maximal
\* runs of the bitmap read for it; and when main ends, all of them but the last run.
BlocksAreRuns ==
  writable /\ epc # "start" /\ NTFSVolumes # <<>> =>
    LET sent == IF epc = "write" THEN Append(file, block) ELSE file
        p == partitions[NTFSVolumes[1]]
        runs == SentRuns(MFTVolume(p).mftBitmap)
    IN /\ Len(sent) <= Len(runs)
       /\ \A k \in DOMAIN sent :
            /\ Len(sent[k]) = k
            /\ sent[k][k].len = RunBytes(runs[k], disk.boots[p.boot])
            /\ k > 1 => Front(sent[k]) = sent[k - 1]
       /\ epc = "done" => Len(file) = Len(runs)

\* ExportUnallocated: it never waits for ever; either it ends, or the program does.
Termination == <>(failed \/ epc = "done")

\* CollectedUnallocated: main ends its loop only where there is a NTFS volume to close
\* the channel, and the collector returns only where there is no second one: which of
\* main and the panic of the second volume comes first is left to the scheduler.
OneVolumeIsCollected ==
  /\ epc = "done" => NTFSVolumes # <<>>
  /\ cpc = "done" => Len(NTFSVolumes) <= 1

\* README.md:114-115 and main.go:77, collect unallocated area of a volume: every
\* cluster that is free in the bitmap of the volume is in the blocks written.
UnallocatedCollected ==
  epc = "done" /\ writable /\ ~failed =>
    \A i \in DOMAIN reads :
      LET b == MFTVolume(partitions[reads[i].idx])
          size == b.spc * b.bps
      IN partitions[reads[i].idx].volume = "ntfs" =>
         \A c \in DOMAIN b.bitmap :
           ~b.bitmap[c] =>
             \E k \in DOMAIN file : \E rd \in {file[k][x] : x \in DOMAIN file[k]} :
               /\ rd.at <= reads[i].offset * b.bps + (c - 1) * size
               /\ reads[i].offset * b.bps + c * size <= rd.at + rd.len
=============================================================================
