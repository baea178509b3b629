--------------------------- MODULE DiskPartitions ---------------------------
(***************************************************************************)
(* Disk.Process (disk/disk.go, disk/partition): the partitions of a disk   *)
(* are listed from an MBR (with the partitions of an extended one), a GPT, *)
(* or, when the disk starts with a NTFS volume, a pseudo MBR; the volumes  *)
(* of the selected ones are located, and every volume located is read.     *)
(*                                                                         *)
(* A member of a RAID array has a LVM physical volume, of which the first  *)
(* data area is taken for a BTRFS (disk/volume/lvm.go, FS/BTRFS/btrfs.go). *)
(*                                                                         *)
(* The disk is given by where NTFS boot sectors and RAID superblocks are,  *)
(* in sectors of 512 bytes, and by the partition tables that name sectors. *)
(***************************************************************************)
EXTENDS Integers, Sequences, FiniteSets, SequencesExt

CONSTANTS
  Layouts,   \* the disks considered
  Numbers    \* the values of -partition

None == -1   \* -partition is not given

\* A partition table names types and sectors: the MBR ("ntfs" is 0x07 or 0x17),
\* the table of its extended partition, and the GPT.
Entry == [type: {"empty", "ntfs", "extended", "protective", "windows", "raid", "foreign"},
          start: Nat]

\* A member of a RAID array: the sector of its data, counted from its start, and what is
\* found in it: whether it is a physical volume of LVM, the size that the label gives for
\* itself, the offsets of the areas behind the label (the data areas, 0, the metadata
\* areas, 0), and how many of them are data areas.  Between the label and the areas is a
\* header of 40 bytes, an area takes 16, and a label and its areas lie in one sector.
Member == [data: Nat, label: BOOLEAN, headerSize: Nat, descriptors: Seq(Nat), areas: Nat]
IsTerminated(m) ==
  /\ m.areas + 1 \in DOMAIN m.descriptors /\ m.descriptors[m.areas + 1] = 0
  /\ \A i \in 1 .. m.areas : m.descriptors[i] # 0
EndOfAreas(m) == m.headerSize + 40 + 16 * (m.areas + 1)
IsPhysicalVolume(m) == m.label => m.headerSize = 32 /\ m.areas > 0 /\ EndOfAreas(m) <= 512

\* boots maps the sector of a NTFS boot sector to the volume: bytes per sector, sectors
\* per cluster, cluster of the $MFT, behind that of the boot sector, and the bits of
\* the entries of the $MFT and of the clusters that are in use. raids maps the sectors of
\* RAID members to them.
IsLayout(l) ==
  /\ l.mbr \in Seq(Entry) /\ l.extended \in Seq(Entry) /\ l.gpt \in Seq(Entry)
  /\ DOMAIN l.boots \subseteq Nat /\ DOMAIN l.raids \subseteq Nat
  /\ \A s \in DOMAIN l.boots : LET b == l.boots[s] IN
       /\ {b.bps, b.spc, b.mft} \subseteq Nat /\ b.mft # 0
       /\ b.mftBitmap \in Seq(BOOLEAN) /\ b.bitmap \in Seq(BOOLEAN)
  /\ \A s \in DOMAIN l.raids :
       LET m == l.raids[s] IN m \in Member /\ IsTerminated(m) /\ IsPhysicalVolume(m)

ASSUME LayoutsAssumption == \A l \in Layouts : IsLayout(l)
ASSUME NumbersAssumption == Numbers \subseteq Nat \union {None}

VARIABLES
  disk,          \* the disk; never changes
  partitionNum,  \* the argument -partition; never changes
  pc,            \* "discover", "locate", "process", "ready"
  idx,           \* index of the current partition
  partitions,    \* Disk.Partitions
  reads,         \* the volumes whose file system was read, in order
  failed         \* a panic ended the process

vars == <<disk, partitionNum, pc, idx, partitions, reads, failed>>

Tables == {"primary", "logical", "gpt", "pseudo"}
Volumes == {"nil", "ntfs", "lvm"}

\* A Partition of the disk: where its entry says it starts, the sector of the table
\* the start is relative to, and the volume: boot is the sector it was read from,
\* DataAreas those of a physical volume.
P(tbl, e, off) == [table |-> tbl, type |-> e.type, start |-> e.start, tableOffset |-> off,
                   raid |-> 0, volume |-> "nil", boot |-> 0, DataAreas |-> <<>>]
All(tbl, es, off) == [i \in DOMAIN es |-> P(tbl, es[i], off)]

-----------------------------------------------------------------------------
Init ==
  /\ disk \in Layouts /\ partitionNum \in Numbers
  /\ pc = "discover" /\ idx = 1 /\ partitions = <<>> /\ reads = <<>> /\ failed = FALSE

StartsWithNTFS == 0 \in DOMAIN disk.boots
IsProtective == disk.mbr[1].type = "protective"

\* The first extended partition; only the four entries of its first table are read.
ExtendedEntries ==
  LET extended == {i \in DOMAIN disk.mbr : disk.mbr[i].type = "extended"}
  IN IF extended = {} THEN <<>>
     ELSE All("logical", disk.extended, disk.mbr[Min(extended)].start)

\* The indices of a sequence that are in a set, as a loop over it meets them.
Positions(seq, set) == FlattenSeq([i \in DOMAIN seq |-> IF i \in set THEN <<i>> ELSE <<>>])

\* DiscoverPartitions counts the entries of a GPT from 0.
Chosen(i) == partitionNum \in {None, i - 1}
ChosenEntries == Positions(disk.gpt, {i \in DOMAIN disk.gpt : Chosen(i)})

\* populateMBR, CreatePseudoMBR, populateGPT.
Listed ==
  IF StartsWithNTFS THEN <<P("pseudo", [type |-> "ntfs", start |-> 0], 0)>>
  ELSE IF IsProtective
  THEN [k \in DOMAIN ChosenEntries |-> P("gpt", disk.gpt[ChosenEntries[k]], 0)]
  ELSE All("primary", disk.mbr, 0) \o ExtendedEntries

DiscoverPartitions ==
  /\ pc = "discover" /\ ~failed
  /\ partitions' = Listed
  /\ pc' = "locate" /\ idx' = 1
  /\ UNCHANGED <<disk, partitionNum, reads, failed>>

\* ProcessPartitions and GetFileSystemMetadata count from 1.
IsSelectedBug(i) == partitionNum \in {None, i - 1}
IsSelected(i) == partitionNum \in {None, i}

\* LocateVolume reads at the start in the entry, whatever table it is relative to.
HasBootBug(p) == TRUE
HasBoot(p) == p.start \in DOMAIN disk.boots

\* A member is one by the magic number of its superblock.
IsMember(p) == p.table = "gpt" /\ p.type = "raid" /\ p.start \in DOMAIN disk.raids

\* The data areas of a physical volume end at an offset of 0.
DataAreasOf(areas) == SubSeq(areas, 1, Min({i \in DOMAIN areas : areas[i] = 0}) - 1)

\* ProcessHeader takes the bytes from the second sector of the data on for a label, without
\* comparing its signature, skips as many of them as the label says, and reads areas up to
\* one with an offset of 0, past the bytes where there is none in them.
LabelBytes == 4096 - 512
HeaderPanics(p) == IsMember(p) /\ EndOfAreas(disk.raids[p.start]) > LabelBytes

ProcessHeader(p) ==
  LET m == disk.raids[p.start]
  IN [p EXCEPT !.volume = "lvm", !.raid = m.data, !.boot = p.start + m.data,
               !.DataAreas = DataAreasOf(m.descriptors)]

\* A boot sector is checked for the signature of NTFS in a MBR, not in a GPT.
Located(p) ==
  CASE p.table # "gpt" /\ p.type = "ntfs" /\ HasBoot(p) ->
         [p EXCEPT !.volume = "ntfs", !.boot = p.start]
    [] p.table = "gpt" /\ p.type = "windows" -> [p EXCEPT !.volume = "ntfs", !.boot = p.start]
    [] IsMember(p) -> ProcessHeader(p)
    [] OTHER -> p

\* One turn of the loop of ProcessPartitions.
LocateVolume ==
  /\ pc = "locate" /\ idx <= Len(partitions)
  /\ IF IsSelected(idx) /\ HeaderPanics(partitions[idx])
     THEN failed' = TRUE /\ UNCHANGED <<partitions, idx>>
     ELSE /\ partitions' = IF IsSelected(idx) THEN [partitions EXCEPT ![idx] = Located(@)]
                           ELSE partitions
          /\ idx' = idx + 1 /\ UNCHANGED failed
  /\ UNCHANGED <<disk, partitionNum, pc, reads>>

AllLocated ==
  /\ pc = "locate" /\ idx > Len(partitions)
  /\ pc' = "process" /\ idx' = 1
  /\ UNCHANGED <<disk, partitionNum, partitions, reads, failed>>

\* GetOffset of the three kinds of partitions, in sectors.
GetOffsetBug(p) == p.start + p.raid
GetOffset(p) == p.start + p.tableOffset + p.raid

\* The $MFT is looked for at the place the boot sector gives, from the offset of the
\* partition: there is none when the boot sector is not one of NTFS, or that of a
\* volume that lies elsewhere and has its $MFT at another distance.
MFTPlace(b) == b.mft * b.spc * b.bps
FindsMFT(p) ==
  /\ p.boot \in DOMAIN disk.boots
  /\ LET here == GetOffset(p) * disk.boots[p.boot].bps IN
     \E s \in DOMAIN disk.boots :
       s * 512 = here /\ MFTPlace(disk.boots[s]) = MFTPlace(disk.boots[p.boot])

\* The superblock of BTRFS is looked for 128 sectors into the first data area: whatever
\* is there is taken for one.
SuperblockPlace(p) == GetOffset(p) * 512 + p.DataAreas[1] + 128 * 512

FindsFileSystem(p) ==
  \/ p.volume = "ntfs" /\ FindsMFT(p)
  \/ p.volume = "lvm" /\ p.DataAreas # <<>>
FileSystemPlace(p) ==
  IF p.volume = "lvm" THEN SuperblockPlace(p)
  ELSE GetOffset(p) * disk.boots[p.boot].bps + MFTPlace(disk.boots[p.boot])

\* One turn of the loop of DiscoverFileSystems. Where no record of the $MFT is found,
\* the attributes of an empty one are dereferenced, and so is the first data area where
\* there is none.
DiscoverFileSystem ==
  /\ pc = "process" /\ idx <= Len(partitions)
  /\ LET p == partitions[idx] IN
     \/ /\ p.volume = "nil"
        /\ UNCHANGED <<reads, failed>>
     \/ /\ p.volume # "nil" /\ ~FindsFileSystem(p)
        /\ failed' = TRUE /\ UNCHANGED reads
     \/ /\ FindsFileSystem(p)
        /\ reads' = Append(reads, [idx |-> idx, boot |-> p.boot, offset |-> GetOffset(p),
                                  at |-> FileSystemPlace(p)])
        /\ UNCHANGED failed
  /\ idx' = idx + 1
  /\ UNCHANGED <<disk, partitionNum, pc, partitions>>

\* GetFileSystemMetadata returns an empty map: the records of the volumes stay in them.
GetFileSystemMetadata ==
  /\ pc = "process" /\ idx > Len(partitions)
  /\ pc' = "ready"
  /\ UNCHANGED <<disk, partitionNum, idx, partitions, reads, failed>>

-----------------------------------------------------------------------------
Process ==
  /\ ~failed
  /\ DiscoverPartitions \/ LocateVolume \/ AllLocated \/ DiscoverFileSystem \/ GetFileSystemMetadata

-----------------------------------------------------------------------------
(* Properties.                                                             *)

\* Type invariant: every partition of the disk has a volume only after its turn.
PartitionsOK ==
  /\ disk \in Layouts /\ partitionNum \in Numbers
  /\ pc \in {"discover", "locate", "process", "ready"}
  /\ idx \in 1 .. Len(partitions) + 1
  /\ \A i \in DOMAIN partitions :
       /\ partitions[i].table \in Tables /\ partitions[i].volume \in Volumes
       /\ partitions[i].DataAreas \in Seq(Nat)
       /\ pc = "locate" /\ i >= idx => partitions[i].volume = "nil"
  /\ failed \in BOOLEAN

\* The partition that begins at the sector of its boot sector: what the tables say,
\* whichever code reads them. The start of a logical partition counts from its table.
TrueStart(p) == p.start + p.tableOffset

\* Where the file system begins behind the start of a partition: the data of a member.
TrueData(p) == IF p.volume = "lvm" THEN disk.raids[p.start].data ELSE 0

\* What was read of a partition was read at its boot sector or superblock.
IsAtBoot(read, p) ==
  /\ read.boot = TrueStart(p) + TrueData(p)
  /\ read.offset = read.boot
  /\ p.volume = "lvm" /\ disk.raids[p.start].label =>
       /\ read.at = read.boot * 512 + disk.raids[p.start].descriptors[1] + 65536
       /\ Len(p.DataAreas) = disk.raids[p.start].areas

\* DiscoverFileSystems: no partition is read twice, and those whose file systems begin at
\* different sectors are read at different ones, though a logical partition is located by
\* the boot sector of another one; and but for those a volume is read from where it was
\* located, though the offset of a RAID member changes in between.  The place of BTRFS is
\* one in the first data area of the physical volume, not in a metadata area.
VolumesReadAtTheirBoot ==
  \A i, j \in DOMAIN reads :
    LET p == partitions[reads[i].idx]
        q == partitions[reads[j].idx]
    IN
    /\ i # j => reads[i].idx # reads[j].idx
    /\ TrueStart(p) + TrueData(p) # TrueStart(q) + TrueData(q)
         => reads[i].offset # reads[j].offset
    /\ p.table # "logical" => IsAtBoot(reads[i], p)

\* ProcessPartitions, DiscoverFileSystems: on a MBR disk, when Process returns the NTFS
\* volumes of the selected primary partitions have been read, and no other of them:
\* a partition of another type, or without a NTFS volume, is passed over.
SelectedVolumesRead ==
  pc = "ready" /\ ~StartsWithNTFS /\ ~IsProtective =>
    {i \in DOMAIN disk.mbr : \E k \in DOMAIN reads : reads[k].idx = i} =
      {i \in DOMAIN disk.mbr : /\ partitionNum \in {None, i}
                               /\ disk.mbr[i].type = "ntfs"
                               /\ disk.mbr[i].start \in DOMAIN disk.boots}

\* LocateVolume, DiscoverFileSystems: on a disk whose volumes have sectors of 512 bytes,
\* no partition but a logical one, a Windows partition of a GPT, whose boot sector
\* is not checked, or a RAID member without LVM, whose label is not either, makes the
\* program panic.
PanicsAreExplained ==
  failed /\ pc \in {"locate", "process"} /\ (\A s \in DOMAIN disk.boots : disk.boots[s].bps = 512) =>
    \E i \in DOMAIN partitions :
      LET p == partitions[i] IN
      \/ p.table = "logical" /\ p.volume = "ntfs"
      \/ p.table = "gpt" /\ p.type = "windows" /\ p.start \notin DOMAIN disk.boots
      \/ IsMember(p) /\ ~disk.raids[p.start].label

\* README.md:13-20: -physicaldrive 0 -partition 1 names a partition, as -listpartitions
\* lists them: the partition of that number, counted from 1, is the one that is read.
NumberSelectsPartition ==
  pc = "ready" /\ IsProtective /\ partitionNum \in DOMAIN disk.gpt =>
    LET e == disk.gpt[partitionNum] IN
    /\ \A k \in DOMAIN reads : partitions[reads[k].idx].start = e.start
    /\ e.type = "windows" => reads # <<>>
=============================================================================
