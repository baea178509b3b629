----------------------------- MODULE DiskProofs -----------------------------
(***************************************************************************)
(* Theorems about Disk.Process and the export of unallocated clusters, for *)
(* all disks, bitmaps and values of -partition.                            *)
(***************************************************************************)
EXTENDS UnallocatedExport, SequenceLemmas, TLAPS

-----------------------------------------------------------------------------
(* What DiscoverPartitions lists.                                          *)

Partition ==
  [table: Tables, type: {"empty", "ntfs", "extended", "protective", "windows", "raid", "foreign"},
   start: Nat, tableOffset: Nat, raid: Nat, volume: Volumes, boot: Nat, DataAreas: Seq(Nat)]

\* A partition before LocateVolume; only that of a logical one counts from its table.
Fresh(p) ==
  /\ p.raid = 0 /\ p.volume = "nil" /\ p.boot = 0 /\ p.DataAreas = <<>>
  /\ p.table # "logical" => p.tableOffset = 0

\* The layout of a disk.
LEMMA LayoutFacts ==
  ASSUME disk \in Layouts
  PROVE  /\ disk.mbr \in Seq(Entry) /\ disk.extended \in Seq(Entry) /\ disk.gpt \in Seq(Entry)
         /\ DOMAIN disk.boots \subseteq Nat /\ DOMAIN disk.raids \subseteq Nat
         /\ \A s \in DOMAIN disk.boots :
              /\ disk.boots[s].bps \in Nat /\ disk.boots[s].spc \in Nat /\ disk.boots[s].mft \in Nat
              /\ disk.boots[s].mftBitmap \in Seq(BOOLEAN)
         /\ \A s \in DOMAIN disk.raids :
              /\ disk.raids[s] \in Member /\ IsTerminated(disk.raids[s])
              /\ IsPhysicalVolume(disk.raids[s])
  <1>1. IsLayout(disk)
    BY LayoutsAssumption
  <1> QED
    BY <1>1 DEF IsLayout

\* An entry of a table becomes a partition.
LEMMA FreshPartition ==
  ASSUME NEW tbl \in Tables, NEW e \in Entry, NEW off \in Nat, tbl # "logical" => off = 0
  PROVE  /\ P(tbl, e, off) \in Partition /\ Fresh(P(tbl, e, off))
         /\ P(tbl, e, off).table = tbl /\ P(tbl, e, off).type = e.type
         /\ P(tbl, e, off).start = e.start
  <1>1. <<>> \in Seq(Nat) /\ 0 \in Nat /\ "nil" \in Volumes
    BY DEF Volumes
  <1> QED
    BY <1>1 DEF P, Partition, Fresh, Entry

\* The entries of a table become partitions.
LEMMA AllFresh ==
  ASSUME NEW tbl \in Tables, NEW es \in Seq(Entry), NEW off \in Nat, tbl # "logical" => off = 0
  PROVE  /\ All(tbl, es, off) \in Seq(Partition) /\ Len(All(tbl, es, off)) = Len(es)
         /\ \A i \in 1 .. Len(es) :
              All(tbl, es, off)[i] = P(tbl, es[i], off) /\ Fresh(P(tbl, es[i], off))
  <1>1. Len(es) \in Nat /\ DOMAIN es = 1 .. Len(es) /\ \A i \in 1 .. Len(es) : es[i] \in Entry
    BY ElementOfSeq, LenProperties
  <1>2. \A i \in 1 .. Len(es) : P(tbl, es[i], off) \in Partition /\ Fresh(P(tbl, es[i], off))
    BY <1>1, FreshPartition
  <1>3. All(tbl, es, off) = [i \in 1 .. Len(es) |-> P(tbl, es[i], off)]
    BY <1>1 DEF All
  <1>4. All(tbl, es, off) \in [1 .. Len(es) -> Partition]
    BY <1>2, <1>3
  <1>5. All(tbl, es, off) \in Seq(Partition) /\ Len(All(tbl, es, off)) = Len(es)
    BY <1>1, <1>4
  <1> QED
    BY <1>2, <1>3, <1>5

\* The first partition of a set of them.
LEMMA ExtendedFresh ==
  ASSUME disk \in Layouts
  PROVE  /\ ExtendedEntries \in Seq(Partition)
         /\ \A i \in 1 .. Len(ExtendedEntries) :
              Fresh(ExtendedEntries[i]) /\ ExtendedEntries[i].table = "logical"
  <1> DEFINE extended == {i \in DOMAIN disk.mbr : disk.mbr[i].type = "extended"}
  <1>1. CASE extended = {}
    <2>1. ExtendedEntries = <<>>
      BY <1>1 DEF ExtendedEntries
    <2> QED
      BY <2>1
  <1>2. CASE extended # {}
    <2>1. disk.mbr \in Seq(Entry) /\ disk.extended \in Seq(Entry)
      BY LayoutFacts
    <2>2. extended \in SUBSET Nat
      BY <2>1
    <2>3. Min(extended) \in extended
      BY <1>2, <2>2, MinOfNaturals
    <2>4. disk.mbr[Min(extended)].start \in Nat
      <3>1. disk.mbr[Min(extended)] \in Entry
        BY <2>1, <2>3, ElementOfSeq, LenProperties
      <3> QED
        BY <3>1 DEF Entry
    <2>5. PICK x : x = disk.mbr[Min(extended)].start
      OBVIOUS
    <2>6. ExtendedEntries = All("logical", disk.extended, x)
      BY <1>2, <2>5 DEF ExtendedEntries
    <2>7. "logical" \in Tables
      BY DEF Tables
    <2>8. PICK t, es : t = "logical" /\ es = disk.extended
      OBVIOUS
    <2>9. PICK a : a = All(t, es, x)
      OBVIOUS
    <2>10. /\ a \in Seq(Partition) /\ Len(a) = Len(es)
           /\ \A i \in 1 .. Len(es) : a[i] = P(t, es[i], x) /\ Fresh(P(t, es[i], x))
      BY <2>1, <2>4, <2>5, <2>7, <2>8, <2>9, AllFresh
    <2>11. \A i \in 1 .. Len(es) : P(t, es[i], x).table = t
      BY DEF P
    <2>12. ExtendedEntries = a
      BY <2>6, <2>8, <2>9
    <2> QED
      BY <2>8, <2>10, <2>11, <2>12
  <1> QED
    BY <1>1, <1>2

\* The partitions that DiscoverPartitions lists: on a MBR disk first the primary ones.
LEMMA ListedFresh ==
  ASSUME disk \in Layouts
  PROVE  /\ Listed \in Seq(Partition)
         /\ \A i \in 1 .. Len(Listed) : Fresh(Listed[i])
         /\ ~StartsWithNTFS /\ ~IsProtective =>
              /\ \A i \in 1 .. Len(disk.mbr) :
                   i \in 1 .. Len(Listed) /\ Listed[i] = P("primary", disk.mbr[i], 0)
              /\ \A i \in 1 .. Len(Listed) :
                   i \in 1 .. Len(disk.mbr) \/ Listed[i].table = "logical"
  <1>1. "pseudo" \in Tables /\ "gpt" \in Tables /\ "primary" \in Tables
    BY DEF Tables
  <1>2. CASE StartsWithNTFS
    <2>1. PICK e, t, z : e = [type |-> "ntfs", start |-> 0] /\ t = "pseudo" /\ z = 0
      OBVIOUS
    <2>2. e \in Entry /\ t # "logical" /\ t \in Tables /\ z \in Nat
      BY <1>1, <2>1 DEF Entry
    <2>3. P(t, e, z) \in Partition /\ Fresh(P(t, e, z))
      BY <2>1, <2>2, FreshPartition
    <2>4. Listed = <<P(t, e, z)>>
      BY <1>2, <2>1 DEF Listed
    <2> QED
      BY <1>2, <2>3, <2>4
  <1>3. CASE ~StartsWithNTFS /\ IsProtective
    <2> DEFINE T == {i \in DOMAIN disk.gpt : Chosen(i)}
    <2>1. disk.gpt \in Seq(Entry) /\ DOMAIN disk.gpt = 1 .. Len(disk.gpt) /\ Len(disk.gpt) \in Nat
      BY LayoutFacts
    <2>2. T \in SUBSET (1 .. Len(disk.gpt))
      BY <2>1
    <2>3. Enumerates(ChosenEntries, T)
      <3>1. ChosenEntries =
              FlattenSeq([i \in 1 .. Len(disk.gpt) |-> IF i \in T THEN <<i>> ELSE <<>>])
        BY <2>1 DEF ChosenEntries, Positions
      <3> HIDE DEF T
      <3> QED
        BY <2>1, <2>2, <3>1, IndicesInOrder
    <2>4. PICK c : c = ChosenEntries
      OBVIOUS
    <2>5. c \in Seq(1 .. Len(disk.gpt))
      <3>1. c \in Seq(T)
        BY <2>3, <2>4 DEF Enumerates
      <3>2. Len(c) \in Nat /\ \A k \in 1 .. Len(c) : c[k] \in T
        BY <3>1, ElementOfSeq, LenProperties
      <3> QED
        BY <2>2, <3>1, <3>2
    <2>6. /\ DOMAIN c = 1 .. Len(c) /\ Len(c) \in Nat
          /\ \A k \in 1 .. Len(c) : disk.gpt[c[k]] \in Entry
      BY <2>1, <2>5, ElementOfSeq
    <2>7. PICK t, z : t = "gpt" /\ z = 0
      OBVIOUS
    <2>8. Listed = [k \in 1 .. Len(c) |-> P(t, disk.gpt[c[k]], z)]
      BY <1>3, <2>4, <2>6, <2>7 DEF Listed
    <2>9. \A k \in 1 .. Len(c) :
            P(t, disk.gpt[c[k]], z) \in Partition /\ Fresh(P(t, disk.gpt[c[k]], z))
      BY <1>1, <2>6, <2>7, FreshPartition
    <2>10. Listed \in [1 .. Len(c) -> Partition] /\ \A i \in 1 .. Len(c) : Fresh(Listed[i])
      BY <2>8, <2>9
    <2>11. Listed \in Seq(Partition) /\ Len(Listed) = Len(c)
      BY <2>6, <2>10
    <2> QED
      BY <1>3, <2>10, <2>11
  <1>4. CASE ~StartsWithNTFS /\ ~IsProtective
    <2>1. PICK t, z, m, x : /\ t = "primary" /\ z = 0 /\ m = disk.mbr /\ x = ExtendedEntries
      OBVIOUS
    <2>2. PICK a : a = All(t, m, z)
      OBVIOUS
    <2>3. m \in Seq(Entry) /\ t \in Tables /\ t # "logical" /\ z \in Nat
      BY <1>1, <2>1, LayoutFacts
    <2>4. /\ a \in Seq(Partition) /\ Len(a) = Len(m)
          /\ \A i \in 1 .. Len(m) : a[i] = P(t, m[i], z) /\ Fresh(P(t, m[i], z))
      BY <2>1, <2>2, <2>3, AllFresh
    <2>5. /\ x \in Seq(Partition)
          /\ \A i \in 1 .. Len(x) : Fresh(x[i]) /\ x[i].table = "logical"
      BY <2>1, ExtendedFresh
    <2>6. Listed = a \o x
      BY <1>4, <2>1, <2>2 DEF Listed
    <2>7. Len(a) \in Nat /\ Len(x) \in Nat
      BY <2>4, <2>5
    <2>8. /\ Listed \in Seq(Partition) /\ Len(Listed) = Len(a) + Len(x)
          /\ \A i \in 1 .. Len(Listed) :
               Listed[i] = IF i <= Len(a) THEN a[i] ELSE x[i - Len(a)]
      <3>1. /\ a \o x \in Seq(Partition) /\ Len(a \o x) = Len(a) + Len(x)
            /\ \A i \in 1 .. Len(a) + Len(x) :
                 (a \o x)[i] = IF i <= Len(a) THEN a[i] ELSE x[i - Len(a)]
        BY <2>4, <2>5, ConcatProperties
      <3> QED
        BY <2>6, <3>1, Zenon
    <2>9. ASSUME NEW i \in 1 .. Len(Listed)
          PROVE  /\ Fresh(Listed[i])
                 /\ i \in 1 .. Len(m) \/ Listed[i].table = "logical"
      <3>1. CASE i <= Len(a)
        <4>1. i \in 1 .. Len(m)
          BY <2>4, <2>7, <3>1
        <4> QED
          BY <2>4, <2>8, <3>1, <4>1
      <3>2. CASE ~(i <= Len(a))
        <4>1. i - Len(a) \in 1 .. Len(x)
          BY <2>7, <2>8, <3>2
        <4> QED
          BY <2>5, <2>8, <3>2, <4>1
      <3> QED
        BY <3>1, <3>2
    <2>10. ASSUME NEW i \in 1 .. Len(m)
           PROVE  i \in 1 .. Len(Listed) /\ Listed[i] = P(t, m[i], z)
      <3>1. i \in 1 .. Len(Listed) /\ i <= Len(a)
        BY <2>4, <2>7, <2>8
      <3> QED
        BY <2>4, <2>8, <3>1
    <2> QED
      BY <2>1, <2>8, <2>9, <2>10
  <1> QED
    BY <1>2, <1>3, <1>4

-----------------------------------------------------------------------------
(* What LocateVolume makes of a partition.                                 *)

\* The data areas of a physical volume are those before the first offset of 0.
LEMMA AreasType ==
  ASSUME NEW m \in Member, IsTerminated(m)
  PROVE  /\ DataAreasOf(m.descriptors) \in Seq(Nat) /\ Len(DataAreasOf(m.descriptors)) = m.areas
         /\ m.areas > 0 => DataAreasOf(m.descriptors)[1] = m.descriptors[1]
  <1>1. PICK d, n : d = m.descriptors /\ n = m.areas
    OBVIOUS
  <1>2. d \in Seq(Nat) /\ n \in Nat /\ DOMAIN d = 1 .. Len(d) /\ Len(d) \in Nat
    <2>1. m.descriptors \in Seq(Nat) /\ m.areas \in Nat
      BY DEF Member
    <2> QED
      BY <1>1, <2>1
  <1>3. n + 1 \in DOMAIN d /\ d[n + 1] = 0 /\ \A i \in 1 .. n : d[i] # 0
    BY <1>1 DEF IsTerminated
  <1> DEFINE Z == {i \in DOMAIN d : d[i] = 0}
  <1>4. Z \in SUBSET Nat /\ n + 1 \in Z
    BY <1>2, <1>3
  <1>5. Min(Z) \in Z /\ \A i \in Z : Min(Z) <= i
    <2> HIDE DEF Z
    <2> QED
      BY <1>4, MinOfNaturals
  <1>6. Min(Z) = n + 1
    <2>1. PICK z : z = Min(Z)
      OBVIOUS
    <2>2. z \in Nat /\ z >= 1 /\ d[z] = 0 /\ z <= n + 1
      BY <1>2, <1>4, <1>5, <2>1
    <2>3. ~(z <= n)
      BY <1>2, <1>3, <2>2
    <2> QED
      BY <1>2, <2>1, <2>2, <2>3
  <1>7. DataAreasOf(d) = SubSeq(d, 1, n)
    <2>1. DataAreasOf(d) = SubSeq(d, 1, Min(Z) - 1)
      BY DEF DataAreasOf
    <2> HIDE DEF Z
    <2>2. Min(Z) - 1 = n
      BY <1>2, <1>6
    <2> QED
      BY <2>1, <2>2
  <1>8. n \in 0 .. Len(d)
    BY <1>2, <1>3
  <1>9. SubSeq(d, 1, n) \in Seq(Nat) /\ Len(SubSeq(d, 1, n)) = n
    BY <1>2, <1>8, FirstOnes
  <1>10. n > 0 => SubSeq(d, 1, n)[1] = d[1]
    BY <1>2, <1>8
  <1> QED
    BY <1>1, <1>7, <1>9, <1>10

\* A partition is left as it is, or it is a NTFS volume, or a physical volume.
IsNTFS(p) ==
  \/ p.table # "gpt" /\ p.type = "ntfs" /\ HasBoot(p)
  \/ p.table = "gpt" /\ p.type = "windows"

LEMMA LocatedFields ==
  ASSUME disk \in Layouts, NEW p \in Partition, Fresh(p)
  PROVE  LET q == Located(p) IN
         /\ q \in Partition /\ q.table = p.table /\ q.type = p.type /\ q.start = p.start
         /\ q.tableOffset = p.tableOffset
         /\ IsNTFS(p) => /\ q.volume = "ntfs" /\ q.boot = p.start /\ q.raid = 0
         /\ IsMember(p) => /\ ~IsNTFS(p) /\ q.volume = "lvm"
                           /\ q.raid = disk.raids[p.start].data
                           /\ q.boot = p.start + disk.raids[p.start].data
                           /\ q.DataAreas = DataAreasOf(disk.raids[p.start].descriptors)
         /\ ~IsNTFS(p) /\ ~IsMember(p) => q = p
  <1>1. "ntfs" \in Volumes /\ "lvm" \in Volumes
    BY DEF Volumes
  <1>2. CASE IsNTFS(p)
    <2>1. PICK v, s : v = "ntfs" /\ s = p.start
      OBVIOUS
    <2>2. Located(p) = [p EXCEPT !.volume = v, !.boot = s]
      <3>1. Located(p) = [p EXCEPT !.volume = "ntfs", !.boot = p.start]
        <4>1. CASE p.table # "gpt" /\ p.type = "ntfs" /\ HasBoot(p)
          BY <4>1 DEF Located, IsMember
        <4>2. CASE p.table = "gpt" /\ p.type = "windows"
          BY <4>2 DEF Located, IsMember
        <4> QED
          BY <1>2, <4>1, <4>2 DEF IsNTFS
      <3> QED
        BY <2>1, <3>1
    <2>3. ~IsMember(p)
      BY <1>2 DEF IsMember, IsNTFS
    <2>4. PICK q : q = [p EXCEPT !.volume = v, !.boot = s]
      OBVIOUS
    <2>5. s \in Nat /\ v \in Volumes
      BY <1>1, <2>1 DEF Partition
    <2>6. /\ q \in Partition /\ q.table = p.table /\ q.type = p.type /\ q.start = p.start
          /\ q.tableOffset = p.tableOffset /\ q.volume = v /\ q.boot = s /\ q.raid = p.raid
      BY <2>4, <2>5 DEF Partition
    <2>7. p.raid = 0 /\ Located(p) = q
      BY <2>2, <2>4 DEF Fresh
    <2> QED
      BY <1>2, <2>1, <2>3, <2>6, <2>7
  <1>3. CASE IsMember(p)
    <2>1. PICK m : m = disk.raids[p.start]
      OBVIOUS
    <2>2. m \in Member /\ IsTerminated(m)
      BY <1>3, <2>1, LayoutFacts DEF IsMember
    <2>3. PICK v, a, r, b : /\ v = "lvm" /\ a = DataAreasOf(m.descriptors) /\ r = m.data
                            /\ b = p.start + m.data
      OBVIOUS
    <2>4. a \in Seq(Nat) /\ r \in Nat /\ b \in Nat /\ v \in Volumes
      <3>1. p.start \in Nat /\ m.data \in Nat
        BY <2>2 DEF Partition, Member
      <3> QED
        BY <1>1, <2>2, <2>3, <3>1, AreasType
    <2>5. ~IsNTFS(p)
      BY <1>3 DEF IsMember, IsNTFS
    <2>6. Located(p) = [p EXCEPT !.volume = v, !.raid = r, !.boot = b, !.DataAreas = a]
      <3>1. Located(p) = ProcessHeader(p)
        BY <1>3, <2>5 DEF Located, IsNTFS, IsMember
      <3> QED
        BY <2>1, <2>3, <3>1 DEF ProcessHeader
    <2>7. PICK q : q = [p EXCEPT !.volume = v, !.raid = r, !.boot = b, !.DataAreas = a]
      OBVIOUS
    <2>8. /\ q \in Partition /\ q.table = p.table /\ q.type = p.type /\ q.start = p.start
          /\ q.tableOffset = p.tableOffset /\ q.volume = v /\ q.boot = b /\ q.raid = r
          /\ q.DataAreas = a
      BY <2>4, <2>7 DEF Partition
    <2>9. Located(p) = q
      BY <2>6, <2>7
    <2> QED
      BY <1>3, <2>1, <2>3, <2>5, <2>8, <2>9
  <1>4. CASE ~IsNTFS(p) /\ ~IsMember(p)
    <2>1. Located(p) = p
      BY <1>4 DEF Located, IsNTFS
    <2> QED
      BY <1>4, <2>1
  <1> QED
    BY <1>2, <1>3, <1>4

-----------------------------------------------------------------------------
(* Disk.Process.                                                           *)

Counts ==
  /\ disk \in Layouts /\ partitionNum \in Numbers /\ failed \in BOOLEAN
  /\ pc \in {"discover", "locate", "process", "ready"}
  /\ partitions \in Seq(Partition) /\ idx \in 1 .. Len(partitions) + 1
  /\ pc = "discover" => partitions = <<>> /\ idx = 1 /\ ~failed

\* The list is the one discovered, but for the volumes of the selected partitions the loop
\* has passed.
IsPassed(i) == IsSelected(i) /\ (pc = "locate" => i < idx)
Shape ==
  pc # "discover" =>
    /\ Len(partitions) = Len(Listed)
    /\ \A i \in 1 .. Len(Listed) :
         partitions[i] = IF IsPassed(i) THEN Located(Listed[i]) ELSE Listed[i]

ReadOf(i) ==
  LET p == partitions[i]
  IN [idx |-> i, boot |-> p.boot, offset |-> GetOffset(p), at |-> FileSystemPlace(p)]

FoundUpTo(n) == {ReadOf(i) : i \in {j \in 1 .. n : FindsFileSystem(partitions[j])}}

\* The volumes the loop has passed have been read, each once, if nothing has failed.
ReadsSoFar ==
  /\ reads \in Seq(FoundUpTo(idx - 1))
  /\ pc \in {"discover", "locate"} => reads = <<>>
  /\ \A k, l \in 1 .. Len(reads) : k # l => reads[k].idx # reads[l].idx
  /\ (pc = "process" /\ ~failed) \/ pc = "ready" =>
       \A i \in 1 .. idx - 1 : partitions[i].volume # "nil" =>
         FindsFileSystem(partitions[i]) /\ \E k \in 1 .. Len(reads) : reads[k].idx = i
  /\ pc = "ready" => idx = Len(partitions) + 1

\* What is computed from the disk only stays the same.
LEMMA SameDisk ==
  ASSUME UNCHANGED <<disk, partitionNum>>
  PROVE  /\ Listed' = Listed
         /\ \A i : IsSelected(i)' <=> IsSelected(i)
         /\ \A p : Located(p)' = Located(p) /\ GetOffset(p)' = GetOffset(p)
                   /\ (FindsFileSystem(p)' <=> FindsFileSystem(p))
                   /\ FileSystemPlace(p)' = FileSystemPlace(p)
  <1>1. Listed' = Listed
    BY DEF Listed, StartsWithNTFS, IsProtective, ChosenEntries, Chosen, ExtendedEntries
  <1>2. \A i : IsSelected(i)' <=> IsSelected(i)
    BY DEF IsSelected
  <1>3. \A p : Located(p)' = Located(p)
    BY DEF Located, HasBoot, IsMember, ProcessHeader
  <1>4. \A p : GetOffset(p)' = GetOffset(p)
    BY DEF GetOffset
  <1>5. \A p : FindsFileSystem(p)' <=> FindsFileSystem(p)
    BY <1>4 DEF FindsFileSystem, FindsMFT
  <1>6. \A p : FileSystemPlace(p)' = FileSystemPlace(p)
    BY <1>4 DEF FileSystemPlace, SuperblockPlace
  <1> QED
    BY <1>1, <1>2, <1>3, <1>4, <1>5, <1>6

\* A partition of the disk, and the one it was in the list.
LEMMA OnePartition ==
  ASSUME Counts, Shape, pc # "discover", NEW i \in 1 .. Len(partitions)
  PROVE  /\ i \in 1 .. Len(Listed) /\ Listed[i] \in Partition /\ Fresh(Listed[i])
         /\ IsPassed(i) => partitions[i] = Located(Listed[i])
         /\ ~IsPassed(i) => partitions[i] = Listed[i]
  <1>1. disk \in Layouts /\ Len(partitions) = Len(Listed)
    BY DEF Counts, Shape
  <1>2. Listed \in Seq(Partition) /\ Fresh(Listed[i])
    BY <1>1, ListedFresh
  <1>3. Listed[i] \in Partition
    BY <1>1, <1>2, ElementOfSeq
  <1> QED
    BY <1>1, <1>2, <1>3 DEF Shape

\* A partition that has a volume: where it begins, and what was found in it.
LEMMA VolumeFields ==
  ASSUME Counts, Shape, pc # "discover", NEW i \in 1 .. Len(partitions),
         partitions[i].volume # "nil"
  PROVE  LET p == partitions[i]
             l == Listed[i]
         IN
         /\ IsPassed(i) /\ p.start = l.start /\ p.table = l.table /\ p.type = l.type
         /\ p.start \in Nat /\ p.tableOffset \in Nat
         /\ p.table # "logical" => p.tableOffset = 0
         /\ \/ /\ IsNTFS(l) /\ p.volume = "ntfs" /\ p.boot = p.start /\ p.raid = 0
            \/ /\ IsMember(l) /\ p.volume = "lvm" /\ p.raid = disk.raids[p.start].data
               /\ p.boot = p.start + disk.raids[p.start].data
               /\ p.DataAreas = DataAreasOf(disk.raids[p.start].descriptors)
  <1>1. PICK p, l : p = partitions[i] /\ l = Listed[i]
    OBVIOUS
  <1>2. /\ l \in Partition /\ Fresh(l) /\ (IsPassed(i) => p = Located(l))
        /\ (~IsPassed(i) => p = l)
    BY <1>1, OnePartition
  <1>3. IsPassed(i) /\ p = Located(l) /\ (IsNTFS(l) \/ IsMember(l))
    <2>1. IsPassed(i)
      BY <1>1, <1>2 DEF Fresh
    <2>2. p = Located(l)
      BY <1>2, <2>1
    <2>3. IsNTFS(l) \/ IsMember(l)
      BY <1>1, <1>2, <2>2, LocatedFields DEF Fresh, Counts
    <2> QED
      BY <2>1, <2>2, <2>3
  <1>4. /\ p.table = l.table /\ p.type = l.type /\ p.start = l.start
        /\ p.tableOffset = l.tableOffset
        /\ IsNTFS(l) => /\ p.volume = "ntfs" /\ p.boot = l.start /\ p.raid = 0
        /\ IsMember(l) => /\ p.volume = "lvm" /\ p.raid = disk.raids[l.start].data
                          /\ p.boot = l.start + disk.raids[l.start].data
                          /\ p.DataAreas = DataAreasOf(disk.raids[l.start].descriptors)
    BY <1>2, <1>3, LocatedFields DEF Counts
  <1>5. /\ p.start \in Nat /\ p.tableOffset \in Nat
        /\ p.table # "logical" => p.tableOffset = 0
    BY <1>2, <1>4 DEF Partition, Fresh
  <1> QED
    BY <1>1, <1>3, <1>4, <1>5

\* One volume after the other is located; everything else leaves the list as it is.
LEMMA ListStep ==
  ASSUME Counts, Shape, Process
  PROVE  Counts' /\ Shape'
  <1>1. UNCHANGED <<disk, partitionNum>> /\ ~failed
    BY DEF Process, DiscoverPartitions, LocateVolume, AllLocated, DiscoverFileSystem,
           GetFileSystemMetadata
  <1>2. Listed' = Listed /\ \A i : IsSelected(i)' <=> IsSelected(i)
    BY <1>1, SameDisk
  <1>3. \A p : Located(p)' = Located(p)
    BY <1>1, SameDisk
  <1>4. disk \in Layouts /\ partitions \in Seq(Partition) /\ Len(partitions) \in Nat
    BY DEF Counts
  <1>5. Listed \in Seq(Partition) /\ Len(Listed) \in Nat
    BY <1>4, ListedFresh
  <1>6. disk' \in Layouts /\ partitionNum' \in Numbers
    BY <1>1 DEF Counts
  <1>7. CASE DiscoverPartitions
    <2>1. partitions' = Listed /\ pc' = "locate" /\ idx' = 1 /\ failed' = failed
      BY <1>7 DEF DiscoverPartitions
    <2>2. Counts'
      BY <1>1, <1>5, <1>6, <2>1 DEF Counts
    <2>3. \A i \in 1 .. Len(Listed) : ~IsPassed(i)'
      BY <2>1 DEF IsPassed
    <2> QED
      BY <1>2, <2>1, <2>2, <2>3 DEF Shape
  <1>8. CASE LocateVolume
    <2>1. /\ pc = "locate" /\ pc' = "locate" /\ idx <= Len(partitions)
          /\ idx \in 1 .. Len(partitions)
      BY <1>8 DEF LocateVolume, Counts
    <2>2. Len(partitions) = Len(Listed) /\ ~IsPassed(idx)
      BY <2>1 DEF Shape, IsPassed
    <2>3. partitions[idx] = Listed[idx] /\ Listed[idx] \in Partition /\ Fresh(Listed[idx])
      BY <2>1, <2>2, OnePartition
    <2>4. CASE IsSelected(idx) /\ HeaderPanics(partitions[idx])
      <3>1. failed' = TRUE /\ UNCHANGED <<partitions, idx>>
        BY <1>8, <2>4 DEF LocateVolume
      <3>2. Counts'
        BY <1>6, <2>1, <3>1 DEF Counts
      <3>3. \A i : IsPassed(i)' <=> IsPassed(i)
        BY <1>2, <2>1, <3>1 DEF IsPassed
      <3> QED
        BY <1>2, <1>3, <2>1, <3>1, <3>2, <3>3 DEF Shape
    <2>5. CASE ~(IsSelected(idx) /\ HeaderPanics(partitions[idx]))
      <3>1. /\ idx' = idx + 1 /\ failed' = failed
            /\ partitions' = IF IsSelected(idx)
                             THEN [partitions EXCEPT ![idx] = Located(partitions[idx])]
                             ELSE partitions
        BY <1>8, <2>5 DEF LocateVolume
      <3>2. PICK q : q = IF IsSelected(idx) THEN Located(Listed[idx]) ELSE Listed[idx]
        OBVIOUS
      <3>3. q \in Partition
        BY <1>4, <2>3, <3>2, LocatedFields
      <3>4. /\ partitions' \in Seq(Partition) /\ Len(partitions') = Len(partitions)
            /\ \A i \in 1 .. Len(partitions) :
                 partitions'[i] = IF i = idx THEN q ELSE partitions[i]
        <4>1. CASE IsSelected(idx)
          <5>1. partitions' = [partitions EXCEPT ![idx] = q]
            BY <2>3, <3>1, <3>2, <4>1
          <5> QED
            BY <1>4, <2>1, <3>3, <5>1
        <4>2. CASE ~IsSelected(idx)
          <5>1. partitions' = partitions /\ q = partitions[idx]
            BY <2>3, <3>1, <3>2, <4>2
          <5> QED
            BY <1>4, <5>1
        <4> QED
          BY <4>1, <4>2
      <3>5. idx' \in 1 .. Len(partitions') + 1
        BY <1>4, <2>1, <3>1, <3>4
      <3>6. Counts'
        BY <1>6, <2>1, <3>1, <3>4, <3>5 DEF Counts
      <3>7. ASSUME NEW i \in 1 .. Len(Listed)
            PROVE  partitions'[i] = IF IsPassed(i)' THEN Located(Listed[i]) ELSE Listed[i]
        <4>1. IsPassed(i)' <=> IsSelected(i) /\ i < idx + 1
          BY <1>2, <2>1, <3>1 DEF IsPassed
        <4>2. CASE i = idx
          BY <2>2, <3>2, <3>4, <4>1, <4>2
        <4>3. CASE i # idx
          <5>1. IsPassed(i)' <=> IsPassed(i)
            BY <1>5, <2>1, <4>1, <4>3 DEF IsPassed
          <5> QED
            BY <2>1, <2>2, <3>4, <4>3, <5>1 DEF Shape
        <4> QED
          BY <4>2, <4>3
      <3> QED
        BY <1>2, <1>3, <2>2, <3>4, <3>6, <3>7 DEF Shape
    <2> QED
      BY <2>4, <2>5
  <1>9. CASE AllLocated \/ DiscoverFileSystem \/ GetFileSystemMetadata
    <2>1. /\ partitions' = partitions /\ pc # "discover" /\ pc' \in {"process", "ready"}
          /\ pc = "locate" => idx > Len(partitions)
      BY <1>9 DEF AllLocated, DiscoverFileSystem, GetFileSystemMetadata
    <2>2. failed' \in BOOLEAN /\ idx' \in 1 .. Len(partitions) + 1
      <3>1. idx \in 1 .. Len(partitions) + 1 /\ failed \in BOOLEAN
        BY DEF Counts
      <3>2. CASE AllLocated
        BY <1>4, <3>1, <3>2 DEF AllLocated
      <3>3. CASE DiscoverFileSystem
        <4>1. idx <= Len(partitions) /\ idx' = idx + 1 /\ (failed' = failed \/ failed' = TRUE)
          BY <3>3 DEF DiscoverFileSystem
        <4>2. failed' \in BOOLEAN
          BY <3>1, <4>1
        <4>3. idx' \in 1 .. Len(partitions) + 1
          BY <1>4, <3>1, <4>1
        <4> QED
          BY <4>2, <4>3
      <3>4. CASE GetFileSystemMetadata
        BY <3>1, <3>4 DEF GetFileSystemMetadata
      <3> QED
        BY <1>9, <3>2, <3>3, <3>4
    <2>3. Counts'
      BY <1>6, <2>1, <2>2 DEF Counts
    <2>4. \A i \in 1 .. Len(Listed) : IsPassed(i)' <=> IsPassed(i)
      <3>1. Len(partitions) = Len(Listed)
        BY <2>1 DEF Shape
      <3>2. idx \in Nat
        BY <1>4 DEF Counts
      <3> QED
        BY <1>2, <1>4, <2>1, <3>1, <3>2 DEF IsPassed
    <2> QED
      BY <1>2, <1>3, <2>1, <2>3, <2>4 DEF Shape
  <1> QED
    BY <1>7, <1>8, <1>9 DEF Process

\* Every volume is read in its turn, or the process ends.
LEMMA ReadsStep ==
  ASSUME Counts, Shape, ReadsSoFar, Process
  PROVE  ReadsSoFar'
  <1>1. UNCHANGED <<disk, partitionNum>> /\ ~failed
    BY DEF Process, DiscoverPartitions, LocateVolume, AllLocated, DiscoverFileSystem,
           GetFileSystemMetadata
  <1>2. /\ \A p : FindsFileSystem(p)' <=> FindsFileSystem(p)
        /\ \A p : GetOffset(p)' = GetOffset(p) /\ FileSystemPlace(p)' = FileSystemPlace(p)
    BY <1>1, SameDisk
  <1>3. partitions \in Seq(Partition) /\ Len(partitions) \in Nat /\ idx \in 1 .. Len(partitions) + 1
    BY DEF Counts
  <1>4. /\ reads \in Seq(FoundUpTo(idx - 1)) /\ (pc \in {"discover", "locate"} => reads = <<>>)
        /\ \A k, l \in 1 .. Len(reads) : k # l => reads[k].idx # reads[l].idx
    BY DEF ReadsSoFar
  <1>5. CASE DiscoverPartitions \/ LocateVolume \/ AllLocated
    <2>1. /\ reads' = reads /\ reads = <<>> /\ pc' \in {"locate", "process"}
          /\ pc' = "process" => idx' = 1
      BY <1>4, <1>5 DEF DiscoverPartitions, LocateVolume, AllLocated
    <2>2. reads' = <<>> /\ Len(reads') = 0
      BY <2>1
    <2>3. pc' = "process" => 1 .. idx' - 1 = {}
      BY <2>1
    <2> QED
      BY <2>1, <2>2, <2>3 DEF ReadsSoFar
  <1>6. CASE DiscoverFileSystem
    <2>1. /\ pc = "process" /\ pc' = "process" /\ idx <= Len(partitions) /\ idx' = idx + 1
          /\ partitions' = partitions
      BY <1>6 DEF DiscoverFileSystem
    <2>2. PICK n \in Nat : n = idx /\ n >= 1 /\ n \in 1 .. Len(partitions)
      BY <1>3, <2>1
    <2>3. \A i : ReadOf(i)' = ReadOf(i)
      BY <1>2, <2>1 DEF ReadOf
    <2>4. PICK U : U = FoundUpTo(n)
      OBVIOUS
    <2>5. FoundUpTo(idx - 1)' = U
      <3>1. idx' - 1 = n
        BY <2>1, <2>2
      <3> QED
        BY <1>2, <2>1, <2>3, <2>4, <3>1 DEF FoundUpTo
    <2>6. FoundUpTo(idx - 1) \subseteq U
      <3>1. 1 .. idx - 1 \subseteq 1 .. n
        BY <2>2
      <3> QED
        BY <2>4, <3>1 DEF FoundUpTo
    <2>7. \A k \in 1 .. Len(reads) : reads[k].idx \in 1 .. n - 1
      <3>1. ASSUME NEW k \in 1 .. Len(reads) PROVE reads[k].idx \in 1 .. n - 1
        <4>1. reads[k] \in FoundUpTo(idx - 1)
          BY <1>4, <3>1, ElementOfSeq
        <4>2. PICK i \in 1 .. idx - 1 : reads[k] = ReadOf(i)
          BY <4>1 DEF FoundUpTo
        <4>3. reads[k].idx = i
          BY <4>2 DEF ReadOf
        <4> QED
          BY <2>2, <4>3
      <3> QED
        BY <3>1
    <2>8. \A i \in 1 .. n - 1 : partitions[i].volume # "nil" =>
            FindsFileSystem(partitions[i]) /\ \E k \in 1 .. Len(reads) : reads[k].idx = i
      BY <1>1, <2>1, <2>2 DEF ReadsSoFar
    <2>9. Len(reads) \in Nat /\ reads \in Seq(U)
      <3>1. \A k \in 1 .. Len(reads) : reads[k] \in U
        BY <1>4, <2>6, ElementOfSeq
      <3> QED
        BY <1>4, <3>1
    <2>10. /\ reads' \in Seq(U) /\ Len(reads') \in Nat /\ Len(reads') >= Len(reads)
           /\ \A k \in 1 .. Len(reads) : reads'[k] = reads[k]
           /\ \A k \in 1 .. Len(reads') : k \notin 1 .. Len(reads) =>
                k = Len(reads) + 1 /\ reads'[k].idx = n
           /\ ~failed' /\ partitions[n].volume # "nil" =>
                /\ FindsFileSystem(partitions[n])
                /\ \E k \in 1 .. Len(reads') : reads'[k].idx = n
      <3>1. CASE partitions[n].volume = "nil" \/ ~FindsFileSystem(partitions[n])
        <4>1. /\ reads' = reads
              /\ failed' \/ partitions[n].volume = "nil"
          BY <1>6, <2>2, <3>1 DEF DiscoverFileSystem, FindsFileSystem
        <4>2. \A k \in 1 .. Len(reads') : k \in 1 .. Len(reads)
          BY <4>1
        <4> QED
          BY <2>9, <4>1, <4>2
      <3>2. CASE partitions[n].volume # "nil" /\ FindsFileSystem(partitions[n])
        <4>1. PICK r : r = ReadOf(n)
          OBVIOUS
        <4>2. reads' = Append(reads, r)
          BY <1>6, <2>2, <3>2, <4>1 DEF DiscoverFileSystem, ReadOf
        <4>3. r \in U /\ r.idx = n
          <5>1. n \in 1 .. n /\ FindsFileSystem(partitions[n])
            BY <2>2, <3>2
          <5>2. r \in U
            BY <2>4, <4>1, <5>1 DEF FoundUpTo
          <5> QED
            BY <4>1, <5>2 DEF ReadOf
        <4>4. /\ reads' \in Seq(U) /\ Len(reads') = Len(reads) + 1
              /\ reads'[Len(reads) + 1] = r
              /\ \A k \in 1 .. Len(reads) : reads'[k] = reads[k]
          BY <2>9, <4>2, <4>3, AppendProperties
        <4>5. Len(reads) + 1 \in 1 .. Len(reads')
          BY <2>9, <4>4
        <4>6. \A k \in 1 .. Len(reads') : k \notin 1 .. Len(reads) => k = Len(reads) + 1
          BY <2>9, <4>4
        <4> QED
          BY <2>9, <3>2, <4>3, <4>4, <4>5, <4>6
      <3> QED
        BY <3>1, <3>2
    <2>11. ASSUME NEW k \in 1 .. Len(reads'), NEW l \in 1 .. Len(reads'), k # l
           PROVE  reads'[k].idx # reads'[l].idx
      <3>1. CASE k \in 1 .. Len(reads) /\ l \in 1 .. Len(reads)
        BY <1>4, <2>10, <2>11, <3>1
      <3>2. CASE k \in 1 .. Len(reads) /\ l \notin 1 .. Len(reads)
        <4>1. reads'[k].idx \in 1 .. n - 1 /\ reads'[l].idx = n
          BY <2>7, <2>10, <3>2
        <4> QED
          BY <2>2, <4>1
      <3>3. CASE k \notin 1 .. Len(reads) /\ l \in 1 .. Len(reads)
        <4>1. reads'[l].idx \in 1 .. n - 1 /\ reads'[k].idx = n
          BY <2>7, <2>10, <3>3
        <4> QED
          BY <2>2, <4>1
      <3>4. CASE k \notin 1 .. Len(reads) /\ l \notin 1 .. Len(reads)
        BY <2>10, <2>11, <3>4
      <3> QED
        BY <3>1, <3>2, <3>3, <3>4
    <2>12. ASSUME ~failed', NEW i \in 1 .. n, partitions[i].volume # "nil"
           PROVE  FindsFileSystem(partitions[i]) /\ \E k \in 1 .. Len(reads') : reads'[k].idx = i
      <3>1. CASE i = n
        BY <2>10, <2>12, <3>1
      <3>2. CASE i # n
        <4>1. i \in 1 .. n - 1
          BY <2>2, <3>2
        <4>2. PICK k \in 1 .. Len(reads) : reads[k].idx = i
          BY <2>8, <2>12, <4>1
        <4>3. k \in 1 .. Len(reads') /\ reads'[k].idx = i
          BY <2>9, <2>10, <4>2
        <4> QED
          BY <2>8, <2>12, <4>1, <4>3
      <3> QED
        BY <3>1, <3>2
    <2>13. idx' - 1 = n
      BY <2>1, <2>2
    <2> QED
      BY <1>2, <2>1, <2>5, <2>10, <2>11, <2>12, <2>13 DEF ReadsSoFar
  <1>7. CASE GetFileSystemMetadata
    <2>1. /\ UNCHANGED <<idx, partitions, reads>> /\ pc = "process" /\ pc' = "ready"
          /\ idx > Len(partitions)
      BY <1>7 DEF GetFileSystemMetadata
    <2>2. idx = Len(partitions) + 1
      BY <1>3, <2>1
    <2>3. \A i : ReadOf(i)' = ReadOf(i)
      BY <1>2, <2>1 DEF ReadOf
    <2>4. FoundUpTo(idx - 1)' = FoundUpTo(idx - 1)
      BY <1>2, <2>1, <2>3 DEF FoundUpTo
    <2> QED
      BY <1>1, <1>2, <1>4, <2>1, <2>2, <2>4 DEF ReadsSoFar
  <1> QED
    BY <1>5, <1>6, <1>7 DEF Process

\* A partition whose turn makes the process panic, and why.
LEMMA PanicStep ==
  ASSUME Counts, Shape, Process
  PROVE  PanicsAreExplained'
  <1> SUFFICES ASSUME failed', \A s \in DOMAIN disk.boots : disk.boots[s].bps = 512,
                      UNCHANGED disk
               PROVE  \E i \in DOMAIN partitions' :
                        LET p == partitions'[i] IN
                        \/ p.table = "logical" /\ p.volume = "ntfs"
                        \/ p.table = "gpt" /\ p.type = "windows" /\ p.start \notin DOMAIN disk.boots
                        \/ IsMember(p) /\ ~disk.raids[p.start].label
    <2>1. UNCHANGED disk
      BY DEF Process, DiscoverPartitions, LocateVolume, AllLocated, DiscoverFileSystem,
             GetFileSystemMetadata
    <2> QED
      BY <2>1 DEF PanicsAreExplained, IsMember
  <1>1. disk \in Layouts /\ idx \in Nat /\ partitions \in Seq(Partition)
    BY DEF Counts
  <1>2. /\ ~failed /\ partitions' = partitions
        /\ \/ LocateVolume /\ HeaderPanics(partitions[idx])
           \/ /\ DiscoverFileSystem /\ partitions[idx].volume # "nil"
              /\ ~FindsFileSystem(partitions[idx])
    BY DEF Process, DiscoverPartitions, LocateVolume, AllLocated, DiscoverFileSystem,
           GetFileSystemMetadata
  <1>3. idx \in 1 .. Len(partitions) /\ idx \in DOMAIN partitions /\ pc # "discover"
    <2>1. idx <= Len(partitions) /\ pc # "discover"
      BY <1>2 DEF LocateVolume, DiscoverFileSystem
    <2> QED
      BY <1>1, <2>1 DEF Counts
  <1>4. PICK p : p = partitions[idx]
    OBVIOUS
  <1>5. CASE HeaderPanics(partitions[idx])
    <2>1. IsMember(p) /\ EndOfAreas(disk.raids[p.start]) > 3584
      BY <1>4, <1>5 DEF HeaderPanics, LabelBytes
    <2>2. IsPhysicalVolume(disk.raids[p.start]) /\ disk.raids[p.start] \in Member
      BY <1>1, <2>1, LayoutFacts DEF IsMember
    <2>3. ~disk.raids[p.start].label
      <3>1. PICK m : m = disk.raids[p.start] /\ m \in Member
        BY <2>2
      <3>2. m.headerSize \in Nat /\ m.areas \in Nat
        BY <3>1 DEF Member
      <3>3. EndOfAreas(m) \in Nat
        BY <3>2 DEF EndOfAreas
      <3> QED
        BY <2>1, <2>2, <3>1, <3>3 DEF IsPhysicalVolume
    <2> QED
      BY <1>2, <1>3, <1>4, <2>1, <2>3
  <1>6. CASE partitions[idx].volume # "nil" /\ ~FindsFileSystem(partitions[idx])
    <2>1. PICK l : l = Listed[idx]
      OBVIOUS
    <2>2. /\ p.start = l.start /\ p.table = l.table /\ p.type = l.type
          /\ p.start \in Nat /\ p.tableOffset \in Nat
          /\ p.table # "logical" => p.tableOffset = 0
          /\ \/ /\ IsNTFS(l) /\ p.volume = "ntfs" /\ p.boot = p.start /\ p.raid = 0
             \/ /\ IsMember(l) /\ p.volume = "lvm" /\ p.raid = disk.raids[p.start].data
                /\ p.boot = p.start + disk.raids[p.start].data
                /\ p.DataAreas = DataAreasOf(disk.raids[p.start].descriptors)
      BY <1>3, <1>4, <1>6, <2>1, VolumeFields
    <2>3. CASE p.volume = "ntfs" /\ p.table # "logical"
      <3>1. IsNTFS(l) /\ p.boot = p.start /\ p.raid = 0 /\ p.tableOffset = 0
        BY <2>2, <2>3
      <3>2. GetOffset(p) = p.start
        BY <2>2, <3>1 DEF GetOffset
      <3>3. p.start \notin DOMAIN disk.boots
        <4> SUFFICES ASSUME p.start \in DOMAIN disk.boots PROVE FALSE
          OBVIOUS
        <4>1. disk.boots[p.start].bps = 512
          OBVIOUS
        <4>2. p.start * 512 = GetOffset(p) * disk.boots[p.boot].bps
          BY <3>1, <3>2, <4>1
        <4>3. FindsMFT(p)
          BY <3>1, <4>2 DEF FindsMFT
        <4> QED
          BY <1>4, <1>6, <2>3, <4>3 DEF FindsFileSystem
      <3>4. p.table = "gpt" /\ p.type = "windows"
        BY <2>2, <3>1, <3>3 DEF IsNTFS, HasBoot
      <3> QED
        BY <1>2, <1>3, <1>4, <3>3, <3>4
    <2>4. CASE p.volume = "ntfs" /\ p.table = "logical"
      BY <1>2, <1>3, <1>4, <2>4
    <2>5. CASE p.volume # "ntfs"
      <3>1. /\ IsMember(p) /\ p.volume = "lvm"
            /\ p.DataAreas = DataAreasOf(disk.raids[p.start].descriptors)
        BY <2>2, <2>5 DEF IsMember
      <3>2. p.DataAreas = <<>>
        BY <1>4, <1>6, <3>1 DEF FindsFileSystem
      <3>3. PICK m : m = disk.raids[p.start]
        OBVIOUS
      <3>4. m \in Member /\ IsTerminated(m) /\ IsPhysicalVolume(m)
        BY <1>1, <3>1, <3>3, LayoutFacts DEF IsMember
      <3>5. m.areas = 0
        <4>1. Len(DataAreasOf(m.descriptors)) = m.areas
          BY <3>4, AreasType
        <4>2. DataAreasOf(m.descriptors) = <<>>
          BY <3>1, <3>2, <3>3
        <4> QED
          BY <4>1, <4>2
      <3>6. ~m.label
        BY <3>4, <3>5 DEF IsPhysicalVolume
      <3> QED
        BY <1>2, <1>3, <1>4, <3>1, <3>3, <3>6
    <2> QED
      BY <2>3, <2>4, <2>5
  <1> QED
    BY <1>2, <1>5, <1>6

-----------------------------------------------------------------------------
(* The volumes that are read.                                              *)

\* A volume that was read: it is one of the list, and it was read from where it begins.
LEMMA ReadFields ==
  ASSUME Counts, Shape, ReadsSoFar, NEW k \in 1 .. Len(reads)
  PROVE  LET i == reads[k].idx
             p == partitions[i]
         IN
         /\ pc # "discover" /\ i \in 1 .. Len(partitions) /\ reads[k] = ReadOf(i)
         /\ FindsFileSystem(p) /\ p.volume # "nil"
         /\ TrueStart(p) + TrueData(p) \in Nat
         /\ reads[k].offset = TrueStart(p) + TrueData(p)
  <1>1. PICK i, p : i = reads[k].idx /\ p = partitions[i]
    OBVIOUS
  <1>2. partitions \in Seq(Partition) /\ Len(partitions) \in Nat /\ idx \in 1 .. Len(partitions) + 1
    BY DEF Counts
  <1>3. pc # "discover"
    BY DEF ReadsSoFar
  <1>4. reads[k] \in FoundUpTo(idx - 1)
    BY ElementOfSeq DEF ReadsSoFar
  <1>5. PICK j \in 1 .. idx - 1 : reads[k] = ReadOf(j) /\ FindsFileSystem(partitions[j])
    BY <1>4 DEF FoundUpTo
  <1>6. j = i
    BY <1>1, <1>5 DEF ReadOf
  <1>7. i \in 1 .. Len(partitions)
    BY <1>2, <1>5, <1>6
  <1>8. FindsFileSystem(p) /\ p.volume # "nil"
    BY <1>1, <1>5, <1>6 DEF FindsFileSystem
  <1>9. PICK l : l = Listed[i]
    OBVIOUS
  <1>10. /\ p.start \in Nat /\ p.tableOffset \in Nat
         /\ \/ IsNTFS(l) /\ p.volume = "ntfs" /\ p.raid = 0
            \/ IsMember(l) /\ p.volume = "lvm" /\ p.raid = disk.raids[p.start].data
         /\ l.start = p.start
    BY <1>1, <1>3, <1>7, <1>8, <1>9, VolumeFields
  <1>11. TrueData(p) \in Nat /\ p.raid = TrueData(p)
    <2>1. CASE p.volume = "ntfs"
      BY <1>10, <2>1 DEF TrueData
    <2>2. CASE p.volume = "lvm"
      <3>1. p.start \in DOMAIN disk.raids /\ p.raid = disk.raids[p.start].data
        BY <1>10, <2>2 DEF IsMember
      <3>2. disk.raids[p.start] \in Member
        BY <3>1, LayoutFacts DEF Counts
      <3> QED
        BY <2>2, <3>1, <3>2 DEF TrueData, Member
    <2> QED
      BY <1>10, <2>1, <2>2
  <1>12. reads[k].offset = p.start + p.tableOffset + p.raid
    BY <1>1, <1>5, <1>6 DEF ReadOf, GetOffset
  <1>13. TrueStart(p) = p.start + p.tableOffset
    BY DEF TrueStart
  <1>14. TrueStart(p) + TrueData(p) \in Nat /\ reads[k].offset = TrueStart(p) + TrueData(p)
    BY <1>10, <1>11, <1>12, <1>13
  <1> QED
    BY <1>1, <1>3, <1>5, <1>6, <1>7, <1>8, <1>14

\* The partition that is read is the one whose boot sector or label was found, but for a
\* logical one, and BTRFS is looked for in the first data area.
LEMMA ReadAtBoot ==
  ASSUME Counts, Shape, ReadsSoFar, NEW k \in 1 .. Len(reads),
         partitions[reads[k].idx].table # "logical"
  PROVE  IsAtBoot(reads[k], partitions[reads[k].idx])
  <1>1. PICK i, p, l : i = reads[k].idx /\ p = partitions[i] /\ l = Listed[i]
    OBVIOUS
  <1>2. /\ pc # "discover" /\ i \in 1 .. Len(partitions) /\ reads[k] = ReadOf(i)
        /\ p.volume # "nil" /\ TrueStart(p) + TrueData(p) \in Nat
        /\ reads[k].offset = TrueStart(p) + TrueData(p)
    BY <1>1, ReadFields
  <1>3. /\ p.start = l.start /\ p.table = l.table /\ p.type = l.type
        /\ p.start \in Nat /\ p.tableOffset = 0
        /\ \/ /\ IsNTFS(l) /\ p.volume = "ntfs" /\ p.boot = p.start /\ p.raid = 0
           \/ /\ IsMember(l) /\ p.volume = "lvm" /\ p.raid = disk.raids[p.start].data
              /\ p.boot = p.start + disk.raids[p.start].data
              /\ p.DataAreas = DataAreasOf(disk.raids[p.start].descriptors)
    BY <1>1, <1>2, VolumeFields
  <1>4. reads[k].boot = p.boot /\ reads[k].at = FileSystemPlace(p) /\ reads[k].offset = GetOffset(p)
    BY <1>1, <1>2 DEF ReadOf
  <1>5. TrueStart(p) + TrueData(p) = p.boot
    <2>1. TrueStart(p) = p.start
      BY <1>3 DEF TrueStart
    <2>2. CASE p.volume = "ntfs"
      <3>1. TrueData(p) = 0 /\ p.boot = p.start
        BY <1>3, <2>2 DEF TrueData
      <3> QED
        BY <1>3, <2>1, <3>1
    <2>3. CASE p.volume = "lvm"
      <3>1. TrueData(p) = disk.raids[p.start].data /\ p.boot = p.start + disk.raids[p.start].data
        BY <1>3, <2>3 DEF TrueData
      <3> QED
        BY <2>1, <3>1
    <2> QED
      BY <1>3, <2>2, <2>3
  <1>6. ASSUME p.volume = "lvm", disk.raids[p.start].label
        PROVE  /\ reads[k].at = reads[k].boot * 512 + disk.raids[p.start].descriptors[1] + 65536
               /\ Len(p.DataAreas) = disk.raids[p.start].areas
    <2>1. PICK m : m = disk.raids[p.start]
      OBVIOUS
    <2>2. m \in Member /\ IsTerminated(m) /\ IsPhysicalVolume(m)
      BY <1>3, <1>6, <2>1, LayoutFacts DEF IsMember, Counts
    <2>3. m.areas > 0
      BY <1>6, <2>1, <2>2 DEF IsPhysicalVolume
    <2>4. /\ Len(DataAreasOf(m.descriptors)) = m.areas
          /\ DataAreasOf(m.descriptors)[1] = m.descriptors[1]
      BY <2>2, <2>3, AreasType
    <2>5. p.DataAreas = DataAreasOf(m.descriptors)
      BY <1>3, <1>6, <2>1
    <2>6. reads[k].at = reads[k].offset * 512 + m.descriptors[1] + 128 * 512
      BY <1>4, <1>6, <2>4, <2>5 DEF FileSystemPlace, SuperblockPlace
    <2>7. reads[k].offset = reads[k].boot
      BY <1>2, <1>4, <1>5
    <2> QED
      BY <2>1, <2>4, <2>5, <2>6, <2>7
  <1>7. reads[k].boot = TrueStart(p) + TrueData(p) /\ reads[k].offset = reads[k].boot
    <2>1. reads[k].boot = p.boot
      BY <1>4
    <2> QED
      BY <1>2, <1>5, <2>1
  <1>8. IsAtBoot(reads[k], p)
    BY <1>6, <1>7, SMT DEF IsAtBoot
  <1> QED
    BY <1>1, <1>8, Zenon

\* What was read is read where its file system begins, and two that begin at different
\* sectors are not read at the same one.
AtTheirBoots(a, b, p, q, distinct) ==
  /\ distinct => a.idx # b.idx
  /\ TrueStart(p) + TrueData(p) # TrueStart(q) + TrueData(q) => a.offset # b.offset
  /\ p.table # "logical" => IsAtBoot(a, p)
LEMMA ReadsAtBoots ==
  ASSUME Counts, Shape, ReadsSoFar
  PROVE  VolumesReadAtTheirBoot
  <1> SUFFICES ASSUME NEW i \in DOMAIN reads, NEW j \in DOMAIN reads
               PROVE  AtTheirBoots(reads[i], reads[j], partitions[reads[i].idx],
                                   partitions[reads[j].idx], i # j)
    BY Zenon DEF VolumesReadAtTheirBoot, AtTheirBoots
  <1>1. i \in 1 .. Len(reads) /\ j \in 1 .. Len(reads)
    BY DEF ReadsSoFar
  <1>2. i # j => reads[i].idx # reads[j].idx
    BY <1>1 DEF ReadsSoFar
  <1>3. PICK p, q : p = partitions[reads[i].idx] /\ q = partitions[reads[j].idx]
    OBVIOUS
  <1>4. reads[i].offset = TrueStart(p) + TrueData(p) /\ reads[j].offset = TrueStart(q) + TrueData(q)
    BY <1>1, <1>3, ReadFields
  <1>5. p.table # "logical" => IsAtBoot(reads[i], p)
    BY <1>1, <1>3, ReadAtBoot, Zenon
  <1>6. AtTheirBoots(reads[i], reads[j], p, q, i # j)
    BY <1>2, <1>4, <1>5, Zenon DEF AtTheirBoots
  <1> QED
    BY <1>3, <1>6, Zenon

\* The primary partitions that are read are the NTFS volumes of the selected ones.
LEMMA ReadsSelected ==
  ASSUME Counts, Shape, ReadsSoFar
  PROVE  SelectedVolumesRead
  <1> SUFFICES ASSUME pc = "ready", ~StartsWithNTFS, ~IsProtective, NEW i \in DOMAIN disk.mbr
               PROVE  (\E k \in DOMAIN reads : reads[k].idx = i) <=>
                        /\ partitionNum \in {None, i}
                        /\ disk.mbr[i].type = "ntfs"
                        /\ disk.mbr[i].start \in DOMAIN disk.boots
    BY DEF SelectedVolumesRead
  <1>1. disk.mbr \in Seq(Entry) /\ i \in 1 .. Len(disk.mbr) /\ DOMAIN reads = 1 .. Len(reads)
    BY LayoutFacts DEF Counts, ReadsSoFar
  <1>2. PICK p, l : p = partitions[i] /\ l = Listed[i]
    OBVIOUS
  <1>3. i \in 1 .. Len(Listed) /\ l = P("primary", disk.mbr[i], 0)
    BY <1>1, <1>2, ListedFresh DEF Counts
  <1>4. Len(partitions) = Len(Listed) /\ i \in 1 .. Len(partitions) /\ pc # "discover"
    BY <1>3 DEF Shape
  <1>5. /\ l.table = "primary" /\ l.type = disk.mbr[i].type /\ l.start = disk.mbr[i].start
    BY <1>3 DEF P
  <1>6. ~IsMember(l) /\ (IsNTFS(l) <=> disk.mbr[i].type = "ntfs" /\ disk.mbr[i].start \in DOMAIN disk.boots)
    BY <1>5 DEF IsMember, IsNTFS, HasBoot
  <1>7. IsPassed(i) <=> partitionNum \in {None, i}
    BY DEF IsPassed, IsSelected
  <1>8. ASSUME NEW k \in DOMAIN reads, reads[k].idx = i
        PROVE  IsPassed(i) /\ IsNTFS(l)
    <2>1. p.volume # "nil"
      BY <1>1, <1>2, <1>8, ReadFields
    <2> QED
      BY <1>2, <1>4, <1>6, <2>1, VolumeFields
  <1>9. ASSUME IsPassed(i), IsNTFS(l)
        PROVE  \E k \in DOMAIN reads : reads[k].idx = i
    <2>1. p = Located(l) /\ l \in Partition /\ Fresh(l)
      BY <1>2, <1>4, <1>9, OnePartition
    <2>2. p.volume = "ntfs"
      BY <1>9, <2>1, LocatedFields DEF Counts
    <2>3. i \in 1 .. idx - 1
      <3>1. Len(partitions) \in Nat /\ idx = Len(partitions) + 1
        BY DEF Counts, ReadsSoFar
      <3> QED
        BY <1>4, <3>1
    <2> QED
      BY <1>1, <1>2, <2>2, <2>3 DEF ReadsSoFar
  <1> QED
    BY <1>6, <1>7, <1>8, <1>9

-----------------------------------------------------------------------------
(* The export of unallocated clusters.                                     *)

\* Nothing is collected before the disk has been processed.
Idle ==
  /\ epc \in {"start", "recv", "write", "done"} /\ cpc \in {"start", "volume", "collect", "done"}
  /\ writable \in BOOLEAN /\ closed \in BOOLEAN
  /\ pc # "ready" => epc = "start"
  /\ epc = "start" <=> cpc = "start"
  /\ epc = "start" => vol = 1 /\ ~closed

\* A volume is collected once a file system has been found on it.
Collecting ==
  /\ vol \in 1 .. Len(partitions) + 1
  /\ cpc = "collect" =>
       /\ vol <= Len(partitions) /\ partitions[vol].volume = "ntfs"
       /\ blockSize \in 1 .. ci - 1 /\ ci \in 1 .. Len(Clusters) + 1

\* The channel is closed by the first NTFS volume, and there is no second one yet.
NTFSBefore(v) == {i \in 1 .. v - 1 : partitions[i].volume = "ntfs"}
Closing ==
  /\ closed <=> NTFSBefore(vol) # {}
  /\ \A i, j \in NTFSBefore(vol) : i = j
  /\ epc = "done" => closed
  /\ cpc = "done" => vol = Len(partitions) + 1

\* A loop over a sequence meets the indices of a set in order.
LEMMA PositionsInOrder ==
  ASSUME NEW B, NEW seq \in Seq(B), NEW set \in SUBSET (1 .. Len(seq))
  PROVE  Enumerates(Positions(seq, set), set)
  <1>1. PICK n \in Nat : n = Len(seq) /\ DOMAIN seq = 1 .. n
    BY LenProperties
  <1>2. PICK s : s = [i \in 1 .. n |-> IF i \in set THEN <<i>> ELSE <<>>]
    OBVIOUS
  <1>3. Positions(seq, set) = FlattenSeq(s)
    BY <1>1, <1>2 DEF Positions
  <1>4. Enumerates(FlattenSeq(s), set)
    BY <1>1, <1>2, IndicesInOrder
  <1> QED
    BY <1>3, <1>4

\* The boot sector a volume was located by, and the bitmap that was read for it.
Boot(v) == disk.boots[partitions[v].boot]
Bits(v) == MFTVolume(partitions[v]).mftBitmap

\* The unallocated clusters of a NTFS volume are the free bits of the bitmap, in order.
LEMMA ClustersInOrder ==
  ASSUME Counts, Shape, ReadsSoFar, pc = "ready", NEW v \in 1 .. Len(partitions),
         partitions[v].volume = "ntfs"
  PROVE  LET free == {i \in 1 .. Len(Bits(v)) : ~Bits(v)[i]} IN
         /\ Boot(v).bps \in Nat /\ Boot(v).spc \in Nat
         /\ Bits(v) \in Seq(BOOLEAN) /\ DOMAIN Bits(v) = 1 .. Len(Bits(v))
         /\ v = vol => Volume = Boot(v) /\ Enumerates(Clusters, free)
  <1>1. PICK b, bits : b = disk.boots[partitions[v].boot] /\ bits = Bits(v)
    OBVIOUS
  <1>2. v \in 1 .. idx - 1
    BY DEF Counts, ReadsSoFar
  <1>3. FindsFileSystem(partitions[v])
    BY <1>2 DEF ReadsSoFar
  <1>4. partitions[v].boot \in DOMAIN disk.boots
    BY <1>3 DEF FindsFileSystem, FindsMFT
  <1>5. b.bps \in Nat /\ b.spc \in Nat /\ bits \in Seq(BOOLEAN)
    <2>1. PICK here : here = GetOffset(partitions[v]) * b.bps
      OBVIOUS
    <2>2. PICK s \in DOMAIN disk.boots : s * 512 = here
      BY <1>1, <1>3, <2>1 DEF FindsFileSystem, FindsMFT
    <2>3. here \div 512 = s
      <3>1. s \in Nat
        BY LayoutFacts DEF Counts
      <3> QED
        BY <2>2, <3>1
    <2>4. bits = disk.boots[s].mftBitmap
      BY <1>1, <2>1, <2>3 DEF Bits, MFTVolume
    <2> QED
      BY <1>1, <1>4, <2>4, LayoutFacts DEF Counts
  <1>6. DOMAIN bits = 1 .. Len(bits)
    BY <1>5
  <1> DEFINE free == {i \in 1 .. Len(bits) : ~bits[i]}
  <1>7. ASSUME v = vol PROVE Volume = b /\ Enumerates(Clusters, free)
    <2>1. Volume = b /\ Found.mftBitmap = bits
      BY <1>1, <1>7 DEF Volume, Found, Bits
    <2>2. Clusters = Positions(bits, free)
      BY <1>6, <2>1 DEF Clusters, GetUnallocatedClusters
    <2>3. free \in SUBSET (1 .. Len(bits))
      OBVIOUS
    <2> HIDE DEF free
    <2> QED
      BY <1>5, <2>1, <2>2, <2>3, PositionsInOrder
  <1> QED
    BY <1>1, <1>5, <1>6, <1>7 DEF Boot

\* The disk as Process has left it.
DiskUnchanged ==
  /\ UNCHANGED <<disk, partitionNum, pc, idx, partitions, reads>>
  /\ failed' = failed \/ failed' = TRUE

LEMMA DiskKept ==
  ASSUME Counts, Shape, ReadsSoFar, DiskUnchanged, pc = "ready"
  PROVE  Counts' /\ Shape' /\ ReadsSoFar'
  <1>1. UNCHANGED <<disk, partitionNum, pc, idx, partitions, reads>> /\ UNCHANGED <<disk, partitionNum>>
    BY DEF DiskUnchanged
  <1>2. Counts'
    BY <1>1 DEF Counts, DiskUnchanged
  <1>3. Listed' = Listed /\ (\A i : IsSelected(i)' <=> IsSelected(i)) /\ \A p : Located(p)' = Located(p)
    BY <1>1, SameDisk
  <1>4. Shape'
    BY <1>1, <1>3 DEF Shape, IsPassed
  <1>5. /\ \A p : FindsFileSystem(p)' <=> FindsFileSystem(p)
        /\ \A p : GetOffset(p)' = GetOffset(p) /\ FileSystemPlace(p)' = FileSystemPlace(p)
    BY <1>1, SameDisk
  <1>6. \A i : ReadOf(i)' = ReadOf(i)
    BY <1>1, <1>5 DEF ReadOf
  <1>7. FoundUpTo(idx - 1)' = FoundUpTo(idx - 1)
    BY <1>1, <1>5, <1>6 DEF FoundUpTo
  <1>8. ReadsSoFar'
    BY <1>1, <1>5, <1>7 DEF ReadsSoFar
  <1> QED
    BY <1>2, <1>4, <1>8

\* What the collector counts does not change without a step of it.
LEMMA SameVolume ==
  ASSUME UNCHANGED <<disk, partitions, vol>>
  PROVE  /\ Volume' = Volume /\ Clusters' = Clusters
         /\ \A v : NTFSBefore(v)' = NTFSBefore(v)
  <1>1. Found' = Found
    BY DEF Found, MFTVolume, GetOffset
  <1> QED
    BY <1>1 DEF Volume, Clusters, GetUnallocatedClusters, NTFSBefore

\* The inductive invariant.
IInv ==
  /\ Counts /\ Shape /\ ReadsSoFar /\ PanicsAreExplained
  /\ Idle /\ Collecting /\ Closing

\* Nothing is known of a disk, and nothing is collected, at the beginning.
LEMMA InitHolds ==
  ASSUME UInit
  PROVE  IInv
  <1>1. /\ disk \in Layouts /\ partitionNum \in Numbers /\ failed = FALSE /\ pc = "discover"
        /\ partitions = <<>> /\ reads = <<>> /\ idx = 1 /\ Len(partitions) = 0 /\ Len(reads) = 0
    BY DEF UInit, Init
  <1>2. Counts
    <2>1. partitions \in Seq(Partition) /\ idx \in 1 .. Len(partitions) + 1
      BY <1>1
    <2>2. failed \in BOOLEAN
      BY <1>1
    <2> QED
      BY <1>1, <2>1, <2>2 DEF Counts
  <1>3. Shape /\ PanicsAreExplained
    BY <1>1 DEF Shape, PanicsAreExplained
  <1>4. ReadsSoFar
    BY <1>1 DEF ReadsSoFar
  <1>5. Idle
    BY DEF UInit, Idle
  <1>6. Collecting
    BY <1>1 DEF UInit, Collecting
  <1>7. Closing
    <2>1. NTFSBefore(vol) = {}
      BY <1>1 DEF UInit, NTFSBefore
    <2> QED
      BY <2>1 DEF UInit, Closing
  <1> QED
    BY <1>2, <1>3, <1>4, <1>5, <1>6, <1>7 DEF IInv

\* Disk.Process, while nothing is collected.
LEMMA ProcessKeeps ==
  ASSUME IInv, Disk
  PROVE  IInv'
  <1>1. Process /\ UNCHANGED <<writable, epc, block, file, cpc, vol, ci, blockSize, buf, closed>>
    BY DEF Disk, uvars
  <1>2. Counts' /\ Shape' /\ ReadsSoFar' /\ PanicsAreExplained'
    BY <1>1, ListStep, ReadsStep, PanicStep DEF IInv
  <1>3. pc # "ready"
    BY <1>1 DEF Process, DiscoverPartitions, LocateVolume, AllLocated, DiscoverFileSystem,
                GetFileSystemMetadata
  <1>4. epc = "start" /\ cpc = "start" /\ vol = 1 /\ closed = FALSE
    BY <1>3 DEF IInv, Idle
  <1>5. Idle'
    BY <1>1, <1>4 DEF IInv, Idle
  <1>6. Collecting'
    <2>1. Len(partitions') \in Nat
      BY <1>2 DEF Counts
    <2> QED
      BY <1>1, <1>4, <2>1 DEF Collecting
  <1>7. Closing'
    <2>1. NTFSBefore(vol)' = {}
      BY <1>1, <1>4 DEF NTFSBefore
    <2> QED
      BY <1>1, <1>4, <2>1 DEF Closing
  <1> QED
    BY <1>2, <1>5, <1>6, <1>7 DEF IInv

\* main, which receives the blocks and writes them.
LEMMA ExportKeeps ==
  ASSUME IInv, ExportUnallocated
  PROVE  IInv'
  <1>1. /\ UNCHANGED <<disk, partitionNum, pc, idx, partitions, reads, failed>>
        /\ UNCHANGED <<writable, vol, ci, blockSize, closed>>
        /\ pc = "ready"
    BY DEF ExportUnallocated, StartCollector, WriteFile, BlocksEnd, vars, IInv, Idle
  <1>2. Counts' /\ Shape' /\ ReadsSoFar' /\ PanicsAreExplained'
    <2>1. DiskUnchanged
      BY <1>1 DEF DiskUnchanged
    <2>2. PanicsAreExplained'
      BY <1>1 DEF PanicsAreExplained
    <2> QED
      BY <1>1, <2>1, <2>2, DiskKept DEF IInv
  <1>3. Volume' = Volume /\ Clusters' = Clusters /\ NTFSBefore(vol)' = NTFSBefore(vol)
    <2>1. \A v : NTFSBefore(v)' = NTFSBefore(v)
      BY <1>1, SameVolume
    <2> QED
      BY <1>1, <2>1, SameVolume
  <1>4. /\ epc' \in {"recv", "done"} /\ cpc' \in {"volume", "collect", "done"}
        /\ cpc' # "volume" => cpc' = cpc
        /\ epc' = "done" => closed
    BY DEF ExportUnallocated, StartCollector, WriteFile, BlocksEnd, AfterWrite, IInv, Idle
  <1>5. Idle'
    BY <1>1, <1>4 DEF IInv, Idle
  <1>6. Collecting'
    BY <1>1, <1>3, <1>4 DEF IInv, Collecting
  <1>7. Closing'
    BY <1>1, <1>3, <1>4 DEF IInv, Closing
  <1> QED
    BY <1>2, <1>5, <1>6, <1>7 DEF IInv

\* The index of the next volume: the NTFS volumes before it.
LEMMA NextVolume ==
  ASSUME NEW v \in Nat \ {0}
  PROVE  /\ partitions[v].volume # "ntfs" => NTFSBefore(v + 1) = NTFSBefore(v)
         /\ partitions[v].volume = "ntfs" => NTFSBefore(v + 1) = NTFSBefore(v) \union {v}
  <1>1. \A i : i \in 1 .. v + 1 - 1 <=> i \in 1 .. v - 1 \/ i = v
    OBVIOUS
  <1> QED
    BY <1>1 DEF NTFSBefore

\* CollectedUnallocated, volume by volume.
LEMMA CollectKeeps ==
  ASSUME IInv, CollectUnallocated
  PROVE  IInv'
  <1>1. /\ UNCHANGED <<disk, partitionNum, pc, idx, partitions, reads>>
        /\ failed' = failed \/ failed' = TRUE
        /\ UNCHANGED writable
    BY DEF CollectUnallocated, OpenVolume, GrowBlock, SendBlock, CloseBlocks, CollectorReturns, vars
  <1>2. cpc \in {"volume", "collect"} /\ pc = "ready" /\ epc # "start"
    BY DEF CollectUnallocated, OpenVolume, GrowBlock, SendBlock, CloseBlocks, CollectorReturns,
           IInv, Idle
  <1>3. Counts' /\ Shape' /\ ReadsSoFar' /\ PanicsAreExplained'
    <2>1. DiskUnchanged
      BY <1>1 DEF DiskUnchanged
    <2>2. PanicsAreExplained'
      BY <1>1, <1>2 DEF PanicsAreExplained
    <2> QED
      BY <1>2, <2>1, <2>2, DiskKept DEF IInv
  <1>4. PICK n \in Nat : n = Len(partitions) /\ vol \in 1 .. n + 1 /\ Len(partitions') = n
    BY <1>1 DEF IInv, Counts, Collecting
  <1>5. CASE OpenVolume
    <2>1. /\ cpc = "volume" /\ vol <= n /\ vol \in 1 .. n /\ UNCHANGED <<epc, closed>>
      BY <1>4, <1>5 DEF OpenVolume
    <2>2. CASE partitions[vol].volume \in {"nil", "lvm"}
      <3>1. vol' = vol + 1 /\ cpc' = "volume"
        BY <1>5, <2>1, <2>2 DEF OpenVolume
      <3>2. NTFSBefore(vol)' = NTFSBefore(vol)
        <4>1. NTFSBefore(vol + 1) = NTFSBefore(vol)
          BY <2>1, <2>2, NextVolume
        <4> QED
          BY <1>1, <3>1, <4>1 DEF NTFSBefore
      <3>3. vol' \in 1 .. Len(partitions') + 1
        BY <1>4, <2>1, <3>1
      <3>4. Idle' /\ Collecting' /\ Closing'
        <4>1. Idle'
          BY <1>1, <1>2, <2>1, <3>1 DEF IInv, Idle
        <4>2. Collecting'
          BY <3>1, <3>3 DEF Collecting
        <4>3. Closing'
          BY <2>1, <3>1, <3>2 DEF IInv, Closing
        <4> QED
          BY <4>1, <4>2, <4>3
      <3> QED
        BY <1>3, <3>4 DEF IInv
    <2>3. CASE partitions[vol].volume = "ntfs" /\ (~HasBitmap \/ Clusters = <<>>)
      <3>1. UNCHANGED <<cpc, vol, ci, blockSize>>
        BY <1>5, <2>3 DEF OpenVolume
      <3>2. NTFSBefore(vol)' = NTFSBefore(vol)
        BY <1>1, <3>1 DEF NTFSBefore
      <3>3. Idle'
        BY <1>1, <2>1, <3>1 DEF IInv, Idle
      <3>4. Collecting'
        BY <1>1, <2>1, <3>1 DEF IInv, Collecting
      <3>5. Closing'
        BY <1>1, <2>1, <3>1, <3>2 DEF IInv, Closing
      <3> QED
        BY <1>3, <3>3, <3>4, <3>5 DEF IInv
    <2>4. CASE partitions[vol].volume = "ntfs" /\ HasBitmap /\ Clusters # <<>>
      <3>1. cpc' = "collect" /\ ci' = 2 /\ blockSize' = 1 /\ vol' = vol
        BY <1>5, <2>4 DEF OpenVolume, FirstIndex
      <3>2. NTFSBefore(vol)' = NTFSBefore(vol) /\ Clusters' = Clusters
        <4>1. \A v : NTFSBefore(v)' = NTFSBefore(v)
          BY <1>1, <3>1, SameVolume
        <4> QED
          BY <1>1, <3>1, <4>1, SameVolume
      <3>3. Len(Clusters) \in Nat /\ Len(Clusters) >= 1
        <4>1. PICK U : Enumerates(Clusters, U)
          BY <1>2, <1>4, <2>1, <2>4, ClustersInOrder DEF IInv
        <4>2. Clusters \in Seq(U)
          BY <4>1 DEF Enumerates
        <4>3. Len(Clusters) # 0
          BY <2>4, <4>2, EmptySeq
        <4>4. Len(Clusters) \in Nat
          BY <4>2
        <4> QED
          BY <4>3, <4>4
      <3>4. Idle'
        BY <1>1, <1>2, <2>1, <3>1 DEF IInv, Idle
      <3>5. Collecting'
        <4>1. blockSize' \in 1 .. ci' - 1 /\ ci' \in 1 .. Len(Clusters') + 1
          BY <3>1, <3>2, <3>3
        <4> QED
          BY <1>1, <1>4, <2>1, <2>4, <3>1, <4>1 DEF Collecting
      <3>6. Closing'
        BY <1>1, <2>1, <3>1, <3>2 DEF IInv, Closing
      <3> QED
        BY <1>3, <3>4, <3>5, <3>6 DEF IInv
    <2> QED
      BY <1>5, <2>2, <2>3, <2>4 DEF OpenVolume
  <1>6. CASE GrowBlock \/ SendBlock
    <2>1. /\ cpc = "collect" /\ ci <= Len(Clusters) /\ ci' = ci + 1
          /\ UNCHANGED <<cpc, vol, closed>>
          /\ blockSize' = blockSize + 1 \/ blockSize' = 1
          /\ epc' = epc \/ (epc' = "write" /\ epc = "recv")
      <3>1. CASE GrowBlock
        BY <3>1 DEF GrowBlock
      <3>2. CASE SendBlock
        <4>1. epc' = epc \/ (epc' = "write" /\ epc = "recv")
          BY <3>2 DEF SendBlock
        <4> QED
          BY <3>2, <4>1 DEF SendBlock
      <3> QED
        BY <1>6, <3>1, <3>2
    <2>2. vol <= n /\ partitions[vol].volume = "ntfs" /\ vol \in 1 .. n
      BY <1>4, <2>1 DEF IInv, Collecting
    <2>3. Len(Clusters) \in Nat
      <3>1. PICK U : Enumerates(Clusters, U)
        BY <1>2, <1>4, <2>2, ClustersInOrder DEF IInv
      <3>2. Clusters \in Seq(U)
        BY <3>1 DEF Enumerates
      <3> QED
        BY <3>2
    <2>4. NTFSBefore(vol)' = NTFSBefore(vol) /\ Clusters' = Clusters
      <3>1. \A v : NTFSBefore(v)' = NTFSBefore(v)
        BY <1>1, <2>1, SameVolume
      <3> QED
        BY <1>1, <2>1, <3>1, SameVolume
    <2>5. blockSize' \in 1 .. ci' - 1 /\ ci' \in 1 .. Len(Clusters') + 1
      <3>1. blockSize \in 1 .. ci - 1 /\ ci \in 1 .. Len(Clusters) + 1
        BY <2>1 DEF IInv, Collecting
      <3> QED
        BY <2>1, <2>3, <2>4, <3>1
    <2>6. Idle'
      BY <1>1, <1>2, <2>1 DEF IInv, Idle
    <2>7. Collecting'
      BY <1>1, <1>4, <2>1, <2>2, <2>5 DEF Collecting
    <2>8. Closing'
      BY <1>1, <2>1, <2>4 DEF IInv, Closing
    <2> QED
      BY <1>3, <2>6, <2>7, <2>8 DEF IInv
  <1>7. CASE CloseBlocks
    <2>1. cpc = "collect" /\ UNCHANGED <<epc, ci, blockSize>>
      BY <1>7 DEF CloseBlocks
    <2>2. vol <= n /\ partitions[vol].volume = "ntfs" /\ vol \in 1 .. n
      BY <1>4, <2>1 DEF IInv, Collecting
    <2>3. CASE closed
      <3>1. UNCHANGED <<closed, cpc, vol>>
        BY <1>7, <2>3 DEF CloseBlocks, ClosesTwice
      <3>2. NTFSBefore(vol)' = NTFSBefore(vol) /\ Clusters' = Clusters
        <4>1. \A v : NTFSBefore(v)' = NTFSBefore(v)
          BY <1>1, <3>1, SameVolume
        <4> QED
          BY <1>1, <3>1, <4>1, SameVolume
      <3>3. Idle'
        BY <1>1, <2>1, <3>1 DEF IInv, Idle
      <3>4. Collecting'
        BY <1>1, <2>1, <3>1, <3>2 DEF IInv, Collecting
      <3>5. Closing'
        BY <1>1, <2>1, <3>1, <3>2 DEF IInv, Closing
      <3> QED
        BY <1>3, <3>3, <3>4, <3>5 DEF IInv
    <2>4. CASE ~closed
      <3>1. closed' = TRUE /\ cpc' = "volume" /\ vol' = vol + 1
        BY <1>7, <2>4 DEF CloseBlocks, ClosesTwice
      <3>2. NTFSBefore(vol)' = {vol}
        <4>1. NTFSBefore(vol) = {}
          BY <2>4 DEF IInv, Closing
        <4>2. NTFSBefore(vol + 1) = NTFSBefore(vol) \union {vol}
          BY <2>2, NextVolume
        <4>3. NTFSBefore(vol)' = NTFSBefore(vol + 1)
          BY <1>1, <3>1 DEF NTFSBefore
        <4> QED
          BY <4>1, <4>2, <4>3
      <3>3. vol' \in 1 .. Len(partitions') + 1
        BY <1>4, <2>2, <3>1
      <3>4. Idle'
        BY <1>1, <1>2, <2>1, <3>1 DEF IInv, Idle
      <3>5. Collecting'
        BY <3>1, <3>3 DEF Collecting
      <3>6. Closing'
        BY <3>1, <3>2 DEF Closing
      <3> QED
        BY <1>3, <3>4, <3>5, <3>6 DEF IInv
    <2> QED
      BY <2>3, <2>4 DEF IInv, Idle
  <1>8. CASE CollectorReturns
    <2>1. cpc' = "done" /\ vol > n /\ UNCHANGED <<epc, vol, closed>>
      BY <1>4, <1>8 DEF CollectorReturns
    <2>2. NTFSBefore(vol)' = NTFSBefore(vol)
      BY <1>1, <2>1 DEF NTFSBefore
    <2>3. vol' = Len(partitions') + 1 /\ vol' \in 1 .. Len(partitions') + 1
      BY <1>4, <2>1
    <2>4. Idle'
      BY <1>1, <1>2, <2>1 DEF IInv, Idle
    <2>5. Collecting'
      BY <2>1, <2>3 DEF Collecting
    <2>6. Closing'
      BY <2>1, <2>2, <2>3 DEF IInv, Closing
    <2> QED
      BY <1>3, <2>4, <2>5, <2>6 DEF IInv
  <1> QED
    BY <1>5, <1>6, <1>7, <1>8 DEF CollectUnallocated

\* The runtime ends a program that waits for ever; otherwise nothing changes.
LEMMA RestKeeps ==
  ASSUME IInv, AllAsleep \/ UNCHANGED allVars
  PROVE  IInv'
  <1>1. /\ UNCHANGED <<disk, partitionNum, pc, idx, partitions, reads>>
        /\ UNCHANGED <<writable, epc, cpc, vol, ci, blockSize, closed>>
    BY DEF AllAsleep, allVars, vars, uvars
  <1>2. Counts' /\ Shape' /\ ReadsSoFar' /\ PanicsAreExplained'
    <2>1. CASE AllAsleep
      <3>1. pc = "ready" /\ failed' = TRUE
        BY <2>1 DEF AllAsleep, IInv, Idle
      <3>2. DiskUnchanged
        BY <1>1, <3>1 DEF DiskUnchanged
      <3>3. PanicsAreExplained'
        BY <1>1, <3>1 DEF PanicsAreExplained
      <3> QED
        BY <3>1, <3>2, <3>3, DiskKept DEF IInv
    <2>2. CASE UNCHANGED allVars
      <3>1. UNCHANGED vars /\ UNCHANGED <<disk, partitionNum>>
        BY <2>2 DEF allVars, vars
      <3>2. Listed' = Listed /\ (\A i : IsSelected(i)' <=> IsSelected(i)) /\ \A p : Located(p)' = Located(p)
        BY <3>1, SameDisk
      <3>3. /\ \A p : FindsFileSystem(p)' <=> FindsFileSystem(p)
            /\ \A p : GetOffset(p)' = GetOffset(p) /\ FileSystemPlace(p)' = FileSystemPlace(p)
        BY <3>1, SameDisk
      <3>4. \A i : ReadOf(i)' = ReadOf(i)
        BY <3>1, <3>3 DEF ReadOf, vars
      <3>5. FoundUpTo(idx - 1)' = FoundUpTo(idx - 1)
        BY <3>1, <3>3, <3>4 DEF FoundUpTo, vars
      <3>6. Counts' /\ PanicsAreExplained'
        BY <3>1 DEF IInv, Counts, PanicsAreExplained, IsMember, vars
      <3>7. Shape'
        BY <3>1, <3>2 DEF IInv, Shape, IsPassed, vars
      <3>8. ReadsSoFar'
        BY <3>1, <3>3, <3>5 DEF IInv, ReadsSoFar, vars
      <3> QED
        BY <3>6, <3>7, <3>8
    <2> QED
      BY <2>1, <2>2
  <1>3. NTFSBefore(vol)' = NTFSBefore(vol) /\ Clusters' = Clusters
    <2>1. \A v : NTFSBefore(v)' = NTFSBefore(v)
      BY <1>1, SameVolume
    <2> QED
      BY <1>1, <2>1, SameVolume
  <1>4. Idle'
    BY <1>1 DEF IInv, Idle
  <1>5. Collecting'
    BY <1>1, <1>3 DEF IInv, Collecting
  <1>6. Closing'
    BY <1>1, <1>3 DEF IInv, Closing
  <1> QED
    BY <1>2, <1>4, <1>5, <1>6 DEF IInv

\* Every step keeps the invariant.
LEMMA StepHolds ==
  ASSUME IInv, [UNext]_allVars
  PROVE  IInv'
  <1>1. CASE Disk
    BY <1>1, ProcessKeeps
  <1>2. CASE ExportUnallocated
    BY <1>2, ExportKeeps
  <1>3. CASE CollectUnallocated
    BY <1>3, CollectKeeps
  <1>4. CASE AllAsleep \/ UNCHANGED allVars
    BY <1>4, RestKeeps
  <1> QED
    BY <1>1, <1>2, <1>3, <1>4 DEF UNext, Main, Collector, Runtime, Ended

\* All the invariants below follow from the inductive one.
LEMMA Invariant == USpec => []IInv
  <1>1. UInit => IInv
    BY InitHolds
  <1>2. IInv /\ [UNext]_allVars => IInv'
    BY StepHolds
  <1> QED
    BY <1>1, <1>2, PTL DEF USpec

-----------------------------------------------------------------------------
(* The theorems.                                                           *)

\* Type correctness: partitions and volumes keep their types, no partition has a volume
\* before its turn, and the collector never counts more clusters than it has seen.
THEOREM TypeCorrect == USpec => []TypeOK
  <1>1. IInv => TypeOK
    <2> SUFFICES ASSUME IInv PROVE TypeOK
      OBVIOUS
    <2>1. /\ Counts /\ Shape /\ Idle /\ Collecting
          /\ partitions \in Seq(Partition) /\ DOMAIN partitions = 1 .. Len(partitions)
      BY DEF IInv, Counts
    <2>2. ASSUME NEW i \in DOMAIN partitions
          PROVE  /\ partitions[i].table \in Tables /\ partitions[i].volume \in Volumes
                 /\ partitions[i].DataAreas \in Seq(Nat)
                 /\ pc = "locate" /\ i >= idx => partitions[i].volume = "nil"
      <3>1. partitions[i] \in Partition
        BY <2>1, <2>2, ElementOfSeq
      <3>2. ASSUME pc = "locate", i >= idx PROVE partitions[i].volume = "nil"
        <4>1. ~IsPassed(i)
          BY <2>1, <3>2 DEF IsPassed, Counts
        <4> QED
          BY <2>1, <2>2, <3>2, <4>1, OnePartition DEF Fresh
      <3>3. /\ partitions[i].table \in Tables /\ partitions[i].volume \in Volumes
            /\ partitions[i].DataAreas \in Seq(Nat)
        BY <3>1 DEF Partition
      <3> QED
        BY <3>2, <3>3
    <2>3. PartitionsOK
      BY <2>1, <2>2 DEF PartitionsOK, Counts
    <2>4. cpc = "collect" => blockSize \in 1 .. ci - 1 /\ ci <= Len(Clusters) + 1
      <3> SUFFICES ASSUME cpc = "collect"
                   PROVE  blockSize \in 1 .. ci - 1 /\ ci <= Len(Clusters) + 1
        OBVIOUS
      <3>1. blockSize \in 1 .. ci - 1 /\ ci \in 1 .. Len(Clusters) + 1
        BY <2>1 DEF Collecting
      <3> QED
        BY <3>1
    <2> QED
      BY <2>1, <2>3, <2>4 DEF TypeOK, Idle, Collecting
  <1> QED
    BY <1>1, Invariant, PTL

\* Every volume is read once, from where its file system begins: a partition but a logical
\* one with the boot sector or the label that was found there, and BTRFS from the first data
\* area of the physical volume.
THEOREM ReadsAtTheirBoot == USpec => []VolumesReadAtTheirBoot
  <1>1. IInv => VolumesReadAtTheirBoot
    BY ReadsAtBoots DEF IInv
  <1> QED
    BY <1>1, Invariant, PTL

\* On a MBR disk exactly the NTFS volumes of the selected primary partitions have been read
\* when Process returns.
THEOREM SelectedAreRead == USpec => []SelectedVolumesRead
  <1>1. IInv => SelectedVolumesRead
    BY ReadsSelected DEF IInv
  <1> QED
    BY <1>1, Invariant, PTL

\* Nothing but a logical partition, a Windows partition of a GPT without a NTFS boot sector
\* or a RAID member without a label of LVM makes Process panic.
THEOREM PanicsExplained == USpec => []PanicsAreExplained
  <1>1. IInv => PanicsAreExplained
    BY DEF IInv
  <1> QED
    BY <1>1, Invariant, PTL

\* The NTFS volumes of the disk, and those before the current partition.
LEMMA VolumesInOrder ==
  ASSUME IInv
  PROVE  Enumerates(NTFSVolumes, {i \in 1 .. Len(partitions) : partitions[i].volume = "ntfs"})
  <1>1. partitions \in Seq(Partition) /\ DOMAIN partitions = 1 .. Len(partitions)
    BY DEF IInv, Counts
  <1>2. PICK U : U = {i \in 1 .. Len(partitions) : partitions[i].volume = "ntfs"}
    OBVIOUS
  <1>3. NTFSVolumes = Positions(partitions, U)
    BY <1>1, <1>2 DEF NTFSVolumes
  <1>4. U \in SUBSET (1 .. Len(partitions))
    BY <1>2
  <1>5. Enumerates(Positions(partitions, U), U)
    BY <1>1, <1>4, PositionsInOrder
  <1> QED
    BY <1>2, <1>3, <1>5

\* main ends only where there is a NTFS volume, and the collector returns only where there
\* is no second one.
THEOREM OneIsCollected == USpec => []OneVolumeIsCollected
  <1>1. IInv => OneVolumeIsCollected
    <2> SUFFICES ASSUME IInv PROVE OneVolumeIsCollected
      OBVIOUS
    <2>1. PICK U : /\ U = {i \in 1 .. Len(partitions) : partitions[i].volume = "ntfs"}
                   /\ Enumerates(NTFSVolumes, U)
      BY VolumesInOrder
    <2>2. PICK n \in Nat : n = Len(partitions) /\ vol \in 1 .. n + 1
      BY DEF IInv, Counts, Collecting
    <2>3. NTFSVolumes \in Seq(U) /\ Len(NTFSVolumes) \in Nat
      BY <2>1 DEF Enumerates
    <2>4. ASSUME epc = "done" PROVE NTFSVolumes # <<>>
      <3>1. PICK i : i \in NTFSBefore(vol)
        BY <2>4 DEF IInv, Closing
      <3>2. i \in 1 .. n /\ partitions[i].volume = "ntfs"
        BY <2>2, <3>1 DEF NTFSBefore
      <3>3. i \in U
        BY <2>1, <2>2, <3>2
      <3>4. \E k \in 1 .. Len(NTFSVolumes) : NTFSVolumes[k] = i
        BY <2>1, <3>3 DEF Enumerates
      <3> QED
        BY <2>3, <3>4
    <2>5. ASSUME cpc = "done" PROVE Len(NTFSVolumes) <= 1
      <3> SUFFICES ASSUME Len(NTFSVolumes) > 1 PROVE FALSE
        BY <2>3
      <3>1. 1 \in 1 .. Len(NTFSVolumes) /\ 2 \in 1 .. Len(NTFSVolumes)
        BY <2>3
      <3>2. NTFSVolumes[1] \in U /\ NTFSVolumes[2] \in U
        BY <2>3, <3>1, ElementOfSeq
      <3>3. U = NTFSBefore(vol)
        <4>1. vol - 1 = n
          BY <2>2, <2>5 DEF IInv, Closing
        <4> QED
          BY <2>1, <2>2, <4>1 DEF NTFSBefore
      <3>4. NTFSVolumes[1] = NTFSVolumes[2]
        BY <3>2, <3>3 DEF IInv, Closing
      <3>5. NTFSVolumes[1] < NTFSVolumes[2]
        BY <2>1, <3>1 DEF Enumerates
      <3>6. NTFSVolumes[1] \in Nat
        BY <2>1, <3>2
      <3> QED
        BY <3>4, <3>5, <3>6
    <2> QED
      BY <2>4, <2>5 DEF OneVolumeIsCollected
  <1> QED
    BY <1>1, Invariant, PTL

-----------------------------------------------------------------------------
(* The runs of a bitmap, and the loop that counts consecutive clusters.    *)

Free(bits) == {i \in 1 .. Len(bits) : ~bits[i]}

\* A run is as long as it is, and no longer.
LEMMA OneRunLength ==
  ASSUME NEW bits \in Seq(BOOLEAN), NEW f \in 1 .. Len(bits), NEW n \in Nat \ {0},
         IsRun(bits, f, n)
  PROVE  RunLength(bits, f) = n
  <1>1. PICK N \in Nat : N = Len(bits) /\ DOMAIN bits = 1 .. N
    BY LenProperties
  <1>2. n \in DOMAIN bits
    BY <1>1 DEF IsRun
  <1>3. ASSUME NEW m \in DOMAIN bits, IsRun(bits, f, m), NEW k \in Nat \ {0}, IsRun(bits, f, k), m < k
        PROVE  FALSE
    <2>1. f + m <= N /\ f + m \in f .. f + k - 1
      BY <1>1, <1>3 DEF IsRun
    <2>2. bits[f + m]
      BY <1>1, <1>3, <2>1 DEF IsRun
    <2>3. ~bits[f + m]
      BY <1>3, <2>1 DEF IsRun
    <2> QED
      BY <2>2, <2>3
  <1>4. \A m \in DOMAIN bits : IsRun(bits, f, m) => m = n
    <2> SUFFICES ASSUME NEW m \in DOMAIN bits, IsRun(bits, f, m), m # n PROVE FALSE
      OBVIOUS
    <2>1. m \in Nat \ {0}
      BY <1>1
    <2>2. CASE m < n
      BY <1>3, <2>2
    <2>3. CASE n < m
      BY <1>2, <1>3, <2>1, <2>3
    <2> QED
      BY <2>1, <2>2, <2>3
  <1> QED
    BY <1>2, <1>4 DEF RunLength

\* The first unallocated cluster is where the first run begins.
LEMMA FirstRun ==
  ASSUME NEW bits \in Seq(BOOLEAN), NEW C, Enumerates(C, Free(bits)), NEW q,
         Enumerates(q, RunStarts(bits)), Len(C) >= 1
  PROVE  Len(q) >= 1 /\ q[1] = C[1]
  <1>1. PICK N \in Nat : N = Len(bits) /\ DOMAIN bits = 1 .. N
    BY LenProperties
  <1>2. Free(bits) \in SUBSET Nat /\ RunStarts(bits) \in SUBSET Nat /\ RunStarts(bits) \subseteq Free(bits)
    BY <1>1 DEF Free, RunStarts
  <1>3. Len(C) \in Nat /\ 1 \in 1 .. Len(C) /\ C[1] \in Free(bits)
    <2>1. Len(C) \in Nat /\ \A j \in 1 .. Len(C) : C[j] \in Free(bits)
      BY <1>2, InOrder
    <2>2. 1 \in 1 .. Len(C)
      BY <2>1
    <2> QED
      BY <2>1, <2>2
  <1>4. ASSUME NEW x \in Free(bits) PROVE C[1] <= x
    <2>1. PICK k \in 1 .. Len(C) : C[k] = x
      BY DEF Enumerates
    <2>2. CASE k = 1
      BY <1>2, <1>3, <2>1, <2>2
    <2>3. CASE k # 1
      <3>1. C[1] < C[k]
        BY <1>3, <2>3 DEF Enumerates
      <3> QED
        BY <1>2, <1>3, <2>1, <3>1
    <2> QED
      BY <2>2, <2>3
  <1>5. C[1] \in RunStarts(bits)
    <2>1. ASSUME C[1] > 1 PROVE bits[C[1] - 1]
      <3> SUFFICES ASSUME ~bits[C[1] - 1] PROVE FALSE
        OBVIOUS
      <3>1. C[1] \in 1 .. N
        BY <1>1, <1>3 DEF Free
      <3>2. C[1] - 1 \in 1 .. N
        BY <2>1, <3>1
      <3>3. C[1] - 1 \in Free(bits)
        BY <1>1, <3>2 DEF Free
      <3>4. C[1] <= C[1] - 1
        BY <1>4, <3>3
      <3> QED
        BY <3>1, <3>4
    <2> QED
      BY <1>1, <1>3, <2>1 DEF Free, RunStarts
  <1>6. \A x \in RunStarts(bits) : C[1] <= x
    BY <1>2, <1>4
  <1> QED
    BY <1>2, <1>5, <1>6, InOrder

\* The clusters counted so far are those from the start of the m-th run on.
Counted(bits, C, q, m, c, n) ==
  /\ Enumerates(C, Free(bits)) /\ Enumerates(q, RunStarts(bits))
  /\ c \in 2 .. Len(C) + 1 /\ n \in 1 .. c - 1 /\ m \in 1 .. Len(q)
  /\ q[m] = C[c - n] /\ \A j \in 0 .. n - 1 : C[c - n + j] = C[c - n] + j

\* They are free, they are the last ones seen, and no run begins among them but the first.
LEMMA CountedBits ==
  ASSUME NEW bits \in Seq(BOOLEAN), NEW C, NEW q, NEW m, NEW c, NEW n, Counted(bits, C, q, m, c, n)
  PROVE  /\ C[c - n] \in 1 .. Len(bits) /\ C[c - 1] = C[c - n] + n - 1
         /\ C[c - 1] \in 1 .. Len(bits)
         /\ \A i \in C[c - n] .. C[c - n] + n - 1 : i \in 1 .. Len(bits) /\ ~bits[i]
         /\ \A x \in RunStarts(bits) : x <= C[c - n] \/ C[c - n] + n - 1 < x
  <1>1. PICK N \in Nat : N = Len(bits) /\ DOMAIN bits = 1 .. N
    BY LenProperties
  <1>2. Free(bits) \in SUBSET Nat
    BY <1>1 DEF Free
  <1>3. PICK M \in Nat : /\ M = Len(C) /\ c \in 2 .. M + 1 /\ n \in 1 .. c - 1
                         /\ \A j \in 1 .. M : C[j] \in Free(bits)
    BY <1>2, InOrder DEF Counted
  <1>4. PICK f : f = C[c - n]
    OBVIOUS
  <1>5. f \in Free(bits) /\ f \in 1 .. N
    <2>1. c - n \in 1 .. M
      BY <1>3
    <2> QED
      BY <1>1, <1>3, <1>4, <2>1 DEF Free
  <1>6. \A j \in 0 .. n - 1 : C[c - n + j] = f + j
    BY <1>4 DEF Counted
  <1>7. ASSUME NEW i \in f .. f + n - 1 PROVE i \in Free(bits)
    <2>1. PICK j \in 0 .. n - 1 : i = f + j
      <3>1. i - f \in 0 .. n - 1 /\ i = f + (i - f)
        BY <1>3, <1>5
      <3> QED
        BY <3>1
    <2>2. c - n + j \in 1 .. M
      BY <1>3
    <2> QED
      BY <1>3, <1>6, <2>1, <2>2
  <1>8. C[c - 1] = f + n - 1
    <2>1. PICK j \in 0 .. n - 1 : j = n - 1
      BY <1>3
    <2>2. c - n + j = c - 1 /\ f + j = f + n - 1
      BY <1>3, <1>5, <2>1
    <2>3. C[c - n + j] = f + j
      BY <1>6
    <2> QED
      BY <2>2, <2>3
  <1>9. ASSUME NEW x \in RunStarts(bits), f < x, x <= f + n - 1 PROVE FALSE
    <2>1. x \in 1 .. N /\ (x > 1 => bits[x - 1])
      BY <1>1 DEF RunStarts
    <2>2. x > 1 /\ x - 1 \in f .. f + n - 1
      BY <1>3, <1>5, <1>9, <2>1
    <2>3. ~bits[x - 1]
      BY <1>7, <2>2 DEF Free
    <2> QED
      BY <2>1, <2>2, <2>3
  <1>10. \A i \in f .. f + n - 1 : i \in 1 .. N /\ ~bits[i]
    BY <1>1, <1>7 DEF Free
  <1>11. f + n - 1 \in 1 .. N
    <2>1. f + n - 1 \in f .. f + n - 1
      BY <1>3, <1>5
    <2> QED
      BY <1>10, <2>1
  <1>12. \A x \in RunStarts(bits) : x <= f \/ f + n - 1 < x
    <2>1. \A x \in RunStarts(bits) : x \in Nat
      BY <1>1 DEF RunStarts
    <2> QED
      BY <1>3, <1>5, <1>9, <2>1
  <1> QED
    BY <1>1, <1>4, <1>5, <1>8, <1>10, <1>11, <1>12

\* Where a cluster does not follow the one before it, the run counted ends, and the next one
\* begins.
LEMMA RunEnds ==
  ASSUME NEW bits \in Seq(BOOLEAN), NEW C, NEW q, NEW m, NEW c, NEW n,
         Counted(bits, C, q, m, c, n), c <= Len(C), ~(C[c] - C[c - 1] <= 1)
  PROVE  RunLength(bits, q[m]) = n /\ m + 1 \in 1 .. Len(q) /\ q[m + 1] = C[c]
  <1>1. PICK N \in Nat : N = Len(bits) /\ DOMAIN bits = 1 .. N
    BY LenProperties
  <1>2. Free(bits) \in SUBSET Nat /\ RunStarts(bits) \in SUBSET Nat /\ RunStarts(bits) \subseteq Free(bits)
    BY <1>1 DEF Free, RunStarts
  <1>3. PICK M \in Nat : /\ M = Len(C) /\ c \in 2 .. M /\ n \in 1 .. c - 1
                         /\ c - 1 \in 1 .. M /\ c \in 1 .. M
                         /\ \A j \in 1 .. M : C[j] \in Free(bits)
                         /\ \A j, k \in 1 .. M : C[j] < C[k] => j < k
    <2>1. Enumerates(C, Free(bits)) /\ c \in 2 .. Len(C) + 1 /\ n \in 1 .. c - 1
      BY DEF Counted
    <2>2. /\ Len(C) \in Nat /\ \A j \in 1 .. Len(C) : C[j] \in Free(bits)
          /\ \A j, k \in 1 .. Len(C) : C[j] < C[k] => j < k
      BY <1>2, <2>1, InOrder
    <2>3. c \in 2 .. Len(C) /\ c - 1 \in 1 .. Len(C) /\ c \in 1 .. Len(C)
      BY <2>1, <2>2
    <2> QED
      BY <2>1, <2>2, <2>3
  <1>4. PICK f, g : f = C[c - n] /\ g = C[c]
    OBVIOUS
  <1>5. /\ f \in 1 .. N /\ C[c - 1] = f + n - 1
        /\ \A i \in f .. f + n - 1 : i \in 1 .. N /\ ~bits[i]
        /\ \A x \in RunStarts(bits) : x <= f \/ f + n - 1 < x
    BY <1>1, <1>4, CountedBits
  <1>6. g \in Free(bits) /\ g \in 1 .. N /\ g > f + n
    <2>1. g \in Free(bits)
      BY <1>3, <1>4
    <2>2. g \in 1 .. N
      BY <1>1, <2>1 DEF Free
    <2> QED
      BY <1>3, <1>4, <1>5, <2>1, <2>2
  <1>7. ASSUME NEW x \in Free(bits), f + n - 1 < x PROVE g <= x
    <2>1. PICK k \in 1 .. M : C[k] = x
      BY <1>3 DEF Counted, Enumerates
    <2>2. c - 1 < k
      BY <1>3, <1>5, <1>7, <2>1
    <2>3. CASE k = c
      BY <1>4, <1>6, <2>1, <2>3
    <2>4. CASE k # c
      <3>1. c < k
        BY <1>3, <2>2, <2>4
      <3>2. C[c] < C[k]
        BY <1>3, <3>1 DEF Counted, Enumerates
      <3> QED
        BY <1>2, <1>4, <1>6, <2>1, <3>2
    <2> QED
      BY <2>3, <2>4
  <1>8. IsRun(bits, f, n)
    <2>1. f + n - 1 <= N /\ f + n \in 1 .. N /\ f + n - 1 < f + n /\ ~(g <= f + n)
      BY <1>3, <1>5, <1>6
    <2>2. bits[f + n]
      <3> SUFFICES ASSUME ~bits[f + n] PROVE FALSE
        OBVIOUS
      <3>1. f + n \in Free(bits)
        BY <1>1, <2>1 DEF Free
      <3> QED
        BY <1>7, <2>1, <3>1
    <2> QED
      BY <1>1, <1>5, <2>1, <2>2 DEF IsRun
  <1>9. RunLength(bits, f) = n
    <2>1. n \in Nat \ {0}
      BY <1>3
    <2> QED
      BY <1>1, <1>5, <1>8, <2>1, OneRunLength
  <1>10. g \in RunStarts(bits)
    <2>1. bits[g - 1]
      <3> SUFFICES ASSUME ~bits[g - 1] PROVE FALSE
        OBVIOUS
      <3>1. g - 1 \in 1 .. N /\ f + n - 1 < g - 1 /\ ~(g <= g - 1)
        BY <1>3, <1>5, <1>6
      <3>2. g - 1 \in Free(bits)
        BY <1>1, <3>1 DEF Free
      <3> QED
        BY <1>7, <3>1, <3>2
    <2> QED
      BY <1>1, <1>6, <2>1 DEF Free, RunStarts
  <1>11. q[m] = f /\ m \in 1 .. Len(q) /\ Enumerates(q, RunStarts(bits))
    BY <1>4 DEF Counted
  <1>12. f < g /\ \A x \in RunStarts(bits) : x <= f \/ g <= x
    <2>1. \A x \in RunStarts(bits) : x <= f \/ g <= x
      BY <1>2, <1>5, <1>7
    <2> QED
      BY <1>3, <1>5, <1>6, <2>1
  <1>13. m + 1 \in 1 .. Len(q) /\ q[m + 1] = g
    <2>1. q[m] < g /\ \A x \in RunStarts(bits) : x <= q[m] \/ g <= x
      BY <1>11, <1>12
    <2> QED
      BY <1>2, <1>10, <1>11, <2>1, NextInOrder
  <1> QED
    BY <1>4, <1>9, <1>11, <1>13

\* When all clusters have been seen, the run counted is the last one.
LEMMA LastRun ==
  ASSUME NEW bits \in Seq(BOOLEAN), NEW C, NEW q, NEW m, NEW c, NEW n,
         Counted(bits, C, q, m, c, n), c = Len(C) + 1
  PROVE  m = Len(q)
  <1>1. PICK N \in Nat : N = Len(bits) /\ DOMAIN bits = 1 .. N
    BY LenProperties
  <1>2. Free(bits) \in SUBSET Nat /\ RunStarts(bits) \in SUBSET Nat /\ RunStarts(bits) \subseteq Free(bits)
    BY <1>1 DEF Free, RunStarts
  <1>3. PICK M \in Nat : /\ M = Len(C) /\ c = M + 1 /\ c \in 2 .. M + 1 /\ n \in 1 .. c - 1
                         /\ \A j \in 1 .. M : C[j] \in Free(bits)
    BY <1>2, InOrder DEF Counted
  <1>4. PICK f : f = C[c - n]
    OBVIOUS
  <1>5. /\ f \in 1 .. N /\ C[c - 1] = f + n - 1
        /\ \A x \in RunStarts(bits) : x <= f \/ f + n - 1 < x
    BY <1>1, <1>4, CountedBits
  <1>6. ASSUME NEW x \in RunStarts(bits) PROVE x <= f
    <2>1. PICK k \in 1 .. M : C[k] = x
      BY <1>2, <1>3 DEF Counted, Enumerates
    <2>2. x <= C[c - 1]
      <3>1. CASE k = M
        BY <1>2, <1>3, <2>1, <3>1
      <3>2. CASE k # M
        <4>1. k < M /\ M \in 1 .. M
          BY <1>3, <3>2
        <4>2. C[k] < C[M]
          BY <1>3, <4>1 DEF Counted, Enumerates
        <4> QED
          BY <1>2, <1>3, <2>1, <4>1, <4>2
      <3> QED
        BY <3>1, <3>2
    <2> QED
      BY <1>2, <1>3, <1>5, <2>2
  <1>7. q[m] = f /\ m \in 1 .. Len(q) /\ Enumerates(q, RunStarts(bits))
    BY <1>4 DEF Counted
  <1> QED
    BY <1>2, <1>6, <1>7, InOrder

-----------------------------------------------------------------------------
(* What is sent.                                                           *)

\* A product is the same modulo 2^16 whichever factor is reduced first.
LEMMA ProductModulo ==
  ASSUME NEW n \in Nat, NEW s \in Nat, NEW b \in Nat
  PROVE  /\ (n * ((s * b) % 65536)) % 65536 = (n * s * b) % 65536
         /\ (n * ((s * b) % 65536)) % 65536 \in Int
  <1>1. PICK x \in Nat : x = s * b
    OBVIOUS
  <1>2. PICK d \in Nat, y \in Nat : d = x \div 65536 /\ y = x % 65536
    OBVIOUS
  <1>3. x = 65536 * d + y
    BY <1>2
  <1>4. PICK a \in Nat, e \in Nat : a = n * y /\ e = n * d
    OBVIOUS
  <1>5. n * x = a + 65536 * e
    <2>1. n * x = n * (65536 * d + y)
      BY <1>3
    <2>2. n * (65536 * d + y) = 65536 * (n * d) + n * y
      OBVIOUS
    <2> QED
      BY <1>4, <2>1, <2>2
  <1>6. (a + 65536 * e) % 65536 = a % 65536
    OBVIOUS
  <1>7. n * s * b = n * (s * b)
    OBVIOUS
  <1>8. n * s * b = a + 65536 * e
    BY <1>1, <1>5, <1>7
  <1>9. a % 65536 \in Int
    OBVIOUS
  <1> QED
    BY <1>1, <1>2, <1>4, <1>6, <1>8, <1>9

Read == [at: Int, len: Int]

\* A read of the disk, and its length.
LEMMA ReadBlockFields ==
  ASSUME Counts, vol \in 1 .. Len(partitions), Volume.bps \in Nat, Volume.spc \in Nat
  PROVE  \A first, n \in Nat :
           /\ ReadBlock(first, n) \in Read
           /\ ReadBlock(first, n).len = RunBytes(n, Volume)
  <1> TAKE first, n \in Nat
  <1>1. PICK b, s, p : b = Volume.bps /\ s = Volume.spc /\ p = partitions[vol]
    OBVIOUS
  <1>2. p \in Partition
    BY <1>1, ElementOfSeq DEF Counts
  <1>3. GetOffset(p) \in Int
    <2>1. p.start \in Nat /\ p.tableOffset \in Nat /\ p.raid \in Nat
      BY <1>2 DEF Partition
    <2> QED
      BY <2>1 DEF GetOffset
  <1>4. PICK o \in Int : o = GetOffset(p)
    BY <1>3
  <1>5. b \in Int /\ s \in Int /\ b \in Nat /\ s \in Nat
    BY <1>1
  <1>6. b % 256 \in Int /\ o * b \in Int
    BY <1>5
  <1>7. (s * (b % 256)) % 256 \in Int
    BY <1>5, <1>6
  <1>8. PICK w \in Int : w = (s * (b % 256)) % 256
    BY <1>7
  <1>9. o * b + first * w \in Int
    BY <1>6
  <1>10. /\ (n * ((s * b) % 65536)) % 65536 = (n * s * b) % 65536
         /\ (n * ((s * b) % 65536)) % 65536 \in Int
    BY <1>5, ProductModulo
  <1>11. PICK at \in Int, len \in Int :
           at = o * b + first * w /\ len = (n * ((s * b) % 65536)) % 65536
    BY <1>9, <1>10
  <1>12. ReadBlock(first, n) = [at |-> at, len |-> len]
    BY <1>1, <1>4, <1>8, <1>11 DEF ReadBlock
  <1>13. [at |-> at, len |-> len] \in Read /\ [at |-> at, len |-> len].len = len
    BY DEF Read
  <1>14. len = (n * s * b) % 65536
    BY <1>10, <1>11
  <1> QED
    BY <1>1, <1>12, <1>13, <1>14 DEF RunBytes

Starts(v) == Positions(Bits(v), RunStarts(Bits(v)))
Sent == IF epc = "write" THEN Append(file, block) ELSE file

\* How long the k-th run of the volume v is on the disk.
BytesOfRun(v, k) ==
  RunBytes(RunLength(Bits(v), Starts(v)[k]), Boot(v))

\* The k-th block of the volume v ends with the k-th run, and begins with the block before it.
BlocksOf(s, v) ==
  /\ s \in Seq(Seq(Read))
  /\ \A k \in 1 .. Len(s) :
       /\ k < Len(Starts(v)) /\ Len(s[k]) = k
       /\ s[k][k].len = BytesOfRun(v, k)
       /\ k > 1 => Front(s[k]) = s[k - 1]

\* The loop over the first NTFS volume: every run but the one being counted has been sent,
\* and all but the last when it ends.
FirstIsSent ==
  /\ NTFSBefore(vol) = {} /\ cpc # "collect" => Sent = <<>>
  /\ cpc = "collect" /\ ~closed =>
       /\ BlocksOf(Sent, vol)
       /\ buf = IF Sent = <<>> THEN <<>> ELSE Sent[Len(Sent)]
       /\ Counted(Bits(vol), Clusters, Starts(vol), Len(Sent) + 1, ci, blockSize)
  /\ \A v \in NTFSBefore(vol) : BlocksOf(Sent, v) /\ Len(Sent) + 1 = Len(Starts(v))
RunsInv ==
  /\ epc = "start" => file = <<>>
  /\ epc # "start" /\ writable => FirstIsSent

\* The runs of a NTFS volume, and those that are sent.
LEMMA RunsOfVolume ==
  ASSUME IInv, pc = "ready", NEW v \in 1 .. Len(partitions), partitions[v].volume = "ntfs"
  PROVE  LET bits == Bits(v) IN
         /\ bits \in Seq(BOOLEAN) /\ Enumerates(Starts(v), RunStarts(bits))
         /\ Boot(v).bps \in Nat /\ Boot(v).spc \in Nat
         /\ v = vol => Volume = Boot(v) /\ Enumerates(Clusters, Free(bits))
         /\ Len(Starts(v)) \in Nat
         /\ Len(SentRuns(bits)) = (IF Len(Starts(v)) > 0 THEN Len(Starts(v)) - 1 ELSE 0)
         /\ \A k \in 1 .. Len(Starts(v)) - 1 : SentRuns(bits)[k] = RunLength(bits, Starts(v)[k])
  <1>1. PICK b, bits : b = Boot(v) /\ bits = Bits(v)
    OBVIOUS
  <1>2. /\ b.bps \in Nat /\ b.spc \in Nat /\ bits \in Seq(BOOLEAN) /\ DOMAIN bits = 1 .. Len(bits)
        /\ v = vol => Volume = b /\ Enumerates(Clusters, Free(bits))
    BY <1>1, ClustersInOrder DEF IInv, Free
  <1>3. RunStarts(bits) \in SUBSET (1 .. Len(bits)) /\ RunStarts(bits) \in SUBSET Nat
    BY <1>2 DEF RunStarts
  <1>4. PICK q : q = Starts(v)
    OBVIOUS
  <1>5. q = Positions(bits, RunStarts(bits)) /\ Enumerates(q, RunStarts(bits))
    <2>1. q = Positions(bits, RunStarts(bits))
      BY <1>1, <1>4 DEF Starts
    <2>2. Enumerates(Positions(bits, RunStarts(bits)), RunStarts(bits))
      BY <1>2, <1>3, PositionsInOrder
    <2> QED
      BY <2>1, <2>2
  <1>6. PICK n \in Nat : n = Len(q)
    BY <1>3, <1>5, InOrder
  <1>7. SentRuns(bits) = [k \in 1 .. n - 1 |-> RunLength(bits, q[k])]
    BY <1>5, <1>6 DEF SentRuns
  <1>8. PICK m \in Nat : m = (IF n > 0 THEN n - 1 ELSE 0)
    OBVIOUS
  <1>9. 1 .. n - 1 = 1 .. m
    BY <1>8
  <1>10. SentRuns(bits) = [k \in 1 .. m |-> RunLength(bits, q[k])]
    BY <1>7, <1>9
  <1>11. Len(SentRuns(bits)) = m
    BY <1>10
  <1>12. \A k \in 1 .. n - 1 : SentRuns(bits)[k] = RunLength(bits, q[k])
    BY <1>7
  <1> QED
    BY <1>1, <1>2, <1>4, <1>5, <1>6, <1>8, <1>11, <1>12

\* What the runs are computed from stays the same.
LEMMA SameRuns ==
  ASSUME UNCHANGED <<disk, partitions>>
  PROVE  /\ \A v : Bits(v)' = Bits(v) /\ Starts(v)' = Starts(v) /\ NTFSBefore(v)' = NTFSBefore(v)
         /\ \A s, v : BlocksOf(s, v)' <=> BlocksOf(s, v)
  <1>1. \A v : Boot(v)' = Boot(v) /\ Bits(v)' = Bits(v) /\ NTFSBefore(v)' = NTFSBefore(v)
    BY DEF Boot, Bits, MFTVolume, GetOffset, NTFSBefore
  <1>2. \A v : Starts(v)' = Starts(v)
    BY <1>1 DEF Starts
  <1>3. \A v, k : BytesOfRun(v, k)' = BytesOfRun(v, k)
    BY <1>1, <1>2 DEF BytesOfRun
  <1> QED
    BY <1>1, <1>2, <1>3 DEF BlocksOf

\* Nothing is sent, and the loop stands where it stood.
LEMMA RunsKept ==
  ASSUME RunsInv, epc # "start", Sent' = Sent, buf' = buf \/ closed,
         UNCHANGED <<disk, partitions, writable, vol, ci, blockSize, closed, cpc>>, epc' # "start"
  PROVE  RunsInv'
  <1>1. /\ \A v : Bits(v)' = Bits(v) /\ Starts(v)' = Starts(v) /\ NTFSBefore(v)' = NTFSBefore(v)
        /\ \A s, v : BlocksOf(s, v)' <=> BlocksOf(s, v)
    BY SameRuns
  <1>2. Clusters' = Clusters
    BY SameVolume
  <1>3. Bits(vol)' = Bits(vol) /\ Starts(vol)' = Starts(vol) /\ NTFSBefore(vol)' = NTFSBefore(vol)
    BY <1>1
  <1>4. BlocksOf(Sent, vol)' <=> BlocksOf(Sent, vol)
    BY <1>1
  <1>5. \A v : BlocksOf(Sent, v)' <=> BlocksOf(Sent, v)
    BY <1>1
  <1>6. writable => FirstIsSent
    BY DEF RunsInv
  <1>7. writable => FirstIsSent'
    BY <1>1, <1>2, <1>3, <1>4, <1>5, <1>6 DEF FirstIsSent
  <1> QED
    BY <1>7 DEF RunsInv

\* A block that is sent is the next one: the buffer t with one more read.
IsNext(s, t, u, w, x, v) ==
  /\ BlocksOf(s, v) /\ t = (IF s = <<>> THEN <<>> ELSE s[Len(s)])
  /\ u = Append(t, x) /\ w = Append(s, u) /\ x \in Read
  /\ Len(s) + 1 < Len(Starts(v)) /\ x.len = BytesOfRun(v, Len(s) + 1)

LEMMA NextBlock ==
  ASSUME NEW s, NEW t, NEW u, NEW w, NEW x, NEW v, IsNext(s, t, u, w, x, v)
  PROVE  BlocksOf(w, v) /\ Len(w) = Len(s) + 1 /\ w # <<>> /\ w[Len(w)] = u
  <1>0. /\ BlocksOf(s, v) /\ t = (IF s = <<>> THEN <<>> ELSE s[Len(s)])
        /\ u = Append(t, x) /\ w = Append(s, u) /\ x \in Read
        /\ Len(s) + 1 < Len(Starts(v)) /\ x.len = BytesOfRun(v, Len(s) + 1)
    BY DEF IsNext
  <1>1. PICK n \in Nat : n = Len(s) /\ s \in Seq(Seq(Read))
    BY <1>0, LenProperties DEF BlocksOf
  <1>2. t \in Seq(Read) /\ Len(t) = n
    <2>1. CASE s = <<>>
      BY <1>0, <1>1, <2>1
    <2>2. CASE s # <<>>
      <3>1. n \in 1 .. n
        BY <1>0, <1>1, <2>2
      <3>2. s[n] \in Seq(Read)
        BY <1>0, <1>1, <3>1, ElementOfSeq
      <3>3. Len(s[n]) = n
        BY <1>0, <1>1, <3>1 DEF BlocksOf
      <3> QED
        BY <1>0, <1>1, <2>2, <3>2, <3>3
    <2> QED
      BY <1>0, <2>1, <2>2
  <1>3. u \in Seq(Read) /\ Len(u) = n + 1 /\ u[n + 1] = x
    BY <1>0, <1>2, AppendProperties
  <1>4. Front(u) = t
    <2>1. Front(u) = SubSeq(u, 1, n)
      <3>1. Len(u) - 1 = n
        BY <1>0, <1>1, <1>3
      <3> QED
        BY <1>0, <3>1 DEF Front
    <2>2. SubSeq(u, 1, n) = t
      BY <1>0, <1>2
    <2> QED
      BY <1>0, <2>1, <2>2
  <1>5. /\ w \in Seq(Seq(Read)) /\ Len(w) = n + 1 /\ w[n + 1] = u
        /\ \A k \in 1 .. n : w[k] = s[k]
    BY <1>0, <1>1, <1>3, AppendProperties
  <1>6. ASSUME NEW k \in 1 .. n + 1
        PROVE  /\ k < Len(Starts(v)) /\ Len(w[k]) = k
               /\ w[k][k].len = BytesOfRun(v, k)
               /\ k > 1 => Front(w[k]) = w[k - 1]
    <2>1. CASE k \in 1 .. n
      <3>1. w[k] = s[k] /\ (k > 1 => w[k - 1] = s[k - 1])
        <4>1. k > 1 => k - 1 \in 1 .. n
          BY <1>0, <2>1
        <4> QED
          BY <1>0, <1>5, <2>1, <4>1
      <3> QED
        BY <1>0, <1>1, <2>1, <3>1 DEF BlocksOf
    <2>2. CASE k = n + 1
      <3>1. k > 1 => t = w[k - 1]
        <4> SUFFICES ASSUME k > 1 PROVE t = w[k - 1]
          OBVIOUS
        <4>1. k - 1 = n /\ n \in 1 .. n
          BY <1>0, <2>2
        <4>2. s # <<>>
          BY <1>0, <1>1, <4>1
        <4> QED
          BY <1>0, <1>1, <1>5, <4>1, <4>2
      <3>2. w[k] = u /\ w[k][k] = x
        BY <1>0, <1>3, <1>5, <2>2
      <3> QED
        BY <1>0, <1>1, <1>3, <1>4, <2>2, <3>1, <3>2
    <2>3. k \in 1 .. n \/ k = n + 1
      OBVIOUS
    <2> QED
      BY <1>0, <2>1, <2>2, <2>3
  <1>7. BlocksOf(w, v)
    BY <1>0, <1>5, <1>6 DEF BlocksOf
  <1>8. w # <<>>
    BY <1>0, <1>1, <1>5
  <1> QED
    BY <1>0, <1>1, <1>5, <1>7, <1>8

\* main: a block that has been received is sent, before and after it is written.
LEMMA RunsWritten ==
  ASSUME IInv, RunsInv, ExportUnallocated
  PROVE  RunsInv'
  <1>1. CASE StartCollector
    <2>1. /\ UNCHANGED <<disk, partitions, vol, file, closed, writable>>
          /\ epc = "start" /\ epc' = "recv" /\ cpc' = "volume"
      BY <1>1 DEF StartCollector, vars
    <2>2. vol = 1 /\ file = <<>>
      BY <2>1 DEF IInv, Idle, RunsInv
    <2>3. NTFSBefore(vol)' = {}
      BY <2>1, <2>2 DEF NTFSBefore
    <2>4. Sent' = <<>>
      BY <2>1, <2>2 DEF Sent
    <2>5. FirstIsSent'
      BY <2>1, <2>3, <2>4 DEF FirstIsSent
    <2> QED
      BY <2>1, <2>5 DEF RunsInv
  <1>2. CASE WriteFile
    <2>1. /\ UNCHANGED <<disk, partitions, writable, vol, ci, blockSize, closed, cpc, buf, block>>
          /\ epc = "write" /\ epc' = "recv" /\ file' = IF writable THEN Append(file, block) ELSE file
      BY <1>2 DEF WriteFile, AfterWrite, vars
    <2>2. CASE writable
      <3>1. Sent' = Sent
        BY <2>1, <2>2 DEF Sent
      <3> QED
        BY <2>1, <3>1, RunsKept
    <2>3. CASE ~writable
      BY <2>1, <2>3 DEF RunsInv
    <2> QED
      BY <2>2, <2>3
  <1>3. CASE BlocksEnd
    <2>1. /\ UNCHANGED <<disk, partitions, writable, vol, ci, blockSize, closed, cpc, buf, block, file>>
          /\ epc = "recv" /\ epc' = "done"
      BY <1>3 DEF BlocksEnd, vars
    <2>2. Sent' = Sent
      BY <2>1 DEF Sent
    <2> QED
      BY <2>1, <2>2, RunsKept
  <1> QED
    BY <1>1, <1>2, <1>3 DEF ExportUnallocated

\* The next volume is opened: nothing has been sent before the first NTFS volume.
LEMMA RunsOpened ==
  ASSUME IInv, RunsInv, OpenVolume
  PROVE  RunsInv'
  <1>1. /\ UNCHANGED <<disk, partitions, writable, epc, block, file, closed>>
        /\ cpc = "volume" /\ vol <= Len(partitions)
    BY DEF OpenVolume
  <1>2. epc # "start" /\ pc = "ready" /\ vol \in 1 .. Len(partitions) /\ epc' # "start"
    <2>1. epc # "start" /\ pc = "ready"
      BY <1>1 DEF IInv, Idle
    <2>2. vol \in 1 .. Len(partitions) + 1 /\ Len(partitions) \in Nat
      BY DEF IInv, Collecting, Counts
    <2> QED
      BY <1>1, <2>1, <2>2
  <1>3. Sent' = Sent
    BY <1>1 DEF Sent
  <1>4. CASE partitions[vol].volume \in {"nil", "lvm"}
    <2>1. vol' = vol + 1 /\ cpc' = "volume"
      BY <1>1, <1>4 DEF OpenVolume
    <2>2. \A v : NTFSBefore(v)' = NTFSBefore(v) /\ Starts(v)' = Starts(v)
      BY <1>1, SameRuns
    <2>3. \A s, v : BlocksOf(s, v)' <=> BlocksOf(s, v)
      BY <1>1, SameRuns
    <2>4. NTFSBefore(vol)' = NTFSBefore(vol)
      <3>1. NTFSBefore(vol + 1) = NTFSBefore(vol)
        BY <1>2, <1>4, NextVolume
      <3> QED
        BY <1>1, <2>1, <3>1 DEF NTFSBefore
    <2>5. ASSUME writable PROVE FirstIsSent'
      <3>1. FirstIsSent
        BY <1>2, <2>5 DEF RunsInv
      <3>2. \A v : BlocksOf(Sent, v)' <=> BlocksOf(Sent, v)
        BY <1>3, <2>3
      <3> QED
        BY <1>1, <1>3, <2>1, <2>2, <2>4, <3>1, <3>2 DEF FirstIsSent
    <2> QED
      BY <1>1, <1>2, <2>5 DEF RunsInv
  <1>5. CASE partitions[vol].volume = "ntfs" /\ (~HasBitmap \/ Clusters = <<>>)
    <2>1. UNCHANGED <<cpc, vol, ci, blockSize, buf>>
      BY <1>5 DEF OpenVolume
    <2> QED
      BY <1>1, <1>2, <1>3, <2>1, RunsKept
  <1>6. CASE partitions[vol].volume = "ntfs" /\ HasBitmap /\ Clusters # <<>>
    <2>1. cpc' = "collect" /\ ci' = 2 /\ blockSize' = 1 /\ buf' = <<>> /\ vol' = vol
      BY <1>6 DEF OpenVolume, FirstIndex
    <2>2. PICK bits, C, q : bits = Bits(vol) /\ C = Clusters /\ q = Starts(vol)
      OBVIOUS
    <2>3. /\ bits \in Seq(BOOLEAN) /\ Enumerates(q, RunStarts(bits)) /\ Enumerates(C, Free(bits))
      BY <1>2, <1>6, <2>2, RunsOfVolume
    <2>4. Len(C) \in Nat /\ Len(C) >= 1
      <3>1. C \in Seq(Free(bits))
        BY <2>3 DEF Enumerates
      <3>2. Len(C) # 0
        BY <1>6, <2>2, <3>1, EmptySeq
      <3>3. Len(C) \in Nat
        BY <3>1
      <3> QED
        BY <3>2, <3>3
    <2>5. Len(q) >= 1 /\ q[1] = C[1] /\ Len(q) \in Nat
      <3>1. q \in Seq(RunStarts(bits))
        BY <2>3 DEF Enumerates
      <3>2. Len(q) \in Nat
        BY <3>1
      <3> QED
        BY <2>3, <2>4, <3>2, FirstRun
    <2>6. Counted(bits, C, q, 1, 2, 1)
      <3>1. 2 \in 2 .. Len(C) + 1 /\ 1 \in 1 .. 2 - 1 /\ 1 \in 1 .. Len(q)
        BY <2>4, <2>5
      <3>2. q[1] = C[2 - 1]
        BY <2>5
      <3>3. C[1] \in Nat
        <4>1. Free(bits) \in SUBSET Nat
          BY <2>3 DEF Free
        <4>2. C[1] \in Free(bits)
          <5>1. C \in Seq(Free(bits)) /\ 1 \in 1 .. Len(C)
            BY <2>3, <2>4 DEF Enumerates
          <5> QED
            BY <5>1, ElementOfSeq
        <4> QED
          BY <4>1, <4>2
      <3>4. \A j \in 0 .. 1 - 1 : C[2 - 1 + j] = C[2 - 1] + j
        BY <3>3
      <3> QED
        BY <2>3, <3>1, <3>2, <3>4 DEF Counted
    <2>7. /\ Clusters' = C /\ Bits(vol)' = Bits(vol) /\ Starts(vol)' = q
          /\ NTFSBefore(vol)' = NTFSBefore(vol)
      <3>1. \A v : Bits(v)' = Bits(v) /\ Starts(v)' = Starts(v) /\ NTFSBefore(v)' = NTFSBefore(v)
        BY <1>1, SameRuns
      <3>2. Clusters' = Clusters
        BY <1>1, <2>1, SameVolume
      <3> QED
        BY <2>1, <2>2, <3>1, <3>2
    <2>8. \A v : BlocksOf(Sent, v)' <=> BlocksOf(Sent, v)
      <3>1. \A s, v : BlocksOf(s, v)' <=> BlocksOf(s, v)
        BY <1>1, SameRuns
      <3> QED
        BY <1>3, <3>1
    <2>9. ASSUME writable PROVE FirstIsSent'
      <3>1. FirstIsSent
        BY <1>2, <2>9 DEF RunsInv
      <3>2. \A v \in NTFSBefore(vol)' : BlocksOf(Sent, v)' /\ Len(Sent)' + 1 = Len(Starts(v))'
        <4>1. \A v : Starts(v)' = Starts(v)
          BY <1>1, SameRuns
        <4> QED
          BY <1>3, <2>7, <2>8, <3>1, <4>1 DEF FirstIsSent
      <3>3. ASSUME ~closed
            PROVE  /\ BlocksOf(Sent, vol)' /\ buf' = <<>> /\ Sent' = <<>>
                   /\ Counted(bits, C, q, Len(Sent)' + 1, 2, 1)
        <4>1. Sent = <<>> /\ Len(Sent) = 0
          <5>1. NTFSBefore(vol) = {}
            BY <3>3 DEF IInv, Closing
          <5>2. Sent = <<>>
            BY <1>1, <3>1, <5>1 DEF FirstIsSent
          <5> QED
            BY <5>2
        <4>2. BlocksOf(<<>>, vol)
          BY DEF BlocksOf
        <4>3. BlocksOf(Sent, vol)'
          BY <1>3, <2>1, <2>8, <4>1, <4>2
        <4>4. Len(Sent)' + 1 = 1
          BY <1>3, <4>1
        <4> QED
          BY <1>3, <2>1, <2>6, <4>1, <4>3, <4>4
      <3> QED
        BY <1>1, <2>1, <2>2, <2>7, <3>2, <3>3 DEF FirstIsSent
    <2> QED
      BY <1>1, <1>2, <2>9 DEF RunsInv
  <1> QED
    BY <1>4, <1>5, <1>6 DEF OpenVolume

\* While clusters are collected, there is a NTFS volume with a bitmap.
LEMMA InLoop ==
  ASSUME IInv, cpc = "collect"
  PROVE  LET bits == Bits(vol) IN
         /\ pc = "ready" /\ epc # "start" /\ vol \in 1 .. Len(partitions)
         /\ partitions[vol].volume = "ntfs" /\ (~closed => NTFSBefore(vol) = {})
         /\ bits \in Seq(BOOLEAN) /\ Enumerates(Starts(vol), RunStarts(bits))
         /\ Volume = Boot(vol) /\ Volume.bps \in Nat /\ Volume.spc \in Nat
         /\ Enumerates(Clusters, Free(bits)) /\ Len(Clusters) \in Nat /\ Len(Starts(vol)) \in Nat
  <1>1. pc = "ready" /\ epc # "start" /\ (~closed => NTFSBefore(vol) = {})
    BY DEF IInv, Idle, Closing
  <1>2. vol \in 1 .. Len(partitions) /\ partitions[vol].volume = "ntfs"
    <2>1. /\ vol \in 1 .. Len(partitions) + 1 /\ vol <= Len(partitions)
          /\ partitions[vol].volume = "ntfs" /\ Len(partitions) \in Nat
      BY DEF IInv, Collecting, Counts
    <2> QED
      BY <2>1
  <1>3. PICK bits : bits = Bits(vol)
    OBVIOUS
  <1>4. /\ bits \in Seq(BOOLEAN) /\ Enumerates(Starts(vol), RunStarts(bits))
        /\ Boot(vol).bps \in Nat /\ Boot(vol).spc \in Nat /\ Volume = Boot(vol)
        /\ Enumerates(Clusters, Free(bits)) /\ Len(Starts(vol)) \in Nat
    BY <1>1, <1>2, <1>3, RunsOfVolume
  <1>5. Len(Clusters) \in Nat
    <2>1. Clusters \in Seq(Free(bits))
      BY <1>4 DEF Enumerates
    <2> QED
      BY <2>1
  <1> QED
    BY <1>1, <1>2, <1>3, <1>4, <1>5

\* A cluster that follows the one before it belongs to the same run.
LEMMA RunsGrown ==
  ASSUME IInv, RunsInv, GrowBlock
  PROVE  RunsInv'
  <1>1. /\ UNCHANGED <<disk, partitions, writable, epc, block, file, cpc, vol, buf, closed>>
        /\ cpc = "collect" /\ ci <= Len(Clusters) /\ Clusters[ci] - Clusters[ci - 1] <= 1
        /\ blockSize' = blockSize + 1 /\ ci' = ci + 1
    BY DEF GrowBlock, Consecutive, vars
  <1>2. PICK bits, C, q : bits = Bits(vol) /\ C = Clusters /\ q = Starts(vol)
    OBVIOUS
  <1>3. /\ epc # "start" /\ bits \in Seq(BOOLEAN) /\ Enumerates(C, Free(bits)) /\ Len(C) \in Nat
    BY <1>1, <1>2, InLoop
  <1>4. Sent' = Sent
    BY <1>1 DEF Sent
  <1>5. /\ Clusters' = C /\ Starts(vol)' = q /\ Bits(vol)' = Bits(vol)
        /\ \A v : NTFSBefore(v)' = NTFSBefore(v) /\ Starts(v)' = Starts(v)
    <2>1. \A v : Bits(v)' = Bits(v) /\ Starts(v)' = Starts(v) /\ NTFSBefore(v)' = NTFSBefore(v)
      BY <1>1, SameRuns
    <2>2. Clusters' = Clusters
      BY <1>1, SameVolume
    <2> QED
      BY <1>1, <1>2, <2>1, <2>2
  <1>6. \A v : BlocksOf(Sent, v)' <=> BlocksOf(Sent, v)
    <2>1. \A s, v : BlocksOf(s, v)' <=> BlocksOf(s, v)
      BY <1>1, SameRuns
    <2> QED
      BY <1>4, <2>1
  <1>7. ASSUME NEW m, Counted(bits, C, q, m, ci, blockSize)
        PROVE  Counted(bits, C, q, m, ci + 1, blockSize + 1)
    <2>1. PICK c \in Nat, n \in Nat : /\ c = ci /\ n = blockSize /\ c \in 2 .. Len(C) + 1
                                      /\ n \in 1 .. c - 1
      BY <1>3, <1>7 DEF Counted
    <2>2. PICK f : f = C[c - n]
      OBVIOUS
    <2>3. /\ f \in 1 .. Len(bits) /\ C[c - 1] = f + n - 1
      BY <1>3, <1>7, <2>1, <2>2, CountedBits
    <2>4. f \in Nat
      BY <1>3, <2>3
    <2>5. c - 1 \in 1 .. Len(C) /\ c \in 1 .. Len(C) /\ c - 1 < c
      BY <1>1, <1>2, <1>3, <2>1
    <2>6. C[c] = f + n
      <3>1. C[c - 1] < C[c]
        BY <1>3, <2>5 DEF Enumerates
      <3>2. C[c] \in Nat
        <4>1. C[c] \in Free(bits)
          BY <1>3, <2>5, ElementOfSeq DEF Enumerates
        <4>2. Free(bits) \in SUBSET Nat
          BY <1>3 DEF Free
        <4> QED
          BY <4>1, <4>2
      <3>3. C[c] - C[c - 1] <= 1
        BY <1>1, <1>2, <2>1
      <3> QED
        BY <2>1, <2>3, <2>4, <3>1, <3>2, <3>3
    <2>7. c + 1 - (n + 1) = c - n
      BY <2>1
    <2>8. ASSUME NEW j \in 0 .. n + 1 - 1 PROVE C[c - n + j] = f + j
      <3>1. CASE j = n
        <4>1. c - n + j = c
          BY <2>1, <3>1
        <4> QED
          BY <2>6, <3>1, <4>1
      <3>2. CASE j # n
        <4>1. j \in 0 .. n - 1
          BY <2>1, <3>2
        <4> QED
          BY <1>7, <2>1, <2>2, <4>1 DEF Counted
      <3> QED
        BY <3>1, <3>2
    <2>9. c + 1 \in 2 .. Len(C) + 1 /\ n + 1 \in 1 .. c + 1 - 1
      BY <1>3, <2>1, <2>5
    <2>10. Counted(bits, C, q, m, c + 1, n + 1)
      <3>1. \A j \in 0 .. n + 1 - 1 : C[c + 1 - (n + 1) + j] = C[c + 1 - (n + 1)] + j
        BY <2>2, <2>7, <2>8
      <3>2. q[m] = C[c + 1 - (n + 1)] /\ m \in 1 .. Len(q)
        BY <1>7, <2>1, <2>7 DEF Counted
      <3> QED
        BY <1>7, <2>9, <3>1, <3>2 DEF Counted
    <2> QED
      BY <2>1, <2>10
  <1>8. ASSUME writable PROVE FirstIsSent'
    <2>1. FirstIsSent
      BY <1>3, <1>8 DEF RunsInv
    <2>2. \A v \in NTFSBefore(vol)' : BlocksOf(Sent, v)' /\ Len(Sent)' + 1 = Len(Starts(v))'
      BY <1>1, <1>4, <1>5, <1>6, <2>1 DEF FirstIsSent
    <2>3. ASSUME ~closed
          PROVE  /\ BlocksOf(Sent, vol)' /\ buf = IF Sent = <<>> THEN <<>> ELSE Sent[Len(Sent)]
                 /\ Counted(bits, C, q, Len(Sent) + 1, ci + 1, blockSize + 1)
      <3>1. /\ BlocksOf(Sent, vol) /\ buf = (IF Sent = <<>> THEN <<>> ELSE Sent[Len(Sent)])
            /\ Counted(bits, C, q, Len(Sent) + 1, ci, blockSize)
        BY <1>1, <1>2, <2>1, <2>3 DEF FirstIsSent
      <3>2. BlocksOf(Sent, vol)'
        BY <1>1, <1>4, <1>6, <3>1
      <3>3. Counted(bits, C, q, Len(Sent) + 1, ci + 1, blockSize + 1)
        BY <1>7, <3>1
      <3> QED
        BY <3>1, <3>2, <3>3
    <2> QED
      BY <1>1, <1>2, <1>4, <1>5, <2>2, <2>3 DEF FirstIsSent
  <1> QED
    BY <1>1, <1>3, <1>8 DEF RunsInv

\* A cluster that does not follow the one before it ends the run, which is sent.
LEMMA RunsSent ==
  ASSUME IInv, RunsInv, SendBlock
  PROVE  RunsInv'
  <1>1. /\ UNCHANGED <<disk, partitions, writable, file, cpc, vol, closed>>
        /\ cpc = "collect" /\ ci <= Len(Clusters) /\ ~(Clusters[ci] - Clusters[ci - 1] <= 1)
        /\ blockSize' = 1 /\ ci' = ci + 1
        /\ buf' = Append(buf, ReadBlock(Clusters[ci - blockSize], blockSize))
    BY DEF SendBlock, Consecutive, FirstOfBlock
  <1>2. PICK bits, C, q : bits = Bits(vol) /\ C = Clusters /\ q = Starts(vol)
    OBVIOUS
  <1>3. /\ epc # "start" /\ bits \in Seq(BOOLEAN) /\ Enumerates(C, Free(bits)) /\ Len(C) \in Nat
        /\ vol \in 1 .. Len(partitions) /\ Volume = Boot(vol) /\ Volume.bps \in Nat
        /\ Volume.spc \in Nat /\ (~closed => NTFSBefore(vol) = {})
    BY <1>1, <1>2, InLoop
  <1>4. /\ Clusters' = C /\ Starts(vol)' = q /\ Bits(vol)' = Bits(vol)
        /\ \A v : NTFSBefore(v)' = NTFSBefore(v) /\ Starts(v)' = Starts(v)
        /\ \A s, v : BlocksOf(s, v)' <=> BlocksOf(s, v)
    <2>1. \A v : Bits(v)' = Bits(v) /\ Starts(v)' = Starts(v) /\ NTFSBefore(v)' = NTFSBefore(v)
      BY <1>1, SameRuns
    <2>2. \A s, v : BlocksOf(s, v)' <=> BlocksOf(s, v)
      BY <1>1, SameRuns
    <2>3. Clusters' = Clusters
      BY <1>1, SameVolume
    <2> QED
      BY <1>1, <1>2, <2>1, <2>2, <2>3
  <1>5. CASE closed
    <2>1. UNCHANGED <<epc, block>>
      BY <1>5 DEF SendBlock
    <2>2. Sent' = Sent
      BY <1>1, <2>1 DEF Sent
    <2>3. ASSUME writable PROVE FirstIsSent'
      <3>1. FirstIsSent
        BY <1>3, <2>3 DEF RunsInv
      <3>2. \A v : BlocksOf(Sent, v)' <=> BlocksOf(Sent, v)
        BY <1>4, <2>2
      <3> QED
        BY <1>1, <1>4, <1>5, <2>2, <3>1, <3>2 DEF FirstIsSent
    <2> QED
      BY <1>1, <1>3, <2>1, <2>3 DEF RunsInv
  <1>6. CASE ~closed
    <2>1. epc = "recv" /\ epc' = "write" /\ block' = buf'
      BY <1>6 DEF SendBlock
    <2>2. Sent = file /\ Sent' = Append(Sent, buf')
      BY <1>1, <2>1 DEF Sent
    <2>3. ASSUME writable PROVE FirstIsSent'
      <3>1. /\ BlocksOf(Sent, vol) /\ buf = (IF Sent = <<>> THEN <<>> ELSE Sent[Len(Sent)])
            /\ Counted(bits, C, q, Len(Sent) + 1, ci, blockSize)
        BY <1>1, <1>2, <1>3, <1>6, <2>3 DEF RunsInv, FirstIsSent
      <3>2. PICK k \in Nat : k = Len(Sent)
        BY <3>1, LenProperties DEF BlocksOf
      <3>3. RunLength(bits, q[k + 1]) = blockSize /\ k + 1 + 1 \in 1 .. Len(q) /\ q[k + 1 + 1] = C[ci]
        <4>1. /\ bits \in Seq(BOOLEAN) /\ Counted(bits, C, q, k + 1, ci, blockSize)
              /\ ci <= Len(C) /\ ~(C[ci] - C[ci - 1] <= 1)
          BY <1>1, <1>2, <1>3, <3>1, <3>2
        <4>2. PICK m \in Nat : m = k + 1
          OBVIOUS
        <4>3. /\ bits \in Seq(BOOLEAN) /\ Counted(bits, C, q, m, ci, blockSize)
              /\ ci <= Len(C) /\ ~(C[ci] - C[ci - 1] <= 1)
          BY <4>1, <4>2
        <4>4. RunLength(bits, q[m]) = blockSize /\ m + 1 \in 1 .. Len(q) /\ q[m + 1] = C[ci]
          BY <4>3, RunEnds
        <4> QED
          BY <4>2, <4>4
      <3>4. PICK x : x = ReadBlock(C[ci - blockSize], blockSize)
        OBVIOUS
      <3>5. x \in Read /\ x.len = BytesOfRun(vol, k + 1)
        <4>1. C[ci - blockSize] \in Nat /\ blockSize \in Nat
          <5>1. C[ci - blockSize] \in 1 .. Len(bits) /\ Len(bits) \in Nat
            BY <1>3, <3>1, CountedBits
          <5>2. blockSize \in Nat
            BY <1>3, <3>1 DEF Counted
          <5> QED
            BY <5>1, <5>2
        <4>2. x \in Read /\ x.len = RunBytes(blockSize, Volume)
          <5>1. PICK first \in Nat, n \in Nat : first = C[ci - blockSize] /\ n = blockSize
            BY <4>1
          <5>2. /\ ReadBlock(first, n) \in Read
                /\ ReadBlock(first, n).len = RunBytes(n, Volume)
            <6>1. /\ Counts /\ vol \in 1 .. Len(partitions)
                  /\ Volume.bps \in Nat /\ Volume.spc \in Nat
              BY <1>3 DEF IInv
            <6>2. \A g, m \in Nat :
                    /\ ReadBlock(g, m) \in Read
                    /\ ReadBlock(g, m).len = RunBytes(m, Volume)
              BY <6>1, ReadBlockFields
            <6> QED
              BY <6>2
          <5>3. x = ReadBlock(first, n)
            BY <3>4, <5>1
          <5> QED
            BY <5>1, <5>2, <5>3
        <4>3. BytesOfRun(vol, k + 1) = RunBytes(blockSize, Volume)
          BY <1>2, <1>3, <3>3 DEF BytesOfRun
        <4> QED
          BY <4>2, <4>3
      <3>6. buf' = Append(buf, x)
        BY <1>1, <1>2, <3>4
      <3>7. Len(Sent) + 1 < Len(Starts(vol))
        <4>1. Len(q) \in Nat
          BY <1>1, <1>2, InLoop
        <4> QED
          BY <1>2, <3>2, <3>3, <4>1
      <3>8. /\ BlocksOf(Sent', vol) /\ Len(Sent') = Len(Sent) + 1 /\ Sent' # <<>>
            /\ Sent'[Len(Sent')] = buf'
        <4>1. PICK s, t, u, w : s = Sent /\ t = buf /\ u = buf' /\ w = Sent'
          OBVIOUS
        <4>2. IsNext(s, t, u, w, x, vol)
          BY <2>2, <3>1, <3>2, <3>5, <3>6, <3>7, <4>1 DEF IsNext
        <4>3. BlocksOf(w, vol) /\ Len(w) = Len(s) + 1 /\ w # <<>> /\ w[Len(w)] = u
          BY <4>2, NextBlock
        <4> QED
          BY <4>1, <4>3
      <3>9. BlocksOf(Sent, vol)'
        BY <1>1, <1>4, <3>8
      <3>10. Counted(bits, C, q, k + 2, ci + 1, 1)
        <4>1. PICK c \in Nat : c = ci /\ c \in 2 .. Len(C) + 1 /\ c <= Len(C)
          BY <1>1, <1>2, <1>3, <3>1 DEF Counted
        <4>2. c + 1 \in 2 .. Len(C) + 1 /\ 1 \in 1 .. c + 1 - 1 /\ c + 1 - 1 = c /\ c \in 1 .. Len(C)
          BY <1>3, <4>1
        <4>3. C[c] \in Nat
          <5>1. C[c] \in Free(bits)
            BY <1>3, <4>2, ElementOfSeq DEF Enumerates
          <5>2. Free(bits) \in SUBSET Nat
            BY <1>3 DEF Free
          <5> QED
            BY <5>1, <5>2
        <4>4. \A j \in 0 .. 1 - 1 : C[c + 1 - 1 + j] = C[c + 1 - 1] + j
          BY <4>2, <4>3
        <4>5. k + 2 \in 1 .. Len(q) /\ q[k + 2] = C[c + 1 - 1]
          <5>1. k + 1 + 1 = k + 2
            OBVIOUS
          <5> QED
            BY <3>3, <4>1, <4>2, <5>1
        <4>6. Counted(bits, C, q, k + 2, c + 1, 1)
          BY <3>1, <4>2, <4>4, <4>5 DEF Counted
        <4> QED
          BY <4>1, <4>6
      <3>11. Len(Sent)' + 1 = k + 2
        BY <3>2, <3>8
      <3> QED
        BY <1>1, <1>2, <1>3, <1>4, <1>6, <3>8, <3>9, <3>10, <3>11 DEF FirstIsSent
    <2> QED
      BY <1>1, <2>1, <2>3 DEF RunsInv
  <1> QED
    BY <1>5, <1>6

\* The first NTFS volume closes the channel when all its runs but the last have been sent.
LEMMA RunsClosed ==
  ASSUME IInv, RunsInv, CloseBlocks
  PROVE  RunsInv'
  <1>1. /\ UNCHANGED <<disk, partitions, writable, epc, block, file, ci, blockSize, buf>>
        /\ cpc = "collect" /\ ci > Len(Clusters)
    BY DEF CloseBlocks
  <1>2. PICK bits, C, q : bits = Bits(vol) /\ C = Clusters /\ q = Starts(vol)
    OBVIOUS
  <1>3. /\ epc # "start" /\ bits \in Seq(BOOLEAN) /\ Len(C) \in Nat /\ Len(q) \in Nat
        /\ vol \in 1 .. Len(partitions) /\ partitions[vol].volume = "ntfs"
        /\ (~closed => NTFSBefore(vol) = {})
    BY <1>1, <1>2, InLoop
  <1>4. Sent' = Sent
    BY <1>1 DEF Sent
  <1>5. CASE closed
    <2>1. UNCHANGED <<closed, cpc, vol>>
      BY <1>5 DEF CloseBlocks, ClosesTwice
    <2> QED
      BY <1>1, <1>3, <1>4, <2>1, RunsKept
  <1>6. CASE ~closed
    <2>1. closed' = TRUE /\ cpc' = "volume" /\ vol' = vol + 1
      BY <1>6 DEF CloseBlocks, ClosesTwice
    <2>2. /\ \A v : NTFSBefore(v)' = NTFSBefore(v) /\ Starts(v)' = Starts(v)
          /\ \A s, v : BlocksOf(s, v)' <=> BlocksOf(s, v)
      BY <1>1, SameRuns
    <2>3. NTFSBefore(vol)' = {vol}
      <3>1. NTFSBefore(vol + 1) = NTFSBefore(vol) \union {vol}
        BY <1>3, NextVolume
      <3>2. NTFSBefore(vol)' = NTFSBefore(vol + 1)
        BY <1>1, <2>1 DEF NTFSBefore
      <3> QED
        BY <1>3, <1>6, <3>1, <3>2
    <2>4. ASSUME writable PROVE FirstIsSent'
      <3>1. /\ BlocksOf(Sent, vol) /\ Counted(bits, C, q, Len(Sent) + 1, ci, blockSize)
        BY <1>1, <1>2, <1>3, <1>6, <2>4 DEF RunsInv, FirstIsSent
      <3>2. ci = Len(C) + 1
        BY <1>1, <1>2, <1>3, <3>1 DEF Counted
      <3>3. Len(Sent) + 1 = Len(q)
        BY <1>3, <3>1, <3>2, LastRun
      <3>4. \A v \in NTFSBefore(vol)' : BlocksOf(Sent, v)' /\ Len(Sent)' + 1 = Len(Starts(v))'
        <4>1. BlocksOf(Sent, vol) /\ Len(Sent) + 1 = Len(Starts(vol))
          BY <1>2, <3>1, <3>3
        <4>2. \A v : BlocksOf(Sent, v)' <=> BlocksOf(Sent, v)
          BY <1>4, <2>2
        <4> QED
          BY <1>4, <2>2, <2>3, <4>1, <4>2
      <3> QED
        BY <2>1, <2>3, <3>4 DEF FirstIsSent
    <2> QED
      BY <1>1, <1>3, <2>4 DEF RunsInv
  <1> QED
    BY <1>5, <1>6 DEF IInv, Idle

\* Every step keeps what has been sent.
LEMMA RunsStep ==
  ASSUME IInv, RunsInv, [UNext]_allVars
  PROVE  RunsInv'
  <1>1. CASE Disk
    <2>1. Process /\ UNCHANGED <<epc, file>>
      BY <1>1 DEF Disk, uvars
    <2>2. pc # "ready"
      BY <2>1 DEF Process, DiscoverPartitions, LocateVolume, AllLocated, DiscoverFileSystem,
                  GetFileSystemMetadata
    <2>3. epc = "start" /\ epc' = "start" /\ file' = file
      BY <2>1, <2>2 DEF IInv, Idle
    <2> QED
      BY <2>3 DEF RunsInv
  <1>2. CASE ExportUnallocated
    BY <1>2, RunsWritten
  <1>3. CASE OpenVolume
    BY <1>3, RunsOpened
  <1>4. CASE GrowBlock
    BY <1>4, RunsGrown
  <1>5. CASE SendBlock
    BY <1>5, RunsSent
  <1>6. CASE CloseBlocks
    BY <1>6, RunsClosed
  <1>7. CASE CollectorReturns
    <2>1. /\ UNCHANGED <<disk, partitions, writable, epc, block, file, vol, closed>>
          /\ cpc = "volume" /\ cpc' = "done"
      BY <1>7 DEF CollectorReturns, vars
    <2>2. epc # "start"
      BY <2>1 DEF IInv, Idle
    <2>3. /\ \A v : NTFSBefore(v)' = NTFSBefore(v) /\ Starts(v)' = Starts(v)
          /\ \A s, v : BlocksOf(s, v)' <=> BlocksOf(s, v)
      BY <2>1, SameRuns
    <2>4. Sent' = Sent
      BY <2>1 DEF Sent
    <2>5. ASSUME writable PROVE FirstIsSent'
      <3>1. FirstIsSent
        BY <2>2, <2>5 DEF RunsInv
      <3>2. \A v : BlocksOf(Sent, v)' <=> BlocksOf(Sent, v)
        BY <2>3, <2>4
      <3>3. NTFSBefore(vol)' = NTFSBefore(vol)
        BY <2>1, <2>3
      <3> QED
        BY <2>1, <2>3, <2>4, <3>1, <3>2, <3>3 DEF FirstIsSent
    <2> QED
      BY <2>1, <2>2, <2>5 DEF RunsInv
  <1>8. CASE AllAsleep \/ UNCHANGED allVars
    <2>1. /\ UNCHANGED <<disk, partitions, writable, vol, ci, blockSize, closed, cpc, buf>>
          /\ UNCHANGED <<block, file, epc>>
      BY <1>8 DEF AllAsleep, allVars, vars, uvars
    <2>2. Sent' = Sent
      BY <2>1 DEF Sent
    <2>3. CASE epc = "start"
      BY <2>1, <2>3 DEF RunsInv
    <2>4. CASE epc # "start"
      BY <2>1, <2>2, <2>4, RunsKept
    <2> QED
      BY <2>3, <2>4
  <1> QED
    BY <1>1, <1>2, <1>3, <1>4, <1>5, <1>6, <1>7, <1>8
       DEF UNext, Main, Collector, Runtime, Ended, CollectUnallocated

\* What is written are the runs of the first NTFS volume.
AreRuns(sent, first, runs) ==
  /\ Len(sent) <= Len(runs)
  /\ \A k \in DOMAIN sent :
       /\ Len(sent[k]) = k
       /\ sent[k][k].len = RunBytes(runs[k], first)
       /\ k > 1 => Front(sent[k]) = sent[k - 1]
  /\ epc = "done" => Len(file) = Len(runs)

LEMMA RunsWrittenAreThose ==
  ASSUME IInv, RunsInv
  PROVE  BlocksAreRuns
  <1> SUFFICES ASSUME writable, epc # "start", NTFSVolumes # <<>>
               PROVE  AreRuns(Sent, Boot(NTFSVolumes[1]), SentRuns(Bits(NTFSVolumes[1])))
    BY DEF BlocksAreRuns, AreRuns, Sent, Boot, Bits
  <1>1. FirstIsSent /\ pc = "ready" /\ (epc = "done" => closed)
    BY DEF RunsInv, IInv, Idle, Closing
  <1>2. PICK U : /\ U = {i \in 1 .. Len(partitions) : partitions[i].volume = "ntfs"}
                 /\ Enumerates(NTFSVolumes, U)
    BY VolumesInOrder
  <1>3. PICK n \in Nat : n = Len(partitions) /\ vol \in 1 .. n + 1
    BY DEF IInv, Counts, Collecting
  <1>4. PICK v : v = NTFSVolumes[1]
    OBVIOUS
  <1>5. v \in 1 .. n /\ partitions[v].volume = "ntfs" /\ \A i \in U : v <= i
    <2>1. NTFSVolumes \in Seq(U) /\ Len(NTFSVolumes) \in Nat
      BY <1>2 DEF Enumerates
    <2>2. 1 \in 1 .. Len(NTFSVolumes)
      BY <2>1, EmptySeq
    <2>3. v \in U
      BY <1>4, <2>1, <2>2, ElementOfSeq
    <2>4. ASSUME NEW i \in U PROVE v <= i
      <3>1. PICK k \in 1 .. Len(NTFSVolumes) : NTFSVolumes[k] = i
        BY <1>2 DEF Enumerates
      <3>2. v \in Nat /\ i \in Nat
        BY <1>2, <1>3, <2>3
      <3>3. CASE k = 1
        BY <1>4, <3>1, <3>2, <3>3
      <3>4. CASE k # 1
        <4>1. 1 < k
          BY <2>1, <3>4
        <4>2. v < i
          BY <1>2, <1>4, <2>2, <3>1, <4>1 DEF Enumerates
        <4> QED
          BY <3>2, <4>2
      <3> QED
        BY <3>3, <3>4
    <2> QED
      BY <1>2, <1>3, <2>3, <2>4
  <1>6. PICK b, bits, runs, q :
          b = Boot(v) /\ bits = Bits(v) /\ runs = SentRuns(bits) /\ q = Starts(v)
    OBVIOUS
  <1>7. /\ Len(q) \in Nat /\ Len(runs) = (IF Len(q) > 0 THEN Len(q) - 1 ELSE 0)
        /\ \A k \in 1 .. Len(q) - 1 : runs[k] = RunLength(bits, q[k])
    BY <1>1, <1>3, <1>5, <1>6, RunsOfVolume
  <1>8. \/ Sent = <<>> /\ NTFSBefore(vol) = {}
        \/ BlocksOf(Sent, v) /\ (epc = "done" => Len(Sent) + 1 = Len(q))
    <2>1. CASE NTFSBefore(vol) = {} /\ cpc # "collect"
      BY <1>1, <2>1 DEF FirstIsSent
    <2>2. CASE NTFSBefore(vol) = {} /\ cpc = "collect"
      <3>1. ~closed
        BY <2>2 DEF IInv, Closing
      <3>2. vol \in U /\ vol \in 1 .. n
        <4>1. vol <= n /\ partitions[vol].volume = "ntfs"
          BY <1>3, <2>2 DEF IInv, Collecting
        <4> QED
          BY <1>2, <1>3, <4>1
      <3>3. v = vol
        <4>1. v <= vol
          BY <1>5, <3>2
        <4>2. ~(v < vol)
          <5> SUFFICES ASSUME v < vol PROVE FALSE
            OBVIOUS
          <5>1. v \in 1 .. vol - 1
            BY <1>3, <1>5
          <5> QED
            BY <1>5, <2>2, <5>1 DEF NTFSBefore
        <4> QED
          BY <1>3, <1>5, <4>1, <4>2
      <3> QED
        BY <1>1, <2>2, <3>1, <3>3 DEF FirstIsSent
    <2>3. CASE NTFSBefore(vol) # {}
      <3>1. PICK i : i \in NTFSBefore(vol)
        BY <2>3
      <3>2. i \in 1 .. vol - 1 /\ partitions[i].volume = "ntfs" /\ i \in 1 .. n
        BY <1>3, <3>1 DEF NTFSBefore
      <3>3. v <= i
        BY <1>2, <1>3, <1>5, <3>2
      <3>4. v \in NTFSBefore(vol)
        <4>1. v \in 1 .. vol - 1
          BY <1>3, <1>5, <3>2, <3>3
        <4> QED
          BY <1>5, <4>1 DEF NTFSBefore
      <3> QED
        BY <1>1, <1>6, <3>4 DEF FirstIsSent
    <2> QED
      BY <2>1, <2>2, <2>3
  <1>9. PICK s : s = Sent /\ s = (IF epc = "write" THEN Append(file, block) ELSE file)
    BY DEF Sent
  <1>10. epc = "done" => file = s
    BY <1>9
  <1>11. CASE s = <<>> /\ NTFSBefore(vol) = {}
    <2>1. Len(s) = 0 /\ DOMAIN s = {}
      BY <1>11
    <2>2. Len(s) <= Len(runs)
      BY <1>7, <2>1
    <2>3. epc # "done"
      BY <1>1, <1>11 DEF IInv, Closing
    <2>4. AreRuns(s, b, runs)
      BY <2>1, <2>2, <2>3 DEF AreRuns
    <2> QED
      BY <1>4, <1>6, <1>9, <2>4
  <1>12. CASE BlocksOf(s, v) /\ (epc = "done" => Len(s) + 1 = Len(q))
    <2>1. Len(s) \in Nat /\ DOMAIN s = 1 .. Len(s)
      BY <1>12 DEF BlocksOf
    <2>2. \A k \in 1 .. Len(s) : k < Len(q)
      BY <1>6, <1>12 DEF BlocksOf
    <2>3. Len(s) <= Len(runs)
      <3>1. CASE Len(s) = 0
        BY <1>7, <3>1
      <3>2. CASE Len(s) # 0
        <4>1. Len(s) \in 1 .. Len(s)
          BY <2>1, <3>2
        <4>2. Len(s) < Len(q)
          BY <2>2, <4>1
        <4> QED
          BY <1>7, <2>1, <4>2
      <3> QED
        BY <3>1, <3>2
    <2>4. epc = "done" => Len(s) = Len(runs)
      BY <1>7, <1>12, <2>1
    <2>5. ASSUME NEW k \in 1 .. Len(s)
          PROVE  /\ Len(s[k]) = k /\ s[k][k].len = RunBytes(runs[k], b)
                 /\ k > 1 => Front(s[k]) = s[k - 1]
      <3>1. Len(s[k]) = k /\ s[k][k].len = BytesOfRun(v, k) /\ (k > 1 => Front(s[k]) = s[k - 1])
        BY <1>12 DEF BlocksOf
      <3>2. runs[k] = RunLength(bits, q[k])
        <4>1. k \in 1 .. Len(q) - 1
          BY <1>7, <2>1, <2>2
        <4> QED
          BY <1>7, <4>1
      <3>3. BytesOfRun(v, k) = RunBytes(runs[k], b)
        BY <1>6, <3>2 DEF BytesOfRun
      <3> QED
        BY <3>1, <3>3
    <2>6. AreRuns(s, b, runs)
      BY <1>10, <2>1, <2>3, <2>4, <2>5 DEF AreRuns
    <2> QED
      BY <1>4, <1>6, <1>9, <2>6
  <1> QED
    BY <1>8, <1>9, <1>11, <1>12

\* CollectUnallocated: the blocks that are written, and the one on its way, are the runs of
\* free entries in the bitmap of the $MFT that was read for the first NTFS volume, which may be
\* another one than that of its boot sector, each behind the ones before it, and all but the
\* last when main ends.
THEOREM BlocksOfFirstVolume == USpec => []BlocksAreRuns
  <1>1. UInit => RunsInv
    BY DEF UInit, RunsInv
  <1>2. IInv /\ RunsInv /\ [UNext]_allVars => RunsInv'
    BY RunsStep
  <1>3. IInv /\ RunsInv => BlocksAreRuns
    BY RunsWrittenAreThose
  <1> QED
    BY <1>1, <1>2, <1>3, Invariant, PTL DEF USpec
=============================================================================
