--------------------------- MODULE RefinementProofs ---------------------------
(***************************************************************************)
(* The three goroutines of an export implement the sequential loop of      *)
(* SequentialExport, for every job and every interleaving.                 *)
(*                                                                         *)
(* The plan of the loop is a function of the records; the goroutines find  *)
(* it step by step.  SInv says how far they are: what has been sent is the *)
(* beginning of the plan, what Worker still has to do for its record is    *)
(* the part of the plan behind it, and the buffer of LocateData holds the  *)
(* clusters of the runs that it has read.                                  *)
(***************************************************************************)
EXTENDS ExportProofs, ExportRefinement, SequenceLemmas

\* The units of the first n records, and the result that Worker owes for a unit.
Planned(n) == FlattenSeq(SubSeq(Parts, 1, n))
ResultOf(u) ==
  [rec |-> u, fname |-> GetFname(u), id |-> mft[u].entry, content |-> ContentOf(u)]

\* The clusters of the first n runs.
Read(rs, n) == FlattenSeq(SubSeq(Pieces(rs), 1, n))

\* What was sent is the beginning of the plan.
SentAsPlanned ==
  /\ Len(sent) <= Len(Units)
  /\ \A k \in 1 .. Len(sent) : sent[k] = ResultOf(Units[k])

\* Worker is at the unit behind what was sent: between two records it has sent the units
\* of the ones before, within a record its list is what is left of the units of this one.
Placed ==
  /\ wpc = "idle" => i = 1
  /\ wpc \in {"idle", "record"} => i - 1 <= Len(records) /\ Len(sent) = Len(Planned(i - 1))
  /\ wpc \in {"locate", "run", "send"} =>
       todo = SubSeq(Planned(i), Len(sent) + 1, Len(Planned(i)))
  /\ wpc \in {"return", "done"} => Len(sent) = Len(Units)

\* LocateData has read the runs before the current one, none of them beyond the disk, and
\* what it hands over is the content of the unit.
Reading ==
  /\ wpc = "run" =>
       LET rs == RunListOf(Head(todo)) IN
       /\ ~HasResidentDataAttr(Head(todo))
       /\ run - 1 <= Len(rs) /\ \A k \in 1 .. run - 1 : k \notin OffDisk(rs)
       /\ offset = IF run = 1 THEN job.part ELSE Starts(rs)[run - 1]
       /\ buf = Read(rs, run - 1)
  /\ wpc = "send" => buf = ContentOf(Head(todo))

SInv == IInv /\ SentAsPlanned /\ Placed /\ Reading

-----------------------------------------------------------------------------
(* The plan.                                                               *)

\* The records of a call never change, and so nothing that is computed from them.
LEMMA PlanFixed ==
  ASSUME job' = job
  PROVE  /\ records' = records /\ Units' = Units /\ Plan' = Plan
         /\ \A n : Planned(n)' = Planned(n)
         /\ \A u : ResultOf(u)' = ResultOf(u) /\ ContentOf(u)' = ContentOf(u)
         /\ \A u : RunListOf(u)' = RunListOf(u)
         /\ \A u : HasResidentDataAttr(u)' = HasResidentDataAttr(u)
         /\ \A rs : Starts(rs)' = Starts(rs) /\ OffDisk(rs)' = OffDisk(rs)
         /\ \A rs, n : Read(rs, n)' = Read(rs, n)
  <1>1. records' = records /\ mft' = mft
    BY DEF records, mft
  <1>2. Parts' = Parts
    BY <1>1 DEF Parts
  <1>3. Units' = Units /\ \A n : Planned(n)' = Planned(n)
    BY <1>2 DEF Units, Planned
  <1>4. \A rs : Starts(rs)' = Starts(rs)
    BY DEF Starts
  <1>5. \A rs : OffDisk(rs)' = OffDisk(rs)
    BY <1>4 DEF OffDisk
  <1>6. \A rs : Pieces(rs)' = Pieces(rs)
    BY <1>4 DEF Pieces
  <1>7. \A rs, n : Read(rs, n)' = Read(rs, n)
    BY <1>6 DEF Read
  <1>8. \A rs : Mapped(rs)' = Mapped(rs)
    BY <1>5, <1>6 DEF Mapped, Inside
  <1>9. \A u : RunListOf(u)' = RunListOf(u) /\ GetFname(u)' = GetFname(u)
    BY <1>1 DEF RunListOf, RunListHolder, GetFname, Owner
  <1>10. \A u : ContentOf(u)' = ContentOf(u)
    BY <1>1, <1>8, <1>9 DEF ContentOf
  <1>11. \A u : ResultOf(u)' = ResultOf(u)
    BY <1>1, <1>9, <1>10 DEF ResultOf
  <1>12. \A u : HasResidentDataAttr(u)' = HasResidentDataAttr(u)
    BY <1>1 DEF HasResidentDataAttr
  <1>13. Plan' = Plan
    BY <1>1, <1>3, <1>9, <1>10 DEF Plan
  <1> QED
    BY <1>1, <1>3, <1>4, <1>5, <1>7, <1>9, <1>10, <1>11, <1>12, <1>13

\* The units of a record: none of a folder, otherwise what Worker locates for it.
LEMMA PartsType ==
  ASSUME job \in Jobs
  PROVE  /\ Parts \in Seq(Seq(Rec)) /\ Len(Parts) = Len(records) /\ Len(records) \in Nat
         /\ \A k \in 1 .. Len(records) :
              /\ records[k] \in Rec
              /\ Parts[k] = IF mft[records[k]].folder THEN <<>> ELSE WorkOf(records[k])
  <1>1. records \in Seq(Rec) /\ Len(records) \in Nat
    BY JobType
  <1>2. \A k \in 1 .. Len(records) : records[k] \in Rec
    BY <1>1, ElementOfSeq
  <1>3. DOMAIN records = 1 .. Len(records)
    BY <1>1, LenProperties
  <1>4. \A k \in 1 .. Len(records) :
          Parts[k] = IF mft[records[k]].folder THEN <<>> ELSE WorkOf(records[k])
    BY <1>3 DEF Parts, WorkOf
  <1>5. \A k \in 1 .. Len(records) : Parts[k] \in Seq(Rec)
    BY <1>2, <1>4, WorkType, EmptySeq
  <1>6. Parts = [k \in 1 .. Len(records) |-> Parts[k]]
    BY <1>3 DEF Parts
  <1>7. Parts \in Seq(Seq(Rec)) /\ Len(Parts) = Len(records)
    <2> DEFINE p == Parts
    <2> HIDE DEF p
    <2>1. PICK n \in Nat : n = Len(records)
      BY <1>1
    <2>2. p = [k \in 1 .. n |-> p[k]] /\ \A k \in 1 .. n : p[k] \in Seq(Rec)
      BY <1>5, <1>6, <2>1 DEF p
    <2>3. p \in [1 .. n -> Seq(Rec)]
      BY <2>2
    <2>4. p \in Seq(Seq(Rec)) /\ Len(p) = n
      BY <2>3
    <2> QED
      BY <2>1, <2>4 DEF p
  <1> QED
    BY <1>1, <1>2, <1>4, <1>7

\* Up to a record: nothing at first, everything at last, and each record adds its units.
LEMMA PlannedNext ==
  ASSUME job \in Jobs
  PROVE  /\ Planned(0) = <<>> /\ Planned(Len(records)) = Units /\ Units \in Seq(Rec)
         /\ \A k \in 0 .. Len(records) - 1 :
              /\ Planned(k) \in Seq(Rec) /\ Planned(k + 1) \in Seq(Rec)
              /\ Planned(k + 1) = Planned(k) \o Parts[k + 1]
  <1>1. Parts \in Seq(Seq(Rec)) /\ Len(Parts) = Len(records) /\ Len(records) \in Nat
    BY PartsType
  <1>2. Planned(0) = <<>>
    <2>1. SubSeq(Parts, 1, 0) = <<>>
      BY SubSeqEmpty
    <2> QED
      BY <2>1, FlattenEmpty DEF Planned
  <1>3. Planned(Len(records)) = Units /\ Units \in Seq(Rec)
    BY <1>1, SubSeqFull, FlattenType DEF Planned, Units
  <1>4. ASSUME NEW k \in 0 .. Len(records)
        PROVE  Planned(k) \in Seq(Rec)
    <2>1. SubSeq(Parts, 1, k) \in Seq(Seq(Rec))
      BY <1>1, FirstOnes
    <2> QED
      BY <2>1, FlattenType DEF Planned
  <1>5. ASSUME NEW k \in 0 .. Len(records) - 1
        PROVE  /\ Planned(k) \in Seq(Rec) /\ Planned(k + 1) \in Seq(Rec)
               /\ Planned(k + 1) = Planned(k) \o Parts[k + 1]
    <2>1. k \in 0 .. Len(records) /\ k + 1 \in 0 .. Len(records) /\ k \in 0 .. Len(Parts) - 1
      BY <1>1
    <2>2. Planned(k + 1) = Planned(k) \o Parts[k + 1]
      BY <1>1, <2>1, FlattenNext DEF Planned
    <2> QED
      BY <1>4, <2>1, <2>2
  <1> QED
    BY <1>2, <1>3, <1>5

\* The units of the first records are the first of all.
LEMMA PlannedFirst ==
  ASSUME job \in Jobs, NEW k \in 0 .. Len(records)
  PROVE  /\ Planned(k) \in Seq(Rec) /\ Units \in Seq(Rec)
         /\ Len(Planned(k)) <= Len(Units)
         /\ \A n \in 1 .. Len(Planned(k)) : Units[n] = Planned(k)[n]
  <1>1. Parts \in Seq(Seq(Rec)) /\ Len(Parts) = Len(records) /\ Len(records) \in Nat
    BY PartsType
  <1>2. PICK rest \in Seq(Rec) : Units = Planned(k) \o rest
    BY <1>1, FlattenSplit DEF Units, Planned
  <1>3. Planned(k) \in Seq(Rec)
    <2>1. SubSeq(Parts, 1, k) \in Seq(Seq(Rec))
      BY <1>1, FirstOnes
    <2> QED
      BY <2>1, FlattenType DEF Planned
  <1>4. PICK m \in Nat, n \in Nat : m = Len(Planned(k)) /\ n = Len(rest)
    BY <1>3, LenProperties
  <1>5. /\ Units \in Seq(Rec) /\ Len(Units) = m + n
        /\ \A j \in 1 .. m + n : Units[j] = IF j <= m THEN Planned(k)[j] ELSE rest[j - m]
    BY <1>2, <1>3, <1>4, ConcatProperties
  <1>6. \A j \in 1 .. m : j \in 1 .. m + n /\ j <= m
    OBVIOUS
  <1> QED
    BY <1>3, <1>4, <1>5, <1>6

-----------------------------------------------------------------------------
(* A run list.                                                             *)

\* at is the recursive function in the definition of Starts, on the first n runs.
Adds(at, rs, part, n) ==
  at = [k \in 1 .. n |-> (IF k = 1 THEN part ELSE at[k - 1]) + rs[k].off]

\* The places where runs begin exist: one run more is one sum more.
LEMMA AddsExist ==
  ASSUME NEW rs, NEW part, NEW n \in Nat
  PROVE  \E at : Adds(at, rs, part, n)
  <1> DEFINE T == {k \in Nat : \E at : Adds(at, rs, part, k)}
  <1>1. 0 \in T
    <2>1. Adds([k \in {} |-> 0], rs, part, 0)
      BY DEF Adds
    <2> QED
      BY <2>1
  <1>2. ASSUME NEW k \in 0 .. n - 1, k \in T
        PROVE  k + 1 \in T
    <2>1. PICK at : Adds(at, rs, part, k)
      BY <1>2
    <2> DEFINE g == [j \in 1 .. k + 1 |-> (IF j = 1 THEN part ELSE at[j - 1]) + rs[j].off]
    <2>2. \A j \in 1 .. k : g[j] = at[j]
      BY <2>1 DEF Adds
    <2>3. g = [j \in 1 .. k + 1 |-> (IF j = 1 THEN part ELSE g[j - 1]) + rs[j].off]
      <3>1. ASSUME NEW j \in 1 .. k + 1, j # 1
            PROVE  at[j - 1] = g[j - 1]
        <4>1. j - 1 \in 1 .. k
          BY <3>1
        <4> HIDE DEF g
        <4> QED
          BY <2>2, <4>1
      <3> QED
        BY <3>1
    <2> HIDE DEF g
    <2>4. Adds(g, rs, part, k + 1)
      BY <2>3 DEF Adds
    <2> QED
      BY <2>4
  <1> HIDE DEF T
  <1>3. n \in T
    BY <1>1, <1>2, InductionUpTo
  <1> QED
    BY <1>3 DEF T

\* A run begins at an offset from the begin of the one before, the first one of the partition.
LEMMA StartsAt ==
  ASSUME job \in Jobs, NEW rs \in Seq(Run), NEW n \in Nat, n = Len(rs)
  PROVE  \A k \in 1 .. n :
           /\ Starts(rs)[k] = (IF k = 1 THEN job.part ELSE Starts(rs)[k - 1]) + rs[k].off
           /\ Starts(rs)[k] \in Int /\ rs[k].off \in Int /\ rs[k].len \in Nat
  <1>1. Starts(rs) = CHOOSE at : Adds(at, rs, job.part, Len(rs))
    BY Zenon DEF Starts, Adds
  <1>2. Adds(Starts(rs), rs, job.part, n)
    BY <1>1, AddsExist, Zenon
  <1> DEFINE s == Starts(rs)
             T == {k \in 0 .. n : k > 0 => s[k] \in Int}
  <1>3. \A k \in 1 .. n : s[k] = (IF k = 1 THEN job.part ELSE s[k - 1]) + rs[k].off
    BY <1>2 DEF Adds
  <1>4. \A k \in 1 .. n : rs[k].off \in Int /\ rs[k].len \in Nat
    <2>1. \A k \in 1 .. n : rs[k] \in Run
      BY ElementOfSeq
    <2> QED
      BY <2>1 DEF Run
  <1> HIDE DEF s
  <1>5. 0 \in T
    OBVIOUS
  <1>6. ASSUME NEW k \in 0 .. n - 1, k \in T PROVE k + 1 \in T
    <2>1. k + 1 \in 1 .. n /\ (k + 1) - 1 = k /\ (k + 1 = 1 <=> k = 0) /\ job.part \in Int
      BY JobType
    <2>2. s[k + 1] = (IF k = 0 THEN job.part ELSE s[k]) + rs[k + 1].off
      BY <1>3, <2>1
    <2>3. (IF k = 0 THEN job.part ELSE s[k]) \in Int
      BY <1>6, <2>1
    <2>4. s[k + 1] \in Int
      BY <1>4, <2>1, <2>2, <2>3
    <2> QED
      BY <2>1, <2>4
  <1>7. 0 .. n \subseteq T
    <2> HIDE DEF T
    <2> QED
      BY <1>5, <1>6, InductionUpTo
  <1>8. \A k \in 1 .. n : s[k] \in Int
    BY <1>7
  <1> QED
    BY <1>3, <1>4, <1>8 DEF s

\* The clusters of a run are those that LocateData reads of it.
LEMMA PiecesType ==
  ASSUME job \in Jobs, NEW rs \in Seq(Run), NEW n \in Nat, n = Len(rs)
  PROVE  /\ Pieces(rs) \in Seq(Content) /\ Len(Pieces(rs)) = n
         /\ \A k \in 1 .. n :
              Pieces(rs)[k] = IF IsRead(rs[k])
                              THEN <<[at |-> Starts(rs)[k], len |-> rs[k].len]>> ELSE <<>>
  <1>1. DOMAIN rs = 1 .. n
    BY LenProperties
  <1>2. \A k \in 1 .. n :
          Pieces(rs)[k] = IF IsRead(rs[k])
                          THEN <<[at |-> Starts(rs)[k], len |-> rs[k].len]>> ELSE <<>>
    BY <1>1 DEF Pieces, IsRead
  <1>3. \A k \in 1 .. n : Pieces(rs)[k] \in Content
    <2> SUFFICES ASSUME NEW k \in 1 .. n PROVE Pieces(rs)[k] \in Content
      OBVIOUS
    <2>1. [at |-> Starts(rs)[k], len |-> rs[k].len] \in Chunk
      BY StartsAt DEF Chunk
    <2>2. \A c \in Chunk : <<c>> \in Seq(Chunk)
      OBVIOUS
    <2>3. <<>> \in Seq(Chunk)
      OBVIOUS
    <2> QED
      BY <1>2, <2>1, <2>2, <2>3, Zenon DEF Content
  <1>4. Pieces(rs) = [k \in 1 .. n |-> Pieces(rs)[k]]
    BY <1>1 DEF Pieces
  <1>5. Pieces(rs) \in Seq(Content) /\ Len(Pieces(rs)) = n
    <2> DEFINE p == Pieces(rs)
    <2>1. p = [k \in 1 .. n |-> p[k]] /\ \A k \in 1 .. n : p[k] \in Content
      BY <1>3, <1>4
    <2> HIDE DEF p
    <2>2. p \in [1 .. n -> Content]
      BY <2>1
    <2>3. p \in Seq(Content) /\ Len(p) = n
      BY <2>2
    <2> QED
      BY <2>3 DEF p
  <1> QED
    BY <1>2, <1>5

\* Reading a run puts its clusters behind those that have been read.
LEMMA ReadNext ==
  ASSUME job \in Jobs, NEW rs \in Seq(Run)
  PROVE  /\ Read(rs, 0) = <<>>
         /\ \A k \in 0 .. Len(rs) - 1 :
              Read(rs, k + 1) =
                IF IsRead(rs[k + 1])
                THEN Append(Read(rs, k), [at |-> Starts(rs)[k + 1], len |-> rs[k + 1].len])
                ELSE Read(rs, k)
  <1>1. PICK n \in Nat : n = Len(rs)
    BY LenProperties
  <1>2. Pieces(rs) \in Seq(Seq(Chunk)) /\ Len(Pieces(rs)) = n
    BY <1>1, PiecesType DEF Content
  <1>3. Read(rs, 0) = <<>>
    <2>1. SubSeq(Pieces(rs), 1, 0) = <<>>
      BY SubSeqEmpty
    <2> QED
      BY <2>1, FlattenEmpty DEF Read
  <1>4. ASSUME NEW k \in 0 .. n - 1
        PROVE  Read(rs, k + 1) =
                 IF IsRead(rs[k + 1])
                 THEN Append(Read(rs, k), [at |-> Starts(rs)[k + 1], len |-> rs[k + 1].len])
                 ELSE Read(rs, k)
    <2>1. k + 1 \in 1 .. n /\ k \in 0 .. n
      OBVIOUS
    <2>2. Read(rs, k + 1) = Read(rs, k) \o Pieces(rs)[k + 1]
      BY <1>2, FlattenNext DEF Read
    <2>3. PICK b \in Seq(Chunk) : b = Read(rs, k)
      <3>1. SubSeq(Pieces(rs), 1, k) \in Seq(Seq(Chunk))
        BY <1>2, <2>1, FirstOnes
      <3> QED
        BY <3>1, FlattenType DEF Read
    <2>4. CASE IsRead(rs[k + 1])
      <3>1. Starts(rs)[k + 1] \in Int /\ rs[k + 1].len \in Nat
        BY <1>1, <2>1, StartsAt
      <3>2. [at |-> Starts(rs)[k + 1], len |-> rs[k + 1].len] \in Chunk
        BY <3>1 DEF Chunk
      <3>3. PICK c \in Chunk : c = [at |-> Starts(rs)[k + 1], len |-> rs[k + 1].len]
        BY <3>2
      <3>4. Pieces(rs)[k + 1] = <<c>>
        BY <1>1, <2>1, <2>4, <3>3, PiecesType
      <3>5. b \o <<c>> = Append(b, c)
        BY AppendIsConcat
      <3> QED
        BY <2>2, <2>3, <2>4, <3>3, <3>4, <3>5
    <2>5. CASE ~IsRead(rs[k + 1])
      <3>1. Pieces(rs)[k + 1] = <<>>
        BY <1>1, <2>1, <2>5, PiecesType
      <3>2. b \o <<>> = b
        BY ConcatEmptySeq
      <3> QED
        BY <2>2, <2>3, <2>5, <3>1, <3>2
    <2> QED
      BY <2>4, <2>5
  <1> QED
    BY <1>1, <1>3, <1>4

\* The walk ends at the end of the list or at the first run beyond the disk: then all
\* clusters of the file have been read.
LEMMA WalkEnds ==
  ASSUME job \in Jobs, NEW rs \in Seq(Run), NEW k \in 0 .. Len(rs),
         \A l \in 1 .. k : l \notin OffDisk(rs), k = Len(rs) \/ k + 1 \in OffDisk(rs)
  PROVE  Mapped(rs) = Read(rs, k)
  <1>1. PICK n \in Nat : n = Len(rs)
    BY LenProperties
  <1>2. OffDisk(rs) \in SUBSET (1 .. n)
    BY <1>1, LenProperties DEF OffDisk
  <1>3. Inside(rs) = k
    <2>1. CASE OffDisk(rs) = {}
      BY <2>1 DEF Inside
    <2>2. CASE OffDisk(rs) # {}
      <3>1. PICK D \in SUBSET Nat : D = OffDisk(rs)
        BY <1>2
      <3>2. Min(D) \in D /\ \A x \in D : Min(D) <= x
        BY <2>2, <3>1, MinOfNaturals
      <3>3. PICK m \in 1 .. n : m = Min(D)
        BY <1>2, <3>1, <3>2
      <3>4. m > k
        BY <3>1, <3>2, <3>3
      <3>5. k + 1 \in D
        BY <1>1, <3>1, <3>4
      <3>6. m <= k + 1
        BY <3>2, <3>3, <3>5
      <3>7. m - 1 = k
        BY <3>4, <3>6
      <3> QED
        BY <2>2, <3>1, <3>3, <3>7 DEF Inside
    <2> QED
      BY <2>1, <2>2
  <1> QED
    BY <1>3 DEF Mapped, Read

-----------------------------------------------------------------------------
(* The invariant.                                                          *)

\* What is left of a sequence behind its first part.
LEMMA RestOfConcat ==
  ASSUME NEW S, NEW a \in Seq(S), NEW b \in Seq(S), b # <<>>
  PROVE  SubSeq(a \o b, Len(a) + 1, Len(a \o b)) = b
  <1>1. PICK m \in Nat, n \in Nat : m = Len(a) /\ n = Len(b)
    BY LenProperties
  <1>2. n # 0 /\ Len(a \o b) = m + n
    BY <1>1, ConcatProperties, EmptySeq
  <1>3. m + 1 \in m + 1 .. m + n /\ m + n \in m + 1 .. m + n
    BY <1>2
  <1>4. SubSeq(a \o b, m + 1, m + n) = SubSeq(b, (m + 1) - m, (m + n) - m)
    BY <1>1, <1>3, SubSeqOfConcat2
  <1>5. (m + 1) - m = 1 /\ (m + n) - m = n
    OBVIOUS
  <1>6. SubSeq(b, 1, n) = b
    BY <1>1, SubSeqFull
  <1> QED
    BY <1>1, <1>2, <1>4, <1>5, <1>6

\* Before the call nothing has been sent.
LEMMA InitSInv == Init => SInv
  <1> SUFFICES ASSUME Init PROVE SInv
    OBVIOUS
  <1>1. IInv /\ job \in Jobs
    BY InitIInv DEF Init
  <1>2. sent = <<>> /\ i = 1 /\ wpc = "idle" /\ Len(sent) = 0
    BY DEF Init
  <1>3. Planned(0) = <<>> /\ Len(Units) \in Nat /\ Len(records) \in Nat
    BY <1>1, PlannedNext, JobType, LenProperties
  <1>4. SentAsPlanned
    BY <1>2, <1>3 DEF SentAsPlanned
  <1>5. Placed
    BY <1>2, <1>3 DEF Placed
  <1>6. Reading
    BY <1>2 DEF Reading
  <1> QED
    BY <1>1, <1>4, <1>5, <1>6 DEF SInv

\* Steps that leave what LocateData has do not change what is said of it.
LEMMA ReadingKept ==
  ASSUME Reading, job' = job, todo' = todo,
         \/ wpc' = wpc /\ UNCHANGED locateVars
         \/ wpc' \notin {"run", "send"}
  PROVE  Reading'
  BY PlanFixed DEF Reading, locateVars

\* Steps that send nothing leave what is said of the results.
LEMMA SentKept ==
  ASSUME SentAsPlanned, job' = job, sent' = sent
  PROVE  SentAsPlanned'
  BY PlanFixed DEF SentAsPlanned

\* Steps that leave Worker where it is leave its place in the plan.
LEMMA PlacedKept ==
  ASSUME Placed, job' = job, UNCHANGED <<i, sent, todo>>,
         \/ wpc' = wpc
         \/ wpc = "idle" /\ wpc' = "record"
         \/ wpc \in {"locate", "run", "send"} /\ wpc' \in {"locate", "run", "send"}
         \/ wpc = "return" /\ wpc' = "done"
  PROVE  Placed'
  BY PlanFixed DEF Placed

\* NextRecord: a folder adds nothing to the plan, another record what is to be located.
LEMMA NextRecordPlaced ==
  ASSUME SInv, NextRecord
  PROVE  Placed'
  <1>1. /\ job \in Jobs /\ i \in Nat \ {0} /\ Len(records) \in Nat /\ i <= Len(records)
        /\ wpc = "record" /\ Len(sent) = Len(Planned(i - 1)) /\ sent' = sent /\ job' = job
    BY JobType DEF SInv, IInv, TypeOK, NextRecord, Placed, workVars
  <1>2. PICK k \in 0 .. Len(records) - 1 : k = i - 1 /\ k + 1 = i
    BY <1>1
  <1>3. /\ Planned(k) \in Seq(Rec) /\ Planned(i) = Planned(k) \o Parts[i]
        /\ i \in 1 .. Len(records)
    <2>1. Planned(k) \in Seq(Rec) /\ Planned(k + 1) = Planned(k) \o Parts[k + 1]
      BY <1>1, PlannedNext
    <2>2. i \in 1 .. Len(records)
      BY <1>1
    <2> QED
      BY <1>2, <2>1, <2>2
  <1>4. Parts[i] = IF mft[records[i]].folder THEN <<>> ELSE WorkOf(records[i])
    BY <1>1, <1>3, PartsType
  <1>5. CASE mft[records[i]].folder
    <2>1. i' = i + 1 /\ wpc' = "record" /\ i' - 1 = i
      BY <1>1, <1>5 DEF NextRecord
    <2>2. Planned(i) = Planned(k)
      BY <1>3, <1>4, <1>5, ConcatEmptySeq
    <2> QED
      BY <1>1, <1>2, <2>1, <2>2, PlanFixed DEF Placed
  <1>6. CASE ~mft[records[i]].folder
    <2>1. i' = i /\ wpc' = "locate" /\ todo' = WorkOf(records[i])
      BY <1>1, <1>6 DEF NextRecord
    <2>2. WorkOf(records[i]) \in Seq(Rec) /\ WorkOf(records[i]) # <<>>
      BY <1>1, <1>3, PartsType, WorkType
    <2>3. WorkOf(records[i]) = SubSeq(Planned(i), Len(sent) + 1, Len(Planned(i)))
      BY <1>1, <1>2, <1>3, <1>4, <1>6, <2>2, RestOfConcat
    <2> QED
      BY <1>1, <2>1, <2>3, PlanFixed DEF Placed
  <1> QED
    BY <1>5, <1>6

\* SendResult: the next result of the plan, and the rest of the units of the record.
LEMMA SendInPlan ==
  ASSUME SInv, SendResult
  PROVE  SentAsPlanned' /\ Placed'
  <1> DEFINE r == Head(todo)
             res == [rec |-> r, fname |-> GetFname(r), id |-> mft[r].entry, content |-> buf]
  <1>1. /\ job \in Jobs /\ i \in Nat \ {0} /\ i <= Len(records) /\ Len(records) \in Nat
        /\ todo \in Seq(Rec) /\ todo # <<>> /\ sent \in Seq(Result) /\ buf \in Content
    BY JobType DEF SInv, IInv, TypeOK, Protocol, SendResult
  <1>2. /\ todo = SubSeq(Planned(i), Len(sent) + 1, Len(Planned(i)))
        /\ buf = ContentOf(r) /\ SentAsPlanned
    BY DEF SInv, Placed, Reading, SendResult
  <1>3. /\ sent' = Append(sent, res) /\ todo' = Tail(todo) /\ job' = job
        /\ IF Tail(todo) = <<>> THEN wpc' = "record" /\ i' = i + 1
                                ELSE wpc' = "locate" /\ i' = i
    BY DEF SendResult
  <1>4. i \in 0 .. Len(records)
    BY <1>1
  <1>5. /\ Planned(i) \in Seq(Rec) /\ Units \in Seq(Rec) /\ Len(Planned(i)) <= Len(Units)
        /\ \A n \in 1 .. Len(Planned(i)) : Units[n] = Planned(i)[n]
    BY <1>1, <1>4, PlannedFirst
  <1>6. PICK P \in Seq(Rec), N \in Nat, n \in Nat, U \in Nat :
          P = Planned(i) /\ N = Len(Planned(i)) /\ n = Len(sent) /\ U = Len(Units)
    BY <1>1, <1>5, LenProperties
  <1>7. n < N
    <2> SUFFICES ASSUME N < n + 1 PROVE FALSE
      BY <1>6
    <2> QED
      BY <1>1, <1>2, <1>6, SubSeqEmpty
  <1>8. /\ Head(todo) = P[n + 1] /\ Tail(todo) = SubSeq(P, n + 2, N)
        /\ Len(Tail(todo)) = N - (n + 1)
    <2>1. n \in 0 .. N /\ N = Len(P) /\ todo = SubSeq(P, n + 1, N)
      BY <1>2, <1>6, <1>7
    <2> QED
      BY <1>1, <2>1, LastOnes
  <1>9. r = Units[n + 1] /\ n + 1 <= U
    <2>1. n + 1 \in 1 .. N
      BY <1>7
    <2> QED
      BY <1>5, <1>6, <1>7, <1>8, <2>1
  <1>10. res = ResultOf(Units[n + 1])
    BY <1>2, <1>9, Zenon DEF ResultOf
  <1>11. /\ Len(sent') = n + 1 /\ sent'[n + 1] = res
         /\ \A k \in 1 .. n : sent'[k] = sent[k]
    <2>1. r \in Rec
      BY <1>1, HeadTailProperties
    <2>2. res \in Result
      BY <1>1, <2>1, SentType
    <2> HIDE DEF res
    <2> QED
      BY <1>1, <1>3, <1>6, <2>2, AppendProperties
  <1> HIDE DEF r, res
  <1>12. SentAsPlanned'
    <2>1. \A k \in 1 .. n + 1 : sent'[k] = ResultOf(Units[k])
      <3>1. ASSUME NEW k \in 1 .. n + 1 PROVE sent'[k] = ResultOf(Units[k])
        <4>1. CASE k = n + 1
          BY <1>10, <1>11, <4>1
        <4>2. CASE k # n + 1
          <5>1. k \in 1 .. n
            BY <4>2
          <5> QED
            BY <1>2, <1>6, <1>11, <5>1 DEF SentAsPlanned
        <4> QED
          BY <4>1, <4>2
      <3> QED
        BY <3>1
    <2>2. Len(sent') <= Len(Units)
      BY <1>6, <1>9, <1>11
    <2> QED
      BY <1>3, <1>11, <2>1, <2>2, PlanFixed DEF SentAsPlanned
  <1>13. Placed'
    <2>1. CASE Tail(todo) = <<>>
      <3>1. wpc' = "record" /\ i' = i + 1 /\ i' - 1 = i
        BY <1>1, <1>3, <2>1
      <3>2. N = n + 1
        <4>1. Len(Tail(todo)) = 0
          <5>1. Len(<<>>) = 0
            OBVIOUS
          <5> QED
            BY <2>1, <5>1
        <4> QED
          BY <1>6, <1>8, <4>1
      <3> QED
        BY <1>1, <1>3, <1>6, <1>11, <3>1, <3>2, PlanFixed DEF Placed
    <2>2. CASE Tail(todo) # <<>>
      <3>1. wpc' = "locate" /\ i' = i
        BY <1>3, <2>2
      <3>2. todo' = SubSeq(P, Len(sent') + 1, N)
        <4>1. (n + 1) + 1 = n + 2
          OBVIOUS
        <4> QED
          BY <1>3, <1>8, <1>11, <4>1
      <3> QED
        BY <1>3, <1>6, <3>1, <3>2, PlanFixed DEF Placed
    <2> QED
      BY <2>1, <2>2
  <1> QED
    BY <1>12, <1>13

\* CloseResults: behind the last record the plan is exhausted.
LEMMA ClosePlaced ==
  ASSUME SInv, CloseResults
  PROVE  Placed'
  <1>1. /\ job \in Jobs /\ i \in Nat \ {0} /\ Len(records) \in Nat /\ i > Len(records)
        /\ i - 1 <= Len(records) /\ Len(sent) = Len(Planned(i - 1))
        /\ wpc' = "return" /\ sent' = sent /\ job' = job
    BY JobType DEF SInv, IInv, TypeOK, CloseResults, Placed
  <1>2. i - 1 = Len(records)
    BY <1>1
  <1>3. Len(sent) = Len(Units)
    BY <1>1, <1>2, PlannedNext
  <1> QED
    BY <1>1, <1>3, PlanFixed DEF Placed

\* LocateData: a resident attribute is the content, of a run list no run has been read.
LEMMA LocateReading ==
  ASSUME SInv, LocateData
  PROVE  Reading'
  <1>1. /\ job \in Jobs /\ todo \in Seq(Rec) /\ todo # <<>> /\ wpc = "locate"
        /\ job' = job /\ todo' = todo
    BY DEF SInv, IInv, TypeOK, Protocol, LocateData
  <1>2. Head(todo) \in Rec
    BY <1>1, HeadTailProperties
  <1>3. CASE HasResidentDataAttr(Head(todo)) /\ wpc' = "send"
             /\ buf' = <<[at |-> -1, len |-> mft[Head(todo)].data.size]>>
    <2>1. buf' = ContentOf(Head(todo))
      BY <1>3 DEF ContentOf, HasResidentDataAttr
    <2> QED
      BY <1>1, <1>3, <2>1, PlanFixed DEF Reading
  <1>4. CASE ~HasResidentDataAttr(Head(todo)) /\ wpc' = "run"
             /\ run' = 1 /\ offset' = job.part /\ buf' = <<>>
    <2>1. PICK rs \in Seq(Run) : rs = RunListOf(Head(todo))
      BY <1>1, <1>2, RunListType
    <2>2. Len(rs) \in Nat /\ Read(rs, 0) = <<>>
      BY <1>1, ReadNext, LenProperties
    <2>3. run' - 1 = 0 /\ (\A k \in 1 .. 0 : k \notin OffDisk(rs))
      BY <1>4
    <2> QED
      BY <1>1, <1>4, <2>1, <2>2, <2>3, PlanFixed DEF Reading
  <1>5. CASE wpc' = wpc
    BY <1>1, <1>5 DEF Reading
  <1> QED
    BY <1>3, <1>4, <1>5 DEF LocateData

\* ReadRun: one run more, or all that the list has on the disk.
LEMMA ReadRunReading ==
  ASSUME SInv, ReadRun
  PROVE  Reading'
  <1>1. /\ job \in Jobs /\ todo \in Seq(Rec) /\ todo # <<>> /\ wpc = "run"
        /\ job' = job /\ todo' = todo /\ run \in Nat \ {0}
    BY DEF SInv, IInv, TypeOK, Protocol, ReadRun
  <1>2. PICK rs \in Seq(Run) : rs = RunListOf(Head(todo))
    BY <1>1, HeadTailProperties, RunListType
  <1>3. PICK n \in Nat : n = Len(rs)
    BY LenProperties
  <1>4. /\ ~HasResidentDataAttr(Head(todo))
        /\ run - 1 <= n /\ \A k \in 1 .. run - 1 : k \notin OffDisk(rs)
        /\ offset = IF run = 1 THEN job.part ELSE Starts(rs)[run - 1]
        /\ buf = Read(rs, run - 1)
    BY <1>1, <1>2, <1>3 DEF SInv, Reading
  <1>5. PICK k \in 0 .. n : k = run - 1 /\ k + 1 = run
    BY <1>1, <1>4
  <1>6. ASSUME wpc' = "send", buf' = buf, k = n \/ k + 1 \in OffDisk(rs)
        PROVE  Reading'
    <2>1. Mapped(rs) = buf
      BY <1>1, <1>3, <1>4, <1>5, <1>6, WalkEnds
    <2>2. ContentOf(Head(todo)) = buf
      BY <1>2, <1>4, <2>1 DEF ContentOf, HasResidentDataAttr
    <2> QED
      BY <1>1, <1>6, <2>2, PlanFixed DEF Reading
  <1>7. CASE run > n
    <2>1. wpc' = "send" /\ buf' = buf
      BY <1>2, <1>3, <1>7 DEF ReadRun, locateVars
    <2>2. k = n
      BY <1>5, <1>7
    <2> QED
      BY <1>6, <2>1, <2>2
  <1>8. CASE run <= n
    <2> DEFINE at == offset + rs[run].off
    <2>0. run \in 1 .. n
      BY <1>1, <1>8
    <2>1. at = Starts(rs)[run]
      BY <1>1, <1>3, <1>4, <2>0, StartsAt
    <2>2. /\ offset' = at
          /\ IF at > job.disk
             THEN wpc' = "send" /\ buf' = buf
             ELSE /\ buf' = IF IsRead(rs[run]) THEN Append(buf, [at |-> at, len |-> rs[run].len])
                                              ELSE buf
                  /\ run' = run + 1 /\ wpc' = wpc
      BY <1>1, <1>2, <1>3, <1>8 DEF ReadRun, NextRun
    <2> HIDE DEF at
    <2>3. run \in OffDisk(rs) <=> at > job.disk
      <3>1. DOMAIN rs = 1 .. n
        BY <1>3, LenProperties
      <3> QED
        BY <2>0, <2>1, <3>1 DEF OffDisk
    <2>4. CASE at > job.disk
      BY <1>5, <1>6, <2>2, <2>3, <2>4
    <2>5. CASE ~(at > job.disk)
      <3>1. wpc' = "run" /\ run' = run + 1 /\ offset' = at /\ run' - 1 = run /\ run' # 1
        BY <1>1, <2>2, <2>5
      <3>2. buf' = Read(rs, run)
        <4>1. k \in 0 .. n - 1
          BY <1>5, <1>8
        <4>2. Read(rs, k + 1) =
                IF IsRead(rs[k + 1])
                THEN Append(Read(rs, k), [at |-> Starts(rs)[k + 1], len |-> rs[k + 1].len])
                ELSE Read(rs, k)
          BY <1>1, <1>3, <4>1, ReadNext
        <4> QED
          BY <1>4, <1>5, <2>1, <2>2, <2>5, <4>2
      <3>3. \A l \in 1 .. run : l \notin OffDisk(rs)
        <4>1. \A l \in 1 .. run : l \in 1 .. run - 1 \/ l = run
          BY <1>1
        <4> QED
          BY <1>4, <2>3, <2>5, <4>1
      <3> QED
        BY <1>1, <1>2, <1>3, <1>4, <1>8, <2>1, <3>1, <3>2, <3>3, PlanFixed DEF Reading
    <2> QED
      BY <2>4, <2>5
  <1> QED
    BY <1>1, <1>3, <1>7, <1>8

\* Every step keeps what was sent the beginning of the plan.
LEMMA SInvStep == SInv /\ [Next]_vars => SInv'
  <1> SUFFICES ASSUME SInv, [Next]_vars PROVE SInv'
    OBVIOUS
  <1> USE DEF mainVars, workVars, locateVars, exportVars
  <1>1. IInv' /\ IInv /\ SentAsPlanned /\ Placed /\ Reading
    BY IInvStep DEF SInv
  <1> SUFFICES SentAsPlanned' /\ Placed' /\ Reading'
    BY <1>1 DEF SInv
  <1>2. CASE ExportRecords
    <2>1. /\ job' = job /\ todo' = todo /\ sent' = sent /\ i' = i /\ wpc = "idle"
          /\ wpc' \in {"idle", "record"}
      BY <1>1, <1>2 DEF IInv, Protocol, ExportRecords
    <2> QED
      BY <1>1, <2>1, SentKept, PlacedKept, ReadingKept
  <1>3. CASE NextRecord
    <2>1. Placed'
      BY <1>3, NextRecordPlaced
    <2>2. SentAsPlanned'
      BY <1>1, <1>3, SentKept DEF NextRecord
    <2>3. wpc' \in {"record", "locate"}
      BY <1>3 DEF NextRecord
    <2>4. Reading'
      BY <2>3 DEF Reading
    <2> QED
      BY <2>1, <2>2, <2>4
  <1>4. CASE LocateData
    <2>1. /\ job' = job /\ todo' = todo /\ sent' = sent /\ i' = i /\ wpc = "locate"
          /\ wpc' \in {"locate", "run", "send"}
      BY <1>4 DEF LocateData
    <2> QED
      BY <1>1, <1>4, <2>1, SentKept, PlacedKept, LocateReading
  <1>5. CASE ReadRun
    <2>1. /\ job' = job /\ todo' = todo /\ sent' = sent /\ i' = i /\ wpc = "run"
          /\ wpc' \in {"run", "send"}
      BY <1>5 DEF ReadRun
    <2> QED
      BY <1>1, <1>5, <2>1, SentKept, PlacedKept, ReadRunReading
  <1>6. CASE SendResult
    <2>1. wpc' \in {"record", "locate"}
      BY <1>6 DEF SendResult
    <2>2. Reading'
      BY <2>1 DEF Reading
    <2> QED
      BY <1>6, <2>2, SendInPlan
  <1>7. CASE CloseResults
    <2>1. job' = job /\ sent' = sent /\ wpc' = "return"
      BY <1>7 DEF CloseResults
    <2>2. Reading'
      BY <2>1 DEF Reading
    <2> QED
      BY <1>1, <1>7, <2>1, <2>2, SentKept, ClosePlaced
  <1>8. CASE WorkerReturns
    <2>1. /\ job' = job /\ todo' = todo /\ sent' = sent /\ i' = i
          /\ wpc = "return" /\ wpc' = "done"
      BY <1>8 DEF WorkerReturns
    <2> QED
      BY <1>1, <2>1, SentKept, PlacedKept, ReadingKept
  <1>9. CASE UNCHANGED <<job, wpc, i, todo, run, offset, buf, sent>>
    BY <1>1, <1>9, SentKept, PlacedKept, ReadingKept
  <1>10. WaitReturns \/ HashFiles \/ ExportData \/ UNCHANGED vars
           => UNCHANGED <<job, wpc, i, todo, run, offset, buf, sent>>
    BY DEF WaitReturns, HashFiles, ExportData, Receive, RemoveFile, RemoveFails, OpenFile,
       OpenFails, WriteFile, WriteFails, ExportDataReturns, vars
  <1> QED
    BY <1>2, <1>3, <1>4, <1>5, <1>6, <1>7, <1>8, <1>9, <1>10 DEF Next, Ended, Main, Worker

\* What has been sent is the beginning of the plan in every reachable state.
LEMMA SInvAlways == Spec => []SInv
  BY InitSInv, SInvStep, PTL DEF Spec

-----------------------------------------------------------------------------
(* The refinement.                                                         *)

\* What the sequential loop sees of main.
Status == IF mpc \in {"hash", "done"} \/ records = <<>> THEN "returned"
          ELSE IF crashed THEN "aborted" ELSE "running"

\* The plan has a path and a content for every unit; without records there is none.
LEMMA PlanOfUnits ==
  ASSUME job \in Jobs
  PROVE  /\ Len(Plan) = Len(Units) /\ Len(Units) \in Nat
         /\ \A k \in 1 .. Len(Units) :
              Plan[k].path = PathOf(ResultOf(Units[k])) /\ Plan[k].content = ContentOf(Units[k])
         /\ records = <<>> => Plan = <<>> /\ Len(Units) = 0
  <1>1. Units \in Seq(Rec) /\ Planned(Len(records)) = Units /\ Planned(0) = <<>>
    BY PlannedNext
  <1>2. PICK n \in Nat : n = Len(Units) /\ DOMAIN Units = 1 .. n
    BY <1>1, LenProperties
  <1>3. \A k \in 1 .. n :
          Plan[k].path = PathOf(ResultOf(Units[k])) /\ Plan[k].content = ContentOf(Units[k])
    BY <1>2 DEF Plan, PathOf, NameOf, ResultOf, NoId
  <1>4. Len(Plan) = n
    <2> DEFINE F(k) == [path |-> [id |-> IF job.strategy = "Id" THEN mft[Units[k]].entry ELSE -1,
                                  name |-> GetFname(Units[k])],
                        content |-> ContentOf(Units[k])]
    <2>1. Plan = [k \in 1 .. n |-> F(k)]
      BY <1>2 DEF Plan
    <2> HIDE DEF F
    <2> QED
      BY <2>1
  <1>5. ASSUME records = <<>> PROVE Plan = <<>> /\ Len(Units) = 0
    <2>1. Len(records) = 0
      BY <1>5
    <2>2. n = 0
      BY <1>1, <1>2, <2>1
    <2>3. 1 .. n = {}
      BY <2>2
    <2> QED
      BY <1>2, <2>2, <2>3 DEF Plan
  <1> QED
    BY <1>2, <1>3, <1>4, <1>5

\* The result in hand is the one of the plan that the loop deals with.
LEMMA CurrentOfPlan ==
  ASSUME SInv, epc \in {"remove", "open", "append"}, ~crashed
  PROVE  /\ Len(written) \in Nat /\ Len(written) < Len(Plan) /\ Status = "running"
         /\ Plan[Len(written) + 1].path = Path
         /\ Plan[Len(written) + 1].content = item.content
         /\ written \in Seq(Result) /\ item \in Result
  <1>1. /\ job \in Jobs /\ item \in Result /\ item # NoItem
        /\ written \in Seq(Result) /\ results \in Seq(Result)
        /\ sent = written \o <<item>> \o results
    BY DEF SInv, IInv, TypeOK, Delivered, InHand
  <1>2. PICK w \in Seq(Result), q \in Seq(Result) : w = written /\ q = results
    BY <1>1
  <1>3. PICK m \in Nat, l \in Nat : m = Len(w) /\ l = Len(q)
    BY LenProperties
  <1>4. <<item>> \in Seq(Result) /\ Len(<<item>>) = 1 /\ <<item>>[1] = item
    BY <1>1
  <1>5. w \o <<item>> \in Seq(Result) /\ Len(w \o <<item>>) = m + 1 /\ (w \o <<item>>)[m + 1] = item
    <2>1. m + 1 \in 1 .. m + 1 /\ ~(m + 1 <= m) /\ (m + 1) - m = 1
      OBVIOUS
    <2> QED
      BY <1>3, <1>4, <2>1, ConcatProperties
  <1>6. Len(sent) = m + 1 + l /\ sent[m + 1] = item
    <2>1. m + 1 \in 1 .. m + 1 + l /\ m + 1 <= m + 1
      OBVIOUS
    <2>2. sent = (w \o <<item>>) \o q
      BY <1>1, <1>2
    <2> QED
      BY <1>3, <1>5, <2>1, <2>2, ConcatProperties
  <1>7. /\ Len(Plan) = Len(Units) /\ Len(Units) \in Nat
        /\ records = <<>> => Len(Units) = 0
        /\ \A k \in 1 .. Len(Units) :
             Plan[k].path = PathOf(ResultOf(Units[k])) /\ Plan[k].content = ContentOf(Units[k])
    BY <1>1, PlanOfUnits
  <1>8. /\ Len(sent) <= Len(Units) /\ m + 1 \in 1 .. Len(Units) /\ item = ResultOf(Units[m + 1])
    <2>1. Len(sent) <= Len(Units) /\ \A k \in 1 .. Len(sent) : sent[k] = ResultOf(Units[k])
      BY DEF SInv, SentAsPlanned
    <2>2. m + 1 \in 1 .. Len(sent) /\ m + 1 \in 1 .. Len(Units)
      BY <1>6, <1>7, <2>1
    <2> QED
      BY <1>6, <2>1, <2>2
  <1>9. Plan[m + 1].path = Path
    BY <1>7, <1>8 DEF Path, PathOf
  <1>10. Plan[m + 1].content = item.content
    BY <1>7, <1>8 DEF ResultOf
  <1>11. Status = "running"
    <2>1. mpc \notin {"hash", "done"}
      BY <1>1 DEF SInv, IInv, Protocol
    <2>2. records # <<>>
      BY <1>7, <1>8
    <2> QED
      BY <2>1, <2>2 DEF Status
  <1>12. m < Len(Plan)
    BY <1>7, <1>8
  <1> QED
    BY <1>1, <1>2, <1>3, <1>9, <1>10, <1>11, <1>12

\* wg.Wait returns when the plan is exhausted.
LEMMA PlanExhausted ==
  ASSUME SInv, mpc = "wait", wg = 0
  PROVE  Len(written) = Len(Plan) /\ epc = "done"
  <1>1. wpc = "done" /\ epc = "done" /\ results = <<>> /\ item = NoItem
    BY DEF SInv, IInv, Protocol, Running, TypeOK
  <1>2. sent = written \o <<>> \o <<>> /\ written \in Seq(Result) /\ job \in Jobs
    BY <1>1 DEF SInv, IInv, TypeOK, Delivered, InHand
  <1>3. written \o <<>> = written
    BY <1>2, ConcatEmptySeq
  <1>4. Len(sent) = Len(Units)
    BY <1>1 DEF SInv, Placed
  <1> QED
    BY <1>1, <1>2, <1>3, <1>4, PlanOfUnits

\* Receiving a result and everything that Worker does leaves the loop where it is, but for
\* a panic, which aborts it.
LEMMA OthersStutter ==
  ASSUME SInv, ~crashed, Worker \/ Receive \/ ExportDataReturns \/ ExportRecords \/ HashFiles
  PROVE  [Sequential!Next]_(Sequential!vars)
  <1> USE DEF mainVars, workVars, locateVars, exportVars
  <1>1. job' = job /\ files' = files /\ written' = written
    BY DEF Worker, NextRecord, LocateData, ReadRun, SendResult, CloseResults, WorkerReturns,
       Receive, ExportDataReturns, ExportRecords, HashFiles
  <1>2. epc' = epc \/ {epc, epc'} \intersect {"open", "append"} = {}
    BY DEF Worker, NextRecord, LocateData, ReadRun, SendResult, CloseResults, WorkerReturns,
       Receive, ExportDataReturns, ExportRecords, HashFiles, SInv, IInv, Protocol
  <1>3. Plan' = Plan /\ records' = records
    BY <1>1, PlanFixed
  <1>4. Status' = Status \/ (Status = "running" /\ Status' = "aborted")
    <2>1. CASE mpc' = mpc
      BY <1>3, <2>1 DEF Status
    <2>2. CASE mpc' # mpc
      <3>1. ExportRecords \/ HashFiles
        BY <2>2 DEF Worker, NextRecord, LocateData, ReadRun, SendResult, CloseResults,
           WorkerReturns, Receive, ExportDataReturns
      <3>2. CASE ExportRecords
        BY <1>3, <3>2 DEF Status, ExportRecords, AfterExport
      <3>3. CASE HashFiles
        BY <1>3, <3>3 DEF Status, HashFiles
      <3> QED
        BY <3>1, <3>2, <3>3
    <2> QED
      BY <2>1, <2>2
  <1>5. Len(written)' = Len(written)
    BY <1>1
  <1> QED
    BY <1>1, <1>2, <1>3, <1>4, <1>5
    DEF Sequential!Next, Sequential!Abort, Sequential!vars, Status

\* A step of the pipeline is one of the loop, or none: CreateFile is its body, wg.Wait
\* its return and a panic its end.
LEMMA StepRefines ==
  ASSUME SInv, [Next]_vars
  PROVE  [Sequential!Next]_(Sequential!vars)
  <1> USE DEF mainVars, workVars, locateVars, exportVars
  <1>1. CASE UNCHANGED vars
    <2>1. Plan' = Plan /\ records' = records
      BY <1>1, PlanFixed DEF vars
    <2> QED
      BY <1>1, <2>1 DEF vars, Sequential!vars
  <1>2. ASSUME ~crashed, RemoveFile \/ RemoveFails
        PROVE  Sequential!Remove
    <2>1. /\ job' = job /\ written' = written /\ mpc' = mpc /\ crashed' = crashed
          /\ epc = "remove" /\ epc' = "open"
          /\ files' = [files EXCEPT ![Path] = NoFile] \/ files' = files
      BY <1>2 DEF RemoveFile, RemoveFails, Removed
    <2>2. /\ Len(written) < Len(Plan) /\ Status = "running"
          /\ Plan[Len(written) + 1].path = Path
      BY <1>2, <2>1, CurrentOfPlan
    <2>3. Plan' = Plan /\ Status' = Status /\ Len(written)' = Len(written)
      BY <2>1, PlanFixed DEF Status
    <2> QED
      BY <2>1, <2>2, <2>3
      DEF Sequential!Remove, Sequential!Running, Sequential!Current, Status
  <1>3. ASSUME ~crashed, OpenFile \/ OpenFails \/ WriteFile \/ WriteFails
        PROVE  Sequential!Open \/ Sequential!Write
    <2>1. job' = job /\ mpc' = mpc /\ crashed' = crashed /\ epc \in {"open", "append"}
      BY <1>3 DEF OpenFile, OpenFails, WriteFile, WriteFails
    <2>2. /\ Len(written) < Len(Plan) /\ Status = "running"
          /\ Plan[Len(written) + 1].path = Path
          /\ Plan[Len(written) + 1].content = item.content
          /\ written \in Seq(Result) /\ item \in Result
      BY <1>3, <2>1, CurrentOfPlan
    <2>3. Plan' = Plan /\ Status' = Status
      BY <2>1, PlanFixed DEF Status
    <2>4. written' = Append(written, item) => Len(written') = Len(written) + 1
      BY <2>2, AppendProperties
    <2>5. CASE OpenFile
      <3>1. /\ epc = "open" /\ epc' = "append" /\ written' = written
            /\ files' = [files EXCEPT ![Path] = Sequential!Opened(@)]
        BY <2>5 DEF OpenFile, Opened, Sequential!Opened
      <3>2. Len(written') = Len(written)
        BY <3>1
      <3>3. Sequential!Open
        BY <2>2, <2>3, <3>1, <3>2
        DEF Sequential!Open, Sequential!Running, Sequential!Current, Status
      <3> QED
        BY <3>3
    <2>6. CASE OpenFails
      <3>1. /\ epc = "open" /\ epc' = "recv" /\ written' = Append(written, item)
            /\ files' = files
        BY <2>6 DEF OpenFails
      <3>2. Sequential!Open
        BY <2>2, <2>3, <2>4, <3>1
        DEF Sequential!Open, Sequential!Running, Sequential!Current, Sequential!Done, Status
      <3> QED
        BY <3>2
    <2>7. CASE WriteFile \/ WriteFails
      <3>1. epc = "append" /\ epc' = "recv" /\ written' = Append(written, item)
        BY <2>7 DEF WriteFile, WriteFails
      <3>2. PICK m \in Nat : m = Len(item.content) /\ item.content \in Seq(Chunk)
        BY <2>2, LenProperties DEF Result, Content
      <3>3. PICK n \in 0 .. m :
              files' = [files EXCEPT ![Path] = Sequential!Opened(@) \o SubSeq(item.content, 1, n)]
        <4>1. CASE WriteFile
          <5>1. SubSeq(item.content, 1, m) = item.content
            BY <3>2, SubSeqFull
          <5>2. files' = [files EXCEPT ![Path] = Sequential!Opened(@) \o SubSeq(item.content, 1, m)]
            BY <4>1, <5>1 DEF WriteFile, Opened, Sequential!Opened
          <5>3. m \in 0 .. m
            BY <3>2
          <5> QED
            BY <5>2, <5>3
        <4>2. CASE WriteFails
          <5>1. PICK n \in 0 .. m - 1 :
                  files' = [files EXCEPT ![Path] = Opened(@) \o SubSeq(item.content, 1, n)]
            BY <3>2, <4>2 DEF WriteFails
          <5>2. n \in 0 .. m
            OBVIOUS
          <5>3. files' = [files EXCEPT ![Path] = Sequential!Opened(@) \o SubSeq(item.content, 1, n)]
            BY <5>1 DEF Opened, Sequential!Opened
          <5> QED
            BY <5>2, <5>3
        <4> QED
          BY <2>7, <4>1, <4>2
      <3>4. Sequential!Write
        BY <2>2, <2>3, <2>4, <3>1, <3>2, <3>3
        DEF Sequential!Write, Sequential!Running, Sequential!Current, Sequential!Done, Status
      <3> QED
        BY <3>4
    <2> QED
      BY <1>3, <2>5, <2>6, <2>7
  <1>4. ASSUME ~crashed, WaitReturns
        PROVE  [Sequential!Next]_(Sequential!vars)
    <2>1. /\ job' = job /\ written' = written /\ mpc = "wait" /\ mpc' \in {"hash", "done"}
          /\ files' = files /\ epc' = epc /\ wg = 0
      BY <1>4 DEF WaitReturns, AfterExport
    <2>2. Len(written) = Len(Plan) /\ epc = "done"
      BY <2>1, PlanExhausted
    <2>3. Plan' = Plan /\ records' = records /\ Len(written)' = Len(written)
      BY <2>1, PlanFixed
    <2> QED
      BY <1>4, <2>1, <2>2, <2>3
      DEF Sequential!Next, Sequential!Return, Sequential!vars, Status
  <1> QED
    BY <1>1, <1>2, <1>3, <1>4, OthersStutter
    DEF Next, Ended, Main, ExportData, Sequential!Next

\* For every job the export changes the files as a loop over its plan does, whatever the
\* interleaving of the three goroutines, and returns when the plan is exhausted.
THEOREM ExportImplementsSequential == Spec => ImplementsSequential
  <1>1. Init => Sequential!Init
    <2> SUFFICES ASSUME Init PROVE Sequential!Init
      OBVIOUS
    <2>1. /\ job \in Jobs /\ written = <<>> /\ epc = "idle" /\ mpc = "call" /\ ~crashed
          /\ Len(written) = 0
      BY DEF Init
    <2>2. records = <<>> => Plan = <<>>
      BY <2>1, PlanOfUnits
    <2> QED
      BY <2>1, <2>2 DEF Sequential!Init
  <1>2. SInv /\ [Next]_vars => [Sequential!Next]_(Sequential!vars)
    BY StepRefines
  <1> QED
    BY <1>1, <1>2, SInvAlways, PTL DEF Spec, ImplementsSequential, Sequential!Spec
=============================================================================
