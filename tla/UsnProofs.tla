----------------------------- MODULE UsnProofs -----------------------------
(***************************************************************************)
(* Theorems about UsnJournal, for every set of jobs: the type invariant,   *)
(* the protocol of the WaitGroup and the two channels, which panics the    *)
(* data can cause, and that three goroutines collect, in order, what one   *)
(* loop over the same data collects.                                       *)
(***************************************************************************)
EXTENDS UsnJournal, SequenceLemmas

JournalRecord == [EntryRef: Seq(Half), FnameLen: Half]

-----------------------------------------------------------------------------
(* What is read from a job and from a chunk has the type it should have.   *)

\* A call of Process has $MFT records with runs.
LEMMA JobType ==
  ASSUME NEW j \in Jobs
  PROVE  /\ j.mftrecords \in Seq(Rec) /\ Len(j.mftrecords) \in Nat
         /\ \A x \in Rec : /\ j.mft[x].runs \in Seq(Run) /\ j.mft[x].links \in Seq(Rec)
                           /\ j.mft[x].size \in Nat
  BY JobsAssumption, LenProperties DEF Job, Record

\* GetRunList and LocateDataAsync: the record looked at is a record.
LEMMA WorkType ==
  ASSUME job \in Jobs, NEW x \in Rec
  PROVE  RunsOf(x) \in Seq(Run) /\ WorkOf(x) \in Seq(Rec)
  <1>1. RunListHolder(x) \in Rec
    BY JobType, HeadTailProperties DEF RunListHolder, mft
  <1>2. <<x>> \in Seq(Rec) /\ <<>> \in Seq(Rec)
    OBVIOUS
  <1> QED
    BY <1>1, <1>2, JobType DEF RunsOf, WorkOf, mft

\* A half is a natural number, and holds the lengths of all records.
LEMMA HalfRange == MaxHalf \in Nat /\ MaxHalf >= 1024 /\ Half = 0 .. MaxHalf
  <1>1. MaxHalf \in Nat /\ MaxHalf >= 1024
    BY DEF MaxHalf
  <1> QED
    BY <1>1 DEF Half

\* A function on the first numbers is a sequence, as are the halves in the middle of a record.
LEMMA FunctionIsSeq ==
  ASSUME NEW S, NEW m \in Nat, NEW f \in [1 .. m -> S]
  PROVE  f \in Seq(S)
  BY SeqDef

\* A name of 255 characters makes a record of no more than 72 times four halves.
LEMMA Quarters ==
  ASSUME NEW n \in Nat, n <= 255
  PROVE  (HeaderLength + n + 3) \div 4 \in Nat /\ (HeaderLength + n + 3) \div 4 <= 72
  BY DEF HeaderLength

\* A journal record is stored as halves: its name is short enough for its length to be one.
LEMMA EncodeType ==
  ASSUME NEW it \in Item
  PROVE  Encode(it) \in Seq(Half)
  <1> DEFINE length == 4 * ((HeaderLength + Len(it.name) + 3) \div 4)
             filler == [k \in 1 .. length - HeaderLength - Len(it.name) |-> 0]
             front == <<2 * length, 0, 2, 0, it.ref, 0, 0, it.seq>>
             back == <<2 * Len(it.name), 2 * HeaderLength>>
  <1>1. /\ it.ref \in Half /\ it.seq \in Half /\ it.mid \in [1 .. MidLength -> Half]
        /\ it.name \in Seq(Half)
    BY DEF Item
  <1>2. PICK n \in Nat : n = Len(it.name) /\ n <= 255
    <2>1. Len(it.name) <= 255
      BY DEF Item
    <2>2. PICK m \in Nat : m = Len(it.name)
      BY <1>1, LenProperties
    <2>3. m <= 255
      BY <2>1, <2>2, Zenon
    <2> QED
      BY <2>2, <2>3, Zenon
  <1>3. PICK q \in Nat : q = (HeaderLength + n + 3) \div 4 /\ q <= 72
    <2>1. PICK x : x = (HeaderLength + n + 3) \div 4
      OBVIOUS
    <2>2. x \in Nat /\ x <= 72
      BY <1>2, <2>1, Quarters
    <2> QED
      BY <2>1, <2>2
  <1>4. length = 4 * q
    BY <1>2, <1>3
  <1> HIDE DEF length
  <1>5. front \in Seq(Half) /\ back \in Seq(Half)
    <2>1. /\ 2 * (4 * q) \in Half /\ 2 * n \in Half /\ 2 * HeaderLength \in Half
          /\ 0 \in Half /\ 2 \in Half
      <3>1. 2 * (4 * q) \in Half
        BY <1>3, HalfRange
      <3>2. 2 * n \in Half
        BY <1>2, HalfRange
      <3>3. 2 * HeaderLength \in Half
        BY HalfRange DEF HeaderLength
      <3>4. 0 \in Half /\ 2 \in Half
        BY HalfRange
      <3> QED
        BY <3>1, <3>2, <3>3, <3>4
    <2>2. \A a, b, c, d, e, f, g, h \in Half : <<a, b, c, d, e, f, g, h>> \in Seq(Half)
      OBVIOUS
    <2>3. \A a, b \in Half : <<a, b>> \in Seq(Half)
      OBVIOUS
    <2>4. front \in Seq(Half)
      BY <1>1, <1>4, <2>1, <2>2, Zenon
    <2>5. back \in Seq(Half)
      BY <1>2, <2>1, <2>3, Zenon
    <2> QED
      BY <2>4, <2>5
  <1>6. it.mid \in Seq(Half)
    <2>1. PICK m \in Nat : m = MidLength
      BY DEF MidLength
    <2>2. PICK f \in [1 .. m -> Half] : f = it.mid
      BY <1>1, <2>1
    <2>3. f \in Seq(Half)
      BY FunctionIsSeq
    <2> QED
      BY <2>2, <2>3
  <1>7. filler \in Seq(Half)
    <2>1. length - HeaderLength - Len(it.name) \in Int
      <3>1. HeaderLength \in Int /\ 4 * q \in Int /\ n \in Int
        BY DEF HeaderLength
      <3> QED
        BY <1>2, <1>4, <3>1
    <2>2. \A m \in Int : [k \in 1 .. m |-> 0] \in Seq(Half)
      <3>1. 0 \in Half
        BY HalfRange
      <3> QED
        BY <3>1
    <2> QED
      BY <2>1, <2>2
  <1>8. Encode(it) = ((front \o it.mid) \o back \o it.name) \o filler
    BY DEF Encode, length
  <1> HIDE DEF front, back, filler
  <1>9. front \o it.mid \in Seq(Half)
    BY <1>5, <1>6, ConcatProperties
  <1>10. (front \o it.mid) \o back \in Seq(Half)
    BY <1>5, <1>9, ConcatProperties
  <1>11. (front \o it.mid) \o back \o it.name \in Seq(Half)
    BY <1>1, <1>10, ConcatProperties
  <1> QED
    BY <1>7, <1>8, <1>11, ConcatProperties

\* What lies in a run is halves, and so is what is read anywhere in it.
LEMMA HalfAtType ==
  ASSUME NEW rn \in Run, NEW p
  PROVE  HalfAt(rn, p) \in Half
  <1> DEFINE parts == [k \in DOMAIN rn.items |-> Encode(rn.items[k])]
  <1>1. rn.items \in Seq(Item)
    BY DEF Run
  <1>2. parts \in Seq(Seq(Half))
    <2>1. PICK n \in Nat : DOMAIN rn.items = 1 .. n /\ \A k \in 1 .. n : rn.items[k] \in Item
      BY <1>1, SeqDef
    <2>2. \A k \in 1 .. n : Encode(rn.items[k]) \in Seq(Half)
      BY <2>1, EncodeType
    <2>3. parts \in [1 .. n -> Seq(Half)]
      BY <2>1, <2>2
    <2> HIDE DEF parts
    <2> QED
      BY <2>3, FunctionIsSeq, Zenon
  <1>3. Bytes(rn) \in Seq(Half)
    BY <1>2, FlattenType DEF Bytes
  <1>4. 0 \in Half
    BY HalfRange
  <1>5. \A k \in DOMAIN Bytes(rn) : Bytes(rn)[k] \in Half
    BY <1>3, SeqDef
  <1> QED
    BY <1>4, <1>5, Zenon DEF HalfAt

\* Parse: the record that is made of them, and how far it moves on: always forward.
LEMMA ParsedType ==
  ASSUME NEW rn \in Run, NEW o \in Nat
  PROVE  /\ Parsed(rn, o) \in JournalRecord
         /\ Collected(rn, o) \in Seq(JournalRecord)
         /\ ReadTo(rn, o) \in Nat /\ ReadTo(rn, o) >= 60
  <1>1. FnameLen(rn, o) \in Half
    BY HalfAtType DEF FnameLen
  <1>2. EntryRef(rn, o) \in [1 .. 4 -> Half]
    BY HalfAtType, Zenon DEF EntryRef
  <1>3. EntryRef(rn, o) \in Seq(Half)
    BY <1>2, 4 \in Nat, SeqDef
  <1>4. Parsed(rn, o) \in JournalRecord
    BY <1>1, <1>3 DEF Parsed, JournalRecord
  <1>5. Collected(rn, o) \in Seq(JournalRecord)
    <2>1. \A e \in JournalRecord : <<e>> \in Seq(JournalRecord)
      OBVIOUS
    <2>2. <<>> \in Seq(JournalRecord)
      OBVIOUS
    <2> QED
      BY <1>4, <2>1, <2>2, Zenon DEF Collected
  <1>6. ReadTo(rn, o) \in Nat /\ ReadTo(rn, o) >= 60
    <2>1. PICK l \in Half : l = FnameLen(rn, o)
      BY <1>1
    <2>2. ReadTo(rn, o) = 60 + 2 * l
      BY <2>1 DEF ReadTo, ReadFrom
    <2> QED
      BY <2>2, HalfRange
  <1> QED
    BY <1>4, <1>5, <1>6

-----------------------------------------------------------------------------
(* How many bytes the fields of a journal record take.                     *)

\* Unmarshal: a field begins where the one before it ends.
LEMMA BeforeAt ==
  ASSUME NEW sizes, NEW n \in Nat, n = Len(sizes)
  PROVE  \A k \in 0 .. n - 1 :
           Fields!Before(sizes)[k + 1]
             = IF k = 0 THEN 0 ELSE Fields!Before(sizes)[k] + sizes[k]
  <1>1. Fields!Before(sizes) = CHOOSE at : PartSums(at, sizes, Len(sizes))
    BY Zenon DEF Fields!Before, PartSums
  <1>2. PartSums(Fields!Before(sizes), sizes, n)
    BY <1>1, PartSumsExist, Zenon
  <1> QED
    BY <1>2 DEF PartSums

\* The fields of a journal record, and how far Unmarshal moves on behind each.
LEMMA FieldsOfRecord ==
  /\ Len(Fields!UsnRecord) = 15
  /\ Fields!FieldName(Fields!UsnRecord[1]) = "Length" /\ Fields!Advance(Fields!UsnRecord[1]) = 4
  /\ Fields!FieldName(Fields!UsnRecord[2]) = "MajorVer" /\ Fields!Advance(Fields!UsnRecord[2]) = 2
  /\ Fields!FieldName(Fields!UsnRecord[3]) = "MinorVer" /\ Fields!Advance(Fields!UsnRecord[3]) = 2
  /\ Fields!FieldName(Fields!UsnRecord[4]) = "EntryRef" /\ Fields!Advance(Fields!UsnRecord[4]) = 8
  /\ Fields!FieldName(Fields!UsnRecord[5]) = "EntrySeq" /\ Fields!Advance(Fields!UsnRecord[5]) = 2
  /\ Fields!FieldName(Fields!UsnRecord[6]) = "ParRef" /\ Fields!Advance(Fields!UsnRecord[6]) = 6
  /\ Fields!FieldName(Fields!UsnRecord[7]) = "ParSeq" /\ Fields!Advance(Fields!UsnRecord[7]) = 2
  /\ Fields!FieldName(Fields!UsnRecord[8]) = "USN" /\ Fields!Advance(Fields!UsnRecord[8]) = 8
  /\ Fields!FieldName(Fields!UsnRecord[9]) = "EventTime" /\ Fields!Advance(Fields!UsnRecord[9]) = 8
  /\ Fields!FieldName(Fields!UsnRecord[10]) = "ReasonFlag" /\ Fields!Advance(Fields!UsnRecord[10]) = 4
  /\ Fields!FieldName(Fields!UsnRecord[11]) = "SourceInfo" /\ Fields!Advance(Fields!UsnRecord[11]) = 4
  /\ Fields!FieldName(Fields!UsnRecord[12]) = "SecurityId" /\ Fields!Advance(Fields!UsnRecord[12]) = 4
  /\ Fields!FieldName(Fields!UsnRecord[13]) = "FileAttrs" /\ Fields!Advance(Fields!UsnRecord[13]) = 4
  /\ Fields!FieldName(Fields!UsnRecord[14]) = "FnameLen" /\ Fields!Advance(Fields!UsnRecord[14]) = 2
  /\ Fields!FieldName(Fields!UsnRecord[15]) = "FnameOffset" /\ Fields!Advance(Fields!UsnRecord[15]) = 2
  BY DEF Fields!UsnRecord, Fields!U16, Fields!U32, Fields!Ref, Fields!Time, Fields!U64,
     Fields!FieldName, Fields!Advance, Fields!Kind, Fields!Handled, Fields!Width, Fields!Stored

\* Unmarshal: the fields up to FnameOffset, which begins at 60, take 62 bytes.
LEMMA FilledUpTo == FilledBytes = 62
  <1> DEFINE fields == Fields!UsnRecord
             sizes == [k \in 1 .. Len(fields) |-> Fields!Advance(fields[k])]
             at == Fields!Before(sizes)
  <1>1. Len(fields) = 15 /\ 15 \in Nat
    BY FieldsOfRecord
  <1>2. Len(sizes) = 15
    BY <1>1
  <1>3. \A k \in 1 .. 15 : sizes[k] = Fields!Advance(fields[k])
    BY <1>1
  <1> HIDE DEF sizes, at
  <1>4. \A k \in 0 .. 14 : at[k + 1] = IF k = 0 THEN 0 ELSE at[k] + sizes[k]
    <2>1. PICK n \in Nat : n = Len(sizes) /\ n = 15
      BY <1>1, <1>2
    <2>2. \A k \in 0 .. n - 1 : at[k + 1] = IF k = 0 THEN 0 ELSE at[k] + sizes[k]
      BY <2>1, BeforeAt DEF at
    <2> QED
      BY <2>1, <2>2
  <1>5. at[1] = 0
    BY <1>4
  <1>6. at[2] = 4
    <2>1. sizes[1] = 4
      BY <1>3, FieldsOfRecord
    <2> QED
      BY <1>4, <1>5, <2>1
  <1>7. at[3] = 6
    <2>1. sizes[2] = 2
      BY <1>3, FieldsOfRecord
    <2> QED
      BY <1>4, <1>6, <2>1
  <1>8. at[4] = 8
    <2>1. sizes[3] = 2
      BY <1>3, FieldsOfRecord
    <2> QED
      BY <1>4, <1>7, <2>1
  <1>9. at[5] = 16
    <2>1. sizes[4] = 8
      BY <1>3, FieldsOfRecord
    <2> QED
      BY <1>4, <1>8, <2>1
  <1>10. at[6] = 18
    <2>1. sizes[5] = 2
      BY <1>3, FieldsOfRecord
    <2> QED
      BY <1>4, <1>9, <2>1
  <1>11. at[7] = 24
    <2>1. sizes[6] = 6
      BY <1>3, FieldsOfRecord
    <2> QED
      BY <1>4, <1>10, <2>1
  <1>12. at[8] = 26
    <2>1. sizes[7] = 2
      BY <1>3, FieldsOfRecord
    <2> QED
      BY <1>4, <1>11, <2>1
  <1>13. at[9] = 34
    <2>1. sizes[8] = 8
      BY <1>3, FieldsOfRecord
    <2> QED
      BY <1>4, <1>12, <2>1
  <1>14. at[10] = 42
    <2>1. sizes[9] = 8
      BY <1>3, FieldsOfRecord
    <2> QED
      BY <1>4, <1>13, <2>1
  <1>15. at[11] = 46
    <2>1. sizes[10] = 4
      BY <1>3, FieldsOfRecord
    <2> QED
      BY <1>4, <1>14, <2>1
  <1>16. at[12] = 50
    <2>1. sizes[11] = 4
      BY <1>3, FieldsOfRecord
    <2> QED
      BY <1>4, <1>15, <2>1
  <1>17. at[13] = 54
    <2>1. sizes[12] = 4
      BY <1>3, FieldsOfRecord
    <2> QED
      BY <1>4, <1>16, <2>1
  <1>18. at[14] = 58
    <2>1. sizes[13] = 4
      BY <1>3, FieldsOfRecord
    <2> QED
      BY <1>4, <1>17, <2>1
  <1>19. at[15] = 60
    <2>1. sizes[14] = 2
      BY <1>3, FieldsOfRecord
    <2> QED
      BY <1>4, <1>18, <2>1
  <1>20. Fields!Position(fields, "FnameOffset") = 15
    <2>1. ASSUME NEW k \in 1 .. 15, k # 15
          PROVE  Fields!FieldName(fields[k]) # "FnameOffset"
      <3>1. \/ k = 1 \/ k = 2 \/ k = 3 \/ k = 4 \/ k = 5 \/ k = 6 \/ k = 7 \/ k = 8
            \/ k = 9 \/ k = 10 \/ k = 11 \/ k = 12 \/ k = 13 \/ k = 14
        BY <2>1
      <3> QED
        BY <3>1, FieldsOfRecord DEF fields
    <2>2. Fields!FieldName(fields[15]) = "FnameOffset"
      BY FieldsOfRecord
    <2>3. \A k \in 1 .. 15 : Fields!FieldName(fields[k]) = "FnameOffset" <=> k = 15
      BY <2>1, <2>2
    <2> QED
      BY <1>1, <2>3 DEF Fields!Position
  <1> QED
    BY <1>19, <1>20 DEF FilledBytes, Fields!OffsetOf, Fields!Offsets, at, sizes

-----------------------------------------------------------------------------
(* The walk over a chunk.                                                  *)

\* One turn of it, and a function that is the walk from the offset n on.
Turn(rn, walk, o) ==
  IF Ends(rn, o) THEN [records |-> <<>>, end |-> o]
  ELSE LET next == walk[o + ReadTo(rn, o)]
       IN [records |-> Collected(rn, o) \o next.records, end |-> next.end]

Walks(walk, rn, n) == walk = [o \in n .. rn.size |-> Turn(rn, walk, o)]

\* Parse moves on, and not beyond the chunk.
LEMMA MovesOn ==
  ASSUME NEW rn \in Run, NEW o \in Nat, ~Ends(rn, o)
  PROVE  o + ReadTo(rn, o) \in o + 1 .. rn.size
  <1>1. PICK d \in Nat : d = ReadTo(rn, o) /\ d >= 60
    BY ParsedType
  <1>2. PICK m \in Nat : m = rn.size
    BY DEF Run
  <1>3. o < m /\ d <= m - o
    BY <1>1, <1>2 DEF Ends, IsParsed
  <1> QED
    BY <1>1, <1>2, <1>3

\* There is a walk from every offset on: the one behind it is extended by one value.
LEMMA WalkExists ==
  ASSUME NEW rn \in Run
  PROVE  \E walk : Walks(walk, rn, 0)
  <1>1. PICK N \in Nat : N = rn.size
    BY DEF Run
  <1> DEFINE T == {k \in 0 .. N : \E walk : Walks(walk, rn, N - k)}
  <1>2. 0 \in T
    <2> DEFINE w == [o \in N .. N |-> [records |-> <<>>, end |-> o]]
    <2>1. \A o \in N .. N : Ends(rn, o)
      BY <1>1 DEF Ends
    <2>2. w = [o \in N .. N |-> Turn(rn, w, o)]
      BY <2>1 DEF Turn
    <2>3. N - 0 = N
      OBVIOUS
    <2>4. Walks(w, rn, N - 0)
      BY <1>1, <2>2, <2>3 DEF Walks
    <2> QED
      BY <2>4
  <1>3. ASSUME NEW k \in 0 .. N - 1, k \in T
        PROVE  k + 1 \in T
    <2>1. PICK n \in 0 .. N - 1 : n = N - (k + 1) /\ n + 1 = N - k
      OBVIOUS
    <2>2. PICK f : Walks(f, rn, n + 1)
      BY <1>3, <2>1
    <2> DEFINE g == [o \in n .. N |-> Turn(rn, f, o)]
    <2>3. \A o \in n + 1 .. N : g[o] = f[o]
      BY <1>1, <2>2 DEF Walks
    <2>4. \A o \in n .. N : Turn(rn, g, o) = Turn(rn, f, o)
      <3>1. SUFFICES ASSUME NEW o \in n .. N, ~Ends(rn, o)
                     PROVE  g[o + ReadTo(rn, o)] = f[o + ReadTo(rn, o)]
        BY DEF Turn
      <3>2. o + ReadTo(rn, o) \in n + 1 .. N
        <4>1. o + ReadTo(rn, o) \in o + 1 .. rn.size
          BY <3>1, MovesOn
        <4> QED
          BY <1>1, <4>1
      <3> HIDE DEF g
      <3> QED
        BY <2>3, <3>2
    <2>5. g = [o \in n .. N |-> Turn(rn, g, o)]
      BY <2>4
    <2> HIDE DEF g
    <2>6. Walks(g, rn, N - (k + 1))
      BY <1>1, <2>1, <2>5, Zenon DEF Walks
    <2>7. k + 1 \in 0 .. N
      OBVIOUS
    <2> QED
      BY <2>6, <2>7
  <1> HIDE DEF T
  <1>4. N \in T
    BY <1>2, <1>3, InductionUpTo
  <1>5. N - N = 0
    OBVIOUS
  <1> QED
    BY <1>4, <1>5, Zenon DEF T

\* The walk, one turn after the other.
LEMMA WalkAt ==
  ASSUME NEW rn \in Run
  PROVE  \A o \in 0 .. rn.size : Walk(rn)[o] = Turn(rn, Walk(rn), o)
  <1>1. Walk(rn) = CHOOSE walk : Walks(walk, rn, 0)
    BY Zenon DEF Walk, Walks, Turn
  <1>2. Walks(Walk(rn), rn, 0)
    BY <1>1, WalkExists, Zenon
  <1> QED
    BY <1>2 DEF Walks

\* What it collects are journal records.
LEMMA WalkType ==
  ASSUME NEW rn \in Run
  PROVE  \A o \in 0 .. rn.size : Walk(rn)[o].records \in Seq(JournalRecord)
  <1>1. PICK N \in Nat : N = rn.size
    BY DEF Run
  <1> DEFINE Typed(o) == Walk(rn)[o].records \in Seq(JournalRecord)
             T == {k \in 0 .. N : \A o \in N - k .. N : Typed(o)}
  <1>2. ASSUME NEW o \in 0 .. N, \A p \in o + 1 .. N : Typed(p)
        PROVE  Typed(o)
    <2>1. Walk(rn)[o] = Turn(rn, Walk(rn), o)
      BY <1>1, WalkAt
    <2>2. CASE Ends(rn, o)
      <3>1. Walk(rn)[o].records = <<>>
        BY <2>1, <2>2 DEF Turn
      <3> QED
        BY <3>1
    <2>3. CASE ~Ends(rn, o)
      <3>1. o + ReadTo(rn, o) \in o + 1 .. N
        BY <1>1, <2>3, MovesOn
      <3>2. PICK rest \in Seq(JournalRecord) : rest = Walk(rn)[o + ReadTo(rn, o)].records
        BY <1>2, <3>1
      <3>3. Walk(rn)[o].records = Collected(rn, o) \o rest
        BY <2>1, <2>3, <3>2 DEF Turn
      <3>4. Collected(rn, o) \in Seq(JournalRecord)
        BY ParsedType
      <3> QED
        BY <3>3, <3>4, ConcatProperties
    <2> QED
      BY <2>2, <2>3
  <1> HIDE DEF Typed
  <1>3. 0 \in T
    <2>1. \A p \in N + 1 .. N : Typed(p)
      OBVIOUS
    <2>2. Typed(N)
      BY <1>2, <2>1
    <2>3. \A o \in N - 0 .. N : o = N
      OBVIOUS
    <2>4. \A o \in N - 0 .. N : Typed(o)
      BY <2>2, <2>3, Zenon
    <2> QED
      BY <2>4
  <1>4. ASSUME NEW k \in 0 .. N - 1, k \in T
        PROVE  k + 1 \in T
    <2>1. PICK n \in 0 .. N - 1 : n = N - (k + 1) /\ n + 1 = N - k
      OBVIOUS
    <2>2. \A o \in n + 1 .. N : Typed(o)
      BY <1>4, <2>1
    <2>3. Typed(n)
      BY <1>2, <2>2
    <2>4. \A o \in n .. N : Typed(o)
      BY <2>2, <2>3
    <2>5. k + 1 \in 0 .. N
      OBVIOUS
    <2> QED
      BY <2>1, <2>4, <2>5
  <1> HIDE DEF T
  <1>5. 0 .. N \subseteq T
    BY <1>3, <1>4, InductionUpTo
  <1>6. N \in T /\ N - N = 0
    BY <1>5
  <1>7. \A o \in 0 .. N : Typed(o)
    BY <1>6 DEF T
  <1> QED
    BY <1>1, <1>7, Zenon DEF Typed

\* Where an offset of it stops, and what it collects from there on.
LEMMA WalkTurn ==
  ASSUME NEW rn \in Run, NEW o \in 0 .. rn.size
  PROVE  /\ Ends(rn, o) => Walk(rn)[o].records = <<>> /\ Walk(rn)[o].end = o
         /\ ~Ends(rn, o) =>
              /\ Walk(rn)[o].records
                   = Collected(rn, o) \o Walk(rn)[o + ReadTo(rn, o)].records
              /\ Walk(rn)[o].end = Walk(rn)[o + ReadTo(rn, o)].end
  <1>1. Walk(rn)[o] = Turn(rn, Walk(rn), o)
    BY WalkAt
  <1> QED
    BY <1>1 DEF Turn

\* A chunk of the data of a run is journal records.
LEMMA ParsedFromType ==
  ASSUME NEW rn \in Run
  PROVE  Walk(rn)[0].records \in Seq(JournalRecord) /\ ParsedFrom(rn) \in Seq(JournalRecord)
  <1>1. 0 \in 0 .. rn.size
    BY DEF Run
  <1>2. Walk(rn)[0].records \in Seq(JournalRecord)
    BY <1>1, WalkType
  <1> QED
    BY <1>2, EmptySeq, Zenon DEF ParsedFrom

-----------------------------------------------------------------------------
(* The data of a record, of all records, and what of it has been read.     *)

\* LocateDataAsync: the runs that are looked at are the first ones, up to one beyond the disk.
LEMMA SeenIs ==
  ASSUME job \in Jobs, NEW x \in Rec, NEW N \in Nat, N = Len(RunsOf(x))
  PROVE  \E n \in 0 .. N :
           /\ Seen(x) = SubSeq(RunsOf(x), 1, n)
           /\ \A i \in 1 .. n : RunsOf(x)[i].kind # "beyond"
           /\ n < N => RunsOf(x)[n + 1].kind = "beyond"
  <1> DEFINE runs == RunsOf(x)
             I == {i \in 1 .. Len(runs) : runs[i].kind = "beyond"}
  <1>1. runs \in Seq(Run) /\ DOMAIN runs = 1 .. N
    BY WorkType, LenProperties
  <1>2. CASE I = {}
    <2>1. ~\E i \in DOMAIN runs : runs[i].kind = "beyond"
      BY <1>1, <1>2
    <2>2. Seen(x) = runs
      BY <2>1 DEF Seen, UpTo
    <2>3. Seen(x) = SubSeq(runs, 1, N)
      BY <1>1, <2>2, SubSeqFull
    <2> QED
      BY <1>1, <2>1, <2>3
  <1>3. CASE I # {}
    <2>1. I \in SUBSET Nat
      OBVIOUS
    <2>2. PICK m : m = Min(I)
      OBVIOUS
    <2> HIDE DEF I
    <2>3. m \in I /\ \A i \in I : m <= i
      BY <1>3, <2>1, <2>2, MinOfNaturals
    <2>4. m \in 1 .. N /\ runs[m].kind = "beyond" /\ \A i \in 1 .. N : runs[i].kind = "beyond" => m <= i
      BY <2>3 DEF I
    <2>5. SelectInSeq(runs, LAMBDA rn : rn.kind = "beyond") = m
      BY <1>3, <2>2 DEF SelectInSeq, I
    <2>6. Seen(x) = SubSeq(runs, 1, m - 1)
      BY <1>1, <2>4, <2>5 DEF Seen, UpTo
    <2>7. PICK n \in 0 .. N : n = m - 1 /\ n + 1 = m
      BY <2>4
    <2>8. \A i \in 1 .. n : runs[i].kind # "beyond"
      BY <2>4, <2>7
    <2> QED
      BY <2>4, <2>6, <2>7, <2>8
  <1> QED
    BY <1>2, <1>3

\* The same, run by run.
LEMMA SeenType ==
  ASSUME job \in Jobs, NEW x \in Rec, NEW N \in Nat, N = Len(RunsOf(x))
  PROVE  /\ Seen(x) \in Seq(Run)
         /\ \E n \in 0 .. N :
              /\ n = Len(Seen(x))
              /\ \A i \in 1 .. n : Seen(x)[i] = RunsOf(x)[i] /\ Seen(x)[i].kind # "beyond"
              /\ n < N => RunsOf(x)[n + 1].kind = "beyond"
  <1>1. PICK n \in 0 .. N : /\ Seen(x) = SubSeq(RunsOf(x), 1, n)
                            /\ \A i \in 1 .. n : RunsOf(x)[i].kind # "beyond"
                            /\ n < N => RunsOf(x)[n + 1].kind = "beyond"
    BY SeenIs
  <1>2. PICK runs \in Seq(Run) : runs = RunsOf(x)
    BY WorkType
  <1>3. \A i \in 1 .. n : runs[i] \in Run
    <2>1. \A i \in 1 .. N : runs[i] \in Run
      BY <1>2, ElementOfSeq
    <2> QED
      BY <2>1
  <1>4. 1 \in Int /\ n \in Int /\ n - 1 + 1 = n /\ (1 <= n \/ n = 0)
    OBVIOUS
  <1>5. /\ SubSeq(runs, 1, n) \in Seq(Run) /\ Len(SubSeq(runs, 1, n)) = n
        /\ \A i \in 1 .. n : SubSeq(runs, 1, n)[i] = runs[i]
    BY <1>3, <1>4, SubSeqProperties
  <1> QED
    BY <1>1, <1>2, <1>5

-----------------------------------------------------------------------------
(* The inductive invariant.                                                *)

\* Process is between the start of the goroutines of a record and their end.
Busy == mpc \in {"recv", "wait"}
Of == job.mftrecords[r]

Typed ==
  /\ job \in Jobs
  /\ r \in 1 .. Len(job.mftrecords) + 1
  /\ mpc \in {"next", "recv", "wait", "done"}
  /\ wpc \in {"start", "locate", "run", "return", "done"}
  /\ todo \in Seq(Rec) /\ run \in Nat \ {0}
  /\ dataClusters \in Seq(Run) /\ dataClosed \in BOOLEAN
  /\ ppc \in {"recv", "parse", "emit", "return", "done"}
  /\ dataCluster \in Run /\ offset \in 0 .. dataCluster.size
  /\ record \in JournalRecord /\ records \in Seq(JournalRecord)
  /\ recordsClosed \in BOOLEAN /\ crashed \in BOOLEAN
  /\ Busy => r <= Len(job.mftrecords)
  /\ Busy => Len(dataClusters) <= IF Capacity = 0 THEN 1 ELSE Capacity

\* The goroutines that run, one by one; where the parser is between two chunks the last one
\* is used up; Process waits, or goes on, only when both are done.
Running == (IF wpc # "done" THEN 1 ELSE 0) + (IF ppc # "done" THEN 1 ELSE 0)

Turns ==
  /\ wg = Running
  /\ dataClosed <=> wpc \in {"return", "done"}
  /\ recordsClosed <=> ppc \in {"return", "done"}
  /\ recordsClosed => dataClosed /\ dataClusters = <<>>
  /\ ppc \in {"recv", "return", "done"} => offset >= dataCluster.size
  /\ mpc = "wait" => recordsClosed
  /\ ~Busy => wg = 0

\* AsyncWorker: what is to do are the last ones of the records, and the run it is at is one
\* it looks at, or behind them all.
Given == Len(WorkOf(Of)) - Len(todo)

Reading ==
  /\ Busy /\ wpc # "start" =>
       /\ Given \in 0 .. Len(WorkOf(Of))
       /\ todo = SubSeq(WorkOf(Of), Given + 1, Len(WorkOf(Of)))
  /\ Busy /\ wpc \in {"return", "done"} => todo = <<>>
  /\ Busy /\ wpc = "run" =>
       /\ todo # <<>>
       /\ \/ run \in 1 .. Len(Seen(Head(todo))) + 1
          \/ run = Len(RunsOf(Head(todo))) + 1

\* A chunk is a run of the data, and the walk over it is still the one from its beginning.
IsChunk(rn) == rn.kind = "read" /\ \E w \in Range(WorkOf(Of)) : rn \in Range(Seen(w))

Chunked ==
  /\ Busy => /\ \A k \in DOMAIN dataClusters : IsChunk(dataClusters[k])
             /\ dataCluster = NoChunk \/ IsChunk(dataCluster)
  /\ offset < dataCluster.size => Walk(dataCluster)[offset].end = LastOffset(dataCluster)

\* What is parsed but not collected, and what is read but not parsed.
Waiting(cs) == FlattenSeq([k \in DOMAIN cs |-> ParsedFrom(cs[k])])
Pending == IF ppc = "emit" THEN <<record>> ELSE <<>>
Ahead == Pending \o (Walk(dataCluster)[offset].records \o Waiting(dataClusters))

\* The data of the runs before the k-th one, and of all that has been read.
Looked(x, k) == LET n == Len(Seen(x))
                IN FlattenSeq(SubSeq(RunData(x), 1, IF k <= n THEN k - 1 ELSE n))

ReadSoFar ==
  IF wpc = "start" THEN <<>>
  ELSE IF wpc = "run" THEN FlattenSeq(SubSeq(WorkData(Of), 1, Given)) \o Looked(Head(todo), run)
  ELSE FlattenSeq(SubSeq(WorkData(Of), 1, Given))

Flow ==
  /\ Busy => records \o Ahead = Expected(r - 1) \o ReadSoFar
  /\ ~Busy => records = Expected(r - 1)

IInv == Typed /\ Turns /\ Reading /\ Chunked /\ Flow /\ PanicsAreExplained

-----------------------------------------------------------------------------
(* Facts about a state and a step.                                         *)

\* The call that is made is one of the jobs, and never changes: neither does its data.
LEMMA SameJob ==
  ASSUME job' = job
  PROVE  /\ \A x : /\ WorkOf(x)' = WorkOf(x) /\ RunsOf(x)' = RunsOf(x)
                   /\ HasData(x)' = HasData(x) /\ Seen(x)' = Seen(x)
                   /\ RunData(x)' = RunData(x) /\ WorkData(x)' = WorkData(x)
         /\ \A x, k : Looked(x, k)' = Looked(x, k)
         /\ \A n : Expected(n)' = Expected(n)
         /\ r' = r => Of' = Of /\ Capacity' = Capacity
  <1>1. \A x : WorkOf(x)' = WorkOf(x) /\ RunsOf(x)' = RunsOf(x) /\ HasData(x)' = HasData(x)
    BY DEF WorkOf, RunsOf, HasData, RunListHolder, mft
  <1>2. \A x : Seen(x)' = Seen(x)
    BY <1>1 DEF Seen, UpTo, SelectInSeq
  <1>3. \A x : RunData(x)' = RunData(x)
    BY <1>2 DEF RunData
  <1>4. \A x : WorkData(x)' = WorkData(x)
    BY <1>1, <1>3 DEF WorkData
  <1>5. \A x : DataOf(x)' = DataOf(x)
    BY <1>4 DEF DataOf
  <1>6. \A n : Expected(n)' = Expected(n)
    BY <1>5 DEF Expected
  <1>7. \A x, k : Looked(x, k)' = Looked(x, k)
    BY <1>2, <1>3 DEF Looked
  <1>8. r' = r => Of' = Of /\ Capacity' = Capacity
    BY DEF Of, Capacity, Current, mft
  <1> QED
    BY <1>1, <1>2, <1>3, <1>4, <1>6, <1>7, <1>8

\* The record that is current, the records that stand for it, and their runs.
LEMMA CurrentType ==
  ASSUME Typed, r <= Len(job.mftrecords)
  PROVE  /\ Of \in Rec /\ WorkOf(Of) \in Seq(Rec) /\ Capacity \in Nat
         /\ \A x \in Rec : RunsOf(x) \in Seq(Run)
  <1>1. job \in Jobs /\ r \in 1 .. Len(job.mftrecords) + 1
    BY DEF Typed
  <1>2. job.mftrecords \in Seq(Rec) /\ Len(job.mftrecords) \in Nat
    BY <1>1, JobType
  <1>3. r \in 1 .. Len(job.mftrecords)
    BY <1>1, <1>2
  <1>4. Of \in Rec
    BY <1>2, <1>3, ElementOfSeq DEF Of
  <1>5. Capacity \in Nat
    BY <1>1, <1>4, JobType DEF Capacity, Current, mft, Of
  <1> QED
    BY <1>1, <1>4, <1>5, WorkType

-----------------------------------------------------------------------------
(* Each step keeps the types.                                              *)

\* Process starts the goroutines with empty channels, and leaves the types as they are.
LEMMA TypedProcess ==
  ASSUME Typed, Process
  PROVE  Typed'
  <1>1. job \in Jobs /\ Len(job.mftrecords) \in Nat
    BY JobType DEF Typed
  <1>2. NoChunk \in Run /\ NoRecord \in JournalRecord
    <2>1. <<>> \in Seq(Item)
      OBVIOUS
    <2>2. NoChunk \in Run
      BY <2>1 DEF NoChunk, Run
    <2>3. <<0, 0, 0, 0>> \in Seq(Half) /\ 0 \in Half
      <3>1. 0 \in Half
        BY HalfRange
      <3> QED
        BY <3>1
    <2> QED
      BY <2>2, <2>3 DEF NoRecord, JournalRecord
  <1>3. CASE StartGoroutines
    <2>1. dataCluster'.size = 0
      BY <1>3 DEF StartGoroutines, NoChunk
    <2>2. <<>> \in Seq(Run) /\ <<>> \in Seq(Rec) /\ Len(<<>>) = 0
      OBVIOUS
    <2>3. r <= Len(job.mftrecords)
      BY <1>3 DEF StartGoroutines
    <2>4. Capacity' \in Nat
      BY <1>3, <2>3, CurrentType, SameJob DEF StartGoroutines
    <2>5. Len(dataClusters') <= IF Capacity' = 0 THEN 1 ELSE Capacity'
      BY <1>3, <2>2, <2>4 DEF StartGoroutines
    <2>6. offset' \in 0 .. dataCluster'.size
      BY <1>3, <2>1 DEF StartGoroutines
    <2>7. /\ job' = job /\ r' = r /\ records' = records /\ crashed' = crashed /\ mpc' = "recv"
          /\ wpc' = "start" /\ todo' = <<>> /\ run' = 1 /\ dataClusters' = <<>>
          /\ dataClosed' = FALSE /\ ppc' = "recv" /\ dataCluster' = NoChunk
          /\ record' = NoRecord /\ recordsClosed' = FALSE
      BY <1>3 DEF StartGoroutines
    <2>8. 1 \in Nat \ {0}
      OBVIOUS
    <2> QED
      BY <1>2, <2>2, <2>3, <2>5, <2>6, <2>7, <2>8 DEF Typed
  <1>4. CASE RecordsEnd
    <2>1. Capacity' = Capacity
      BY <1>4, SameJob DEF RecordsEnd
    <2> QED
      BY <1>4, <2>1 DEF Typed, RecordsEnd, Busy, workVars, dataVars, parseVars
  <1>5. CASE WaitReturns
    <2>1. r' \in 1 .. Len(job.mftrecords) + 1
      BY <1>1, <1>5 DEF Typed, WaitReturns, Busy
    <2> QED
      BY <1>5, <2>1 DEF Typed, WaitReturns, Busy, workVars, dataVars, parseVars
  <1>6. CASE Return
    BY <1>6 DEF Typed, Return, Busy, workVars, dataVars, parseVars
  <1> QED
    BY <1>3, <1>4, <1>5, <1>6 DEF Process

\* A goroutine runs only while Process waits for it.
LEMMA WhileBusy ==
  ASSUME Typed, Turns
  PROVE  /\ wpc # "done" \/ ppc # "done" => Busy /\ r <= Len(job.mftrecords)
         /\ ~Busy => wpc = "done" /\ ppc = "done"
  <1>1. ~Busy => wpc = "done" /\ ppc = "done"
    BY DEF Turns, Running
  <1> QED
    BY <1>1 DEF Typed

\* AsyncWorker sends no more chunks than the channel has room for.
LEMMA TypedWorker ==
  ASSUME Typed, Turns, Reading, AsyncWorker
  PROVE  Typed'
  <1>1. Busy /\ r <= Len(job.mftrecords)
    BY WhileBusy DEF AsyncWorker, OpenRecord, CloseData, LocateDataAsync, RunLoop, WorkerReturns
  <1>2. /\ Of \in Rec /\ WorkOf(Of) \in Seq(Rec) /\ Capacity \in Nat
        /\ \A x \in Rec : RunsOf(x) \in Seq(Run)
    BY <1>1, CurrentType
  <1>3. job' = job /\ r' = r /\ mpc' = mpc /\ Busy' = Busy
    BY DEF AsyncWorker, OpenRecord, CloseData, LocateDataAsync, RunLoop, WorkerReturns, mainVars, Busy
  <1>4. Capacity' = Capacity
    BY <1>3, SameJob
  <1>5. CASE OpenRecord
    <2>1. todo' \in Seq(Rec)
      BY <1>2, <1>5 DEF OpenRecord, Of
    <2> QED
      BY <1>3, <1>4, <1>5, <2>1 DEF Typed, OpenRecord, mainVars, dataVars, parseVars
  <1>6. CASE CloseData
    BY <1>3, <1>4, <1>6 DEF Typed, CloseData, mainVars, parseVars
  <1>7. CASE LocateDataAsync
    <2>1. /\ run' \in {run, 1} /\ wpc' \in {wpc, "run"} /\ crashed' \in {crashed, TRUE}
          /\ todo' = todo /\ records' = records /\ dataClusters' = dataClusters
          /\ dataClosed' = dataClosed /\ ppc' = ppc /\ dataCluster' = dataCluster
          /\ offset' = offset /\ record' = record /\ recordsClosed' = recordsClosed
      BY <1>7 DEF LocateDataAsync, mainVars, dataVars, parseVars
    <2>2. run' \in Nat \ {0}
      BY <2>1 DEF Typed
    <2>3. wpc' \in {"start", "locate", "run", "return", "done"} /\ crashed' \in BOOLEAN
      BY <2>1 DEF Typed
    <2> QED
      BY <1>3, <1>4, <2>1, <2>2, <2>3 DEF Typed
  <1>8. CASE RunLoop
    <2> DEFINE runs == RunsOf(Head(todo))
    <2>1. todo # <<>>
      BY <1>1, <1>8 DEF Reading, RunLoop
    <2>2. Head(todo) \in Rec /\ Tail(todo) \in Seq(Rec)
      BY <2>1, HeadTailProperties DEF Typed
    <2>3. runs \in Seq(Run) /\ Len(runs) \in Nat
      BY <1>2, <2>2, LenProperties
    <2>4. run \in Nat \ {0}
      BY DEF Typed
    <2>5. todo' \in Seq(Rec)
      BY <1>8, <2>2 DEF RunLoop, Typed
    <2>6. run' \in Nat \ {0}
      <3>1. run' = run \/ run' = run + 1 \/ run' = Len(runs) + 1
        BY <1>8 DEF RunLoop, AfterBeyond
      <3> QED
        BY <2>3, <2>4, <3>1
    <2>7. /\ dataClusters' \in Seq(Run)
          /\ Len(dataClusters') <= IF Capacity = 0 THEN 1 ELSE Capacity
      <3>1. /\ dataClusters \in Seq(Run) /\ Len(dataClusters) \in Nat
            /\ Len(dataClusters) <= IF Capacity = 0 THEN 1 ELSE Capacity
        BY <1>1, LenProperties DEF Typed
      <3>2. CASE dataClusters' = dataClusters
        BY <3>1, <3>2
      <3>3. CASE run <= Len(runs) /\ CanSend /\ dataClusters' = Append(dataClusters, runs[run])
        <4>1. runs[run] \in Run
          BY <2>3, <2>4, <3>3, ElementOfSeq
        <4>2. dataClusters' \in Seq(Run) /\ Len(dataClusters') = Len(dataClusters) + 1
          BY <3>1, <3>3, <4>1, AppendProperties
        <4>3. Len(dataClusters) < Capacity \/ (Capacity = 0 /\ dataClusters = <<>>)
          BY <3>3, Zenon DEF CanSend
        <4>4. dataClusters = <<>> => Len(dataClusters) = 0
          OBVIOUS
        <4> QED
          BY <1>2, <3>1, <4>2, <4>3, <4>4
      <3>4. dataClusters' = dataClusters \/ /\ run <= Len(runs) /\ CanSend
                                            /\ dataClusters' = Append(dataClusters, runs[run])
        BY <1>8 DEF RunLoop
      <3> QED
        BY <3>2, <3>3, <3>4
    <2>8. wpc' \in {"start", "locate", "run", "return", "done"}
      BY <1>8 DEF RunLoop
    <2>9. /\ dataClosed' = dataClosed /\ ppc' = ppc /\ dataCluster' = dataCluster
          /\ offset' = offset /\ record' = record /\ recordsClosed' = recordsClosed
          /\ records' = records /\ crashed' = crashed
      BY <1>8 DEF RunLoop, mainVars, parseVars
    <2> QED
      BY <1>3, <1>4, <2>5, <2>6, <2>7, <2>8, <2>9 DEF Typed
  <1>9. CASE WorkerReturns
    BY <1>3, <1>4, <1>9 DEF Typed, WorkerReturns, mainVars, dataVars, parseVars
  <1> QED
    BY <1>5, <1>6, <1>7, <1>8, <1>9 DEF AsyncWorker

\* AsyncProcess stays in the chunk it takes, and what it makes of it is a journal record.
LEMMA TypedParser ==
  ASSUME Typed, Turns, AsyncProcess
  PROVE  Typed'
  <1>1. Busy /\ r <= Len(job.mftrecords)
    BY WhileBusy DEF AsyncProcess, ReceiveChunk, Parse, Emit, CloseRecords, ParserReturns
  <1>2. Capacity \in Nat
    BY <1>1, CurrentType
  <1>3. job' = job /\ r' = r /\ mpc' = mpc /\ Busy' = Busy
    BY DEF AsyncProcess, ReceiveChunk, Parse, Emit, CloseRecords, ParserReturns, mainVars, Busy
  <1>4. Capacity' = Capacity
    BY <1>3, SameJob
  <1>5. CASE ReceiveChunk
    <2>1. dataClusters # <<>> /\ dataClusters \in Seq(Run) /\ Len(dataClusters) \in Nat
      BY <1>5, LenProperties DEF ReceiveChunk, Typed
    <2>2. /\ dataCluster' \in Run /\ dataClusters' \in Seq(Run)
          /\ Len(dataClusters') = Len(dataClusters) - 1
      BY <1>5, <2>1, HeadTailProperties DEF ReceiveChunk
    <2>3. Len(dataClusters') <= IF Capacity = 0 THEN 1 ELSE Capacity
      BY <1>1, <1>2, <2>1, <2>2 DEF Typed
    <2>4. offset' \in 0 .. dataCluster'.size
      BY <1>5, <2>2 DEF ReceiveChunk, Run
    <2>5. /\ wpc' = wpc /\ todo' = todo /\ run' = run /\ dataClosed' = dataClosed
          /\ ppc' = "parse" /\ record' = record /\ recordsClosed' = recordsClosed
          /\ records' = records /\ crashed' = crashed
      BY <1>5 DEF ReceiveChunk, mainVars, workVars
    <2> QED
      BY <1>3, <1>4, <2>2, <2>3, <2>4, <2>5 DEF Typed
  <1>6. CASE Parse
    <2>1. dataCluster \in Run /\ dataCluster.size \in Nat /\ offset \in 0 .. dataCluster.size
      BY DEF Typed, Run
    <2>2. /\ wpc' = wpc /\ todo' = todo /\ run' = run /\ dataClosed' = dataClosed
          /\ dataClusters' = dataClusters /\ dataCluster' = dataCluster
          /\ recordsClosed' = recordsClosed /\ records' = records
          /\ ppc' \in {"recv", "parse", "emit"} /\ crashed' \in BOOLEAN
      BY <1>6 DEF Parse, mainVars, workVars, dataVars, Typed
    <2>3. offset' \in 0 .. dataCluster.size
      <3>1. CASE offset' = offset \/ offset' = dataCluster.size
        BY <2>1, <3>1
      <3>2. CASE ~Ends(dataCluster, offset) /\ offset' = offset + ReadTo(dataCluster, offset)
        <4>1. offset' \in offset + 1 .. dataCluster.size
          BY <2>1, <3>2, MovesOn
        <4> QED
          BY <2>1, <4>1
      <3> QED
        BY <1>6, <2>1, <3>1, <3>2 DEF Parse, AfterError, Ends
    <2>4. record' \in JournalRecord
      <3>1. Parsed(dataCluster, offset) \in JournalRecord /\ record \in JournalRecord
        BY <2>1, ParsedType DEF Typed
      <3>2. record' = record \/ record' = Parsed(dataCluster, offset)
        BY <1>6 DEF Parse
      <3> QED
        BY <3>1, <3>2
    <2> QED
      BY <1>3, <1>4, <2>2, <2>3, <2>4 DEF Typed
  <1>7. CASE Emit
    <2>1. records' \in Seq(JournalRecord)
      BY <1>7, AppendProperties DEF Emit, Typed
    <2> QED
      BY <1>3, <1>4, <1>7, <2>1 DEF Typed, Emit, workVars, dataVars
  <1>8. CASE CloseRecords
    BY <1>3, <1>4, <1>8 DEF Typed, CloseRecords, mainVars, workVars, dataVars
  <1>9. CASE ParserReturns
    BY <1>3, <1>4, <1>9 DEF Typed, ParserReturns, mainVars, workVars, dataVars
  <1> QED
    BY <1>5, <1>6, <1>7, <1>8, <1>9 DEF AsyncProcess

-----------------------------------------------------------------------------
(* Each step keeps the turns the three take.                               *)

\* Process starts both goroutines, and waits when the channel of the records is closed.
LEMMA TurnsProcess ==
  ASSUME Typed, Turns, Process
  PROVE  Turns'
  <1> USE DEF Turns, Running, Busy
  <1>1. CASE StartGoroutines
    BY <1>1 DEF StartGoroutines, Goroutines, NoChunk
  <1>2. CASE RecordsEnd
    BY <1>2 DEF RecordsEnd, workVars, dataVars, parseVars
  <1>3. CASE WaitReturns
    BY <1>3 DEF WaitReturns, workVars, dataVars, parseVars
  <1>4. CASE Return
    BY <1>4 DEF Return, workVars, dataVars, parseVars
  <1> QED
    BY <1>1, <1>2, <1>3, <1>4 DEF Process

\* AsyncWorker closes its channel when it ends, and only then leaves the WaitGroup.
LEMMA TurnsWorker ==
  ASSUME Typed, Turns, AsyncWorker
  PROVE  Turns'
  <1>0. Busy
    BY WhileBusy DEF AsyncWorker, OpenRecord, CloseData, LocateDataAsync, RunLoop, WorkerReturns
  <1> USE DEF Turns, Running, Busy
  <1>1. CASE OpenRecord
    BY <1>0, <1>1 DEF OpenRecord, mainVars, dataVars, parseVars
  <1>2. CASE CloseData
    BY <1>0, <1>2 DEF CloseData, mainVars, parseVars
  <1>3. CASE LocateDataAsync
    BY <1>0, <1>3 DEF LocateDataAsync, mainVars, dataVars, parseVars
  <1>4. CASE RunLoop
    <2>1. wpc = "run" /\ wpc' \in {"run", "locate"} /\ UNCHANGED <<mainVars, wg, dataClosed, parseVars>>
      BY <1>4 DEF RunLoop
    <2> QED
      BY <1>0, <2>1 DEF mainVars, parseVars
  <1>5. CASE WorkerReturns
    BY <1>0, <1>5 DEF WorkerReturns, mainVars, dataVars, parseVars
  <1> QED
    BY <1>1, <1>2, <1>3, <1>4, <1>5 DEF AsyncWorker

\* AsyncProcess closes its channel when all chunks are used up, and then leaves the WaitGroup.
LEMMA TurnsParser ==
  ASSUME Typed, Turns, AsyncProcess
  PROVE  Turns'
  <1>0. Busy
    BY WhileBusy DEF AsyncProcess, ReceiveChunk, Parse, Emit, CloseRecords, ParserReturns
  <1> USE DEF Turns, Running, Busy
  <1>1. CASE ReceiveChunk
    BY <1>0, <1>1 DEF ReceiveChunk, mainVars, workVars
  <1>2. CASE Parse
    <2>1. /\ ppc = "parse" /\ ppc' \in {"recv", "parse", "emit"}
          /\ ppc' = "recv" => offset >= dataCluster.size /\ offset' = offset
          /\ UNCHANGED <<mainVars, wg, workVars, dataVars, dataCluster, recordsClosed>>
      BY <1>2 DEF Parse
    <2> QED
      BY <1>0, <2>1 DEF mainVars, workVars, dataVars
  <1>3. CASE Emit
    BY <1>0, <1>3 DEF Emit, workVars, dataVars
  <1>4. CASE CloseRecords
    BY <1>0, <1>4 DEF CloseRecords, Drained, mainVars, workVars, dataVars
  <1>5. CASE ParserReturns
    BY <1>0, <1>5 DEF ParserReturns, mainVars, workVars, dataVars
  <1> QED
    BY <1>1, <1>2, <1>3, <1>4, <1>5 DEF AsyncProcess

-----------------------------------------------------------------------------
(* Each step keeps what AsyncWorker has to do.                             *)

\* Process and AsyncProcess leave alone where AsyncWorker is in the data.
LEMMA ReadingOthers ==
  ASSUME Typed, Turns, Reading, Process \/ AsyncProcess
  PROVE  Reading'
  <1>1. CASE ~Busy'
    BY <1>1 DEF Reading
  <1>2. CASE StartGoroutines
    BY <1>2 DEF StartGoroutines, Reading
  <1>3. CASE RecordsEnd \/ AsyncProcess
    <2>1. job' = job /\ r' = r /\ wpc' = wpc /\ todo' = todo /\ run' = run /\ Busy
      BY <1>3, WhileBusy DEF RecordsEnd, AsyncProcess, ReceiveChunk, Parse, Emit, CloseRecords,
         ParserReturns, mainVars, workVars, Busy
    <2>2. Of' = Of /\ \A x : /\ WorkOf(x)' = WorkOf(x) /\ Seen(x)' = Seen(x)
                             /\ RunsOf(x)' = RunsOf(x)
      BY <2>1, SameJob
    <2>3. WorkOf(Of)' = WorkOf(Of) /\ Seen(Head(todo))' = Seen(Head(todo))
          /\ RunsOf(Head(todo))' = RunsOf(Head(todo))
      BY <2>1, <2>2 DEF WorkOf, Seen, RunsOf, RunListHolder, mft, UpTo, SelectInSeq
    <2>4. Given' = Given
      BY <2>1, <2>3 DEF Given
    <2> QED
      BY <2>1, <2>2, <2>3, <2>4 DEF Reading
  <1>4. WaitReturns \/ Return => ~Busy'
    BY DEF WaitReturns, Return, Busy
  <1> QED
    BY <1>1, <1>2, <1>3, <1>4 DEF Process

\* AsyncWorker goes through the records, and in each through the runs, one after the other.
LEMMA ReadingWorker ==
  ASSUME Typed, Turns, Reading, AsyncWorker
  PROVE  Reading'
  <1>1. Busy /\ r <= Len(job.mftrecords) /\ job \in Jobs
    BY WhileBusy DEF AsyncWorker, OpenRecord, CloseData, LocateDataAsync, RunLoop, WorkerReturns, Typed
  <1>2. /\ Of \in Rec /\ WorkOf(Of) \in Seq(Rec) /\ Capacity \in Nat
        /\ \A x \in Rec : RunsOf(x) \in Seq(Run)
    BY <1>1, CurrentType
  <1>3. job' = job /\ r' = r /\ mpc' = mpc /\ Busy' = Busy
    BY DEF AsyncWorker, OpenRecord, CloseData, LocateDataAsync, RunLoop, WorkerReturns, mainVars, Busy
  <1>4. Of' = Of /\ \A x : /\ WorkOf(x)' = WorkOf(x) /\ Seen(x)' = Seen(x)
                           /\ RunsOf(x)' = RunsOf(x)
    BY <1>3, SameJob
  <1>5. WorkOf(Of)' = WorkOf(Of)
    BY <1>4 DEF WorkOf, mft
  <1>6. PICK N \in Nat : N = Len(WorkOf(Of))
    BY <1>2, LenProperties
  <1>7. CASE OpenRecord
    <2>1. todo' = WorkOf(Of) /\ wpc' = "locate"
      BY <1>7 DEF OpenRecord, Of
    <2>2. Given' = 0
      BY <1>5, <1>6, <2>1 DEF Given
    <2>3. todo' = SubSeq(WorkOf(Of), 1, N)
      BY <1>2, <1>6, <2>1, SubSeqFull
    <2> QED
      BY <1>5, <1>6, <2>1, <2>2, <2>3 DEF Reading
  <1>8. CASE CloseData
    <2>1. todo' = todo /\ todo = <<>> /\ wpc = "locate" /\ wpc' = "return"
      BY <1>8 DEF CloseData
    <2>2. Given' = Given
      BY <1>5, <2>1 DEF Given
    <2> QED
      BY <1>1, <1>3, <1>5, <2>1, <2>2 DEF Reading
  <1>9. CASE LocateDataAsync
    <2>1. /\ todo' = todo /\ todo # <<>> /\ wpc = "locate"
          /\ wpc' = "locate" \/ (wpc' = "run" /\ run' = 1)
      BY <1>9 DEF LocateDataAsync
    <2>2. Given' = Given
      BY <1>5, <2>1 DEF Given
    <2>3. Head(todo) \in Rec
      BY <2>1, HeadTailProperties DEF Typed
    <2>4. PICK n \in Nat : n = Len(Seen(Head(todo)))
      <3>1. Len(RunsOf(Head(todo))) \in Nat
        BY <1>2, <2>3, LenProperties
      <3>2. Seen(Head(todo)) \in Seq(Run)
        BY <1>1, <2>3, <3>1, SeenType
      <3> QED
        BY <3>2, LenProperties
    <2>5. 1 \in 1 .. n + 1
      OBVIOUS
    <2>6. Seen(Head(todo))' = Seen(Head(todo))
      BY <1>3, <2>1 DEF Seen, RunsOf, RunListHolder, mft, UpTo, SelectInSeq
    <2>7. wpc' = "run" => run' \in 1 .. Len(Seen(Head(todo)))' + 1
      BY <2>1, <2>4, <2>5, <2>6, Zenon
    <2> QED
      BY <1>1, <1>3, <1>5, <2>1, <2>2, <2>7 DEF Reading
  <1>10. CASE RunLoop
    <2> DEFINE x == Head(todo)
    <2>1. /\ todo # <<>> /\ wpc = "run" /\ Given \in 0 .. N
          /\ todo = SubSeq(WorkOf(Of), Given + 1, N)
          /\ run \in 1 .. Len(Seen(x)) + 1 \/ run = Len(RunsOf(x)) + 1
      BY <1>1, <1>6, <1>10 DEF Reading, RunLoop
    <2>2. x \in Rec
      BY <2>1, HeadTailProperties DEF Typed
    <2>3. PICK M \in Nat : M = Len(RunsOf(x))
      BY <1>2, <2>2, LenProperties
    <2>4. PICK n \in 0 .. M : /\ n = Len(Seen(x))
                              /\ n < M => RunsOf(x)[n + 1].kind = "beyond"
      BY <1>1, <2>2, <2>3, SeenType
    <2>5. CASE run > M /\ todo' = Tail(todo) /\ wpc' = "locate"
      <3>1. /\ Given < N /\ Tail(todo) = SubSeq(WorkOf(Of), Given + 2, N)
            /\ Len(Tail(todo)) = N - (Given + 1)
        BY <1>2, <1>6, <2>1, LastOnes
      <3>2. Given' = Given + 1
        BY <1>5, <1>6, <2>1, <2>5, <3>1 DEF Given
      <3>3. Given' \in 0 .. N /\ todo' = SubSeq(WorkOf(Of), Given' + 1, N)
        <4>1. PICK g \in 0 .. N : g = Given /\ g < N /\ g + 1 \in 0 .. N /\ (g + 1) + 1 = g + 2
          BY <2>1, <3>1
        <4> QED
          BY <2>5, <3>1, <3>2, <4>1
      <3> QED
        BY <1>5, <1>6, <2>5, <3>3 DEF Reading
    <2>6. CASE todo' = todo /\ wpc' = "run" /\ run' \in {M + 1, run + 1} /\ run <= M
               /\ (run' = M + 1 \/ RunsOf(x)[run].kind # "beyond")
      <3>1. Given' = Given
        BY <1>5, <2>6 DEF Given
      <3>2. run' \in 1 .. n + 1 \/ run' = M + 1
        <4>1. CASE run' = M + 1
          BY <4>1
        <4>2. CASE run' = run + 1 /\ RunsOf(x)[run].kind # "beyond"
          <5>1. PICK k \in Nat : k = run /\ k <= M /\ k > 0
            BY <2>6 DEF Typed
          <5>2. k \in 1 .. n + 1
            BY <2>1, <2>3, <2>4, <5>1
          <5>3. k # n + 1
            BY <2>4, <4>2, <5>1
          <5> QED
            BY <4>2, <5>1, <5>2, <5>3
        <4> QED
          BY <2>6, <4>1, <4>2
      <3>3. Seen(Head(todo))' = Seen(x) /\ RunsOf(Head(todo))' = RunsOf(x)
        BY <1>3, <2>6 DEF Seen, RunsOf, RunListHolder, mft, UpTo, SelectInSeq
      <3>4. \/ run' \in 1 .. Len(Seen(Head(todo)))' + 1
            \/ run' = Len(RunsOf(Head(todo)))' + 1
        <4>1. /\ Len(Seen(Head(todo)))' = n
              /\ Len(RunsOf(Head(todo)))' = M
          BY <2>3, <2>4, <3>3, Zenon
        <4> QED
          BY <3>2, <4>1, Zenon
      <3> QED
        BY <1>1, <1>3, <1>5, <2>1, <2>6, <3>1, <3>4 DEF Reading
    <2>7. run > M \/ run <= M
      BY DEF Typed
    <2> QED
      BY <1>10, <2>3, <2>5, <2>6, <2>7 DEF RunLoop, AfterBeyond
  <1>11. CASE WorkerReturns
    <2>1. todo' = todo /\ wpc = "return" /\ wpc' = "done"
      BY <1>11 DEF WorkerReturns
    <2>2. Given' = Given
      BY <1>5, <2>1 DEF Given
    <2> QED
      BY <1>1, <1>3, <1>5, <2>1, <2>2 DEF Reading
  <1> QED
    BY <1>7, <1>8, <1>9, <1>10, <1>11 DEF AsyncWorker

-----------------------------------------------------------------------------
(* Each step keeps the chunks, and a panic is explained by the data.       *)

\* Whether a run is a chunk of the data of the record is up to the job.
LEMMA SameChunks ==
  ASSUME job' = job, r' = r
  PROVE  \A rn : IsChunk(rn)' <=> IsChunk(rn)
  <1>1. Of' = Of /\ \A x : WorkOf(x)' = WorkOf(x) /\ Seen(x)' = Seen(x)
    BY SameJob
  <1>2. WorkOf(Of)' = WorkOf(Of)
    BY <1>1 DEF WorkOf, mft
  <1> QED
    BY <1>1, <1>2 DEF IsChunk

\* The walk over a chunk begins at its first byte.
LEMMA ChunkedByChunk ==
  ASSUME Typed, Chunked, job' = job, r' = r, Busy' = Busy,
         \A k \in DOMAIN dataClusters' :
            IsChunk(dataClusters'[k]) \/ \E i \in DOMAIN dataClusters : dataClusters'[k] = dataClusters[i],
         dataCluster' = dataCluster \/ dataCluster' = NoChunk \/ IsChunk(dataCluster'),
         offset' < dataCluster'.size => Walk(dataCluster')[offset'].end = LastOffset(dataCluster')
  PROVE  Chunked'
  <1>1. \A rn : IsChunk(rn)' <=> IsChunk(rn)
    BY SameChunks
  <1>2. Walk(dataCluster)' = Walk(dataCluster') /\ LastOffset(dataCluster)' = LastOffset(dataCluster')
    BY DEF Walk, LastOffset, Ends, Overruns, IsParsed, Enough, Collected, ReadTo, IsZero, Parsed,
       EntryRef, FnameLen, HalfAt, Field, Bytes, Encode
  <1>3. IsChunk(dataCluster)' <=> IsChunk(dataCluster')
    BY <1>1 DEF IsChunk
  <1> QED
    BY <1>1, <1>2, <1>3 DEF Chunked

\* Process starts with no chunk.
LEMMA ChunkedProcess ==
  ASSUME Typed, Turns, Chunked, Process
  PROVE  Chunked'
  <1>1. CASE StartGoroutines
    <2>1. DOMAIN dataClusters' = {} /\ dataCluster' = NoChunk
      BY <1>1 DEF StartGoroutines
    <2>2. dataCluster'.size = 0 /\ offset' = 0
      BY <1>1 DEF StartGoroutines, NoChunk
    <2> QED
      BY <2>1, <2>2 DEF Chunked
  <1>2. CASE RecordsEnd
    <2>1. job' = job /\ r' = r /\ Busy' = Busy /\ UNCHANGED <<dataClusters, dataCluster, offset>>
      BY <1>2 DEF RecordsEnd, dataVars, parseVars, Busy
    <2>2. offset' < dataCluster'.size => Walk(dataCluster')[offset'].end = LastOffset(dataCluster')
      BY <2>1 DEF Chunked
    <2> QED
      BY <2>1, <2>2, ChunkedByChunk
  <1>3. CASE WaitReturns \/ Return
    <2>1. ~Busy' /\ UNCHANGED <<dataCluster, offset>>
      BY <1>3 DEF WaitReturns, Return, parseVars, Busy
    <2> QED
      BY <2>1 DEF Chunked
  <1> QED
    BY <1>1, <1>2, <1>3 DEF Process

\* A run that is read is one of the runs looked at.
LEMMA ReadIsChunk ==
  ASSUME Typed, Turns, Reading, wpc = "run", run <= Len(RunsOf(Head(todo))),
         RunsOf(Head(todo))[run].kind = "read"
  PROVE  /\ IsChunk(RunsOf(Head(todo))[run])
         /\ run <= Len(Seen(Head(todo))) /\ Seen(Head(todo))[run] = RunsOf(Head(todo))[run]
  <1> DEFINE x == Head(todo)
  <1>1. Busy /\ r <= Len(job.mftrecords) /\ job \in Jobs
    BY WhileBusy DEF Typed
  <1>2. WorkOf(Of) \in Seq(Rec) /\ \A y \in Rec : RunsOf(y) \in Seq(Run)
    BY <1>1, CurrentType
  <1>3. PICK N \in Nat : N = Len(WorkOf(Of))
    BY <1>2, LenProperties
  <1>4. /\ todo # <<>> /\ Given \in 0 .. N /\ todo = SubSeq(WorkOf(Of), Given + 1, N)
        /\ run \in 1 .. Len(Seen(x)) + 1 \/ run = Len(RunsOf(x)) + 1
    BY <1>1, <1>3 DEF Reading
  <1>5. Given < N /\ x = WorkOf(Of)[Given + 1]
    BY <1>2, <1>3, <1>4, LastOnes
  <1>6. x \in Range(WorkOf(Of)) /\ x \in Rec
    <2>1. PICK g \in 1 .. N : g = Given + 1
      BY <1>4, <1>5
    <2>2. DOMAIN WorkOf(Of) = 1 .. N
      BY <1>2, <1>3, LenProperties
    <2>3. x = WorkOf(Of)[g] /\ g \in DOMAIN WorkOf(Of) /\ x \in Rec
      BY <1>2, <1>3, <1>5, <2>1, <2>2, ElementOfSeq
    <2> QED
      BY <2>3 DEF Range
  <1>7. PICK M \in Nat : M = Len(RunsOf(x))
    BY <1>2, <1>6, LenProperties
  <1>8. Seen(x) \in Seq(Run)
    BY <1>1, <1>6, <1>7, SeenType
  <1>9. PICK n \in 0 .. M : /\ n = Len(Seen(x))
                            /\ \A i \in 1 .. n : Seen(x)[i] = RunsOf(x)[i]
                            /\ n < M => RunsOf(x)[n + 1].kind = "beyond"
    BY <1>1, <1>6, <1>7, SeenType
  <1>10. PICK k \in Nat \ {0} : k = run /\ k <= M
    BY <1>7 DEF Typed
  <1>11. RunsOf(x)[k].kind = "read"
    BY <1>10
  <1>12. k \in 1 .. n
    <2>1. k <= n + 1
      BY <1>4, <1>7, <1>9, <1>10
    <2>2. k # n + 1
      BY <1>9, <1>10, <1>11
    <2> QED
      BY <1>10, <2>1, <2>2
  <1>13. Seen(x)[k] = RunsOf(x)[k]
    BY <1>9, <1>12
  <1>14. k \in DOMAIN Seen(x)
    BY <1>8, <1>9, <1>12, LenProperties
  <1>15. RunsOf(x)[k] \in Range(Seen(x))
    BY <1>13, <1>14, Zenon DEF Range
  <1>16. IsChunk(RunsOf(x)[k])
    BY <1>6, <1>11, <1>15 DEF IsChunk
  <1>17. k <= Len(Seen(x))
    BY <1>9, <1>12
  <1> QED
    BY <1>10, <1>13, <1>16, <1>17, Zenon

\* AsyncWorker sends only runs that are read.
LEMMA ChunkedWorker ==
  ASSUME Typed, Turns, Reading, Chunked, AsyncWorker
  PROVE  Chunked'
  <1>1. /\ job' = job /\ r' = r /\ Busy' = Busy
        /\ dataCluster' = dataCluster /\ offset' = offset
    BY DEF AsyncWorker, OpenRecord, CloseData, LocateDataAsync, RunLoop, WorkerReturns, mainVars,
       parseVars, Busy
  <1>2. offset' < dataCluster'.size => Walk(dataCluster')[offset'].end = LastOffset(dataCluster')
    BY <1>1 DEF Chunked
  <1>3. CASE dataClusters' = dataClusters
    BY <1>1, <1>2, <1>3, ChunkedByChunk
  <1>4. CASE RunLoop /\ dataClusters' # dataClusters
    <2> DEFINE rn == RunsOf(Head(todo))[run]
    <2>1. /\ wpc = "run" /\ run <= Len(RunsOf(Head(todo))) /\ rn.kind = "read"
          /\ dataClusters' = Append(dataClusters, rn)
      BY <1>4 DEF RunLoop
    <2>2. IsChunk(rn)
      BY <2>1, ReadIsChunk
    <2>3. dataClusters \in Seq(Run)
      BY DEF Typed
    <2> HIDE DEF rn
    <2>4. \A k \in DOMAIN dataClusters' :
             dataClusters'[k] = rn \/ \E i \in DOMAIN dataClusters : dataClusters'[k] = dataClusters[i]
      BY <2>1, <2>3
    <2>5. \A k \in DOMAIN dataClusters' :
             IsChunk(dataClusters'[k]) \/ \E i \in DOMAIN dataClusters : dataClusters'[k] = dataClusters[i]
      BY <2>2, <2>4
    <2> QED
      BY <1>1, <1>2, <2>5, ChunkedByChunk
  <1>5. dataClusters' = dataClusters \/ RunLoop
    BY DEF AsyncWorker, OpenRecord, CloseData, LocateDataAsync, WorkerReturns, dataVars
  <1> QED
    BY <1>3, <1>4, <1>5

\* AsyncProcess goes through the chunk by the lengths that the walk over it goes by.
LEMMA ChunkedParser ==
  ASSUME Typed, Turns, Chunked, AsyncProcess
  PROVE  Chunked'
  <1>1. job' = job /\ r' = r /\ Busy' = Busy /\ Busy
    BY WhileBusy DEF AsyncProcess, ReceiveChunk, Parse, Emit, CloseRecords, ParserReturns, mainVars, Busy
  <1>2. CASE ReceiveChunk
    <2>1. dataClusters \in Seq(Run) /\ dataClusters # <<>>
      BY <1>2 DEF ReceiveChunk, Typed
    <2>2. dataCluster' = Head(dataClusters) /\ dataClusters' = Tail(dataClusters) /\ offset' = 0
      BY <1>2 DEF ReceiveChunk
    <2>3. IsChunk(dataCluster')
      <3>1. 1 \in DOMAIN dataClusters /\ Head(dataClusters) = dataClusters[1]
        BY <2>1
      <3>2. IsChunk(dataClusters[1])
        BY <1>1, <3>1 DEF Chunked
      <3> QED
        BY <2>2, <3>1, <3>2
    <2>4. \A k \in DOMAIN dataClusters' : \E i \in DOMAIN dataClusters : dataClusters'[k] = dataClusters[i]
      BY <2>1, <2>2
    <2>5. Walk(dataCluster')[offset'].end = LastOffset(dataCluster')
      BY <2>2 DEF LastOffset
    <2> QED
      BY <1>1, <2>3, <2>4, <2>5, ChunkedByChunk
  <1>3. CASE Parse
    <2>1. dataCluster \in Run /\ offset \in 0 .. dataCluster.size /\ dataCluster.size \in Nat
      BY DEF Typed, Run
    <2>2. dataCluster' = dataCluster /\ dataClusters' = dataClusters
      BY <1>3 DEF Parse, dataVars
    <2>3. ASSUME offset' < dataCluster.size
          PROVE  Walk(dataCluster)[offset'].end = LastOffset(dataCluster)
      <3>1. CASE offset' = offset
        BY <2>3, <3>1 DEF Chunked
      <3>2. CASE offset' = dataCluster.size
        BY <2>1, <2>3, <3>2
      <3>3. CASE /\ ~Ends(dataCluster, offset) /\ offset < dataCluster.size
                 /\ offset' = offset + ReadTo(dataCluster, offset)
        <4>1. Walk(dataCluster)[offset].end = LastOffset(dataCluster)
          BY <3>3 DEF Chunked
        <4>2. Walk(dataCluster)[offset].end = Walk(dataCluster)[offset'].end
          BY <2>1, <3>3, WalkTurn
        <4> QED
          BY <4>1, <4>2
      <3> QED
        BY <1>3, <2>1, <3>1, <3>2, <3>3 DEF Parse, AfterError, Ends
    <2> QED
      BY <1>1, <2>2, <2>3, ChunkedByChunk
  <1>4. CASE Emit \/ CloseRecords \/ ParserReturns
    <2>1. UNCHANGED <<dataClusters, dataCluster, offset>>
      BY <1>4 DEF Emit, CloseRecords, ParserReturns, dataVars
    <2>2. offset' < dataCluster'.size => Walk(dataCluster')[offset'].end = LastOffset(dataCluster')
      BY <2>1 DEF Chunked
    <2> QED
      BY <1>1, <2>1, <2>2, ChunkedByChunk
  <1> QED
    BY <1>2, <1>3, <1>4 DEF AsyncProcess

\* The steps at which the process can panic.
LEMMA PanicStep ==
  ASSUME Typed, Turns, Reading, Chunked, ~crashed, Process \/ AsyncWorker \/ AsyncProcess
  PROVE  PanicsAreExplained'
  <1>1. CASE ~crashed'
    BY <1>1 DEF PanicsAreExplained
  <1>2. CASE LocateDataAsync /\ crashed'
    <2>1. Busy /\ r <= Len(job.mftrecords) /\ job \in Jobs
      BY <1>2, WhileBusy DEF LocateDataAsync, Typed
    <2>2. todo # <<>> /\ ~HasData(Head(todo)) /\ wpc = "locate" /\ job' = job /\ r' = r
      BY <1>2 DEF LocateDataAsync, mainVars
    <2>3. WorkOf(Of) \in Seq(Rec)
      BY <2>1, CurrentType
    <2>4. PICK N \in Nat : N = Len(WorkOf(Of))
      BY <2>3, LenProperties
    <2>5. Given \in 0 .. N /\ todo = SubSeq(WorkOf(Of), Given + 1, N)
      BY <2>1, <2>2, <2>4 DEF Reading
    <2>6. Given < N /\ Head(todo) = WorkOf(Of)[Given + 1]
      BY <2>2, <2>3, <2>4, <2>5, LastOnes
    <2>7. PICK w \in Range(WorkOf(Of)) : ~HasData(w)
      <3>1. Given + 1 \in DOMAIN WorkOf(Of)
        BY <2>3, <2>4, <2>5, <2>6, LenProperties
      <3> QED
        BY <2>2, <2>6, <3>1 DEF Range
    <2>8. Of' = Of /\ \A x : WorkOf(x)' = WorkOf(x) /\ HasData(x)' = HasData(x)
      BY <2>2, SameJob
    <2>9. WorkOf(Of)' = WorkOf(Of)
      BY <2>8 DEF WorkOf, mft
    <2> QED
      BY <2>7, <2>8, <2>9 DEF PanicsAreExplained, Of
  <1>3. CASE Parse /\ crashed'
    <2>1. dataCluster \in Run /\ offset \in 0 .. dataCluster.size /\ dataCluster.size \in Nat
      BY DEF Typed, Run
    <2>2. /\ ppc = "parse" /\ offset < dataCluster.size /\ Overruns(dataCluster, offset)
          /\ job' = job /\ r' = r
      BY <1>3 DEF Parse, mainVars
    <2>3. Busy
      BY <2>2, WhileBusy
    <2>4. LastOffset(dataCluster) = offset
      <3>1. Ends(dataCluster, offset)
        BY <2>2 DEF Ends
      <3>2. Walk(dataCluster)[offset].end = offset
        BY <2>1, <3>1, WalkTurn
      <3> QED
        BY <2>2, <3>2 DEF Chunked
    <2>5. ~dataCluster.spare /\ dataCluster.size - offset \in {60, 61}
      BY <2>1, <2>2, FilledUpTo DEF Overruns, Enough, ReadFrom
    <2>6. dataCluster # NoChunk
      BY <2>1, <2>2 DEF NoChunk
    <2>7. IsChunk(dataCluster)
      BY <2>3, <2>6 DEF Chunked
    <2>8. PICK w \in Range(WorkOf(Of)) : dataCluster \in Range(Seen(w)) /\ dataCluster.kind = "read"
      BY <2>7 DEF IsChunk
    <2>9. Of' = Of /\ \A x : WorkOf(x)' = WorkOf(x) /\ Seen(x)' = Seen(x)
      BY <2>2, SameJob
    <2>10. WorkOf(Of)' = WorkOf(Of)
      BY <2>9 DEF WorkOf, mft
    <2>11. w \in Range(WorkOf(Of))' /\ dataCluster \in Range(Seen(w))'
      BY <2>8, <2>9, <2>10
    <2>12. \E rn \in Range(Seen(w))' :
             rn.kind = "read" /\ ~rn.spare /\ rn.size - LastOffset(rn) \in {60, 61}
      BY <2>4, <2>5, <2>8, <2>11
    <2> QED
      BY <2>11, <2>12 DEF PanicsAreExplained, Of
  <1>4. LocateDataAsync \/ Parse \/ crashed' = crashed
    BY DEF Process, StartGoroutines, RecordsEnd, WaitReturns, Return, AsyncWorker, OpenRecord,
       CloseData, RunLoop, WorkerReturns, AsyncProcess, ReceiveChunk, Emit, CloseRecords, ParserReturns
  <1> QED
    BY <1>1, <1>2, <1>3, <1>4 DEF Typed

-----------------------------------------------------------------------------
(* The data of a record, run by run and record by record.                  *)

\* What is parsed in one chunk after the other.
Parts(cs) == [k \in DOMAIN cs |-> ParsedFrom(cs[k])]

\* The parts of the chunks that wait are sequences of journal records.
LEMMA PartsType ==
  ASSUME NEW cs \in Seq(Run)
  PROVE  /\ Parts(cs) \in Seq(Seq(JournalRecord)) /\ Len(Parts(cs)) = Len(cs)
         /\ \A k \in 1 .. Len(cs) : Parts(cs)[k] = ParsedFrom(cs[k])
         /\ Waiting(cs) = FlattenSeq(Parts(cs)) /\ Waiting(cs) \in Seq(JournalRecord)
  <1>1. PICK n \in Nat : n = Len(cs) /\ DOMAIN cs = 1 .. n
    BY LenProperties
  <1>2. \A k \in 1 .. n : cs[k] \in Run
    BY <1>1, ElementOfSeq
  <1>3. \A k \in 1 .. n : ParsedFrom(cs[k]) \in Seq(JournalRecord)
    BY <1>2, ParsedFromType
  <1>4. Parts(cs) = [k \in 1 .. n |-> ParsedFrom(cs[k])]
    BY <1>1 DEF Parts
  <1>5. Parts(cs) \in [1 .. n -> Seq(JournalRecord)]
    BY <1>3, <1>4
  <1>6. Parts(cs) \in Seq(Seq(JournalRecord))
    BY <1>5, SeqDef
  <1>7. Len(Parts(cs)) = n
    BY <1>4
  <1>8. Waiting(cs) = FlattenSeq(Parts(cs))
    BY DEF Waiting, Parts
  <1> QED
    BY <1>1, <1>4, <1>6, <1>7, <1>8, FlattenType

\* A chunk that is read comes last, and the one that is received came first.
LEMMA WaitingNext ==
  ASSUME NEW cs \in Seq(Run)
  PROVE  /\ \A rn \in Run : Waiting(Append(cs, rn)) = Waiting(cs) \o ParsedFrom(rn)
         /\ cs # <<>> => Waiting(cs) = ParsedFrom(Head(cs)) \o Waiting(Tail(cs))
  <1>1. ASSUME NEW rn \in Run
        PROVE  Waiting(Append(cs, rn)) = Waiting(cs) \o ParsedFrom(rn)
    <2>1. PICK n \in Nat : n = Len(cs)
      BY LenProperties
    <2>2. PICK ds \in Seq(Run) : ds = Append(cs, rn) /\ Len(ds) = n + 1
                                 /\ (\A i \in 1 .. n : ds[i] = cs[i]) /\ ds[n + 1] = rn
      BY <2>1, AppendProperties
    <2>3. PICK p \in Seq(Seq(JournalRecord)) :
             p = Parts(cs) /\ Len(p) = n /\ \A k \in 1 .. n : p[k] = ParsedFrom(cs[k])
      BY <2>1, PartsType
    <2>4. PICK q \in Seq(Seq(JournalRecord)) :
             q = Parts(ds) /\ Len(q) = n + 1 /\ \A k \in 1 .. n + 1 : q[k] = ParsedFrom(ds[k])
      BY <2>2, PartsType
    <2>5. PICK e \in Seq(JournalRecord) : e = ParsedFrom(rn)
      BY ParsedFromType
    <2>6. q = Append(p, e)
      <3>1. /\ Append(p, e) \in Seq(Seq(JournalRecord)) /\ Len(Append(p, e)) = n + 1
            /\ \A i \in 1 .. n : Append(p, e)[i] = p[i]
            /\ Append(p, e)[n + 1] = e
        <4>1. /\ Append(p, e) \in Seq(Seq(JournalRecord)) /\ Len(Append(p, e)) = Len(p) + 1
              /\ \A i \in 1 .. Len(p) : Append(p, e)[i] = p[i]
              /\ Append(p, e)[Len(p) + 1] = e
          BY AppendProperties
        <4> QED
          BY <2>3, <4>1
      <3>2. \A i \in 1 .. n : q[i] = p[i]
        BY <2>2, <2>3, <2>4
      <3>3. q[n + 1] = e
        BY <2>2, <2>4, <2>5
      <3>4. \A i \in 1 .. n + 1 : q[i] = Append(p, e)[i]
        BY <3>1, <3>2, <3>3
      <3> QED
        BY <2>4, <3>1, <3>4, SeqEqual
    <2>7. FlattenSeq(q) = FlattenSeq(p) \o e
      BY <2>6, FlattenAppend
    <2>8. Waiting(cs) = FlattenSeq(p) /\ Waiting(ds) = FlattenSeq(q)
      BY <2>3, <2>4, PartsType
    <2> QED
      BY <2>2, <2>5, <2>7, <2>8, Zenon
  <1>2. ASSUME cs # <<>>
        PROVE  Waiting(cs) = ParsedFrom(Head(cs)) \o Waiting(Tail(cs))
    <2>1. PICK n \in Nat : Len(cs) = n + 1
      <3>1. Len(cs) \in Nat \ {0}
        BY <1>2, EmptySeq
      <3>2. Len(cs) - 1 \in Nat /\ Len(cs) = (Len(cs) - 1) + 1
        BY <3>1
      <3> QED
        BY <3>2
    <2>2. PICK ds \in Seq(Run) : ds = Tail(cs) /\ Len(ds) = n /\ \A i \in 1 .. n : ds[i] = cs[i + 1]
      <3>1. /\ Tail(cs) \in Seq(Run) /\ Len(Tail(cs)) = Len(cs) - 1
            /\ \A i \in 1 .. Len(Tail(cs)) : Tail(cs)[i] = cs[i + 1]
        BY <1>2, HeadTailProperties
      <3>2. Len(Tail(cs)) = n
        BY <2>1, <3>1
      <3> QED
        BY <3>1, <3>2, Zenon
    <2>3. PICK rn \in Run : rn = Head(cs) /\ rn = cs[1]
      BY <1>2, HeadTailProperties
    <2>4. PICK p \in Seq(Seq(JournalRecord)) :
             p = Parts(cs) /\ Len(p) = n + 1 /\ \A k \in 1 .. n + 1 : p[k] = ParsedFrom(cs[k])
      BY <2>1, PartsType
    <2>5. PICK q \in Seq(Seq(JournalRecord)) :
             q = Parts(ds) /\ Len(q) = n /\ \A k \in 1 .. n : q[k] = ParsedFrom(ds[k])
      BY <2>2, PartsType
    <2>6. PICK e \in Seq(JournalRecord) : e = ParsedFrom(rn)
      BY ParsedFromType
    <2>7. p = <<e>> \o q
      <3>1. <<e>> \in Seq(Seq(JournalRecord)) /\ Len(<<e>>) = 1 /\ <<e>>[1] = e
        OBVIOUS
      <3>2. /\ <<e>> \o q \in Seq(Seq(JournalRecord)) /\ Len(<<e>> \o q) = 1 + n
            /\ \A i \in 1 .. 1 + n : (<<e>> \o q)[i] = IF i <= 1 THEN <<e>>[i] ELSE q[i - 1]
        BY <2>5, <3>1, ConcatProperties
      <3>3. \A i \in 1 .. n : q[i] = p[i + 1]
        BY <2>2, <2>4, <2>5
      <3>4. p[1] = e
        BY <2>3, <2>4, <2>6
      <3>5. \A i \in 1 .. n + 1 : p[i] = (<<e>> \o q)[i]
        <4>1. SUFFICES ASSUME NEW i \in 1 .. n + 1
                       PROVE  p[i] = (<<e>> \o q)[i]
          OBVIOUS
        <4>2. CASE i = 1
          BY <3>1, <3>2, <3>4, <4>2
        <4>3. CASE i # 1
          <5>1. PICK j \in 1 .. n : j = i - 1 /\ i = j + 1
            BY <4>3
          <5> QED
            BY <3>2, <3>3, <4>3, <5>1
        <4> QED
          BY <4>2, <4>3
      <3>6. Len(<<e>> \o q) = n + 1
        BY <3>2
      <3> QED
        BY <2>4, <3>2, <3>5, <3>6, SeqEqual
    <2>8. Waiting(cs) = FlattenSeq(p) /\ Waiting(ds) = FlattenSeq(q)
      BY <2>2, <2>4, <2>5, PartsType
    <2> QED
      BY <2>2, <2>3, <2>6, <2>7, <2>8, FlattenFirst
  <1> QED
    BY <1>1, <1>2

\* The runs before the first, the next one, and all of them.
LEMMA LookedNext ==
  ASSUME job \in Jobs, NEW x \in Rec, NEW n \in Nat, n = Len(Seen(x))
  PROVE  /\ FlattenSeq(RunData(x)) \in Seq(JournalRecord)
         /\ Looked(x, 1) = <<>>
         /\ \A k \in 1 .. n : Looked(x, k + 1) = Looked(x, k) \o ParsedFrom(Seen(x)[k])
         /\ \A k \in Nat \ {0} :
              /\ Looked(x, k) \in Seq(JournalRecord)
              /\ k > n => Looked(x, k) = FlattenSeq(RunData(x))
              /\ \E rest \in Seq(JournalRecord) : FlattenSeq(RunData(x)) = Looked(x, k) \o rest
  <1>1. PICK cs \in Seq(Run) : cs = Seen(x)
    <2>1. RunsOf(x) \in Seq(Run)
      BY WorkType
    <2>2. Len(RunsOf(x)) \in Nat
      BY <2>1, LenProperties
    <2> QED
      BY <2>2, SeenType
  <1>2. PICK p \in Seq(Seq(JournalRecord)) :
           p = RunData(x) /\ Len(p) = n /\ \A k \in 1 .. n : p[k] = ParsedFrom(cs[k])
    BY <1>1, PartsType DEF RunData, Parts
  <1>3. \A k : Looked(x, k) = FlattenSeq(SubSeq(p, 1, IF k <= n THEN k - 1 ELSE n))
    BY <1>2 DEF Looked
  <1>4. Looked(x, 1) = <<>>
    <2>1. (IF 1 <= n THEN 1 - 1 ELSE n) = 0
      OBVIOUS
    <2>2. SubSeq(p, 1, 0) = <<>>
      BY SubSeqEmpty
    <2> QED
      BY <1>3, <2>1, <2>2, FlattenEmpty
  <1>5. ASSUME NEW k \in 1 .. n
        PROVE  Looked(x, k + 1) = Looked(x, k) \o ParsedFrom(Seen(x)[k])
    <2>1. Looked(x, k + 1) = FlattenSeq(SubSeq(p, 1, k))
      <3>1. (IF k + 1 <= n THEN (k + 1) - 1 ELSE n) = k
        OBVIOUS
      <3> QED
        BY <1>3, <3>1
    <2>2. PICK m \in 0 .. n - 1 : m = k - 1 /\ m + 1 = k
      OBVIOUS
    <2>3. Looked(x, k) = FlattenSeq(SubSeq(p, 1, m))
      <3>1. (IF k <= n THEN k - 1 ELSE n) = m
        BY <2>2
      <3> QED
        BY <1>3, <3>1
    <2>4. m \in 0 .. Len(p) - 1
      BY <1>2
    <2>5. FlattenSeq(SubSeq(p, 1, m + 1)) = FlattenSeq(SubSeq(p, 1, m)) \o p[m + 1]
      BY <2>4, FlattenNext
    <2> QED
      BY <1>1, <1>2, <2>1, <2>2, <2>3, <2>5
  <1>6. ASSUME NEW k \in Nat \ {0}
        PROVE  /\ Looked(x, k) \in Seq(JournalRecord)
               /\ k > n => Looked(x, k) = FlattenSeq(RunData(x))
               /\ \E rest \in Seq(JournalRecord) : FlattenSeq(RunData(x)) = Looked(x, k) \o rest
    <2>1. PICK m \in 0 .. n : m = IF k <= n THEN k - 1 ELSE n
      <3>1. (IF k <= n THEN k - 1 ELSE n) \in 0 .. n
        OBVIOUS
      <3> QED
        BY <3>1
    <2>2. Looked(x, k) = FlattenSeq(SubSeq(p, 1, m))
      BY <1>3, <2>1
    <2>3. SubSeq(p, 1, m) \in Seq(Seq(JournalRecord)) /\ m \in 0 .. Len(p)
      BY <1>2, FirstOnes
    <2>4. k > n => SubSeq(p, 1, m) = p
      <3>1. k > n => m = n
        BY <2>1
      <3>2. SubSeq(p, 1, n) = p
        BY <1>2, SubSeqFull
      <3> QED
        BY <3>1, <3>2
    <2>5. \E rest \in Seq(JournalRecord) : FlattenSeq(p) = FlattenSeq(SubSeq(p, 1, m)) \o rest
      BY <2>3, FlattenSplit
    <2>6. FlattenSeq(SubSeq(p, 1, m)) \in Seq(JournalRecord)
      BY <2>3, FlattenType
    <2> QED
      BY <1>2, <2>2, <2>4, <2>5, <2>6, Zenon
  <1>7. FlattenSeq(p) \in Seq(JournalRecord)
    BY FlattenType
  <1> QED
    BY <1>2, <1>4, <1>5, <1>6, <1>7, Zenon

\* The data of a record is that of the records that stand for it.
LEMMA WorkDataType ==
  ASSUME job \in Jobs, NEW x \in Rec, NEW n \in Nat, n = Len(WorkOf(x))
  PROVE  /\ WorkData(x) \in Seq(Seq(JournalRecord)) /\ Len(WorkData(x)) = n
         /\ \A w \in 1 .. n : WorkData(x)[w] = FlattenSeq(RunData(WorkOf(x)[w]))
         /\ DataOf(x) \in Seq(JournalRecord)
  <1>1. WorkOf(x) \in Seq(Rec)
    BY WorkType
  <1>2. DOMAIN WorkOf(x) = 1 .. n /\ \A w \in 1 .. n : WorkOf(x)[w] \in Rec
    BY <1>1, LenProperties, ElementOfSeq
  <1>3. ASSUME NEW w \in 1 .. n
        PROVE  FlattenSeq(RunData(WorkOf(x)[w])) \in Seq(JournalRecord)
    <2>1. PICK y \in Rec : y = WorkOf(x)[w]
      BY <1>2
    <2>2. Len(RunsOf(y)) \in Nat
      BY WorkType, LenProperties
    <2>3. Seen(y) \in Seq(Run)
      BY <2>2, SeenType
    <2>4. Len(Seen(y)) \in Nat
      BY <2>3, LenProperties
    <2> QED
      BY <2>1, <2>4, LookedNext
  <1>4. WorkData(x) = [w \in 1 .. n |-> FlattenSeq(RunData(WorkOf(x)[w]))]
    BY <1>2 DEF WorkData
  <1>5. WorkData(x) \in [1 .. n -> Seq(JournalRecord)]
    BY <1>3, <1>4
  <1>6. WorkData(x) \in Seq(Seq(JournalRecord))
    BY <1>5, SeqDef
  <1>7. Len(WorkData(x)) = n
    BY <1>4
  <1>8. \A w \in 1 .. n : WorkData(x)[w] = FlattenSeq(RunData(WorkOf(x)[w]))
    BY <1>4
  <1> QED
    BY <1>6, <1>7, <1>8, FlattenType DEF DataOf

\* The data of one $MFT record more.
LEMMA ExpectedNext ==
  ASSUME job \in Jobs, NEW N \in Nat, N = Len(job.mftrecords)
  PROVE  /\ Expected(0) = <<>>
         /\ \A n \in 0 .. N :
              /\ Expected(n) \in Seq(JournalRecord)
              /\ n < N => /\ DataOf(job.mftrecords[n + 1]) \in Seq(JournalRecord)
                          /\ Expected(n + 1) = Expected(n) \o DataOf(job.mftrecords[n + 1])
  <1> DEFINE all(n) == [i \in 1 .. n |-> DataOf(job.mftrecords[i])]
  <1>1. \A i \in 1 .. N : DataOf(job.mftrecords[i]) \in Seq(JournalRecord)
    <2>1. SUFFICES ASSUME NEW i \in 1 .. N
                   PROVE  DataOf(job.mftrecords[i]) \in Seq(JournalRecord)
      OBVIOUS
    <2>2. PICK y \in Rec : y = job.mftrecords[i]
      BY JobType, ElementOfSeq
    <2>3. Len(WorkOf(y)) \in Nat
      BY WorkType, LenProperties
    <2> QED
      BY <2>2, <2>3, WorkDataType
  <1>2. ASSUME NEW n \in 0 .. N
        PROVE  all(n) \in Seq(Seq(JournalRecord)) /\ Len(all(n)) = n
    <2>1. all(n) \in [1 .. n -> Seq(JournalRecord)]
      BY <1>1
    <2> QED
      BY <2>1, SeqDef
  <1>3. \A n : Expected(n) = FlattenSeq(all(n))
    BY DEF Expected
  <1>4. Expected(0) = <<>>
    <2>1. all(0) = <<>>
      OBVIOUS
    <2> QED
      BY <1>3, <2>1, FlattenEmpty
  <1>5. ASSUME NEW n \in 0 .. N, n < N
        PROVE  /\ DataOf(job.mftrecords[n + 1]) \in Seq(JournalRecord)
               /\ Expected(n + 1) = Expected(n) \o DataOf(job.mftrecords[n + 1])
    <2>1. PICK e \in Seq(JournalRecord) : e = DataOf(job.mftrecords[n + 1])
      BY <1>1, <1>5
    <2>2. PICK a \in Seq(Seq(JournalRecord)) :
             a = all(n) /\ Len(a) = n /\ \A i \in 1 .. n : a[i] = DataOf(job.mftrecords[i])
      BY <1>2
    <2>3. PICK b \in Seq(Seq(JournalRecord)) : /\ b = all(n + 1) /\ Len(b) = n + 1
                                               /\ \A i \in 1 .. n + 1 : b[i] = DataOf(job.mftrecords[i])
      <3>1. n + 1 \in 0 .. N
        BY <1>5
      <3> QED
        BY <1>2, <3>1
    <2> HIDE DEF all
    <2>4. b = Append(a, e)
      <3>1. /\ Append(a, e) \in Seq(Seq(JournalRecord)) /\ Len(Append(a, e)) = Len(a) + 1
            /\ \A i \in 1 .. Len(a) : Append(a, e)[i] = a[i]
            /\ Append(a, e)[Len(a) + 1] = e
        BY AppendProperties
      <3>2. Len(Append(a, e)) = n + 1 /\ Append(a, e)[n + 1] = e
            /\ \A i \in 1 .. n : Append(a, e)[i] = a[i]
        BY <2>2, <3>1
      <3>3. \A i \in 1 .. n + 1 : b[i] = Append(a, e)[i]
        BY <2>1, <2>2, <2>3, <3>2
      <3> QED
        BY <2>3, <3>1, <3>2, <3>3, SeqEqual
    <2>5. FlattenSeq(b) = FlattenSeq(a) \o e
      BY <2>4, FlattenAppend
    <2> QED
      BY <1>3, <2>1, <2>2, <2>3, <2>5, Zenon
  <1>6. \A n \in 0 .. N : Expected(n) \in Seq(JournalRecord)
    BY <1>2, <1>3, FlattenType
  <1> QED
    BY <1>4, <1>5, <1>6

-----------------------------------------------------------------------------
(* Each step keeps the order of the data.                                  *)

\* The data of three, put together from the left or from the right.
Regroups(a, b, c) == a \o (b \o c) = (a \o b) \o c
LEMMA ConcatLeft == \A a, b, c \in Seq(JournalRecord) : Regroups(a, b, c)
  <1> SUFFICES ASSUME NEW a \in Seq(JournalRecord), NEW b \in Seq(JournalRecord),
                      NEW c \in Seq(JournalRecord)
               PROVE  (a \o b) \o c = a \o (b \o c)
    BY DEF Regroups
  <1> HIDE DEF JournalRecord
  <1> QED
    BY ConcatAssociative

\* What is read but not collected yet has the type of what is collected.
LEMMA FlowTypes ==
  ASSUME Typed
  PROVE  /\ Pending \in Seq(JournalRecord)
         /\ Walk(dataCluster)[offset].records \in Seq(JournalRecord)
         /\ Waiting(dataClusters) \in Seq(JournalRecord)
         /\ Ahead \in Seq(JournalRecord)
         /\ records \in Seq(JournalRecord)
         /\ Expected(r - 1) \in Seq(JournalRecord)
         /\ r <= Len(job.mftrecords) => /\ DataOf(Of) \in Seq(JournalRecord)
                                        /\ Expected(r) = Expected(r - 1) \o DataOf(Of)
                                        /\ Expected(r) \in Seq(JournalRecord)
  <1>1. Pending \in Seq(JournalRecord)
    <2>1. record \in JournalRecord /\ <<>> \in Seq(JournalRecord)
      BY DEF Typed
    <2>2. \A e \in JournalRecord : <<e>> \in Seq(JournalRecord)
      OBVIOUS
    <2> QED
      BY <2>1, <2>2, Zenon DEF Pending
  <1>2. Walk(dataCluster)[offset].records \in Seq(JournalRecord)
    BY WalkType DEF Typed
  <1>3. Waiting(dataClusters) \in Seq(JournalRecord)
    BY PartsType DEF Typed
  <1>4. Ahead \in Seq(JournalRecord)
    <2>1. Walk(dataCluster)[offset].records \o Waiting(dataClusters) \in Seq(JournalRecord)
      BY <1>2, <1>3, ConcatProperties
    <2> QED
      BY <1>1, <2>1, ConcatProperties DEF Ahead
  <1>5. job \in Jobs /\ records \in Seq(JournalRecord)
    BY DEF Typed
  <1>6. PICK N \in Nat : N = Len(job.mftrecords)
    BY <1>5, JobType
  <1>7. PICK n \in 0 .. N : n = r - 1 /\ r = n + 1
    BY <1>6 DEF Typed
  <1>8. Expected(n) \in Seq(JournalRecord)
    BY <1>5, <1>6, ExpectedNext
  <1>9. r <= N => DataOf(Of) \in Seq(JournalRecord) /\ Expected(r) = Expected(n) \o DataOf(Of)
    <2>1. SUFFICES ASSUME r <= N
                   PROVE  /\ DataOf(job.mftrecords[r]) \in Seq(JournalRecord)
                          /\ Expected(r) = Expected(n) \o DataOf(job.mftrecords[r])
      BY DEF Of
    <2>2. n < N
      BY <1>7, <2>1
    <2> QED
      BY <1>5, <1>6, <1>7, <2>2, ExpectedNext
  <1>10. r <= N => Expected(r) \in Seq(JournalRecord)
    BY <1>8, <1>9, ConcatProperties
  <1> QED
    BY <1>1, <1>2, <1>3, <1>4, <1>5, <1>6, <1>7, <1>8, <1>9, <1>10

\* What has been read is what the data of the record begins with.
LEMMA ReadSoFarType ==
  ASSUME Typed, Turns, Reading, Busy
  PROVE  /\ ReadSoFar \in Seq(JournalRecord)
         /\ \E rest \in Seq(JournalRecord) : DataOf(Of) = ReadSoFar \o rest
         /\ wpc \in {"return", "done"} => ReadSoFar = DataOf(Of)
  <1>1. job \in Jobs /\ r <= Len(job.mftrecords)
    BY DEF Typed
  <1>2. Of \in Rec /\ WorkOf(Of) \in Seq(Rec) /\ \A x \in Rec : RunsOf(x) \in Seq(Run)
    BY <1>1, CurrentType
  <1>3. PICK N \in Nat : N = Len(WorkOf(Of))
    BY <1>2, LenProperties
  <1>4. PICK p \in Seq(Seq(JournalRecord)) :
           /\ p = WorkData(Of) /\ Len(p) = N
           /\ \A w \in 1 .. N : p[w] = FlattenSeq(RunData(WorkOf(Of)[w]))
    BY <1>1, <1>2, <1>3, WorkDataType
  <1>5. DataOf(Of) = FlattenSeq(p) /\ FlattenSeq(p) \in Seq(JournalRecord)
    BY <1>4, FlattenType DEF DataOf
  <1>6. \A m \in 0 .. N : /\ FlattenSeq(SubSeq(p, 1, m)) \in Seq(JournalRecord)
                          /\ \E rest \in Seq(JournalRecord) :
                               FlattenSeq(p) = FlattenSeq(SubSeq(p, 1, m)) \o rest
    <2>1. SUFFICES ASSUME NEW m \in 0 .. N
                   PROVE  /\ FlattenSeq(SubSeq(p, 1, m)) \in Seq(JournalRecord)
                          /\ \E rest \in Seq(JournalRecord) :
                               FlattenSeq(p) = FlattenSeq(SubSeq(p, 1, m)) \o rest
      OBVIOUS
    <2>2. m \in 0 .. Len(p)
      BY <1>4
    <2>3. SubSeq(p, 1, m) \in Seq(Seq(JournalRecord))
      BY <1>4, FirstOnes
    <2> QED
      BY <2>2, <2>3, FlattenType, FlattenSplit
  <1>7. CASE wpc = "start"
    <2>1. ReadSoFar = <<>>
      BY <1>7 DEF ReadSoFar
    <2>2. DataOf(Of) = <<>> \o DataOf(Of)
      BY <1>5, ConcatEmptySeq
    <2>3. <<>> \in Seq(JournalRecord)
      OBVIOUS
    <2> QED
      BY <1>5, <1>7, <2>1, <2>2, <2>3
  <1>8. CASE wpc \notin {"start", "run"}
    <2>1. Given \in 0 .. N
      BY <1>3, <1>8 DEF Reading
    <2>2. ReadSoFar = FlattenSeq(SubSeq(p, 1, Given))
      BY <1>4, <1>8 DEF ReadSoFar
    <2>3. wpc \in {"return", "done"} => Given = N
      BY <1>3 DEF Reading, Given
    <2>4. SubSeq(p, 1, N) = p
      BY <1>4, SubSeqFull
    <2>5. wpc \in {"return", "done"} => ReadSoFar = DataOf(Of)
      BY <1>5, <2>2, <2>3, <2>4
    <2> QED
      BY <1>5, <1>6, <2>1, <2>2, <2>5
  <1>9. CASE wpc = "run"
    <2> DEFINE x == Head(todo)
    <2>1. /\ todo # <<>> /\ Given \in 0 .. N
          /\ todo = SubSeq(WorkOf(Of), Given + 1, N)
      BY <1>3, <1>9 DEF Reading
    <2>2. Given < N /\ x = WorkOf(Of)[Given + 1]
      BY <1>2, <1>3, <2>1, LastOnes
    <2>3. PICK g \in 0 .. N - 1 : g = Given
      BY <2>1, <2>2
    <2>4. x \in Rec
      BY <2>1, HeadTailProperties DEF Typed
    <2>5. PICK n \in Nat : n = Len(Seen(x))
      <3>1. Len(RunsOf(x)) \in Nat
        BY <1>2, <2>4, LenProperties
      <3>2. Seen(x) \in Seq(Run)
        BY <1>1, <2>4, <3>1, SeenType
      <3> QED
        BY <3>2, LenProperties
    <2>6. run \in Nat \ {0}
      BY DEF Typed
    <2>7. PICK l \in Seq(JournalRecord), rest1 \in Seq(JournalRecord) :
             l = Looked(x, run) /\ FlattenSeq(RunData(x)) = l \o rest1
      BY <1>1, <2>4, <2>5, <2>6, LookedNext
    <2>8. PICK f \in Seq(JournalRecord) : f = FlattenSeq(SubSeq(p, 1, g))
      BY <1>6
    <2>9. FlattenSeq(SubSeq(p, 1, g + 1)) = f \o (l \o rest1)
      <3>1. g \in 0 .. Len(p) - 1 /\ g + 1 \in 1 .. N
        BY <1>4
      <3>2. p[g + 1] = l \o rest1
        BY <1>4, <2>2, <2>3, <2>7, <3>1
      <3> QED
        BY <2>8, <3>1, <3>2, FlattenNext
    <2>10. PICK rest2 \in Seq(JournalRecord) : FlattenSeq(p) = (f \o (l \o rest1)) \o rest2
      <3>1. g + 1 \in 0 .. N
        OBVIOUS
      <3> QED
        BY <1>6, <2>9, <3>1
    <2>11. /\ (f \o (l \o rest1)) \o rest2 = (f \o l) \o (rest1 \o rest2)
           /\ f \o l \in Seq(JournalRecord) /\ rest1 \o rest2 \in Seq(JournalRecord)
      <3>1. /\ f \o l \in Seq(JournalRecord) /\ rest1 \o rest2 \in Seq(JournalRecord)
            /\ l \o rest1 \in Seq(JournalRecord)
        BY ConcatProperties
      <3>2. Regroups(f, l, rest1) /\ Regroups(f \o l, rest1, rest2)
        BY <3>1, ConcatLeft
      <3> QED
        BY <3>1, <3>2 DEF Regroups
    <2>12. ReadSoFar = f \o l
      BY <1>4, <1>9, <2>3, <2>7, <2>8 DEF ReadSoFar
    <2> QED
      BY <1>5, <1>9, <2>10, <2>11, <2>12
  <1> QED
    BY <1>7, <1>8, <1>9

\* Neither the data nor what came before it depends on anything but the job and the record.
LEMMA SameData ==
  ASSUME job' = job
  PROVE  /\ r' = r => /\ WorkData(Of)' = WorkData(Of) /\ WorkOf(Of)' = WorkOf(Of)
                      /\ Expected(r - 1)' = Expected(r - 1)
         /\ (r \in Nat /\ r' = r + 1) => Expected(r - 1)' = Expected(r)
         /\ todo' = todo => Looked(Head(todo), run)' = Looked(Head(todo), run')
  <1>1. r' = r => WorkData(Of)' = WorkData(Of) /\ WorkOf(Of)' = WorkOf(Of)
    <2>1. SUFFICES ASSUME r' = r
                   PROVE  WorkData(Of)' = WorkData(Of) /\ WorkOf(Of)' = WorkOf(Of)
      OBVIOUS
    <2>2. PICK x : x = Of /\ Of' = x
      BY <2>1, SameJob
    <2>3. WorkData(Of)' = WorkData(x)' /\ WorkOf(Of)' = WorkOf(x)'
      BY <2>2, Zenon DEF WorkData, WorkOf
    <2>4. WorkData(x)' = WorkData(x) /\ WorkOf(x)' = WorkOf(x)
      BY SameJob
    <2> QED
      BY <2>2, <2>3, <2>4, Zenon
  <1>2. r' = r => Expected(r - 1)' = Expected(r - 1)
    <2>1. SUFFICES ASSUME r' = r
                   PROVE  Expected(r - 1)' = Expected(r - 1)
      OBVIOUS
    <2>2. PICK n : n = r - 1 /\ r' - 1 = n
      BY <2>1
    <2>3. Expected(r - 1)' = Expected(n)'
      BY <2>2, Zenon DEF Expected
    <2>4. Expected(n)' = Expected(n)
      BY SameJob
    <2> QED
      BY <2>2, <2>3, <2>4, Zenon
  <1>3. (r \in Nat /\ r' = r + 1) => Expected(r - 1)' = Expected(r)
    <2>1. SUFFICES ASSUME r \in Nat, r' = r + 1
                   PROVE  Expected(r - 1)' = Expected(r)
      OBVIOUS
    <2>2. PICK n \in Nat : n = r /\ r' - 1 = n
      BY <2>1
    <2>3. Expected(r - 1)' = Expected(n)'
      BY <2>2, Zenon DEF Expected
    <2>4. Expected(n)' = Expected(n)
      BY SameJob
    <2> QED
      BY <2>2, <2>3, <2>4, Zenon
  <1>4. todo' = todo => Looked(Head(todo), run)' = Looked(Head(todo), run')
    <2>1. SUFFICES ASSUME todo' = todo
                   PROVE  Looked(Head(todo), run)' = Looked(Head(todo), run')
      OBVIOUS
    <2>2. PICK x, k : x = Head(todo) /\ x = Head(todo') /\ k = run'
      BY <2>1
    <2>3. Looked(Head(todo), run)' = Looked(x, k)'
      BY <2>2, Zenon DEF Looked
    <2>4. Looked(x, k)' = Looked(x, k)
      BY SameJob
    <2> QED
      BY <2>2, <2>3, <2>4, Zenon
  <1> QED
    BY <1>1, <1>2, <1>3, <1>4

\* Process waits for the goroutines only when all the data of the record is collected.
LEMMA WaitedFor ==
  ASSUME Typed, Turns, Reading, Flow, mpc = "wait"
  PROVE  records = Expected(r)
  <1>1. /\ Busy /\ recordsClosed /\ ppc \in {"return", "done"} /\ wpc \in {"return", "done"}
        /\ dataClusters = <<>> /\ offset >= dataCluster.size
    BY DEF Turns, Busy
  <1>2. ReadSoFar = DataOf(Of)
    BY <1>1, ReadSoFarType
  <1>3. Ahead = <<>>
    <2>1. Pending = <<>>
      BY <1>1 DEF Pending
    <2>2. Waiting(dataClusters) = <<>>
      <3>1. [k \in DOMAIN <<>> |-> ParsedFrom(<<>>[k])] = <<>>
        OBVIOUS
      <3> QED
        BY <1>1, <3>1, FlattenEmpty DEF Waiting
    <2>3. Walk(dataCluster)[offset].records = <<>>
      BY <1>1, WalkTurn DEF Ends, Typed
    <2>4. <<>> \o (<<>> \o <<>>) = <<>>
      OBVIOUS
    <2> QED
      BY <2>1, <2>2, <2>3, <2>4 DEF Ahead
  <1>4. records \in Seq(JournalRecord)
    BY FlowTypes
  <1>5. records = Expected(r - 1) \o DataOf(Of)
    BY <1>1, <1>2, <1>3, <1>4, ConcatEmptySeq DEF Flow
  <1> QED
    BY <1>1, <1>5, FlowTypes DEF Typed

\* The start of the goroutines of a record, and the end of them, leave nothing behind.
LEMMA FlowProcess ==
  ASSUME Typed, Turns, Reading, Flow, Process
  PROVE  Flow'
  <1>0. records \in Seq(JournalRecord) /\ Expected(r - 1) \in Seq(JournalRecord)
    BY FlowTypes
  <1>1. CASE StartGoroutines
    <2>1. /\ job' = job /\ r' = r /\ records' = records /\ wpc' = "start" /\ ppc' = "recv"
          /\ dataClusters' = <<>> /\ dataCluster' = NoChunk /\ offset' = 0 /\ Busy' /\ ~Busy
      BY <1>1 DEF StartGoroutines, Busy
    <2>2. records = Expected(r - 1) /\ Expected(r - 1)' = Expected(r - 1)
      BY <2>1, SameData DEF Flow
    <2>3. ReadSoFar' = <<>> /\ Pending' = <<>>
      BY <2>1 DEF ReadSoFar, Pending
    <2>4. Waiting(dataClusters)' = <<>>
      <3>1. Waiting(dataClusters)' = Waiting(dataClusters')
        BY DEF Waiting
      <3>2. [k \in DOMAIN <<>> |-> ParsedFrom(<<>>[k])] = <<>>
        OBVIOUS
      <3> QED
        BY <2>1, <3>1, <3>2, FlattenEmpty DEF Waiting
    <2>5. Walk(NoChunk)[0].records = <<>>
      <3>1. <<>> \in Seq(Item)
        OBVIOUS
      <3>2. NoChunk \in Run /\ NoChunk.size = 0
        BY <3>1 DEF NoChunk, Run
      <3>3. Ends(NoChunk, 0)
        BY <3>2 DEF Ends
      <3> QED
        BY <3>2, <3>3, WalkTurn
    <2>6. Ahead' = <<>>
      <3>1. (Walk(dataCluster)[offset].records)' = <<>>
        BY <2>1, <2>5
      <3>2. <<>> \o (<<>> \o <<>>) = <<>>
        OBVIOUS
      <3> QED
        BY <2>3, <2>4, <3>1, <3>2 DEF Ahead
    <2>7. records' \o Ahead' = Expected(r - 1)' \o ReadSoFar'
      BY <1>0, <2>1, <2>2, <2>3, <2>6
    <2> QED
      BY <2>1, <2>7 DEF Flow
  <1>2. CASE RecordsEnd
    <2>1. job' = job /\ r' = r /\ Busy /\ UNCHANGED <<records, workVars, dataVars, parseVars>>
      BY <1>2 DEF RecordsEnd, Busy
    <2>2. Expected(r - 1)' = Expected(r - 1) /\ WorkData(Of)' = WorkData(Of)
          /\ WorkOf(Of)' = WorkOf(Of) /\ Looked(Head(todo), run)' = Looked(Head(todo), run)
      BY <2>1, SameData DEF workVars
    <2>3. ReadSoFar' = ReadSoFar
      BY <2>1, <2>2 DEF ReadSoFar, Given, workVars
    <2>4. Ahead' = Ahead
      BY <2>1 DEF Ahead, Pending, Waiting, dataVars, parseVars
    <2>5. Busy'
      BY <1>2 DEF RecordsEnd, Busy
    <2> QED
      BY <2>1, <2>2, <2>3, <2>4, <2>5 DEF Flow
  <1>3. CASE WaitReturns
    <2>1. job' = job /\ r' = r + 1 /\ records' = records /\ ~Busy' /\ mpc = "wait"
      BY <1>3 DEF WaitReturns, Busy
    <2>2. records = Expected(r)
      BY <2>1, WaitedFor
    <2>3. Expected(r - 1)' = Expected(r)
      <3>1. r \in Nat
        BY DEF Typed
      <3> QED
        BY <2>1, <3>1, SameData
    <2> QED
      BY <2>1, <2>2, <2>3 DEF Flow
  <1>4. CASE Return
    <2>1. job' = job /\ r' = r /\ records' = records /\ ~Busy /\ ~Busy'
      BY <1>4 DEF Return, Busy
    <2> QED
      BY <2>1, SameData DEF Flow
  <1> QED
    BY <1>1, <1>2, <1>3, <1>4 DEF Process

\* One chunk more on both sides.
LEMMA FlowOneMore ==
  ASSUME Typed, Turns, Reading, Flow, Busy
  PROVE  \A e \in Seq(JournalRecord) :
           records \o (Ahead \o e) = Expected(r - 1) \o (ReadSoFar \o e)
  <1>1. PICK s1 \in Seq(JournalRecord) : s1 = records
    BY FlowTypes
  <1>2. PICK s2 \in Seq(JournalRecord) : s2 = Ahead
    BY FlowTypes
  <1>3. PICK s3 \in Seq(JournalRecord) : s3 = Expected(r - 1)
    BY FlowTypes
  <1>4. PICK s4 \in Seq(JournalRecord) : s4 = ReadSoFar
    BY ReadSoFarType
  <1>5. s1 \o s2 = s3 \o s4
    BY <1>1, <1>2, <1>3, <1>4 DEF Flow
  <1>6. ASSUME NEW e \in Seq(JournalRecord)
        PROVE  s1 \o (s2 \o e) = s3 \o (s4 \o e)
    <2>1. Regroups(s1, s2, e) /\ Regroups(s3, s4, e)
      BY ConcatLeft
    <2> QED
      BY <1>5, <2>1 DEF Regroups
  <1> QED
    BY <1>1, <1>2, <1>3, <1>4, <1>6

\* AsyncWorker reads on in the order of the data, and does not lose what is not collected yet.
LEMMA FlowWorker ==
  ASSUME Typed, Turns, Reading, Flow, AsyncWorker
  PROVE  Flow'
  <1>1. /\ Busy /\ r <= Len(job.mftrecords) /\ job \in Jobs /\ todo \in Seq(Rec)
        /\ dataClusters \in Seq(Run)
    BY WhileBusy DEF AsyncWorker, OpenRecord, CloseData, LocateDataAsync, RunLoop, WorkerReturns, Typed
  <1>2. Of \in Rec /\ WorkOf(Of) \in Seq(Rec) /\ \A x \in Rec : RunsOf(x) \in Seq(Run)
    BY <1>1, CurrentType
  <1>3. /\ job' = job /\ r' = r /\ mpc' = mpc /\ records' = records /\ Busy'
        /\ UNCHANGED parseVars
    BY <1>1 DEF AsyncWorker, OpenRecord, CloseData, LocateDataAsync, RunLoop, WorkerReturns,
       mainVars, Busy
  <1>4. /\ Expected(r - 1)' = Expected(r - 1)
        /\ WorkData(Of)' = WorkData(Of) /\ WorkOf(Of)' = WorkOf(Of)
        /\ todo' = todo => Looked(Head(todo), run)' = Looked(Head(todo), run')
    BY <1>3, SameData
  <1>5. PICK N \in Nat : N = Len(WorkOf(Of))
    BY <1>2, LenProperties
  <1>6. PICK p \in Seq(Seq(JournalRecord)) :
           /\ p = WorkData(Of) /\ Len(p) = N
           /\ \A w \in 1 .. N : p[w] = FlattenSeq(RunData(WorkOf(Of)[w]))
    BY <1>1, <1>2, <1>5, WorkDataType
  <1>7. /\ Expected(r - 1) \in Seq(JournalRecord) /\ Ahead \in Seq(JournalRecord)
        /\ Pending \in Seq(JournalRecord) /\ Waiting(dataClusters) \in Seq(JournalRecord)
        /\ Walk(dataCluster)[offset].records \in Seq(JournalRecord)
        /\ records \in Seq(JournalRecord)
    BY FlowTypes
  <1>8. records \o Ahead = Expected(r - 1) \o ReadSoFar /\ ReadSoFar \in Seq(JournalRecord)
    BY <1>1, ReadSoFarType DEF Flow
  <1>A. \A s1, s2, s3 \in Seq(JournalRecord) :
          /\ (s1 \o s2) \o s3 = s1 \o (s2 \o s3) /\ s1 \o s2 \in Seq(JournalRecord)
    BY ConcatAssociative, ConcatProperties
  <1>9. ASSUME ReadSoFar' = ReadSoFar, dataClusters' = dataClusters
        PROVE  Flow'
    <2>1. Ahead' = Ahead
      BY <1>3, <1>9 DEF Ahead, Pending, Waiting, parseVars
    <2> QED
      BY <1>3, <1>4, <1>8, <1>9, <2>1 DEF Flow
  <1>10. CASE OpenRecord
    <2>1. todo' = WorkOf(Of) /\ wpc = "start" /\ wpc' = "locate" /\ dataClusters' = dataClusters
      BY <1>10 DEF OpenRecord, Of, dataVars
    <2>2. Given' = 0
      BY <1>4, <1>5, <2>1 DEF Given
    <2>3. SubSeq(p, 1, 0) = <<>>
      BY SubSeqEmpty
    <2>4. ReadSoFar' = <<>>
      BY <1>4, <1>6, <2>1, <2>2, <2>3, FlattenEmpty DEF ReadSoFar
    <2>5. ReadSoFar = <<>>
      BY <2>1 DEF ReadSoFar
    <2> QED
      BY <1>9, <2>1, <2>4, <2>5
  <1>11. ASSUME todo' = todo, wpc \notin {"start", "run"}, wpc' \notin {"start", "run"}
         PROVE  ReadSoFar' = ReadSoFar
    <2>1. Given' = Given
      BY <1>4, <1>11 DEF Given
    <2> QED
      BY <1>4, <1>11, <2>1 DEF ReadSoFar
  <1>12. CASE CloseData \/ WorkerReturns
    BY <1>9, <1>11, <1>12 DEF CloseData, WorkerReturns, dataVars
  <1>13. CASE LocateDataAsync
    <2>1. /\ todo' = todo /\ todo # <<>> /\ wpc = "locate" /\ dataClusters' = dataClusters
          /\ wpc' = "locate" \/ (wpc' = "run" /\ run' = 1)
      BY <1>13 DEF LocateDataAsync, dataVars
    <2>2. CASE wpc' = "locate"
      BY <1>9, <1>11, <2>1, <2>2
    <2>3. CASE wpc' = "run" /\ run' = 1
      <3>1. Head(todo) \in Rec
        BY <1>1, <2>1, HeadTailProperties
      <3>2. PICK n \in Nat : n = Len(Seen(Head(todo)))
        <4>1. Len(RunsOf(Head(todo))) \in Nat
          BY <1>2, <3>1, LenProperties
        <4>2. Seen(Head(todo)) \in Seq(Run)
          BY <1>1, <3>1, <4>1, SeenType
        <4> QED
          BY <4>2, LenProperties
      <3>3. Looked(Head(todo), 1) = <<>>
        BY <1>1, <3>1, <3>2, LookedNext
      <3>4. Given' = Given
        BY <1>4, <2>1 DEF Given
      <3>5. ReadSoFar = FlattenSeq(SubSeq(p, 1, Given))
        BY <1>6, <2>1 DEF ReadSoFar
      <3>6. Looked(Head(todo), run)' = <<>>
        BY <1>4, <2>1, <2>3, <3>3
      <3>7. ReadSoFar' = FlattenSeq(SubSeq(p, 1, Given)) \o <<>>
        BY <1>4, <1>6, <2>3, <3>4, <3>6 DEF ReadSoFar
      <3>8. ReadSoFar' = ReadSoFar
        BY <1>8, <3>5, <3>7, ConcatEmptySeq
      <3> QED
        BY <1>9, <2>1, <3>8
    <2> QED
      BY <2>1, <2>2, <2>3
  <1>14. CASE RunLoop
    <2> DEFINE x == Head(todo)
    <2>1. /\ todo # <<>> /\ wpc = "run" /\ Given \in 0 .. N
          /\ todo = SubSeq(WorkOf(Of), Given + 1, N)
          /\ run \in 1 .. Len(Seen(x)) + 1 \/ run = Len(RunsOf(x)) + 1
      BY <1>1, <1>5, <1>14 DEF Reading, RunLoop
    <2>2. x \in Rec
      BY <1>1, <2>1, HeadTailProperties
    <2>3. PICK M \in Nat : M = Len(RunsOf(x))
      BY <1>2, <2>2, LenProperties
    <2>4. PICK n \in 0 .. M : /\ n = Len(Seen(x))
                              /\ \A i \in 1 .. n : Seen(x)[i] = RunsOf(x)[i]
                              /\ n < M => RunsOf(x)[n + 1].kind = "beyond"
      BY <1>1, <2>2, <2>3, SeenType
    <2>5. PICK k \in Nat \ {0} : k = run
      BY DEF Typed
    <2>6. PICK g \in 0 .. N - 1 : g = Given /\ x = WorkOf(Of)[g + 1] /\ Len(Tail(todo)) = N - (g + 1)
      <3>1. Given < N /\ x = WorkOf(Of)[Given + 1] /\ Len(Tail(todo)) = N - (Given + 1)
        BY <1>2, <1>5, <2>1, LastOnes
      <3> QED
        BY <2>1, <3>1
    <2>7. PICK f \in Seq(JournalRecord) : f = FlattenSeq(SubSeq(p, 1, g))
      <3>1. SubSeq(p, 1, g) \in Seq(Seq(JournalRecord))
        BY <1>6, FirstOnes
      <3> QED
        BY <3>1, FlattenType
    <2>8. /\ Looked(x, k) \in Seq(JournalRecord)
          /\ k > n => Looked(x, k) = FlattenSeq(RunData(x))
          /\ M + 1 > n => Looked(x, M + 1) = FlattenSeq(RunData(x))
          /\ k \in 1 .. n => Looked(x, k + 1) = Looked(x, k) \o ParsedFrom(Seen(x)[k])
      <3>1. n \in Nat /\ M + 1 \in Nat \ {0}
        OBVIOUS
      <3>2. \A j \in Nat \ {0} :
              /\ Looked(x, j) \in Seq(JournalRecord)
              /\ j > n => Looked(x, j) = FlattenSeq(RunData(x))
        BY <1>1, <2>2, <2>4, <3>1, LookedNext
      <3> HIDE DEF x
      <3>3. \A j \in 1 .. n : Looked(x, j + 1) = Looked(x, j) \o ParsedFrom(Seen(x)[j])
        BY <1>1, <2>2, <2>4, <3>1, LookedNext
      <3>4. k > n => Looked(x, k) = FlattenSeq(RunData(x))
        BY <2>5, <3>2
      <3>5. M + 1 > n => Looked(x, M + 1) = FlattenSeq(RunData(x))
        BY <3>1, <3>2
      <3>6. k \in 1 .. n => Looked(x, k + 1) = Looked(x, k) \o ParsedFrom(Seen(x)[k])
        BY <3>3
      <3> QED
        BY <2>5, <3>2, <3>4, <3>5, <3>6
    <2>9. ReadSoFar = f \o Looked(x, k)
      BY <1>6, <2>1, <2>5, <2>6, <2>7 DEF ReadSoFar
    <2>10. CASE run > M /\ todo' = Tail(todo) /\ wpc' = "locate" /\ dataClusters' = dataClusters
      <3>1. Given' = g + 1
        <4>1. Given' = Len(WorkOf(Of)) - Len(Tail(todo))
          BY <1>4, <2>10 DEF Given
        <4>2. Given' = N - (N - (g + 1))
          BY <1>5, <2>6, <4>1
        <4> QED
          BY <4>2
      <3>2. Looked(x, k) = p[g + 1]
        <4>1. k > n /\ g + 1 \in 1 .. N
          BY <2>5, <2>10
        <4> QED
          BY <1>6, <2>6, <2>8, <4>1
      <3>3. FlattenSeq(SubSeq(p, 1, g + 1)) = f \o p[g + 1]
        <4>1. g \in 0 .. Len(p) - 1
          BY <1>6
        <4> QED
          BY <2>7, <4>1, FlattenNext
      <3>4. ReadSoFar' = FlattenSeq(SubSeq(p, 1, g + 1))
        BY <1>4, <1>6, <2>10, <3>1 DEF ReadSoFar
      <3>5. ReadSoFar' = ReadSoFar
        BY <2>9, <3>2, <3>3, <3>4
      <3> QED
        BY <1>9, <2>10, <3>5
    <2>11. ASSUME todo' = todo, wpc' = "run"
           PROVE  ReadSoFar' = f \o Looked(x, run')
      <3>1. Given' = g
        BY <1>4, <2>6, <2>11 DEF Given
      <3> QED
        BY <1>4, <1>6, <2>7, <2>11, <3>1 DEF ReadSoFar
    <2>12. CASE /\ run <= M /\ RunsOf(x)[run].kind = "beyond" /\ run' = M + 1
                /\ todo' = todo /\ wpc' = "run" /\ dataClusters' = dataClusters
      <3>1. k > n
        <4>1. SUFFICES ASSUME k \in 1 .. n
                       PROVE  FALSE
          BY <2>4, <2>5
        <4>2. Seen(x)[k].kind = "beyond"
          BY <2>4, <2>5, <2>12, <4>1
        <4> QED
          BY <1>1, <2>2, <2>3, <2>4, <4>1, <4>2, SeenType
      <3>2. Looked(x, run') = Looked(x, k)
        BY <2>4, <2>8, <2>12, <3>1
      <3> QED
        BY <1>9, <2>9, <2>11, <2>12, <3>2
    <2>13. CASE /\ run <= M /\ RunsOf(x)[run].kind \in {"sparse", "read"} /\ run' = run + 1
                /\ todo' = todo /\ wpc' = "run"
      <3>1. k \in 1 .. n /\ Seen(x)[k] = RunsOf(x)[k]
        <4>1. k <= n + 1
          BY <2>1, <2>3, <2>4, <2>5, <2>13
        <4>2. k # n + 1
          BY <2>4, <2>5, <2>13
        <4>3. k \in 1 .. n
          BY <4>1, <4>2
        <4> QED
          BY <2>4, <4>3
      <3>2. PICK e \in Seq(JournalRecord) : e = ParsedFrom(RunsOf(x)[k])
        <4>1. RunsOf(x)[k] \in Run
          BY <1>2, <2>2, <2>3, <2>4, <3>1, ElementOfSeq
        <4> QED
          BY <4>1, ParsedFromType
      <3>3. ReadSoFar' = f \o (Looked(x, k) \o e)
        BY <2>5, <2>8, <2>11, <2>13, <3>1, <3>2
      <3>4. ReadSoFar' = ReadSoFar \o e
        <4>1. f \o (Looked(x, k) \o e) = (f \o Looked(x, k)) \o e
          BY <1>A, <2>8, Zenon
        <4> QED
          BY <2>9, <3>3, <4>1
      <3>5. CASE RunsOf(x)[run].kind = "sparse" /\ dataClusters' = dataClusters
        <4>1. e = <<>>
          BY <2>5, <3>2, <3>5 DEF ParsedFrom
        <4>2. ReadSoFar' = ReadSoFar
          BY <1>8, <3>4, <4>1, ConcatEmptySeq
        <4> QED
          BY <1>9, <3>5, <4>2
      <3>6. CASE dataClusters' = Append(dataClusters, RunsOf(x)[k])
        <4>1. RunsOf(x)[k] \in Run
          BY <1>2, <2>2, <2>3, <2>4, <3>1, ElementOfSeq
        <4>2. Waiting(dataClusters)' = Waiting(dataClusters) \o e
          <5>1. Waiting(dataClusters)' = Waiting(dataClusters')
            BY DEF Waiting
          <5> QED
            BY <1>1, <3>2, <3>6, <4>1, <5>1, WaitingNext
        <4>3. PICK w \in Seq(JournalRecord), q \in Seq(JournalRecord), c \in Seq(JournalRecord) :
                 w = Walk(dataCluster)[offset].records /\ q = Pending /\ c = Waiting(dataClusters)
          BY <1>7
        <4>4. Ahead' = q \o (w \o (c \o e))
          <5>1. Pending' = q /\ (Walk(dataCluster)[offset].records)' = w
            BY <1>3, <4>3 DEF Pending, parseVars
          <5> QED
            BY <4>2, <4>3, <5>1 DEF Ahead
        <4>5. Ahead' = Ahead \o e
          <5>1. w \o c \in Seq(JournalRecord)
            BY <1>A
          <5>2. Regroups(w, c, e) /\ Regroups(q, w \o c, e)
            BY <5>1, ConcatLeft
          <5> QED
            BY <4>3, <4>4, <5>2 DEF Ahead, Regroups
        <4>6. records \o (Ahead \o e) = Expected(r - 1) \o (ReadSoFar \o e)
          BY <1>1, FlowOneMore
        <4> QED
          BY <1>3, <1>4, <1>8, <3>4, <4>5, <4>6 DEF Flow
      <3> QED
        BY <1>14, <2>3, <2>5, <2>13, <3>5, <3>6 DEF RunLoop
    <2> QED
      BY <1>14, <2>3, <2>5, <2>10, <2>12, <2>13 DEF RunLoop, AfterBeyond
  <1> QED
    BY <1>10, <1>12, <1>13, <1>14 DEF AsyncWorker

\* AsyncProcess passes on what is read in the order in which it waits, and what it parses in a
\* chunk in the order of the walk over it.
LEMMA FlowParser ==
  ASSUME Typed, Turns, Reading, Chunked, Flow, AsyncProcess
  PROVE  Flow'
  <1>1. /\ Busy /\ r <= Len(job.mftrecords) /\ job \in Jobs
        /\ dataClusters \in Seq(Run) /\ dataCluster \in Run /\ offset \in 0 .. dataCluster.size
        /\ record \in JournalRecord
    BY WhileBusy DEF AsyncProcess, ReceiveChunk, Parse, Emit, CloseRecords, ParserReturns, Typed
  <1>2. job' = job /\ r' = r /\ mpc' = mpc /\ Busy' /\ UNCHANGED workVars
    BY <1>1 DEF AsyncProcess, ReceiveChunk, Parse, Emit, CloseRecords, ParserReturns, mainVars, Busy
  <1>3. Expected(r - 1)' = Expected(r - 1) /\ ReadSoFar' = ReadSoFar
    <2>1. /\ Expected(r - 1)' = Expected(r - 1)
          /\ WorkData(Of)' = WorkData(Of) /\ WorkOf(Of)' = WorkOf(Of)
          /\ Looked(Head(todo), run)' = Looked(Head(todo), run)
      BY <1>2, SameData DEF workVars
    <2> QED
      BY <1>2, <2>1 DEF ReadSoFar, Given, workVars
  <1>4. records \o Ahead = Expected(r - 1) \o ReadSoFar
    BY <1>1 DEF Flow
  <1>5. ASSUME Ahead' = Ahead, records' = records
        PROVE  Flow'
    BY <1>2, <1>3, <1>4, <1>5 DEF Flow
  <1>6. PICK w \in Seq(JournalRecord) : w = Walk(dataCluster)[offset].records
    BY FlowTypes
  <1>7. PICK c \in Seq(JournalRecord) : c = Waiting(dataClusters)
    BY FlowTypes
  <1>8. w \o c \in Seq(JournalRecord)
    BY ConcatProperties
  <1>9. ppc # "emit" => Ahead = w \o c
    <2>1. <<>> \o (w \o c) = w \o c
      BY <1>8, ConcatEmptySeq
    <2> QED
      BY <1>6, <1>7, <2>1 DEF Ahead, Pending
  <1>10. dataClusters' = dataClusters => Waiting(dataClusters)' = c
    BY <1>7 DEF Waiting
  <1>11. CASE ReceiveChunk
    <2>1. /\ dataCluster' = Head(dataClusters) /\ dataClusters' = Tail(dataClusters)
          /\ offset' = 0 /\ ppc = "recv" /\ ppc' = "parse" /\ dataClusters # <<>>
          /\ records' = records
      BY <1>11 DEF ReceiveChunk, mainVars
    <2>2. w = <<>>
      BY <1>1, <1>6, <2>1, WalkTurn DEF Turns, Ends
    <2>3. Ahead = c
      BY <1>9, <2>1, <2>2, ConcatEmptySeq
    <2>4. Head(dataClusters) \in Run /\ Tail(dataClusters) \in Seq(Run)
      BY <1>1, <2>1, HeadTailProperties
    <2>5. Head(dataClusters).kind = "read"
      <3>1. 1 \in DOMAIN dataClusters /\ Head(dataClusters) = dataClusters[1]
        BY <1>1, <2>1, LenProperties, EmptySeq
      <3>2. IsChunk(dataClusters[1])
        BY <1>1, <3>1 DEF Chunked
      <3> QED
        BY <3>1, <3>2 DEF IsChunk
    <2>6. PICK h \in Seq(JournalRecord) :
             h = ParsedFrom(Head(dataClusters)) /\ h = Walk(Head(dataClusters))[0].records
      BY <2>4, <2>5, ParsedFromType DEF ParsedFrom
    <2>7. PICK t \in Seq(JournalRecord) : t = Waiting(Tail(dataClusters))
      BY <2>4, PartsType
    <2>8. c = h \o t
      BY <1>1, <1>7, <2>1, <2>6, <2>7, WaitingNext
    <2>9. Ahead' = <<>> \o (h \o t)
      <3>1. Waiting(dataClusters)' = t /\ (Walk(dataCluster)[offset].records)' = h
        BY <2>1, <2>6, <2>7 DEF Waiting
      <3> QED
        BY <2>1, <3>1 DEF Ahead, Pending
    <2>10. Ahead' = Ahead
      BY <2>3, <2>8, <2>9, ConcatEmptySeq
    <2> QED
      BY <1>5, <2>1, <2>10
  <1>12. CASE Parse
    <2>1. /\ ppc = "parse" /\ records' = records /\ dataCluster' = dataCluster
          /\ dataClusters' = dataClusters /\ Ahead = w \o c
      BY <1>9, <1>12 DEF Parse, mainVars, dataVars
    <2>2. ASSUME ppc' # "emit", (Walk(dataCluster)[offset].records)' = w
          PROVE  Flow'
      <3>1. Ahead' = <<>> \o (w \o c)
        BY <1>10, <2>1, <2>2 DEF Ahead, Pending
      <3>2. Ahead' = Ahead
        BY <1>8, <2>1, <3>1, ConcatEmptySeq
      <3> QED
        BY <1>5, <2>1, <3>2
    <2>3. CASE ppc' \in {"recv", "parse"} /\ offset' = offset
      BY <1>6, <2>1, <2>2, <2>3
    <2>4. CASE /\ ~IsParsed(dataCluster, offset) /\ offset' = dataCluster.size /\ ppc' = "parse"
      <3>1. dataCluster.size \in 0 .. dataCluster.size
        BY <1>1 DEF Run
      <3>2. Walk(dataCluster)[dataCluster.size].records = <<>>
        <4>1. PICK o \in 0 .. dataCluster.size : o = dataCluster.size
          BY <3>1
        <4>2. Ends(dataCluster, o)
          BY <3>1, <4>1 DEF Ends
        <4>3. Walk(dataCluster)[o].records = <<>>
          BY <1>1, <4>2, WalkTurn
        <4> QED
          BY <4>1, <4>3
      <3>3. w = <<>>
        BY <1>1, <1>6, <2>4, WalkTurn DEF Ends
      <3> QED
        BY <2>1, <2>2, <2>4, <3>2, <3>3
    <2>5. CASE /\ ~Ends(dataCluster, offset)
               /\ record' = Parsed(dataCluster, offset)
               /\ offset' = offset + ReadTo(dataCluster, offset)
               /\ ppc' = IF IsZero(dataCluster, offset) THEN "parse" ELSE "emit"
      <3>1. PICK q \in Seq(JournalRecord) : q = Collected(dataCluster, offset)
        <4>1. offset \in Nat
          BY <1>1 DEF Run
        <4>2. Parsed(dataCluster, offset) \in JournalRecord
          BY <1>1, <4>1, ParsedType
        <4>3. <<>> \in Seq(JournalRecord)
              /\ \A e \in JournalRecord : <<e>> \in Seq(JournalRecord)
          OBVIOUS
        <4> QED
          BY <4>2, <4>3 DEF Collected
      <3>2. PICK o \in 0 .. dataCluster.size : o = offset + ReadTo(dataCluster, offset)
        <4>1. offset \in Nat
          BY <1>1 DEF Run
        <4>2. offset + ReadTo(dataCluster, offset) \in offset + 1 .. dataCluster.size
          BY <1>1, <2>5, <4>1, MovesOn
        <4>3. dataCluster.size \in Nat
          BY <1>1 DEF Run
        <4> QED
          BY <4>1, <4>2, <4>3
      <3>3. PICK v \in Seq(JournalRecord) : v = Walk(dataCluster)[o].records
        BY <1>1, WalkType
      <3>4. w = q \o v
        BY <1>1, <1>6, <2>5, <3>1, <3>2, <3>3, WalkTurn
      <3>5. Pending' = q
        BY <2>5, <3>1 DEF Pending, Collected
      <3>6. (Walk(dataCluster)[offset].records)' = v
        BY <2>1, <2>5, <3>2, <3>3
      <3>7. Ahead' = q \o (v \o c)
        BY <1>10, <2>1, <3>5, <3>6 DEF Ahead
      <3>8. Regroups(q, v, c)
        BY ConcatLeft
      <3>9. Ahead' = Ahead
        BY <2>1, <3>4, <3>7, <3>8 DEF Regroups
      <3> QED
        BY <1>5, <2>1, <3>9
    <2>6. offset \in Nat /\ dataCluster.size \in Nat
      BY <1>1 DEF Run
    <2>7. CASE offset < dataCluster.size /\ ~Overruns(dataCluster, offset)
               /\ IsParsed(dataCluster, offset)
      <3>1. ~Ends(dataCluster, offset)
        BY <2>6, <2>7 DEF Ends
      <3> QED
        BY <1>12, <2>5, <2>6, <2>7, <3>1 DEF Parse
    <2>8. CASE ~(offset < dataCluster.size /\ ~Overruns(dataCluster, offset)
                 /\ IsParsed(dataCluster, offset))
      BY <1>12, <2>1, <2>3, <2>4, <2>8 DEF Parse, AfterError
    <2> QED
      BY <2>7, <2>8
  <1>13. CASE Emit
    <2>1. /\ ppc = "emit" /\ ppc' = "parse" /\ records' = Append(records, record)
          /\ dataClusters' = dataClusters /\ dataCluster' = dataCluster /\ offset' = offset
      BY <1>13 DEF Emit, dataVars
    <2>2. PICK s \in Seq(JournalRecord) : s = records
      BY FlowTypes
    <2>3. <<record>> \in Seq(JournalRecord)
      BY <1>1
    <2>4. Ahead = <<record>> \o (w \o c)
      BY <1>6, <1>7, <2>1 DEF Ahead, Pending
    <2>5. Ahead' = w \o c
      <3>1. Ahead' = <<>> \o (w \o c)
        BY <1>6, <1>10, <2>1 DEF Ahead, Pending
      <3> QED
        BY <1>8, <3>1, ConcatEmptySeq
    <2>6. records' = s \o <<record>>
      BY <1>1, <2>1, <2>2, AppendIsConcat
    <2>7. Regroups(s, <<record>>, w \o c)
      BY <1>8, <2>3, ConcatLeft
    <2>8. records' \o Ahead' = records \o Ahead
      BY <2>2, <2>4, <2>5, <2>6, <2>7 DEF Regroups
    <2> QED
      BY <1>2, <1>3, <1>4, <2>8 DEF Flow
  <1>14. CASE CloseRecords \/ ParserReturns
    <2>1. /\ ppc # "emit" /\ ppc' # "emit" /\ records' = records /\ offset' = offset
          /\ dataClusters' = dataClusters /\ dataCluster' = dataCluster
      BY <1>14 DEF CloseRecords, ParserReturns, mainVars, dataVars
    <2>2. Ahead' = Ahead
      BY <2>1 DEF Ahead, Pending, Waiting
    <2> QED
      BY <1>5, <2>1, <2>2
  <1> QED
    BY <1>11, <1>12, <1>13, <1>14 DEF AsyncProcess

-----------------------------------------------------------------------------
(* The invariant, and what follows from it.                                *)

\* When Process is called, nothing is read yet.
LEMMA InitIInv == Init => IInv
  <1> SUFFICES ASSUME Init PROVE IInv
    OBVIOUS
  <1>1. job \in Jobs /\ Len(job.mftrecords) \in Nat
    BY JobType DEF Init
  <1>2. NoChunk \in Run /\ NoChunk.size = 0 /\ NoRecord \in JournalRecord
    <2>1. <<>> \in Seq(Item) /\ 0 \in Half
      BY HalfRange
    <2>2. <<0, 0, 0, 0>> \in Seq(Half)
      BY <2>1
    <2> QED
      BY <2>1, <2>2 DEF NoChunk, Run, NoRecord, JournalRecord
  <1>3. Typed
    <2>1. <<>> \in Seq(Rec) /\ <<>> \in Seq(Run) /\ <<>> \in Seq(JournalRecord)
      OBVIOUS
    <2>2. r \in 1 .. Len(job.mftrecords) + 1 /\ run \in Nat \ {0} /\ ~Busy
      BY <1>1 DEF Init, Busy
    <2>3. offset \in 0 .. dataCluster.size
      BY <1>2 DEF Init
    <2> QED
      BY <1>1, <1>2, <2>1, <2>2, <2>3 DEF Init, Typed
  <1>4. Turns
    BY <1>2 DEF Init, Turns, Running, Busy
  <1>5. Reading
    BY DEF Init, Reading, Busy
  <1>6. Chunked
    BY <1>2 DEF Init, Chunked, Busy
  <1>7. Flow
    <2>1. ~Busy /\ records = <<>> /\ r - 1 = 0
      BY DEF Init, Busy
    <2>2. Expected(0) = <<>>
      BY <1>1, ExpectedNext
    <2> QED
      BY <2>1, <2>2 DEF Flow
  <1> QED
    BY <1>3, <1>4, <1>5, <1>6, <1>7 DEF Init, IInv, PanicsAreExplained

\* Nothing is said of a state that depends on more than the variables.
LEMMA StutterIInv ==
  ASSUME IInv, UNCHANGED vars
  PROVE  IInv'
  <1>1. /\ job' = job /\ r' = r /\ mpc' = mpc /\ records' = records /\ wg' = wg
        /\ wpc' = wpc /\ todo' = todo /\ run' = run /\ dataClusters' = dataClusters
        /\ dataClosed' = dataClosed /\ ppc' = ppc /\ dataCluster' = dataCluster
        /\ offset' = offset /\ record' = record /\ recordsClosed' = recordsClosed
        /\ crashed' = crashed
    BY DEF vars, mainVars, workVars, dataVars, parseVars
  <1>2. Busy' = Busy
    BY <1>1 DEF Busy
  <1>3. Typed'
    BY <1>1, <1>2, SameJob DEF IInv, Typed
  <1>4. Turns'
    BY <1>1, <1>2 DEF IInv, Turns, Running
  <1>5. Reading'
    <2>1. WorkOf(Of)' = WorkOf(Of) /\ Seen(Head(todo))' = Seen(Head(todo))
          /\ RunsOf(Head(todo))' = RunsOf(Head(todo))
      BY <1>1 DEF WorkOf, Of, Seen, RunsOf, RunListHolder, mft, UpTo, SelectInSeq
    <2>2. Given' = Given
      BY <1>1, <2>1 DEF Given
    <2> QED
      BY <1>1, <1>2, <2>1, <2>2 DEF IInv, Reading
  <1>6. Chunked'
    <2>1. offset' < dataCluster'.size => Walk(dataCluster')[offset'].end = LastOffset(dataCluster')
      BY <1>1 DEF IInv, Chunked
    <2> QED
      BY <1>1, <1>2, <2>1, ChunkedByChunk DEF IInv
  <1>7. Flow'
    <2>1. /\ Expected(r - 1)' = Expected(r - 1)
          /\ WorkData(Of)' = WorkData(Of) /\ WorkOf(Of)' = WorkOf(Of)
          /\ Looked(Head(todo), run)' = Looked(Head(todo), run)
      BY <1>1, SameData
    <2>2. ReadSoFar' = ReadSoFar
      BY <1>1, <2>1 DEF ReadSoFar, Given
    <2>3. Ahead' = Ahead
      BY <1>1 DEF Ahead, Pending, Waiting
    <2> QED
      BY <1>1, <1>2, <2>1, <2>2, <2>3 DEF IInv, Flow
  <1>8. PanicsAreExplained'
    <2>1. SUFFICES ASSUME crashed
                   PROVE  PanicsAreExplained'
      BY <1>1 DEF PanicsAreExplained
    <2>2. PICK x : x = Of
      OBVIOUS
    <2>3. x = Of'
      BY <1>1, <2>2, SameJob
    <2>4. WorkOf(x)' = WorkOf(x) /\ \A y : HasData(y)' = HasData(y) /\ Seen(y)' = Seen(y)
      BY <1>1, SameJob
    <2>5. CASE \E w \in Range(WorkOf(x)) : ~HasData(w)
      <3>1. \E w \in Range(WorkOf(x))' : ~HasData(w)'
        BY <2>4, <2>5
      <3> QED
        BY <2>3, <3>1 DEF PanicsAreExplained, Of
    <2>6. CASE \E w \in Range(WorkOf(x)) : \E rn \in Range(Seen(w)) :
                 rn.kind = "read" /\ ~rn.spare /\ rn.size - LastOffset(rn) \in {60, 61}
      <3>1. \E w \in Range(WorkOf(x))' : \E rn \in Range(Seen(w))' :
              rn.kind = "read" /\ ~rn.spare /\ rn.size - LastOffset(rn) \in {60, 61}
        BY <2>4, <2>6
      <3> QED
        BY <2>3, <3>1 DEF PanicsAreExplained, Of
    <2> QED
      BY <2>1, <2>2, <2>5, <2>6 DEF IInv, PanicsAreExplained, Of
  <1> QED
    BY <1>3, <1>4, <1>5, <1>6, <1>7, <1>8 DEF IInv

\* Process, AsyncWorker and AsyncProcess keep every part of the invariant.
LEMMA NextIInv == IInv /\ [Next]_vars => IInv'
  <1> SUFFICES ASSUME IInv, [Next]_vars
               PROVE  IInv'
    OBVIOUS
  <1>1. Typed /\ Turns /\ Reading /\ Chunked /\ Flow
    BY DEF IInv
  <1>2. CASE ~crashed /\ Process
    BY <1>1, <1>2, TypedProcess, TurnsProcess, ReadingOthers, ChunkedProcess, FlowProcess,
       PanicStep DEF IInv
  <1>3. CASE ~crashed /\ AsyncWorker
    BY <1>1, <1>3, TypedWorker, TurnsWorker, ReadingWorker, ChunkedWorker, FlowWorker,
       PanicStep DEF IInv
  <1>4. CASE ~crashed /\ AsyncProcess
    BY <1>1, <1>4, TypedParser, TurnsParser, ReadingOthers, ChunkedParser, FlowParser,
       PanicStep DEF IInv
  <1>5. CASE UNCHANGED vars
    BY <1>5, StutterIInv
  <1> QED
    BY <1>2, <1>3, <1>4, <1>5 DEF Next, Ended

\* Whatever the order of the steps of the three goroutines, the invariant holds.
LEMMA IInvAlways == Spec => []IInv
  BY InitIInv, NextIInv, PTL DEF Spec

\* Every variable of the three goroutines keeps its type; no more chunks wait than there is
\* room for.
THEOREM TypeCorrect == Spec => []TypeOK
  <1>1. IInv => TypeOK
    <2> SUFFICES ASSUME IInv PROVE TypeOK
      OBVIOUS
    <2>1. wg \in 0 .. 2
      BY DEF IInv, Turns, Running
    <2>2. Range(records) \subseteq JournalRecord
      BY RangeOfSeq DEF IInv, Typed
    <2>3. mpc # "next" /\ mpc # "done" => Busy
      BY DEF IInv, Typed, Busy
    <2> QED
      BY <2>1, <2>2, <2>3 DEF IInv, Typed, TypeOK, JournalRecord
  <1> QED
    BY <1>1, IInvAlways, PTL

\* The WaitGroup counts the goroutines that run, and none of a record is left when Process
\* goes on to the next one.
THEOREM ProtocolKept == Spec => []Protocol
  <1>1. IInv => Protocol
    <2> SUFFICES ASSUME IInv PROVE Protocol
      OBVIOUS
    <2> DEFINE running == {g \in {"worker", "parser"} :
                             IF g = "worker" THEN wpc # "done" ELSE ppc # "done"}
    <2>1. Cardinality(running) = Running
      <3>1. CASE wpc # "done" /\ ppc # "done"
        <4>1. running = {"worker"} \union {"parser"} /\ "parser" \notin {"worker"}
          BY <3>1
        <4>2. Cardinality({"worker"} \union {"parser"}) = 2
          <5>1. IsFiniteSet({"worker"}) /\ Cardinality({"worker"}) = 1
            BY FS_Singleton
          <5>2. Cardinality({"worker"} \union {"parser"}) = Cardinality({"worker"}) + 1
            BY <4>1, <5>1, FS_AddElement
          <5> QED
            BY <5>1, <5>2
        <4> QED
          BY <3>1, <4>1, <4>2 DEF Running
      <3>2. CASE wpc # "done" /\ ppc = "done"
        <4>1. running = {"worker"}
          BY <3>2
        <4>2. Cardinality({"worker"}) = 1
          BY FS_Singleton
        <4> QED
          BY <3>2, <4>1, <4>2 DEF Running
      <3>3. CASE wpc = "done" /\ ppc # "done"
        <4>1. running = {"parser"}
          BY <3>3
        <4>2. Cardinality({"parser"}) = 1
          BY FS_Singleton
        <4> QED
          BY <3>3, <4>1, <4>2 DEF Running
      <3>4. CASE wpc = "done" /\ ppc = "done"
        <4>1. running = {}
          BY <3>4
        <4> QED
          BY <3>4, <4>1, FS_EmptySet DEF Running
      <3> QED
        BY <3>1, <3>2, <3>3, <3>4
    <2>2. wg = Cardinality(running)
      BY <2>1 DEF IInv, Turns
    <2>3. mpc \in {"next", "done"} => wpc = "done" /\ ppc = "done" /\ wg = 0
      BY WhileBusy DEF IInv, Turns, Busy
    <2> QED
      BY <2>2, <2>3 DEF IInv, Turns, Protocol
  <1> QED
    BY <1>1, IInvAlways, PTL

\* Whatever the interleaving, what the walk of AsyncProcess makes of each chunk, up to its first
\* error, is collected in the order of the chunks, nothing of it lost or twice, and all of it
\* when Process goes on to the next $MFT record.  It does not say that the walk, which leaves
\* the boundaries of the stored records, yields each of them.
THEOREM CollectsInOrder == Spec => []CollectedInOrder
  <1>1. IInv => CollectedInOrder
    <2> SUFFICES ASSUME IInv PROVE CollectedInOrder
      OBVIOUS
    <2>1. Typed /\ Turns /\ Reading /\ Flow
      BY DEF IInv
    <2>2. PICK s \in Seq(JournalRecord), b \in Seq(JournalRecord) : s = records /\ b = Expected(r - 1)
      BY <2>1, FlowTypes
    <2>3. r <= Len(job.mftrecords) =>
            DataOf(Of) \in Seq(JournalRecord) /\ Expected(r) = b \o DataOf(Of)
      BY <2>1, <2>2, FlowTypes
    <2>4. ASSUME r <= Len(job.mftrecords)
          PROVE  IsPrefix(records, Expected(r))
      <3>1. CASE ~Busy
        <4>1. records = b
          BY <2>1, <2>2, <3>1 DEF Flow
        <4> QED
          BY <2>3, <2>4, <4>1, PrefixOfConcat
      <3>2. CASE Busy
        <4>1. PICK a \in Seq(JournalRecord) : a = Ahead
          BY <2>1, FlowTypes
        <4>2. PICK q \in Seq(JournalRecord) : q = ReadSoFar
          BY <2>1, <3>2, ReadSoFarType
        <4>3. PICK rest \in Seq(JournalRecord) : DataOf(Of) = q \o rest
          BY <2>1, <3>2, <4>2, ReadSoFarType
        <4>4. s \o a = b \o q
          BY <2>1, <2>2, <3>2, <4>1, <4>2 DEF Flow
        <4>5. Expected(r) = b \o (q \o rest)
          BY <2>3, <2>4, <4>3
        <4>6. b \o (q \o rest) = s \o (a \o rest)
          <5>1. Regroups(b, q, rest) /\ Regroups(s, a, rest)
            BY ConcatLeft
          <5> QED
            BY <4>4, <5>1 DEF Regroups
        <4>7. a \o rest \in Seq(JournalRecord)
          BY ConcatProperties
        <4>8. IsPrefix(s, s \o (a \o rest))
          BY <4>7, PrefixOfConcat
        <4> QED
          BY <2>2, <4>5, <4>6, <4>8
      <3> QED
        BY <3>1, <3>2
    <2>5. mpc \in {"next", "done"} => records = Expected(r - 1)
      BY <2>1 DEF Flow, Busy
    <2>6. ASSUME mpc = "wait"
          PROVE  records = Expected(r)
      <3>1. Busy /\ r <= Len(job.mftrecords)
        BY <2>1, <2>6 DEF Busy, Typed
      <3> QED
        BY <2>1, <2>6, <3>1, WaitedFor
    <2> QED
      BY <2>4, <2>5, <2>6 DEF CollectedInOrder
  <1> QED
    BY <1>1, IInvAlways, PTL

\* A panic of AsyncWorker or of Parse has its reason in the data of the current record.
THEOREM PanicsExplained == Spec => []PanicsAreExplained
  <1>1. IInv => PanicsAreExplained
    BY DEF IInv
  <1> QED
    BY <1>1, IInvAlways, PTL

-----------------------------------------------------------------------------
(* Nothing goes on for ever, and nobody waits for ever.                    *)

\* A goroutine that waits, waits for one that moves: without a buffer too, where the worker
\* sends to a parser that waits.
LEMMA WaitsForAnother == IInv => NoCircularWait
  <1> SUFFICES ASSUME IInv, ~crashed
               PROVE  /\ mpc \in {"recv", "wait"} /\ ~ProcessMoves => WorkerMoves \/ ParserMoves
                      /\ wpc = "run" /\ ~WorkerMoves => ParserMoves
                      /\ ppc = "recv" /\ ~ParserMoves => WorkerMoves
                      /\ ppc = "emit" => ParserMoves
    BY DEF NoCircularWait
  <1>0. Typed /\ Turns
    BY DEF IInv
  <1>1. ppc = "emit" => ParserMoves
    <2>1. SUFFICES ASSUME ppc = "emit" PROVE mpc = "recv"
      BY DEF ParserMoves
    <2>2. Busy /\ ~recordsClosed
      BY <1>0, <2>1, WhileBusy DEF Turns
    <2> QED
      BY <1>0, <2>2 DEF Turns, Busy
  <1>2. wpc = "run" /\ dataClusters = <<>> /\ ppc = "recv" => CanSend
    <2>1. SUFFICES ASSUME wpc = "run", dataClusters = <<>>, ppc = "recv" PROVE CanSend
      OBVIOUS
    <2>2. PICK n \in Nat : n = Capacity
      BY <1>0, <2>1, WhileBusy, CurrentType
    <2>3. Len(dataClusters) = 0
      BY <2>1
    <2> QED
      BY <2>1, <2>2, <2>3 DEF CanSend
  <1>3. wpc = "run" /\ ~WorkerMoves => ParserMoves
    <2>1. SUFFICES ASSUME wpc = "run", ~CanSend PROVE ParserMoves
      BY DEF WorkerMoves
    <2>2. ppc \in {"recv", "parse", "emit"}
      BY <1>0, <2>1 DEF Typed, Turns
    <2>3. ppc = "recv" => dataClusters # <<>>
      BY <1>2, <2>1
    <2> QED
      BY <1>1, <2>2, <2>3 DEF ParserMoves
  <1>4. ppc = "recv" /\ ~ParserMoves => WorkerMoves
    <2>1. SUFFICES ASSUME ppc = "recv", dataClusters = <<>>, ~dataClosed PROVE WorkerMoves
      BY DEF ParserMoves, Drained
    <2>2. wpc \in {"start", "locate", "run"}
      BY <1>0, <2>1 DEF Typed, Turns
    <2> QED
      BY <1>2, <2>1, <2>2 DEF WorkerMoves
  <1>5. mpc \in {"recv", "wait"} /\ ~ProcessMoves => WorkerMoves \/ ParserMoves
    <2>1. CASE mpc = "recv" /\ ~recordsClosed
      <3>1. ppc \in {"recv", "parse", "emit"}
        BY <1>0, <2>1 DEF Typed, Turns
      <3> QED
        BY <1>1, <1>4, <3>1 DEF ParserMoves
    <2>2. CASE mpc = "wait" /\ wg # 0
      <3>1. wpc \in {"return", "done"} /\ ppc \in {"return", "done"}
        BY <1>0, <2>2 DEF Turns
      <3>2. wpc # "done" \/ ppc # "done"
        BY <1>0, <2>2 DEF Turns, Running
      <3> QED
        BY <3>1, <3>2 DEF WorkerMoves, ParserMoves
    <2> QED
      BY <2>1, <2>2 DEF ProcessMoves
  <1> QED
    BY <1>1, <1>3, <1>4, <1>5

\* No two of the goroutines of a $MFT record, and Process, wait for each other, in any
\* reachable state.
THEOREM NobodyWaitsForEver == Spec => []NoCircularWait
  BY IInvAlways, WaitsForAnother, PTL

\* How many of the bytes of a chunk are left, and how many of the runs of a record.
LEMMA SizesLeft ==
  ASSUME Typed, Turns, Reading
  PROVE  /\ dataCluster.size \in Nat /\ offset \in Nat
         /\ BytesLeft \in Nat /\ RunsLeft \in Nat
         /\ wpc = "run" => Len(RunsOf(Head(todo))) \in Nat /\ todo # <<>>
  <1>1. dataCluster.size \in Nat /\ offset \in 0 .. dataCluster.size
    BY DEF Typed, Run
  <1>2. BytesLeft \in Nat
    BY <1>1 DEF BytesLeft
  <1>3. ASSUME wpc = "run"
        PROVE  Len(RunsOf(Head(todo))) \in Nat /\ todo # <<>>
    <2>1. Busy /\ todo # <<>>
      BY <1>3, WhileBusy DEF Reading
    <2>2. Head(todo) \in Rec /\ job \in Jobs
      BY <2>1, HeadTailProperties DEF Typed
    <2> QED
      BY <2>1, <2>2, WorkType, LenProperties
  <1>4. run \in Nat
    BY DEF Typed
  <1>5. RunsLeft \in Nat
    BY <1>3, <1>4, TurnsAreLeft DEF RunsLeft
  <1> QED
    BY <1>1, <1>2, <1>3, <1>5

\* What is left to do is told in natural numbers.
LEMMA LeftIsMeasure == IInv => IsMeasure(LeftToDo)
  <1> SUFFICES ASSUME IInv PROVE IsMeasure(LeftToDo)
    OBVIOUS
  <1>0. Typed /\ Turns /\ Reading
    BY DEF IInv
  <1>1. Len(todo) \in Nat /\ Len(dataClusters) \in Nat
    BY <1>0, LenProperties DEF Typed
  <1>2. TurnsLeft(Len(job.mftrecords), r) \in Nat
    <2>1. Len(job.mftrecords) \in Nat /\ r \in Nat
      BY <1>0, JobType DEF Typed
    <2> QED
      BY <2>1, TurnsAreLeft
  <1>3. /\ OneIf(~crashed) \in Nat /\ ProcessStage \in Nat /\ OneIf(wpc = "start") \in Nat
        /\ WorkerStage \in Nat /\ ParserStage \in Nat
    BY DEF OneIf, ProcessStage, WorkerStage, ParserStage
  <1>4. BytesLeft \in Nat /\ RunsLeft \in Nat
    BY <1>0, SizesLeft
  <1>5. /\ DOMAIN LeftToDo = 1 .. 10
        /\ LeftToDo[1] = OneIf(~crashed) /\ LeftToDo[2] = TurnsLeft(Len(job.mftrecords), r)
        /\ LeftToDo[3] = ProcessStage /\ LeftToDo[4] = OneIf(wpc = "start")
        /\ LeftToDo[5] = Len(todo) /\ LeftToDo[6] = WorkerStage /\ LeftToDo[7] = RunsLeft
        /\ LeftToDo[8] = Len(dataClusters) /\ LeftToDo[9] = BytesLeft
        /\ LeftToDo[10] = ParserStage
    BY DEF LeftToDo
  <1> QED
    BY <1>1, <1>2, <1>3, <1>4, <1>5, TenNumbers

\* Every step takes what is left below what it was: a chunk that is sent is one run less,
\* and the parser moves on by at least the 60 bytes that Enough asks for.
LEMMA StepCounts ==
  ASSUME IInv, ~crashed, Process \/ AsyncWorker \/ AsyncProcess
  PROVE  Below(LeftToDo', LeftToDo)
  <1> USE DEF vars, mainVars, workVars, dataVars, parseVars
  <1>0. Typed /\ Turns /\ Reading
    BY DEF IInv
  <1>1. /\ job \in Jobs /\ Len(job.mftrecords) \in Nat /\ r \in Nat
        /\ todo \in Seq(Rec) /\ Len(todo) \in Nat
        /\ dataClusters \in Seq(Run) /\ Len(dataClusters) \in Nat
    BY <1>0, JobType, LenProperties DEF Typed
  <1>a. /\ DOMAIN LeftToDo = 1 .. 10
        /\ LeftToDo[1] = OneIf(~crashed) /\ LeftToDo[2] = TurnsLeft(Len(job.mftrecords), r)
        /\ LeftToDo[3] = ProcessStage /\ LeftToDo[4] = OneIf(wpc = "start")
        /\ LeftToDo[5] = Len(todo) /\ LeftToDo[6] = WorkerStage /\ LeftToDo[7] = RunsLeft
        /\ LeftToDo[8] = Len(dataClusters) /\ LeftToDo[9] = BytesLeft
        /\ LeftToDo[10] = ParserStage
    BY DEF LeftToDo
  <1>b. /\ LeftToDo'[1] = OneIf(~crashed)' /\ LeftToDo'[2] = TurnsLeft(Len(job.mftrecords), r)'
        /\ LeftToDo'[3] = ProcessStage' /\ LeftToDo'[4] = OneIf(wpc = "start")'
        /\ LeftToDo'[5] = Len(todo)' /\ LeftToDo'[6] = WorkerStage' /\ LeftToDo'[7] = RunsLeft'
        /\ LeftToDo'[8] = Len(dataClusters)' /\ LeftToDo'[9] = BytesLeft'
        /\ LeftToDo'[10] = ParserStage'
    BY DEF LeftToDo
  <1>c. \A k \in 1 .. 10 : SmallerAt(LeftToDo', LeftToDo, k) => Below(LeftToDo', LeftToDo)
    BY <1>a, FirstDifference
  <1>f. SmallerSixth(LeftToDo', LeftToDo) => Below(LeftToDo', LeftToDo)
    BY <1>a, SixthDifference
  <1>d. SameFront(LeftToDo', LeftToDo) /\ SmallerBack(LeftToDo', LeftToDo)
          => Below(LeftToDo', LeftToDo)
    BY <1>a, LateDifference
  <1>2. CASE Process
    <2>1. job' = job /\ crashed' = crashed
      BY <1>2 DEF Process, StartGoroutines, RecordsEnd, WaitReturns, Return
    <2>2. OneIf(~crashed)' = OneIf(~crashed)
      BY <2>1 DEF OneIf
    <2>3. CASE WaitReturns
      <3>1. r <= Len(job.mftrecords) /\ r' = r + 1
        BY <1>0, <2>3 DEF WaitReturns, Typed, Busy
      <3>2. TurnsLeft(Len(job.mftrecords), r)' < TurnsLeft(Len(job.mftrecords), r)
        BY <1>1, <2>1, <3>1, TurnsAreLeft
      <3>3. SmallerAt(LeftToDo', LeftToDo, 2)
        BY <1>a, <1>b, <2>2, <3>2 DEF SmallerAt
      <3> QED
        BY <1>c, <3>3
    <2>4. CASE ~WaitReturns
      <3>1. r' = r
        BY <1>2, <2>4 DEF Process, StartGoroutines, RecordsEnd, Return
      <3>2. TurnsLeft(Len(job.mftrecords), r)' = TurnsLeft(Len(job.mftrecords), r)
        BY <2>1, <3>1
      <3>3. \/ mpc = "next" /\ mpc' \in {"recv", "done"}
            \/ mpc = "recv" /\ mpc' = "wait"
        BY <1>2, <2>4 DEF Process, StartGoroutines, RecordsEnd, Return
      <3>4. ProcessStage' < ProcessStage
        BY <3>3 DEF ProcessStage
      <3>5. SmallerAt(LeftToDo', LeftToDo, 3)
        BY <1>a, <1>b, <2>2, <3>2, <3>4 DEF SmallerAt
      <3> QED
        BY <1>c, <3>5
    <2> QED
      BY <2>3, <2>4
  <1>3. CASE crashed'
    <2>1. OneIf(~crashed)' < OneIf(~crashed)
      BY <1>3 DEF OneIf
    <2>2. SmallerAt(LeftToDo', LeftToDo, 1)
      BY <1>a, <1>b, <2>1 DEF SmallerAt
    <2> QED
      BY <1>c, <2>2
  <1>4. CASE AsyncWorker /\ ~crashed'
    <2>1. job' = job /\ r' = r /\ mpc' = mpc
      BY <1>4 DEF AsyncWorker, OpenRecord, CloseData, LocateDataAsync, RunLoop, WorkerReturns
    <2>2. /\ OneIf(~crashed)' = OneIf(~crashed)
          /\ TurnsLeft(Len(job.mftrecords), r)' = TurnsLeft(Len(job.mftrecords), r)
          /\ ProcessStage' = ProcessStage
      BY <1>4, <2>1 DEF OneIf, ProcessStage
    <2>3. CASE OpenRecord
      <3>1. OneIf(wpc = "start")' < OneIf(wpc = "start")
        BY <2>3 DEF OpenRecord, OneIf
      <3>2. SmallerAt(LeftToDo', LeftToDo, 4)
        BY <1>a, <1>b, <2>2, <3>1 DEF SmallerAt
      <3> QED
        BY <1>c, <3>2
    <2>4. CASE ~OpenRecord
      <3>1. wpc # "start" /\ wpc' # "start"
        BY <1>4, <2>4 DEF AsyncWorker, CloseData, LocateDataAsync, RunLoop, WorkerReturns
      <3>2. OneIf(wpc = "start")' = OneIf(wpc = "start")
        BY <3>1 DEF OneIf
      <3>3. CASE wpc = "run" /\ todo' = Tail(todo)
        <4>1. todo # <<>>
          BY <1>0, <3>3, SizesLeft
        <4>2. Len(todo)' < Len(todo)
          BY <1>1, <3>3, <4>1, HeadTailProperties, LenProperties
        <4>3. SmallerAt(LeftToDo', LeftToDo, 5)
          BY <1>a, <1>b, <2>2, <3>2, <4>2 DEF SmallerAt
        <4> QED
          BY <1>c, <4>3
      <3>4. CASE todo' = todo /\ \/ wpc = "locate" /\ wpc' \in {"run", "return"}
                                 \/ wpc = "return" /\ wpc' = "done"
        <4>1. WorkerStage' < WorkerStage /\ Len(todo)' = Len(todo)
          BY <3>4 DEF WorkerStage
        <4>2. SmallerSixth(LeftToDo', LeftToDo)
          BY <1>a, <1>b, <2>2, <3>2, <4>1 DEF SmallerSixth
        <4> QED
          BY <1>f, <4>2
      <3>5. CASE /\ todo' = todo /\ wpc = "run" /\ wpc' = wpc /\ run <= Len(RunsOf(Head(todo)))
                 /\ run' \in {run + 1, Len(RunsOf(Head(todo))) + 1}
        <4>1. PICK n \in Nat : n = Len(RunsOf(Head(todo)))
          BY <1>0, <3>5, SizesLeft
        <4>2. RunsOf(Head(todo))' = RunsOf(Head(todo))
          BY <2>1, <3>5 DEF RunsOf, RunListHolder, mft
        <4>3. RunsLeft = TurnsLeft(n, run) /\ RunsLeft' = TurnsLeft(n, run')
          BY <3>5, <4>1, <4>2 DEF RunsLeft
        <4>4. run \in Nat /\ run <= n /\ run' \in {run + 1, n + 1}
          BY <1>0, <3>5, <4>1 DEF Typed
        <4>5. RunsLeft' < RunsLeft
          BY <4>3, <4>4, TurnsAreLeft
        <4>6. WorkerStage' = WorkerStage /\ Len(todo)' = Len(todo)
          BY <3>5 DEF WorkerStage
        <4>7. SameFront(LeftToDo', LeftToDo)
          BY <1>a, <1>b, <2>2, <3>2, <4>6 DEF SameFront
        <4>8. SmallerBack(LeftToDo', LeftToDo)
          BY <1>a, <1>b, <4>5 DEF SmallerBack
        <4> QED
          BY <1>d, <4>7, <4>8
      <3>6. \/ wpc = "run" /\ todo' = Tail(todo)
            \/ todo' = todo /\ \/ wpc = "locate" /\ wpc' \in {"run", "return"}
                               \/ wpc = "return" /\ wpc' = "done"
            \/ /\ todo' = todo /\ wpc = "run" /\ wpc' = wpc /\ run <= Len(RunsOf(Head(todo)))
               /\ run' \in {run + 1, Len(RunsOf(Head(todo))) + 1}
        BY <1>4, <2>4 DEF AsyncWorker, CloseData, LocateDataAsync, RunLoop, WorkerReturns,
                          AfterBeyond
      <3> QED
        BY <3>3, <3>4, <3>5, <3>6
    <2> QED
      BY <2>3, <2>4
  <1>5. CASE AsyncProcess /\ ~crashed'
    <2>1. /\ UNCHANGED <<job, r, mpc, wpc, todo, run>>
      BY <1>5 DEF AsyncProcess, ReceiveChunk, Parse, Emit, CloseRecords, ParserReturns
    <2>2. RunsLeft' = RunsLeft
      BY <2>1 DEF RunsLeft, RunsOf, RunListHolder, mft
    <2>3. /\ OneIf(~crashed)' = OneIf(~crashed)
          /\ TurnsLeft(Len(job.mftrecords), r)' = TurnsLeft(Len(job.mftrecords), r)
          /\ ProcessStage' = ProcessStage /\ OneIf(wpc = "start")' = OneIf(wpc = "start")
          /\ Len(todo)' = Len(todo) /\ WorkerStage' = WorkerStage
      BY <1>5, <2>1 DEF OneIf, ProcessStage, WorkerStage
    <2>4. SameFront(LeftToDo', LeftToDo)
      BY <1>a, <1>b, <2>3 DEF SameFront
    <2>5. CASE ReceiveChunk
      <3>1. dataClusters # <<>> /\ dataClusters' = Tail(dataClusters)
        BY <2>5 DEF ReceiveChunk
      <3>2. Len(dataClusters)' < Len(dataClusters)
        BY <1>1, <3>1, HeadTailProperties, LenProperties
      <3>3. SmallerBack(LeftToDo', LeftToDo)
        BY <1>a, <1>b, <2>2, <3>2 DEF SmallerBack
      <3> QED
        BY <1>d, <2>4, <3>3
    <2>6. CASE ~ReceiveChunk
      <3>1. Len(dataClusters)' = Len(dataClusters) /\ dataCluster' = dataCluster
        BY <1>5, <2>6 DEF AsyncProcess, Parse, Emit, CloseRecords, ParserReturns
      <3>2. CASE /\ ppc = "parse" /\ ppc' \in {"parse", "emit"}
                 /\ offset' > offset /\ offset' \in 0 .. dataCluster.size
        <4>1. PICK m \in Nat, n \in Nat : m = dataCluster.size /\ n = offset
          BY <1>0, SizesLeft
        <4>2. BytesLeft = m - n /\ BytesLeft' = m - offset'
          BY <3>1, <3>2, <4>1 DEF BytesLeft
        <4>3. BytesLeft' < BytesLeft
          BY <3>2, <4>1, <4>2
        <4>4. SmallerBack(LeftToDo', LeftToDo)
          BY <1>a, <1>b, <2>2, <3>1, <4>3 DEF SmallerBack
        <4> QED
          BY <1>d, <2>4, <4>4
      <3>3. CASE /\ offset' = offset
                 /\ \/ ppc = "parse" /\ ppc' = "recv" /\ offset = dataCluster.size
                    \/ ppc = "emit" /\ ppc' = "parse"
                    \/ ppc = "recv" /\ ppc' = "return"
                    \/ ppc = "return" /\ ppc' = "done"
        <4>1. PICK m \in Nat, n \in Nat : m = dataCluster.size /\ n = offset
          BY <1>0, SizesLeft
        <4>2. BytesLeft' = BytesLeft
          BY <3>1, <3>3, <4>1 DEF BytesLeft
        <4>3. ParserStage' < ParserStage
          BY <3>3 DEF ParserStage
        <4>4. SmallerBack(LeftToDo', LeftToDo)
          BY <1>a, <1>b, <2>2, <3>1, <4>2, <4>3 DEF SmallerBack
        <4> QED
          BY <1>d, <2>4, <4>4
      <3>4. CASE Parse
        <4>1. PICK m \in Nat, n \in Nat : m = dataCluster.size /\ n = offset /\ n <= m
          BY <1>0, SizesLeft DEF Typed
        <4>2. CASE offset >= dataCluster.size
          <5>1. ppc = "parse" /\ ppc' = "recv" /\ offset' = offset
            BY <3>4, <4>1, <4>2 DEF Parse
          <5>2. offset = dataCluster.size
            BY <4>1, <4>2
          <5> QED
            BY <3>3, <5>1, <5>2
        <4>3. CASE offset < dataCluster.size /\ ~IsParsed(dataCluster, offset)
          <5>1. ppc = "parse" /\ ppc' = ppc /\ offset' = m
            BY <1>5, <3>4, <4>1, <4>3 DEF Parse, AfterError
          <5>2. offset' > offset /\ offset' \in 0 .. dataCluster.size
            BY <4>1, <4>3, <5>1
          <5> QED
            BY <3>2, <5>1, <5>2
        <4>4. CASE offset < dataCluster.size /\ IsParsed(dataCluster, offset)
          <5>1. /\ ppc = "parse" /\ ppc' \in {"parse", "emit"} /\ ~Overruns(dataCluster, offset)
                /\ offset' = offset + ReadTo(dataCluster, offset)
            BY <1>5, <3>4, <4>1, <4>4 DEF Parse
          <5>2. ~Ends(dataCluster, offset) /\ dataCluster \in Run
            BY <1>0, <4>1, <4>4, <5>1 DEF Ends, Typed
          <5>3. offset' \in offset + 1 .. dataCluster.size
            BY <4>1, <5>1, <5>2, MovesOn
          <5>4. offset' > offset /\ offset' \in 0 .. dataCluster.size
            BY <4>1, <5>3
          <5> QED
            BY <3>2, <5>1, <5>4
        <4> QED
          BY <4>1, <4>2, <4>3, <4>4
      <3>5. CASE ~Parse
        <4>1. /\ offset' = offset
              /\ \/ ppc = "emit" /\ ppc' = "parse"
                 \/ ppc = "recv" /\ ppc' = "return"
                 \/ ppc = "return" /\ ppc' = "done"
          BY <1>5, <2>6, <3>5 DEF AsyncProcess, Emit, CloseRecords, ParserReturns
        <4> QED
          BY <3>3, <4>1
      <3> QED
        BY <3>4, <3>5
    <2> QED
      BY <2>5, <2>6
  <1> QED
    BY <1>2, <1>3, <1>4, <1>5

\* No loop of Process, of AsyncWorker, of LocateDataAsync or of AsyncProcess goes on for
\* ever, whatever is in the data of the journal and however many goroutines take turns.
THEOREM NothingGoesOnForEver == Spec => EveryStepCounts
  <1>1. IInv /\ [Next]_vars => [IsMeasure(LeftToDo) /\ Below(LeftToDo', LeftToDo)]_vars
    BY LeftIsMeasure, StepCounts DEF Next, Ended
  <1> QED
    BY IInvAlways, <1>1, PTL DEF Spec, EveryStepCounts
=============================================================================
