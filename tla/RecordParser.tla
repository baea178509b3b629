---------------------------- MODULE RecordParser ----------------------------
(***************************************************************************)
(* Record.Process (FS/NTFS/MFT/MFT.go), called by ProcessRecords for one   *)
(* entry of the $MFT after the other: the fixup of the sector end, the     *)
(* loop over the attributes, the loop over the entries of an attribute     *)
(* list, run lists and index roots; and ProcessNoNResidentAttributes.      *)
(*                                                                         *)
(* A record on disk is a sequence of attributes that lie behind each other *)
(* from AttrOff on, with an end marker of eight bytes behind the last one. *)
(* Of a resident attribute it has what the code takes from it, of a non    *)
(* resident one the bytes of the run list.  Names and paths are those of   *)
(* the file system; the number of a record is its place in the table,      *)
(* counted from 1, and 0 for an entry that was not parsed.                 *)
(***************************************************************************)
EXTENDS Layouts, FiniteSets, SequencesExt

CONSTANTS
  Names,   \* names of files
  Exts,    \* file extensions
  Paths,   \* directories, as GetFullPath gives them
  Jobs     \* the tables and command lines that are considered

RecordSize == 1024
AttrOff == 56
EndMarker == 8
SectorEnds == {510, 511, RecordSize - 2, RecordSize - 1}

Spaces == {"POSIX", "Win32", "Dos", "Win32 & Dos"}
\* exts: the extensions the name ends with, in upper or in lower case.
FileName == [name: Names, exts: SUBSET Exts, space: Spaces]
Run == [off: Int, len: Nat]
Byte == 0 .. 255

\* The types of attribute that Process keeps when they are resident and when they are not.
KnownResident == {"FileName", "DATA", "Attribute List", "BitMap", "Index Root"}
KnownNonResident == {"DATA", "Attribute List", "BitMap", "Index Allocation"}
Types == KnownResident \union KnownNonResident \union {"Security Descriptor"}

\* An entry of an attribute list: type code, entry and sequence number, first VCN.
Uint16 == 65536
MaxUint16 == 65535
Numbers16 == 0 .. MaxUint16
Numbers24 == 0 .. 256 * Uint16 - 1
ListEntry == [code: {16, 48, 128}, ref: Numbers24, seq: Numbers16, vcn: Numbers16]

\* fnames: the name in a FileName attribute; runs: what the run list stands for; bytes:
\* the run list, runOff: its offset; index: the lengths of the entries of an index node,
\* the last of which has no name.
DiskAttribute ==
  [type: Types, nonResident: BOOLEAN, len: Nat, fnames: Seq(FileName), list: Seq(ListEntry),
   runs: Seq(Run), bytes: Seq(Byte), runOff: Nat, index: Seq(Nat)]

\* hasParent, path: what FindParentRecords and GetFullPath make of the record.
DiskRecord ==
  [signature: {"FILE", "BAAD", "zero"}, folder: BOOLEAN, used: BOOLEAN, hasParent: BOOLEAN,
   path: Paths, attrs: Seq(DiskAttribute)]

\* What the first k of some lengths add up to.
Sums(lens) ==
  LET sum[k \in 0 .. Len(lens)] == IF k = 0 THEN 0 ELSE sum[k - 1] + lens[k] IN sum
Total(lens) == Sums(lens)[Len(lens)]

Lens(attrs) == [k \in DOMAIN attrs |-> attrs[k].len]
StartOf(attrs, k) == AttrOff + Sums(Lens(attrs))[k - 1]

\* A number as the file system stores it, the low byte first: rest is what is left of it,
\* in the end nothing, or -1 where the highest bit of a signed number is set.
IsStored(v, b, signed) ==
  LET rest[i \in 0 .. Len(b)] == IF i = 0 THEN v ELSE rest[i - 1] \div 256
  IN /\ \A i \in 1 .. Len(b) : b[i] = rest[i - 1] % 256
     /\ rest[Len(b)] = IF signed /\ b # <<>> /\ Last(b) >= 128 THEN -1 ELSE 0

\* A run: a header with the sizes of a length and an offset, then both.
LenSize(header) == header % 16
OffSize(header) == header \div 16
LenBytes(b, p) == SubSeq(b, p + 1, p + LenSize(b[p]))
OffBytes(b, p) == SubSeq(b, p + LenSize(b[p]) + 1, p + LenSize(b[p]) + OffSize(b[p]))
Behind(b, p) == p + LenSize(b[p]) + OffSize(b[p]) + 1

\* The runs lie behind each other, and behind the last one is a zero.
IsRunList(b, runs) ==
  LET at[k \in 1 .. Len(runs) + 1] == IF k = 1 THEN 1 ELSE Behind(b, at[k - 1])
  IN /\ \A k \in 1 .. Len(runs) + 1 : at[k] \in 1 .. Len(b)
     /\ \A k \in 1 .. Len(runs) :
          /\ LenSize(b[at[k]]) \in 1 .. 8 /\ IsStored(runs[k].len, LenBytes(b, at[k]), FALSE)
          /\ OffSize(b[at[k]]) \in 0 .. 4 /\ IsStored(runs[k].off, OffBytes(b, at[k]), TRUE)
     /\ b[at[Len(runs) + 1]] = 0

\* The last entry of an index node, which has no name, takes 16 bytes or, with the number
\* of another node, more.
EmptyEntry == 16

\* The header of an attribute: that of a resident one takes 24 bytes, that of another one 64,
\* or more where it is sparse, compressed or has a name.
ListFront == 24
NonResidentHeader == 64

\* A run list lies behind the header, an attribute list in its entries of 32 bytes.
EntrySize == 32
HasRoom(a) ==
  /\ a.nonResident => a.runOff >= NonResidentHeader /\ a.runOff + Len(a.bytes) <= a.len
  /\ ~a.nonResident => ListFront + EntrySize * Len(a.list) <= a.len

\* What a file system writes.  The attributes and the end marker fit into the record.
IsSound(d) ==
  /\ StartOf(d.attrs, Len(d.attrs) + 1) + EndMarker <= RecordSize
  /\ \A k \in DOMAIN d.attrs :
       LET a == d.attrs[k] IN
       /\ a.len > 0 /\ HasRoom(a)
       /\ a.type = "FileName" => ~a.nonResident /\ Len(a.fnames) = 1
       /\ a.nonResident => IsRunList(a.bytes, a.runs)
       /\ a.index # <<>> => Last(a.index) >= EmptyEntry /\ \A i \in DOMAIN a.index : a.index[i] > 0

\* file: the table is a file of its own (-MFT), and is neither completed nor linked.
ASSUME ParserAssumption ==
  \A j \in Jobs : j.file \in BOOLEAN /\ j.disk \in Seq(DiskRecord) /\ \A k \in DOMAIN j.disk : IsSound(j.disk[k])

VARIABLES
  job,       \* the $MFT and the command line; never changes
  pc,        \* "record", "attribute", "list", "nonresident", "select", "filter", "show",
             \* "done", "panic"
  r,         \* the record that is being processed
  ReadPtr,   \* the offset of the next attribute
  restored,  \* the sector ends that have their bytes back
  attrLen,   \* the offset in the attribute list
  entries,   \* the entries of the attribute list that are of type DATA
  record,    \* the record parsed so far
  Records    \* mfttable.Records

parserVars == <<job, pc, r, ReadPtr, restored, attrLen, entries, record, Records>>

-----------------------------------------------------------------------------
(* Bytes.                                                                  *)

\* The bytes of a number behind those that fill the buffer.
LittleEndian(b, filled) ==
  LET value[k \in 0 .. Len(b)] ==
        IF k = 0 THEN filled ELSE b[Len(b) + 1 - k] + 256 * value[k - 1]
  IN value[Len(b)]

ReadEndianUInt(b) == LittleEndian(b, 0)

UnsignedBug(b) == ReadEndianUInt(b)

\* The buffer of four bytes is filled with the sign of the last one (the offset of a run
\* has at most four, up to 2^31 clusters).
ReadEndianInt(b) == LittleEndian(b, IF b # <<>> /\ Last(b) >= 128 THEN -1 ELSE 0)

\* RunList.Process: until the end of the bytes or a run without a length.
RunListProcess(b) ==
  LET from[p \in Nat \ {0}] ==
        IF p > Len(b) \/ LenSize(b[p]) = 0 THEN <<>>
        ELSE <<[off |-> ReadEndianInt(OffBytes(b, p)), len |-> ReadEndianUInt(LenBytes(b, p))]>>
               \o from[Behind(b, p)]
  IN from[1]

\* The 16 bits at an even offset, and at any offset, of an attribute list whose entries
\* have no name.
Half(list, p) ==
  LET e == list[p \div EntrySize + 1]
      at == p % EntrySize
  IN CASE at = 0 -> e.code [] at = 4 -> EntrySize [] at = 6 -> 26 * 256 [] at = 8 -> e.vcn
       [] at = 16 -> e.ref % Uint16 [] at = 18 -> e.ref \div Uint16 [] at = 22 -> e.seq [] OTHER -> 0
Word(list, p) ==
  IF p % 2 = 0 THEN Half(list, p)
  ELSE Half(list, p - 1) \div 256 + 256 * (Half(list, p + 1) % 256)

TypeOf(code) == IF code = 128 THEN "DATA" ELSE "other"

\* An index node ends where its header says, counted from the header; the slice ends
\* there counted from what is in front of the header (16 bytes in an index root, 24 in a
\* block), and starts at the first entry.  The loop goes on while an entry starts in it.
IndexParse(lens, front) ==
  {k \in DOMAIN lens : Sums(lens)[k - 1] < Total(lens) - front}
Named(lens, ks) == {k \in ks : k < Len(lens)}

RootFront == 16
BlockFront == 24

\* The signature of an index block is compared before its entries are parsed.
BlockParse(lens) ==
  IF IsFilled(IndexAllocation, "Signature") THEN IndexParse(lens, BlockFront) ELSE {}

-----------------------------------------------------------------------------
(* Process.                                                                *)

disk == job.disk
attrs == disk[r].attrs

\* The attribute at ReadPtr, 0 for the end marker.
Here == IF \E k \in DOMAIN attrs : StartOf(attrs, k) = ReadPtr
        THEN CHOOSE k \in DOMAIN attrs : StartOf(attrs, k) = ReadPtr ELSE 0

\* What is kept of an attribute; at: its bytes in the record.
Attribute ==
  [type: Types, nonResident: BOOLEAN, disk: DiskAttribute, at: SUBSET Nat, hasRunList: BOOLEAN,
   RunList: Seq(Run), IndexEntries: SUBSET Nat]

Empty == [number |-> 0, attributes |-> <<>>, LinkedRecordsInfo |-> <<>>, Bitmap |-> FALSE]

ParserInit ==
  /\ job \in Jobs
  /\ pc = "record" /\ r = 1 /\ ReadPtr = 0 /\ restored = {} /\ attrLen = 0 /\ entries = <<>>
  /\ record = Empty /\ Records = <<>>

RestoredFirst == {510, 511}

\* The signature and the fixup of the end of the first sector.  A bad record and a zero
\* area leave the zero value of Record in the table.
ProcessRecord ==
  /\ pc = "record" /\ r <= Len(disk)
  /\ IF disk[r].signature # "FILE"
     THEN /\ Records' = Append(Records, Empty) /\ r' = r + 1
          /\ UNCHANGED <<pc, ReadPtr, restored, record>>
     ELSE /\ record' = [Empty EXCEPT !.number = r]
          /\ restored' = RestoredFirst
          /\ ReadPtr' = AttrOff
          /\ pc' = "attribute" /\ UNCHANGED <<r, Records>>
  /\ UNCHANGED <<job, attrLen, entries>>

IsKnown(a) == a.type \in IF a.nonResident THEN KnownNonResident ELSE KnownResident

FitsRunListBug(a) == ReadPtr + 2 * a.runOff + a.len < RecordSize

\* The run list is read if the attribute, and once more the offset in it, fit.
FitsRunList(a) == ReadPtr + a.runOff + a.len < RecordSize

Parsed(a) ==
  [type |-> a.type, nonResident |-> a.nonResident, disk |-> a,
   at |-> ReadPtr .. ReadPtr + a.len - 1,
   hasRunList |-> a.nonResident /\ FitsRunList(a),
   RunList |-> IF a.nonResident /\ FitsRunList(a) THEN RunListProcess(a.bytes) ELSE <<>>,
   IndexEntries |-> IF a.type = "Index Root" THEN IndexParse(a.index, RootFront) ELSE {}]

WithAttribute(a, links) ==
  [record EXCEPT
     !.attributes = IF IsKnown(a) THEN Append(@, Parsed(a)) ELSE @,
     !.LinkedRecordsInfo = @ \o links,
     !.Bitmap = @ \/ a.type = "BitMap"]

IsList(a) == a.type = "Attribute List" /\ ~a.nonResident

\* One turn of the loop over the attributes.
ProcessAttribute ==
  /\ pc = "attribute" /\ ReadPtr < RecordSize /\ Here # 0
  /\ LET a == attrs[Here] IN
     IF IsList(a)
     THEN /\ attrLen' = 0 /\ entries' = <<>> /\ pc' = "list"
          /\ UNCHANGED <<record, ReadPtr>>
     ELSE /\ record' = WithAttribute(a, <<>>)
          /\ ReadPtr' = ReadPtr + a.len
          /\ UNCHANGED <<pc, attrLen, entries>>
  /\ UNCHANGED <<job, r, restored, Records>>

WrappedBug(sum) == sum % (2 * Uint16)
StopsNever(len, sum) == FALSE

\* The offset is a number of 16 bits.
Wrapped(sum) == sum % Uint16

\* An entry without a length, and a sum that comes back to zero, break the loop.
StopsAt(len, sum) == sum = 0 \/ len = 0

ListEnd == 24 + attrLen >= EntrySize * Len(attrs[Here].list) \/ attrLen >= Uint16 - 25

\* The field of the list entry at attrLen.
Field(name) == Word(attrs[Here].list, attrLen + OffsetOf(AttributeList, name))

\* Where the name of the entry ends, by its offset and its length, and where the bytes of
\* the table end, both counted from the start of the list: a slice may go on behind the
\* list and the record, up to the end of what has been read of the table.
NameEnd == attrLen + (Field("Nameoffset") % 256) + 2 * (Field("Namelen") % 256)
Left(records) == RecordSize * records - ReadPtr - ListFront
BufferEndBug == Left(1)
BufferEnd == Left(Len(disk) - r + 1)

\* One turn of the loop over an attribute list: the fields of the entry at attrLen, of
\* ParRef and StartVcn the low 16 bits.  Where the loop breaks, attrLen goes to its end.
ParseListEntry ==
  /\ pc = "list" /\ ~ListEnd
  /\ LET len == Field("Len")
         sum == Wrapped(attrLen + len)
         type == IF IsFilled(AttributeList, "Type") THEN TypeOf(Field("Type")) ELSE ""
     IN /\ entries' = IF type = "DATA"
                       THEN Append(entries, [ref |-> Field("ParRef"), vcn |-> Field("StartVcn")])
                       ELSE entries
        /\ attrLen' = IF StopsAt(len, sum) THEN Uint16 - 25 ELSE sum
  /\ UNCHANGED <<job, pc, r, ReadPtr, restored, record, Records>>

\* Behind the bytes of the table the slice of a name panics, unless the memory that was
\* allocated for them is larger.
SliceFails ==
  /\ pc = "list" /\ ~ListEnd /\ NameEnd > BufferEnd
  /\ pc' = "panic"
  /\ UNCHANGED <<job, r, ReadPtr, restored, attrLen, entries, record, Records>>

\* The DATA entries of the list are the linked records.
LinkEntries ==
  /\ pc = "list" /\ ListEnd
  /\ record' = WithAttribute(attrs[Here], entries)
  /\ ReadPtr' = ReadPtr + attrs[Here].len
  /\ pc' = "attribute"
  /\ UNCHANGED <<job, r, restored, attrLen, entries, Records>>

EndRecord ==
  /\ pc = "attribute" /\ (ReadPtr >= RecordSize \/ Here = 0)
  /\ Records' = Append(Records, record)
  /\ r' = r + 1 /\ pc' = "record"
  /\ UNCHANGED <<job, ReadPtr, restored, attrLen, entries, record>>

EndTable ==
  /\ pc = "record" /\ r > Len(disk)
  /\ pc' = (IF job.file THEN "select" ELSE "nonresident") /\ r' = 1
  /\ UNCHANGED <<job, ReadPtr, restored, attrLen, entries, record, Records>>

\* Every non resident attribute but DATA is read by its runs and parsed; one without a
\* run list, or with an empty one, is left alone.  Of bitmaps and attribute lists nothing
\* that is modelled changes: the list has been gone through already.
WithBlocks(a) ==
  IF a.nonResident /\ a.RunList # <<>> /\ a.type = "Index Allocation"
  THEN [a EXCEPT !.IndexEntries = BlockParse(a.disk.index)]
  ELSE a

ProcessNoNResidentAttributes ==
  /\ pc = "nonresident"
  /\ IF r <= Len(Records)
     THEN /\ Records' = [Records EXCEPT ![r].attributes =
                           [k \in DOMAIN @ |-> WithBlocks(@[k])]]
          /\ r' = r + 1 /\ UNCHANGED pc
     ELSE pc' = "select" /\ UNCHANGED <<r, Records>>
  /\ UNCHANGED <<job, ReadPtr, restored, attrLen, entries, record>>

Process ==
  \/ ProcessRecord \/ ProcessAttribute \/ ParseListEntry \/ SliceFails \/ LinkEntries
  \/ EndRecord \/ EndTable \/ ProcessNoNResidentAttributes

-----------------------------------------------------------------------------
(* Properties.                                                             *)

InMemory == UNION {Range(Records[n].attributes) : n \in DOMAIN Records}

\* RunList.Process: a run list in memory is the one that was stored, with its offsets of
\* either sign and its sparse runs.
RunListsAsStored == \A a \in InMemory : a.hasRunList => a.RunList = a.disk.runs

\* IndexRoot.Parse: though its slice stops short of the end of the node, every entry with
\* a name is in memory.
IndexRootsComplete ==
  \A a \in InMemory :
    a.type = "Index Root" => Named(a.disk.index, a.IndexEntries) = 1 .. Len(a.disk.index) - 1

\* Process: no byte of an attribute is one of those that a sector end has lent to the
\* check of the record, although only those of the first sector are put back.
BytesRestored ==
  \A k \in DOMAIN record.attributes : record.attributes[k].at \cap SectorEnds \subseteq restored

\* Unmarshal: a field of a struct is filled from its own bytes, though the reflection knows
\* no padding, unless there is a field before it that is skipped, or read in another
\* width, or it has none; and that is so in these structs only (looked at when a table has
\* been parsed).
LayoutsAsStored ==
  pc = "select" =>
    {n \in DOMAIN Structs : Misread(Structs[n]) # {}} =
      {"Record", "ATRrecordNoNResident", "AttributeList", "IndexEntry", "IndexAllocation",
       "Reparse", "ExtendedAttribute", "UsnRecord", "Superblock", "Item", "BlockPointer",
       "RootItem", "DirItem"}

\* Process, Unmarshal: what is in memory of an attribute is what was stored, and no other
\* struct than those thirteen is filled from bytes of other fields.
ParsedAsStored ==
  RunListsAsStored /\ IndexRootsComplete /\ BytesRestored /\ LayoutsAsStored

\* MFT.go:79, LinkedRecordsInfo "holds attrs list entries": of a record that has been
\* processed, the records that hold its DATA.
ListedDataIsLinked ==
  \A n \in DOMAIN Records : \A k \in DOMAIN Records[n].attributes :
    LET a == Records[n].attributes[k] IN
    IsList(a) => \A i \in DOMAIN a.disk.list :
                   a.disk.list[i].code = 128
                     => \E l \in DOMAIN Records[n].LinkedRecordsInfo :
                          Records[n].LinkedRecordsInfo[l].ref = a.disk.list[i].ref % Uint16

\* A panic before all records of the table have been parsed.
Stopped == pc = "panic" /\ Len(Records) < Len(disk)

\* Parse of attributes/attrlist.go:46: the slice of a name, whose offset and length are read
\* from the wrong bytes, may leave the list and the record, yet the bytes of the table
\* only where the list is one of the last record and ends less than 740 bytes from the
\* end: the table of any other disk is parsed to its end.
ListsReadInTable ==
  Stopped =>
    /\ r = Len(disk) /\ Here # 0 /\ IsList(attrs[Here])
    /\ RecordSize - StartOf(attrs, Here + 1) < 740
=============================================================================
