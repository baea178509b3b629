------------------------------ MODULE Layouts ------------------------------
(***************************************************************************)
(* The structs that utils.Unmarshal fills: of NTFS, of partition tables,   *)
(* of RAID, LVM and BTRFS.  The sizes are those of the formats, which are  *)
(* not part of the code; the names, the kinds and the order are the code's.*)
(***************************************************************************)
EXTENDS Unmarshal

U8(n)  == <<n, "uint8", 1>>
U16(n) == <<n, "uint16", 2>>
U32(n) == <<n, "uint32", 4>>
U64(n) == <<n, "uint64", 8>>
I64(n) == <<n, "int64", 8>>
Array(n, len) == <<n, "array", len>>
Text(n, len) == <<n, "string", len>>
Time(n) == <<n, "struct", 8>>
TimeSpec(n) == <<n, "struct", 12>>
Pointer(n, len) == <<n, "ptr", len>>

\* A number and a flag that are not stored; the flag is set to FALSE.
Computed(n) == <<n, "uint64", 0>>
Flag(n) == <<n, "bool", 0>>

\* A reference of six bytes, followed by its sequence number.
Ref(n) == <<n, "uint64", 6>>

-----------------------------------------------------------------------------
(* NTFS.                                                                   *)

Record ==
  <<Array("Signature", 4), U16("UpdateFixUpArrOffset"), U16("UpdateFixUpArrSize"), U64("Lsn"),
    U16("Seq"), U16("Linkcount"), U16("AttrOff"), U16("Flags"), U32("Size"), U32("AllocSize"),
    U64("BaseRef"), U16("NextAttrID"), U16("F1"), U32("Entry"), Flag("Bitmap"),
    Computed("I30Size")>>

AttributeHeader ==
  <<Array("Type", 4), U16("AttrLen"), Array("Uknown", 2), U8("NoNResident"), U8("Nlen"),
    U16("NameOff"), U16("Flags"), U16("ID")>>

ATRrecordResident == <<U32("ContentSize"), U16("OffsetContent"), U16("IdxFlags")>>

ATRrecordNoNResident ==
  <<U64("StartVcn"), U64("LastVcn"), U16("RunOff"), U16("Compusize"), U32("F1"), U64("Length"),
    U64("ActualLength"), U64("InitLength"), Computed("RunListTotalLenCl")>>

AttributeList ==
  <<Text("Type", 4), U16("Len"), U8("Namelen"), U8("Nameoffset"), U64("StartVcn"),
    Ref("ParRef"), U16("ParSeq"), U8("ID")>>

SIAttribute ==
  <<Time("Crtime"), Time("Mtime"), Time("MFTmtime"), Time("Atime"), U32("Dos"), U32("Maxver"),
    U32("Ver"), U32("ClassID"), U32("OwnID"), U32("SecID"), U64("Quota"), U64("USN")>>

FNAttribute ==
  <<Ref("ParRef"), U16("ParSeq"), Time("Crtime"), Time("Mtime"), Time("MFTmtime"),
    Time("Atime"), U64("AllocFsize"), U64("RealFsize"), U32("Flags"), U32("Reparse"), U8("Nlen"),
    U8("Nspace"), Flag("HexFlag"), Flag("UnicodeHack")>>

\* The name, of 66 bytes and more, is stored in front of the number of the child, which is
\* read once more, from behind the entry, where there is nothing but that number.
IndexEntry ==
  <<Ref("ParRef"), U16("ParSeq"), U16("Len"), U16("ContentLen"), U32("Flags"),
    Pointer("Fnattr", 66), I64("ChildVCN")>>

IndexRoot ==
  <<Array("Type", 4), Array("CollationSortingRule", 4), U32("Sizebytes"), U8("Sizeclusters")>>

NodeHeader ==
  <<U32("OffsetEntryList"), U32("OffsetEndUsedEntryList"), U32("OffsetEndEntryListBuffer"),
    U32("Flags")>>

IndexAllocation ==
  <<Text("Signature", 4), <<"FixupArrayOffset", "int16", 2>>, <<"NumFixupEntries", "int16", 2>>,
    I64("LSN"), I64("VCN")>>

ObjectID ==
  <<Array("ObjGUID", 16), Array("OrigVolGUID", 16), Array("OrigObjGUID", 16),
    Array("OrigDomGUID", 16)>>

Reparse ==
  <<U32("Flags"), U16("Size"), Array("Unused", 2), <<"TargetNameOffset", "int16", 2>>,
    U16("TargetLen"), <<"TargetPrintNameOffset", "int16", 2>>, U16("TargetPrintNameLen")>>

VolumeInfo == <<U64("F1"), U8("MajVer"), U8("MinVer"), U16("Flags"), U32("F2")>>

EA_INFORMATION == <<U16("SizeOfEntry"), U16("NofEA"), U32("Size")>>
ExtendedAttribute ==
  <<<<"NextAttrOffset", "int32", 4>>, U8("Flags"), U8("NofChars"), U16("DataSize")>>

VBR ==
  <<Array("JumpInstruction", 3), Array("Signature", 4), Array("NotUsed1", 4),
    U16("BytesPerSector"), U8("SectorsPerCluster"), Array("NotUsed2", 26), U64("TotalSectors"),
    U64("MFTOffset"), U64("MFTMirrOffset")>>

\* A record of the journal: the references are stored as everywhere in NTFS.
UsnRecord ==
  <<U32("Length"), U16("MajorVer"), U16("MinorVer"), Ref("EntryRef"), U16("EntrySeq"),
    Ref("ParRef"), U16("ParSeq"), U64("USN"), Time("EventTime"), U32("ReasonFlag"),
    U32("SourceInfo"), U32("SecurityId"), U32("FileAttrs"), U16("FnameLen"), U16("FnameOffset")>>

-----------------------------------------------------------------------------
(* Partition tables.                                                       *)

MBRPartition ==
  <<U8("Flag"), Array("StartCHS", 3), U8("Type"), Array("EndCHS", 3), U32("StartLBA"), U32("Size")>>

GPTHeader ==
  <<Array("StartSignature", 8), Array("Revision", 4), U32("HeaderSize"), U32("HeaderCRC"),
    Array("Reserved", 4), U64("CurrentLBA"), U64("BackupLBA"), U64("FirstUsableLBA"),
    U64("LastUsableLBA"), Array("DiskGUID", 16), U64("PartitionsStartLBA"), U32("NofPartitions"),
    U32("PartitionSize"), U32("PartionArrayCRC"), Array("Reserved2", 418), Array("EndSignature", 2)>>

GPTPartition ==
  <<Array("PartitionTypeGUID", 16), Array("PartitionGUID", 16), U64("StartLBA"), U64("EndLBA"),
    Array("Atttributes", 8), Text("Name", 72)>>

\* The superblock of a RAID member.
MdraidSuperblock ==
  <<Array("Magic", 4), U32("MajorVersion"), U32("FeatureMap"), Array("Pad0", 4), Array("UUID", 16),
    Array("RaidName", 32), U64("CTime"), U32("RaidLevel"), U32("RaidLayout"), U64("Size"),
    U32("ChunkSize"), U32("DevicesNum"), Array("Uknown", 32), U64("DataOffset"), U64("DataSize"),
    U64("SuperOffset"), Array("Uknown2", 8), U32("DevNum"), U32("NofCorrectedReads"),
    Array("DeviceUUID", 16), U8("DeviceFlags"), U8("BBlogShift"), U16("BBlogSize"),
    U32("BBlogOffset"), U64("UTime"), U64("Events"), U64("ReSyncOffset"), Array("SBChksum", 4),
    U32("MaxDevices"), Array("Pad32", 32)>>

-----------------------------------------------------------------------------
(* LVM.                                                                    *)

PhysicalVolLabelHeader ==
  <<Array("Signature", 8), U64("SectorNum"), Array("Chksum", 4), U32("HeaderSize"),
    Array("IndicatorType", 8)>>

PhysicalVolHeader == <<Array("UUID", 32), U64("VolSize")>>
DataAreaDescriptor == <<I64("OffsetB"), U64("LenB")>>

MetadataAreaHeader ==
  <<Array("Chksum", 4), Array("Signature", 16), U32("Version"), I64("Offset"), I64("Size")>>

\* The flags are stored in four bytes, and eight are read.
RawLocationDescriptor ==
  <<I64("Offset"), U64("Len"), Array("Chksum", 4), <<"Flags", "uint64", 4>>>>

-----------------------------------------------------------------------------
(* BTRFS.                                                                  *)

Superblock ==
  <<Array("Chksum", 32), Array("UUID", 16), U64("PhysicalAddress"), U64("Flags"),
    Text("Signature", 8), U64("Generation"), U64("LogicalAddressRootTree"),
    U64("LogicalAddressRootChunkTree"), U64("LogicalAddressLogRootTree"), U64("LogRootTransid"),
    U64("VolumeSizeB"), U64("VolumeUsedSizeB"), U64("ObjectID"), U64("NofVolumeDevices"),
    U32("SectorSize"), U32("NodeSize"), U32("LeafSize"), U32("StripeSize"),
    U32("SystemChunkArrSize"), U64("ChunkRootGeneration"), U64("CompatFlags"),
    U64("CompatROFlags"), U64("InCompatFlags"), U16("CsumType"), U8("RootLevel"),
    U8("ChunkRootLevel"), U8("LogRootLevel"), Pointer("DevItem", 98), Array("Label", 256),
    Array("Reserved", 256), Array("SystemChunkArr", 2048)>>

DevItem ==
  <<U64("DeviceID"), U64("NofBytes"), U64("NofUsedBytes"), U32("OptimalIOAlignment"),
    U32("OptimalIOWidth"), U32("MinimailIOSize"), U64("Type"), U64("Generation"),
    U64("StartOffset"), U32("DevGroup"), U8("SeekSpeed"), U8("Bandwidth"),
    Array("DeviceUUID", 16), Array("FilesystemUUID", 16)>>

NodeHead ==
  <<Array("Chksum", 32), Array("FsUUID", 16), U64("LogicalAddressNode"), Array("Flags", 7),
    U8("BackRef"), Array("ChunkTreeUUID", 16), U64("Generation"), U64("Owner"), U32("NofItems"),
    U8("Level")>>

Key == <<U64("ObjectID"), U8("ItemType"), U64("Offset")>>

\* The key in front of an item is parsed by itself; the pointer to it is a field.
Item == <<Pointer("Key", 17), U32("DataOffset"), U32("DataLen")>>
BlockPointer == <<Pointer("Key", 17), U64("LogicalAddressRefHeader"), U64("Generation")>>

ChunkItem ==
  <<U64("Size"), U64("Owner"), U64("StripeLen"), U64("Type"), U32("OptimalIOAlignment"),
    U32("OptimalIOWidth"), U32("MinimalIOSize"), U16("NofStripes"), U16("NofSubStripes")>>
ChunkItemStripe == <<U64("DeviceID"), U64("Offset"), Array("DeviceUUID", 16)>>

ExtentItem == <<U64("RefCount"), U64("Generation"), U64("Flags")>>

ExtentData ==
  <<U64("Generation"), U64("LogicalDataLen"), U8("Compression"), U8("Encryption"),
    U16("OtherEncoding"), U8("Type")>>
ExtentDataRem == <<U64("LogicaAddress"), U64("Size"), U64("Offset"), U64("LogicalBytes")>>

InodeItem ==
  <<U64("Generation"), U64("Transid"), U64("StSize"), U64("StBlock"), U64("BlockGroup"),
    U32("StNlink"), U32("StUid"), U32("StGid"), U32("StMode"), U64("StRdev"), U64("Flags"),
    U64("Sequence"), Array("Reserved", 32), TimeSpec("ATime"), TimeSpec("CTime"),
    TimeSpec("MTime"), TimeSpec("OTime")>>

\* Read behind the inode.
RootItem ==
  <<U64("Generation"), U64("RootDirID"), U64("Bytenr"), U64("ByteLimit"), U64("BytesUsed"),
    U64("LastSnapshot"), U64("Flags"), U32("Refs"), Pointer("DropProgress", 17), U8("DropLevel"),
    U8("Level"), U64("GenV2"), Array("Uuid", 16), Array("ParentUuid", 16),
    Array("ReceivedUuid", 16), U64("CtransID"), U64("OtransID"), U64("StransID"),
    U64("RtransID"), TimeSpec("ATime"), TimeSpec("CTime"), TimeSpec("MTime"), TimeSpec("OTime")>>

\* RootBackRef has the same fields.
RootRef == <<U64("DirID"), U64("Index"), U16("Length")>>
InodeRef == <<U64("Index"), U16("Length")>>

\* The key of what the entry names is stored in front, and is no field of the struct.
DirItem ==
  <<Pointer("", 17), U64("Transid"), U16("DataLen"), U16("NameLen"), U8("Type")>>

DevExtentItem ==
  <<U64("ChunkTree"), U64("ChunkObjectID"), U64("ChunkOffset"), U64("Length"), Array("UUID", 16)>>

BlockGroupItem == <<U64("Used"), U64("ChunkObjectID"), U64("Flags")>>

-----------------------------------------------------------------------------
Structs ==
  [Record |-> Record, AttributeHeader |-> AttributeHeader,
   ATRrecordResident |-> ATRrecordResident, ATRrecordNoNResident |-> ATRrecordNoNResident,
   AttributeList |-> AttributeList, SIAttribute |-> SIAttribute, FNAttribute |-> FNAttribute,
   IndexEntry |-> IndexEntry, IndexRoot |-> IndexRoot, NodeHeader |-> NodeHeader,
   IndexAllocation |-> IndexAllocation, ObjectID |-> ObjectID, Reparse |-> Reparse,
   VolumeInfo |-> VolumeInfo, EA_INFORMATION |-> EA_INFORMATION,
   ExtendedAttribute |-> ExtendedAttribute, VBR |-> VBR, UsnRecord |-> UsnRecord,
   MBRPartition |-> MBRPartition, GPTHeader |-> GPTHeader, GPTPartition |-> GPTPartition,
   MdraidSuperblock |-> MdraidSuperblock, PhysicalVolLabelHeader |-> PhysicalVolLabelHeader,
   PhysicalVolHeader |-> PhysicalVolHeader, DataAreaDescriptor |-> DataAreaDescriptor,
   MetadataAreaHeader |-> MetadataAreaHeader, RawLocationDescriptor |-> RawLocationDescriptor,
   Superblock |-> Superblock, DevItem |-> DevItem, NodeHead |-> NodeHead, Key |-> Key,
   Item |-> Item, BlockPointer |-> BlockPointer, ChunkItem |-> ChunkItem,
   ChunkItemStripe |-> ChunkItemStripe, ExtentItem |-> ExtentItem, ExtentData |-> ExtentData,
   ExtentDataRem |-> ExtentDataRem, InodeItem |-> InodeItem, RootItem |-> RootItem,
   RootRef |-> RootRef, InodeRef |-> InodeRef, DirItem |-> DirItem,
   DevExtentItem |-> DevExtentItem, BlockGroupItem |-> BlockGroupItem]

\* The fields that are filled from other bytes than their own.
Misread(s) ==
  {k \in DOMAIN s : /\ Kind(s[k]) \in Handled \ {"bool"}
                    /\ Stored(s[k]) = 0 \/ Offsets(s)[k] # StoredAt(s)[k]}
=============================================================================
