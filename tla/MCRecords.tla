----------------------------- MODULE MCRecords -----------------------------
(***************************************************************************)
(* Small tables: run lists with offsets at the boundaries of their widths, *)
(* indexes of a leaf and of an inner node, attribute lists whose entry     *)
(* numbers are taken for lengths, records filled to their end, and one     *)
(* directory of files for all combinations of the options.                 *)
(***************************************************************************)
EXTENDS RecordFilters

MCNames == {"a.tar.gz", "A~1.GZ", "b.jpg", "b2.txt", "d", "-", "$UsnJrnl"}
MCExts == {"gz", "tar.gz", "jpg"}
MCPaths == {"", "d"}

None == [type |-> "DATA", nonResident |-> FALSE, len |-> 24, fnames |-> <<>>, list |-> <<>>,
         runs |-> <<>>, bytes |-> <<>>, runOff |-> 0, index |-> <<>>]

Data(n) == [None EXCEPT !.len = n]
Descriptor == [None EXCEPT !.type = "Security Descriptor", !.len = 96]
BitMap(b) == [None EXCEPT !.type = "BitMap", !.nonResident = b, !.len = 72, !.bytes = <<17, 1, 9, 0>>,
                          !.runOff = 64, !.runs = <<[off |-> 9, len |-> 1]>>]
Name(n, e, s) == [None EXCEPT !.type = "FileName", !.len = 104,
                              !.fnames = <<[name |-> n, exts |-> e, space |-> s]>>]
Root(lens) == [None EXCEPT !.type = "Index Root", !.len = 56 + Total(lens), !.index = lens]
Blocks(lens) == [BitMap(TRUE) EXCEPT !.type = "Index Allocation", !.index = lens]
List(es) == [None EXCEPT !.type = "Attribute List", !.len = 24 + EntrySize * Len(es), !.list = es]

\* A run list as the file system writes it: two bytes of length, and as few bytes of
\* offset as its sign leaves, none for a sparse run.
OffsetWidth(v) == IF v = 0 THEN 0
            ELSE CHOOSE n \in 1 .. 3 : /\ -(256 ^ n) <= 2 * v /\ 2 * v < 256 ^ n
                                       /\ \A m \in 1 .. n - 1 : ~(-(256 ^ m) <= 2 * v /\ 2 * v < 256 ^ m)
Bytes(v, n) == [k \in 1 .. n |-> (v \div 256 ^ (k - 1)) % 256]
Encoded(run) == <<16 * OffsetWidth(run.off) + 2>> \o Bytes(run.len, 2) \o Bytes(run.off, OffsetWidth(run.off))
Runs(rs) == [None EXCEPT !.nonResident = TRUE, !.len = 88, !.runs = rs, !.runOff = 64,
                         !.bytes = FlattenSeq([k \in DOMAIN rs |-> Encoded(rs[k])]) \o <<0>>]

File(attributes) == [signature |-> "FILE", folder |-> FALSE, used |-> TRUE, hasParent |-> TRUE,
                     path |-> "", attrs |-> attributes]
Skipped(s) == [File(<<>>) EXCEPT !.signature = s, !.used = FALSE, !.hasParent = FALSE]

JPG == Name("b.jpg", {"jpg"}, "Win32 & Dos")

Offsets3 == {0, 1, 127, 128, 32767, 32768, -1, -128, -129, -32768, -32769}
RunTables ==
  {<<File(<<JPG, Runs(<<[off |-> 300, len |-> n], [off |-> o, len |-> 256], [off |-> p, len |-> 1]>>)>>)>> :
     n \in {1, 255, 256, 65535}, o \in Offsets3, p \in {-129, 0, 128}}
IndexTables ==
  {<<File(<<Root(lens), Blocks(<<88, 104, 24>>), BitMap(b)>>), Skipped("BAAD")>> :
     lens \in {<<16>>, <<24>>, <<88, 16>>, <<104, 88, 16>>, <<88, 24>>, <<112, 88, 104, 24>>},
     b \in BOOLEAN}
\* The attribute from 160 on ends in front of the end marker, or as the run list behind it
\* is in front of it.
FullTables ==
  {<<File(<<JPG, Data(n), Runs(<<[off |-> 5, len |-> 1]>>)>>)>> : n \in {24, 256, 352, 700, 704, 760, 768}}
    \union {<<File(<<JPG, Data(n), [Runs(<<[off |-> 5, len |-> 1]>>) EXCEPT !.runOff = 72, !.len = 96]>>)>> :
              n \in {688, 695, 696, 752, 760}}
    \union {<<File(<<JPG, Data(856)>>)>>}

Entry(c, e, v) == [code |-> c, ref |-> e, seq |-> 1, vcn |-> v]
ListTables ==
  {<<File(<<List(<<Entry(16, e, 0), Entry(48, e, 0), Entry(128, f, 0), Entry(128, f + 1, v)>>), JPG>>)>> :
     e \in {5, 16, 40, 48, 65520, 65524, 65528}, f \in {6, 32, 41, 65528}, v \in {8, 300}}
\* The third entry of the list is read from its number on, which is that of its name; the
\* list is in the last record and in the one in front of it.
NameTables ==
  {t \o u : t \in {<<File(<<JPG, Data(n), List(<<Entry(16, e, 0), Entry(48, 5, 0), Entry(128, f, 0), Entry(128, 7, v)>>)>>)>> :
               n \in {24, 128, 560, 680}, e \in {62, 65536 + 62}, f \in {6, 511, 65535, 16777215}, v \in {8}},
            u \in {<<>>, <<File(<<JPG>>)>>}}

Directory ==
  <<[File(<<Name("d", {}, "Win32 & Dos"), Descriptor, Root(<<88, 16>>)>>) EXCEPT !.folder = TRUE],
    [File(<<Name("A~1.GZ", {"gz"}, "Dos"), Name("a.tar.gz", {"gz", "tar.gz"}, "Win32"), Data(24)>>)
       EXCEPT !.path = "d"],
    Skipped("zero"), Skipped("BAAD"),
    [File(<<JPG, Data(24)>>) EXCEPT !.used = FALSE, !.path = "d"],
    [File(<<Name("b2.txt", {}, "Win32"), Name("b.jpg", {"jpg"}, "Win32")>>)
       EXCEPT !.used = FALSE, !.hasParent = FALSE],
    [File(<<Name("d", {}, "POSIX")>>) EXCEPT !.folder = TRUE, !.used = FALSE, !.hasParent = FALSE],
    File(<<Name("$UsnJrnl", {}, "Win32 & Dos"), Runs(<<[off |-> 7, len |-> 2]>>)>>),
    File(<<Data(24)>>)>>

NoFlags == [filenames |-> <<>>, usnjrnl |-> FALSE, extensions |-> <<>>, path |-> <<>>,
            orphans |-> FALSE, deleted |-> FALSE, tree |-> FALSE, show |-> {}]

AllFlags ==
  [filenames: {<<>>, <<"b.jpg">>, <<"d", "a.tar.gz", "-">>, <<"A~1.GZ", "b2.txt">>}, usnjrnl: BOOLEAN,
   extensions: {<<>>, <<"jpg">>, <<"gz", "jpg">>, <<"tar.gz", "gz">>}, path: {<<>>, <<"d">>},
   orphans: BOOLEAN, deleted: BOOLEAN, tree: {FALSE}, show: {{}}]

\* What is shown of all records, of the deleted ones and of those with a name.
ShowFlags ==
  {[NoFlags EXCEPT !.deleted = d, !.extensions = e, !.tree = t, !.show = o] :
     d \in BOOLEAN, e \in {<<>>, <<"jpg">>}, t \in BOOLEAN,
     o \in {{"runlist"}, {"filesize"}, {"showfull", "showtree"}, {"runlist", "showtree"}}}

Job(d, file, f) == [disk |-> d, file |-> file, flags |-> f]

MCJobs ==
  {Job(d, FALSE, NoFlags) : d \in RunTables \union IndexTables \union FullTables \union ListTables \union NameTables}
    \union {Job(d, TRUE, [NoFlags EXCEPT !.show = {"showfull"}]) : d \in IndexTables \union FullTables}
    \union {Job(Directory, file, f) : file \in BOOLEAN, f \in AllFlags \union ShowFlags}

MCListJobs == {Job(d, FALSE, NoFlags) : d \in ListTables \union NameTables}
=============================================================================
