------------------------------- MODULE MCDisk -------------------------------
(***************************************************************************)
(* Disks with up to three volumes: MBR disks, with and without an extended *)
(* partition, GPT disks and a disk that is one NTFS volume.                *)
(***************************************************************************)
EXTENDS UnallocatedExport, TLC

E(t, s) == [type |-> t, start |-> s]
Empty   == E("empty", 0)

\* Clusters of eight sectors; m is the cluster of the $MFT.
B(m, bits) == [bps |-> 512, spc |-> 8, mft |-> m, mftBitmap |-> bits, bitmap |-> bits]
Large(bits) == [B(4, bits) EXCEPT !.bps = 4096]

T == TRUE
F == FALSE

\* Runs at the ends and within, none, a single one.
Scattered == <<F, F, T, F, T, T, F, F, F, T, F>>
Used  == <<T, T>>
Brief == <<T, F>>

\* A run of sixteen free positions: its length in bytes is 2^16.
Long == [i \in 1..19 |-> i \in {1, 18}]

Bitmaps == {Scattered, Used, Brief, Long}

Layout(m, x, g, bs, rs) == [mbr |-> m, extended |-> x, gpt |-> g, boots |-> bs, raids |-> rs]
NoRaid == [s \in {} |-> 0]

\* Two primary partitions, of which the second may hold no NTFS volume, or have larger
\* sectors.
Primary(t1, t2, bs) ==
  Layout(<<E(t1, 8), E(t2, 20), Empty, Empty>>, <<>>, <<>>, bs, NoRaid)

MBRDisks ==
  {Primary(t1, t2, (8 :> B(4, x)) @@ bs) :
     t1 \in {"ntfs", "foreign"}, t2 \in {"ntfs", "foreign"}, x \in Bitmaps,
     bs \in {NoRaid, 20 :> B(4, Scattered), 20 :> Large(Brief)}}

\* A logical partition eight sectors into an extended one, as a primary one is eight
\* sectors into the disk; it may hold a volume with its $MFT at the same place, also
\* in smaller clusters, at another, or none.
ExtendedDisks ==
  {Layout(<<E(t, 8), E("extended", 30), Empty, Empty>>,
          <<E("ntfs", s), Empty, Empty, Empty>>, <<>>, (8 :> B(4, Brief)) @@ bs, NoRaid) :
     t \in {"ntfs", "foreign"}, s \in {8, 9},
     bs \in {NoRaid} \union {38 :> b : b \in {B(4, Scattered), B(5, Scattered),
                                             [B(8, Scattered) EXCEPT !.spc = 4]}}}

\* The data of a member three sectors behind its start: a physical volume of LVM with one
\* data area or with two, an array that is empty, and one with other data in it.
PV(areas) == [data |-> 3, label |-> TRUE, headerSize |-> 32, descriptors |-> areas \o <<0, 4096, 0>>,
              areas |-> Len(areas)]
EmptyArray == [data |-> 3, label |-> FALSE, headerSize |-> 0, descriptors |-> <<0>>, areas |-> 0]
OtherArray == [EmptyArray EXCEPT !.headerSize = 3540]

Members == {PV(<<1048576>>), PV(<<512, 2048>>), EmptyArray, OtherArray}

GPTDisks ==
  {Layout(<<E("protective", 1), Empty, Empty, Empty>>, <<>>,
          <<E(t1, 8), E(t2, 20), E("empty", 0)>>, (8 :> B(4, Scattered)) @@ bs, rs) :
     t1 \in {"windows", "raid"}, t2 \in {"windows", "raid", "foreign"},
     bs \in {NoRaid, 20 :> B(4, Brief)}, rs \in {NoRaid} \union {(8 :> m) @@ (20 :> PV(<<1048576>>)) : m \in Members}}

Bare == {Layout(<<Empty, Empty, Empty, Empty>>, <<>>, <<>>, 0 :> B(4, x), NoRaid) : x \in Bitmaps}

MCLayouts == MBRDisks \union ExtendedDisks \union GPTDisks \union Bare

MCNumbers == {None, 0, 1, 2, 5}

\* The number of the README's examples.
FirstNumber == {1}

\* A GPT disk of two NTFS volumes.
TwoVolumes ==
  {Layout(<<E("protective", 1), Empty, Empty, Empty>>, <<>>,
          <<E("windows", 8), E("windows", 20)>>, (8 :> B(4, Scattered)) @@ (20 :> B(4, Brief)), NoRaid)}

\* A MBR disk of one NTFS volume whose $MFT has the same bits as its clusters.
OneVolume ==
  {Layout(<<E("ntfs", 8), Empty, Empty, Empty>>, <<>>, <<>>, 8 :> B(4, <<F, T, F, T>>), NoRaid)}
=============================================================================
