------------------------------ MODULE MCTable ------------------------------
(***************************************************************************)
(* A $MFT of five entries: $MFT, the root directory and three that files,  *)
(* directories and extension records are created in, deleted from and      *)
(* created in again.                                                       *)
(***************************************************************************)
EXTENDS MFTTable

Both == {"alloc", "free"}
FreeOnly == {"free"}
Sel(entries, from, to) == [entries |-> entries, from |-> from, to |-> to]

C(s, isLive, isLarge, n) == [sel |-> s, live |-> isLive, large |-> isLarge, ops |-> n]

\* Everything, of an image and of a volume in use, and selections of the first records.
MCCalls ==
  {C(NoSelection, FALSE, FALSE, 5), C(NoSelection, TRUE, FALSE, 4), C(NoSelection, FALSE, TRUE, 2)}
    \union {C(s, FALSE, TRUE, 1) :
              s \in {Sel(<<1, 0>>, NoFrom, NoLimit), Sel(<<>>, NoFrom, 3), Sel(<<>>, 4, NoLimit)}}

\* Single records, the first one and others.
IdCalls == {C(Sel(<<e>>, NoFrom, NoLimit), FALSE, TRUE, 3) : e \in {0, 2}}

\* Everything, of an image.
ImageCalls == {C(NoSelection, FALSE, TRUE, 5)}
=============================================================================
