------------------------------- MODULE MCTree -------------------------------
(***************************************************************************)
(* The lists of small volumes: the root directory at entry 5 and up to     *)
(* three more records, each a file or a directory that names any of the    *)
(* four as its parent, with a current, a deleted or a stale reference.     *)
(***************************************************************************)
EXTENDS TreeBuilder

MCSeqMod == 4

R(e, s, f, pr, ps) ==
  [entry |-> e, seq |-> s, folder |-> f, named |-> TRUE, parRef |-> pr, parSeq |-> ps]

\* $MFT itself is in every list and is left out by Build.
MFT  == R(0, 1, FALSE, 5, 3)
Root == R(5, 3, TRUE, 5, 3)
NoName(e) == [R(e, 0, FALSE, 0, 0) EXCEPT !.named = FALSE]

\* Sequence numbers are 0 or 3, so that a reference one behind wraps around.
Member(e) ==
  {NoName(e)} \union
  {R(e, 0, f, pr, ps) : f \in BOOLEAN, pr \in {5, 6, 7, 8} \ {e}, ps \in {0, 3, 2}}

Volumes ==
  {<<MFT, Root, x, y, z>> : x \in Member(6), y \in Member(7), z \in {m \in Member(8) : ~m.folder}}
    \* a selection without the root directory: any record may come first
    \union {<<x, y>> : x \in Member(6), y \in Member(7)}

\* Two volumes after one another in one tree: entries occur twice.
TwoVolumes ==
  {<<Root, R(6, 0, TRUE, 5, 3), Root, x, y>> :
     x \in {R(6, 0, TRUE, 5, p) : p \in {2, 3}}, y \in {R(7, 0, FALSE, 6, p) : p \in {0, 3}}}

\* The range of one directory contains the entry of another.
Crossing ==
  {<<Root, R(6, 0, TRUE, 5, 3), R(7, 0, TRUE, 5, 3), R(8, 0, f, 6, 0), R(9, 0, FALSE, pr, ps)>> :
     f \in BOOLEAN, pr \in {6, 7, 8}, ps \in {0, 3, 2}}

MCLists == Volumes \union TwoVolumes \union Crossing
=============================================================================
