----------------------------- MODULE ParentTree -----------------------------
(***************************************************************************)
(* What the tree of -tree promises: every record, in the order of the      *)
(* list, hangs below the outermost directories of the tree that its file   *)
(* name refers to as parent.  There are no entry ranges and no search: the *)
(* whole tree is looked at.                                                *)
(*                                                                         *)
(* A node is the sequence of list positions from the root to the record.   *)
(***************************************************************************)
EXTENDS Naturals, Sequences

CONSTANTS Lists, SeqMod

VARIABLES list, pos, nodes

vars == <<list, pos, nodes>>

Rec(n) == list[n[Len(n)]]

\* r refers to d as parent: to the directory as it is, or as it was before it was deleted.
Refers(r, d) ==
  r.named /\ d.entry = r.parRef /\ d.seq \in {r.parSeq, (r.parSeq + 1) % SeqMod}

Above(n) == {SubSeq(n, 1, k) : k \in 1 .. Len(n) - 1}

\* The directories of the tree that r hangs below.
Parents(r) ==
  {p \in nodes : /\ Rec(p).folder /\ Refers(r, Rec(p))
                 /\ \A a \in Above(p) : ~Refers(r, Rec(a))}

Init == list \in Lists /\ pos = 1 /\ nodes = {}

Add ==
  /\ pos <= Len(list)
  /\ pos' = pos + 1
  /\ \/ nodes' = nodes /\ list[pos].entry < 5
     \/ nodes = {} /\ nodes' = {<<pos>>} /\ list[pos].entry >= 5
     \/ /\ nodes # {} /\ list[pos].entry >= 5
        /\ nodes' = nodes \union {Append(p, pos) : p \in Parents(list[pos])}
  /\ UNCHANGED list

Spec == Init /\ [][Add]_vars
=============================================================================
