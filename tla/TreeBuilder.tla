---------------------------- MODULE TreeBuilder ----------------------------
(***************************************************************************)
(* Tree.Build (tree/builder.go): the directory tree that -tree rebuilds    *)
(* from the list of $MFT records.                                          *)
(*                                                                         *)
(* Every node keeps the smallest and the largest entry number below it,    *)
(* and insert descends only into the children whose range contains the     *)
(* parent entry of the record.  One AddRecord is one step; the recursion   *)
(* of insert is the set of nodes it reaches.                               *)
(*                                                                         *)
(* A node is named by the positions in the list of the records on the way  *)
(* from the root to it, so the nodes above it are its proper prefixes.     *)
(***************************************************************************)
EXTENDS Integers, Sequences, FiniteSets

CONSTANTS
  Lists,   \* the record lists considered, those of several Build calls one after another
  SeqMod   \* sequence numbers are counted modulo this number (uint16 in the code)

\* named: the record has a FileName attribute; parRef, parSeq: the parent it names.
Record == [entry: Nat, seq: 0 .. SeqMod - 1, folder: BOOLEAN,
           named: BOOLEAN, parRef: Nat, parSeq: 0 .. SeqMod - 1]

ASSUME ListsAssumption == Lists \subseteq Seq(Record) /\ SeqMod \in Nat \ {0, 1}

VARIABLES
  list,  \* the records, in the order they are added
  pos,   \* the next one
  tree   \* the range [min, max] of every node, a function on the nodes

vars == <<list, pos, tree>>

nodes == DOMAIN tree
Above(n) == {SubSeq(n, 1, k) : k \in 1 .. Len(n) - 1}  \* node.parent, node.parent.parent, ...
RecordOf(n) == list[n[Len(n)]]

\* fnattr.ParRef is the entry of the node, and the sequence number of the node at most
\* one ahead (the directory has been deleted), in uint16 arithmetic.
IsChildBug(r, d) == r.named /\ (d.seq - r.parSeq) % SeqMod < 2
IsChildWide(r, d) == r.named /\ d.entry = r.parRef /\ d.seq - r.parSeq \in {0, 1}
IsChild(r, d) ==
  r.named /\ d.entry = r.parRef /\ (d.seq - r.parSeq) % SeqMod < 2

contains(range, entry) == range.min <= entry /\ entry <= range.max

IsRoot(n) == Len(n) = 1

\* insert is called on the root, and on a child of a visited node when the range of the
\* child contains the parent entry; it does not descend below a parent of the record,
\* and never below a file.
Visits(n, r) ==
  /\ \A a \in Above(n) : RecordOf(a).folder /\ ~IsChild(r, RecordOf(a))
  /\ \A a \in Above(n) \union {n} : IsRoot(a) \/ contains(tree[a], r.parRef)

Finds(r) == {n \in nodes : RecordOf(n).folder /\ IsChild(r, RecordOf(n)) /\ Visits(n, r)}

Widened(range, entry) ==
  [min |-> IF range.min > entry THEN entry ELSE range.min,
   max |-> IF range.max < entry THEN entry ELSE range.max]

\* The nodes whose range updateEntryRange widens for a child added to node p.
WidenedNodesBug(p) == {p}
WidenedNodes(p) == Above(p) \union {p}

\* The node added to the children of each parent found, with its parent pointer.
ChildrenBug(r) == {<<pos>> : p \in Finds(r)}
Children(r) == {Append(p, pos) : p \in Finds(r)}

insert(r) ==
  tree' = [n \in nodes \union Children(r) |->
            IF n \notin nodes THEN [min |-> r.entry, max |-> r.entry]
            ELSE IF \E p \in Finds(r) : n \in WidenedNodes(p) THEN Widened(tree[n], r.entry)
            ELSE tree[n]]

-----------------------------------------------------------------------------
Init == list \in Lists /\ pos = 1 /\ tree = <<>>

Current == list[pos]

\* The records of $MFT and the other metadata files below entry 5 are left out.
Skip ==
  /\ pos <= Len(list) /\ Current.entry < 5
  /\ pos' = pos + 1
  /\ UNCHANGED <<list, tree>>

\* The first record becomes the root, whatever it is.
AddRoot ==
  /\ pos <= Len(list) /\ Current.entry >= 5 /\ nodes = {}
  /\ tree' = [n \in {<<pos>>} |-> [min |-> 0, max |-> 0]]
  /\ pos' = pos + 1
  /\ UNCHANGED list

AddRecord ==
  /\ pos <= Len(list) /\ Current.entry >= 5 /\ nodes # {}
  /\ insert(Current)
  /\ pos' = pos + 1
  /\ UNCHANGED list

Built == pos > Len(list) /\ UNCHANGED vars

Next == Skip \/ AddRoot \/ AddRecord \/ Built

Spec == Init /\ [][Next]_vars

-----------------------------------------------------------------------------
(* Properties.                                                             *)

\* The nodes are paths of list positions closed under prefixes, over one root, and
\* every node carries a range.
TypeOK ==
  /\ list \in Lists
  /\ pos \in Nat \ {0}
  /\ tree \in [nodes -> [min: Nat, max: Nat]]
  /\ \A n \in nodes : /\ n \in Seq(Nat) /\ n # <<>>
                      /\ \A k \in 1 .. Len(n) : n[k] < pos /\ n[k] \in 1 .. Len(list)
                      /\ Above(n) \subseteq nodes
  /\ \A m, n \in nodes : m[1] = n[1]

\* The range of a node, but for the root, covers the entries of the node and of all
\* that is below it: the search by range prunes no directory that it is looking for.
RangesCover ==
  \A n \in nodes : \A a \in Above(n) \union {n} :
    IsRoot(a) \/ contains(tree[a], RecordOf(n).entry)

\* Above every node there are directories only.
FoldersAbove == \A n \in nodes : \A a \in Above(n) : RecordOf(a).folder

\* In the list of one volume, where no entry number occurs twice, a record has at most
\* one place in the tree: no two nodes end in the same record.
OneEntryOnePlace ==
  (\A i, j \in 1 .. Len(list) : list[i].entry = list[j].entry => i = j)
    => \A m, n \in nodes : m[Len(m)] = n[Len(n)] => m = n

\* The tree is built as if there were no ranges: by looking at every node.
Reference == INSTANCE ParentTree
ImplementsReference == Reference!Spec
=============================================================================
