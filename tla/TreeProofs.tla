----------------------------- MODULE TreeProofs -----------------------------
(***************************************************************************)
(* For all record lists, the search by entry ranges finds what a search of *)
(* the whole tree finds: TreeBuilder implements ParentTree.                *)
(*                                                                         *)
(* The invariant behind it is RangesCover: updateEntryRange widens every   *)
(* node on the way up, so the range of a node covers all below it, and a   *)
(* directory is never hidden by the range of a node above it.              *)
(***************************************************************************)
EXTENDS TreeBuilder, SequenceTheorems, TLAPS

IInv == TypeOK /\ RangesCover /\ FoldersAbove

-----------------------------------------------------------------------------
(* Paths and ranges.                                                       *)

\* A child hangs below its parent and whatever the parent hangs below.
LEMMA AboveChild ==
  ASSUME NEW p \in Seq(Nat), p # <<>>, NEW x \in Nat
  PROVE  /\ Above(Append(p, x)) = Above(p) \union {p}
         /\ Append(p, x) \in Seq(Nat) /\ Append(p, x) # <<>>
         /\ Len(Append(p, x)) = Len(p) + 1
         /\ Append(p, x)[Len(Append(p, x))] = x
         /\ \A k \in 1 .. Len(p) : Append(p, x)[k] = p[k]
         /\ ~IsRoot(Append(p, x))
  <1> DEFINE c == Append(p, x)
  <1>1. /\ Len(p) \in Nat \ {0} /\ c \in Seq(Nat) /\ Len(c) = Len(p) + 1
        /\ c[Len(p) + 1] = x /\ \A k \in 1 .. Len(p) : c[k] = p[k]
    BY EmptySeq
  <1>2. \A k \in 1 .. Len(p) : SubSeq(c, 1, k) = SubSeq(p, 1, k)
    BY <1>1
  <1>3. SubSeq(p, 1, Len(p)) = p
    BY SubSeqFull
  <1>4. Above(c) = Above(p) \union {p}
    <2>1. Above(c) = {SubSeq(c, 1, k) : k \in 1 .. Len(p)}
      BY <1>1 DEF Above
    <2>2. 1 .. Len(p) = (1 .. Len(p) - 1) \union {Len(p)}
      BY <1>1
    <2>3. Above(c) = {SubSeq(p, 1, k) : k \in 1 .. Len(p)}
      BY <1>2, <2>1
    <2> HIDE DEF c
    <2> QED
      BY <1>3, <2>2, <2>3 DEF Above
  <1> QED
    BY <1>1, <1>4 DEF IsRoot

\* A widened range covers the new entry and whatever it covered.
LEMMA WidenedCovers ==
  ASSUME NEW range \in [min: Nat, max: Nat], NEW e \in Nat
  PROVE  /\ Widened(range, e) \in [min: Nat, max: Nat]
         /\ contains(Widened(range, e), e)
         /\ \A f \in Nat : contains(range, f) => contains(Widened(range, e), f)
  BY DEF Widened, contains

\* The uint16 difference of two sequence numbers is below two exactly when the
\* directory has the number that was referred to, or the next one.
LEMMA ChildRefers ==
  ASSUME NEW r \in Record, NEW d \in Record
  PROVE  IsChild(r, d) <=> Reference!Refers(r, d)
  <1> DEFINE a == d.seq
             b == r.parSeq
  <1>1. SeqMod \in Nat \ {0, 1} /\ a \in 0 .. SeqMod - 1 /\ b \in 0 .. SeqMod - 1
    BY ListsAssumption DEF Record
  <1> HIDE DEF a, b
  <1>2. (a - b) % SeqMod = IF a >= b THEN a - b ELSE a - b + SeqMod
    BY <1>1
  <1>3. (b + 1) % SeqMod = IF b + 1 = SeqMod THEN 0 ELSE b + 1
    BY <1>1
  <1>4. (a - b) % SeqMod < 2 <=> a \in {b, (b + 1) % SeqMod}
    BY <1>1, <1>2, <1>3
  <1> QED
    BY <1>4 DEF IsChild, Reference!Refers, a, b

\* Every node stands for a record of the list.
LEMMA NodeRecord ==
  ASSUME TypeOK
  PROVE  /\ list \in Seq(Record) /\ Len(list) \in Nat
         /\ \A n \in nodes : /\ RecordOf(n) \in Record
                             /\ n \in Seq(Nat) /\ n # <<>> /\ Len(n) \in Nat \ {0}
                             /\ tree[n] \in [min: Nat, max: Nat]
  <1>1. list \in Seq(Record) /\ Len(list) \in Nat
    BY ListsAssumption, LenProperties DEF TypeOK
  <1>2. ASSUME NEW n \in nodes
        PROVE  /\ RecordOf(n) \in Record
               /\ n \in Seq(Nat) /\ n # <<>> /\ Len(n) \in Nat \ {0}
               /\ tree[n] \in [min: Nat, max: Nat]
    <2>1. n \in Seq(Nat) /\ n # <<>> /\ Len(n) \in Nat \ {0}
      BY EmptySeq DEF TypeOK
    <2>2. n[Len(n)] \in 1 .. Len(list)
      BY <2>1 DEF TypeOK
    <2>3. list[n[Len(n)]] \in Record
      BY <1>1, <2>2, ElementOfSeq
    <2>4. tree[n] \in [min: Nat, max: Nat]
      BY DEF TypeOK
    <2> QED
      BY <2>1, <2>3, <2>4 DEF RecordOf
  <1> QED
    BY <1>1, <1>2

-----------------------------------------------------------------------------
(* The invariant.                                                          *)

\* Before Build there is no node.
LEMMA InitIInv == Init => IInv
  <1> SUFFICES ASSUME Init PROVE IInv
    OBVIOUS
  <1>1. nodes = {} /\ tree \in [nodes -> [min: Nat, max: Nat]]
    BY DEF Init, nodes
  <1>2. TypeOK
    BY <1>1 DEF Init, TypeOK
  <1> QED
    BY <1>1, <1>2 DEF IInv, RangesCover, FoldersAbove

\* The first record becomes the only node.
LEMMA AddRootStep ==
  ASSUME IInv, AddRoot
  PROVE  IInv'
  <1>1. /\ list' = list /\ pos \in Nat \ {0} /\ pos <= Len(list) /\ pos' = pos + 1
        /\ tree' = [n \in {<<pos>>} |-> [min |-> 0, max |-> 0]]
    BY DEF AddRoot, IInv, TypeOK
  <1>2. nodes' = {<<pos>>}
    BY <1>1 DEF nodes
  <1>3. Len(<<pos>>) = 1 /\ Above(<<pos>>) = {} /\ <<pos>>[1] = pos /\ <<pos>> \in Seq(Nat)
    BY <1>1 DEF Above
  <1>4. Len(list) \in Nat /\ list \in Lists
    BY NodeRecord DEF IInv, TypeOK
  <1>5. TypeOK'
    <2>1. tree' \in [nodes' -> [min: Nat, max: Nat]]
      BY <1>1, <1>2
    <2>2. \A n \in nodes' : /\ n \in Seq(Nat) /\ n # <<>>
                            /\ \A k \in 1 .. Len(n) : n[k] < pos' /\ n[k] \in 1 .. Len(list')
                            /\ Above(n) \subseteq nodes'
      <3> DEFINE n == <<pos>>
      <3>1. n \in Seq(Nat) /\ n # <<>> /\ Len(n) = 1 /\ n[1] = pos
        BY <1>1
      <3>2. pos < pos' /\ pos \in 1 .. Len(list')
        BY <1>1, <1>4
      <3> HIDE DEF n
      <3>3. \A k \in 1 .. Len(n) : n[k] < pos' /\ n[k] \in 1 .. Len(list')
        BY <3>1, <3>2
      <3>4. Above(n) = {} /\ nodes' = {n}
        BY <1>2, <1>3 DEF n
      <3> QED
        BY <3>1, <3>3, <3>4
    <2>3. \A m, n \in nodes' : m[1] = n[1]
      BY <1>2
    <2>4. list' \in Lists /\ pos' \in Nat \ {0}
      BY <1>1, <1>4
    <2> QED
      BY <2>1, <2>2, <2>3, <2>4 DEF TypeOK
  <1>6. RangesCover' /\ FoldersAbove'
    BY <1>2, <1>3 DEF RangesCover, FoldersAbove, IsRoot
  <1> QED
    BY <1>5, <1>6 DEF IInv

\* The nodes and the ranges after insert.
LEMMA Inserted ==
  ASSUME IInv, AddRecord
  PROVE  /\ list' = list /\ pos' = pos + 1 /\ pos \in 1 .. Len(list)
         /\ Current \in Record /\ Finds(Current) \subseteq nodes
         /\ nodes' = nodes \union Children(Current)
         /\ \A n \in nodes : \/ tree'[n] = tree[n]
                            \/ tree'[n] = Widened(tree[n], Current.entry)
         /\ \A p \in Finds(Current) : \A n \in WidenedNodes(p) :
              n \in nodes => tree'[n] = Widened(tree[n], Current.entry)
         /\ \A c \in Children(Current) :
              c \notin nodes /\ tree'[c] = [min |-> Current.entry, max |-> Current.entry]
  <1>1. /\ list' = list /\ pos' = pos + 1 /\ pos \in 1 .. Len(list)
        /\ list \in Seq(Record)
    BY NodeRecord DEF AddRecord, IInv, TypeOK
  <1>2. Current \in Record
    BY <1>1, ElementOfSeq DEF Current
  <1>3. Finds(Current) \subseteq nodes
    BY DEF Finds
  <1>4. insert(Current)
    BY DEF AddRecord
  <1>5. nodes' = nodes \union Children(Current)
    BY <1>4 DEF insert, nodes
  <1>6. ASSUME NEW c \in Children(Current)
        PROVE  c \notin nodes
    <2>1. PICK p \in Finds(Current) : c = Append(p, pos)
      BY DEF Children
    <2>2. c[Len(c)] = pos /\ c \in Seq(Nat) /\ Len(c) \in Nat \ {0}
      BY <1>1, <1>3, <2>1, AboveChild, NodeRecord, EmptySeq DEF IInv
    <2>3. c \in nodes => c[Len(c)] < pos
      BY <2>2 DEF IInv, TypeOK
    <2> QED
      BY <1>1, <2>2, <2>3
  <1>7. \A n \in nodes : \/ tree'[n] = tree[n]
                       \/ tree'[n] = Widened(tree[n], Current.entry)
    BY <1>4 DEF insert
  <1>8. \A p \in Finds(Current) : \A n \in WidenedNodes(p) :
              n \in nodes => tree'[n] = Widened(tree[n], Current.entry)
    BY <1>4 DEF insert
  <1>9. \A c \in Children(Current) : tree'[c] = [min |-> Current.entry, max |-> Current.entry]
    BY <1>4, <1>6 DEF insert
  <1> QED
    BY <1>1, <1>2, <1>3, <1>5, <1>6, <1>7, <1>8, <1>9

\* A child of each directory found: the ranges above it are widened by its entry.
LEMMA AddRecordStep ==
  ASSUME IInv, AddRecord
  PROVE  IInv'
  <1> DEFINE e == Current.entry
  <1>0. TypeOK /\ RangesCover /\ FoldersAbove
    BY DEF IInv
  <1>1. /\ list' = list /\ pos' = pos + 1 /\ pos \in 1 .. Len(list) /\ pos \in Nat \ {0}
        /\ Current \in Record /\ e \in Nat /\ Len(list) \in Nat
    <2>1. /\ list' = list /\ pos' = pos + 1 /\ pos \in 1 .. Len(list) /\ Current \in Record
      BY Inserted
    <2>2. e \in Nat
      BY <2>1 DEF Record
    <2>3. pos \in Nat \ {0} /\ Len(list) \in Nat
      BY <1>0, NodeRecord DEF TypeOK
    <2> QED
      BY <2>1, <2>2, <2>3
  <1>2. nodes' = nodes \union Children(Current)
    BY Inserted
  <1>r. \A n \in nodes : RecordOf(n)' = RecordOf(n)
    BY <1>1 DEF RecordOf
  <1>3. ASSUME NEW n \in nodes
        PROVE  /\ tree'[n] \in [min: Nat, max: Nat]
               /\ \A f \in Nat : contains(tree[n], f) => contains(tree'[n], f)
    <2>1. tree[n] \in [min: Nat, max: Nat]
      BY <1>0, NodeRecord
    <2>2. tree'[n] = tree[n] \/ tree'[n] = Widened(tree[n], e)
      BY Inserted
    <2>3. /\ Widened(tree[n], e) \in [min: Nat, max: Nat]
          /\ \A f \in Nat : contains(tree[n], f) => contains(Widened(tree[n], e), f)
      BY <1>1, <2>1, WidenedCovers
    <2> QED
      BY <2>1, <2>2, <2>3
  <1>4. ASSUME NEW c \in Children(Current)
        PROVE  \E p \in Finds(Current) :
                 /\ p \in nodes /\ c = Append(p, pos) /\ c \in Seq(Nat) /\ c # <<>>
                 /\ Len(c) = Len(p) + 1 /\ c[Len(c)] = pos /\ ~IsRoot(c)
                 /\ \A k \in 1 .. Len(p) : c[k] = p[k]
                 /\ Above(c) = Above(p) \union {p} /\ Above(p) \subseteq nodes
                 /\ p \in Seq(Nat) /\ Len(p) \in Nat \ {0}
    <2>1. PICK p \in Finds(Current) : c = Append(p, pos)
      BY DEF Children
    <2>2. p \in nodes
      BY Inserted
    <2>3. p \in Seq(Nat) /\ p # <<>> /\ Len(p) \in Nat \ {0} /\ Above(p) \subseteq nodes
      BY <1>0, <2>2, NodeRecord DEF TypeOK
    <2> QED
      BY <1>1, <2>1, <2>2, <2>3, AboveChild
  <1>5. TypeOK'
    <2>1. tree' \in [nodes' -> [min: Nat, max: Nat]]
      <3>1. \A c \in Children(Current) : tree'[c] \in [min: Nat, max: Nat]
        BY <1>1, Inserted
      <3>2. tree' = [n \in nodes' |-> tree'[n]]
        BY <1>2 DEF AddRecord, insert
      <3> QED
        BY <1>2, <1>3, <3>1, <3>2
    <2>2. ASSUME NEW n \in nodes'
          PROVE  /\ n \in Seq(Nat) /\ n # <<>>
                 /\ \A k \in 1 .. Len(n) : n[k] < pos' /\ n[k] \in 1 .. Len(list')
                 /\ Above(n) \subseteq nodes'
      <3>1. CASE n \in nodes
        BY <1>0, <1>1, <1>2, <3>1 DEF TypeOK
      <3>2. CASE n \in Children(Current)
        <4>1. PICK p \in Finds(Current) :
                 /\ p \in nodes /\ n = Append(p, pos) /\ n \in Seq(Nat) /\ n # <<>>
                 /\ Len(n) = Len(p) + 1 /\ n[Len(n)] = pos
                 /\ \A k \in 1 .. Len(p) : n[k] = p[k]
                 /\ Above(n) = Above(p) \union {p} /\ Above(p) \subseteq nodes
                 /\ p \in Seq(Nat) /\ Len(p) \in Nat \ {0}
          BY <1>4, <3>2
        <4>2. \A k \in 1 .. Len(p) : p[k] < pos /\ p[k] \in 1 .. Len(list)
          BY <1>0, <4>1 DEF TypeOK
        <4>3. \A k \in 1 .. Len(n) : n[k] < pos' /\ n[k] \in 1 .. Len(list')
          <5>1. ASSUME NEW k \in 1 .. Len(n)
                PROVE  n[k] < pos' /\ n[k] \in 1 .. Len(list')
            <6>1. CASE k \in 1 .. Len(p)
              BY <1>1, <4>1, <4>2, <6>1
            <6>2. CASE k = Len(n)
              BY <1>1, <4>1, <6>2
            <6> QED
              BY <4>1, <6>1, <6>2
          <5> QED
            BY <5>1
        <4>4. Above(n) \subseteq nodes'
          BY <1>2, <4>1
        <4> QED
          BY <4>1, <4>3, <4>4
      <3> QED
        BY <1>2, <3>1, <3>2
    <2>3. \A m, n \in nodes' : m[1] = n[1]
      <3>1. ASSUME NEW n \in nodes' PROVE \E p \in nodes : n[1] = p[1]
        <4>1. CASE n \in Children(Current)
          BY <1>4, <4>1
        <4> QED
          BY <1>2, <4>1
      <3> QED
        BY <1>0, <3>1 DEF TypeOK
    <2>4. list' \in Lists /\ pos' \in Nat \ {0}
      BY <1>0, <1>1 DEF TypeOK
    <2> QED
      BY <2>1, <2>2, <2>3, <2>4 DEF TypeOK
  <1>6. RangesCover'
    <2>1. ASSUME NEW n \in nodes', NEW a \in Above(n) \union {n}, ~IsRoot(a)
          PROVE  contains(tree'[a], RecordOf(n)'.entry)
      <3>1. CASE n \in nodes
        <4>1. contains(tree[a], RecordOf(n).entry) /\ a \in nodes
          BY <1>0, <2>1, <3>1 DEF RangesCover, TypeOK
        <4>2. RecordOf(n).entry \in Nat
          BY <1>0, <3>1, NodeRecord DEF Record
        <4> QED
          BY <1>3, <1>r, <3>1, <4>1, <4>2
      <3>2. CASE n \in Children(Current)
        <4>1. PICK p \in Finds(Current) :
                 p \in nodes /\ n[Len(n)] = pos /\ Above(n) = Above(p) \union {p}
                 /\ Above(p) \subseteq nodes
          BY <1>4, <3>2
        <4>2. RecordOf(n)' = Current
          BY <1>1, <4>1 DEF RecordOf, Current
        <4>3. CASE a = n
          BY <1>1, <3>2, <4>2, <4>3, Inserted DEF contains
        <4>4. CASE a \in Above(n)
          <5>1. a \in WidenedNodes(p) /\ a \in nodes
            BY <4>1, <4>4 DEF WidenedNodes
          <5>2. tree'[a] = Widened(tree[a], e) /\ tree[a] \in [min: Nat, max: Nat]
            BY <1>0, <5>1, Inserted, NodeRecord
          <5> QED
            BY <1>1, <4>2, <5>2, WidenedCovers
        <4> QED
          BY <4>3, <4>4
      <3> QED
        BY <1>2, <3>1, <3>2
    <2> QED
      BY <2>1 DEF RangesCover, IsRoot
  <1>7. FoldersAbove'
    <2>1. ASSUME NEW n \in nodes', NEW a \in Above(n)
          PROVE  RecordOf(a)'.folder
      <3>1. CASE n \in nodes
        BY <1>0, <1>r, <2>1, <3>1 DEF FoldersAbove, TypeOK
      <3>2. CASE n \in Children(Current)
        <4>1. PICK p \in Finds(Current) :
                 p \in nodes /\ Above(n) = Above(p) \union {p} /\ Above(p) \subseteq nodes
          BY <1>4, <3>2
        <4>2. RecordOf(p).folder
          BY DEF Finds
        <4> QED
          BY <1>0, <1>r, <4>1, <4>2 DEF FoldersAbove
      <3> QED
        BY <1>2, <3>1, <3>2
    <2> QED
      BY <2>1 DEF FoldersAbove, Above
  <1> QED
    BY <1>5, <1>6, <1>7 DEF IInv

\* Skipping a metadata record, and stuttering, change no node.
LEMMA OtherSteps ==
  ASSUME IInv, Skip \/ Built \/ UNCHANGED vars
  PROVE  IInv'
  <1>1. /\ UNCHANGED <<list, tree>> /\ pos \in Nat \ {0}
        /\ pos' = pos \/ pos' = pos + 1
    BY DEF Skip, Built, vars, IInv, TypeOK
  <1>2. nodes' = nodes /\ \A n \in nodes : RecordOf(n)' = RecordOf(n)
    BY <1>1 DEF nodes, RecordOf
  <1>3. TypeOK'
    <2>1. ASSUME NEW n \in nodes, NEW k \in 1 .. Len(n)
          PROVE  n[k] < pos'
      <3>1. n[k] \in Nat /\ n[k] < pos
        BY NodeRecord DEF IInv, TypeOK
      <3> QED
        BY <1>1, <3>1
    <2> QED
      BY <1>1, <1>2, <2>1 DEF IInv, TypeOK
  <1>4. \A n \in nodes : Above(n) \subseteq nodes
    BY DEF IInv, TypeOK
  <1>5. RangesCover'
    <2>1. ASSUME NEW n \in nodes, NEW a \in Above(n) \union {n}, ~IsRoot(a)
          PROVE  contains(tree'[a], RecordOf(n)'.entry)
      <3>1. contains(tree[a], RecordOf(n).entry)
        BY <2>1 DEF IInv, RangesCover
      <3> QED
        BY <1>1, <1>2, <3>1
    <2> QED
      BY <1>2, <2>1 DEF RangesCover, IsRoot, Above
  <1>6. FoldersAbove'
    <2>1. ASSUME NEW n \in nodes, NEW a \in Above(n)
          PROVE  RecordOf(a)'.folder
      <3>1. RecordOf(a).folder /\ a \in nodes
        BY <1>4 DEF IInv, FoldersAbove
      <3> QED
        BY <1>2, <3>1
    <2> QED
      BY <1>2, <2>1 DEF FoldersAbove, Above
  <1> QED
    BY <1>3, <1>5, <1>6 DEF IInv

\* The invariant holds of every reachable state.
LEMMA IInvAlways == Spec => []IInv
  <1>1. IInv /\ [Next]_vars => IInv'
    BY AddRootStep, AddRecordStep, OtherSteps DEF Next
  <1> QED
    BY InitIInv, <1>1, PTL DEF Spec

\* The nodes form one tree of records of the list, in every reachable state.
THEOREM TypeCorrect == Spec => []TypeOK
  <1>1. IInv => TypeOK
    BY DEF IInv
  <1> QED
    BY IInvAlways, <1>1, PTL

\* updateEntryRange keeps the range of every node up to date: it covers all below it.
THEOREM RangesAlwaysCover == Spec => []RangesCover
  <1>1. IInv => RangesCover
    BY DEF IInv
  <1> QED
    BY IInvAlways, <1>1, PTL

-----------------------------------------------------------------------------
(* Edges and places.                                                       *)

\* Only directories have nodes below them, and every node was named by its record as a
\* child of the directory it hangs below.
EdgesAreReferences ==
  \A n \in nodes : ~IsRoot(n) =>
    LET p == SubSeq(n, 1, Len(n) - 1)
    IN RecordOf(p).folder /\ IsChild(RecordOf(n), RecordOf(p))

PlacesInv == IInv /\ EdgesAreReferences /\ OneEntryOnePlace

\* The parent of a node, as its path gives it.
LEMMA ParentOfChild ==
  ASSUME NEW p \in Seq(Nat), p # <<>>, NEW x \in Nat
  PROVE  SubSeq(Append(p, x), 1, Len(Append(p, x)) - 1) = p
  <1>1. Len(p) \in Nat \ {0} /\ Len(Append(p, x)) - 1 = Len(p)
    BY EmptySeq
  <1>2. SubSeq(Append(p, x), 1, Len(p)) = SubSeq(p, 1, Len(p))
    BY <1>1
  <1> QED
    BY <1>1, <1>2, SubSeqFull

\* A child of a directory that was found hangs below a directory it refers to, and the
\* list position it ends in is the current one, which no older node ends in.
LEMMA NewNode ==
  ASSUME IInv, AddRecord, NEW c \in Children(Current)
  PROVE  \E p \in Finds(Current) :
           /\ p \in nodes /\ p # <<>> /\ p \in Seq(Nat)
           /\ c = Append(p, pos) /\ c[Len(c)] = pos /\ ~IsRoot(c)
           /\ SubSeq(c, 1, Len(c) - 1) = p
           /\ RecordOf(p).folder /\ IsChild(Current, RecordOf(p))
  <1>1. PICK p \in Finds(Current) : c = Append(p, pos)
    BY DEF Children
  <1>2. p \in nodes /\ RecordOf(p).folder /\ IsChild(Current, RecordOf(p))
    BY <1>1 DEF Finds
  <1>3. p \in Seq(Nat) /\ p # <<>> /\ pos \in Nat
    BY <1>2, NodeRecord DEF IInv, TypeOK
  <1> QED
    BY <1>1, <1>2, <1>3, AboveChild, ParentOfChild

\* No step of Build takes an edge away, and every new one is a reference; where no entry
\* number occurs twice, two directories found by one record would be the same record.
LEMMA PlacesStep ==
  ASSUME PlacesInv, [Next]_vars, IInv'
  PROVE  PlacesInv'
  <1>0. IInv /\ TypeOK /\ EdgesAreReferences /\ OneEntryOnePlace
    BY DEF PlacesInv, IInv
  <1>1. ASSUME UNCHANGED <<list, tree>>
        PROVE  EdgesAreReferences' /\ OneEntryOnePlace'
    BY <1>0, <1>1 DEF EdgesAreReferences, OneEntryOnePlace, nodes, RecordOf, IsRoot
  <1>2. CASE AddRoot
    <2>1. nodes' = {<<pos>>} /\ Len(<<pos>>) = 1
      BY <1>2 DEF AddRoot, nodes
    <2> QED
      BY <2>1 DEF EdgesAreReferences, OneEntryOnePlace, IsRoot, PlacesInv
  <1>3. CASE AddRecord
    <2>1. /\ list' = list /\ pos \in Nat /\ pos \in 1 .. Len(list) /\ nodes' = nodes \union Children(Current)
          /\ \A n \in nodes : RecordOf(n)' = RecordOf(n)
      BY <1>0, <1>3, Inserted DEF RecordOf, TypeOK
    <2>2. \A n \in nodes : n[Len(n)] < pos /\ n[Len(n)] \in 1 .. Len(list)
      BY <1>0, NodeRecord DEF TypeOK
    <2>3. EdgesAreReferences'
      <3>1. ASSUME NEW n \in nodes', ~IsRoot(n)
            PROVE  LET p == SubSeq(n, 1, Len(n) - 1)
                   IN RecordOf(p)'.folder /\ IsChild(RecordOf(n)', RecordOf(p)')
        <4> DEFINE p == SubSeq(n, 1, Len(n) - 1)
        <4>1. CASE n \in nodes
          <5>1. RecordOf(p).folder /\ IsChild(RecordOf(n), RecordOf(p))
            BY <1>0, <3>1, <4>1 DEF EdgesAreReferences
          <5>2. RecordOf(p)' = RecordOf(p) /\ RecordOf(n)' = RecordOf(n)
            BY <2>1 DEF RecordOf
          <5> QED
            BY <5>1, <5>2
        <4>2. CASE n \in Children(Current)
          <5>1. PICK q \in Finds(Current) :
                  /\ q \in nodes /\ n[Len(n)] = pos /\ SubSeq(n, 1, Len(n) - 1) = q
                  /\ RecordOf(q).folder /\ IsChild(Current, RecordOf(q))
            BY <1>0, <1>3, <4>2, NewNode
          <5>2. RecordOf(n)' = Current /\ RecordOf(p)' = RecordOf(q)
            BY <2>1, <5>1 DEF RecordOf, Current
          <5> QED
            BY <5>1, <5>2
        <4> QED
          BY <2>1, <4>1, <4>2
      <3> QED
        BY <3>1 DEF EdgesAreReferences, IsRoot, IsChild
    <2>4. OneEntryOnePlace'
      <3> SUFFICES ASSUME \A i, j \in 1 .. Len(list) : list[i].entry = list[j].entry => i = j,
                          NEW m \in nodes', NEW n \in nodes', m[Len(m)] = n[Len(n)]
                   PROVE  m = n
        BY <2>1 DEF OneEntryOnePlace
      <3>1. CASE m \in nodes /\ n \in nodes
        BY <1>0, <3>1 DEF OneEntryOnePlace
      <3>2. CASE m \in Children(Current) /\ n \in Children(Current)
        <4>1. PICK p \in Finds(Current) :
                p \in nodes /\ m = Append(p, pos) /\ IsChild(Current, RecordOf(p))
          BY <1>0, <1>3, <3>2, NewNode
        <4>2. PICK q \in Finds(Current) :
                q \in nodes /\ n = Append(q, pos) /\ IsChild(Current, RecordOf(q))
          BY <1>0, <1>3, <3>2, NewNode
        <4>3. RecordOf(p).entry = RecordOf(q).entry
          BY <4>1, <4>2 DEF IsChild
        <4>4. p[Len(p)] = q[Len(q)]
          BY <2>2, <4>1, <4>2, <4>3 DEF RecordOf
        <4>5. p = q
          BY <1>0, <4>1, <4>2, <4>4 DEF OneEntryOnePlace
        <4> QED
          BY <4>1, <4>2, <4>5
      <3>3. ASSUME NEW x \in nodes, NEW y \in Children(Current)
            PROVE  x[Len(x)] # y[Len(y)]
        BY <1>0, <1>3, <2>1, <2>2, NewNode
      <3> QED
        BY <2>1, <3>1, <3>2, <3>3
    <2> QED
      BY <2>3, <2>4 DEF PlacesInv
  <1>4. CASE Skip \/ Built \/ UNCHANGED vars
    <2>1. UNCHANGED <<list, tree>>
      BY <1>4 DEF Skip, Built, vars
    <2> QED
      BY <1>1, <2>1 DEF PlacesInv
  <1> QED
    BY <1>2, <1>3, <1>4 DEF Next

\* Every edge of the tree is a reference to a directory, and a volume without repeated
\* entry numbers has every record in one place, in every reachable state.
LEMMA PlacesAlways == Spec => []PlacesInv
  <1>1. Init => PlacesInv
    <2>1. Init => nodes = {}
      BY DEF Init, nodes
    <2> QED
      BY <2>1, InitIInv DEF PlacesInv, EdgesAreReferences, OneEntryOnePlace
  <1>2. PlacesInv /\ [Next]_vars /\ IInv' => PlacesInv'
    BY PlacesStep
  <1> QED
    BY <1>1, <1>2, IInvAlways, PTL DEF Spec

\* insert descends into every child whose range fits, yet it adds a record of a volume
\* once: the ranges overlap, but only one node below them is the parent.
THEOREM OneEntryAlwaysOnePlace == Spec => []OneEntryOnePlace
  <1>1. PlacesInv => OneEntryOnePlace
    BY DEF PlacesInv
  <1> QED
    BY PlacesAlways, <1>1, PTL

-----------------------------------------------------------------------------
(* The refinement.                                                         *)

\* insert finds the outermost directories that the record refers to: those the
\* reference finds by looking at all nodes.
LEMMA SearchIsComplete ==
  ASSUME IInv, NEW r \in Record
  PROVE  Finds(r) = Reference!Parents(r)
  <1>0. TypeOK /\ RangesCover /\ FoldersAbove
    BY DEF IInv
  <1>1. \A n \in nodes : /\ RecordOf(n) \in Record /\ Above(n) \subseteq nodes
                        /\ RecordOf(n) = Reference!Rec(n) /\ Above(n) = Reference!Above(n)
    BY <1>0, NodeRecord DEF TypeOK, RecordOf, Above, Reference!Rec, Reference!Above
  <1>2. \A n \in nodes : IsChild(r, RecordOf(n)) <=> Reference!Refers(r, RecordOf(n))
    BY <1>1, ChildRefers
  <1>3. ASSUME NEW n \in nodes, IsChild(r, RecordOf(n)),
               \A a \in Above(n) : ~IsChild(r, RecordOf(a))
        PROVE  Visits(n, r)
    <2>1. \A a \in Above(n) : RecordOf(a).folder
      BY <1>0 DEF FoldersAbove
    <2>2. RecordOf(n).entry = r.parRef
      BY <1>3 DEF IsChild
    <2>3. \A a \in Above(n) \union {n} : IsRoot(a) \/ contains(tree[a], r.parRef)
      BY <1>0, <2>2 DEF RangesCover
    <2> QED
      BY <1>3, <2>1, <2>3 DEF Visits
  <1>4. Finds(r) = {n \in nodes : /\ RecordOf(n).folder /\ IsChild(r, RecordOf(n))
                                 /\ \A a \in Above(n) : ~IsChild(r, RecordOf(a))}
    BY <1>3 DEF Finds, Visits
  <1>5. Reference!Parents(r) = {n \in nodes : /\ RecordOf(n).folder /\ IsChild(r, RecordOf(n))
                                 /\ \A a \in Above(n) : ~IsChild(r, RecordOf(a))}
    BY <1>1, <1>2 DEF Reference!Parents
  <1> QED
    BY <1>4, <1>5

\* Tree.Build implements the search without ranges.
THEOREM BuildImplementsReference == Spec => ImplementsReference
  <1>1. Init => Reference!Init
    BY DEF Init, Reference!Init, nodes
  <1>2. IInv /\ [Next]_vars => [Reference!Add]_(Reference!vars)
    <2> SUFFICES ASSUME IInv, [Next]_vars
                 PROVE  Reference!Add \/ UNCHANGED <<list, pos, nodes>>
      BY DEF Reference!vars
    <2>1. CASE Skip
      BY <2>1 DEF Skip, Reference!Add, Current, nodes
    <2>2. CASE AddRoot
      BY <2>2 DEF AddRoot, Reference!Add, Current, nodes
    <2>3. CASE AddRecord
      <3>1. /\ list' = list /\ pos' = pos + 1 /\ nodes' = nodes \union Children(Current)
            /\ Current \in Record
        BY <2>3, Inserted
      <3>2. Children(Current) = {Append(p, pos) : p \in Reference!Parents(list[pos])}
        BY <3>1, SearchIsComplete DEF Children, Current
      <3> QED
        BY <2>3, <3>1, <3>2 DEF AddRecord, Reference!Add, Current
    <2>4. CASE Built \/ UNCHANGED vars
      BY <2>4 DEF Built, vars, nodes
    <2> QED
      BY <2>1, <2>2, <2>3, <2>4 DEF Next
  <1> QED
    BY <1>1, <1>2, IInvAlways, PTL DEF Spec, ImplementsReference, Reference!Spec
=============================================================================
