---------------------------- MODULE TableProofs ----------------------------
(***************************************************************************)
(* The references of the $MFT table, for every number of entries, every    *)
(* history of the volume and every selection: what the comparison of       *)
(* sequence numbers in GetRecord accepts of a reference.                   *)
(*                                                                         *)
(* That rests on how the driver counts.  MFT.go:66 says that the number is *)
(* incremented "when the entry is either allocated or unallocated,         *)
(* determined by the OS": the theorems hold of a driver that counts        *)
(* allocations, of one that counts deletions and of one that counts both,  *)
(* with as much tolerance as each of them leaves.  In all three cases the  *)
(* number of a record is a function of how many files had the entry and of *)
(* whether the last of them is in use, and a reference was made to a       *)
(* record in use.                                                          *)
(*                                                                         *)
(* The last part is about paths: the directories of a volume form a tree,  *)
(* and the parents in the table form no cycle if the volume changed at     *)
(* most once while it was read.                                            *)
(***************************************************************************)
EXTENDS MFTTable, SequenceLemmas, FiniteSetTheorems, TLAPS

-----------------------------------------------------------------------------
(* Types: they hold whatever the driver counts.                            *)

Typed ==
  /\ TypeOK
  /\ phase \notin {"volume", "collect"} => Len(image) = N
  /\ \A k \in DOMAIN Records : Records[k].LinkedRecordsInfo = <<>>

\* What the volume module assumes of its constants, with the entries as numbers.
LEMMA Numbers ==
  /\ N \in Nat /\ Root \in Entries /\ 0 \in Entries /\ MaxOps \in Nat
  /\ SeqModulus \in Nat /\ MaxOps + 2 < SeqModulus
  /\ Entries \subseteq Nat /\ None \notin Entries /\ NoRef \notin Ref
  <1>1. /\ N \in Nat /\ Root \in 1 .. N - 1 /\ MaxOps \in Nat
        /\ SeqModulus \in Nat /\ MaxOps + 2 < SeqModulus
    BY VolumeAssumption
  <1>2. Root \in Entries /\ 0 \in Entries /\ Entries \subseteq Nat /\ None \notin Entries
    BY <1>1 DEF Entries, None
  <1>3. NoRef \notin Ref
    BY <1>2 DEF NoRef, Ref
  <1> QED
    BY <1>1, <1>2, <1>3

\* The fields of a slot have their types.
LEMMA SlotFields ==
  ASSUME NEW c \in Slot
  PROVE  /\ c.entry \in Entries /\ c.seq \in 0 .. SeqModulus - 1 /\ c.gen \in Nat
         /\ c.used \in BOOLEAN /\ c.folder \in BOOLEAN /\ c.parent \in Ref \union {NoRef}
         /\ c.alist \in Seq(Ref) /\ c.index \in SUBSET Ref
  BY DEF Slot

\* A reference to a record is a reference.
LEMMA RefToType ==
  ASSUME slots \in [Entries -> Slot], NEW d \in Entries
  PROVE  RefTo(d) \in Ref
  <1>1. slots[d] \in Slot
    OBVIOUS
  <1> QED
    BY <1>1, SlotFields DEF RefTo, Ref

\* A sequence number is one after it has been counted.
LEMMA CountedType ==
  ASSUME NEW event, NEW q \in 0 .. SeqModulus - 1
  PROVE  Counted(event, q) \in 0 .. SeqModulus - 1
  BY Numbers DEF Counted

\* What is written into an entry when it is allocated, and the reference to it.
LEMMA AllocatedType ==
  ASSUME slots \in [Entries -> Slot], NEW s \in Entries
  PROVE  /\ Allocated(s) =
              [entry |-> s, seq |-> AllocatedSeq(s), gen |-> slots[s].gen + 1, used |-> TRUE,
               folder |-> FALSE, parent |-> NoRef, alist |-> <<>>, index |-> {}]
         /\ Allocated(s) \in Slot /\ NewRef(s) \in Ref
         /\ NewRef(s) = [entry |-> s, seq |-> AllocatedSeq(s), gen |-> slots[s].gen + 1]
  <1>1. slots[s] \in Slot
    OBVIOUS
  <1>2. AllocatedSeq(s) \in 0 .. SeqModulus - 1
    BY <1>1, SlotFields, CountedType, Numbers DEF AllocatedSeq
  <1>3. Allocated(s) =
          [entry |-> s, seq |-> AllocatedSeq(s), gen |-> slots[s].gen + 1, used |-> TRUE,
           folder |-> FALSE, parent |-> NoRef, alist |-> <<>>, index |-> {}]
    <2>1. PICK n, y, l, i : n = FALSE /\ y = TRUE /\ l = <<>> /\ i = {}
      BY Zenon
    <2>2. PICK r : r = [entry |-> s, seq |-> 0, gen |-> 0, used |-> n, folder |-> n,
                        parent |-> NoRef, alist |-> l, index |-> i]
      OBVIOUS
    <2>3. Unused(s) = r
      BY <2>1, <2>2, Zenon DEF Unused
    <2>4. PICK q, g : q = AllocatedSeq(s) /\ g = slots[s].gen + 1
      BY Zenon
    <2> DEFINE r1 == [r EXCEPT !.seq = q]
               r2 == [r1 EXCEPT !.gen = g]
               r3 == [r2 EXCEPT !.used = y]
    <2>5. r1 = [entry |-> s, seq |-> q, gen |-> 0, used |-> n, folder |-> n,
                parent |-> NoRef, alist |-> l, index |-> i]
      BY <2>2
    <2> HIDE DEF r1
    <2>6. r2 = [entry |-> s, seq |-> q, gen |-> g, used |-> n, folder |-> n,
                parent |-> NoRef, alist |-> l, index |-> i]
      BY <2>5
    <2> HIDE DEF r2
    <2>7. r3 = [entry |-> s, seq |-> q, gen |-> g, used |-> y, folder |-> n,
                parent |-> NoRef, alist |-> l, index |-> i]
      BY <2>6
    <2>8. [r EXCEPT !.seq = q, !.gen = g, !.used = y] = r3
      BY DEF r1, r2
    <2> HIDE DEF r3
    <2>9. Allocated(s) = r3
      BY <2>1, <2>3, <2>4, <2>8, Zenon DEF Allocated
    <2> QED
      BY <2>1, <2>4, <2>7, <2>9, Zenon
  <1>4. slots[s].gen + 1 \in Nat
    BY <1>1, SlotFields
  <1>5. <<>> \in Seq(Ref) /\ {} \in SUBSET Ref
    OBVIOUS
  <1>6. Allocated(s) \in Slot
    BY <1>2, <1>3, <1>4, <1>5 DEF Slot
  <1>7. NewRef(s) = [entry |-> s, seq |-> AllocatedSeq(s), gen |-> slots[s].gen + 1]
    BY <1>3 DEF NewRef
  <1>8. NewRef(s) \in Ref
    BY <1>2, <1>4, <1>7 DEF Ref
  <1> QED
    BY <1>3, <1>6, <1>7, <1>8
-----------------------------------------------------------------------------
(* What the operations of the driver do to the slots.                      *)

\* A slot with another index is a slot, and nothing else of it has changed.
LEMMA IndexReplaced ==
  ASSUME NEW c \in Slot, NEW i \in SUBSET Ref
  PROVE  LET n == [c EXCEPT !.index = i] IN
         /\ n \in Slot /\ n.index = i
         /\ n.entry = c.entry /\ n.seq = c.seq /\ n.gen = c.gen /\ n.used = c.used
         /\ n.folder = c.folder /\ n.parent = c.parent /\ n.alist = c.alist
  BY DEF Slot

\* A slot with another parent is a slot, and nothing else of it has changed.
LEMMA ParentReplaced ==
  ASSUME NEW c \in Slot, NEW p \in Ref
  PROVE  LET n == [c EXCEPT !.parent = p] IN
         /\ n \in Slot /\ n.parent = p
         /\ n.entry = c.entry /\ n.seq = c.seq /\ n.gen = c.gen /\ n.used = c.used
         /\ n.folder = c.folder /\ n.index = c.index /\ n.alist = c.alist
  BY DEF Slot

\* A slot with another attribute list is a slot, and nothing else of it has changed.
LEMMA ListReplaced ==
  ASSUME NEW c \in Slot, NEW l \in Seq(Ref)
  PROVE  LET n == [c EXCEPT !.alist = l] IN
         /\ n \in Slot /\ n.alist = l
         /\ n.entry = c.entry /\ n.seq = c.seq /\ n.gen = c.gen /\ n.used = c.used
         /\ n.folder = c.folder /\ n.index = c.index /\ n.parent = c.parent
  BY DEF Slot

\* The fields of a record that has been allocated.
LEMMA AllocatedFields ==
  ASSUME slots \in [Entries -> Slot], NEW s \in Entries
  PROVE  /\ Allocated(s).entry = s /\ Allocated(s).seq = AllocatedSeq(s)
         /\ Allocated(s).gen = slots[s].gen + 1 /\ Allocated(s).used
         /\ Allocated(s).parent = NoRef /\ Allocated(s).alist = <<>> /\ Allocated(s).index = {}
         /\ NewRef(s).entry = s /\ NewRef(s).seq = AllocatedSeq(s)
         /\ NewRef(s).gen = slots[s].gen + 1
  BY AllocatedType

\* A new file or directory is in its own entry and in the index of its directory.
LEMMA CreateEffect ==
  ASSUME slots \in [Entries -> Slot], NEW s \in Entries, NEW d \in Entries,
         NEW f \in BOOLEAN, Create(s, d, f)
  PROVE  /\ ~slots[s].used /\ slots[d].used /\ slots[d].folder /\ s # d
         /\ slots' \in [Entries -> Slot]
         /\ slots'[s].entry = s /\ slots'[s].seq = AllocatedSeq(s)
         /\ slots'[s].gen = slots[s].gen + 1 /\ slots'[s].used
         /\ slots'[s].parent = RefTo(d) /\ slots'[s].alist = <<>> /\ slots'[s].index = {}
         /\ slots'[d].index = slots[d].index \union {NewRef(s)}
         /\ slots'[d].entry = slots[d].entry /\ slots'[d].seq = slots[d].seq
         /\ slots'[d].gen = slots[d].gen /\ slots'[d].used = slots[d].used
         /\ slots'[d].folder = slots[d].folder /\ slots'[d].parent = slots[d].parent
         /\ slots'[d].alist = slots[d].alist
         /\ \A e \in Entries \ {s, d} : slots'[e] = slots[e]
  <1> DEFINE x == [Allocated(s) EXCEPT !.folder = f, !.parent = RefTo(d)]
             y == [slots[d] EXCEPT !.index = @ \union {NewRef(s)}]
  <1>1. ~slots[s].used /\ slots[d].used /\ slots[d].folder /\ s # d
    BY DEF Create, Free, Directory
  <1>2. slots' = [slots EXCEPT ![s] = x, ![d] = y]
    BY <1>1 DEF Create
  <1>3. RefTo(d) \in Ref /\ Allocated(s) \in Slot /\ NewRef(s) \in Ref /\ slots[d] \in Slot
    BY RefToType, AllocatedType
  <1>4. /\ x \in Slot /\ x.parent = RefTo(d) /\ x.entry = s /\ x.seq = AllocatedSeq(s)
        /\ x.gen = slots[s].gen + 1 /\ x.used /\ x.alist = <<>> /\ x.index = {}
    <2>1. PICK a, p : a = Allocated(s) /\ p = RefTo(d)
      OBVIOUS
    <2>2. PICK n : n = [a EXCEPT !.folder = f, !.parent = p]
      OBVIOUS
    <2>3. /\ n \in Slot /\ n.folder = f /\ n.parent = p
          /\ n.entry = a.entry /\ n.seq = a.seq /\ n.gen = a.gen /\ n.used = a.used
          /\ n.alist = a.alist /\ n.index = a.index
      BY <1>3, <2>1, <2>2 DEF Slot
    <2>4. /\ a.entry = s /\ a.seq = AllocatedSeq(s) /\ a.gen = slots[s].gen + 1 /\ a.used
          /\ a.alist = <<>> /\ a.index = {}
      BY <2>1, AllocatedFields
    <2>5. x = n
      BY <2>1, <2>2
    <2> HIDE DEF x
    <2> QED
      BY <2>1, <2>3, <2>4, <2>5
  <1>5. slots[d].index \union {NewRef(s)} \in SUBSET Ref
    BY <1>3, SlotFields
  <1>6. /\ y \in Slot /\ y.index = slots[d].index \union {NewRef(s)}
        /\ y.entry = slots[d].entry /\ y.seq = slots[d].seq /\ y.gen = slots[d].gen
        /\ y.used = slots[d].used /\ y.folder = slots[d].folder
        /\ y.parent = slots[d].parent /\ y.alist = slots[d].alist
    BY <1>3, <1>5, IndexReplaced
  <1> HIDE DEF x, y
  <1>7. /\ slots'[s] = x /\ slots'[d] = y /\ slots' \in [Entries -> Slot]
        /\ \A e \in Entries \ {s, d} : slots'[e] = slots[e]
    BY <1>1, <1>2, <1>4, <1>6
  <1> QED
    BY <1>1, <1>4, <1>6, <1>7
\* The DATA of b goes on in the new record s.
LEMMA ExtendEffect ==
  ASSUME slots \in [Entries -> Slot], NEW b \in Entries, NEW s \in Entries, Extend(b, s)
  PROVE  /\ ~slots[s].used /\ slots[b].used /\ slots[b].parent # NoRef /\ s # b
         /\ slots' \in [Entries -> Slot]
         /\ slots'[s] = Allocated(s)
         /\ slots'[b].index = slots[b].index
         /\ slots'[b].entry = slots[b].entry /\ slots'[b].seq = slots[b].seq
         /\ slots'[b].gen = slots[b].gen /\ slots'[b].used = slots[b].used
         /\ slots'[b].folder = slots[b].folder /\ slots'[b].parent = slots[b].parent
         /\ slots'[b].alist =
              (IF slots[b].alist = <<>> THEN <<RefTo(b)>> ELSE slots[b].alist) \o <<NewRef(s)>>
         /\ \A e \in Entries \ {s, b} : slots'[e] = slots[e]
  <1> DEFINE l == (IF slots[b].alist = <<>> THEN <<RefTo(b)>> ELSE slots[b].alist) \o <<NewRef(s)>>
             y == [slots[b] EXCEPT !.alist = l]
  <1>1. ~slots[s].used /\ slots[b].used /\ slots[b].parent # NoRef /\ s # b
    BY DEF Extend, Free, InUse
  <1>2. slots' = [slots EXCEPT ![s] = Allocated(s), ![b] = y]
    BY <1>1 DEF Extend
  <1>3. RefTo(b) \in Ref /\ Allocated(s) \in Slot /\ NewRef(s) \in Ref /\ slots[b] \in Slot
    BY RefToType, AllocatedType
  <1>4. l \in Seq(Ref)
    <2>1. slots[b].alist \in Seq(Ref) /\ <<RefTo(b)>> \in Seq(Ref) /\ <<NewRef(s)>> \in Seq(Ref)
      BY <1>3, SlotFields
    <2> QED
      BY <2>1, ConcatProperties
  <1> HIDE DEF l
  <1>5. /\ y \in Slot /\ y.alist = l
        /\ y.entry = slots[b].entry /\ y.seq = slots[b].seq /\ y.gen = slots[b].gen
        /\ y.used = slots[b].used /\ y.folder = slots[b].folder
        /\ y.parent = slots[b].parent /\ y.index = slots[b].index
    BY <1>3, <1>4, ListReplaced
  <1> HIDE DEF y
  <1>6. /\ slots'[s] = Allocated(s) /\ slots'[b] = y /\ slots' \in [Entries -> Slot]
        /\ \A e \in Entries \ {s, b} : slots'[e] = slots[e]
    BY <1>1, <1>2, <1>3, <1>5
  <1> QED
    BY <1>1, <1>5, <1>6 DEF l

\* The records that the attribute list of b names: b itself and extension records.
Parts(b) == {slots[b].alist[k].entry : k \in DOMAIN slots[b].alist}

\* A deleted record and its extension records are free, and no index names it any more.
LEMMA DeleteEffect ==
  ASSUME slots \in [Entries -> Slot], NEW b \in Entries, Delete(b)
  PROVE  /\ slots[b].used /\ slots[b].parent # NoRef
         /\ slots' \in [Entries -> Slot]
         /\ \A s \in Entries :
              /\ slots'[s].entry = slots[s].entry /\ slots'[s].gen = slots[s].gen
              /\ slots'[s].folder = slots[s].folder /\ slots'[s].parent = slots[s].parent
              /\ slots'[s].alist = slots[s].alist /\ slots'[s].index \subseteq slots[s].index
              /\ slots[s].index \ {RefTo(b)} \subseteq slots'[s].index
         /\ \A s \in {b} \union Parts(b) : s \in Entries =>
              ~slots'[s].used /\ slots'[s].seq = Counted("free", slots[s].seq)
         /\ \A s \in Entries \ ({b} \union Parts(b)) :
              slots'[s].used = slots[s].used /\ slots'[s].seq = slots[s].seq
  <1>1. slots[b].used /\ slots[b].parent # NoRef
    BY DEF Delete, InUse
  <1> DEFINE gone == {b} \union Parts(b)
             x(s) == [slots[s] EXCEPT !.used = FALSE, !.seq = Counted("free", @)]
             y(s) == [slots[s] EXCEPT !.index = @ \ {RefTo(b)}]
  <1>2. slots' = [s \in Entries |-> IF s \in gone THEN x(s) ELSE y(s)]
    BY Zenon DEF Delete, Parts
  <1>3. ASSUME NEW s \in Entries
        PROVE  /\ x(s) \in Slot /\ ~x(s).used /\ x(s).seq = Counted("free", slots[s].seq)
               /\ x(s).entry = slots[s].entry /\ x(s).gen = slots[s].gen
               /\ x(s).folder = slots[s].folder /\ x(s).parent = slots[s].parent
               /\ x(s).alist = slots[s].alist /\ x(s).index = slots[s].index
    <2>1. slots[s] \in Slot
      OBVIOUS
    <2>2. PICK c, q : c = slots[s] /\ q = Counted("free", slots[s].seq)
      OBVIOUS
    <2>3. q \in 0 .. SeqModulus - 1 /\ c \in Slot
      BY <2>1, <2>2, SlotFields, CountedType
    <2>4. x(s) = [c EXCEPT !.used = FALSE, !.seq = q]
      BY <2>2
    <2>5. PICK n : n = [c EXCEPT !.used = FALSE, !.seq = q]
      OBVIOUS
    <2>6. /\ n \in Slot /\ n.used = FALSE /\ n.seq = q
          /\ n.entry = c.entry /\ n.gen = c.gen /\ n.alist = c.alist
          /\ n.folder = c.folder /\ n.index = c.index /\ n.parent = c.parent
      BY <2>3, <2>5 DEF Slot
    <2>7. x(s) = n
      BY <2>4, <2>5
    <2> HIDE DEF x
    <2> QED
      BY <2>2, <2>6, <2>7
  <1>4. ASSUME NEW s \in Entries
        PROVE  /\ y(s) \in Slot /\ y(s).index = slots[s].index \ {RefTo(b)}
               /\ y(s).entry = slots[s].entry /\ y(s).gen = slots[s].gen
               /\ y(s).folder = slots[s].folder /\ y(s).parent = slots[s].parent
               /\ y(s).alist = slots[s].alist /\ y(s).used = slots[s].used
               /\ y(s).seq = slots[s].seq
    <2>1. slots[s] \in Slot
      OBVIOUS
    <2>2. slots[s].index \ {RefTo(b)} \in SUBSET Ref
      BY <2>1, SlotFields
    <2> QED
      BY <2>1, <2>2, IndexReplaced
  <1> HIDE DEF x, y, gone
  <1>5. /\ slots' \in [Entries -> Slot]
        /\ \A s \in Entries : slots'[s] = IF s \in gone THEN x(s) ELSE y(s)
    BY <1>2, <1>3, <1>4
  <1> QED
    BY <1>1, <1>3, <1>4, <1>5 DEF gone

\* A file that is moved has another parent, and is in the index of that directory only.
LEMMA MoveEffect ==
  ASSUME slots \in [Entries -> Slot], NEW b \in Entries, NEW d \in Entries, Move(b, d)
  PROVE  /\ slots[b].used /\ slots[b].parent # NoRef /\ slots[d].used /\ slots[d].folder
         /\ slots' \in [Entries -> Slot]
         /\ \A s \in Entries :
              /\ slots'[s].entry = slots[s].entry /\ slots'[s].gen = slots[s].gen
              /\ slots'[s].seq = slots[s].seq /\ slots'[s].used = slots[s].used
              /\ slots'[s].folder = slots[s].folder /\ slots'[s].alist = slots[s].alist
              /\ slots'[s].parent = IF s = b THEN RefTo(d) ELSE slots[s].parent
              /\ slots'[s].index \subseteq
                   slots[s].index \union (IF s = d THEN {RefTo(b)} ELSE {})
              /\ slots[s].index \ {RefTo(b)} \subseteq slots'[s].index
         /\ b # d => RefTo(b) \in slots'[d].index
  <1>1. slots[b].used /\ slots[b].parent # NoRef /\ slots[d].used /\ slots[d].folder
    BY DEF Move, InUse, Directory
  <1> DEFINE x == [slots[b] EXCEPT !.parent = RefTo(d)]
             y == [slots[d] EXCEPT !.index = @ \union {RefTo(b)}]
             z(s) == [slots[s] EXCEPT !.index = @ \ {RefTo(b)}]
  <1>2. slots' = [s \in Entries |-> IF s = b THEN x ELSE IF s = d THEN y ELSE z(s)]
    BY Zenon DEF Move
  <1>3. slots[b] \in Slot /\ slots[d] \in Slot /\ RefTo(d) \in Ref /\ RefTo(b) \in Ref
    BY RefToType
  <1>4. /\ x \in Slot /\ x.parent = RefTo(d) /\ x.entry = slots[b].entry
        /\ x.seq = slots[b].seq /\ x.gen = slots[b].gen /\ x.used = slots[b].used
        /\ x.folder = slots[b].folder /\ x.index = slots[b].index /\ x.alist = slots[b].alist
    BY <1>3, ParentReplaced
  <1>5. /\ y \in Slot /\ y.index = slots[d].index \union {RefTo(b)}
        /\ y.entry = slots[d].entry /\ y.seq = slots[d].seq /\ y.gen = slots[d].gen
        /\ y.used = slots[d].used /\ y.folder = slots[d].folder
        /\ y.parent = slots[d].parent /\ y.alist = slots[d].alist
    <2>1. slots[d].index \union {RefTo(b)} \in SUBSET Ref
      BY <1>3, SlotFields
    <2> QED
      BY <1>3, <2>1, IndexReplaced
  <1>6. ASSUME NEW s \in Entries
        PROVE  /\ z(s) \in Slot /\ z(s).index = slots[s].index \ {RefTo(b)}
               /\ z(s).entry = slots[s].entry /\ z(s).gen = slots[s].gen
               /\ z(s).folder = slots[s].folder /\ z(s).parent = slots[s].parent
               /\ z(s).alist = slots[s].alist /\ z(s).used = slots[s].used
               /\ z(s).seq = slots[s].seq
    <2>1. slots[s] \in Slot
      OBVIOUS
    <2>2. slots[s].index \ {RefTo(b)} \in SUBSET Ref
      BY <2>1, SlotFields
    <2> QED
      BY <2>1, <2>2, IndexReplaced
  <1> HIDE DEF x, y, z
  <1>7. /\ slots' \in [Entries -> Slot]
        /\ \A s \in Entries : slots'[s] = IF s = b THEN x ELSE IF s = d THEN y ELSE z(s)
    BY <1>2, <1>4, <1>5, <1>6
  <1>8. ASSUME NEW s \in Entries
        PROVE  /\ slots'[s].entry = slots[s].entry /\ slots'[s].gen = slots[s].gen
               /\ slots'[s].seq = slots[s].seq /\ slots'[s].used = slots[s].used
               /\ slots'[s].folder = slots[s].folder /\ slots'[s].alist = slots[s].alist
               /\ slots'[s].parent = IF s = b THEN RefTo(d) ELSE slots[s].parent
               /\ slots'[s].index \subseteq
                    slots[s].index \union (IF s = d THEN {RefTo(b)} ELSE {})
               /\ slots[s].index \ {RefTo(b)} \subseteq slots'[s].index
    <2>1. CASE s = b
      BY <1>4, <1>7, <2>1
    <2>2. CASE s # b /\ s = d
      BY <1>5, <1>7, <2>2
    <2>3. CASE s # b /\ s # d
      BY <1>6, <1>7, <2>3
    <2> QED
      BY <2>1, <2>2, <2>3
  <1>9. b # d => RefTo(b) \in slots'[d].index
    BY <1>5, <1>7
  <1> QED
    BY <1>1, <1>7, <1>8, <1>9
\* Every operation leaves slots.
LEMMA OperationTyped ==
  ASSUME slots \in [Entries -> Slot], ops \in 0 .. MaxOps, Operation
  PROVE  slots' \in [Entries -> Slot] /\ ops' = ops + 1 /\ ops' \in 0 .. MaxOps
  <1>1. ops' = ops + 1 /\ ops' \in 0 .. MaxOps
    BY Numbers DEF Operation
  <1>2. PICK s \in Entries, t \in Entries :
          \/ Create(s, t, TRUE) \/ Create(s, t, FALSE) \/ Extend(t, s) \/ Delete(s) \/ Move(s, t)
    BY DEF Operation
  <1>3. CASE Create(s, t, TRUE)
    BY <1>1, <1>2, <1>3, CreateEffect
  <1>4. CASE Create(s, t, FALSE)
    BY <1>1, <1>2, <1>4, CreateEffect
  <1>5. CASE Extend(t, s)
    BY <1>1, <1>2, <1>5, ExtendEffect
  <1>6. CASE Delete(s)
    BY <1>1, <1>2, <1>6, DeleteEffect
  <1>7. CASE Move(s, t)
    BY <1>1, <1>2, <1>7, MoveEffect
  <1> QED
    BY <1>1, <1>2, <1>3, <1>4, <1>5, <1>6, <1>7

-----------------------------------------------------------------------------
(* What ProcessMFT and the calls after it make of the slots.               *)

\* A record in memory has the fields of the record on the disk, and none of the pointers.
LEMMA InMemoryType ==
  ASSUME NEW c \in Slot, NEW i \in SUBSET Ref
  PROVE  /\ InMemory(c, i) \in MemRecord
         /\ InMemory(c, i).entry = c.entry /\ InMemory(c, i).seq = c.seq
         /\ InMemory(c, i).gen = c.gen /\ InMemory(c, i).used = c.used
         /\ InMemory(c, i).folder = c.folder /\ InMemory(c, i).parent = c.parent
         /\ InMemory(c, i).index = i /\ InMemory(c, i).LinkedRecordsInfo = <<>>
         /\ InMemory(c, i).Parent = None
  <1>1. <<>> \in Seq(Ref) /\ <<>> \in Seq(Entries) /\ 0 \in Nat
    OBVIOUS
  <1>2. /\ c.entry \in Entries /\ c.seq \in 0 .. SeqModulus - 1 /\ c.gen \in Nat
        /\ c.used \in BOOLEAN /\ c.folder \in BOOLEAN /\ c.parent \in Ref \union {NoRef}
    BY SlotFields
  <1> QED
    BY <1>1, <1>2 DEF InMemory, MemRecord

\* An unused slot is a slot.
LEMMA UnusedType ==
  ASSUME NEW e \in Entries
  PROVE  Unused(e) \in Slot
  <1>1. <<>> \in Seq(Ref) /\ {} \in SUBSET Ref /\ 0 \in 0 .. SeqModulus - 1
    BY Numbers
  <1> QED
    BY <1>1 DEF Unused, Slot

\* The zero value of Record.
LEMMA ZeroType ==
  /\ Zero \in MemRecord /\ Zero.gen = 0 /\ Zero.seq = 0 /\ ~Zero.used
  /\ Zero.parent = NoRef /\ Zero.index = {} /\ Zero.LinkedRecordsInfo = <<>>
  /\ Zero.Parent = None
  <1>1. Unused(0) \in Slot
    BY UnusedType, Numbers
  <1>2. {} \in SUBSET Ref
    OBVIOUS
  <1>3. /\ Zero \in MemRecord /\ Zero.gen = Unused(0).gen /\ Zero.seq = Unused(0).seq
        /\ Zero.used = Unused(0).used /\ Zero.parent = Unused(0).parent
        /\ Zero.index = {} /\ Zero.LinkedRecordsInfo = <<>> /\ Zero.Parent = None
    BY <1>1, <1>2, InMemoryType DEF Zero
  <1>4. /\ Unused(0).gen = 0 /\ Unused(0).seq = 0 /\ ~Unused(0).used
        /\ Unused(0).parent = NoRef
    BY DEF Unused
  <1> QED
    BY <1>3, <1>4

\* A call has a selection.
LEMMA SelType ==
  ASSUME call \in Calls
  PROVE  /\ sel.entries \in Seq(Nat) /\ Len(sel.entries) \in Nat
         /\ DOMAIN sel.entries = 1 .. Len(sel.entries)
         /\ sel.from \in Int /\ sel.to \in Nat /\ call.ops \in 0 .. MaxOps
  <1>1. call \in Call
    BY TableAssumption
  <1>2. sel \in Selection /\ call.ops \in 0 .. MaxOps
    BY <1>1 DEF Call, sel
  <1>3. sel.entries \in Seq(Nat) /\ sel.from \in Int /\ sel.to \in Nat
    BY <1>2 DEF Selection, NoFrom
  <1>4. Len(sel.entries) \in Nat /\ DOMAIN sel.entries = 1 .. Len(sel.entries)
    BY <1>3
  <1> QED
    BY <1>2, <1>3, <1>4

\* ProcessMFT copies at most every entry, or every number of the list of -entries, and
\* without a selection every entry.
LEMMA CopiesType ==
  ASSUME call \in Calls
  PROVE  /\ Copies \in 0 .. N + Len(sel.entries)
         /\ sel = NoSelection => Copies = N
  <1>1. IsFiniteSet(Entries) /\ Cardinality(Entries) = N
    BY Numbers, FS_Interval DEF Entries
  <1>2. Chosen \subseteq Entries
    BY DEF Chosen
  <1>3. Cardinality(Chosen) \in Nat /\ Cardinality(Chosen) <= N
    BY <1>1, <1>2, FS_Subset, FS_CardinalityType
  <1> DEFINE J == {j \in DOMAIN sel.entries : sel.entries[j] \in Chosen}
  <1>4. Cardinality(J) \in Nat /\ Cardinality(J) <= Len(sel.entries)
    <2>1. J \subseteq 1 .. Len(sel.entries) /\ Len(sel.entries) \in Nat
      BY SelType
    <2>2. /\ IsFiniteSet(1 .. Len(sel.entries))
          /\ Cardinality(1 .. Len(sel.entries)) = Len(sel.entries)
      BY <2>1, FS_Interval
    <2> QED
      BY <2>1, <2>2, FS_Subset, FS_CardinalityType
  <1>5. sel = NoSelection => Copies = N
    <2> SUFFICES ASSUME sel = NoSelection PROVE Copies = N
      OBVIOUS
    <2>1. Chosen = Entries
      BY Numbers DEF Chosen, NoSelection, NoFrom, NoLimit, Entries
    <2> QED
      BY <1>1, <2>1 DEF Copies, NoSelection
  <1>6. Copies \in 0 .. N + Len(sel.entries)
    BY <1>3, <1>4, SelType, Numbers DEF Copies
  <1> QED
    BY <1>5, <1>6

\* An attribute list that is empty in memory links nothing.
LEMMA NothingLinked ==
  ASSUME \A k \in DOMAIN Records : Records[k].LinkedRecordsInfo = <<>>
  PROVE  \A k \in DOMAIN Records : Linked(k) = <<>> /\ OriginOf(k) = None
  <1>1. ASSUME NEW k \in DOMAIN Records
        PROVE  Linked(k) = <<>>
    <2> DEFINE info == Records[k].LinkedRecordsInfo
               each == [j \in DOMAIN info |->
                          IF OtherPart(k, info[j]) THEN <<info[j].entry>> ELSE <<>>]
    <2>1. DOMAIN info = {}
      OBVIOUS
    <2> HIDE DEF info
    <2>2. each = <<>>
      BY <2>1
    <2>3. Linked(k) = FlattenSeq(each)
      BY DEF Linked, info
    <2> HIDE DEF each
    <2> QED
      BY <2>2, <2>3, FlattenEmpty
  <1>2. ASSUME NEW k \in DOMAIN Records
        PROVE  OriginOf(k) = None
    <2>1. {b \in DOMAIN Records : \E j \in DOMAIN Linked(b) : Linked(b)[j] = k} = {}
      BY <1>1
    <2> QED
      BY <2>1 DEF OriginOf
  <1> QED
    BY <1>1, <1>2
\* A set of entries that is not empty has a last one.
LEMMA LastEntry ==
  ASSUME NEW n \in Nat, NEW T \in SUBSET (0 .. n - 1), T # {}
  PROVE  \E m \in T : \A c \in T : c <= m
  <1> DEFINE U == {n - 1 - t : t \in T}
  <1>1. U \in SUBSET Nat /\ U # {}
    OBVIOUS
  <1>2. PICK l \in U : \A u \in U : l <= u
    BY <1>1, LeastNatural
  <1>3. PICK m \in T : l = n - 1 - m
    BY <1>2
  <1>4. ASSUME NEW c \in T PROVE c <= m
    <2>1. n - 1 - c \in U
      OBVIOUS
    <2>2. n - 1 - m <= n - 1 - c
      BY <1>2, <1>3, <2>1
    <2>3. c \in Int /\ m \in Int
      OBVIOUS
    <2> QED
      BY <2>2, <2>3
  <1> QED
    BY <1>4

\* The size of a record is that of an index entry for it, and zero only if there is none.
LEMMA SizeOfEntry ==
  ASSUME NEW n \in Nat, DOMAIN Records = 0 .. n - 1, NEW k \in DOMAIN Records
  PROVE  \/ /\ SizeOf(k) = 0
            /\ Records[k].folder \/ \A d \in DOMAIN Records : SizeEntries(k, d) = {}
         \/ \E d \in DOMAIN Records : \E r \in SizeEntries(k, d) : SizeOf(k) = r.gen
  <1> DEFINE dirs == {d \in DOMAIN Records : SizeEntries(k, d) # {}}
             last == CHOOSE d \in dirs : \A c \in dirs : c <= d
             one == CHOOSE r \in SizeEntries(k, last) : TRUE
  <1>1. CASE Records[k].folder \/ dirs = {}
    BY <1>1 DEF SizeOf
  <1>2. CASE ~(Records[k].folder \/ dirs = {})
    <2>1. SizeOf(k) = one.gen
      BY <1>2 DEF SizeOf
    <2>2. dirs \in SUBSET (0 .. n - 1) /\ dirs # {}
      BY <1>2
    <2>3. \E m \in dirs : \A c \in dirs : c <= m
      BY <2>2, LastEntry
    <2> HIDE DEF dirs
    <2>4. last \in dirs
      BY <2>3
    <2>5. last \in DOMAIN Records /\ SizeEntries(k, last) # {}
      BY <2>4 DEF dirs
    <2> HIDE DEF last
    <2>6. one \in SizeEntries(k, last)
      BY <2>5
    <2> HIDE DEF one
    <2> QED
      BY <2>1, <2>5, <2>6
  <1> QED
    BY <1>1, <1>2

\* The size of a record is a number.
LEMMA SizeOfType ==
  ASSUME NEW n \in Nat, Records \in [0 .. n - 1 -> MemRecord], NEW k \in DOMAIN Records
  PROVE  SizeOf(k) \in Nat
  <1>1. ASSUME NEW d \in DOMAIN Records, NEW r \in SizeEntries(k, d)
        PROVE  r.gen \in Nat
    <2>1. Records[d].index \in SUBSET Ref
      BY DEF MemRecord
    <2>2. r \in Ref
      BY <2>1 DEF SizeEntries
    <2> QED
      BY <2>2 DEF Ref
  <1>2. DOMAIN Records = 0 .. n - 1
    OBVIOUS
  <1> QED
    BY <1>1, <1>2, SizeOfEntry

-----------------------------------------------------------------------------
(* Every step keeps the types.                                             *)

\* The table that ProcessMFT makes.
LEMMA ProcessMFTTyped ==
  ASSUME Typed, ProcessMFT
  PROVE  Typed'
  <1>1. /\ slots \in [Entries -> Slot] /\ ops \in 0 .. MaxOps /\ call \in Calls
        /\ since \in 0 .. ops /\ image \in Seq([content: Slot, bad: BOOLEAN])
        /\ Len(image) = N /\ UNCHANGED <<slots, ops, call, since, image>>
        /\ \E n \in 0 .. N + Len(sel.entries) : Records \in [0 .. n - 1 -> MemRecord]
        /\ \A k \in DOMAIN Records : Records[k].LinkedRecordsInfo = <<>>
    BY DEF Typed, TypeOK, ProcessMFT
  <1>2. Len(image') = N /\ sel' = sel
    BY <1>1 DEF sel
  <1>3. CASE Records' = Records /\ phase' = "panic"
    BY <1>1, <1>2, <1>3, Numbers DEF Typed, TypeOK
  <1>4. CASE ~(Records' = Records /\ phase' = "panic")
    <2> DEFINE kept(e) == e \in Chosen /\ Readable(e)
               index(e) == IF call.large THEN {} ELSE image[e + 1].content.index
               entry(e) == IF kept(e) THEN InMemory(image[e + 1].content, index(e)) ELSE Zero
    <2>1. phase' = "nonresident" /\ Records' = [e \in 0 .. Copies - 1 |-> entry(e)]
      BY <1>4, Zenon DEF ProcessMFT
    <2>2. Copies \in 0 .. N + Len(sel.entries)
      BY <1>1, CopiesType
    <2>3. ASSUME NEW e \in 0 .. Copies - 1
          PROVE  entry(e) \in MemRecord /\ entry(e).LinkedRecordsInfo = <<>>
      <3>1. CASE kept(e)
        <4>1. e + 1 \in 1 .. Len(image)
          BY <1>1, <3>1, Numbers DEF Chosen, Entries
        <4>2. image[e + 1].content \in Slot
          <5>1. image[e + 1] \in [content: Slot, bad: BOOLEAN]
            BY <1>1, <4>1, ElementOfSeq
          <5> QED
            BY <5>1
        <4>3. index(e) \in SUBSET Ref
          BY <4>2, SlotFields
        <4> HIDE DEF index
        <4>4. entry(e) = InMemory(image[e + 1].content, index(e))
          BY <3>1
        <4> HIDE DEF entry
        <4> QED
          BY <4>2, <4>3, <4>4, InMemoryType
      <3>2. CASE ~kept(e)
        <4>1. entry(e) = Zero
          BY <3>2
        <4> HIDE DEF entry
        <4> QED
          BY <4>1, ZeroType
      <3> QED
        BY <3>1, <3>2
    <2> HIDE DEF entry
    <2>4. /\ Records' \in [0 .. Copies - 1 -> MemRecord]
          /\ \A k \in DOMAIN Records' : Records'[k].LinkedRecordsInfo = <<>>
      BY <2>1, <2>3
    <2>5. \E n \in 0 .. N + Len(sel'.entries) : Records' \in [0 .. n - 1 -> MemRecord]
      BY <1>2, <2>2, <2>4
    <2> QED
      BY <1>1, <1>2, <2>1, <2>4, <2>5, Numbers DEF Typed, TypeOK
  <1> QED
    BY <1>3, <1>4
\* The steps that only change the records in the table keep the types.
LEMMA TableStepTyped ==
  ASSUME Typed, CreateLinkedRecords \/ FindParentRecords \/ CalculateFileSizes
  PROVE  Typed'
  <1>1. /\ slots \in [Entries -> Slot] /\ ops \in 0 .. MaxOps /\ call \in Calls
        /\ since \in 0 .. ops /\ image \in Seq([content: Slot, bad: BOOLEAN])
        /\ Len(image) = N /\ UNCHANGED <<slots, ops, call, since, image>>
        /\ phase' \in {"parents", "sizes", "done"}
        /\ \A k \in DOMAIN Records : Records[k].LinkedRecordsInfo = <<>>
    BY DEF Typed, TypeOK, CreateLinkedRecords, FindParentRecords, CalculateFileSizes
  <1>2. PICK n \in 0 .. N + Len(sel.entries) : Records \in [0 .. n - 1 -> MemRecord]
    BY DEF Typed, TypeOK
  <1>3. n \in Nat /\ DOMAIN Records = 0 .. n - 1
    BY <1>1, <1>2, SelType, Numbers
  <1>4. \A k \in DOMAIN Records : Records[k] \in MemRecord
    BY <1>2
  <1>5. CASE CreateLinkedRecords
    <2>1. Records' = [k \in DOMAIN Records |->
            [Records[k] EXCEPT !.LinkedRecords = Linked(k), !.OriginLinkedRecord = OriginOf(k)]]
      BY <1>5 DEF CreateLinkedRecords
    <2>2. \A k \in DOMAIN Records : Linked(k) = <<>> /\ OriginOf(k) = None
      BY <1>1, NothingLinked
    <2>3. ASSUME NEW k \in DOMAIN Records
          PROVE  Records'[k] \in MemRecord /\ Records'[k].LinkedRecordsInfo = <<>>
      <3>1. PICK c : c = Records[k]
        OBVIOUS
      <3>2. Records'[k] = [c EXCEPT !.LinkedRecords = <<>>, !.OriginLinkedRecord = None]
        BY <2>1, <2>2, <3>1
      <3>3. c \in MemRecord /\ c.LinkedRecordsInfo = <<>> /\ <<>> \in Seq(Entries)
        BY <1>1, <1>4, <3>1
      <3> QED
        BY <3>2, <3>3 DEF MemRecord
    <2>4. Records' \in [0 .. n - 1 -> MemRecord]
      BY <1>3, <2>1, <2>3
    <2> QED
      BY <1>1, <1>2, <1>3, <2>1, <2>3, <2>4 DEF Typed, TypeOK, sel
  <1>6. CASE FindParentRecords
    <2>1. Records' = [k \in DOMAIN Records |->
            IF Records[k].parent # NoRef /\ HasRecord(Records[k].parent)
            THEN [Records[k] EXCEPT !.Parent = Records[k].parent.entry]
            ELSE Records[k]]
      BY <1>6 DEF FindParentRecords
    <2>2. ASSUME NEW k \in DOMAIN Records
          PROVE  Records'[k] \in MemRecord /\ Records'[k].LinkedRecordsInfo = <<>>
      <3>1. PICK c : c = Records[k]
        OBVIOUS
      <3>2. c \in MemRecord /\ c.LinkedRecordsInfo = <<>>
        BY <1>1, <1>4, <3>1
      <3>3. CASE c.parent # NoRef /\ HasRecord(c.parent)
        <4>1. Records'[k] = [c EXCEPT !.Parent = c.parent.entry]
          BY <2>1, <3>1, <3>3
        <4>2. c.parent.entry \in Entries
          BY <3>2, <3>3 DEF MemRecord, Ref
        <4> QED
          BY <3>2, <4>1, <4>2 DEF MemRecord
      <3>4. CASE ~(c.parent # NoRef /\ HasRecord(c.parent))
        <4>1. Records'[k] = c
          BY <2>1, <3>1, <3>4
        <4> QED
          BY <3>2, <4>1
      <3> QED
        BY <3>3, <3>4
    <2>3. Records' \in [0 .. n - 1 -> MemRecord]
      BY <1>3, <2>1, <2>2
    <2> QED
      BY <1>1, <1>2, <1>3, <2>1, <2>2, <2>3 DEF Typed, TypeOK, sel
  <1>7. CASE CalculateFileSizes
    <2>1. Records' = [k \in DOMAIN Records |-> [Records[k] EXCEPT !.I30Size = SizeOf(k)]]
      BY <1>7 DEF CalculateFileSizes
    <2>2. ASSUME NEW k \in DOMAIN Records
          PROVE  Records'[k] \in MemRecord /\ Records'[k].LinkedRecordsInfo = <<>>
      <3>1. PICK c, s : c = Records[k] /\ s = SizeOf(k)
        OBVIOUS
      <3>2. c \in MemRecord /\ c.LinkedRecordsInfo = <<>> /\ s \in Nat
        BY <1>1, <1>2, <1>3, <1>4, <3>1, SizeOfType
      <3>3. Records'[k] = [c EXCEPT !.I30Size = s]
        BY <2>1, <3>1
      <3> QED
        BY <3>2, <3>3 DEF MemRecord
    <2>3. Records' \in [0 .. n - 1 -> MemRecord]
      BY <1>3, <2>1, <2>2
    <2> QED
      BY <1>1, <1>2, <1>3, <2>1, <2>2, <2>3 DEF Typed, TypeOK, sel
  <1> QED
    BY <1>5, <1>6, <1>7

\* Before ProcessMFT there is no table; reading the disk piece by piece keeps the types.
LEMMA CollectTyped ==
  ASSUME Typed, CollectMFTArea
  PROVE  Typed'
  <1>1. /\ slots \in [Entries -> Slot] /\ image \in Seq([content: Slot, bad: BOOLEAN])
        /\ Len(image) <= N /\ Len(image) \in Nat
        /\ UNCHANGED <<slots, ops, call, since, Records>>
    BY DEF Typed, TypeOK, CollectMFTArea
  <1>2. CASE Len(image) < N
    <2>1. PICK bad \in BOOLEAN :
            image' = Append(image, [content |-> slots[Len(image)], bad |-> bad])
      BY <1>2 DEF CollectMFTArea, Collected
    <2>2. Len(image) \in Entries
      BY <1>1, <1>2, Numbers DEF Entries
    <2>3. slots[Len(image)] \in Slot
      BY <1>1, <2>2
    <2>4. PICK x : x = [content |-> slots[Len(image)], bad |-> bad]
      OBVIOUS
    <2>5. x \in [content: Slot, bad: BOOLEAN] /\ image' = Append(image, x)
      BY <2>1, <2>3, <2>4
    <2>6. image' \in Seq([content: Slot, bad: BOOLEAN]) /\ Len(image') = Len(image) + 1
      BY <1>1, <2>5
    <2>7. phase' = phase /\ phase = "collect"
      BY <1>2 DEF CollectMFTArea
    <2> QED
      BY <1>1, <1>2, <2>6, <2>7, Numbers DEF Typed, TypeOK, sel
  <1>3. CASE ~(Len(image) < N)
    <2>1. phase' = "select" /\ image' = image /\ Len(image) = N
      BY <1>1, <1>3, Numbers DEF CollectMFTArea
    <2> QED
      BY <1>1, <2>1, Numbers DEF Typed, TypeOK, sel
  <1> QED
    BY <1>2, <1>3

\* Every step keeps the types.
LEMMA TypedStep ==
  ASSUME Typed, [Next]_vars
  PROVE  Typed'
  <1>1. CASE UseVolume
    <2>1. /\ slots' \in [Entries -> Slot] /\ ops' = ops + 1 /\ ops' \in 0 .. MaxOps
      BY <1>1, OperationTyped DEF Typed, TypeOK, UseVolume
    <2>2. /\ UNCHANGED <<call, phase, image, Records>> /\ since' \in {since, since + 1}
      BY <1>1 DEF UseVolume
    <2>3. since' \in 0 .. ops'
      <3>1. since \in 0 .. ops /\ ops \in Nat
        BY Numbers DEF Typed, TypeOK
      <3> QED
        BY <2>1, <2>2, <3>1
    <2> QED
      BY <2>1, <2>2, <2>3 DEF Typed, TypeOK, sel
  <1>2. CASE Start
    BY <1>2 DEF Start, Typed, TypeOK, sel
  <1>3. CASE ProcessNonResidentRecords
    <2>1. UNCHANGED <<slots, ops, call, since, image, Records>> /\ phase' \in {"link", "done"}
          /\ phase = "nonresident"
      BY <1>3 DEF ProcessNonResidentRecords
    <2> QED
      BY <2>1 DEF Typed, TypeOK, sel
  <1>4. CASE UNCHANGED vars
    BY <1>4 DEF vars, Typed, TypeOK, sel
  <1> QED
    BY <1>1, <1>2, <1>3, <1>4, CollectTyped, ProcessMFTTyped, TableStepTyped DEF Next, Ended

\* Nothing has been read in the beginning, and the volume has its metadata files.
LEMMA InitTyped == Init => Typed
  <1> SUFFICES ASSUME Init PROVE Typed
    OBVIOUS
  <1>1. slots \in [Entries -> Slot] /\ ops = 0
    <2> DEFINE root == [entry |-> Root, seq |-> 1, gen |-> 1]
               System(e) == [Unused(e) EXCEPT !.seq = 1, !.gen = 1, !.used = TRUE, !.parent = root]
               x(e) == IF e = 0 THEN System(0)
                       ELSE IF e = Root THEN [System(Root) EXCEPT !.folder = TRUE]
                       ELSE Unused(e)
    <2>1. slots = [e \in Entries |-> x(e)] /\ ops = 0
      BY DEF Init, VolumeInit
    <2>2. root \in Ref
      BY Numbers DEF Ref
    <2>3. ASSUME NEW e \in Entries PROVE x(e) \in Slot
      <3>1. PICK c : c = Unused(e)
        OBVIOUS
      <3>2. c \in Slot
        BY <3>1, UnusedType
      <3>3. [c EXCEPT !.seq = 1, !.gen = 1, !.used = TRUE, !.parent = root] \in Slot
        <4>1. PICK p : p = root
          OBVIOUS
        <4>2. p \in Ref /\ 1 \in 0 .. SeqModulus - 1
          BY <2>2, <4>1, Numbers
        <4> HIDE DEF root
        <4>3. [c EXCEPT !.seq = 1, !.gen = 1, !.used = TRUE, !.parent = p] \in Slot
          BY <3>2, <4>2 DEF Slot
        <4> QED
          BY <4>1, <4>3
      <3>4. PICK y : y = [c EXCEPT !.seq = 1, !.gen = 1, !.used = TRUE, !.parent = root]
        OBVIOUS
      <3>5. y \in Slot /\ [y EXCEPT !.folder = TRUE] \in Slot
        BY <3>3, <3>4 DEF Slot
      <3>6. x(e) \in {c, y, [y EXCEPT !.folder = TRUE]}
        BY <3>1, <3>4
      <3> HIDE DEF x
      <3> QED
        BY <3>2, <3>5, <3>6
    <2> HIDE DEF x
    <2> QED
      BY <2>1, <2>3
  <1>2. call \in Calls /\ phase = "volume" /\ since = 0 /\ image = <<>> /\ Records = <<>>
    BY DEF Init
  <1>3. image \in Seq([content: Slot, bad: BOOLEAN]) /\ Len(image) = 0 /\ Len(image) <= N
    BY <1>2, Numbers
  <1>4. /\ 0 \in 0 .. N + Len(sel.entries) /\ DOMAIN Records = {}
        /\ Records \in [0 .. 0 - 1 -> MemRecord]
    BY <1>2, SelType, Numbers
  <1>5. ops \in 0 .. MaxOps /\ since \in 0 .. ops
    BY <1>1, <1>2, Numbers
  <1> QED
    BY <1>1, <1>2, <1>3, <1>4, <1>5 DEF Typed, TypeOK

\* The types hold of every reachable state, whatever the driver counts.
THEOREM TypeCorrect == Spec => []TypeOK
  <1>1. Typed /\ [Next]_vars => Typed'
    BY TypedStep
  <1>2. Typed => TypeOK
    BY DEF Typed
  <1> QED
    BY InitTyped, <1>1, <1>2, PTL DEF Spec
-----------------------------------------------------------------------------
(* Sequence numbers, whatever the driver counts.                           *)

OnAlloc == IF "alloc" \in CountedOn THEN 1 ELSE 0
OnFree == IF "free" \in CountedOn THEN 1 ELSE 0

\* The sequence number of an entry that gen files have had, the last of them in use or not.
FileSeq(gen, used) ==
  IF gen = 0 THEN 0
  ELSE (IF OnAlloc = 1 /\ OnFree = 1 THEN 2 * gen - 1 ELSE gen) + (IF used THEN 0 ELSE OnFree)

RefSound(r, n) == r.gen # 0 /\ r.seq = FileSeq(r.gen, TRUE) /\ r.seq <= n

RecSound(c, n) ==
  /\ c.seq = FileSeq(c.gen, c.used) /\ c.seq <= n
  /\ c.used => c.gen # 0
  /\ c.parent # NoRef => RefSound(c.parent, n)
  /\ \A r \in c.index : RefSound(r, n)
  /\ c.index # {} => c.folder

VolumeSound == \A e \in Entries : slots[e].entry = e /\ RecSound(slots[e], ops + 1)

\* An attribute list names its own record and extension records, which have no name and
\* belong to no other file.
PartsApart ==
  \A b \in Entries : slots[b].used =>
    \A x \in Parts(b) :
      /\ slots[x].used /\ (x = b \/ slots[x].parent = NoRef)
      /\ \A c \in Entries \ {b} : slots[c].used => x \notin Parts(c)

\* The parts of a file are entries.
LEMMA PartsType ==
  ASSUME slots \in [Entries -> Slot], NEW b \in Entries
  PROVE  Parts(b) \subseteq Entries
  <1>1. slots[b].alist \in Seq(Ref)
    BY SlotFields
  <1>2. \A k \in DOMAIN slots[b].alist : slots[b].alist[k] \in Ref
    BY <1>1, ElementOfSeq, LenProperties
  <1> QED
    BY <1>2 DEF Parts, Ref

\* A reference that is made to a record in use has its number.
LEMMA RefToSound ==
  ASSUME slots \in [Entries -> Slot], VolumeSound, NEW d \in Entries, slots[d].used
  PROVE  RefSound(RefTo(d), ops + 1)
  BY DEF VolumeSound, RecSound, RefSound, RefTo

\* The three drivers that MFT.go:66 allows for.
LEMMA Drivers ==
  /\ \/ OnAlloc = 1 /\ OnFree = 1 /\ Tolerated = {0}
     \/ OnAlloc = 1 /\ OnFree = 0 /\ Tolerated = {0, 1}
     \/ OnAlloc = 0 /\ OnFree = 1 /\ Tolerated = -1 .. 1
  /\ \A q : /\ Counted("alloc", q) = IF OnAlloc = 1 THEN (q + 1) % SeqModulus ELSE q
           /\ Counted("free", q) = IF OnFree = 1 THEN (q + 1) % SeqModulus ELSE q
  <1>1. CASE CountedOn = {"alloc"}
    BY <1>1 DEF OnAlloc, OnFree, Tolerated, Counted
  <1>2. CASE CountedOn = {"free"}
    BY <1>2 DEF OnAlloc, OnFree, Tolerated, Counted
  <1>3. CASE CountedOn = {"alloc", "free"}
    BY <1>3 DEF OnAlloc, OnFree, Tolerated, Counted
  <1> QED
    BY <1>1, <1>2, <1>3, VolumeAssumption

\* Counting wraps around at the modulus only.
LEMMA CountedUp ==
  ASSUME NEW q \in Nat, q + 1 < SeqModulus
  PROVE  Counted("alloc", q) = q + OnAlloc /\ Counted("free", q) = q + OnFree
  <1>1. (q + 1) % SeqModulus = q + 1
    BY Numbers
  <1>2. PICK m : m = (q + 1) % SeqModulus
    OBVIOUS
  <1>3. /\ Counted("alloc", q) = IF OnAlloc = 1 THEN m ELSE q
        /\ Counted("free", q) = IF OnFree = 1 THEN m ELSE q
    BY <1>2, Drivers
  <1>4. m = q + 1
    BY <1>1, <1>2
  <1> QED
    BY <1>3, <1>4, Drivers

\* The number is a number, and it changes with the file and its use as the driver counts.
LEMMA FileSeqs ==
  ASSUME NEW g \in Nat
  PROVE  /\ FileSeq(g, TRUE) \in Nat /\ FileSeq(g, FALSE) \in Nat
         /\ FileSeq(0, FALSE) = 0 /\ FileSeq(1, TRUE) = 1
         /\ g # 0 => FileSeq(g, FALSE) = FileSeq(g, TRUE) + OnFree
         /\ g # 0 => FileSeq(g + 1, TRUE) = FileSeq(g, FALSE) + OnAlloc
  BY Drivers DEF FileSeq

\* An entry that is allocated gets the number of the next file in it.
LEMMA AllocatedSound ==
  ASSUME slots \in [Entries -> Slot], VolumeSound, ops \in 0 .. MaxOps, ops < MaxOps,
         NEW s \in Entries, ~slots[s].used
  PROVE  /\ AllocatedSeq(s) = FileSeq(slots[s].gen + 1, TRUE) /\ AllocatedSeq(s) <= ops + 2
         /\ slots[s].gen + 1 # 0 /\ RefSound(NewRef(s), ops + 2)
  <1>1. PICK q, g : q = slots[s].seq /\ g = slots[s].gen
    OBVIOUS
  <1>2. q \in Nat /\ g \in Nat /\ q = FileSeq(g, FALSE) /\ q <= ops + 1
    <2>1. slots[s] \in Slot /\ slots[s].used = FALSE
      BY SlotFields
    <2>2. slots[s].seq \in Nat /\ slots[s].gen \in Nat
      BY <2>1, SlotFields, Numbers
    <2>3. slots[s].seq = FileSeq(slots[s].gen, slots[s].used) /\ slots[s].seq <= ops + 1
      BY DEF VolumeSound, RecSound
    <2> QED
      BY <1>1, <2>1, <2>2, <2>3
  <1>3. ops \in Nat /\ q \in Nat /\ q <= ops + 1 /\ q + 1 < SeqModulus
    <2>1. q \in Nat /\ q <= ops + 1
      BY <1>2
    <2> QED
      BY <2>1, Numbers
  <1>4. PICK a : a = OnAlloc
    OBVIOUS
  <1>5. Counted("alloc", q) = q + a /\ a \in {0, 1}
    BY <1>2, <1>3, <1>4, CountedUp, Drivers
  <1>6. AllocatedSeq(s) = IF g = 0 THEN 1 ELSE q + a
    BY <1>1, <1>5 DEF AllocatedSeq
  <1>7. FileSeq(g + 1, TRUE) = IF g = 0 THEN 1 ELSE q + a
    <2>1. CASE g = 0
      <3>1. g + 1 = 1
        BY <2>1
      <3> QED
        BY <1>2, <2>1, <3>1, FileSeqs
    <2>2. CASE g # 0
      BY <1>2, <1>4, <2>2, FileSeqs
    <2> QED
      BY <2>1, <2>2
  <1>8. g + 1 # 0 /\ AllocatedSeq(s) <= ops + 2
    <2>1. g \in Nat /\ a \in {0, 1}
      BY <1>2, <1>5
    <2> QED
      BY <1>3, <1>6, <2>1
  <1>9. NewRef(s).gen = g + 1 /\ NewRef(s).seq = AllocatedSeq(s)
    BY <1>1, AllocatedFields
  <1> QED
    BY <1>1, <1>6, <1>7, <1>8, <1>9 DEF RefSound

\* An entry that is freed gets the number of a deleted file.
LEMMA FreedSound ==
  ASSUME slots \in [Entries -> Slot], VolumeSound, ops \in 0 .. MaxOps, ops < MaxOps,
         NEW s \in Entries, slots[s].used
  PROVE  /\ Counted("free", slots[s].seq) = FileSeq(slots[s].gen, FALSE)
         /\ Counted("free", slots[s].seq) <= ops + 2
  <1>1. PICK q, g : q = slots[s].seq /\ g = slots[s].gen
    OBVIOUS
  <1>2. q \in Nat /\ g \in Nat /\ g # 0 /\ q = FileSeq(g, TRUE) /\ q <= ops + 1
    <2>1. slots[s] \in Slot
      OBVIOUS
    <2>2. slots[s].seq \in Nat /\ slots[s].gen \in Nat /\ slots[s].used = TRUE
      BY <2>1, SlotFields, Numbers
    <2>3. /\ slots[s].seq = FileSeq(slots[s].gen, slots[s].used) /\ slots[s].seq <= ops + 1
          /\ slots[s].gen # 0
      BY DEF VolumeSound, RecSound
    <2> QED
      BY <1>1, <2>2, <2>3
  <1>3. ops \in Nat /\ q \in Nat /\ q <= ops + 1 /\ q + 1 < SeqModulus
    <2>1. q \in Nat /\ q <= ops + 1
      BY <1>2
    <2> QED
      BY <2>1, Numbers
  <1>4. PICK f : f = OnFree
    OBVIOUS
  <1>5. Counted("free", q) = q + f /\ f \in {0, 1}
    BY <1>2, <1>3, <1>4, CountedUp, Drivers
  <1>6. FileSeq(g, FALSE) = q + f
    BY <1>2, <1>4, FileSeqs
  <1>7. q + f <= ops + 2
    <2>1. f \in {0, 1}
      BY <1>5
    <2> QED
      BY <1>3, <2>1
  <1> QED
    BY <1>1, <1>5, <1>6, <1>7

\* What is sound stays sound under a larger limit.
LEMMA SoundGrows ==
  ASSUME NEW n \in Int, NEW m \in Int, n <= m
  PROVE  /\ \A r \in Ref : RefSound(r, n) => RefSound(r, m)
         /\ \A c \in Slot : RecSound(c, n) => RecSound(c, m)
  <1>1. \A r \in Ref : RefSound(r, n) => RefSound(r, m)
    <2> SUFFICES ASSUME NEW r \in Ref, RefSound(r, n) PROVE RefSound(r, m)
      OBVIOUS
    <2>1. r.seq <= n
      BY DEF RefSound
    <2>2. r.seq \in Int
      BY DEF Ref
    <2>3. r.seq <= m
      BY <2>1, <2>2
    <2> QED
      BY <2>3 DEF RefSound
  <1>2. ASSUME NEW c \in Slot, RecSound(c, n) PROVE RecSound(c, m)
    <2>1. /\ c.seq \in Int /\ c.parent \in Ref \union {NoRef} /\ c.index \in SUBSET Ref
      BY SlotFields
    <2>2. /\ c.seq = FileSeq(c.gen, c.used) /\ c.seq <= n /\ (c.used => c.gen # 0)
          /\ c.parent # NoRef => RefSound(c.parent, n)
          /\ \A r \in c.index : RefSound(r, n)
          /\ c.index # {} => c.folder
      BY <1>2 DEF RecSound
    <2>3. c.seq <= m
      BY <2>1, <2>2
    <2>4. c.parent # NoRef => RefSound(c.parent, m)
      BY <1>1, <2>1, <2>2
    <2>5. \A r \in c.index : RefSound(r, m)
      BY <1>1, <2>1, <2>2
    <2> QED
      BY <2>2, <2>3, <2>4, <2>5 DEF RecSound
  <1> QED
    BY <1>1, <1>2
\* The facts of a state that the operations rest on.
LEMMA BeforeOperation ==
  ASSUME slots \in [Entries -> Slot], VolumeSound, ops \in 0 .. MaxOps, ops' = ops + 1
  PROVE  /\ ops' + 1 = ops + 2
         /\ \A e \in Entries : slots[e] \in Slot /\ slots[e].entry = e /\ RecSound(slots[e], ops + 2)
         /\ \A d \in Entries : slots[d].used => RefSound(RefTo(d), ops + 2)
  <1>1. ops \in Int /\ ops + 1 <= ops + 2 /\ ops' + 1 = ops + 2
    OBVIOUS
  <1>2. \A e \in Entries : slots[e] \in Slot
    OBVIOUS
  <1>3. \A e \in Entries : slots[e].entry = e /\ RecSound(slots[e], ops + 2)
    BY <1>1, <1>2, SoundGrows DEF VolumeSound
  <1>4. \A d \in Entries : slots[d].used => RefSound(RefTo(d), ops + 2)
    BY <1>1, RefToSound, RefToType, SoundGrows
  <1> QED
    BY <1>1, <1>2, <1>3, <1>4

\* A new file or directory has the number of a file in use, and so have the references to
\* it and to its directory.
LEMMA CreateSound ==
  ASSUME slots \in [Entries -> Slot], VolumeSound, PartsApart,
         ops \in 0 .. MaxOps, ops < MaxOps, ops' = ops + 1,
         NEW s \in Entries, NEW d \in Entries, NEW f \in BOOLEAN, Create(s, d, f)
  PROVE  VolumeSound' /\ PartsApart'
  <1>1. /\ ~slots[s].used /\ slots[d].used /\ slots[d].folder /\ s # d
        /\ slots' \in [Entries -> Slot]
        /\ slots'[s].entry = s /\ slots'[s].seq = AllocatedSeq(s)
        /\ slots'[s].gen = slots[s].gen + 1 /\ slots'[s].used
        /\ slots'[s].parent = RefTo(d) /\ slots'[s].alist = <<>> /\ slots'[s].index = {}
        /\ slots'[d].index = slots[d].index \union {NewRef(s)}
        /\ slots'[d].entry = slots[d].entry /\ slots'[d].seq = slots[d].seq
        /\ slots'[d].gen = slots[d].gen /\ slots'[d].used = slots[d].used
        /\ slots'[d].folder = slots[d].folder /\ slots'[d].parent = slots[d].parent
        /\ slots'[d].alist = slots[d].alist
        /\ \A e \in Entries \ {s, d} : slots'[e] = slots[e]
    BY CreateEffect
  <1>2. /\ ops' + 1 = ops + 2
        /\ \A e \in Entries : slots[e] \in Slot /\ slots[e].entry = e /\ RecSound(slots[e], ops + 2)
        /\ RefSound(RefTo(d), ops + 2)
    BY <1>1, BeforeOperation
  <1>3. /\ AllocatedSeq(s) = FileSeq(slots[s].gen + 1, TRUE) /\ AllocatedSeq(s) <= ops + 2
        /\ slots[s].gen + 1 # 0 /\ RefSound(NewRef(s), ops + 2)
    BY <1>1, AllocatedSound
  <1>4. RecSound(slots'[s], ops + 2)
    BY <1>1, <1>2, <1>3 DEF RecSound
  <1>5. RecSound(slots'[d], ops + 2)
    BY <1>1, <1>2, <1>3 DEF RecSound
  <1>6. VolumeSound'
    BY <1>1, <1>2, <1>4, <1>5 DEF VolumeSound
  <1>7. PartsApart'
    <2>1. Parts(s)' = {} /\ \A e \in Entries \ {s} : Parts(e)' = Parts(e)
      BY <1>1 DEF Parts
    <2>2. \A e \in Entries \ {s} :
            slots'[e].used = slots[e].used /\ slots'[e].parent = slots[e].parent
      BY <1>1
    <2>3. ASSUME NEW b \in Entries, slots'[b].used, NEW x \in Parts(b)'
          PROVE  /\ slots'[x].used /\ (x = b \/ slots'[x].parent = NoRef)
                 /\ \A c \in Entries \ {b} : slots'[c].used => x \notin Parts(c)'
      <3>1. b # s /\ x \in Parts(b) /\ slots[b].used
        BY <2>1, <2>2, <2>3
      <3>2. x \in Entries /\ x # s
        BY <1>1, <3>1, PartsType DEF PartsApart
      <3> QED
        BY <2>1, <2>2, <3>1, <3>2 DEF PartsApart
    <2> QED
      BY <2>3 DEF PartsApart
  <1> QED
    BY <1>6, <1>7

\* An extension record has the number of a file in use, and belongs to one file.
LEMMA ExtendSound ==
  ASSUME slots \in [Entries -> Slot], VolumeSound, PartsApart,
         ops \in 0 .. MaxOps, ops < MaxOps, ops' = ops + 1,
         NEW b \in Entries, NEW s \in Entries, Extend(b, s)
  PROVE  VolumeSound' /\ PartsApart'
  <1>1. /\ ~slots[s].used /\ slots[b].used /\ slots[b].parent # NoRef /\ s # b
        /\ slots' \in [Entries -> Slot]
        /\ slots'[s] = Allocated(s)
        /\ slots'[b].index = slots[b].index
        /\ slots'[b].entry = slots[b].entry /\ slots'[b].seq = slots[b].seq
        /\ slots'[b].gen = slots[b].gen /\ slots'[b].used = slots[b].used
        /\ slots'[b].folder = slots[b].folder /\ slots'[b].parent = slots[b].parent
        /\ slots'[b].alist =
             (IF slots[b].alist = <<>> THEN <<RefTo(b)>> ELSE slots[b].alist) \o <<NewRef(s)>>
        /\ \A e \in Entries \ {s, b} : slots'[e] = slots[e]
    BY ExtendEffect
  <1>2. /\ ops' + 1 = ops + 2
        /\ \A e \in Entries : slots[e] \in Slot /\ slots[e].entry = e /\ RecSound(slots[e], ops + 2)
    BY <1>1, BeforeOperation
  <1>3. /\ AllocatedSeq(s) = FileSeq(slots[s].gen + 1, TRUE) /\ AllocatedSeq(s) <= ops + 2
        /\ slots[s].gen + 1 # 0 /\ RefSound(NewRef(s), ops + 2)
    BY <1>1, AllocatedSound
  <1>4. /\ slots'[s].entry = s /\ slots'[s].seq = AllocatedSeq(s)
        /\ slots'[s].gen = slots[s].gen + 1 /\ slots'[s].used
        /\ slots'[s].parent = NoRef /\ slots'[s].alist = <<>> /\ slots'[s].index = {}
    BY <1>1, AllocatedFields
  <1>5. RecSound(slots'[s], ops + 2)
    BY <1>3, <1>4 DEF RecSound
  <1>6. RecSound(slots'[b], ops + 2)
    BY <1>1, <1>2 DEF RecSound
  <1>7. VolumeSound'
    BY <1>1, <1>2, <1>4, <1>5, <1>6 DEF VolumeSound
  <1>8. PartsApart'
    <2>1. Parts(s)' = {} /\ \A e \in Entries \ {s, b} : Parts(e)' = Parts(e)
      BY <1>1, <1>4 DEF Parts
    <2>2. Parts(b)' \subseteq Parts(b) \union {b, s}
      <3> SUFFICES ASSUME NEW k \in DOMAIN slots'[b].alist
                   PROVE  slots'[b].alist[k].entry \in Parts(b) \union {b, s}
        BY DEF Parts
      <3>1. PICK l, t, m : /\ t = slots[b].alist /\ l = slots'[b].alist
                           /\ m = IF t = <<>> THEN <<RefTo(b)>> ELSE t
        OBVIOUS
      <3>2. t \in Seq(Ref) /\ RefTo(b) \in Ref /\ NewRef(s) \in Ref
        BY <1>2, <3>1, SlotFields, RefToType, AllocatedType
      <3>3. m \in Seq(Ref)
        BY <3>1, <3>2
      <3>4. l = m \o <<NewRef(s)>>
        BY <1>1, <3>1
      <3>5. /\ DOMAIN l = 1 .. Len(m) + 1 /\ l[Len(m) + 1] = NewRef(s) /\ Len(m) \in Nat
            /\ \A j \in 1 .. Len(m) : l[j] = m[j]
        BY <3>2, <3>3, <3>4
      <3>6. CASE k = Len(m) + 1
        BY <3>1, <3>5, <3>6, AllocatedFields
      <3>7. CASE k # Len(m) + 1 /\ t = <<>>
        <4>1. k \in 1 .. Len(m) /\ m = <<RefTo(b)>> /\ Len(m) = 1
          BY <3>1, <3>5, <3>7
        <4>2. l[k] = RefTo(b)
          BY <3>5, <4>1
        <4> QED
          BY <3>1, <4>2 DEF RefTo
      <3>8. CASE k # Len(m) + 1 /\ t # <<>>
        <4>1. k \in 1 .. Len(m) /\ m = t /\ DOMAIN t = 1 .. Len(t)
          BY <3>1, <3>2, <3>5, <3>8
        <4>2. l[k] = slots[b].alist[k] /\ k \in DOMAIN slots[b].alist
          BY <3>1, <3>5, <4>1
        <4> QED
          BY <3>1, <4>2 DEF Parts
      <3> QED
        BY <3>6, <3>7, <3>8
    <2>3. \A e \in Entries \ {s} :
            slots'[e].used = slots[e].used /\ slots'[e].parent = slots[e].parent
      BY <1>1
    <2>4. \A c \in Entries \ {b} : slots[c].used => b \notin Parts(c)
      BY <1>1 DEF PartsApart
    <2>5. \A c \in Entries : slots[c].used => s \notin Parts(c)
      BY <1>1 DEF PartsApart
    <2>6. ASSUME NEW a \in Entries, slots'[a].used, NEW x \in Parts(a)'
          PROVE  /\ slots'[x].used /\ (x = a \/ slots'[x].parent = NoRef)
                 /\ \A c \in Entries \ {a} : slots'[c].used => x \notin Parts(c)'
      <3>1. a # s /\ slots[a].used
        BY <2>1, <2>3, <2>6
      <3>2. CASE a = b /\ x \in {b, s}
        BY <1>1, <1>4, <2>1, <2>3, <2>4, <2>5, <3>2
      <3>3. CASE x \in Parts(a)
        <4>1. x \in Entries /\ x # s
          BY <2>5, <3>1, <3>3, PartsType
        <4>2. slots[x].used /\ (x = a \/ slots[x].parent = NoRef)
          BY <3>1, <3>3 DEF PartsApart
        <4>3. ASSUME NEW c \in Entries \ {a}, slots'[c].used PROVE x \notin Parts(c)'
          <5>1. CASE c = s
            BY <2>1, <5>1
          <5>2. CASE c = b
            <6>1. x \notin Parts(b) /\ x # b
              BY <1>1, <2>4, <3>1, <3>3, <4>3, <5>2 DEF PartsApart
            <6> QED
              BY <2>2, <4>1, <5>2, <6>1
          <5>3. CASE c \notin {b, s}
            BY <2>1, <2>3, <3>1, <3>3, <4>3, <5>3 DEF PartsApart
          <5> QED
            BY <5>1, <5>2, <5>3
        <4> QED
          BY <2>3, <4>1, <4>2, <4>3
      <3> QED
        BY <2>1, <2>2, <2>6, <3>1, <3>2, <3>3
    <2> QED
      BY <2>6 DEF PartsApart
  <1> QED
    BY <1>7, <1>8
\* A deleted file and its extension records, which were all in use, have the numbers of
\* deleted files.
LEMMA DeleteSound ==
  ASSUME slots \in [Entries -> Slot], VolumeSound, PartsApart,
         ops \in 0 .. MaxOps, ops < MaxOps, ops' = ops + 1,
         NEW b \in Entries, Delete(b)
  PROVE  VolumeSound' /\ PartsApart'
  <1> DEFINE gone == {b} \union Parts(b)
  <1>1. /\ slots[b].used /\ slots[b].parent # NoRef
        /\ slots' \in [Entries -> Slot]
        /\ \A s \in Entries :
             /\ slots'[s].entry = slots[s].entry /\ slots'[s].gen = slots[s].gen
             /\ slots'[s].folder = slots[s].folder /\ slots'[s].parent = slots[s].parent
             /\ slots'[s].alist = slots[s].alist /\ slots'[s].index \subseteq slots[s].index
        /\ \A s \in gone : s \in Entries =>
             ~slots'[s].used /\ slots'[s].seq = Counted("free", slots[s].seq)
        /\ \A s \in Entries \ gone :
             slots'[s].used = slots[s].used /\ slots'[s].seq = slots[s].seq
    BY DeleteEffect
  <1>2. /\ ops' + 1 = ops + 2
        /\ \A e \in Entries : slots[e] \in Slot /\ slots[e].entry = e /\ RecSound(slots[e], ops + 2)
    BY BeforeOperation
  <1>3. \A s \in gone : slots[s].used
    BY <1>1 DEF PartsApart
  <1>4. ASSUME NEW s \in Entries PROVE RecSound(slots'[s], ops + 2)
    <2>1. /\ slots'[s].parent # NoRef => RefSound(slots'[s].parent, ops + 2)
          /\ \A r \in slots'[s].index : RefSound(r, ops + 2)
          /\ slots'[s].index # {} => slots'[s].folder
      BY <1>1, <1>2 DEF RecSound
    <2>2. CASE s \in gone
      <3>1. slots[s].used
        BY <1>3, <2>2
      <3>2. /\ Counted("free", slots[s].seq) = FileSeq(slots[s].gen, FALSE)
            /\ Counted("free", slots[s].seq) <= ops + 2
        BY <3>1, FreedSound
      <3>3. /\ slots'[s].seq = FileSeq(slots'[s].gen, FALSE) /\ slots'[s].seq <= ops + 2
            /\ ~slots'[s].used
        BY <1>1, <2>2, <3>2
      <3>4. slots'[s].used = FALSE
        <4>1. slots'[s] \in Slot
          BY <1>1
        <4> QED
          BY <3>3, <4>1, SlotFields
      <3> QED
        BY <2>1, <3>3, <3>4 DEF RecSound
    <2>3. CASE s \notin gone
      <3>1. slots'[s].seq = slots[s].seq /\ slots'[s].used = slots[s].used /\ slots'[s].gen = slots[s].gen
        BY <1>1, <2>3
      <3>2. /\ slots[s].seq = FileSeq(slots[s].gen, slots[s].used) /\ slots[s].seq <= ops + 2
            /\ slots[s].used => slots[s].gen # 0
        BY <1>2 DEF RecSound
      <3> QED
        BY <2>1, <3>1, <3>2 DEF RecSound
    <2> QED
      BY <2>2, <2>3
  <1>5. VolumeSound'
    BY <1>1, <1>2, <1>4 DEF VolumeSound
  <1>6. PartsApart'
    <2>1. \A e \in Entries : Parts(e)' = Parts(e)
      BY <1>1 DEF Parts
    <2>2. \A e \in Entries : slots'[e].used => e \notin gone /\ slots[e].used
      BY <1>1
    <2>3. ASSUME NEW a \in Entries, slots'[a].used, NEW x \in Parts(a)'
          PROVE  /\ slots'[x].used /\ (x = a \/ slots'[x].parent = NoRef)
                 /\ \A c \in Entries \ {a} : slots'[c].used => x \notin Parts(c)'
      <3>1. a \notin gone /\ slots[a].used /\ x \in Parts(a) /\ x \in Entries
        BY <2>1, <2>2, <2>3, PartsType
      <3>2. /\ slots[x].used /\ (x = a \/ slots[x].parent = NoRef)
            /\ \A c \in Entries \ {a} : slots[c].used => x \notin Parts(c)
        BY <3>1 DEF PartsApart
      <3>3. a # b
        BY <3>1
      <3>4. x # b /\ x \notin Parts(b)
        BY <1>1, <3>2, <3>3
      <3>5. slots'[x].used /\ slots'[x].parent = slots[x].parent
        BY <1>1, <3>1, <3>2, <3>4
      <3> QED
        BY <2>1, <2>2, <3>2, <3>5
    <2> QED
      BY <2>3 DEF PartsApart
  <1> QED
    BY <1>5, <1>6

\* A file that is moved is in use, so the references that are made have its number.
LEMMA MoveSound ==
  ASSUME slots \in [Entries -> Slot], VolumeSound, PartsApart,
         ops \in 0 .. MaxOps, ops' = ops + 1,
         NEW b \in Entries, NEW d \in Entries, Move(b, d)
  PROVE  VolumeSound' /\ PartsApart'
  <1>1. /\ slots[b].used /\ slots[b].parent # NoRef /\ slots[d].used /\ slots[d].folder
        /\ slots' \in [Entries -> Slot]
        /\ \A s \in Entries :
             /\ slots'[s].entry = slots[s].entry /\ slots'[s].gen = slots[s].gen
             /\ slots'[s].seq = slots[s].seq /\ slots'[s].used = slots[s].used
             /\ slots'[s].folder = slots[s].folder /\ slots'[s].alist = slots[s].alist
             /\ slots'[s].parent = IF s = b THEN RefTo(d) ELSE slots[s].parent
             /\ slots'[s].index \subseteq
                  slots[s].index \union (IF s = d THEN {RefTo(b)} ELSE {})
    BY MoveEffect
  <1>2. /\ ops' + 1 = ops + 2
        /\ \A e \in Entries : slots[e] \in Slot /\ slots[e].entry = e /\ RecSound(slots[e], ops + 2)
        /\ RefSound(RefTo(d), ops + 2) /\ RefSound(RefTo(b), ops + 2)
    BY <1>1, BeforeOperation
  <1>3. ASSUME NEW s \in Entries PROVE RecSound(slots'[s], ops + 2)
    <2>1. /\ slots'[s].seq = FileSeq(slots'[s].gen, slots'[s].used) /\ slots'[s].seq <= ops + 2
          /\ slots'[s].used => slots'[s].gen # 0
      <3>1. /\ slots[s].seq = FileSeq(slots[s].gen, slots[s].used) /\ slots[s].seq <= ops + 2
            /\ slots[s].used => slots[s].gen # 0
        BY <1>2 DEF RecSound
      <3> QED
        BY <1>1, <3>1
    <2>2. slots'[s].parent # NoRef => RefSound(slots'[s].parent, ops + 2)
      BY <1>1, <1>2 DEF RecSound
    <2>3. \A r \in slots'[s].index : RefSound(r, ops + 2)
      <3>1. \A r \in slots[s].index : RefSound(r, ops + 2)
        BY <1>2 DEF RecSound
      <3> QED
        BY <1>1, <1>2, <3>1
    <2>4. slots'[s].index # {} => slots'[s].folder
      BY <1>1, <1>2 DEF RecSound
    <2> QED
      BY <2>1, <2>2, <2>3, <2>4 DEF RecSound
  <1>4. VolumeSound'
    BY <1>1, <1>2, <1>3 DEF VolumeSound
  <1>5. PartsApart'
    <2>1. \A e \in Entries : Parts(e)' = Parts(e) /\ slots'[e].used = slots[e].used
      BY <1>1 DEF Parts
    <2>2. ASSUME NEW a \in Entries, slots'[a].used, NEW x \in Parts(a)'
          PROVE  /\ slots'[x].used /\ (x = a \/ slots'[x].parent = NoRef)
                 /\ \A c \in Entries \ {a} : slots'[c].used => x \notin Parts(c)'
      <3>1. slots[a].used /\ x \in Parts(a) /\ x \in Entries
        BY <2>1, <2>2, PartsType
      <3>2. /\ slots[x].used /\ (x = a \/ slots[x].parent = NoRef)
            /\ \A c \in Entries \ {a} : slots[c].used => x \notin Parts(c)
        BY <3>1 DEF PartsApart
      <3>3. slots[x].parent = NoRef => slots'[x].parent = NoRef
        BY <1>1, <3>1
      <3> QED
        BY <2>1, <3>1, <3>2, <3>3
    <2> QED
      BY <2>2 DEF PartsApart
  <1> QED
    BY <1>4, <1>5

\* Whatever the driver does, the numbers tell the files apart.
LEMMA OperationSound ==
  ASSUME slots \in [Entries -> Slot], VolumeSound, PartsApart,
         ops \in 0 .. MaxOps, Operation
  PROVE  VolumeSound' /\ PartsApart'
  <1>1. ops < MaxOps /\ ops' = ops + 1
    BY DEF Operation
  <1>2. PICK s \in Entries, t \in Entries :
          \/ Create(s, t, TRUE) \/ Create(s, t, FALSE) \/ Extend(t, s) \/ Delete(s) \/ Move(s, t)
    BY DEF Operation
  <1>3. CASE Create(s, t, TRUE)
    BY <1>1, <1>2, <1>3, CreateSound
  <1>4. CASE Create(s, t, FALSE)
    BY <1>1, <1>2, <1>4, CreateSound
  <1>5. CASE Extend(t, s)
    BY <1>1, <1>2, <1>5, ExtendSound
  <1>6. CASE Delete(s)
    BY <1>1, <1>2, <1>6, DeleteSound
  <1>7. CASE Move(s, t)
    BY <1>1, <1>2, <1>7, MoveSound
  <1> QED
    BY <1>2, <1>3, <1>4, <1>5, <1>6, <1>7

\* The metadata files have number 1, the other entries 0.
LEMMA InitSound == Init => VolumeSound /\ PartsApart
  <1> SUFFICES ASSUME Init PROVE VolumeSound /\ PartsApart
    OBVIOUS
  <1> DEFINE root == [entry |-> Root, seq |-> 1, gen |-> 1]
             System(e) == [Unused(e) EXCEPT !.seq = 1, !.gen = 1, !.used = TRUE, !.parent = root]
             x(e) == IF e = 0 THEN System(0)
                     ELSE IF e = Root THEN [System(Root) EXCEPT !.folder = TRUE]
                     ELSE Unused(e)
  <1>1. slots = [e \in Entries |-> x(e)] /\ ops = 0
    BY DEF Init, VolumeInit
  <1>2. RefSound(root, 1)
    <2>1. root.seq = 1 /\ root.gen = 1
      OBVIOUS
    <2> HIDE DEF root
    <2>2. root.seq = FileSeq(root.gen, TRUE)
      BY <2>1, FileSeqs
    <2>3. root.seq <= 1 /\ root.gen # 0
      BY <2>1
    <2> QED
      BY <2>2, <2>3 DEF RefSound
  <1>3. ASSUME NEW e \in Entries
        PROVE  x(e).entry = e /\ RecSound(x(e), 1) /\ x(e).alist = <<>>
    <2>1. PICK c, p : c = Unused(e) /\ p = root
      OBVIOUS
    <2>2. /\ c \in Slot /\ c.entry = e /\ c.seq = 0 /\ c.gen = 0 /\ ~c.used
          /\ c.parent = NoRef /\ c.alist = <<>> /\ c.index = {}
      BY <2>1, UnusedType DEF Unused
    <2>3. PICK y : y = [c EXCEPT !.seq = 1, !.gen = 1, !.used = TRUE, !.parent = p]
      OBVIOUS
    <2>4. /\ y.entry = e /\ y.seq = 1 /\ y.gen = 1 /\ y.used
          /\ y.parent = p /\ y.alist = <<>> /\ y.index = {}
      BY <2>2, <2>3 DEF Slot
    <2>5. PICK z : z = [y EXCEPT !.folder = TRUE]
      OBVIOUS
    <2>6. /\ z.entry = e /\ z.seq = 1 /\ z.gen = 1 /\ z.used
          /\ z.parent = p /\ z.alist = <<>> /\ z.index = {}
      BY <2>2, <2>3, <2>4, <2>5 DEF Slot
    <2>7. RefSound(p, 1)
      BY <1>2, <2>1
    <2>8. RecSound(c, 1) /\ RecSound(y, 1) /\ RecSound(z, 1)
      <3>1. RecSound(c, 1)
        <4>1. c.seq = FileSeq(c.gen, c.used) /\ c.seq <= 1 /\ ~c.used
          <5>1. c.used = FALSE /\ 0 <= 1
            BY <2>2, SlotFields
          <5> QED
            BY <2>2, <5>1, FileSeqs
        <4>2. c.parent = NoRef /\ c.index = {}
          BY <2>2
        <4> QED
          BY <4>1, <4>2 DEF RecSound
      <3>2. FileSeq(1, TRUE) = 1 /\ y.used = TRUE /\ z.used = TRUE
        <4>1. FileSeq(1, TRUE) = 1
          BY FileSeqs
        <4> QED
          BY <2>2, <2>3, <2>5, <4>1 DEF Slot
      <3>3. ASSUME NEW w, w.seq = 1, w.gen = 1, w.used = TRUE, w.parent = p, w.index = {}
            PROVE  RecSound(w, 1)
        <4>1. w.seq = FileSeq(w.gen, w.used)
          BY <3>2, <3>3
        <4>2. w.seq <= 1 /\ w.gen # 0
          BY <3>3
        <4> QED
          BY <2>7, <3>3, <4>1, <4>2 DEF RecSound
      <3>4. RecSound(y, 1) /\ RecSound(z, 1)
        BY <2>4, <2>6, <3>2, <3>3
      <3> QED
        BY <3>1, <3>4
    <2>9. x(e) \in {c, y, z}
      BY <2>1, <2>3, <2>5
    <2> HIDE DEF x
    <2> QED
      BY <2>2, <2>4, <2>6, <2>8, <2>9
  <1> HIDE DEF x
  <1>4. \A e \in Entries : slots[e].entry = e /\ RecSound(slots[e], ops + 1) /\ slots[e].alist = <<>>
    BY <1>1, <1>3
  <1>5. \A e \in Entries : Parts(e) = {}
    BY <1>4 DEF Parts
  <1> QED
    BY <1>4, <1>5 DEF VolumeSound, PartsApart
-----------------------------------------------------------------------------
(* What is read of the volume, and the table that is made of it.           *)

\* No number on the volume goes beyond this one.
Limit == MaxOps + 1

ImageSound ==
  \A k \in DOMAIN image :
    image[k].content.entry = k - 1 /\ RecSound(image[k].content, Limit)

RecordsSound ==
  \A k \in DOMAIN Records :
    RecSound(Records[k], Limit) /\ (Records[k].entry = k \/ Records[k].gen = 0)

\* The parent that FindParentRecords gives a record.
ParentOf(k) ==
  LET r == Records[k].parent
  IN IF r # NoRef /\ HasRecord(r) THEN r.entry ELSE None

Linking == phase \in {"link", "parents", "sizes"}

TableSound ==
  /\ Linking => sel = NoSelection
  /\ phase \in {"nonresident", "link", "parents", "sizes", "done"} /\ sel = NoSelection
       => DOMAIN Records = Entries
  /\ phase \in {"nonresident", "link", "parents"} =>
       \A k \in DOMAIN Records : Records[k].Parent = None
  /\ phase = "sizes" \/ (phase = "done" /\ sel = NoSelection) =>
       \A k \in DOMAIN Records : Records[k].Parent = ParentOf(k)

IInv == Typed /\ VolumeSound /\ PartsApart /\ ImageSound /\ RecordsSound /\ TableSound

\* The difference of two numbers that are counted modulo m.
LEMMA Difference ==
  ASSUME NEW m \in Nat, NEW x \in Int, m > 0
  PROVE  /\ 0 <= x /\ x < m => x % m = x
         /\ -m <= x /\ x < 0 => x % m = x + m
  OBVIOUS

\* What differs by less than a modulus is at most one modulo it only if it is none or one.
LEMMA SmallDifference ==
  ASSUME NEW m \in Nat, NEW q \in Nat, NEW p \in Nat, q + 1 < m, p + 1 < m
  PROVE  (q - p) % m <= 1 <=> q - p \in {0, 1}
  <1>1. PICK x : x = q - p
    OBVIOUS
  <1>2. x \in Int /\ -m <= x /\ x < m /\ m > 0 /\ x + m > 1
    BY <1>1
  <1>3. CASE x >= 0
    <2>1. x % m = x
      BY <1>2, <1>3, Difference
    <2> QED
      BY <1>1, <1>2, <1>3, <2>1
  <1>4. CASE x < 0
    <2>1. x % m = x + m
      BY <1>2, <1>4, Difference
    <2>2. PICK y : y = x % m
      OBVIOUS
    <2>3. ~(y <= 1) /\ x \notin {0, 1}
      BY <1>2, <1>4, <2>1, <2>2
    <2> QED
      BY <1>1, <2>2, <2>3
  <1> QED
    BY <1>2, <1>3, <1>4

\* The numbers of two files in an entry, one in use when it was referred to, the other as it
\* was read, differ by none or one only if the files are tolerated neighbours, and do so if
\* they are the same.
LEMMA NearFiles ==
  ASSUME NEW g \in Nat, NEW h \in Nat \ {0}, NEW u \in BOOLEAN
  PROVE  /\ FileSeq(g, u) - FileSeq(h, TRUE) \in {0, 1} /\ (u => g # 0) => g - h \in Tolerated
         /\ g = h => FileSeq(g, u) - FileSeq(h, TRUE) \in {0, 1}
  <1>1. CASE OnAlloc = 1 /\ OnFree = 1 /\ Tolerated = {0}
    BY <1>1 DEF FileSeq
  <1>2. CASE OnAlloc = 1 /\ OnFree = 0 /\ Tolerated = {0, 1}
    BY <1>2 DEF FileSeq
  <1>3. CASE OnAlloc = 0 /\ OnFree = 1 /\ Tolerated = -1 .. 1
    BY <1>3 DEF FileSeq
  <1> QED
    BY <1>1, <1>2, <1>3, Drivers

\* The comparison of GetRecord, with its tolerance of one, accepts a reference to the file
\* that had the entry when the record was read, and no other but tolerated neighbours of it.
LEMMA FoundIsTolerated ==
  ASSUME Typed, RecordsSound, NEW r \in Ref, RefSound(r, Limit),
         r.entry \in DOMAIN Records, Records[r.entry].entry = r.entry
  PROVE  /\ HasRecord(r) => Records[r.entry].gen - r.gen \in Tolerated
         /\ Records[r.entry].gen = r.gen => HasRecord(r)
  <1>0. HasRecord(r) <=> SeqDiff(Records[r.entry].seq, r.seq) <= 1
    BY DEF HasRecord
  <1>1. PICK q, g, u : /\ q = Records[r.entry].seq /\ g = Records[r.entry].gen
                       /\ u = Records[r.entry].used
    OBVIOUS
  <1>2. q = FileSeq(g, u) /\ q <= Limit /\ (u => g # 0)
    BY <1>1 DEF RecordsSound, RecSound
  <1>3. Records[r.entry] \in MemRecord
    BY DEF Typed, TypeOK
  <1>4. q \in Nat /\ g \in Nat /\ u \in BOOLEAN
    BY <1>1, <1>3 DEF MemRecord
  <1>5. PICK p, h : p = r.seq /\ h = r.gen
    OBVIOUS
  <1>6. p \in Nat /\ h \in Nat \ {0} /\ p = FileSeq(h, TRUE) /\ p <= Limit
    <2>1. r.seq \in Nat /\ r.gen \in Nat
      BY Numbers DEF Ref
    <2>2. r.gen # 0 /\ r.seq = FileSeq(r.gen, TRUE) /\ r.seq <= Limit
      BY DEF RefSound
    <2> QED
      BY <1>5, <2>1, <2>2
  <1>7. PICK m : m = SeqModulus
    OBVIOUS
  <1>8. m \in Nat /\ q + 1 < m /\ p + 1 < m
    <2>1. m \in Nat /\ Limit \in Nat /\ Limit + 1 < m
      BY <1>7, Numbers DEF Limit
    <2>2. q \in Nat /\ p \in Nat /\ q <= Limit /\ p <= Limit
      BY <1>2, <1>4, <1>6
    <2> QED
      BY <2>1, <2>2
  <1>9. (q - p) % m <= 1 <=> q - p \in {0, 1}
    BY <1>4, <1>6, <1>8, SmallDifference
  <1>10. PICK y : y = (q - p) % m
    OBVIOUS
  <1>11. /\ y <= 1 => g - h \in Tolerated
         /\ g = h => y <= 1
    BY <1>2, <1>4, <1>6, <1>9, <1>10, NearFiles
  <1> QED
    BY <1>0, <1>1, <1>5, <1>7, <1>10, <1>11 DEF SeqDiff

\* The steps on the table leave what was read of the disk, and so the answers of GetRecord.
LEMMA SameRecords ==
  ASSUME DOMAIN Records' = DOMAIN Records, RecordsSound,
         \A k \in DOMAIN Records :
           /\ Records'[k].entry = Records[k].entry /\ Records'[k].seq = Records[k].seq
           /\ Records'[k].gen = Records[k].gen /\ Records'[k].used = Records[k].used
           /\ Records'[k].folder = Records[k].folder /\ Records'[k].parent = Records[k].parent
           /\ Records'[k].index = Records[k].index
  PROVE  /\ RecordsSound'
         /\ \A r : HasRecord(r)' <=> HasRecord(r)
         /\ \A k \in DOMAIN Records : ParentOf(k)' = ParentOf(k)
  <1>1. \A r : HasRecord(r)' <=> HasRecord(r)
    BY DEF HasRecord
  <1>2. \A k \in DOMAIN Records : ParentOf(k)' = ParentOf(k)
    BY <1>1 DEF ParentOf
  <1>3. ASSUME NEW k \in DOMAIN Records
        PROVE  RecSound(Records'[k], Limit) /\ (Records'[k].entry = k \/ Records'[k].gen = 0)
    <2>1. RecSound(Records[k], Limit) /\ (Records[k].entry = k \/ Records[k].gen = 0)
      BY DEF RecordsSound
    <2>2. PICK c, d : c = Records[k] /\ d = Records'[k]
      OBVIOUS
    <2>3. /\ d.entry = c.entry /\ d.seq = c.seq /\ d.gen = c.gen /\ d.used = c.used
          /\ d.folder = c.folder /\ d.parent = c.parent /\ d.index = c.index
      BY <2>2
    <2>4. RecSound(c, Limit) => RecSound(d, Limit)
      BY <2>3 DEF RecSound
    <2> QED
      BY <2>1, <2>2, <2>3, <2>4
  <1>4. RecordsSound'
    BY <1>3 DEF RecordsSound, Limit
  <1> QED
    BY <1>1, <1>2, <1>4
\* A record that is read of the volume is a record of the volume.
LEMMA CollectSound ==
  ASSUME Typed, VolumeSound, ImageSound, CollectMFTArea
  PROVE  ImageSound'
  <1>1. /\ slots \in [Entries -> Slot] /\ image \in Seq([content: Slot, bad: BOOLEAN])
        /\ Len(image) \in Nat /\ ops \in 0 .. MaxOps
    BY DEF Typed, TypeOK
  <1>2. CASE Len(image) < N
    <2>1. PICK bad \in BOOLEAN :
            image' = Append(image, [content |-> slots[Len(image)], bad |-> bad])
      BY <1>2 DEF CollectMFTArea, Collected
    <2>2. PICK l : l = Len(image)
      OBVIOUS
    <2>3. l \in Entries
      BY <1>1, <1>2, <2>2, Numbers DEF Entries
    <2>4. slots[l] \in Slot /\ slots[l].entry = l /\ RecSound(slots[l], ops + 1)
      BY <1>1, <2>3 DEF VolumeSound
    <2>5. RecSound(slots[l], Limit)
      <3>1. ops + 1 \in Int /\ Limit \in Int /\ ops + 1 <= Limit
        BY <1>1, Numbers DEF Limit
      <3> QED
        BY <2>4, <3>1, SoundGrows
    <2>6. PICK x : x = [content |-> slots[l], bad |-> bad]
      OBVIOUS
    <2>7. x \in [content: Slot, bad: BOOLEAN] /\ image' = Append(image, x) /\ x.content = slots[l]
      BY <2>1, <2>2, <2>4, <2>6
    <2>8. /\ DOMAIN image' = 1 .. l + 1 /\ DOMAIN image = 1 .. l /\ image'[l + 1] = x
          /\ \A k \in 1 .. l : image'[k] = image[k]
      BY <1>1, <2>2, <2>7
    <2>9. ASSUME NEW k \in DOMAIN image'
          PROVE  image'[k].content.entry = k - 1 /\ RecSound(image'[k].content, Limit)
      <3>1. CASE k = l + 1
        <4>1. k - 1 = l
          BY <1>1, <2>2, <3>1
        <4> QED
          BY <2>4, <2>5, <2>7, <2>8, <3>1, <4>1
      <3>2. CASE k # l + 1
        <4>1. k \in 1 .. l
          BY <1>1, <2>2, <2>8, <3>2
        <4> QED
          BY <2>8, <4>1 DEF ImageSound
      <3> QED
        BY <3>1, <3>2
    <2> QED
      BY <2>9 DEF ImageSound, Limit
  <1>3. CASE ~(Len(image) < N)
    <2>1. image' = image
      BY <1>3 DEF CollectMFTArea
    <2> QED
      BY <2>1 DEF ImageSound, Limit
  <1> QED
    BY <1>2, <1>3

\* Without a selection every entry is chosen.
LEMMA AllChosen ==
  ASSUME sel = NoSelection
  PROVE  Chosen = Entries /\ Copies = N
  <1>1. sel.entries = <<>> /\ sel.from = -1 /\ sel.to = N
    BY DEF NoSelection, NoFrom, NoLimit
  <1>2. \A e \in Entries : -1 <= e /\ e <= N
    BY Numbers DEF Entries
  <1>3. Chosen = Entries
    BY <1>1, <1>2 DEF Chosen
  <1>4. Cardinality(0 .. N - 1) = N
    <2>1. 0 \in Int /\ N - 1 \in Int
      BY Numbers
    <2>2. Cardinality(0 .. N - 1) = IF 0 > N - 1 THEN 0 ELSE N - 1 - 0 + 1
      BY <2>1, FS_Interval
    <2> QED
      BY <2>2, Numbers
  <1> QED
    BY <1>1, <1>3, <1>4 DEF Copies, Entries

\* The table that ProcessMFT makes has the numbers of the volume, and no pointers.
LEMMA ProcessMFTSound ==
  ASSUME Typed, ImageSound, RecordsSound, TableSound, ProcessMFT
  PROVE  RecordsSound' /\ TableSound'
  <1>1. /\ image \in Seq([content: Slot, bad: BOOLEAN]) /\ Len(image) = N
        /\ UNCHANGED <<call, image>> /\ phase = "select"
    BY DEF Typed, TypeOK, ProcessMFT
  <1>2. sel' = sel
    BY <1>1 DEF sel
  <1>3. CASE Records' = Records /\ phase' = "panic"
    BY <1>1, <1>2, <1>3 DEF RecordsSound, TableSound, Linking, Limit
  <1>4. CASE ~(Records' = Records /\ phase' = "panic")
    <2> DEFINE kept(e) == e \in Chosen /\ Readable(e)
               index(e) == IF call.large THEN {} ELSE image[e + 1].content.index
               entry(e) == IF kept(e) THEN InMemory(image[e + 1].content, index(e)) ELSE Zero
    <2>1. phase' = "nonresident" /\ Records' = [e \in 0 .. Copies - 1 |-> entry(e)]
      BY <1>4, Zenon DEF ProcessMFT
    <2>2. ASSUME NEW e \in 0 .. Copies - 1
          PROVE  /\ RecSound(entry(e), Limit) /\ entry(e).Parent = None
                 /\ entry(e).entry = e \/ entry(e).gen = 0
      <3>1. CASE kept(e)
        <4>1. e \in Int /\ e + 1 \in 1 .. Len(image)
          BY <1>1, <3>1, Numbers DEF Chosen, Entries
        <4>2. PICK c, i : c = image[e + 1].content /\ i = index(e)
          OBVIOUS
        <4>3. c \in Slot
          <5>1. image[e + 1] \in [content: Slot, bad: BOOLEAN]
            BY <1>1, <4>1, ElementOfSeq
          <5> QED
            BY <4>2, <5>1
        <4>4. c.entry = e /\ RecSound(c, Limit)
          <5>1. e + 1 \in DOMAIN image /\ (e + 1) - 1 = e
            BY <1>1, <4>1
          <5> QED
            BY <4>2, <5>1 DEF ImageSound
        <4>5. i \in SUBSET Ref /\ (i = {} \/ i = c.index)
          BY <4>2, <4>3, SlotFields
        <4>6. entry(e) = InMemory(c, i)
          BY <3>1, <4>2
        <4>7. PICK d : d = InMemory(c, i)
          OBVIOUS
        <4>8. /\ d.entry = c.entry /\ d.seq = c.seq /\ d.gen = c.gen /\ d.used = c.used
              /\ d.folder = c.folder /\ d.parent = c.parent /\ d.index = i /\ d.Parent = None
          BY <4>3, <4>5, <4>7, InMemoryType
        <4>9. RecSound(d, Limit)
          BY <4>4, <4>5, <4>8 DEF RecSound
        <4> HIDE DEF entry
        <4> QED
          BY <4>4, <4>6, <4>7, <4>8, <4>9
      <3>2. CASE ~kept(e)
        <4>1. entry(e) = Zero
          BY <3>2
        <4>2. PICK d : d = Zero
          OBVIOUS
        <4>3. /\ d.gen = 0 /\ d.seq = 0 /\ ~d.used /\ d.parent = NoRef /\ d.index = {}
              /\ d.Parent = None
          BY <4>2, ZeroType
        <4>4. d.seq = FileSeq(d.gen, d.used) /\ d.seq <= Limit
          <5>1. d.used = FALSE
            BY <4>2 DEF Zero, InMemory, Unused
          <5>2. FileSeq(0, FALSE) = 0 /\ 0 <= Limit
            <6>1. 0 <= Limit
              BY Numbers DEF Limit
            <6> QED
              BY <6>1, FileSeqs
          <5> QED
            BY <4>3, <5>1, <5>2
        <4>5. RecSound(d, Limit)
          BY <4>3, <4>4 DEF RecSound
        <4> HIDE DEF entry
        <4> QED
          BY <4>1, <4>2, <4>3, <4>5
      <3> QED
        BY <3>1, <3>2
    <2> HIDE DEF entry
    <2>3. /\ DOMAIN Records' = 0 .. Copies - 1
          /\ \A k \in DOMAIN Records' :
               /\ RecSound(Records'[k], Limit) /\ Records'[k].Parent = None
               /\ Records'[k].entry = k \/ Records'[k].gen = 0
      BY <2>1, <2>2
    <2>4. RecordsSound'
      BY <2>3 DEF RecordsSound, Limit
    <2>5. sel = NoSelection => DOMAIN Records' = Entries
      BY <2>3, AllChosen DEF Entries
    <2> QED
      BY <1>2, <2>1, <2>3, <2>4, <2>5 DEF TableSound, Linking
  <1> QED
    BY <1>3, <1>4
\* The steps that set the pointers of the records change nothing else of them.
LEMMA OnlyPointers ==
  ASSUME Typed, CreateLinkedRecords \/ FindParentRecords \/ CalculateFileSizes
  PROVE  /\ DOMAIN Records' = DOMAIN Records
         /\ \A k \in DOMAIN Records :
              /\ Records'[k].entry = Records[k].entry /\ Records'[k].seq = Records[k].seq
              /\ Records'[k].gen = Records[k].gen /\ Records'[k].used = Records[k].used
              /\ Records'[k].folder = Records[k].folder /\ Records'[k].parent = Records[k].parent
              /\ Records'[k].index = Records[k].index
              /\ Records'[k].Parent = IF FindParentRecords /\ ParentOf(k) # None
                                      THEN ParentOf(k) ELSE Records[k].Parent
              /\ Records'[k].I30Size = IF CalculateFileSizes THEN SizeOf(k) ELSE Records[k].I30Size
  <1>1. \A k \in DOMAIN Records : Records[k] \in MemRecord
    BY DEF Typed, TypeOK
  <1>2. CASE CreateLinkedRecords
    <2>1. Records' = [k \in DOMAIN Records |->
            [Records[k] EXCEPT !.LinkedRecords = Linked(k), !.OriginLinkedRecord = OriginOf(k)]]
      BY <1>2 DEF CreateLinkedRecords
    <2>2. ~FindParentRecords /\ ~CalculateFileSizes
      BY <1>2 DEF CreateLinkedRecords, FindParentRecords, CalculateFileSizes
    <2>3. ASSUME NEW k \in DOMAIN Records
          PROVE  /\ Records'[k].entry = Records[k].entry /\ Records'[k].seq = Records[k].seq
                 /\ Records'[k].gen = Records[k].gen /\ Records'[k].used = Records[k].used
                 /\ Records'[k].folder = Records[k].folder
                 /\ Records'[k].parent = Records[k].parent
                 /\ Records'[k].index = Records[k].index
                 /\ Records'[k].Parent = Records[k].Parent
                 /\ Records'[k].I30Size = Records[k].I30Size
      <3>1. PICK c, l, o, d : /\ c = Records[k] /\ l = Linked(k) /\ o = OriginOf(k)
                              /\ d = Records'[k]
        OBVIOUS
      <3>2. c \in MemRecord /\ d = [c EXCEPT !.LinkedRecords = l, !.OriginLinkedRecord = o]
        BY <1>1, <2>1, <3>1
      <3>3. /\ d.entry = c.entry /\ d.seq = c.seq /\ d.gen = c.gen /\ d.used = c.used
            /\ d.folder = c.folder /\ d.parent = c.parent /\ d.index = c.index
            /\ d.Parent = c.Parent /\ d.I30Size = c.I30Size
        BY <3>2 DEF MemRecord
      <3> QED
        BY <3>1, <3>3
    <2>4. DOMAIN Records' = DOMAIN Records
      BY <2>1
    <2> QED
      BY <2>2, <2>3, <2>4
  <1>3. CASE FindParentRecords
    <2>1. Records' = [k \in DOMAIN Records |->
            IF Records[k].parent # NoRef /\ HasRecord(Records[k].parent)
            THEN [Records[k] EXCEPT !.Parent = Records[k].parent.entry]
            ELSE Records[k]]
      BY <1>3 DEF FindParentRecords
    <2>2. ~CalculateFileSizes
      BY <1>3 DEF FindParentRecords, CalculateFileSizes
    <2>3. ASSUME NEW k \in DOMAIN Records
          PROVE  /\ Records'[k].entry = Records[k].entry /\ Records'[k].seq = Records[k].seq
                 /\ Records'[k].gen = Records[k].gen /\ Records'[k].used = Records[k].used
                 /\ Records'[k].folder = Records[k].folder
                 /\ Records'[k].parent = Records[k].parent
                 /\ Records'[k].index = Records[k].index
                 /\ Records'[k].I30Size = Records[k].I30Size
                 /\ Records'[k].Parent = IF ParentOf(k) # None
                                         THEN ParentOf(k) ELSE Records[k].Parent
      <3>1. PICK c, p, d : c = Records[k] /\ p = Records[k].parent.entry /\ d = Records'[k]
        OBVIOUS
      <3>2. c \in MemRecord
        BY <1>1, <3>1
      <3>3. CASE c.parent # NoRef /\ HasRecord(c.parent)
        <4>1. d = [c EXCEPT !.Parent = p]
          BY <2>1, <3>1, <3>3
        <4>2. /\ d.entry = c.entry /\ d.seq = c.seq /\ d.gen = c.gen /\ d.used = c.used
              /\ d.folder = c.folder /\ d.parent = c.parent /\ d.index = c.index
              /\ d.Parent = p /\ d.I30Size = c.I30Size
          BY <3>2, <4>1 DEF MemRecord
        <4>3. ParentOf(k) = p
          BY <3>1, <3>3 DEF ParentOf
        <4>4. p # None
          <5>1. p \in Entries
            BY <3>1, <3>2, <3>3 DEF MemRecord, Ref
          <5> QED
            BY <5>1, Numbers
        <4> QED
          BY <3>1, <4>2, <4>3, <4>4
      <3>4. CASE ~(c.parent # NoRef /\ HasRecord(c.parent))
        <4>1. d = c
          BY <2>1, <3>1, <3>4
        <4>2. ParentOf(k) = None
          BY <3>1, <3>4 DEF ParentOf
        <4> QED
          BY <3>1, <4>1, <4>2
      <3> QED
        BY <3>3, <3>4
    <2>4. DOMAIN Records' = DOMAIN Records
      BY <2>1
    <2> QED
      BY <1>3, <2>2, <2>3, <2>4
  <1>4. CASE CalculateFileSizes
    <2>1. Records' = [k \in DOMAIN Records |-> [Records[k] EXCEPT !.I30Size = SizeOf(k)]]
      BY <1>4 DEF CalculateFileSizes
    <2>2. ~FindParentRecords
      BY <1>4 DEF FindParentRecords, CalculateFileSizes
    <2>3. ASSUME NEW k \in DOMAIN Records
          PROVE  /\ Records'[k].entry = Records[k].entry /\ Records'[k].seq = Records[k].seq
                 /\ Records'[k].gen = Records[k].gen /\ Records'[k].used = Records[k].used
                 /\ Records'[k].folder = Records[k].folder
                 /\ Records'[k].parent = Records[k].parent
                 /\ Records'[k].index = Records[k].index
                 /\ Records'[k].Parent = Records[k].Parent
                 /\ Records'[k].I30Size = SizeOf(k)
      <3>1. PICK c, s, d : c = Records[k] /\ s = SizeOf(k) /\ d = Records'[k]
        OBVIOUS
      <3>2. c \in MemRecord /\ d = [c EXCEPT !.I30Size = s]
        BY <1>1, <2>1, <3>1
      <3>3. /\ d.entry = c.entry /\ d.seq = c.seq /\ d.gen = c.gen /\ d.used = c.used
            /\ d.folder = c.folder /\ d.parent = c.parent /\ d.index = c.index
            /\ d.Parent = c.Parent /\ d.I30Size = s
        BY <3>2 DEF MemRecord
      <3> QED
        BY <3>1, <3>3
    <2>4. DOMAIN Records' = DOMAIN Records
      BY <2>1
    <2> QED
      BY <1>4, <2>2, <2>3, <2>4
  <1> QED
    BY <1>2, <1>3, <1>4
\* After FindParentRecords every record has the parent that GetRecord finds for it.
LEMMA TableStepSound ==
  ASSUME Typed, RecordsSound, TableSound,
         CreateLinkedRecords \/ FindParentRecords \/ CalculateFileSizes
  PROVE  RecordsSound' /\ TableSound'
  <1>1. /\ DOMAIN Records' = DOMAIN Records
        /\ \A k \in DOMAIN Records :
             /\ Records'[k].entry = Records[k].entry /\ Records'[k].seq = Records[k].seq
             /\ Records'[k].gen = Records[k].gen /\ Records'[k].used = Records[k].used
             /\ Records'[k].folder = Records[k].folder /\ Records'[k].parent = Records[k].parent
             /\ Records'[k].index = Records[k].index
             /\ Records'[k].Parent = IF FindParentRecords /\ ParentOf(k) # None
                                     THEN ParentOf(k) ELSE Records[k].Parent
    BY OnlyPointers
  <1>2. RecordsSound' /\ \A k \in DOMAIN Records : ParentOf(k)' = ParentOf(k)
    BY <1>1, SameRecords
  <1>3. Linking /\ sel' = sel /\ sel = NoSelection /\ DOMAIN Records = Entries
    <2>1. Linking /\ sel' = sel
      BY DEF CreateLinkedRecords, FindParentRecords, CalculateFileSizes, Linking, sel
    <2> QED
      BY <2>1 DEF TableSound, Linking
  <1>4. CASE CreateLinkedRecords
    <2>1. phase = "link" /\ phase' = "parents" /\ ~FindParentRecords
      BY <1>4 DEF CreateLinkedRecords, FindParentRecords
    <2>2. \A k \in DOMAIN Records' : Records'[k].Parent = None
      BY <1>1, <2>1 DEF TableSound
    <2> QED
      BY <1>1, <1>2, <1>3, <2>1, <2>2 DEF TableSound, Linking
  <1>5. CASE FindParentRecords
    <2>1. phase = "parents" /\ phase' = "sizes"
      BY <1>5 DEF FindParentRecords
    <2>2. \A k \in DOMAIN Records : Records[k].Parent = None
      BY <2>1 DEF TableSound
    <2>3. \A k \in DOMAIN Records : Records'[k].Parent = ParentOf(k)
      BY <1>1, <1>5, <2>2
    <2>4. \A k \in DOMAIN Records' : Records'[k].Parent = ParentOf(k)'
      BY <1>1, <1>2, <2>3
    <2> QED
      BY <1>1, <1>2, <1>3, <2>1, <2>4 DEF TableSound, Linking
  <1>6. CASE CalculateFileSizes
    <2>1. phase = "sizes" /\ phase' = "done" /\ ~FindParentRecords
      BY <1>6 DEF CalculateFileSizes, FindParentRecords
    <2>2. \A k \in DOMAIN Records : Records[k].Parent = ParentOf(k)
      BY <2>1 DEF TableSound
    <2>3. \A k \in DOMAIN Records' : Records'[k].Parent = ParentOf(k)'
      BY <1>1, <1>2, <2>1, <2>2
    <2> QED
      BY <1>1, <1>2, <1>3, <2>1, <2>3 DEF TableSound, Linking
  <1> QED
    BY <1>4, <1>5, <1>6

\* The invariant is kept by every step.
LEMMA IInvStep ==
  ASSUME IInv, [Next]_vars
  PROVE  IInv'
  <1>1. Typed /\ VolumeSound /\ PartsApart /\ ImageSound /\ RecordsSound /\ TableSound
    BY DEF IInv
  <1>2. Typed'
    BY <1>1, TypedStep
  <1>3. slots \in [Entries -> Slot] /\ ops \in 0 .. MaxOps
    BY <1>1 DEF Typed, TypeOK
  <1>4. CASE UseVolume
    <2>1. VolumeSound' /\ PartsApart'
      BY <1>1, <1>3, <1>4, OperationSound DEF UseVolume
    <2>2. UNCHANGED <<call, phase, image, Records>>
      BY <1>4 DEF UseVolume
    <2>3. ImageSound' /\ RecordsSound'
      BY <1>1, <2>2 DEF ImageSound, RecordsSound, Limit
    <2>4. TableSound'
      BY <1>1, <2>2 DEF TableSound, Linking, ParentOf, HasRecord, sel
    <2> QED
      BY <1>2, <2>1, <2>3, <2>4 DEF IInv
  <1>5. CASE UNCHANGED <<slots, ops>> /\ ~UseVolume
    <2>1. VolumeSound' /\ PartsApart'
      BY <1>1, <1>5 DEF VolumeSound, PartsApart, Parts
    <2>2. CASE CollectMFTArea
      <3>1. UNCHANGED <<call, Records>> /\ phase = "collect" /\ phase' \in {"collect", "select"}
        BY <2>2 DEF CollectMFTArea
      <3>2. ImageSound' /\ RecordsSound'
        BY <1>1, <2>2, <3>1, CollectSound DEF RecordsSound, Limit
      <3>3. TableSound'
        BY <3>1 DEF TableSound, Linking
      <3> QED
        BY <1>2, <2>1, <3>2, <3>3 DEF IInv
    <2>3. CASE ProcessMFT
      <3>1. ImageSound'
        BY <1>1, <2>3 DEF ImageSound, Limit, ProcessMFT
      <3> QED
        BY <1>1, <1>2, <2>1, <2>3, <3>1, ProcessMFTSound DEF IInv
    <2>4. CASE CreateLinkedRecords \/ FindParentRecords \/ CalculateFileSizes
      <3>1. ImageSound'
        BY <1>1, <2>4
           DEF ImageSound, Limit, CreateLinkedRecords, FindParentRecords, CalculateFileSizes
      <3> QED
        BY <1>1, <1>2, <2>1, <2>4, <3>1, TableStepSound DEF IInv
    <2>5. CASE Start \/ ProcessNonResidentRecords \/ Ended \/ UNCHANGED vars
      <3>1. UNCHANGED <<call, image, Records>>
        BY <2>5 DEF Start, ProcessNonResidentRecords, Ended, vars
      <3>2. ImageSound' /\ RecordsSound' /\ sel' = sel
        BY <1>1, <3>1 DEF ImageSound, RecordsSound, Limit, sel
      <3>3. \A k \in DOMAIN Records : ParentOf(k)' = ParentOf(k)
        BY <3>1 DEF ParentOf, HasRecord
      <3>4. \/ phase' = phase \/ phase' = "collect"
            \/ phase = "nonresident" /\ phase' = IF sel = NoSelection THEN "link" ELSE "done"
        BY <2>5 DEF Start, ProcessNonResidentRecords, Ended, vars
      <3>5. TableSound'
        BY <1>1, <3>1, <3>2, <3>3, <3>4 DEF TableSound, Linking
      <3> QED
        BY <1>2, <2>1, <3>2, <3>5 DEF IInv
    <2> QED
      BY <1>5, <2>2, <2>3, <2>4, <2>5 DEF Next
  <1> QED
    BY <1>4, <1>5 DEF Next, Start, CollectMFTArea, ProcessMFT, ProcessNonResidentRecords,
                      CreateLinkedRecords, FindParentRecords, CalculateFileSizes, Ended, vars

\* The metadata files, before anything is read.
LEMMA InitIInv == Init => IInv
  <1> SUFFICES ASSUME Init PROVE IInv
    OBVIOUS
  <1>1. phase = "volume" /\ image = <<>> /\ Records = <<>>
    BY DEF Init
  <1>2. ImageSound /\ RecordsSound /\ TableSound
    BY <1>1 DEF ImageSound, RecordsSound, TableSound, Linking
  <1> QED
    BY <1>2, InitTyped, InitSound DEF IInv
\* GetRecord decides by a file's number alone, and the parents are what it found.
LEMMA ParentsSound == IInv => ParentIsReferredDirectory
  <1> SUFFICES ASSUME IInv, phase = "done", sel = NoSelection, NEW k \in DOMAIN Records
               PROVE  LET r == Records[k].parent
                          there == r # NoRef /\ Records[r.entry].entry = r.entry
                          after == Records[r.entry].gen - r.gen
                      IN /\ Records[k].Parent \in {None, r.entry}
                         /\ Records[k].Parent # None => there /\ after \in Tolerated
                         /\ there /\ after = 0 => Records[k].Parent # None
    BY DEF ParentIsReferredDirectory
  <1>1. DOMAIN Records = Entries /\ Records[k].Parent = ParentOf(k)
    BY DEF IInv, TableSound
  <1>2. PICK r : r = Records[k].parent
    OBVIOUS
  <1>3. r \in Ref \union {NoRef}
    <2>1. Records[k] \in MemRecord
      BY DEF IInv, Typed, TypeOK
    <2> QED
      BY <1>2, <2>1 DEF MemRecord
  <1>4. CASE r = NoRef
    BY <1>1, <1>2, <1>4 DEF ParentOf
  <1>5. CASE r # NoRef
    <2>1. r \in Ref /\ r.entry \in DOMAIN Records /\ r.entry # None
      BY <1>1, <1>3, <1>5, Numbers DEF Ref
    <2>2. RefSound(r, Limit)
      BY <1>2, <1>5 DEF IInv, RecordsSound, RecSound
    <2>3. PICK g, h : g = Records[r.entry].gen /\ h = r.gen
      OBVIOUS
    <2>4. g \in Int /\ h \in Int
      <3>1. Records[r.entry] \in MemRecord
        BY <2>1 DEF IInv, Typed, TypeOK
      <3>2. g \in Nat /\ h \in Nat
        BY <2>1, <2>3, <3>1 DEF MemRecord, Ref
      <3> QED
        BY <3>2
    <2>5. g - h = 0 => g = h
      BY <2>4
    <2>6. ASSUME Records[r.entry].entry = r.entry
          PROVE  (HasRecord(r) => g - h \in Tolerated) /\ (g = h => HasRecord(r))
      BY <2>1, <2>2, <2>3, <2>6, FoundIsTolerated DEF IInv
    <2>7. Records[k].Parent = IF HasRecord(r) THEN r.entry ELSE None
      BY <1>1, <1>2, <1>5 DEF ParentOf
    <2>8. CASE Records[r.entry].entry = r.entry
      BY <1>2, <1>5, <2>1, <2>3, <2>5, <2>6, <2>7, <2>8
    <2>9. CASE Records[r.entry].entry # r.entry
      <3>1. ~HasRecord(r)
        BY <2>9 DEF HasRecord
      <3> QED
        BY <1>2, <1>5, <2>7, <2>9, <3>1
    <2> QED
      BY <2>8, <2>9
  <1> QED
    BY <1>4, <1>5

\* The sizes are those of index entries that GetRecord found the record of.
LEMMA SizesStep ==
  ASSUME IInv, IInv', CalculateFileSizes
  PROVE  SizeIsOwn'
  <1>1. /\ DOMAIN Records' = DOMAIN Records
        /\ \A k \in DOMAIN Records :
             /\ Records'[k].gen = Records[k].gen /\ Records'[k].folder = Records[k].folder
             /\ Records'[k].index = Records[k].index /\ Records'[k].I30Size = SizeOf(k)
    BY OnlyPointers DEF IInv
  <1>2. PICK n \in 0 .. N + Len(sel.entries) : Records \in [0 .. n - 1 -> MemRecord]
    BY DEF IInv, Typed, TypeOK
  <1>3. n \in Nat /\ DOMAIN Records = 0 .. n - 1
    BY <1>2, SelType, Numbers DEF IInv, Typed, TypeOK
  <1>4. ASSUME NEW d \in DOMAIN Records, NEW r \in Records[d].index
        PROVE  /\ r \in Ref /\ r.gen \in Nat /\ r.gen # 0 /\ RefSound(r, Limit)
               /\ Records[d].folder
    <2>1. Records[d].index \in SUBSET Ref
      BY <1>2 DEF MemRecord
    <2>2. RefSound(r, Limit) /\ Records[d].folder
      BY DEF IInv, RecordsSound, RecSound
    <2>3. r \in Ref /\ r.gen \in Nat
      BY <2>1 DEF Ref
    <2>4. r.gen # 0
      BY <2>2 DEF RefSound
    <2> QED
      BY <2>2, <2>3, <2>4
  <1>5. ASSUME NEW k \in DOMAIN Records
        PROVE  SizeOf(k) # 0 => Records[k].gen - SizeOf(k) \in Tolerated
    <2>2. CASE SizeOf(k) # 0
      <3>1. PICK d \in DOMAIN Records : \E r \in SizeEntries(k, d) : SizeOf(k) = r.gen
        BY <1>3, <2>2, SizeOfEntry
      <3>2. PICK r \in SizeEntries(k, d) : SizeOf(k) = r.gen
        BY <3>1
      <3>3. r \in Records[d].index /\ r.entry = k /\ HasRecord(r)
        BY <3>2 DEF SizeEntries
      <3>4. r \in Ref /\ RefSound(r, Limit)
        BY <1>4, <3>3
      <3>5. r.entry \in DOMAIN Records /\ Records[r.entry].entry = r.entry
        BY <3>3 DEF HasRecord
      <3>6. Records[r.entry].gen - r.gen \in Tolerated
        BY <3>3, <3>4, <3>5, FoundIsTolerated DEF IInv
      <3> QED
        BY <3>2, <3>3, <3>6
    <2> QED
      BY <2>2
  <1>6. ASSUME NEW k \in DOMAIN Records, NEW d \in DOMAIN Records, NEW r \in Records[d].index,
               r.entry = k, r.gen = Records[k].gen, ~Records[k].folder
        PROVE  SizeOf(k) # 0
    <2>1. /\ r \in Ref /\ r.gen # 0 /\ RefSound(r, Limit) /\ Records[d].folder
      BY <1>4
    <2>2. Records[k].entry = k
      BY <1>6, <2>1 DEF IInv, RecordsSound
    <2>3. HasRecord(r)
      BY <1>6, <2>1, <2>2, FoundIsTolerated DEF IInv
    <2>4. r \in SizeEntries(k, d)
      BY <1>6, <2>1, <2>3 DEF SizeEntries
    <2>5. PICK e \in DOMAIN Records : \E s \in SizeEntries(k, e) : SizeOf(k) = s.gen
      BY <1>3, <1>6, <2>4, SizeOfEntry
    <2>6. PICK s \in SizeEntries(k, e) : SizeOf(k) = s.gen
      BY <2>5
    <2>7. s \in Records[e].index
      BY <2>6 DEF SizeEntries
    <2>8. s.gen # 0
      BY <1>4, <2>7
    <2> QED
      BY <2>6, <2>8
  <1>7. ASSUME NEW k \in DOMAIN Records'
        PROVE  /\ Records'[k].I30Size # 0 => Records'[k].gen - Records'[k].I30Size \in Tolerated
               /\ (\E d \in DOMAIN Records' : \E r \in Records'[d].index :
                     r.entry = k /\ r.gen = Records'[k].gen /\ ~Records'[k].folder)
                    => Records'[k].I30Size # 0
    <2>1. k \in DOMAIN Records /\ Records'[k].I30Size = SizeOf(k)
      BY <1>1
    <2>2. Records'[k].I30Size # 0 => Records'[k].gen - Records'[k].I30Size \in Tolerated
      BY <1>1, <1>5, <2>1
    <2>3. ASSUME NEW d \in DOMAIN Records', NEW r \in Records'[d].index,
                 r.entry = k, r.gen = Records'[k].gen, ~Records'[k].folder
          PROVE  Records'[k].I30Size # 0
      <3>1. /\ d \in DOMAIN Records /\ r \in Records[d].index
            /\ r.gen = Records[k].gen /\ ~Records[k].folder
        BY <1>1, <2>1, <2>3
      <3> QED
        BY <1>6, <2>1, <2>3, <3>1
    <2> QED
      BY <2>2, <2>3
  <1> QED
    BY <1>7 DEF SizeIsOwn

\* The sizes are computed last.
LEMMA SizesKept ==
  ASSUME IInv, IInv', SizeIsOwn, [Next]_vars
  PROVE  SizeIsOwn'
  <1>1. CASE CalculateFileSizes
    BY <1>1, SizesStep
  <1>2. CASE phase' # "done" \/ sel' # NoSelection
    BY <1>2 DEF SizeIsOwn
  <1>3. CASE Ended \/ UNCHANGED vars
    BY <1>3 DEF Ended, vars, SizeIsOwn, sel
  <1> QED
    BY <1>1, <1>2, <1>3
       DEF Next, UseVolume, Start, CollectMFTArea, ProcessMFT, ProcessNonResidentRecords,
           CreateLinkedRecords, FindParentRecords, sel

\* The Parent of a record is the directory that its FileName attribute refers to, or one
\* that its sequence number cannot tell from that, and it has one if that directory has been
\* read, for every history of the volume and whatever of allocations and deletions the
\* driver counts (MFT.go:66, Table.go:108-115).
THEOREM ParentsAreReferred == Spec => []ParentIsReferredDirectory
  <1>1. IInv /\ [Next]_vars => IInv'
    BY IInvStep
  <1> QED
    BY InitIInv, <1>1, ParentsSound, PTL DEF Spec

\* The size of a record is that of an index entry for the same file, or for one that the
\* sequence number cannot tell from it, and a file that an index names has one, for all of
\* these drivers.
THEOREM SizesAreOwn == Spec => []SizeIsOwn
  <1>1. Init => SizeIsOwn
    BY DEF Init, SizeIsOwn
  <1>2. IInv /\ [Next]_vars => IInv'
    BY IInvStep
  <1>3. IInv /\ IInv' /\ SizeIsOwn /\ [Next]_vars => SizeIsOwn'
    BY SizesKept
  <1> QED
    BY InitIInv, <1>1, <1>2, <1>3, PTL DEF Spec
-----------------------------------------------------------------------------
(* Paths: the parents form no cycle.                                       *)

\* Where the parent reference of each record of c leads, whatever file is in that entry
\* by now.
Up(c) == [e \in Entries |-> IF c[e].parent # NoRef THEN c[e].parent.entry ELSE None]

\* Nobody can go round without coming to the root directory: from every set of other
\* entries there is a way out.
NoTrap(next) ==
  \A S \in SUBSET (Entries \ {Root}) : S # {} => \E e \in S : next[e] \notin S

\* Cutting an edge sets no trap.
LEMMA FewerEdges ==
  ASSUME NEW next, NEW less, NoTrap(next), \A e \in Entries : less[e] \in {next[e], None}
  PROVE  NoTrap(less)
  <1> SUFFICES ASSUME NEW S \in SUBSET (Entries \ {Root}), S # {}
               PROVE  \E e \in S : less[e] \notin S
    BY DEF NoTrap
  <1>1. PICK e \in S : next[e] \notin S
    BY DEF NoTrap
  <1>2. less[e] \in {next[e], None} /\ None \notin S
    BY Numbers
  <1> QED
    BY <1>1, <1>2

\* A path of more steps than there are entries would go round.
LEMMA NoLongPath ==
  ASSUME NEW next, NoTrap(next), NEW f \in [0 .. N -> Entries \ {Root}],
         \A k \in 0 .. N - 1 : next[f[k]] = f[k + 1]
  PROVE  FALSE
  <1> DEFINE T == Entries \ {Root}
  <1>1. IsFiniteSet(Entries) /\ Cardinality(Entries) = N
    <2>1. 0 \in Int /\ N - 1 \in Int
      BY Numbers
    <2>2. IsFiniteSet(0 .. N - 1)
          /\ Cardinality(0 .. N - 1) = IF 0 > N - 1 THEN 0 ELSE N - 1 - 0 + 1
      BY <2>1, FS_Interval
    <2> QED
      BY <2>2, Numbers DEF Entries
  <1>2. IsFiniteSet(T) /\ Cardinality(T) = N - 1
    BY <1>1, Numbers, FS_RemoveElement
  <1>3. IsFiniteSet(0 .. N) /\ Cardinality(0 .. N) = N + 1
    <2>1. 0 \in Int /\ N \in Int
      BY Numbers
    <2>2. IsFiniteSet(0 .. N) /\ Cardinality(0 .. N) = IF 0 > N THEN 0 ELSE N - 0 + 1
      BY <2>1, FS_Interval
    <2> QED
      BY <2>2, Numbers
  <1>4. Cardinality(T) < Cardinality(0 .. N)
    BY <1>2, <1>3, Numbers
  <1> HIDE DEF T
  <1>5. \E x, y \in 0 .. N : x # y /\ f[x] = f[y]
    <2>1. f \in [0 .. N -> T]
      BY DEF T
    <2>2. PICK W : W = 0 .. N
      OBVIOUS
    <2>3. /\ IsFiniteSet(W) /\ IsFiniteSet(T) /\ Cardinality(T) < Cardinality(W)
          /\ f \in [W -> T]
      BY <1>2, <1>3, <1>4, <2>1, <2>2, Zenon
    <2>4. \E x, y \in W : x # y /\ f[x] = f[y]
      BY ONLY <2>3, FS_PigeonHole, Zenon
    <2> QED
      BY <2>2, <2>4, Zenon
  <1>6. PICK i \in 0 .. N, j \in 0 .. N : i < j /\ f[i] = f[j]
    <2>1. PICK x \in 0 .. N, y \in 0 .. N : x # y /\ f[x] = f[y]
      BY <1>5
    <2>2. x \in Int /\ y \in Int
      BY Numbers
    <2>3. CASE x < y
      BY <2>1, <2>3
    <2>4. CASE y < x
      BY <2>1, <2>4
    <2> QED
      BY <2>1, <2>2, <2>3, <2>4
  <1> DEFINE S == {f[k] : k \in i .. j - 1}
  <1>7. i .. j - 1 \subseteq 0 .. N - 1 /\ i \in i .. j - 1
    BY <1>6, Numbers
  <1>8. S \in SUBSET (Entries \ {Root}) /\ S # {}
    <2>1. 0 .. N - 1 \subseteq 0 .. N
      BY Numbers
    <2> QED
      BY <1>7, <2>1
  <1>9. ASSUME NEW e \in S PROVE next[e] \in S
    <2>1. PICK k \in i .. j - 1 : e = f[k]
      OBVIOUS
    <2>2. next[e] = f[k + 1]
      BY <1>7, <2>1
    <2>3. CASE k + 1 \in i .. j - 1
      BY <2>2, <2>3
    <2>4. CASE k + 1 \notin i .. j - 1
      <3>1. k + 1 = j
        BY <1>6, <2>4
      <3> QED
        BY <1>6, <1>7, <2>2, <3>1
    <2> QED
      BY <2>3, <2>4
  <1> HIDE DEF S
  <1> QED
    BY <1>8, <1>9 DEF NoTrap

\* f is g applied k times to x, for k up to n.
IsIterated(f, n, D, g, x) ==
  f \in [0 .. n -> D] /\ f = [k \in 0 .. n |-> IF k = 0 THEN x ELSE g[f[k - 1]]]

\* A function can be applied again and again.
LEMMA Iterates ==
  ASSUME NEW n \in Nat, NEW D, NEW g \in [D -> D], NEW x \in D
  PROVE  \E f : IsIterated(f, n, D, g, x)
  <1> DEFINE Is(f, m) == /\ f \in [0 .. m -> D]
                         /\ \A k \in 0 .. m : f[k] = IF k = 0 THEN x ELSE g[f[k - 1]]
             T == {m \in 0 .. n : \E f : Is(f, m)}
  <1>1. 0 \in T
    <2>1. PICK f : f = [k \in 0 .. 0 |-> x]
      OBVIOUS
    <2>2. Is(f, 0) /\ 0 \in 0 .. n
      BY <2>1
    <2> QED
      BY <2>2, Zenon
  <1>2. ASSUME NEW m \in 0 .. n - 1, m \in T PROVE m + 1 \in T
    <2>1. PICK f : Is(f, m)
      BY <1>2
    <2> DEFINE h == [k \in 0 .. m + 1 |-> IF k \in 0 .. m THEN f[k] ELSE g[f[m]]]
    <2>2. h \in [0 .. m + 1 -> D]
      BY <2>1
    <2>3. ASSUME NEW k \in 0 .. m + 1 PROVE h[k] = IF k = 0 THEN x ELSE g[h[k - 1]]
      <3>1. CASE k = 0
        BY <2>1, <3>1
      <3>2. CASE k \in 1 .. m
        <4>1. k \in 0 .. m /\ k - 1 \in 0 .. m /\ k # 0 /\ k - 1 \in 0 .. m + 1
          BY <3>2
        <4>2. h[k] = f[k] /\ h[k - 1] = f[k - 1]
          BY <4>1
        <4> HIDE DEF h
        <4> QED
          BY <2>1, <4>1, <4>2
      <3>3. CASE k = m + 1
        <4>1. k \notin 0 .. m /\ k - 1 = m /\ k # 0 /\ m \in 0 .. m /\ m \in 0 .. m + 1
          BY <3>3
        <4>2. h[k] = g[f[m]] /\ h[m] = f[m]
          BY <4>1
        <4> HIDE DEF h
        <4> QED
          BY <4>1, <4>2
      <3> QED
        BY <3>1, <3>2, <3>3
    <2> HIDE DEF h
    <2>4. Is(h, m + 1)
      BY <2>2, <2>3
    <2> QED
      BY <2>4
  <1> HIDE DEF T
  <1>3. n \in T
    <2>1. 0 .. n \subseteq T
      BY <1>1, <1>2, InductionUpTo
    <2> QED
      BY <2>1
  <1>4. PICK f : Is(f, n)
    BY <1>3 DEF T
  <1>5. f = [k \in 0 .. n |-> IF k = 0 THEN x ELSE g[f[k - 1]]]
    BY <1>4
  <1> QED
    BY <1>4, <1>5 DEF IsIterated

-----------------------------------------------------------------------------
(* Where the files are.                                                    *)

\* The parent of a file in use is a directory in use that has the file in its index.
AtHome(b) ==
  LET p == slots[b].parent
  IN /\ Directory(p.entry)
     /\ IF b \in {0, Root} THEN p.entry = Root ELSE RefTo(b) \in slots[p.entry].index

HomesSound ==
  /\ Directory(Root)
  /\ \A b \in Entries :
       /\ slots[b].folder => slots[b].parent # NoRef
       /\ slots[b].used /\ slots[b].parent # NoRef => AtHome(b)

\* A reference of a record leads to an entry.
LEMMA ParentEntry ==
  ASSUME slots \in [Entries -> Slot], NEW b \in Entries, slots[b].parent # NoRef
  PROVE  slots[b].parent \in Ref /\ slots[b].parent.entry \in Entries
  <1>1. slots[b] \in Slot
    OBVIOUS
  <1>2. slots[b].parent \in Ref
    BY <1>1, SlotFields
  <1> QED
    BY <1>2 DEF Ref


\* The home of a file stays one if the directory stays in use and keeps the file in its
\* index, and nothing happens to the file.
LEMMA HomeKept ==
  ASSUME slots \in [Entries -> Slot], NEW b \in Entries, slots[b].parent # NoRef, AtHome(b),
         slots'[b].parent = slots[b].parent,
         slots'[b].seq = slots[b].seq, slots'[b].gen = slots[b].gen,
         LET p == slots[b].parent.entry
         IN /\ slots'[p].used /\ slots'[p].folder = slots[p].folder
            /\ RefTo(b) \in slots[p].index => RefTo(b) \in slots'[p].index
  PROVE  AtHome(b)'
  <1>1. RefTo(b)' = RefTo(b)
    BY DEF RefTo
  <1>2. PICK p \in Ref : p = slots[b].parent /\ p = slots'[b].parent
    BY ParentEntry
  <1>3. PICK e \in Entries : e = p.entry
    BY <1>2 DEF Ref
  <1>4. /\ slots[e].used /\ slots[e].folder
        /\ IF b \in {0, Root} THEN e = Root ELSE RefTo(b) \in slots[e].index
    BY <1>2, <1>3 DEF AtHome, Directory
  <1>5. /\ slots'[e].used /\ slots'[e].folder
        /\ IF b \in {0, Root} THEN e = Root ELSE RefTo(b)' \in slots'[e].index
    BY <1>1, <1>2, <1>3, <1>4
  <1> QED
    BY <1>2, <1>3, <1>5 DEF AtHome, Directory

\* A new file is in the index of its directory.
LEMMA CreateHomes ==
  ASSUME slots \in [Entries -> Slot], HomesSound, NEW s \in Entries, NEW d \in Entries,
         NEW f \in BOOLEAN, Create(s, d, f)
  PROVE  HomesSound'
  <1>1. /\ ~slots[s].used /\ slots[d].used /\ slots[d].folder /\ s # d
        /\ slots' \in [Entries -> Slot]
        /\ slots'[s].entry = s /\ slots'[s].seq = AllocatedSeq(s)
        /\ slots'[s].gen = slots[s].gen + 1 /\ slots'[s].used
        /\ slots'[s].parent = RefTo(d) /\ slots'[s].alist = <<>> /\ slots'[s].index = {}
        /\ slots'[d].index = slots[d].index \union {NewRef(s)}
        /\ slots'[d].entry = slots[d].entry /\ slots'[d].seq = slots[d].seq
        /\ slots'[d].gen = slots[d].gen /\ slots'[d].used = slots[d].used
        /\ slots'[d].folder = slots[d].folder /\ slots'[d].parent = slots[d].parent
        /\ slots'[d].alist = slots[d].alist
        /\ \A e \in Entries \ {s, d} : slots'[e] = slots[e]
    BY CreateEffect
  <1>2. s \notin {0, Root}
    BY DEF Create, Free
  <1>3. \A e \in Entries \ {s} :
          /\ slots'[e].parent = slots[e].parent /\ slots'[e].seq = slots[e].seq
          /\ slots'[e].gen = slots[e].gen /\ slots'[e].used = slots[e].used
          /\ slots'[e].folder = slots[e].folder /\ slots[e].index \subseteq slots'[e].index
    BY <1>1
  <1>4. RefTo(d) \in Ref /\ RefTo(d).entry = d /\ RefTo(d).gen = slots[d].gen
    BY RefToType DEF RefTo
  <1>5. RefTo(s)' = NewRef(s)
    BY <1>1, AllocatedType DEF RefTo
  <1>6. Directory(Root)'
    BY <1>2, <1>3, Numbers DEF HomesSound, Directory
  <1>9. ASSUME NEW b \in Entries \ {s}, slots'[b].used, slots'[b].parent # NoRef
        PROVE  AtHome(b)'
    <2>1. /\ slots'[b].parent = slots[b].parent /\ slots[b].parent # NoRef
          /\ slots[b].used /\ slots'[b].seq = slots[b].seq /\ slots'[b].gen = slots[b].gen
      BY <1>3, <1>9
    <2>2. AtHome(b)
      BY <2>1 DEF HomesSound
    <2>3. PICK p \in Entries : p = slots[b].parent.entry
      BY <2>1, ParentEntry
    <2>4. slots[p].used
      BY <2>2, <2>3 DEF AtHome, Directory
    <2>5. p \in Entries \ {s}
      BY <1>1, <2>4
    <2>6. /\ slots'[p].used /\ slots'[p].folder = slots[p].folder
          /\ RefTo(b) \in slots[p].index => RefTo(b) \in slots'[p].index
      BY <1>3, <2>4, <2>5
    <2> QED
      BY <2>1, <2>2, <2>3, <2>6, HomeKept
  <1>10. AtHome(s)'
    <2>1. Directory(d)' /\ RefTo(s)' \in slots'[d].index
      BY <1>1, <1>4, <1>5 DEF Directory
    <2> QED
      BY <1>1, <1>2, <1>4, <2>1 DEF AtHome
  <1>11. \A b \in Entries : slots'[b].folder => slots'[b].parent # NoRef
    <2>1. slots'[s].parent # NoRef
      BY <1>1, <1>4, Numbers
    <2> QED
      BY <1>3, <2>1 DEF HomesSound
  <1> QED
    BY <1>6, <1>9, <1>10, <1>11 DEF HomesSound

\* An extension record has no name, and no file is in it.
LEMMA ExtendHomes ==
  ASSUME slots \in [Entries -> Slot], HomesSound, NEW b \in Entries, NEW s \in Entries, Extend(b, s)
  PROVE  HomesSound'
  <1>1. /\ ~slots[s].used /\ slots[b].used /\ slots[b].parent # NoRef /\ s # b
        /\ slots' \in [Entries -> Slot]
        /\ slots'[s] = Allocated(s)
        /\ slots'[b].index = slots[b].index
        /\ slots'[b].entry = slots[b].entry /\ slots'[b].seq = slots[b].seq
        /\ slots'[b].gen = slots[b].gen /\ slots'[b].used = slots[b].used
        /\ slots'[b].folder = slots[b].folder /\ slots'[b].parent = slots[b].parent
        /\ \A e \in Entries \ {s, b} : slots'[e] = slots[e]
    BY ExtendEffect
  <1>2. s \notin {0, Root}
    BY DEF Extend, Free
  <1>3. \A e \in Entries \ {s} :
          /\ slots'[e].parent = slots[e].parent /\ slots'[e].seq = slots[e].seq
          /\ slots'[e].gen = slots[e].gen /\ slots'[e].used = slots[e].used
          /\ slots'[e].folder = slots[e].folder /\ slots'[e].index = slots[e].index
    BY <1>1
  <1>4. slots'[s].gen = slots[s].gen + 1 /\ slots'[s].parent = NoRef /\ ~slots'[s].folder
    BY <1>1, AllocatedType
  <1>5. Directory(Root)'
    BY <1>2, <1>3, Numbers DEF HomesSound, Directory
  <1>6. ASSUME NEW e \in Entries, slots'[e].parent # NoRef, slots'[e].used
        PROVE  AtHome(e)'
    <2>1. e # s
      BY <1>4, <1>6
    <2>2. /\ slots'[e].parent = slots[e].parent /\ slots[e].parent # NoRef
          /\ slots'[e].used = slots[e].used /\ slots'[e].seq = slots[e].seq
          /\ slots'[e].gen = slots[e].gen
      BY <1>3, <1>6, <2>1
    <2>3. PICK p \in Entries : p = slots[e].parent.entry
      BY <2>2, ParentEntry
    <2>4. AtHome(e)
      BY <1>6, <2>2 DEF HomesSound
    <2>5. slots[p].used
      BY <2>3, <2>4 DEF AtHome, Directory
    <2>6. p \in Entries \ {s}
      BY <1>1, <2>5
    <2>7. /\ slots'[p].used /\ slots'[p].folder = slots[p].folder
          /\ RefTo(e) \in slots[p].index => RefTo(e) \in slots'[p].index
      BY <1>3, <2>5, <2>6
    <2> QED
      BY <2>2, <2>3, <2>4, <2>7, HomeKept
  <1>7. \A e \in Entries : slots'[e].folder => slots'[e].parent # NoRef
    BY <1>3, <1>4 DEF HomesSound
  <1> QED
    BY <1>5, <1>6, <1>7 DEF HomesSound

\* A directory is deleted when nothing is in it any more.
LEMMA DeleteHomes ==
  ASSUME slots \in [Entries -> Slot], HomesSound, PartsApart, NEW b \in Entries, Delete(b)
  PROVE  HomesSound'
  <1> DEFINE gone == {b} \union Parts(b)
  <1>1. /\ slots[b].used /\ slots[b].parent # NoRef
        /\ slots' \in [Entries -> Slot]
        /\ \A s \in Entries :
             /\ slots'[s].entry = slots[s].entry /\ slots'[s].gen = slots[s].gen
             /\ slots'[s].folder = slots[s].folder /\ slots'[s].parent = slots[s].parent
             /\ slots[s].index \ {RefTo(b)} \subseteq slots'[s].index
        /\ \A s \in gone : s \in Entries => ~slots'[s].used
        /\ \A s \in Entries \ gone :
             slots'[s].used = slots[s].used /\ slots'[s].seq = slots[s].seq
    BY DeleteEffect
  <1>2. b \notin {0, Root} /\ slots[b].index = {}
    BY DEF Delete, InUse
  <1>3. ASSUME NEW s \in Entries, slots[s].folder, s # b
        PROVE  s \notin gone
    <2>1. slots[s].parent # NoRef
      BY <1>3 DEF HomesSound
    <2>2. \A x \in Parts(b) : x = b \/ slots[x].parent = NoRef
      BY <1>1 DEF PartsApart
    <2> QED
      BY <1>3, <2>1, <2>2
  <1> HIDE DEF gone
  <1>4. Directory(Root)'
    <2>1. slots[Root].used /\ slots[Root].folder
      BY DEF HomesSound, Directory
    <2>2. Root \in Entries \ gone
      BY <1>2, <1>3, <2>1, Numbers
    <2> QED
      BY <1>1, <2>1, <2>2, Numbers DEF Directory
  <1>6. ASSUME NEW e \in Entries, slots'[e].parent # NoRef, slots'[e].used
        PROVE  AtHome(e)'
    <2>1. e \in Entries \ gone
      BY <1>1, <1>6
    <2>2. /\ slots'[e].parent = slots[e].parent /\ slots[e].parent # NoRef
          /\ slots[e].used /\ slots'[e].seq = slots[e].seq /\ slots'[e].gen = slots[e].gen
      BY <1>1, <1>6, <2>1
    <2>3. AtHome(e)
      BY <2>2 DEF HomesSound
    <2>4. PICK p \in Entries : p = slots[e].parent.entry
      BY <2>2, ParentEntry
    <2>5. /\ slots[p].used /\ slots[p].folder
          /\ IF e \in {0, Root} THEN p = Root ELSE RefTo(e) \in slots[p].index
      BY <2>3, <2>4 DEF AtHome, Directory
    <2>6. p # b
      BY <1>2, <2>5
    <2>7. p \in Entries \ gone
      BY <1>3, <2>5, <2>6
    <2>8. e # b
      BY <1>1, <1>6 DEF gone
    <2>9. RefTo(e) # RefTo(b)
      BY <2>8 DEF RefTo
    <2>10. /\ slots'[p].used /\ slots'[p].folder = slots[p].folder
           /\ RefTo(e) \in slots[p].index => RefTo(e) \in slots'[p].index
      BY <1>1, <2>5, <2>7, <2>9
    <2> QED
      BY <2>2, <2>3, <2>4, <2>10, HomeKept
  <1>7. \A e \in Entries : slots'[e].folder => slots'[e].parent # NoRef
    BY <1>1 DEF HomesSound
  <1> QED
    BY <1>4, <1>6, <1>7 DEF HomesSound

\* What is moved is in the index of the directory it is moved into.
LEMMA MoveHomes ==
  ASSUME slots \in [Entries -> Slot], HomesSound, NEW b \in Entries, NEW d \in Entries,
         Move(b, d), b # d
  PROVE  HomesSound'
  <1>1. /\ slots[b].used /\ slots[b].parent # NoRef /\ slots[d].used /\ slots[d].folder
        /\ slots' \in [Entries -> Slot]
        /\ \A s \in Entries :
             /\ slots'[s].entry = slots[s].entry /\ slots'[s].gen = slots[s].gen
             /\ slots'[s].seq = slots[s].seq /\ slots'[s].used = slots[s].used
             /\ slots'[s].folder = slots[s].folder
             /\ slots'[s].parent = IF s = b THEN RefTo(d) ELSE slots[s].parent
             /\ slots[s].index \ {RefTo(b)} \subseteq slots'[s].index
        /\ RefTo(b) \in slots'[d].index
    BY MoveEffect
  <1>2. b \notin {0, Root}
    BY DEF Move, InUse
  <1>3. RefTo(d) \in Ref /\ RefTo(d).entry = d /\ RefTo(d).gen = slots[d].gen
    BY RefToType DEF RefTo
  <1>4. RefTo(b)' = RefTo(b)
    BY <1>1 DEF RefTo
  <1>5. Directory(Root)'
    BY <1>1, Numbers DEF HomesSound, Directory
  <1>7. AtHome(b)'
    <2>1. Directory(d)' /\ RefTo(b)' \in slots'[d].index
      BY <1>1, <1>3, <1>4 DEF Directory
    <2> QED
      BY <1>1, <1>2, <1>3, <2>1 DEF AtHome
  <1>8. ASSUME NEW e \in Entries \ {b}, slots'[e].parent # NoRef, slots'[e].used
        PROVE  AtHome(e)'
    <2>1. /\ slots'[e].parent = slots[e].parent /\ slots[e].parent # NoRef
          /\ slots[e].used /\ slots'[e].seq = slots[e].seq
          /\ slots'[e].gen = slots[e].gen
      BY <1>1, <1>8
    <2>2. PICK p \in Entries : p = slots[e].parent.entry
      BY <2>1, ParentEntry
    <2>3. AtHome(e)
      BY <2>1 DEF HomesSound
    <2>4. slots[p].used
      BY <2>2, <2>3 DEF AtHome, Directory
    <2>5. RefTo(e) # RefTo(b)
      BY DEF RefTo
    <2>6. /\ slots'[p].used /\ slots'[p].folder = slots[p].folder
          /\ RefTo(e) \in slots[p].index => RefTo(e) \in slots'[p].index
      BY <1>1, <2>4, <2>5
    <2> QED
      BY <2>1, <2>2, <2>3, <2>6, HomeKept
  <1>9. \A e \in Entries : slots'[e].folder => slots'[e].parent # NoRef
    <2>1. slots'[b].parent # NoRef
      BY <1>1, <1>3, Numbers
    <2> QED
      BY <1>1, <2>1 DEF HomesSound
  <1> QED
    BY <1>5, <1>7, <1>8, <1>9 DEF HomesSound

\* From a directory in use the parents lead to the root directory, all of them directories
\* in use, and Upward has them all.
LEMMA UpwardEnds ==
  ASSUME slots \in [Entries -> Slot], HomesSound, NoTrap(Up(slots)),
         NEW d \in Entries, Directory(d)
  PROVE  \E u \in [0 .. N -> Entries], n \in 0 .. N :
           /\ u[0] = d /\ u[n] = Root
           /\ \A k \in 0 .. N - 1 : Up(slots)[u[k]] = u[k + 1]
           /\ \A k \in 0 .. N : u[k] \in Upward(d) /\ slots[u[k]].used
  <1> DEFINE D == {e \in Entries : Directory(e)}
             g == [e \in D |-> slots[e].parent.entry]
             u == CHOOSE u : u = [k \in 0 .. N |-> IF k = 0 THEN d ELSE slots[u[k - 1]].parent.entry]
  <1>1. ASSUME NEW e \in D
        PROVE  slots[e].parent.entry \in D /\ Up(slots)[e] = slots[e].parent.entry
    <2>1. slots[e].used /\ slots[e].folder
      BY DEF Directory
    <2>2. slots[e].parent # NoRef /\ AtHome(e)
      BY <2>1 DEF HomesSound
    <2>3. slots[e].parent.entry \in Entries
      BY <2>2, ParentEntry
    <2>4. Directory(slots[e].parent.entry)
      BY <2>2 DEF AtHome
    <2> QED
      BY <2>2, <2>3, <2>4 DEF Up
  <1>2. /\ N \in Nat /\ d \in D /\ g \in [D -> D] /\ D \subseteq Entries
        /\ \A e \in D : slots[e].used
    BY <1>1, Numbers DEF Directory
  <1>3. \E f : f = [k \in 0 .. N |-> IF k = 0 THEN d ELSE slots[f[k - 1]].parent.entry]
    <2> HIDE DEF D, g
    <2>0. PICK f : IsIterated(f, N, D, g, d)
      BY <1>2, Iterates, Zenon
    <2>1. f \in [0 .. N -> D] /\ f = [k \in 0 .. N |-> IF k = 0 THEN d ELSE g[f[k - 1]]]
      BY <2>0, Zenon DEF IsIterated
    <2>2. ASSUME NEW k \in 0 .. N
          PROVE  f[k] = IF k = 0 THEN d ELSE slots[f[k - 1]].parent.entry
      <3>1. CASE k = 0
        BY <2>1, <3>1
      <3>2. CASE k # 0
        <4>1. k - 1 \in 0 .. N
          BY <3>2, Numbers
        <4>2. f[k - 1] \in D
          BY <2>1, <4>1
        <4>3. g[f[k - 1]] = slots[f[k - 1]].parent.entry
          BY <4>2 DEF g
        <4>4. f[k] = g[f[k - 1]]
          BY <2>1, <3>2
        <4> QED
          BY <3>2, <4>3, <4>4
      <3> QED
        BY <3>1, <3>2
    <2>3. f = [k \in 0 .. N |-> IF k = 0 THEN d ELSE slots[f[k - 1]].parent.entry]
      <3> DEFINE h == [k \in 0 .. N |-> IF k = 0 THEN d ELSE slots[f[k - 1]].parent.entry]
      <3>1. DOMAIN f = 0 .. N /\ f = [k \in DOMAIN f |-> f[k]]
        BY <2>1
      <3>2. f = h
        BY <2>2, <3>1
      <3> QED
        BY <3>2
    <2> QED
      BY <2>3
  <1>4. u = [k \in 0 .. N |-> IF k = 0 THEN d ELSE slots[u[k - 1]].parent.entry]
    BY <1>3, Zenon
  <1>5. Upward(d) = {u[k] : k \in 0 .. N}
    BY Zenon DEF Upward
  <1> HIDE DEF u, D, g
  <1>6. /\ u[0] = d
        /\ \A k \in 0 .. N - 1 : u[k + 1] = slots[u[k]].parent.entry
    <2>1. 0 \in 0 .. N
      BY <1>2
    <2>2. u[0] = d
      BY <1>4, <2>1
    <2>3. ASSUME NEW k \in 0 .. N - 1 PROVE u[k + 1] = slots[u[k]].parent.entry
      <3>1. k + 1 \in 0 .. N /\ k + 1 # 0 /\ (k + 1) - 1 = k
        BY <1>2
      <3> QED
        BY <1>4, <3>1
    <2> QED
      BY <2>2, <2>3
  <1>7. 0 .. N \subseteq {k \in Nat : u[k] \in D}
    <2> DEFINE T == {k \in Nat : u[k] \in D}
    <2>1. 0 \in T
      BY <1>2, <1>6
    <2>2. ASSUME NEW k \in 0 .. N - 1, k \in T PROVE k + 1 \in T
      BY <1>1, <1>6, <2>2
    <2> HIDE DEF T
    <2>3. 0 .. N \subseteq T
      BY <1>2, <2>1, <2>2, InductionUpTo
    <2> QED
      BY <2>3 DEF T
  <1>8. \A k \in 0 .. N : u[k] \in D /\ u[k] \in Entries /\ slots[u[k]].used
    BY <1>2, <1>7
  <1>9. \A k \in 0 .. N - 1 : Up(slots)[u[k]] = u[k + 1]
    <2>1. ASSUME NEW k \in 0 .. N - 1 PROVE Up(slots)[u[k]] = u[k + 1]
      <3>1. k \in 0 .. N
        BY <1>2
      <3> QED
        BY <1>1, <1>6, <1>8, <3>1
    <2> QED
      BY <2>1
  <1>10. u \in [0 .. N -> Entries]
    <2>1. DOMAIN u = 0 .. N /\ u = [k \in DOMAIN u |-> u[k]]
      BY <1>4
    <2> QED
      BY <1>8, <2>1
  <1>11. \E n \in 0 .. N : u[n] = Root
    <2> SUFFICES ASSUME \A n \in 0 .. N : u[n] # Root PROVE FALSE
      OBVIOUS
    <2>1. u \in [0 .. N -> Entries \ {Root}]
      BY <1>10
    <2> QED
      BY <1>9, <2>1, NoLongPath
  <1> QED
    BY <1>5, <1>6, <1>8, <1>9, <1>10, <1>11

\* Where the reference of a record leads.
LEMMA UpAt ==
  ASSUME NEW c, NEW e \in Entries
  PROVE  Up(c)[e] = IF c[e].parent # NoRef THEN c[e].parent.entry ELSE None
  BY DEF Up

\* Where the references lead depends on them only.
LEMMA SameUp ==
  ASSUME NEW c, NEW d, \A e \in Entries : d[e].parent = c[e].parent
  PROVE  Up(d) = Up(c)
  BY DEF Up

\* One record gets another directory: no trap, if the directories above that one lead to
\* the root directory past the record.
LEMMA Redirected ==
  ASSUME slots \in [Entries -> Slot], HomesSound, NoTrap(Up(slots)), NEW new,
         NEW x \in Entries, NEW d \in Entries, Directory(d), x \notin Upward(d) \/ ~slots[x].used,
         new[x] = d, \A e \in Entries \ {x} : new[e] = Up(slots)[e]
  PROVE  NoTrap(new) /\ x # d
  <1>1. PICK u \in [0 .. N -> Entries], n \in 0 .. N :
          /\ u[0] = d /\ u[n] = Root
          /\ \A k \in 0 .. N - 1 : Up(slots)[u[k]] = u[k + 1]
          /\ \A k \in 0 .. N : u[k] \in Upward(d) /\ slots[u[k]].used
    BY UpwardEnds
  <1>2. 0 \in 0 .. N /\ \A k \in 0 .. N : u[k] # x
    BY <1>1, Numbers
  <1>3. x # d
    BY <1>1, <1>2
  <1>4. ASSUME NEW S \in SUBSET (Entries \ {Root}), S # {}, \A e \in S : new[e] \in S
        PROVE  FALSE
    <2>1. CASE x \notin S
      <3>1. \A e \in S : Up(slots)[e] \in S
        BY <1>4, <2>1
      <3> QED
        BY <1>4, <3>1 DEF NoTrap
    <2>2. CASE x \in S
      <3> DEFINE T == {k \in Nat : u[k] \in S}
      <3>1. 0 \in T
        BY <1>1, <1>4, <2>2
      <3>2. ASSUME NEW k \in 0 .. n - 1, k \in T PROVE k + 1 \in T
        <4>1. k \in 0 .. N - 1 /\ k \in 0 .. N /\ k + 1 \in Nat
          BY <1>1, Numbers
        <4>2. u[k] \in S /\ u[k] # x
          BY <1>2, <3>2, <4>1
        <4>3. new[u[k]] = u[k + 1]
          BY <1>1, <4>1, <4>2
        <4> QED
          BY <1>4, <4>1, <4>2, <4>3
      <3> HIDE DEF T
      <3>3. n \in Nat /\ n \in 0 .. n
        BY <1>1, Numbers
      <3>4. 0 .. n \subseteq T
        BY <3>1, <3>2, <3>3, InductionUpTo
      <3>5. u[n] \in S
        BY <3>3, <3>4 DEF T
      <3> QED
        BY <1>1, <3>5
    <2> QED
      BY <2>1, <2>2
  <1>5. NoTrap(new)
    BY <1>4 DEF NoTrap
  <1> QED
    BY <1>3, <1>5

\* A directory is not moved into itself or below.
LEMMA MoveTrap ==
  ASSUME slots \in [Entries -> Slot], HomesSound, NoTrap(Up(slots)),
         NEW b \in Entries, NEW d \in Entries, Move(b, d)
  PROVE  NoTrap(Up(slots)') /\ b # d
  <1>1. /\ slots[d].used /\ slots[d].folder
        /\ \A s \in Entries : slots'[s].parent = IF s = b THEN RefTo(d) ELSE slots[s].parent
    BY MoveEffect
  <1>2. Directory(d) /\ b \notin Upward(d)
    BY <1>1 DEF Move, Directory
  <1>3. RefTo(d) \in Ref /\ RefTo(d).entry = d
    BY RefToType DEF RefTo
  <1>4. PICK c, n : c = slots' /\ n = Up(c)
    OBVIOUS
  <1>5. n[b] = d
    BY <1>1, <1>3, <1>4, UpAt, Numbers
  <1>6. \A e \in Entries \ {b} : n[e] = Up(slots)[e]
    BY <1>1, <1>4, UpAt
  <1>7. NoTrap(n) /\ b # d
    BY <1>2, <1>5, <1>6, Redirected
  <1> QED
    BY <1>4, <1>7 DEF Up

\* A new file is put in a directory in use: the entry that it gets was not in use, so that
\* it is not above that directory, whatever deleted records still refer to it.
LEMMA CreateTrap ==
  ASSUME slots \in [Entries -> Slot], HomesSound, NoTrap(Up(slots)),
         NEW s \in Entries, NEW d \in Entries, NEW f \in BOOLEAN, Create(s, d, f)
  PROVE  NoTrap(Up(slots)')
  <1>1. /\ ~slots[s].used /\ slots[d].used /\ slots[d].folder
        /\ slots'[s].parent = RefTo(d)
        /\ \A e \in Entries \ {s} : slots'[e].parent = slots[e].parent
    BY CreateEffect
  <1>2. Directory(d)
    BY <1>1 DEF Directory
  <1>3. RefTo(d) \in Ref /\ RefTo(d).entry = d
    BY RefToType DEF RefTo
  <1>4. PICK c, n : c = slots' /\ n = Up(c)
    OBVIOUS
  <1>5. n[s] = d
    BY <1>1, <1>3, <1>4, UpAt, Numbers
  <1>6. \A e \in Entries \ {s} : n[e] = Up(slots)[e]
    BY <1>1, <1>4, UpAt
  <1>7. NoTrap(n)
    BY <1>1, <1>2, <1>5, <1>6, Redirected
  <1> QED
    BY <1>4, <1>7 DEF Up

\* An extension record has no name, so that the path of a deleted file that was in its
\* entry ends there.
LEMMA ExtendTrap ==
  ASSUME slots \in [Entries -> Slot], NoTrap(Up(slots)),
         NEW b \in Entries, NEW s \in Entries, Extend(b, s)
  PROVE  NoTrap(Up(slots)')
  <1>1. /\ slots'[s] = Allocated(s) /\ slots'[b].parent = slots[b].parent
        /\ \A e \in Entries \ {s, b} : slots'[e] = slots[e]
    BY ExtendEffect
  <1>2. slots'[s].parent = NoRef
    BY <1>1, AllocatedFields
  <1>3. PICK c, n : c = slots' /\ n = Up(c)
    OBVIOUS
  <1>4. \A e \in Entries : n[e] \in {Up(slots)[e], None}
    BY <1>1, <1>2, <1>3, UpAt
  <1>5. NoTrap(n)
    BY <1>4, FewerEdges
  <1> QED
    BY <1>3, <1>5 DEF Up

\* What an operation of the driver does to the parents: it changes one record, and leaves
\* no cycle.
LEMMA OperationPaths ==
  ASSUME slots \in [Entries -> Slot], HomesSound, PartsApart, NoTrap(Up(slots)), Operation
  PROVE  /\ HomesSound' /\ NoTrap(Up(slots)')
         /\ \E x \in Entries : \A e \in Entries \ {x} : slots'[e].parent = slots[e].parent
  <1>1. PICK s \in Entries, t \in Entries :
          \/ Create(s, t, TRUE) \/ Create(s, t, FALSE) \/ Extend(t, s) \/ Delete(s) \/ Move(s, t)
    BY DEF Operation
  <1>2. ASSUME NEW f \in BOOLEAN, Create(s, t, f)
        PROVE  /\ HomesSound' /\ NoTrap(Up(slots)')
               /\ \A e \in Entries \ {s} : slots'[e].parent = slots[e].parent
    BY <1>2, CreateEffect, CreateTrap, CreateHomes
  <1>3. CASE Create(s, t, TRUE) \/ Create(s, t, FALSE)
    BY <1>2, <1>3
  <1>4. CASE Extend(t, s)
    <2>1. /\ slots'[t].parent = slots[t].parent
          /\ \A e \in Entries \ {s, t} : slots'[e] = slots[e]
      BY <1>4, ExtendEffect
    <2>2. \A e \in Entries \ {s} : slots'[e].parent = slots[e].parent
      BY <2>1
    <2> QED
      BY <1>4, <2>2, ExtendTrap, ExtendHomes
  <1>5. CASE Delete(s)
    <2>1. \A e \in Entries : slots'[e].parent = slots[e].parent
      BY <1>5, DeleteEffect
    <2>2. Up(slots)' = Up(slots)
      BY <2>1 DEF Up
    <2> QED
      BY <1>5, <2>1, <2>2, DeleteHomes
  <1>6. CASE Move(s, t)
    <2>1. \A e \in Entries \ {s} : slots'[e].parent = slots[e].parent
      BY <1>6, MoveEffect
    <2> QED
      BY <1>6, <2>1, MoveTrap, MoveHomes
  <1> QED
    BY <1>1, <1>3, <1>4, <1>5, <1>6

-----------------------------------------------------------------------------
(* The table of a volume that changed at most once while it was read.      *)

\* The $MFT as it is read: what has been read already, and what will be read if nothing
\* changes any more.
AsRead == [e \in Entries |-> IF e < Len(image) THEN image[e + 1].content ELSE slots[e]]

Parsing == phase \in {"nonresident", "link", "parents", "sizes", "done"}

PathsInv ==
  /\ HomesSound /\ NoTrap(Up(slots))
  /\ phase = "volume" => image = <<>> /\ since = 0
  /\ since = 0 => AsRead = slots
  /\ since <= 1 => NoTrap(Up(AsRead))
  /\ since <= 1 /\ Parsing /\ sel = NoSelection => NoTrap(Up(Records))
  /\ phase = "done" /\ sel # NoSelection => \A k \in DOMAIN Records : Records[k].Parent = None

\* A single change that is made while the $MFT is read shows either as if it had been made
\* before, or as if it had not been made.
LEMMA UsePaths ==
  ASSUME IInv, PathsInv, UseVolume
  PROVE  PathsInv'
  <1>1. slots \in [Entries -> Slot] /\ since \in Nat /\ PartsApart /\ ops \in 0 .. MaxOps
    <2>1. Typed /\ PartsApart
      BY DEF IInv
    <2>2. slots \in [Entries -> Slot] /\ ops \in 0 .. MaxOps /\ since \in 0 .. ops
      BY <2>1 DEF Typed, TypeOK
    <2>3. ops \in Nat /\ since \in Nat
      BY <2>2, Numbers
    <2> QED
      BY <2>1, <2>2, <2>3
  <1>2. Operation /\ UNCHANGED <<call, phase, image, Records>> /\ phase \in {"volume", "collect"}
    BY DEF UseVolume
  <1>3. since' = IF phase = "collect" THEN since + 1 ELSE since
    BY DEF UseVolume
  <1>4. /\ HomesSound' /\ NoTrap(Up(slots)')
        /\ \E x \in Entries : \A e \in Entries \ {x} : slots'[e].parent = slots[e].parent
    BY <1>1, <1>2, OperationPaths DEF PathsInv
  <1>5. phase' = "volume" => image' = <<>> /\ since' = 0
    BY <1>2, <1>3 DEF PathsInv
  <1>6. slots' \in [Entries -> Slot]
    BY <1>1, <1>2, OperationTyped
  <1>7. \A e \in Entries : AsRead'[e] = IF e < Len(image) THEN image[e + 1].content ELSE slots'[e]
    BY <1>2 DEF AsRead
  <1>8. phase = "volume" => AsRead' = slots'
    <2> SUFFICES ASSUME phase = "volume" PROVE AsRead' = slots'
      OBVIOUS
    <2>1. Len(image) = 0
      BY EmptySeq DEF PathsInv
    <2>2. \A e \in Entries : AsRead'[e] = slots'[e]
      BY <1>7, <2>1, Numbers
    <2>3. AsRead' = [e \in Entries |-> AsRead'[e]] /\ slots' = [e \in Entries |-> slots'[e]]
      BY <1>6 DEF AsRead
    <2> QED
      BY <2>2, <2>3
  <1>9. since' = 0 => AsRead' = slots'
    BY <1>1, <1>2, <1>3, <1>8
  <1>10. ASSUME since' <= 1 PROVE NoTrap(Up(AsRead)')
    <2>1. CASE phase = "volume"
      BY <1>4, <1>8, <2>1 DEF Up
    <2>2. CASE phase = "collect"
      <3>1. since = 0
        BY <1>1, <1>3, <1>10, <2>2
      <3>2. AsRead = slots
        BY <3>1 DEF PathsInv
      <3>3. PICK x \in Entries : \A e \in Entries \ {x} : slots'[e].parent = slots[e].parent
        BY <1>4
      <3>4. \A e \in Entries : AsRead'[e] = IF e < Len(image) THEN slots[e] ELSE slots'[e]
        <4>1. \A e \in Entries : e < Len(image) => slots[e] = image[e + 1].content
          BY <3>2 DEF AsRead
        <4> QED
          BY <1>7, <4>1
      <3>5. PICK r, c, d : r = AsRead' /\ c = slots /\ d = slots'
        OBVIOUS
      <3>7. Up(AsRead)' = Up(r) /\ Up(slots)' = Up(d) /\ Up(slots) = Up(c)
        BY <3>5 DEF Up
      <3>8. CASE x < Len(image)
        <4>1. \A e \in Entries : r[e].parent = c[e].parent
          BY <3>3, <3>4, <3>5, <3>8
        <4>2. Up(r) = Up(c)
          BY <4>1, SameUp
        <4> QED
          BY <3>7, <4>2 DEF PathsInv
      <3>9. CASE ~(x < Len(image))
        <4>1. \A e \in Entries : r[e].parent = d[e].parent
          BY <3>3, <3>4, <3>5, <3>9
        <4>2. Up(r) = Up(d)
          BY <4>1, SameUp
        <4> QED
          BY <1>4, <3>7, <4>2
      <3> QED
        BY <3>8, <3>9
    <2> QED
      BY <1>2, <2>1, <2>2
  <1>11. ~Parsing' /\ phase' # "done"
    BY <1>2 DEF Parsing
  <1> QED
    BY <1>4, <1>5, <1>9, <1>10, <1>11 DEF PathsInv

\* Reading one more record changes nothing about what is read.
LEMMA CollectPaths ==
  ASSUME IInv, PathsInv, CollectMFTArea
  PROVE  PathsInv'
  <1>1. /\ slots \in [Entries -> Slot] /\ image \in Seq([content: Slot, bad: BOOLEAN])
        /\ Len(image) \in Nat
    BY DEF IInv, Typed, TypeOK
  <1>2. UNCHANGED <<slots, ops, call, since, Records>> /\ phase' \in {"collect", "select"}
    BY DEF CollectMFTArea
  <1>3. AsRead' = AsRead
    <2>1. CASE image' = image
      BY <1>2, <2>1 DEF AsRead
    <2>2. CASE image' # image
      <3>1. PICK bad \in BOOLEAN :
              image' = Append(image, [content |-> slots[Len(image)], bad |-> bad])
        BY <2>2 DEF CollectMFTArea, Collected
      <3>2. PICK l, r : l = Len(image) /\ r = [content |-> slots[l], bad |-> bad]
        OBVIOUS
      <3>3. l < N /\ l \in Nat
        BY <1>1, <2>2, <3>2 DEF CollectMFTArea
      <3>4. /\ Len(image') = l + 1 /\ image'[l + 1] = r /\ r.content = slots[l]
            /\ \A k \in 1 .. l : image'[k] = image[k]
        <4>1. slots[l] \in Slot
          BY <1>1, <3>2, <3>3, Numbers DEF Entries
        <4>2. r \in [content: Slot, bad: BOOLEAN] /\ image' = Append(image, r)
          BY <3>1, <3>2, <4>1
        <4> QED
          BY <1>1, <3>2, <4>2, AppendProperties
      <3>5. ASSUME NEW e \in Entries PROVE AsRead'[e] = AsRead[e]
        <4>1. /\ AsRead'[e] = IF e < l + 1 THEN image'[e + 1].content ELSE slots[e]
              /\ AsRead[e] = IF e < l THEN image[e + 1].content ELSE slots[e]
          BY <1>2, <3>2, <3>4 DEF AsRead
        <4>2. e \in Nat
          BY Numbers
        <4>3. CASE e < l
          <5>1. e + 1 \in 1 .. l /\ e < l + 1
            BY <3>3, <4>2, <4>3
          <5> QED
            BY <3>4, <4>1, <4>3, <5>1
        <4>4. CASE e = l
          <5>1. e < l + 1 /\ ~(e < l)
            BY <3>3, <4>2, <4>4
          <5> QED
            BY <3>4, <4>1, <4>4, <5>1
        <4>5. CASE e > l
          <5>1. ~(e < l + 1) /\ ~(e < l)
            BY <3>3, <4>2, <4>5
          <5> QED
            BY <4>1, <5>1
        <4> QED
          BY <3>3, <4>2, <4>3, <4>4, <4>5
      <3>6. AsRead = [e \in Entries |-> AsRead[e]] /\ AsRead' = [e \in Entries |-> AsRead'[e]]
        BY DEF AsRead
      <3> QED
        BY <3>5, <3>6
    <2> QED
      BY <2>1, <2>2
  <1>4. Up(AsRead)' = Up(AsRead) /\ Up(slots)' = Up(slots) /\ HomesSound' = HomesSound
    BY <1>2, <1>3 DEF Up, HomesSound, Directory, AtHome, RefTo
  <1> QED
    BY <1>2, <1>3, <1>4 DEF PathsInv, Parsing

\* A record in the table is the one that was read, or zero.
LEMMA TableIsRead ==
  ASSUME Typed, ProcessMFT, phase' = "nonresident", sel = NoSelection
  PROVE  \A e \in Entries : Records'[e].parent \in {AsRead[e].parent, NoRef}
  <1>1. /\ image \in Seq([content: Slot, bad: BOOLEAN]) /\ Len(image) = N
        /\ phase = "select" /\ N \in Nat
    BY Numbers DEF Typed, TypeOK, ProcessMFT
  <1> DEFINE kept(e) == e \in Chosen /\ Readable(e)
             index(e) == IF call.large THEN {} ELSE image[e + 1].content.index
             entry(e) == IF kept(e) THEN InMemory(image[e + 1].content, index(e)) ELSE Zero
  <1>2. phase' # "panic"
    OBVIOUS
  <1>3. Records' = [e \in 0 .. Copies - 1 |-> entry(e)]
    BY <1>2, Zenon DEF ProcessMFT
  <1>4. 0 .. Copies - 1 = Entries
    BY AllChosen DEF Entries
  <1>5. ASSUME NEW e \in Entries
        PROVE  entry(e).parent \in {AsRead[e].parent, NoRef}
    <2>1. CASE kept(e)
      <3>1. e < Len(image) /\ e + 1 \in 1 .. Len(image)
        BY <1>1 DEF Entries
      <3>2. PICK c, i : c = image[e + 1].content /\ i = index(e)
        OBVIOUS
      <3>3. c \in Slot
        <4>1. image[e + 1] \in [content: Slot, bad: BOOLEAN]
          BY <1>1, <3>1, ElementOfSeq
        <4> QED
          BY <3>2, <4>1
      <3>4. i \in SUBSET Ref
        BY <3>2, <3>3, SlotFields
      <3>5. InMemory(c, i).parent = c.parent
        BY <3>3, <3>4, InMemoryType
      <3>6. AsRead[e] = c
        BY <3>1, <3>2 DEF AsRead
      <3>7. entry(e) = InMemory(c, i)
        BY <2>1, <3>2
      <3> HIDE DEF entry
      <3> QED
        BY <3>5, <3>6, <3>7
    <2>2. CASE ~kept(e)
      <3>1. entry(e) = Zero
        BY <2>2
      <3> HIDE DEF entry
      <3> QED
        BY <3>1, ZeroType
    <2> QED
      BY <2>1, <2>2
  <1> HIDE DEF entry
  <1>6. \A e \in Entries : Records'[e] = entry(e)
    BY <1>3, <1>4
  <1> QED
    BY <1>5, <1>6

\* The table has no edges but those of the records that were read.
LEMMA ProcessPaths ==
  ASSUME IInv, PathsInv, ProcessMFT
  PROVE  PathsInv'
  <1>1. /\ UNCHANGED <<slots, ops, call, since, image>> /\ phase' \in {"panic", "nonresident"}
        /\ Typed
    BY DEF ProcessMFT, IInv
  <1>2. AsRead' = AsRead /\ Up(AsRead)' = Up(AsRead) /\ Up(slots)' = Up(slots)
        /\ HomesSound' = HomesSound /\ sel' = sel
    BY <1>1 DEF AsRead, Up, HomesSound, Directory, AtHome, RefTo, sel
  <1>3. ASSUME since <= 1, phase' = "nonresident", sel = NoSelection
        PROVE  NoTrap(Up(Records)')
    <2>1. NoTrap(Up(AsRead))
      BY <1>3 DEF PathsInv
    <2>2. \A e \in Entries : Records'[e].parent \in {AsRead[e].parent, NoRef}
      BY <1>1, <1>3, TableIsRead
    <2>3. PICK c, d : c = AsRead /\ d = Records'
      OBVIOUS
    <2>4. \A e \in Entries : Up(d)[e] \in {Up(c)[e], None}
      BY <2>2, <2>3, UpAt
    <2>5. NoTrap(Up(d))
      BY <2>1, <2>3, <2>4, FewerEdges
    <2>6. Up(Records)' = Up(d)
      BY <2>3 DEF Up
    <2> QED
      BY <2>5, <2>6
  <1>4. phase' = "nonresident" \/ ~Parsing'
    BY <1>1 DEF Parsing
  <1> QED
    BY <1>1, <1>2, <1>3, <1>4 DEF PathsInv

\* The other steps change neither what was read nor the references in the table.
LEMMA OtherPaths ==
  ASSUME IInv, PathsInv, UNCHANGED <<slots, call, since, image>>,
         \/ CreateLinkedRecords \/ FindParentRecords \/ CalculateFileSizes
         \/ Start \/ ProcessNonResidentRecords \/ Ended \/ UNCHANGED vars
  PROVE  PathsInv'
  <1>1. AsRead' = AsRead /\ Up(AsRead)' = Up(AsRead) /\ Up(slots)' = Up(slots)
        /\ HomesSound' = HomesSound /\ sel' = sel
    BY DEF AsRead, Up, HomesSound, Directory, AtHome, RefTo, sel
  <1>2. CASE CreateLinkedRecords \/ FindParentRecords \/ CalculateFileSizes
    <2>1. /\ phase \in {"link", "parents", "sizes"} /\ phase' \in {"parents", "sizes", "done"}
      BY <1>2 DEF CreateLinkedRecords, FindParentRecords, CalculateFileSizes
    <2>2. sel = NoSelection /\ DOMAIN Records = Entries /\ Typed
      BY <2>1 DEF IInv, TableSound, Linking
    <2>3. \A k \in Entries : Records'[k].parent = Records[k].parent
      BY <1>2, <2>2, OnlyPointers
    <2>5. PICK c, d : c = Records /\ d = Records'
      OBVIOUS
    <2>6. Up(d) = Up(c)
      BY <2>3, <2>5, SameUp
    <2>7. Up(Records)' = Up(d)
      BY <2>5 DEF Up
    <2>8. Parsing /\ phase' # "volume"
      BY <2>1 DEF Parsing
    <2> QED
      BY <1>1, <2>2, <2>5, <2>6, <2>7, <2>8 DEF PathsInv
  <1>3. CASE Start \/ ProcessNonResidentRecords
    <2>1. /\ UNCHANGED Records
          /\ \/ phase' = "collect"
             \/ /\ phase = "nonresident"
                /\ phase' = IF sel = NoSelection THEN "link" ELSE "done"
      BY <1>3 DEF Start, ProcessNonResidentRecords
    <2>2. Up(Records)' = Up(Records)
      BY <2>1 DEF Up
    <2>3. Parsing' => Parsing
      BY <2>1 DEF Parsing
    <2>4. phase' = "done" => \A k \in DOMAIN Records : Records[k].Parent = None
      BY <2>1 DEF IInv, TableSound
    <2> QED
      BY <1>1, <2>1, <2>2, <2>3, <2>4 DEF PathsInv
  <1>4. CASE Ended \/ UNCHANGED vars
    <2>1. UNCHANGED <<phase, Records>>
      BY <1>4 DEF Ended, vars
    <2>2. Up(Records)' = Up(Records)
      BY <2>1 DEF Up
    <2> QED
      BY <1>1, <2>1, <2>2 DEF PathsInv, Parsing
  <1> QED
    BY <1>2, <1>3, <1>4

\* The invariant of the paths is kept by every step.
LEMMA PathsStep ==
  ASSUME IInv, PathsInv, [Next]_vars
  PROVE  PathsInv'
  <1>1. CASE UseVolume
    BY <1>1, UsePaths
  <1>2. CASE CollectMFTArea
    BY <1>2, CollectPaths
  <1>3. CASE ProcessMFT
    BY <1>3, ProcessPaths
  <1>4. CASE \/ CreateLinkedRecords \/ FindParentRecords \/ CalculateFileSizes
             \/ Start \/ ProcessNonResidentRecords \/ Ended \/ UNCHANGED vars
    <2>1. UNCHANGED <<slots, call, since, image>>
      BY <1>4 DEF CreateLinkedRecords, FindParentRecords, CalculateFileSizes, Start,
                  ProcessNonResidentRecords, Ended, vars
    <2> QED
      BY <1>4, <2>1, OtherPaths
  <1> QED
    BY <1>1, <1>2, <1>3, <1>4 DEF Next

\* At first there are only the metadata files, and they are in the root directory.
LEMMA InitPaths == Init => PathsInv
  <1> SUFFICES ASSUME Init PROVE PathsInv
    OBVIOUS
  <1> DEFINE root == [entry |-> Root, seq |-> 1, gen |-> 1]
             System(e) == [Unused(e) EXCEPT !.seq = 1, !.gen = 1, !.used = TRUE, !.parent = root]
             x(e) == IF e = 0 THEN System(0)
                     ELSE IF e = Root THEN [System(Root) EXCEPT !.folder = TRUE]
                     ELSE Unused(e)
  <1>1. slots = [e \in Entries |-> x(e)] /\ phase = "volume" /\ since = 0 /\ image = <<>>
    BY DEF Init, VolumeInit
  <1>2. ASSUME NEW e \in Entries
        PROVE  /\ e \in {0, Root} => x(e).parent = root /\ x(e).gen = 1 /\ x(e).used
               /\ e \notin {0, Root} => x(e).parent = NoRef /\ ~x(e).used
               /\ e = Root => x(e).folder
               /\ e # Root => ~x(e).folder
    <2>1. PICK c, p : c = Unused(e) /\ p = root
      OBVIOUS
    <2>2. c \in Slot /\ ~c.used /\ ~c.folder /\ c.parent = NoRef
      BY <2>1, UnusedType DEF Unused
    <2>3. PICK y : y = [c EXCEPT !.seq = 1, !.gen = 1, !.used = TRUE, !.parent = p]
      OBVIOUS
    <2>4. y.gen = 1 /\ y.used /\ y.parent = p /\ ~y.folder
      BY <2>2, <2>3 DEF Slot
    <2>5. PICK z : z = [y EXCEPT !.folder = TRUE]
      OBVIOUS
    <2>6. z.gen = 1 /\ z.used /\ z.parent = p /\ z.folder
      BY <2>2, <2>3, <2>4, <2>5 DEF Slot
    <2>7. 0 # Root
      BY VolumeAssumption
    <2>8. x(e) = IF e = 0 THEN y ELSE IF e = Root THEN z ELSE c
      BY <2>1, <2>3, <2>5
    <2> HIDE DEF x
    <2> QED
      BY <2>1, <2>2, <2>4, <2>6, <2>7, <2>8
  <1> HIDE DEF x
  <1>3. root # NoRef /\ root.entry = Root /\ root.gen = 1
    <2>1. None # Root
      BY Numbers
    <2> QED
      BY <2>1 DEF NoRef
  <1> HIDE DEF root
  <1>4. \A e \in Entries :
          /\ e \in {0, Root} => slots[e].parent = root /\ slots[e].gen = 1 /\ slots[e].used
          /\ e \notin {0, Root} => slots[e].parent = NoRef /\ ~slots[e].used
          /\ e = Root => slots[e].folder
          /\ e # Root => ~slots[e].folder
    BY <1>1, <1>2
  <1>5. Root \in Entries /\ 0 \in Entries
    BY Numbers
  <1>6. Directory(Root) /\ slots[Root].gen = 1
    BY <1>4, <1>5 DEF Directory
  <1>7. HomesSound
    <2>1. ASSUME NEW b \in Entries, slots[b].parent # NoRef
          PROVE  AtHome(b)
      <3>1. b \in {0, Root} /\ slots[b].parent = root
        BY <1>4, <2>1
      <3>2. slots[b].parent.entry = Root
        BY <1>3, <3>1
      <3> QED
        BY <1>6, <3>1, <3>2 DEF AtHome
    <2> QED
      BY <1>3, <1>4, <1>6, <2>1 DEF HomesSound
  <1>8. NoTrap(Up(slots))
    <2>1. ASSUME NEW e \in Entries PROVE Up(slots)[e] \in {Root, None}
      <3>1. CASE slots[e].parent = NoRef
        BY <3>1, UpAt
      <3>2. CASE slots[e].parent # NoRef
        <4>1. slots[e].parent.entry = Root
          BY <1>3, <1>4, <3>2
        <4> QED
          BY <4>1, UpAt
      <3> QED
        BY <3>1, <3>2
    <2>2. ASSUME NEW S \in SUBSET (Entries \ {Root}), S # {}
          PROVE  \E e \in S : Up(slots)[e] \notin S
      <3>1. PICK e \in S : TRUE
        BY <2>2
      <3>2. Up(slots)[e] \in {Root, None} /\ None \notin Entries
        BY <2>1, Numbers
      <3> QED
        BY <3>1, <3>2
    <2> QED
      BY <2>2 DEF NoTrap
  <1>9. AsRead = slots
    <2>1. \A e \in Entries : ~(e < Len(image))
      BY <1>1, EmptySeq, Numbers
    <2>2. \A e \in Entries : AsRead[e] = slots[e]
      BY <2>1 DEF AsRead
    <2>3. AsRead = [e \in Entries |-> AsRead[e]] /\ slots = [e \in Entries |-> slots[e]]
      BY <1>1 DEF AsRead
    <2> QED
      BY <2>2, <2>3
  <1> QED
    BY <1>1, <1>7, <1>8, <1>9 DEF PathsInv, Parsing

\* The parents in the finished table are entries that the records refer to.
LEMMA ParentsAreUp ==
  ASSUME IInv, phase = "done", sel = NoSelection, NEW e \in Entries
  PROVE  /\ DOMAIN Records = Entries
         /\ Records[e].Parent \in {Up(Records)[e], None} /\ Records[e].Parent \in Entries \union {None}
  <1>1. DOMAIN Records = Entries /\ Typed /\ Records[e].Parent = ParentOf(e)
    BY DEF IInv, TableSound
  <1>2. Records[e] \in MemRecord
    BY <1>1 DEF Typed, TypeOK
  <1>3. Records[e].Parent \in Entries \union {None}
    BY <1>2 DEF MemRecord
  <1>4. ParentOf(e) \in {Up(Records)[e], None}
    BY UpAt DEF ParentOf
  <1> QED
    BY <1>1, <1>3, <1>4

\* The loop of GetFullPath from a parent on has stopped after as many turns as there are
\* entries.
WalkEnds(start) ==
  LET up[j \in 0 .. N] ==
        IF j = 0 THEN start
        ELSE IF PathStops(up[j - 1]) THEN None
        ELSE Records[up[j - 1]].Parent
  IN PathStops(up[N])

\* What follows parents until it stops has stopped after as many steps as there are
\* entries.
LEMMA WalkStops ==
  ASSUME NEW next, NoTrap(next), NEW D \in SUBSET (Entries \union {None}), None \in D,
         NEW start \in D,
         \A e \in D : ~PathStops(e) => Records[e].Parent = next[e] /\ Records[e].Parent \in D
  PROVE  WalkEnds(start)
  <1> DEFINE g == [e \in D |-> IF PathStops(e) THEN None ELSE Records[e].Parent]
             Step(u, j) == IF j = 0 THEN start
                           ELSE IF PathStops(u[j - 1]) THEN None ELSE Records[u[j - 1]].Parent
             u == CHOOSE u : u = [j \in 0 .. N |-> Step(u, j)]
  <1>1. N \in Nat /\ g \in [D -> D]
    BY Numbers
  <1>2. \E f : f = [j \in 0 .. N |-> Step(f, j)]
    <2> HIDE DEF g
    <2>1. PICK f : IsIterated(f, N, D, g, start)
      BY <1>1, Iterates, Zenon
    <2>2. f \in [0 .. N -> D] /\ f = [j \in 0 .. N |-> IF j = 0 THEN start ELSE g[f[j - 1]]]
      BY <2>1, Zenon DEF IsIterated
    <2>3. ASSUME NEW j \in 0 .. N PROVE f[j] = Step(f, j)
      <3>1. CASE j = 0
        BY <2>2, <3>1
      <3>2. CASE j # 0
        <4>1. j - 1 \in 0 .. N
          BY <1>1, <3>2
        <4>2. f[j - 1] \in D
          BY <2>2, <4>1
        <4>3. f[j] = g[f[j - 1]]
          BY <2>2, <3>2
        <4> QED
          BY <3>2, <4>2, <4>3 DEF g
      <3> QED
        BY <3>1, <3>2
    <2>4. DOMAIN f = 0 .. N /\ f = [j \in DOMAIN f |-> f[j]]
      BY <2>2
    <2> HIDE DEF Step
    <2>5. f = [j \in 0 .. N |-> Step(f, j)]
      BY <2>3, <2>4
    <2> QED
      BY <2>5
  <1>3. u = [j \in 0 .. N |-> Step(u, j)]
    BY <1>2, Zenon
  <1>4. SUFFICES PathStops(u[N])
    BY Zenon DEF WalkEnds
  <1> HIDE DEF u, g
  <1>5. \A j \in 0 .. N : u[j] = Step(u, j)
    <2> HIDE DEF Step
    <2> QED
      BY <1>3, Zenon
  <1>6. ASSUME NEW j \in 0 .. N - 1
        PROVE  u[j + 1] = IF PathStops(u[j]) THEN None ELSE Records[u[j]].Parent
    <2>1. j + 1 \in 0 .. N /\ j + 1 # 0 /\ (j + 1) - 1 = j
      BY <1>1
    <2> QED
      BY <1>5, <2>1
  <1>7. u[0] = start /\ 0 \in 0 .. N
    BY <1>1, <1>5
  <1>8. \A j \in 0 .. N : u[j] \in D
    <2> DEFINE T == {j \in Nat : u[j] \in D}
    <2>1. 0 \in T
      BY <1>7
    <2>2. ASSUME NEW j \in 0 .. N - 1, j \in T PROVE j + 1 \in T
      BY <1>6, <2>2
    <2> HIDE DEF T
    <2>3. 0 .. N \subseteq T
      BY <1>1, <2>1, <2>2, InductionUpTo
    <2> QED
      BY <2>3 DEF T
  <1>9. ASSUME ~PathStops(u[N]) PROVE FALSE
    <2> DEFINE T == {m \in Nat : ~PathStops(u[N - m])}
    <2>1. 0 \in T
      BY <1>1, <1>9
    <2>2. ASSUME NEW m \in 0 .. N - 1, m \in T PROVE m + 1 \in T
      <3>1. PICK j \in 0 .. N - 1 : j = N - (m + 1) /\ j + 1 = N - m
        BY <1>1
      <3>2. ~PathStops(u[j + 1])
        BY <2>2, <3>1
      <3>3. ~PathStops(u[j])
        BY <1>6, <3>2 DEF PathStops
      <3> QED
        BY <3>1, <3>3
    <2> HIDE DEF T
    <2>3. 0 .. N \subseteq T
      BY <1>1, <2>1, <2>2, InductionUpTo
    <2>4. ASSUME NEW j \in 0 .. N PROVE ~PathStops(u[j])
      <3>1. PICK m \in 0 .. N : m = N - j /\ j = N - m
        BY <1>1
      <3>2. m \in T
        BY <2>3
      <3> QED
        BY <3>1, <3>2 DEF T
    <2>5. \A j \in 0 .. N : u[j] \in Entries \ {Root}
      BY <1>8, <2>4 DEF PathStops
    <2>6. u \in [0 .. N -> Entries \ {Root}]
      <3>1. DOMAIN u = 0 .. N /\ u = [j \in DOMAIN u |-> u[j]]
        <4> HIDE DEF Step
        <4> QED
          BY <1>3
      <3> QED
        BY <2>5, <3>1
    <2>7. ASSUME NEW j \in 0 .. N - 1 PROVE next[u[j]] = u[j + 1]
      <3>1. j \in 0 .. N
        BY <1>1
      <3> QED
        BY <1>6, <1>8, <2>4, <3>1
    <2> QED
      BY <2>6, <2>7, NoLongPath
  <1> QED
    BY <1>9

\* The loop of GetFullPath ends.
LEMMA PathsStop == IInv /\ PathsInv => PathsEnd
  <1> SUFFICES ASSUME IInv, PathsInv, phase = "done", since <= 1, NEW k \in DOMAIN Records
               PROVE  WalkEnds(Records[k].Parent)
    BY DEF PathsEnd, WalkEnds
  <1>1. None \notin Entries /\ \A e : PathStops(e) <=> e \in {None, Root}
    BY Numbers DEF PathStops
  <1>2. CASE sel = NoSelection
    <2>1. NoTrap(Up(Records))
      BY <1>2 DEF PathsInv, Parsing
    <2>2. PICK D : D = Entries \union {None}
      OBVIOUS
    <2>3. \A e \in Entries :
            Records[e].Parent \in {Up(Records)[e], None} /\ Records[e].Parent \in D
      BY <1>2, <2>2, ParentsAreUp
    <2>4. k \in Entries
      BY <1>2, ParentsAreUp, Numbers
    <2>5. PICK next : next = [e \in Entries |-> Records[e].Parent]
      OBVIOUS
    <2>6. NoTrap(next)
      BY <2>1, <2>3, <2>5, FewerEdges
    <2>7. /\ D \in SUBSET (Entries \union {None}) /\ None \in D /\ Records[k].Parent \in D
          /\ \A e \in D : ~PathStops(e) => Records[e].Parent = next[e] /\ Records[e].Parent \in D
      BY <1>1, <2>2, <2>3, <2>4, <2>5
    <2> QED
      BY <2>6, <2>7, WalkStops
  <1>3. CASE sel # NoSelection
    <2>1. Records[k].Parent = None
      BY <1>3 DEF PathsInv
    <2>2. PICK next, D : next = [e \in Entries |-> None] /\ D = {None}
      OBVIOUS
    <2>3. NoTrap(next)
      BY <1>1, <2>2 DEF NoTrap
    <2>4. /\ D \in SUBSET (Entries \union {None}) /\ None \in D /\ Records[k].Parent \in D
          /\ \A e \in D : ~PathStops(e) => Records[e].Parent = next[e] /\ Records[e].Parent \in D
      BY <1>1, <2>1, <2>2
    <2> QED
      BY <2>3, <2>4, WalkStops
  <1> QED
    BY <1>2, <1>3

\* The loop of GetFullPath over the parents of a record ends at the root directory or at a
\* record without a parent, for every table of an image, and for every table of a volume in
\* use that changed at most once while it was read, whatever the driver counts: also where
\* a deleted record takes the file that has got the entry of its directory for its parent.
THEOREM AllPathsEnd == Spec => []PathsEnd
  <1>1. IInv /\ [Next]_vars => IInv'
    BY IInvStep
  <1>2. IInv /\ PathsInv /\ [Next]_vars => PathsInv'
    BY PathsStep
  <1> QED
    BY InitIInv, InitPaths, <1>1, <1>2, PathsStop, PTL DEF Spec
=============================================================================
