----------------------------- MODULE NTFSVolume -----------------------------
(***************************************************************************)
(* The $MFT of an NTFS volume and what a file system driver does to it.    *)
(* This is not code of the repository: it is the environment that the code *)
(* in FS/NTFS/MFT relies on, and it generates the tables of sound volumes, *)
(* with deleted records and with entries that have been allocated again.   *)
(*                                                                         *)
(* MFT.go:66 says of the sequence number that it "is incremented when the  *)
(* entry is either allocated or unallocated, determined by the OS".        *)
(***************************************************************************)
EXTENDS Integers, Sequences, FiniteSets

CONSTANTS
  N,          \* number of entries of the $MFT
  Root,       \* the entry of the root directory (5 on a disk)
  SeqModulus,     \* sequence numbers are counted modulo this number (uint16)
  CountedOn,  \* what increments the sequence number: "alloc", "free" or both
  MaxOps      \* bound on the operations of the driver

ASSUME VolumeAssumption ==
  /\ N \in Nat /\ Root \in 1 .. N - 1
  /\ MaxOps \in Nat /\ SeqModulus \in Nat /\ MaxOps + 2 < SeqModulus  \* no sequence number wraps around
  /\ CountedOn \in {{"alloc"}, {"free"}, {"alloc", "free"}}

VARIABLES
  slots,  \* the $MFT; gen counts the files that had an entry, and is not on the disk
  ops     \* operations so far

Entries == 0 .. N - 1
None == -1

Ref == [entry: Entries, seq: 0 .. SeqModulus - 1, gen: Nat]
NoRef == [entry |-> None, seq |-> 0, gen |-> 0]

\* parent: the reference in the FileName attribute; alist: the DATA entries of the
\* attribute list; index: the files and directories in the $I30 index.
Slot == [entry: Entries, seq: 0 .. SeqModulus - 1, gen: Nat, used: BOOLEAN, folder: BOOLEAN,
         parent: Ref \union {NoRef}, alist: Seq(Ref), index: SUBSET Ref]

RefTo(s) == [entry |-> s, seq |-> slots[s].seq, gen |-> slots[s].gen]

Unused(e) == [entry |-> e, seq |-> 0, gen |-> 0, used |-> FALSE, folder |-> FALSE,
              parent |-> NoRef, alist |-> <<>>, index |-> {}]

\* The metadata files: $MFT in entry 0 and the root directory.
VolumeInit ==
  LET root == [entry |-> Root, seq |-> 1, gen |-> 1]
      System(e) == [Unused(e) EXCEPT !.seq = 1, !.gen = 1, !.used = TRUE, !.parent = root]
  IN /\ slots = [e \in Entries |->
                  IF e = 0 THEN System(0)
                  ELSE IF e = Root THEN [System(Root) EXCEPT !.folder = TRUE]
                  ELSE Unused(e)]
     /\ ops = 0

Free(s) == s \notin {0, Root} /\ ~slots[s].used
InUse(s) == s \notin {0, Root} /\ slots[s].used /\ slots[s].parent # NoRef
Directory(d) == slots[d].used /\ slots[d].folder

Counted(event, seq) == IF event \in CountedOn THEN (seq + 1) % SeqModulus ELSE seq
AllocatedSeq(s) == IF slots[s].gen = 0 THEN 1 ELSE Counted("alloc", slots[s].seq)
Allocated(s) == [Unused(s) EXCEPT !.seq = AllocatedSeq(s), !.gen = slots[s].gen + 1, !.used = TRUE]
NewRef(s) == [entry |-> s, seq |-> Allocated(s).seq, gen |-> Allocated(s).gen]

Create(s, d, isFolder) ==
  /\ Free(s) /\ Directory(d)
  /\ slots' = [slots EXCEPT ![s] = [Allocated(s) EXCEPT !.folder = isFolder, !.parent = RefTo(d)],
                            ![d].index = @ \union {NewRef(s)}]

\* The DATA of a file outgrows its record: it continues in an extension record, which
\* has no name, and the attribute list of the file names both.
Extend(b, s) ==
  /\ InUse(b) /\ ~slots[b].folder /\ Free(s)
  /\ slots' = [slots EXCEPT ![s] = Allocated(s),
                            ![b].alist = (IF @ = <<>> THEN <<RefTo(b)>> ELSE @) \o <<NewRef(s)>>]

\* A deleted record keeps its attributes; so do the extension records of it.
Delete(b) ==
  /\ InUse(b) /\ slots[b].index = {}
  /\ LET freed == {b} \union {slots[b].alist[k].entry : k \in DOMAIN slots[b].alist}
     IN slots' = [s \in Entries |->
          IF s \in freed
          THEN [slots[s] EXCEPT !.used = FALSE, !.seq = Counted("free", @)]
          ELSE [slots[s] EXCEPT !.index = @ \ {RefTo(b)}]]

\* d and the directories it is in.
Upward(d) ==
  LET up[k \in 0 .. N] == IF k = 0 THEN d ELSE slots[up[k - 1]].parent.entry
  IN {up[k] : k \in 0 .. N}

Move(b, d) ==
  /\ InUse(b) /\ Directory(d) /\ b \notin Upward(d) /\ slots[b].parent # RefTo(d)
  /\ slots' = [s \in Entries |->
       IF s = b THEN [slots[b] EXCEPT !.parent = RefTo(d)]
       ELSE IF s = d THEN [slots[d] EXCEPT !.index = @ \union {RefTo(b)}]
       ELSE [slots[s] EXCEPT !.index = @ \ {RefTo(b)}]]

Operation ==
  /\ ops < MaxOps /\ ops' = ops + 1
  /\ \E s, t \in Entries :
       \/ Create(s, t, TRUE)
       \/ Create(s, t, FALSE)
       \/ Extend(t, s)
       \/ s = t /\ Delete(s)
       \/ Move(s, t)
=============================================================================
