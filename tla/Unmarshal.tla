----------------------------- MODULE Unmarshal -----------------------------
(***************************************************************************)
(* utils.Unmarshal fills the fields of a struct from bytes, one after the  *)
(* other, by reflection.  A field of a kind it has no case for keeps its   *)
(* zero value, and the fields behind it are read from where it should be.  *)
(***************************************************************************)
EXTENDS Integers, Sequences

\* A field is <<name, kind, bytes it has where it is stored>>, 0 of them for one that is not
\* stored: of these, pointers, slices and text are left out of a struct.
FieldName(f) == f[1]
Kind(f) == f[2]
Stored(f) == f[3]

Width == [uint8 |-> 1, uint16 |-> 2, uint32 |-> 4, uint64 |-> 8, int64 |-> 8, bool |-> 1]
Handled == DOMAIN Width \union {"array", "struct"}

\* A reference to a record, ParRef, takes six bytes; its sequence number is the next
\* field. A time, or an array, takes as many bytes as it has.
Advance(f) ==
  IF Kind(f) \notin Handled THEN 0
  ELSE IF FieldName(f) = "ParRef" THEN 6
  ELSE IF Kind(f) \in DOMAIN Width THEN Width[Kind(f)] ELSE Stored(f)

\* What the sizes before each one of a sequence add up to.
Before(sizes) ==
  LET at[k \in 1 .. Len(sizes)] == IF k = 1 THEN 0 ELSE at[k - 1] + sizes[k - 1] IN at

\* Where each field of a struct is read, and where it is stored.
Offsets(s) == Before([k \in 1 .. Len(s) |-> Advance(s[k])])
StoredAt(s) == Before([k \in 1 .. Len(s) |-> Stored(s[k])])

Position(s, name) == CHOOSE k \in 1 .. Len(s) : FieldName(s[k]) = name
OffsetOf(s, name) == Offsets(s)[Position(s, name)]
IsFilled(s, name) == Kind(s[Position(s, name)]) \in Handled
=============================================================================
