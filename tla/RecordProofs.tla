---------------------------- MODULE RecordProofs ----------------------------
(***************************************************************************)
(* Theorems about RecordParser and RecordFilters, for every set of tables  *)
(* and command lines: types; what was stored is in memory; what was asked  *)
(* for is selected; what Show panics over.                                 *)
(***************************************************************************)
EXTENDS RecordFilters, SequenceLemmas, FiniteSetTheorems

-----------------------------------------------------------------------------
(* The recursive functions of the parser: there are such functions, hence  *)
(* they are what their definitions say.                                    *)

IsSums(sum, lens, n) == sum = [k \in 0 .. n |-> IF k = 0 THEN 0 ELSE sum[k - 1] + lens[k]]

\* The offsets of the attributes exist: one length more is one sum more.
LEMMA SumsExist ==
  ASSUME NEW lens, NEW n \in Nat
  PROVE  \E sum : IsSums(sum, lens, n)
  <1> DEFINE T == {k \in Nat : \E sum : IsSums(sum, lens, k)}
  <1>1. 0 \in T
    <2>1. IsSums([i \in 0 .. 0 |-> 0], lens, 0)
      BY DEF IsSums
    <2> QED
      BY <2>1
  <1>2. ASSUME NEW k \in 0 .. n - 1, k \in T
        PROVE  k + 1 \in T
    <2>1. PICK sum : IsSums(sum, lens, k)
      BY <1>2
    <2> DEFINE g == [i \in 0 .. k + 1 |-> IF i = 0 THEN 0 ELSE sum[i - 1] + lens[i]]
    <2>2. \A i \in 0 .. k : g[i] = sum[i]
      BY <2>1 DEF IsSums
    <2>3. \A i \in 0 .. k + 1 : i # 0 => sum[i - 1] = g[i - 1]
      <3>1. \A i \in 0 .. k + 1 : i # 0 => i - 1 \in 0 .. k
        OBVIOUS
      <3> HIDE DEF g
      <3> QED
        BY <2>2, <3>1
    <2>4. g = [i \in 0 .. k + 1 |-> IF i = 0 THEN 0 ELSE g[i - 1] + lens[i]]
      <3>1. ASSUME NEW i \in 0 .. k + 1
            PROVE  (IF i = 0 THEN 0 ELSE sum[i - 1] + lens[i]) = (IF i = 0 THEN 0 ELSE g[i - 1] + lens[i])
        <4> HIDE DEF g
        <4> QED
          BY <2>3
      <3> QED
        BY <3>1
    <2> HIDE DEF g
    <2>5. IsSums(g, lens, k + 1)
      BY <2>4 DEF IsSums
    <2> QED
      BY <2>5
  <1> HIDE DEF T
  <1>3. n \in T
    BY <1>1, <1>2, InductionUpTo
  <1> QED
    BY <1>3 DEF T

\* The sums, one after the other.
LEMMA SumsAt ==
  ASSUME NEW lens, NEW n \in Nat, n = Len(lens)
  PROVE  /\ Sums(lens)[0] = 0
         /\ \A k \in 1 .. n : Sums(lens)[k] = Sums(lens)[k - 1] + lens[k]
  <1>1. Sums(lens) = CHOOSE sum : IsSums(sum, lens, Len(lens))
    BY Zenon DEF Sums, IsSums
  <1>2. IsSums(Sums(lens), lens, n)
    BY <1>1, SumsExist, Zenon
  <1> QED
    BY <1>2 DEF IsSums

\* They are naturals that never fall.
LEMMA SumsRise ==
  ASSUME NEW n \in Nat, NEW lens \in [1 .. n -> Nat], n = Len(lens)
  PROVE  /\ \A k \in 0 .. n : Sums(lens)[k] \in Nat
         /\ \A k \in 0 .. n : \A m \in k .. n : Sums(lens)[k] <= Sums(lens)[m]
         /\ \A k \in 0 .. n : \A m \in k + 1 .. n :
              (\A i \in 1 .. n : lens[i] > 0) => Sums(lens)[k] < Sums(lens)[m]
  <1> DEFINE s == Sums(lens)
             positive == \A i \in 1 .. n : lens[i] > 0
             T == {m \in 0 .. n : /\ s[m] \in Nat
                                  /\ \A k \in 0 .. m : s[k] \in Nat /\ s[k] <= s[m]
                                  /\ \A k \in 0 .. m - 1 : positive => s[k] < s[m]}
  <1>0. s[0] = 0 /\ \A k \in 0 .. n - 1 : s[k + 1] = s[k] + lens[k + 1]
    <2>1. s[0] = 0 /\ \A k \in 1 .. n : s[k] = s[k - 1] + lens[k]
      BY SumsAt
    <2> HIDE DEF s
    <2>2. ASSUME NEW k \in 0 .. n - 1 PROVE s[k + 1] = s[k] + lens[k + 1]
      <3>1. k + 1 \in 1 .. n /\ (k + 1) - 1 = k
        OBVIOUS
      <3> QED
        BY <2>1, <3>1
    <2> QED
      BY <2>1, <2>2
  <1> HIDE DEF s
  <1>1. 0 \in T
    BY <1>0
  <1>2. ASSUME NEW m \in 0 .. n - 1, m \in T
        PROVE  m + 1 \in T
    <2>1. /\ s[m] \in Nat /\ \A k \in 0 .. m : s[k] \in Nat /\ s[k] <= s[m]
          /\ \A k \in 0 .. m - 1 : positive => s[k] < s[m]
      BY <1>2
    <2>2. m + 1 \in 1 .. n /\ lens[m + 1] \in Nat /\ s[m + 1] = s[m] + lens[m + 1]
      BY <1>0
    <2>3. positive => lens[m + 1] > 0
      BY <2>2
    <2> HIDE DEF positive
    <2>4. \A k \in 0 .. m + 1 : s[k] \in Nat /\ s[k] <= s[m + 1]
      BY <2>1, <2>2
    <2>5. \A k \in 0 .. m : positive => s[k] < s[m + 1]
      BY <2>1, <2>2, <2>3
    <2> QED
      BY <2>2, <2>4, <2>5
  <1>3. 0 .. n \subseteq T
    <2> HIDE DEF T
    <2> QED
      BY <1>1, <1>2, InductionUpTo
  <1>4. ASSUME NEW k \in 0 .. n, NEW m \in k .. n
        PROVE  s[k] \in Nat /\ s[k] <= s[m]
    <2>1. m \in T /\ k \in 0 .. m
      BY <1>3
    <2> QED
      BY <2>1
  <1>5. ASSUME NEW k \in 0 .. n, NEW m \in k + 1 .. n, positive
        PROVE  s[k] < s[m]
    <2>1. m \in T /\ k \in 0 .. m - 1
      BY <1>3
    <2> QED
      BY <1>5, <2>1
  <1>6. \A k \in 0 .. n : s[k] \in Nat
    BY <1>3
  <1>7. \A k \in 0 .. n : \A m \in k + 1 .. n : positive => s[k] < s[m]
    BY <1>5
  <1> HIDE DEF T
  <1> QED
    BY <1>4, <1>6, <1>7 DEF s

-----------------------------------------------------------------------------
(* Where the attributes of a record begin.                                 *)

\* What is taken for granted of a table: it is what a file system writes.
LEMMA JobType ==
  ASSUME NEW j \in Jobs
  PROVE  /\ j.file \in BOOLEAN /\ j.disk \in Seq(DiskRecord) /\ Len(j.disk) \in Nat
         /\ \A n \in 1 .. Len(j.disk) : j.disk[n] \in DiskRecord /\ IsSound(j.disk[n])
  <1>1. j.file \in BOOLEAN /\ j.disk \in Seq(DiskRecord) /\ \A k \in DOMAIN j.disk : IsSound(j.disk[k])
    BY ParserAssumption
  <1>2. Len(j.disk) \in Nat /\ DOMAIN j.disk = 1 .. Len(j.disk)
    BY <1>1, LenProperties
  <1>3. \A n \in 1 .. Len(j.disk) : j.disk[n] \in DiskRecord
    BY <1>1, ElementOfSeq
  <1> QED
    BY <1>1, <1>2, <1>3

\* The attributes of a record, and what each one is.
LEMMA AttributesType ==
  ASSUME NEW d \in DiskRecord, IsSound(d)
  PROVE  /\ d.attrs \in Seq(DiskAttribute) /\ Len(d.attrs) \in Nat
         /\ DOMAIN d.attrs = 1 .. Len(d.attrs)
         /\ \A k \in 1 .. Len(d.attrs) :
              /\ d.attrs[k] \in DiskAttribute /\ d.attrs[k].len \in Nat /\ d.attrs[k].len > 0
              /\ d.attrs[k].type = "FileName"
                   => ~d.attrs[k].nonResident /\ Len(d.attrs[k].fnames) = 1
              /\ d.attrs[k].nonResident => IsRunList(d.attrs[k].bytes, d.attrs[k].runs)
              /\ HasRoom(d.attrs[k])
              /\ d.attrs[k].index # <<>>
                   => /\ Last(d.attrs[k].index) >= EmptyEntry
                      /\ \A i \in DOMAIN d.attrs[k].index : d.attrs[k].index[i] > 0
  <1>1. d.attrs \in Seq(DiskAttribute)
    BY DEF DiskRecord
  <1>2. Len(d.attrs) \in Nat /\ DOMAIN d.attrs = 1 .. Len(d.attrs)
    BY <1>1, LenProperties
  <1>3. \A k \in 1 .. Len(d.attrs) : d.attrs[k] \in DiskAttribute
    BY <1>1, ElementOfSeq
  <1>4. \A k \in 1 .. Len(d.attrs) : d.attrs[k].len \in Nat
    BY <1>3 DEF DiskAttribute
  <1> QED
    BY <1>1, <1>2, <1>3, <1>4, Zenon DEF IsSound

\* The layout of a record of 1024 bytes: the end marker has room behind the header.
LEMMA RecordSizes ==
  /\ AttrOff \in Nat /\ RecordSize \in Nat /\ EndMarker \in Nat
  /\ AttrOff > 0 /\ EndMarker > 0 /\ AttrOff + EndMarker <= RecordSize
  BY DEF AttrOff, RecordSize, EndMarker

\* The attributes lie behind each other from AttrOff on, in front of the end marker.
LEMMA StartsRise ==
  ASSUME NEW d \in DiskRecord, IsSound(d), NEW n \in Nat, n = Len(d.attrs)
  PROVE  /\ StartOf(d.attrs, 1) = AttrOff
         /\ \A i \in 1 .. n : StartOf(d.attrs, i + 1) = StartOf(d.attrs, i) + d.attrs[i].len
         /\ \A i \in 1 .. n + 1 : StartOf(d.attrs, i) \in AttrOff .. RecordSize - EndMarker
         /\ \A i \in 1 .. n + 1 : \A j \in i + 1 .. n + 1 : StartOf(d.attrs, i) < StartOf(d.attrs, j)
  <1> DEFINE lens == Lens(d.attrs)
             s == Sums(lens)
  <1>1. /\ DOMAIN d.attrs = 1 .. n
        /\ \A k \in 1 .. n : d.attrs[k].len \in Nat /\ d.attrs[k].len > 0
    BY AttributesType
  <1>2. /\ lens \in [1 .. n -> Nat] /\ Len(lens) = n
        /\ \A k \in 1 .. n : lens[k] = d.attrs[k].len /\ lens[k] > 0
    BY <1>1 DEF Lens
  <1>3. \A i : StartOf(d.attrs, i) = AttrOff + s[i - 1]
    BY DEF StartOf
  <1>4. s[n] + AttrOff + EndMarker <= RecordSize
    <2>1. StartOf(d.attrs, n + 1) + EndMarker <= RecordSize
      BY DEF IsSound
    <2>2. (n + 1) - 1 = n
      OBVIOUS
    <2>3. s[n] \in Nat
      BY <1>2, SumsRise
    <2> HIDE DEF s
    <2>4. StartOf(d.attrs, n + 1) = AttrOff + s[n]
      BY <1>3, <2>2
    <2> QED
      BY <2>1, <2>3, <2>4 DEF AttrOff, EndMarker, RecordSize
  <1> HIDE DEF lens
  <1>5. /\ s[0] = 0
        /\ \A k \in 1 .. n : s[k] = s[k - 1] + lens[k]
    BY <1>2, SumsAt
  <1>6. /\ \A k \in 0 .. n : s[k] \in Nat
        /\ \A k \in 0 .. n : \A m \in k .. n : s[k] <= s[m]
        /\ \A k \in 0 .. n : \A m \in k + 1 .. n : s[k] < s[m]
    BY <1>2, SumsRise
  <1> HIDE DEF s
  <1>7. StartOf(d.attrs, 1) = AttrOff
    <2>1. 1 - 1 = 0
      OBVIOUS
    <2>2. StartOf(d.attrs, 1) = AttrOff + s[0]
      BY <1>3, <2>1
    <2> QED
      BY <1>5, <2>2 DEF AttrOff
  <1>8. ASSUME NEW i \in 1 .. n
        PROVE  StartOf(d.attrs, i + 1) = StartOf(d.attrs, i) + d.attrs[i].len
    <2>1. (i + 1) - 1 = i /\ i - 1 \in 0 .. n
      OBVIOUS
    <2>2. StartOf(d.attrs, i + 1) = AttrOff + s[i] /\ StartOf(d.attrs, i) = AttrOff + s[i - 1]
      BY <1>3, <2>1
    <2>3. s[i] = s[i - 1] + d.attrs[i].len /\ s[i - 1] \in Nat /\ d.attrs[i].len \in Nat
      BY <1>1, <1>2, <1>5, <1>6, <2>1
    <2>4. \A a, b, c \in Nat : a + (b + c) = (a + b) + c
      OBVIOUS
    <2>5. AttrOff + s[i] = (AttrOff + s[i - 1]) + d.attrs[i].len
      BY <2>3, <2>4, RecordSizes
    <2> QED
      BY <2>2, <2>5
  <1>9. ASSUME NEW i \in 1 .. n + 1
        PROVE  StartOf(d.attrs, i) \in AttrOff .. RecordSize - EndMarker
    <2>1. i - 1 \in 0 .. n /\ n \in i - 1 .. n /\ n \in 0 .. n
      OBVIOUS
    <2>2. s[i - 1] \in Nat /\ s[i - 1] <= s[n] /\ s[n] \in Nat
      BY <1>6, <2>1
    <2>3. StartOf(d.attrs, i) = AttrOff + s[i - 1]
      BY <1>3
    <2>4. PICK x, y : x = s[i - 1] /\ y = s[n]
      OBVIOUS
    <2>5. x \in Nat /\ y \in Nat /\ x <= y /\ y + AttrOff + EndMarker <= RecordSize
      BY <1>4, <2>2, <2>4
    <2>6. AttrOff + x \in AttrOff .. RecordSize - EndMarker
      BY <2>5, RecordSizes
    <2> QED
      BY <2>3, <2>4, <2>6
  <1>10. ASSUME NEW i \in 1 .. n + 1, NEW j \in i + 1 .. n + 1
         PROVE  StartOf(d.attrs, i) < StartOf(d.attrs, j)
    <2>1. i - 1 \in 0 .. n /\ j - 1 \in (i - 1) + 1 .. n
      OBVIOUS
    <2>2. s[i - 1] \in Nat /\ s[j - 1] \in Nat /\ s[i - 1] < s[j - 1]
      BY <1>6, <2>1
    <2> QED
      BY <1>3, <2>2 DEF AttrOff
  <1> QED
    BY <1>7, <1>8, <1>9, <1>10

-----------------------------------------------------------------------------
(* Numbers.                                                                *)

Values(value, b, filled, n) ==
  value = [k \in 0 .. n |-> IF k = 0 THEN filled ELSE b[Len(b) + 1 - k] + 256 * value[k - 1]]

\* The number in some bytes exists: one byte more is one value more.
LEMMA ValuesExist ==
  ASSUME NEW b, NEW filled, NEW n \in Nat
  PROVE  \E value : Values(value, b, filled, n)
  <1> DEFINE T == {k \in Nat : \E value : Values(value, b, filled, k)}
  <1>1. 0 \in T
    <2>1. Values([i \in 0 .. 0 |-> filled], b, filled, 0)
      BY DEF Values
    <2> QED
      BY <2>1
  <1>2. ASSUME NEW k \in 0 .. n - 1, k \in T
        PROVE  k + 1 \in T
    <2>1. PICK f : Values(f, b, filled, k)
      BY <1>2
    <2> DEFINE g == [i \in 0 .. k + 1 |-> IF i = 0 THEN filled ELSE b[Len(b) + 1 - i] + 256 * f[i - 1]]
    <2>2. \A i \in 0 .. k : g[i] = f[i]
      BY <2>1 DEF Values
    <2>3. \A i \in 0 .. k + 1 : i # 0 => f[i - 1] = g[i - 1]
      <3>1. \A i \in 0 .. k + 1 : i # 0 => i - 1 \in 0 .. k
        OBVIOUS
      <3> HIDE DEF g
      <3> QED
        BY <2>2, <3>1
    <2>4. g = [i \in 0 .. k + 1 |-> IF i = 0 THEN filled ELSE b[Len(b) + 1 - i] + 256 * g[i - 1]]
      <3>1. g = [i \in 0 .. k + 1 |-> IF i = 0 THEN filled ELSE b[Len(b) + 1 - i] + 256 * f[i - 1]]
        OBVIOUS
      <3> HIDE DEF g
      <3>2. [i \in 0 .. k + 1 |-> IF i = 0 THEN filled ELSE b[Len(b) + 1 - i] + 256 * f[i - 1]]
              = [i \in 0 .. k + 1 |-> IF i = 0 THEN filled ELSE b[Len(b) + 1 - i] + 256 * g[i - 1]]
        BY <2>3, SMT
      <3> QED
        BY <3>1, <3>2, Zenon
    <2> HIDE DEF g
    <2>5. Values(g, b, filled, k + 1)
      BY <2>4 DEF Values
    <2> QED
      BY <2>5
  <1> HIDE DEF T
  <1>3. n \in T
    BY <1>1, <1>2, InductionUpTo
  <1> QED
    BY <1>3 DEF T

IsReadAs(value, b, filled, n) ==
  /\ LittleEndian(b, filled) = value[n] /\ value[0] = filled
  /\ \A k \in 0 .. n - 1 : value[k + 1] = b[n - k] + 256 * value[k]

\* ReadEndianInt and ReadEndianUInt, one byte after the other from the last one on.
LEMMA LittleEndianAt ==
  ASSUME NEW b, NEW filled, NEW n \in Nat, n = Len(b)
  PROVE  \E value : IsReadAs(value, b, filled, n)
  <1> DEFINE value == CHOOSE v : Values(v, b, filled, Len(b))
  <1>1. LittleEndian(b, filled) = value[Len(b)]
    BY Zenon DEF LittleEndian, Values
  <1>2. Values(value, b, filled, n)
    BY ValuesExist, Zenon
  <1> HIDE DEF value
  <1>3. /\ value[0] = filled
        /\ \A k \in 1 .. n : value[k] = b[n + 1 - k] + 256 * value[k - 1]
    BY <1>2 DEF Values
  <1>4. ASSUME NEW k \in 0 .. n - 1
        PROVE  value[k + 1] = b[n - k] + 256 * value[k]
    <2>1. k + 1 \in 1 .. n /\ (k + 1) - 1 = k /\ n + 1 - (k + 1) = n - k
      OBVIOUS
    <2> QED
      BY <1>3, <2>1
  <1> QED
    BY <1>1, <1>3, <1>4 DEF IsReadAs

IsRest(rest, v, n) == rest = [i \in 0 .. n |-> IF i = 0 THEN v ELSE rest[i - 1] \div 256]

\* What is left of a stored number exists: one byte more is one rest more.
LEMMA RestExists ==
  ASSUME NEW v, NEW n \in Nat
  PROVE  \E rest : IsRest(rest, v, n)
  <1> DEFINE T == {k \in Nat : \E rest : IsRest(rest, v, k)}
  <1>1. 0 \in T
    <2>1. IsRest([i \in 0 .. 0 |-> v], v, 0)
      BY DEF IsRest
    <2> QED
      BY <2>1
  <1>2. ASSUME NEW k \in 0 .. n - 1, k \in T
        PROVE  k + 1 \in T
    <2>1. PICK f : IsRest(f, v, k)
      BY <1>2
    <2> DEFINE g == [i \in 0 .. k + 1 |-> IF i = 0 THEN v ELSE f[i - 1] \div 256]
    <2>2. \A i \in 0 .. k : g[i] = f[i]
      BY <2>1 DEF IsRest
    <2>3. \A i \in 0 .. k + 1 : i # 0 => f[i - 1] = g[i - 1]
      <3>1. \A i \in 0 .. k + 1 : i # 0 => i - 1 \in 0 .. k
        OBVIOUS
      <3> HIDE DEF g
      <3> QED
        BY <2>2, <3>1
    <2>4. g = [i \in 0 .. k + 1 |-> IF i = 0 THEN v ELSE g[i - 1] \div 256]
      <3>1. g = [i \in 0 .. k + 1 |-> IF i = 0 THEN v ELSE f[i - 1] \div 256]
        OBVIOUS
      <3> HIDE DEF g
      <3>2. [i \in 0 .. k + 1 |-> IF i = 0 THEN v ELSE f[i - 1] \div 256]
              = [i \in 0 .. k + 1 |-> IF i = 0 THEN v ELSE g[i - 1] \div 256]
        BY <2>3, SMT
      <3> QED
        BY <3>1, <3>2, Zenon
    <2> HIDE DEF g
    <2>5. IsRest(g, v, k + 1)
      BY <2>4 DEF IsRest
    <2> QED
      BY <2>5
  <1> HIDE DEF T
  <1>3. n \in T
    BY <1>1, <1>2, InductionUpTo
  <1> QED
    BY <1>3 DEF T

Sign(b, signed) == IF signed /\ b # <<>> /\ Last(b) >= 128 THEN -1 ELSE 0

\* A stored number, one byte after the other from the first one on.
LEMMA StoredAs ==
  ASSUME NEW v, NEW b, NEW signed, NEW n \in Nat, n = Len(b), IsStored(v, b, signed)
  PROVE  \E rest : /\ rest[0] = v /\ rest[n] = Sign(b, signed)
                   /\ \A i \in 0 .. n - 1 : /\ rest[i + 1] = rest[i] \div 256
                                             /\ b[i + 1] = rest[i] % 256
  <1> DEFINE rest == CHOOSE f : IsRest(f, v, Len(b))
  <1>1. /\ \A i \in 1 .. Len(b) : b[i] = rest[i - 1] % 256
        /\ rest[Len(b)] = IF signed /\ b # <<>> /\ Last(b) >= 128 THEN -1 ELSE 0
    BY Zenon DEF IsStored, IsRest
  <1>2. IsRest(rest, v, n)
    BY RestExists, Zenon
  <1> HIDE DEF rest
  <1>3. rest[0] = v /\ \A i \in 1 .. n : rest[i] = rest[i - 1] \div 256
    BY <1>2 DEF IsRest
  <1>4. ASSUME NEW i \in 0 .. n - 1
        PROVE  rest[i + 1] = rest[i] \div 256 /\ b[i + 1] = rest[i] % 256
    <2>1. i + 1 \in 1 .. n /\ (i + 1) - 1 = i
      OBVIOUS
    <2> QED
      BY <1>1, <1>3, <2>1
  <1>5. rest[n] = Sign(b, signed)
    BY <1>1 DEF Sign
  <1> QED
    BY <1>3, <1>4, <1>5

\* ReadEndianInt and ReadEndianUInt: what is read is the number that was stored.
LEMMA StoredIsRead ==
  ASSUME NEW v \in Int, NEW b, NEW signed, Len(b) \in Nat, IsStored(v, b, signed)
  PROVE  LittleEndian(b, Sign(b, signed)) = v
  <1>N. PICK n \in Nat : n = Len(b)
    OBVIOUS
  <1>1. PICK rest : /\ rest[0] = v /\ rest[n] = Sign(b, signed)
                    /\ \A i \in 0 .. n - 1 : /\ rest[i + 1] = rest[i] \div 256
                                              /\ b[i + 1] = rest[i] % 256
    BY <1>N, StoredAs
  <1>S. PICK sign : sign = Sign(b, signed)
    OBVIOUS
  <1>2. PICK value : /\ LittleEndian(b, sign) = value[n] /\ value[0] = sign
                     /\ \A k \in 0 .. n - 1 : value[k + 1] = b[n - k] + 256 * value[k]
    <2>1. PICK value : IsReadAs(value, b, sign, n)
      BY <1>N, LittleEndianAt
    <2> QED
      BY <2>1 DEF IsReadAs
  <1>3. \A i \in 0 .. n : rest[i] \in Int
    <2> DEFINE T == {i \in 0 .. n : rest[i] \in Int}
    <2>1. 0 \in T
      BY <1>1
    <2>2. ASSUME NEW i \in 0 .. n - 1, i \in T PROVE i + 1 \in T
      <3>1. rest[i + 1] = rest[i] \div 256 /\ rest[i] \in Int
        BY <1>1, <2>2
      <3> QED
        BY <3>1
    <2> HIDE DEF T
    <2>3. 0 .. n \subseteq T
      BY <2>1, <2>2, InductionUpTo
    <2> QED
      BY <2>3 DEF T
  <1> DEFINE T == {k \in 0 .. n : value[k] = rest[n - k]}
  <1>4. 0 \in T
    <2>1. n - 0 = n
      OBVIOUS
    <2> QED
      BY <1>S, <1>1, <1>2, <2>1
  <1>5. ASSUME NEW k \in 0 .. n - 1, k \in T
        PROVE  k + 1 \in T
    <2>1. PICK i \in 0 .. n - 1 : i = n - (k + 1) /\ i + 1 = n - k
      OBVIOUS
    <2>2. value[k + 1] = b[i + 1] + 256 * rest[i + 1]
      BY <1>2, <1>5, <2>1
    <2>3. rest[i + 1] = rest[i] \div 256 /\ b[i + 1] = rest[i] % 256 /\ rest[i] \in Int
      BY <1>1, <1>3
    <2>4. (rest[i] % 256) + 256 * (rest[i] \div 256) = rest[i]
      <3>1. \A x \in Int : (x % 256) + 256 * (x \div 256) = x
        OBVIOUS
      <3> QED
        BY <2>3, <3>1
    <2>5. value[k + 1] = rest[i]
      BY <2>2, <2>3, <2>4
    <2> QED
      BY <2>1, <2>5
  <1>6. n \in T
    <2> HIDE DEF T
    <2>1. 0 .. n \subseteq T
      BY <1>4, <1>5, InductionUpTo
    <2> QED
      BY <2>1
  <1>7. n - n = 0
    OBVIOUS
  <1>8. value[n] = rest[0]
    BY <1>6, <1>7
  <1> QED
    BY <1>S, <1>1, <1>2, <1>8

-----------------------------------------------------------------------------
(* Run lists.                                                              *)

\* The header of a run holds two numbers of four bits.
LEMMA HeaderSizes ==
  ASSUME NEW h \in Byte
  PROVE  LenSize(h) \in 0 .. 15 /\ OffSize(h) \in 0 .. 15
  <1>1. \A x \in 0 .. 255 : x % 16 \in 0 .. 15 /\ x \div 16 \in 0 .. 15
    OBVIOUS
  <1> QED
    BY <1>1 DEF Byte, LenSize, OffSize

\* RunList.Process moves on.
LEMMA BehindMovesOn ==
  ASSUME NEW b \in Seq(Byte), NEW p \in 1 .. Len(b)
  PROVE  Behind(b, p) \in Nat /\ Behind(b, p) >= p + 1
  <1>1. Len(b) \in Nat /\ b[p] \in Byte
    BY LenProperties, ElementOfSeq
  <1>2. LenSize(b[p]) \in 0 .. 15 /\ OffSize(b[p]) \in 0 .. 15
    BY <1>1, HeaderSizes
  <1>3. PICK x, y \in 0 .. 15 : x = LenSize(b[p]) /\ y = OffSize(b[p])
    BY <1>2
  <1>4. Behind(b, p) = p + x + y + 1
    BY <1>3 DEF Behind
  <1>5. p \in Nat
    BY <1>1
  <1> QED
    BY <1>4, <1>5

\* One turn of its loop, and a function that is the walk from the place n on.
RunTurn(b, from, p) ==
  IF p > Len(b) \/ LenSize(b[p]) = 0 THEN <<>>
  ELSE <<[off |-> ReadEndianInt(OffBytes(b, p)), len |-> ReadEndianUInt(LenBytes(b, p))]>>
         \o from[Behind(b, p)]
PlacesFrom(n) == {q \in Nat \ {0} : q >= n}
RunWalks(from, b, n) == from = [p \in PlacesFrom(n) |-> RunTurn(b, from, p)]
RunWalk(b) == CHOOSE from : from = [p \in Nat \ {0} |-> RunTurn(b, from, p)]

\* There is a walk from every place on: the one behind it is extended by one value.
LEMMA RunWalkExists ==
  ASSUME NEW b \in Seq(Byte)
  PROVE  \E from : from = [p \in Nat \ {0} |-> RunTurn(b, from, p)]
  <1>1. PICK N \in Nat : N = Len(b)
    BY LenProperties
  <1> DEFINE T == {k \in 0 .. N : \E from : RunWalks(from, b, N + 1 - k)}
  <1>2. 0 \in T
    <2> DEFINE w == [p \in PlacesFrom(N + 1) |-> <<>>]
    <2>1. \A p \in PlacesFrom(N + 1) : RunTurn(b, w, p) = <<>>
      BY <1>1 DEF RunTurn, PlacesFrom
    <2>2. w = [p \in PlacesFrom(N + 1) |-> RunTurn(b, w, p)]
      BY <2>1
    <2>3. N + 1 - 0 = N + 1
      OBVIOUS
    <2> HIDE DEF w
    <2>4. RunWalks(w, b, N + 1 - 0)
      BY <2>2, <2>3, Zenon DEF RunWalks
    <2> QED
      BY <2>4
  <1>3. ASSUME NEW k \in 0 .. N - 1, k \in T
        PROVE  k + 1 \in T
    <2>1. PICK n \in 1 .. N : n = N + 1 - (k + 1) /\ n + 1 = N + 1 - k
      OBVIOUS
    <2>2. PICK f : RunWalks(f, b, n + 1)
      BY <1>3, <2>1
    <2> DEFINE g == [p \in PlacesFrom(n) |-> RunTurn(b, f, p)]
    <2>3. \A p \in PlacesFrom(n + 1) : g[p] = f[p]
      <3>1. \A p \in PlacesFrom(n + 1) : p \in PlacesFrom(n)
        BY DEF PlacesFrom
      <3> QED
        BY <2>2, <3>1, Zenon DEF RunWalks
    <2>4. \A p \in PlacesFrom(n) : RunTurn(b, g, p) = RunTurn(b, f, p)
      <3> HIDE DEF g
      <3>1. SUFFICES ASSUME NEW p \in PlacesFrom(n), ~(p > Len(b) \/ LenSize(b[p]) = 0)
                     PROVE  g[Behind(b, p)] = f[Behind(b, p)]
        BY Zenon DEF RunTurn
      <3>2. p \in 1 .. Len(b) /\ p >= n
        BY <1>1, <3>1 DEF PlacesFrom
      <3>3. Behind(b, p) \in Nat /\ Behind(b, p) >= p + 1
        BY <3>2, BehindMovesOn
      <3>4. Behind(b, p) \in PlacesFrom(n + 1)
        BY <3>2, <3>3 DEF PlacesFrom
      <3> QED
        BY <2>3, <3>4
    <2>5. g = [p \in PlacesFrom(n) |-> RunTurn(b, g, p)]
      BY <2>4, Zenon
    <2> HIDE DEF g
    <2>6. RunWalks(g, b, N + 1 - (k + 1))
      BY <2>1, <2>5, Zenon DEF RunWalks
    <2>7. k + 1 \in 0 .. N
      OBVIOUS
    <2> QED
      BY <2>6, <2>7
  <1> HIDE DEF T
  <1>4. N \in T
    <2>1. 0 .. N \subseteq T
      BY <1>2, <1>3, InductionUpTo
    <2> QED
      BY <2>1
  <1>5. N + 1 - N = 1
    OBVIOUS
  <1>6. PICK from : RunWalks(from, b, 1)
    BY <1>4, <1>5, Zenon DEF T
  <1>7. PlacesFrom(1) = Nat \ {0}
    BY DEF PlacesFrom
  <1> QED
    BY <1>6, <1>7, Zenon DEF RunWalks

\* RunList.Process, one turn after the other.
LEMMA RunListAt ==
  ASSUME NEW b \in Seq(Byte)
  PROVE  /\ RunListProcess(b) = RunWalk(b)[1]
         /\ \A p \in Nat \ {0} : RunWalk(b)[p] = RunTurn(b, RunWalk(b), p)
  <1>1. RunListProcess(b) = RunWalk(b)[1]
    BY Zenon DEF RunListProcess, RunWalk, RunTurn
  <1>2. RunWalk(b) = [p \in Nat \ {0} |-> RunTurn(b, RunWalk(b), p)]
    BY RunWalkExists, Zenon DEF RunWalk
  <1> QED
    BY <1>1, <1>2, Zenon

Headers(at, b, n) == at = [k \in 1 .. n + 1 |-> IF k = 1 THEN 1 ELSE Behind(b, at[k - 1])]

\* The places of the runs exist: one run more is one place more.
LEMMA HeadersExist ==
  ASSUME NEW b, NEW n \in Nat
  PROVE  \E at : Headers(at, b, n)
  <1> DEFINE T == {k \in Nat : \E at : Headers(at, b, k)}
  <1>1. 0 \in T
    <2> DEFINE w == [i \in 1 .. 0 + 1 |-> 1]
    <2>1. w = [k \in 1 .. 0 + 1 |-> IF k = 1 THEN 1 ELSE Behind(b, w[k - 1])]
      OBVIOUS
    <2> HIDE DEF w
    <2>2. Headers(w, b, 0)
      BY <2>1 DEF Headers
    <2> QED
      BY <2>2
  <1>2. ASSUME NEW k \in 0 .. n - 1, k \in T
        PROVE  k + 1 \in T
    <2>1. PICK f : Headers(f, b, k)
      BY <1>2
    <2> DEFINE g == [i \in 1 .. (k + 1) + 1 |-> IF i = 1 THEN 1 ELSE Behind(b, f[i - 1])]
    <2>2. \A i \in 1 .. k + 1 : g[i] = f[i]
      BY <2>1 DEF Headers
    <2>3. \A i \in 1 .. (k + 1) + 1 : i # 1 => f[i - 1] = g[i - 1]
      <3>1. \A i \in 1 .. (k + 1) + 1 : i # 1 => i - 1 \in 1 .. k + 1
        OBVIOUS
      <3> HIDE DEF g
      <3> QED
        BY <2>2, <3>1
    <2>4. g = [i \in 1 .. (k + 1) + 1 |-> IF i = 1 THEN 1 ELSE Behind(b, g[i - 1])]
      <3>1. ASSUME NEW i \in 1 .. (k + 1) + 1
            PROVE  (IF i = 1 THEN 1 ELSE Behind(b, f[i - 1])) = (IF i = 1 THEN 1 ELSE Behind(b, g[i - 1]))
        <4> HIDE DEF g
        <4> QED
          BY <2>3
      <3> QED
        BY <3>1
    <2> HIDE DEF g
    <2>5. Headers(g, b, k + 1)
      BY <2>4 DEF Headers
    <2> QED
      BY <2>5
  <1> HIDE DEF T
  <1>3. n \in T
    BY <1>1, <1>2, InductionUpTo
  <1> QED
    BY <1>3 DEF T

IsRunAt(b, p, run) ==
  /\ LenSize(b[p]) \in 1 .. 8 /\ IsStored(run.len, LenBytes(b, p), FALSE)
  /\ OffSize(b[p]) \in 0 .. 4 /\ IsStored(run.off, OffBytes(b, p), TRUE)

Laid(at, b, runs, N) ==
  /\ at[1] = 1 /\ \A k \in 1 .. N : at[k + 1] = Behind(b, at[k])
  /\ \A k \in 1 .. N + 1 : at[k] \in 1 .. Len(b)
  /\ \A k \in 1 .. N : IsRunAt(b, at[k], runs[k])
  /\ b[at[N + 1]] = 0

\* A run list as it is stored: where its runs are.
LEMMA RunsLaid ==
  ASSUME NEW b, NEW runs, NEW N \in Nat, N = Len(runs), IsRunList(b, runs)
  PROVE  \E at : Laid(at, b, runs, N)
  <1> DEFINE at == CHOOSE f : Headers(f, b, Len(runs))
  <1>1. /\ \A k \in 1 .. Len(runs) + 1 : at[k] \in 1 .. Len(b)
        /\ \A k \in 1 .. Len(runs) : IsRunAt(b, at[k], runs[k])
        /\ b[at[Len(runs) + 1]] = 0
    BY Zenon DEF IsRunList, Headers, IsRunAt
  <1>2. Headers(at, b, N)
    BY HeadersExist, Zenon
  <1> HIDE DEF at
  <1>3. at[1] = 1
    <2>1. 1 \in 1 .. N + 1
      OBVIOUS
    <2> QED
      BY <1>2, <2>1 DEF Headers
  <1>4. ASSUME NEW k \in 1 .. N
        PROVE  at[k + 1] = Behind(b, at[k])
    <2>1. k + 1 \in 1 .. N + 1 /\ k + 1 # 1 /\ (k + 1) - 1 = k
      OBVIOUS
    <2>2. at[k + 1] = IF k + 1 = 1 THEN 1 ELSE Behind(b, at[(k + 1) - 1])
      BY <1>2, <2>1, Zenon DEF Headers
    <2> QED
      BY <2>1, <2>2
  <1>5. Laid(at, b, runs, N)
    BY <1>1, <1>3, <1>4 DEF Laid
  <1> QED
    BY <1>5

\* ReadEndianInt and ReadEndianUInt of the bytes of a run.
LEMMA RunIsRead ==
  ASSUME NEW b \in Seq(Byte), NEW p \in 1 .. Len(b), NEW run \in Run, IsRunAt(b, p, run)
  PROVE  /\ ReadEndianUInt(LenBytes(b, p)) = run.len /\ ReadEndianInt(OffBytes(b, p)) = run.off
         /\ LenSize(b[p]) # 0
  <1>1. run.len \in Int /\ run.off \in Int
    BY DEF Run
  <1>2. Len(b) \in Nat /\ b[p] \in Byte
    BY LenProperties, ElementOfSeq
  <1>3. PICK x, y \in 0 .. 15 : x = LenSize(b[p]) /\ y = OffSize(b[p])
    BY <1>2, HeaderSizes
  <1>4. Len(LenBytes(b, p)) \in Nat /\ Len(OffBytes(b, p)) \in Nat
    <2>1. p \in Nat
      BY <1>2
    <2>2. LenBytes(b, p) = SubSeq(b, p + 1, p + x) /\ OffBytes(b, p) = SubSeq(b, p + x + 1, p + x + y)
      BY <1>3 DEF LenBytes, OffBytes
    <2>3. Len(SubSeq(b, p + 1, p + x)) \in Nat
      BY <2>1
    <2>4. Len(SubSeq(b, p + x + 1, p + x + y)) \in Nat
      BY <2>1
    <2> QED
      BY <2>2, <2>3, <2>4
  <1>5. ReadEndianUInt(LenBytes(b, p)) = run.len
    <2>1. LittleEndian(LenBytes(b, p), Sign(LenBytes(b, p), FALSE)) = run.len
      BY <1>1, <1>4, StoredIsRead DEF IsRunAt
    <2>2. Sign(LenBytes(b, p), FALSE) = 0
      BY Zenon DEF Sign
    <2> QED
      BY <2>1, <2>2 DEF ReadEndianUInt
  <1>6. ReadEndianInt(OffBytes(b, p)) = run.off
    <2>1. LittleEndian(OffBytes(b, p), Sign(OffBytes(b, p), TRUE)) = run.off
      BY <1>1, <1>4, StoredIsRead DEF IsRunAt
    <2>2. ReadEndianInt(OffBytes(b, p)) = LittleEndian(OffBytes(b, p), Sign(OffBytes(b, p), TRUE))
      BY Zenon DEF ReadEndianInt, Sign
    <2> QED
      BY <2>1, <2>2
  <1>7. LenSize(b[p]) # 0
    BY DEF IsRunAt
  <1> QED
    BY <1>5, <1>6, <1>7

\* A sequence is its first element and the ones behind it.
LEMMA FromHere ==
  ASSUME NEW S, NEW s \in Seq(S), NEW N \in Nat, N = Len(s), NEW j \in 1 .. N
  PROVE  SubSeq(s, j, N) = <<s[j]>> \o SubSeq(s, j + 1, N)
  <1>1. \A i \in 1 .. N : s[i] \in S
    BY ElementOfSeq
  <1>2. \A i \in j .. N : s[i] \in S
    BY <1>1
  <1>3. SubSeq(s, j, N) = [i \in 1 .. N - j + 1 |-> s[j + i - 1]]
    OBVIOUS
  <1> QED
    OBVIOUS

\* RunList.Process: what is read from the bytes of a run list are the runs that were stored.
LEMMA RunListIsRead ==
  ASSUME NEW b \in Seq(Byte), NEW runs \in Seq(Run), IsRunList(b, runs)
  PROVE  RunListProcess(b) = runs
  <1>N. PICK N \in Nat : N = Len(runs)
    BY LenProperties
  <1>1. PICK at : Laid(at, b, runs, N)
    BY <1>N, RunsLaid
  <1>2. /\ at[1] = 1 /\ \A k \in 1 .. N : at[k + 1] = Behind(b, at[k])
        /\ \A k \in 1 .. N + 1 : at[k] \in 1 .. Len(b)
        /\ \A k \in 1 .. N : IsRunAt(b, at[k], runs[k])
        /\ b[at[N + 1]] = 0
    BY <1>1 DEF Laid
  <1> DEFINE T == {k \in 0 .. N : RunWalk(b)[at[N + 1 - k]] = SubSeq(runs, N + 1 - k, N)}
  <1>L. Len(b) \in Nat
    BY LenProperties
  <1>3. \A k \in 1 .. N + 1 : RunWalk(b)[at[k]] = RunTurn(b, RunWalk(b), at[k])
    <2>1. \A p \in 1 .. Len(b) : p \in Nat \ {0}
      BY <1>L
    <2> QED
      BY <1>2, <2>1, RunListAt
  <1>4. 0 \in T
    <2>1. N + 1 - 0 = N + 1 /\ N + 1 \in 1 .. N + 1
      OBVIOUS
    <2>2. LenSize(b[at[N + 1]]) = 0
      <3>1. 0 % 16 = 0
        OBVIOUS
      <3> QED
        BY <1>2, <3>1 DEF LenSize
    <2>3. RunWalk(b)[at[N + 1]] = <<>>
      BY <1>3, <2>1, <2>2, Zenon DEF RunTurn
    <2>4. SubSeq(runs, N + 1, N) = <<>>
      OBVIOUS
    <2>5. RunWalk(b)[at[N + 1 - 0]] = SubSeq(runs, N + 1 - 0, N)
      BY <2>1, <2>3, <2>4, Zenon
    <2>6. 0 \in 0 .. N
      OBVIOUS
    <2> QED
      BY <2>5, <2>6, Zenon
  <1>5. ASSUME NEW k \in 0 .. N - 1, k \in T
        PROVE  k + 1 \in T
    <2>1. PICK j \in 1 .. N : j = N + 1 - (k + 1) /\ j + 1 = N + 1 - k /\ j \in 1 .. N + 1
      OBVIOUS
    <2>2. at[j] \in 1 .. Len(b) /\ at[j + 1] = Behind(b, at[j]) /\ IsRunAt(b, at[j], runs[j])
      BY <1>2, <2>1
    <2>3. runs[j] \in Run
      BY <1>N, <2>1, ElementOfSeq
    <2>4. /\ ReadEndianUInt(LenBytes(b, at[j])) = runs[j].len
          /\ ReadEndianInt(OffBytes(b, at[j])) = runs[j].off
          /\ LenSize(b[at[j]]) # 0
      BY <2>2, <2>3, RunIsRead
    <2>5. ~(at[j] > Len(b))
      BY <1>L, <2>2
    <2>6. RunWalk(b)[at[j]] = <<[off |-> runs[j].off, len |-> runs[j].len]>> \o RunWalk(b)[at[j + 1]]
      <3>1. RunWalk(b)[at[j]] = RunTurn(b, RunWalk(b), at[j])
        BY <1>3, <2>1
      <3>2. RunTurn(b, RunWalk(b), at[j])
              = <<[off |-> ReadEndianInt(OffBytes(b, at[j])), len |-> ReadEndianUInt(LenBytes(b, at[j]))]>>
                  \o RunWalk(b)[Behind(b, at[j])]
        BY <2>4, <2>5, Zenon DEF RunTurn
      <3> QED
        BY <2>2, <2>4, <3>1, <3>2, Zenon
    <2>7. runs[j] = [off |-> runs[j].off, len |-> runs[j].len]
      BY <2>3 DEF Run
    <2>8. RunWalk(b)[at[j + 1]] = SubSeq(runs, j + 1, N)
      BY <1>5, <2>1
    <2>9. RunWalk(b)[at[j]] = <<runs[j]>> \o SubSeq(runs, j + 1, N)
      BY <2>6, <2>7, <2>8, Zenon
    <2>10. SubSeq(runs, j, N) = <<runs[j]>> \o SubSeq(runs, j + 1, N)
      BY <1>N, <2>1, FromHere
    <2>11. k + 1 \in 0 .. N
      OBVIOUS
    <2> QED
      BY <2>1, <2>9, <2>10, <2>11
  <1>6. N \in T
    <2> HIDE DEF T
    <2>1. 0 .. N \subseteq T
      BY <1>4, <1>5, InductionUpTo
    <2> QED
      BY <2>1
  <1>7. N + 1 - N = 1
    OBVIOUS
  <1>8. RunWalk(b)[1] = SubSeq(runs, 1, N)
    BY <1>2, <1>6, <1>7
  <1>9. SubSeq(runs, 1, N) = runs
    BY <1>N
  <1> QED
    BY <1>8, <1>9, RunListAt

-----------------------------------------------------------------------------
(* Indexes.                                                                *)

\* Parse of an index root: its slice stops short of the end of the node by less than the
\* last entry takes with one in front of it.
LEMMA RootIsRead ==
  ASSUME NEW lens \in Seq(Nat),
         lens # <<>> => Last(lens) >= EmptyEntry /\ \A i \in DOMAIN lens : lens[i] > 0
  PROVE  Named(lens, IndexParse(lens, RootFront)) = 1 .. Len(lens) - 1
  <1>1. PICK n \in Nat : n = Len(lens)
    BY LenProperties
  <1>2. DOMAIN lens = 1 .. n /\ lens \in [1 .. n -> Nat]
    BY <1>1, LenProperties
  <1> DEFINE s == Sums(lens)
  <1>3. s[0] = 0 /\ \A k \in 1 .. n : s[k] = s[k - 1] + lens[k]
    BY <1>1, SumsAt
  <1>4. /\ \A k \in 0 .. n : s[k] \in Nat
        /\ \A k \in 0 .. n : \A m \in k + 1 .. n : (\A i \in 1 .. n : lens[i] > 0) => s[k] < s[m]
    BY <1>1, <1>2, SumsRise
  <1> HIDE DEF s
  <1>5. \A k : k \in Named(lens, IndexParse(lens, RootFront))
                 <=> k \in 1 .. n /\ s[k - 1] < s[n] - RootFront /\ k < n
    BY <1>1, <1>2, Zenon DEF Named, IndexParse, Total, s
  <1>6. ASSUME NEW k \in 1 .. n - 1
        PROVE  s[k - 1] < s[n] - RootFront
    <2>1. lens # <<>> /\ n - 1 \in 0 .. n /\ k - 1 \in 0 .. n /\ n - 1 \in (k - 1) + 1 .. n /\ n \in 1 .. n
      BY <1>1
    <2>2. \A i \in 1 .. n : lens[i] > 0
      BY <1>2, <2>1
    <2>3. lens[n] >= 16
      BY <1>1, <2>1 DEF Last, EmptyEntry
    <2>4. s[k - 1] < s[n - 1] /\ s[n] = s[n - 1] + lens[n]
      BY <1>3, <1>4, <2>1, <2>2
    <2>5. s[k - 1] \in Nat /\ s[n - 1] \in Nat /\ lens[n] \in Nat
      BY <1>2, <1>4, <2>1
    <2> QED
      BY <2>3, <2>4, <2>5 DEF RootFront
  <1>7. \A k : k \in Named(lens, IndexParse(lens, RootFront)) <=> k \in 1 .. n - 1
    <2>1. \A k \in 1 .. n : k < n <=> k \in 1 .. n - 1
      OBVIOUS
    <2>2. \A k \in 1 .. n - 1 : k \in 1 .. n
      OBVIOUS
    <2> QED
      BY <1>5, <1>6, <2>1, <2>2, Zenon
  <1> QED
    BY <1>1, <1>7

-----------------------------------------------------------------------------
(* Attribute lists.                                                        *)

\* Unmarshal: the type of an entry, a string, is not filled, and its length is read from
\* where the entry begins.
LEMMA EntryLayout ==
  /\ OffsetOf(AttributeList, "Len") = 0
  /\ OffsetOf(AttributeList, "Namelen") = 2 /\ OffsetOf(AttributeList, "Nameoffset") = 3
  /\ IsFilled(AttributeList, "Type") = FALSE
  <1> DEFINE n == Len(AttributeList)
             advances == [k \in 1 .. n |-> Advance(AttributeList[k])]
  <1>1. /\ n = 8
        /\ FieldName(AttributeList[1]) = "Type" /\ FieldName(AttributeList[2]) = "Len"
        /\ FieldName(AttributeList[3]) = "Namelen" /\ FieldName(AttributeList[4]) = "Nameoffset"
        /\ FieldName(AttributeList[5]) = "StartVcn" /\ FieldName(AttributeList[6]) = "ParRef"
        /\ FieldName(AttributeList[7]) = "ParSeq" /\ FieldName(AttributeList[8]) = "ID"
        /\ Kind(AttributeList[1]) = "string"
        /\ Kind(AttributeList[2]) = "uint16" /\ Kind(AttributeList[3]) = "uint8"
    BY DEF AttributeList, Text, U16, U8, U64, Ref, FieldName, Kind
  <1> HIDE DEF n
  <1>2. /\ Position(AttributeList, "Type") = 1 /\ Position(AttributeList, "Len") = 2
        /\ Position(AttributeList, "Namelen") = 3 /\ Position(AttributeList, "Nameoffset") = 4
    <2>1. \A k \in 1 .. 8 : FieldName(AttributeList[k]) = "Type" => k = 1
      BY <1>1
    <2>2. \A k \in 1 .. 8 : FieldName(AttributeList[k]) = "Len" => k = 2
      BY <1>1
    <2>3. \A k \in 1 .. 8 : FieldName(AttributeList[k]) = "Namelen" => k = 3
      BY <1>1
    <2>4. \A k \in 1 .. 8 : FieldName(AttributeList[k]) = "Nameoffset" => k = 4
      BY <1>1
    <2> QED
      BY <1>1, <2>1, <2>2, <2>3, <2>4 DEF Position, n
  <1>3. "string" \notin Handled
    BY DEF Handled, Width
  <1>4. IsFilled(AttributeList, "Type") = FALSE
    BY <1>1, <1>2, <1>3 DEF IsFilled
  <1>5. Len(advances) = 8 /\ advances[1] = 0 /\ advances[2] = 2 /\ advances[3] = 1
    BY <1>1, <1>3 DEF Advance, Handled, Width
  <1> HIDE DEF advances
  <1>6. PartSums(Before(advances), advances, 8)
    <2>1. Before(advances) = CHOOSE at : PartSums(at, advances, Len(advances))
      BY Zenon DEF Before, PartSums
    <2> QED
      BY <1>5, <2>1, PartSumsExist, Zenon
  <1>7. /\ Before(advances)[1] = 0 /\ Before(advances)[2] = Before(advances)[1] + advances[1]
        /\ Before(advances)[3] = Before(advances)[2] + advances[2]
        /\ Before(advances)[4] = Before(advances)[3] + advances[3]
    BY <1>6 DEF PartSums
  <1>8. Offsets(AttributeList) = Before(advances)
    BY Zenon DEF Offsets, advances, n
  <1> QED
    BY <1>2, <1>4, <1>5, <1>7, <1>8 DEF OffsetOf

\* Numbers of sixteen bits, and of twenty-four.
LEMMA Small ==
  /\ Numbers16 \subseteq Nat /\ 0 \in Numbers16 /\ \A x \in Int : x % Uint16 \in Numbers16
  /\ Numbers24 \subseteq Nat /\ \A x \in Nat : x % Uint16 \in Nat /\ x \div Uint16 \in Nat
  <1>1. MaxUint16 \in Nat /\ Uint16 \in Nat /\ Uint16 > 0 /\ MaxUint16 = Uint16 - 1
    BY DEF MaxUint16, Uint16
  <1>2. \A x \in Int : x % Uint16 \in 0 .. Uint16 - 1
    BY <1>1
  <1>3. \A x \in Nat : x % Uint16 \in Nat /\ x \div Uint16 \in Nat
    BY <1>1
  <1>4. Numbers24 \subseteq Nat
    BY <1>1 DEF Numbers24
  <1> QED
    BY <1>1, <1>2, <1>3, <1>4 DEF Numbers16

\* The sixteen bits at an offset in an attribute list.
LEMMA HalfType ==
  ASSUME NEW list \in Seq(ListEntry), NEW n \in Nat, n = Len(list), NEW q \in Nat, q < 32 * n
  PROVE  Half(list, q) \in Nat
  <1>1. PICK k, x : k = q \div EntrySize /\ x = q % EntrySize
    OBVIOUS
  <1>2. k + 1 \in 1 .. n
    <2>1. k = q \div 32
      BY <1>1 DEF EntrySize
    <2> QED
      BY <2>1
  <1>3. list[k + 1] \in ListEntry
    BY <1>2, ElementOfSeq
  <1>4. PICK e \in ListEntry : e = list[k + 1]
    BY <1>3
  <1>5. /\ e.code \in Nat /\ e.vcn \in Nat /\ e.seq \in Nat
        /\ e.ref % Uint16 \in Nat /\ e.ref \div Uint16 \in Nat
    <2>1. e.code \in {16, 48, 128}
      BY DEF ListEntry
    <2>2. e.vcn \in Numbers16 /\ e.ref \in Numbers24 /\ e.seq \in Numbers16
      BY DEF ListEntry
    <2>3. e.code \in Nat
      BY <2>1
    <2>4. e.vcn \in Nat /\ e.ref \in Nat /\ e.seq \in Nat
      BY <2>2, Small
    <2> QED
      BY <2>3, <2>4, Small
  <1>6. Half(list, q) = CASE x = 0 -> e.code [] x = 4 -> EntrySize [] x = 6 -> 26 * 256 [] x = 8 -> e.vcn
                          [] x = 16 -> e.ref % Uint16 [] x = 18 -> e.ref \div Uint16
                          [] x = 22 -> e.seq [] OTHER -> 0
    BY <1>1, <1>4, Zenon DEF Half
  <1>7. PICK c, v, f, g, u \in Nat :
          c = e.code /\ v = e.vcn /\ f = e.ref % Uint16 /\ g = e.ref \div Uint16 /\ u = e.seq
    BY <1>5
  <1>8. Half(list, q) = CASE x = 0 -> c [] x = 4 -> EntrySize [] x = 6 -> 26 * 256 [] x = 8 -> v
                          [] x = 16 -> f [] x = 18 -> g [] x = 22 -> u [] OTHER -> 0
    BY <1>6, <1>7, Zenon
  <1>9. x \in Int
    BY <1>1 DEF EntrySize
  <1> HIDE <1>1
  <1> QED
    BY <1>8, <1>9 DEF EntrySize

\* The same at any offset.
LEMMA WordType ==
  ASSUME NEW list \in Seq(ListEntry), NEW n \in Nat, n = Len(list), NEW p \in Nat, p + 1 < 32 * n
  PROVE  Word(list, p) \in Nat
  <1>1. p < 32 * n /\ p + 1 < 32 * n /\ p - 1 < 32 * n /\ p + 1 \in Nat
    OBVIOUS
  <1>2. Half(list, p) \in Nat
    BY <1>1, HalfType
  <1>3. Half(list, p + 1) \in Nat
    BY <1>1, HalfType
  <1>4. CASE p % 2 = 0
    BY <1>2, <1>4, Zenon DEF Word
  <1>5. CASE p % 2 # 0
    <2>1. p - 1 \in Nat
      <3>1. CASE p = 0
        <4>1. 0 % 2 = 0
          OBVIOUS
        <4> QED
          BY <1>5, <3>1, <4>1
      <3>2. CASE p # 0
        BY <3>2
      <3> QED
        BY <3>1, <3>2
    <2>2. Half(list, p - 1) \in Nat
      BY <1>1, <2>1, HalfType
    <2>3. PICK x, y \in Nat : x = Half(list, p - 1) /\ y = Half(list, p + 1)
      BY <1>3, <2>2
    <2>4. x \div 256 \in Nat
      OBVIOUS
    <2>5. y % 256 \in Nat
      OBVIOUS
    <2>6. PICK i, j \in Nat : i = x \div 256 /\ j = y % 256
      BY <2>4, <2>5
    <2>7. Word(list, p) = i + 256 * j
      BY <1>5, <2>3, <2>6, Zenon DEF Word
    <2>8. i + 256 * j \in Nat
      OBVIOUS
    <2> QED
      BY <2>7, <2>8
  <1> QED
    BY <1>4, <1>5

-----------------------------------------------------------------------------
(* The structs that Unmarshal fills.                                       *)

\* A field that moves the ones behind it by as many bytes as it has where it is stored.
Exact(f) == Advance(f) = Stored(f) /\ Stored(f) \in Nat \ {0}
ExactBefore(s, k) == \A i \in 1 .. k - 1 : Exact(s[i])
IsStruct(s) == Len(s) \in Nat /\ DOMAIN s = 1 .. Len(s)

\* Unmarshal: each field is read behind the one before it.
LEMMA SumsBefore ==
  ASSUME NEW sizes, Len(sizes) \in Nat
  PROVE  /\ 1 <= Len(sizes) => Before(sizes)[1] = 0
         /\ \A k \in 1 .. Len(sizes) - 1 : Before(sizes)[k + 1] = Before(sizes)[k] + sizes[k]
  <1>1. PICK n \in Nat : n = Len(sizes)
    OBVIOUS
  <1>2. PartSums(Before(sizes), sizes, n)
    <2>1. Before(sizes) = CHOOSE at : PartSums(at, sizes, Len(sizes))
      BY Zenon DEF Before, PartSums
    <2> QED
      BY <1>1, <2>1, PartSumsExist, Zenon
  <1> QED
    BY <1>1, <1>2 DEF PartSums

\* Where the fields of a struct are read, and where they are stored: one behind the other.
LEMMA OffsetsAt ==
  ASSUME NEW s, IsStruct(s)
  PROVE  /\ 1 <= Len(s) => Offsets(s)[1] = 0 /\ StoredAt(s)[1] = 0
         /\ \A k \in 1 .. Len(s) - 1 :
              /\ Offsets(s)[k + 1] = Offsets(s)[k] + Advance(s[k])
              /\ StoredAt(s)[k + 1] = StoredAt(s)[k] + Stored(s[k])
  <1> DEFINE advances == [k \in 1 .. Len(s) |-> Advance(s[k])]
             stored == [k \in 1 .. Len(s) |-> Stored(s[k])]
  <1>1. PICK n \in Nat : n = Len(s)
    BY DEF IsStruct
  <1>2. /\ Len(advances) = n /\ \A k \in 1 .. n : advances[k] = Advance(s[k])
        /\ Len(stored) = n /\ \A k \in 1 .. n : stored[k] = Stored(s[k])
    BY <1>1
  <1>3. Offsets(s) = Before(advances) /\ StoredAt(s) = Before(stored)
    BY Zenon DEF Offsets, StoredAt
  <1> HIDE DEF advances, stored
  <1>4. /\ 1 <= n => Before(advances)[1] = 0 /\ Before(stored)[1] = 0
        /\ \A k \in 1 .. n - 1 : Before(advances)[k + 1] = Before(advances)[k] + advances[k]
        /\ \A k \in 1 .. n - 1 : Before(stored)[k + 1] = Before(stored)[k] + stored[k]
    BY <1>2, SumsBefore
  <1> QED
    BY <1>1, <1>2, <1>3, <1>4

\* Up to the first field that is not exact, all are read from where they are stored.
LEMMA ReadAsStored ==
  ASSUME NEW s, IsStruct(s), NEW k \in 1 .. Len(s), ExactBefore(s, k)
  PROVE  Offsets(s)[k] = StoredAt(s)[k] /\ StoredAt(s)[k] \in Nat
  <1> DEFINE T == {i \in Nat : Offsets(s)[i + 1] = StoredAt(s)[i + 1] /\ StoredAt(s)[i + 1] \in Nat}
  <1>1. PICK n \in Nat : n = Len(s) /\ k \in 1 .. n
    BY DEF IsStruct
  <1>2. 0 \in T
    BY <1>1, OffsetsAt
  <1>3. ASSUME NEW i \in 0 .. (k - 1) - 1, i \in T
        PROVE  i + 1 \in T
    <2>1. i + 1 \in 1 .. n - 1 /\ i + 1 \in 1 .. k - 1
      BY <1>1
    <2>2. Exact(s[i + 1])
      BY <2>1 DEF ExactBefore
    <2>3. /\ Offsets(s)[(i + 1) + 1] = Offsets(s)[i + 1] + Advance(s[i + 1])
          /\ StoredAt(s)[(i + 1) + 1] = StoredAt(s)[i + 1] + Stored(s[i + 1])
      BY <1>1, <2>1, OffsetsAt
    <2> QED
      BY <1>3, <2>2, <2>3 DEF Exact
  <1> HIDE DEF T
  <1>4. k - 1 \in Nat
    BY <1>1
  <1>5. k - 1 \in T
    BY <1>2, <1>3, <1>4, InductionUpTo
  <1> QED
    BY <1>1, <1>5 DEF T

\* A struct in which only the last field is not exact is filled from its own bytes.
IsExact(s, n) == Len(s) = n /\ DOMAIN s = 1 .. n /\ ExactBefore(s, n) /\ Stored(s[n]) # 0
LEMMA ExactIsRead ==
  ASSUME NEW s, NEW n \in Nat, IsExact(s, n)
  PROVE  Misread(s) = {}
  <1>1. IsStruct(s) /\ ExactBefore(s, Len(s)) /\ Len(s) \in Nat
    BY DEF IsExact, IsStruct
  <1>2. \A k \in 1 .. Len(s) : ExactBefore(s, k)
    BY <1>1 DEF ExactBefore
  <1>3. \A k \in 1 .. Len(s) : Offsets(s)[k] = StoredAt(s)[k]
    BY <1>1, <1>2, ReadAsStored
  <1>4. \A k \in 1 .. Len(s) : Stored(s[k]) # 0
    <2>1. \A k \in 1 .. Len(s) : k \in 1 .. Len(s) - 1 \/ k = Len(s)
      BY <1>1
    <2>2. Len(s) = n
      BY DEF IsExact
    <2> QED
      BY <1>1, <2>1, <2>2 DEF ExactBefore, Exact, IsExact
  <1> QED
    BY <1>1, <1>3, <1>4 DEF Misread, IsStruct

\* Behind the first field that is not exact, one that is filled is filled from other bytes.
IsShifted(s, n, k) ==
  /\ Len(s) = n /\ DOMAIN s = 1 .. n /\ k \in 1 .. n - 1 /\ ExactBefore(s, k)
  /\ Advance(s[k]) \in Nat /\ Stored(s[k]) \in Nat /\ Advance(s[k]) # Stored(s[k])
  /\ Kind(s[k + 1]) \in Handled \ {"bool"}
LEMMA ShiftedIsMisread ==
  ASSUME NEW s, NEW n \in Nat, NEW k, IsShifted(s, n, k)
  PROVE  Misread(s) # {}
  <1>1. n = Len(s) /\ k \in 1 .. n - 1 /\ DOMAIN s = 1 .. n /\ IsStruct(s)
    BY DEF IsShifted, IsStruct
  <1>2. Offsets(s)[k] = StoredAt(s)[k] /\ StoredAt(s)[k] \in Nat
    <2>1. k \in 1 .. Len(s) /\ ExactBefore(s, k)
      BY <1>1 DEF IsShifted
    <2> QED
      BY <1>1, <2>1, ReadAsStored
  <1>3. /\ Offsets(s)[k + 1] = Offsets(s)[k] + Advance(s[k])
        /\ StoredAt(s)[k + 1] = StoredAt(s)[k] + Stored(s[k])
    BY <1>1, OffsetsAt
  <1>4. Offsets(s)[k + 1] # StoredAt(s)[k + 1]
    BY <1>2, <1>3 DEF IsShifted
  <1>5. k + 1 \in Misread(s)
    BY <1>1, <1>4 DEF Misread, IsShifted
  <1> QED
    BY <1>5

\* Unmarshal reads as many bytes as are stored, but for text, pointers, the signed numbers
\* of 16 and 32 bits, and references that are not called ParRef.
LEMMA ExactFields ==
  /\ \A n : Exact(U8(n)) \/ n = "ParRef"
  /\ \A n : Exact(U16(n)) \/ n = "ParRef"
  /\ \A n : Exact(U32(n)) \/ n = "ParRef"
  /\ \A n : Exact(U64(n)) \/ n = "ParRef"
  /\ \A n : Exact(I64(n)) \/ n = "ParRef"
  /\ \A n : Exact(Time(n)) \/ n = "ParRef"
  /\ \A n : Exact(TimeSpec(n)) \/ n = "ParRef"
  /\ \A n : \A len \in Nat \ {0} : Exact(Array(n, len)) \/ n = "ParRef"
  /\ Exact(Ref("ParRef"))
  BY DEF Exact, U8, U16, U32, U64, I64, Time, TimeSpec, Array, Ref, Advance, Stored, Kind,
         FieldName, Handled, Width

\* The others: text and pointers are passed over, and so are the short signed numbers.
LEMMA OtherFields ==
  /\ \A n, len : n # "ParRef" => Advance(Text(n, len)) = 0 /\ Stored(Text(n, len)) = len
  /\ \A n, len : Advance(Pointer(n, len)) = 0 /\ Stored(Pointer(n, len)) = len
  /\ \A n, len : Advance(<<n, "int16", len>>) = 0 /\ Stored(<<n, "int16", len>>) = len
  /\ \A n, len : Advance(<<n, "int32", len>>) = 0 /\ Stored(<<n, "int32", len>>) = len
  /\ \A n : n # "ParRef" => Advance(Ref(n)) = 8 /\ Stored(Ref(n)) = 6
  BY DEF Text, Pointer, Ref, Advance, Stored, Kind, FieldName, Handled, Width

\* Numbers without a sign, and those of 64 bits, are filled.
LEMMA FilledFields ==
  \A n : \A f \in {U8(n), U16(n), U32(n), U64(n), I64(n)} : Kind(f) \in Handled \ {"bool"}
  BY DEF U8, U16, U32, U64, I64, Kind, Handled, Width

\* What is stored has bytes.
LEMMA StoredFields ==
  /\ \A n : \A f \in {U8(n), U16(n), U32(n), U64(n), I64(n), Time(n), TimeSpec(n)} : Stored(f) # 0
  /\ \A n, len : Stored(Array(n, len)) = len /\ Stored(Text(n, len)) = len
  /\ \A n, kind, len : Stored(<<n, kind, len>>) = len
  BY DEF U8, U16, U32, U64, I64, Time, TimeSpec, Array, Text, Stored

\* The structs that are filled from their own bytes, and the others.
InPlace == {"AttributeHeader", "ATRrecordResident", "SIAttribute", "FNAttribute", "IndexRoot",
  "NodeHeader", "ObjectID", "VolumeInfo", "EA_INFORMATION", "VBR", "MBRPartition", "GPTHeader", "GPTPartition",
  "MdraidSuperblock", "PhysicalVolLabelHeader", "PhysicalVolHeader", "DataAreaDescriptor",
  "MetadataAreaHeader", "RawLocationDescriptor", "DevItem", "NodeHead", "Key", "ChunkItem",
  "ChunkItemStripe", "ExtentItem", "ExtentData", "ExtentDataRem", "InodeItem", "RootRef",
  "InodeRef", "DevExtentItem", "BlockGroupItem"}
OutOfPlace == {"Record", "ATRrecordNoNResident", "AttributeList", "IndexEntry", "IndexAllocation",
  "Reparse", "ExtendedAttribute", "UsnRecord", "Superblock", "Item", "BlockPointer", "RootItem",
  "DirItem"}

\* These are all the structs that Unmarshal fills.
LEMMA StructNames == DOMAIN Structs = InPlace \union OutOfPlace
  BY DEF Structs, InPlace, OutOfPlace

\* Of a name two flags are not stored, and not filled.
LEMMA NameIsRead == Misread(FNAttribute) = {}
  <1> DEFINE s == FNAttribute
  <1>1. Len(s) = 14 /\ DOMAIN s = 1 .. 14 /\ IsStruct(s)
    BY DEF FNAttribute, IsStruct
  <1>2. ExactBefore(s, 13)
    BY ExactFields DEF FNAttribute, ExactBefore
  <1>3. Kind(s[13]) = "bool" /\ Kind(s[14]) = "bool"
    BY DEF FNAttribute, Flag, Kind
  <1> HIDE DEF s
  <1>4. \A k \in 1 .. 12 : Offsets(s)[k] = StoredAt(s)[k] /\ Stored(s[k]) # 0
    <2>1. \A k \in 1 .. 12 : ExactBefore(s, k)
      BY <1>2 DEF ExactBefore
    <2>2. \A k \in 1 .. 12 : k \in 1 .. Len(s)
      BY <1>1
    <2>3. \A k \in 1 .. 12 : Offsets(s)[k] = StoredAt(s)[k]
      BY <1>1, <2>1, <2>2, ReadAsStored, Zenon
    <2>4. \A k \in 1 .. 12 : Stored(s[k]) # 0
      BY <1>2 DEF ExactBefore, Exact
    <2> QED
      BY <2>3, <2>4
  <1>5. \A k \in 1 .. 14 : k \in 1 .. 12 \/ k = 13 \/ k = 14
    OBVIOUS
  <1>6. Misread(s) = {}
    BY <1>1, <1>3, <1>4, <1>5 DEF Misread
  <1> QED
    BY <1>6 DEF s

\* Unmarshal: in these structs each field but the last moves on by the bytes it has.
LEMMA StructsInPlace == \A n \in InPlace : Misread(Structs[n]) = {}
  <1>1. Misread(Structs["AttributeHeader"]) = {}
    <2>1. IsExact(AttributeHeader, 8)
      BY ExactFields, StoredFields DEF AttributeHeader, IsExact, ExactBefore
    <2> QED
      BY <2>1, ExactIsRead DEF Structs
  <1>2. Misread(Structs["ATRrecordResident"]) = {}
    <2>1. IsExact(ATRrecordResident, 3)
      BY ExactFields, StoredFields DEF ATRrecordResident, IsExact, ExactBefore
    <2> QED
      BY <2>1, ExactIsRead DEF Structs
  <1>3. Misread(Structs["SIAttribute"]) = {}
    <2>1. IsExact(SIAttribute, 12)
      BY ExactFields, StoredFields DEF SIAttribute, IsExact, ExactBefore
    <2> QED
      BY <2>1, ExactIsRead DEF Structs
  <1>4. Misread(Structs["FNAttribute"]) = {}
    BY NameIsRead DEF Structs
  <1>5. Misread(Structs["IndexRoot"]) = {}
    <2>1. IsExact(IndexRoot, 4)
      BY ExactFields, StoredFields DEF IndexRoot, IsExact, ExactBefore
    <2> QED
      BY <2>1, ExactIsRead DEF Structs
  <1>6. Misread(Structs["NodeHeader"]) = {}
    <2>1. IsExact(NodeHeader, 4)
      BY ExactFields, StoredFields DEF NodeHeader, IsExact, ExactBefore
    <2> QED
      BY <2>1, ExactIsRead DEF Structs
  <1>7. Misread(Structs["ObjectID"]) = {}
    <2>1. IsExact(ObjectID, 4)
      BY ExactFields, StoredFields DEF ObjectID, IsExact, ExactBefore
    <2> QED
      BY <2>1, ExactIsRead DEF Structs
  <1>8. Misread(Structs["VolumeInfo"]) = {}
    <2>1. IsExact(VolumeInfo, 5)
      BY ExactFields, StoredFields DEF VolumeInfo, IsExact, ExactBefore
    <2> QED
      BY <2>1, ExactIsRead DEF Structs
  <1>9. Misread(Structs["EA_INFORMATION"]) = {}
    <2>1. IsExact(EA_INFORMATION, 3)
      BY ExactFields, StoredFields DEF EA_INFORMATION, IsExact, ExactBefore
    <2> QED
      BY <2>1, ExactIsRead DEF Structs
  <1>10. Misread(Structs["VBR"]) = {}
    <2>1. IsExact(VBR, 9)
      BY ExactFields, StoredFields DEF VBR, IsExact, ExactBefore
    <2> QED
      BY <2>1, ExactIsRead DEF Structs
  <1>11. Misread(Structs["MBRPartition"]) = {}
    <2>1. IsExact(MBRPartition, 6)
      BY ExactFields, StoredFields DEF MBRPartition, IsExact, ExactBefore
    <2> QED
      BY <2>1, ExactIsRead DEF Structs
  <1>12. Misread(Structs["GPTHeader"]) = {}
    <2>1. IsExact(GPTHeader, 16)
      BY ExactFields, StoredFields DEF GPTHeader, IsExact, ExactBefore
    <2> QED
      BY <2>1, ExactIsRead DEF Structs
  <1>13. Misread(Structs["GPTPartition"]) = {}
    <2>1. IsExact(GPTPartition, 6)
      BY ExactFields, StoredFields DEF GPTPartition, IsExact, ExactBefore
    <2> QED
      BY <2>1, ExactIsRead DEF Structs
  <1>14. Misread(Structs["MdraidSuperblock"]) = {}
    <2>1. IsExact(MdraidSuperblock, 30)
      BY ExactFields, StoredFields DEF MdraidSuperblock, IsExact, ExactBefore
    <2> QED
      BY <2>1, ExactIsRead DEF Structs
  <1>15. Misread(Structs["PhysicalVolLabelHeader"]) = {}
    <2>1. IsExact(PhysicalVolLabelHeader, 5)
      BY ExactFields, StoredFields DEF PhysicalVolLabelHeader, IsExact, ExactBefore
    <2> QED
      BY <2>1, ExactIsRead DEF Structs
  <1>16. Misread(Structs["PhysicalVolHeader"]) = {}
    <2>1. IsExact(PhysicalVolHeader, 2)
      BY ExactFields, StoredFields DEF PhysicalVolHeader, IsExact, ExactBefore
    <2> QED
      BY <2>1, ExactIsRead DEF Structs
  <1>17. Misread(Structs["DataAreaDescriptor"]) = {}
    <2>1. IsExact(DataAreaDescriptor, 2)
      BY ExactFields, StoredFields DEF DataAreaDescriptor, IsExact, ExactBefore
    <2> QED
      BY <2>1, ExactIsRead DEF Structs
  <1>18. Misread(Structs["MetadataAreaHeader"]) = {}
    <2>1. IsExact(MetadataAreaHeader, 5)
      BY ExactFields, StoredFields DEF MetadataAreaHeader, IsExact, ExactBefore
    <2> QED
      BY <2>1, ExactIsRead DEF Structs
  <1>19. Misread(Structs["RawLocationDescriptor"]) = {}
    <2>1. IsExact(RawLocationDescriptor, 4)
      BY ExactFields, StoredFields DEF RawLocationDescriptor, IsExact, ExactBefore
    <2> QED
      BY <2>1, ExactIsRead DEF Structs
  <1>20. Misread(Structs["DevItem"]) = {}
    <2>1. IsExact(DevItem, 14)
      BY ExactFields, StoredFields DEF DevItem, IsExact, ExactBefore
    <2> QED
      BY <2>1, ExactIsRead DEF Structs
  <1>21. Misread(Structs["NodeHead"]) = {}
    <2>1. IsExact(NodeHead, 10)
      BY ExactFields, StoredFields DEF NodeHead, IsExact, ExactBefore
    <2> QED
      BY <2>1, ExactIsRead DEF Structs
  <1>22. Misread(Structs["Key"]) = {}
    <2>1. IsExact(Key, 3)
      BY ExactFields, StoredFields DEF Key, IsExact, ExactBefore
    <2> QED
      BY <2>1, ExactIsRead DEF Structs
  <1>23. Misread(Structs["ChunkItem"]) = {}
    <2>1. IsExact(ChunkItem, 9)
      BY ExactFields, StoredFields DEF ChunkItem, IsExact, ExactBefore
    <2> QED
      BY <2>1, ExactIsRead DEF Structs
  <1>24. Misread(Structs["ChunkItemStripe"]) = {}
    <2>1. IsExact(ChunkItemStripe, 3)
      BY ExactFields, StoredFields DEF ChunkItemStripe, IsExact, ExactBefore
    <2> QED
      BY <2>1, ExactIsRead DEF Structs
  <1>25. Misread(Structs["ExtentItem"]) = {}
    <2>1. IsExact(ExtentItem, 3)
      BY ExactFields, StoredFields DEF ExtentItem, IsExact, ExactBefore
    <2> QED
      BY <2>1, ExactIsRead DEF Structs
  <1>26. Misread(Structs["ExtentData"]) = {}
    <2>1. IsExact(ExtentData, 6)
      BY ExactFields, StoredFields DEF ExtentData, IsExact, ExactBefore
    <2> QED
      BY <2>1, ExactIsRead DEF Structs
  <1>27. Misread(Structs["ExtentDataRem"]) = {}
    <2>1. IsExact(ExtentDataRem, 4)
      BY ExactFields, StoredFields DEF ExtentDataRem, IsExact, ExactBefore
    <2> QED
      BY <2>1, ExactIsRead DEF Structs
  <1>28. Misread(Structs["InodeItem"]) = {}
    <2>1. IsExact(InodeItem, 17)
      BY ExactFields, StoredFields DEF InodeItem, IsExact, ExactBefore
    <2> QED
      BY <2>1, ExactIsRead DEF Structs
  <1>29. Misread(Structs["RootRef"]) = {}
    <2>1. IsExact(RootRef, 3)
      BY ExactFields, StoredFields DEF RootRef, IsExact, ExactBefore
    <2> QED
      BY <2>1, ExactIsRead DEF Structs
  <1>30. Misread(Structs["InodeRef"]) = {}
    <2>1. IsExact(InodeRef, 2)
      BY ExactFields, StoredFields DEF InodeRef, IsExact, ExactBefore
    <2> QED
      BY <2>1, ExactIsRead DEF Structs
  <1>31. Misread(Structs["DevExtentItem"]) = {}
    <2>1. IsExact(DevExtentItem, 5)
      BY ExactFields, StoredFields DEF DevExtentItem, IsExact, ExactBefore
    <2> QED
      BY <2>1, ExactIsRead DEF Structs
  <1>32. Misread(Structs["BlockGroupItem"]) = {}
    <2>1. IsExact(BlockGroupItem, 3)
      BY ExactFields, StoredFields DEF BlockGroupItem, IsExact, ExactBefore
    <2> QED
      BY <2>1, ExactIsRead DEF Structs
  <1> QED
    BY <1>1, <1>2, <1>3, <1>4, <1>5, <1>6, <1>7, <1>8, <1>9, <1>10, <1>11, <1>12, <1>13,
       <1>14, <1>15, <1>16, <1>17, <1>18, <1>19, <1>20, <1>21, <1>22, <1>23, <1>24, <1>25,
       <1>26, <1>27, <1>28, <1>29, <1>30, <1>31, <1>32 DEF InPlace

\* The number of clusters of a run list, and the size of a record in an index, are filled from
\* what is behind the struct; so is the number of a child from what is in front of it.
LEMMA BehindTheStruct ==
  /\ Misread(Record) # {} /\ Misread(ATRrecordNoNResident) # {} /\ Misread(IndexEntry) # {}
  <1>1. /\ \A n : Stored(Computed(n)) = 0 /\ Kind(Computed(n)) \in Handled \ {"bool"}
    BY DEF Computed, Stored, Kind, Handled, Width
  <1>2. 16 \in DOMAIN Record /\ Record[16] = Computed("I30Size")
    BY DEF Record
  <1>3. 9 \in DOMAIN ATRrecordNoNResident /\ ATRrecordNoNResident[9] = Computed("RunListTotalLenCl")
    BY DEF ATRrecordNoNResident
  <1>4. IsShifted(IndexEntry, 7, 6)
    BY ExactFields, OtherFields, FilledFields DEF IndexEntry, IsShifted, ExactBefore
  <1>5. 16 \in Misread(Record)
    BY <1>1, <1>2 DEF Misread
  <1>6. 9 \in Misread(ATRrecordNoNResident)
    BY <1>1, <1>3 DEF Misread
  <1>7. Misread(IndexEntry) # {}
    BY <1>4, ShiftedIsMisread
  <1> QED
    BY <1>5, <1>6, <1>7

\* Three fields are skipped in front of the LSN of an index block.
LEMMA IndexAllocationIsMisread == Misread(IndexAllocation) # {}
  <1> DEFINE s == IndexAllocation
  <1>1. /\ Len(s) = 5 /\ DOMAIN s = 1 .. 5 /\ IsStruct(s)
        /\ Advance(s[1]) = 0 /\ Stored(s[1]) = 4
        /\ Advance(s[2]) = 0 /\ Stored(s[2]) = 2
        /\ Advance(s[3]) = 0 /\ Stored(s[3]) = 2
    BY OtherFields DEF IndexAllocation, IsStruct
  <1> HIDE DEF s
  <1>2. /\ Offsets(s)[1] = 0 /\ StoredAt(s)[1] = 0
        /\ \A k \in 1 .. 4 : /\ Offsets(s)[k + 1] = Offsets(s)[k] + Advance(s[k])
                             /\ StoredAt(s)[k + 1] = StoredAt(s)[k] + Stored(s[k])
    <2>1. IsStruct(s) /\ 1 <= Len(s) /\ Len(s) - 1 = 4
      BY <1>1
    <2>2. /\ Offsets(s)[1] = 0 /\ StoredAt(s)[1] = 0
          /\ \A k \in 1 .. Len(s) - 1 :
               /\ Offsets(s)[k + 1] = Offsets(s)[k] + Advance(s[k])
               /\ StoredAt(s)[k + 1] = StoredAt(s)[k] + Stored(s[k])
      BY <2>1, OffsetsAt
    <2> QED
      BY <2>1, <2>2
  <1>3. Offsets(s)[2] = 0 /\ StoredAt(s)[2] = 4
    BY <1>1, <1>2
  <1>4. Offsets(s)[3] = 0 /\ StoredAt(s)[3] = 6
    BY <1>1, <1>2, <1>3
  <1>5. Offsets(s)[4] = 0 /\ StoredAt(s)[4] = 8
    BY <1>1, <1>2, <1>4
  <1>6. Kind(s[4]) \in Handled \ {"bool"}
    BY FilledFields DEF s, IndexAllocation
  <1>7. 4 \in Misread(s)
    BY <1>1, <1>5, <1>6 DEF Misread
  <1> QED
    BY <1>7 DEF s

\* The key in front of a directory entry of BTRFS is passed over.
LEMMA DirItemIsShifted == IsShifted(DirItem, 5, 1)
  <1>1. \A f : Advance(f) = 0 /\ Stored(f) = 17 =>
          IsShifted(<<f, U64("Transid"), U16("DataLen"), U16("NameLen"), U8("Type")>>, 5, 1)
    BY FilledFields DEF IsShifted, ExactBefore
  <1>2. Advance(Pointer("", 17)) = 0 /\ Stored(Pointer("", 17)) = 17
    BY OtherFields, Zenon
  <1> QED
    BY <1>1, <1>2, Zenon DEF DirItem

\* Unmarshal: in these a field is passed over, or read in another width, in front of one
\* that is filled.
LEMMA StructsOutOfPlace == \A n \in OutOfPlace : Misread(Structs[n]) # {}
  <1>1. Misread(Structs["AttributeList"]) # {}
    <2>1. IsShifted(AttributeList, 8, 1)
      BY ExactFields, OtherFields, FilledFields DEF AttributeList, IsShifted, ExactBefore
    <2> QED
      BY <2>1, ShiftedIsMisread DEF Structs
  <1>2. Misread(Structs["IndexAllocation"]) # {}
    BY IndexAllocationIsMisread DEF Structs
  <1>3. Misread(Structs["Reparse"]) # {}
    <2>1. IsShifted(Reparse, 7, 4)
      BY ExactFields, OtherFields, FilledFields DEF Reparse, IsShifted, ExactBefore
    <2> QED
      BY <2>1, ShiftedIsMisread DEF Structs
  <1>4. Misread(Structs["ExtendedAttribute"]) # {}
    <2>1. IsShifted(ExtendedAttribute, 4, 1)
      BY ExactFields, OtherFields, FilledFields DEF ExtendedAttribute, IsShifted, ExactBefore
    <2> QED
      BY <2>1, ShiftedIsMisread DEF Structs
  <1>5. Misread(Structs["UsnRecord"]) # {}
    <2>1. IsShifted(UsnRecord, 15, 4)
      BY ExactFields, OtherFields, FilledFields DEF UsnRecord, IsShifted, ExactBefore
    <2> QED
      BY <2>1, ShiftedIsMisread DEF Structs
  <1>6. Misread(Structs["Superblock"]) # {}
    <2>1. IsShifted(Superblock, 31, 5)
      BY ExactFields, OtherFields, FilledFields DEF Superblock, IsShifted, ExactBefore
    <2> QED
      BY <2>1, ShiftedIsMisread DEF Structs
  <1>7. Misread(Structs["Item"]) # {}
    <2>1. IsShifted(Item, 3, 1)
      BY ExactFields, OtherFields, FilledFields DEF Item, IsShifted, ExactBefore
    <2> QED
      BY <2>1, ShiftedIsMisread DEF Structs
  <1>8. Misread(Structs["BlockPointer"]) # {}
    <2>1. IsShifted(BlockPointer, 3, 1)
      BY ExactFields, OtherFields, FilledFields DEF BlockPointer, IsShifted, ExactBefore
    <2> QED
      BY <2>1, ShiftedIsMisread DEF Structs
  <1>9. Misread(Structs["RootItem"]) # {}
    <2>1. IsShifted(RootItem, 23, 9)
      BY ExactFields, OtherFields, FilledFields DEF RootItem, IsShifted, ExactBefore
    <2> QED
      BY <2>1, ShiftedIsMisread DEF Structs
  <1>10. Misread(Structs["DirItem"]) # {}
    BY DirItemIsShifted, ShiftedIsMisread DEF Structs
  <1>11. /\ Misread(Structs["Record"]) # {} /\ Misread(Structs["ATRrecordNoNResident"]) # {}
         /\ Misread(Structs["IndexEntry"]) # {}
    BY BehindTheStruct DEF Structs
  <1> QED
    BY <1>1, <1>2, <1>3, <1>4, <1>5, <1>6, <1>7, <1>8, <1>9, <1>10, <1>11 DEF OutOfPlace

\* So the structs with a field that is filled from other bytes are those, and no others.
LEMMA LayoutsRead == LayoutsAsStored
  <1>1. {n \in DOMAIN Structs : Misread(Structs[n]) # {}} = OutOfPlace
    BY StructNames, StructsInPlace, StructsOutOfPlace
  <1> QED
    BY <1>1 DEF LayoutsAsStored, OutOfPlace

-----------------------------------------------------------------------------
(* What is in memory of a record.                                          *)

\* The bytes of attributes.
Whole == AttrOff .. RecordSize - EndMarker - 1

\* An attribute in memory is the j-th of the record on disk.
IsOf(a, d, j) ==
  LET stored == d.attrs[j] IN
  /\ a.disk = stored /\ a.type = stored.type /\ a.nonResident = stored.nonResident
  /\ a.at \subseteq Whole
  /\ a.hasRunList => a.nonResident /\ a.RunList = stored.runs
  /\ ~a.hasRunList /\ a.nonResident => RecordSize - StartOf(d.attrs, j + 1) <= stored.runOff
  /\ a.type = "Index Root" => a.IndexEntries = IndexParse(stored.index, RootFront)

\* A record in memory is made of the first i attributes of the n-th of the table.
MadeOf(rec, d, n, i) ==
  /\ rec.number = n
  /\ \A k \in DOMAIN rec.attributes : \E j \in 1 .. i : IsOf(rec.attributes[k], d, j)
  /\ \A j \in 1 .. i : d.attrs[j].type = "FileName"
       => \E k \in DOMAIN rec.attributes : IsOf(rec.attributes[k], d, j)

\* Process: what it keeps of the attribute it is at.
LEMMA ParsedIs ==
  ASSUME NEW d \in DiskRecord, IsSound(d), NEW n \in Nat, n = Len(d.attrs), NEW i \in 1 .. n,
         ReadPtr = StartOf(d.attrs, i)
  PROVE  Parsed(d.attrs[i]) \in Attribute /\ IsOf(Parsed(d.attrs[i]), d, i)
  <1> DEFINE a == d.attrs[i]
             p == Parsed(a)
  <1>1. /\ a \in DiskAttribute /\ a.len \in Nat
        /\ a.nonResident => IsRunList(a.bytes, a.runs)
    BY AttributesType
  <1>2. /\ a.type \in Types /\ a.nonResident \in BOOLEAN /\ a.runs \in Seq(Run)
        /\ a.bytes \in Seq(Byte) /\ a.index \in Seq(Nat)
    BY <1>1 DEF DiskAttribute
  <1>3. /\ StartOf(d.attrs, i) \in AttrOff .. RecordSize - EndMarker
        /\ StartOf(d.attrs, i + 1) \in AttrOff .. RecordSize - EndMarker
        /\ StartOf(d.attrs, i + 1) = StartOf(d.attrs, i) + a.len
    <2>1. i \in 1 .. n + 1 /\ i + 1 \in 1 .. n + 1
      OBVIOUS
    <2>3. /\ StartOf(d.attrs, i) \in AttrOff .. RecordSize - EndMarker
          /\ StartOf(d.attrs, i + 1) \in AttrOff .. RecordSize - EndMarker
      BY <2>1, StartsRise
    <2>4. StartOf(d.attrs, i + 1) = StartOf(d.attrs, i) + a.len
      BY StartsRise
    <2> QED
      BY <2>3, <2>4, Zenon
  <1>4. PICK x \in AttrOff .. RecordSize - EndMarker : x = StartOf(d.attrs, i)
    BY <1>3, Zenon
  <1>4a. PICK y \in AttrOff .. RecordSize - EndMarker :
            y = StartOf(d.attrs, i + 1) /\ y = x + a.len /\ ReadPtr = x
    BY <1>3, <1>4, Zenon
  <1>5. a.nonResident => RunListProcess(a.bytes) = a.runs
    BY <1>1, <1>2, RunListIsRead
  <1>6. /\ p.type = a.type /\ p.nonResident = a.nonResident /\ p.disk = a
        /\ p.at = ReadPtr .. ReadPtr + a.len - 1
        /\ p.hasRunList = (a.nonResident /\ FitsRunList(a))
        /\ p.RunList = (IF a.nonResident /\ FitsRunList(a) THEN RunListProcess(a.bytes) ELSE <<>>)
        /\ p.IndexEntries = (IF a.type = "Index Root" THEN IndexParse(a.index, RootFront) ELSE {})
    BY DEF Parsed
  <1>7. p = [type |-> p.type, nonResident |-> p.nonResident, disk |-> p.disk, at |-> p.at,
             hasRunList |-> p.hasRunList, RunList |-> p.RunList, IndexEntries |-> p.IndexEntries]
    BY DEF Parsed
  <1> HIDE DEF p, a
  <1>8. p.at \subseteq Whole /\ p.at \subseteq Nat
    <2>1. p.at = x .. y - 1
      <3>1. x + a.len - 1 = y - 1
        BY <1>1, <1>4, <1>4a, RecordSizes
      <3> QED
        BY <1>4, <1>4a, <1>6, <3>1, Zenon
    <2> QED
      BY <2>1, RecordSizes DEF Whole
  <1>9. p.hasRunList \in BOOLEAN /\ p.RunList \in Seq(Run)
    <2>1. <<>> \in Seq(Run)
      OBVIOUS
    <2>2. p.RunList = IF a.nonResident /\ FitsRunList(a) THEN a.runs ELSE <<>>
      BY <1>5, <1>6, Zenon
    <2>3. p.RunList \in Seq(Run)
      BY <1>2, <2>1, <2>2, Zenon
    <2>4. p.hasRunList \in BOOLEAN
      BY <1>6, Zenon
    <2> QED
      BY <2>3, <2>4
  <1>10. p.IndexEntries \subseteq Nat
    <2>1. IndexParse(a.index, RootFront) \subseteq DOMAIN a.index
      BY DEF IndexParse
    <2>2. DOMAIN a.index \subseteq Nat /\ {} \subseteq Nat
      BY <1>2, LenProperties
    <2>3. CASE a.type = "Index Root"
      <3>1. p.IndexEntries = IndexParse(a.index, RootFront)
        BY <1>6, <2>3, Zenon
      <3> QED
        BY <2>1, <2>2, <3>1
    <2>4. CASE a.type # "Index Root"
      BY <1>6, <2>2, <2>4, Zenon
    <2> QED
      BY <2>3, <2>4
  <1>11. p \in Attribute
    BY <1>1, <1>2, <1>6, <1>7, <1>8, <1>9, <1>10, Zenon DEF Attribute
  <1>12. ~p.hasRunList /\ p.nonResident => RecordSize - StartOf(d.attrs, i + 1) <= a.runOff
    <2>1. SUFFICES ASSUME ~FitsRunList(a) PROVE RecordSize - y <= a.runOff
      BY <1>4, <1>4a, <1>6
    <2>2. a.runOff \in Nat
      BY <1>1 DEF DiskAttribute
    <2>3. ~(x + a.runOff + a.len < RecordSize)
      BY <1>4a, <2>1 DEF FitsRunList
    <2>4. x + a.len = y /\ x \in Nat /\ y \in Nat /\ a.len \in Nat
      BY <1>1, <1>4, <1>4a, RecordSizes
    <2> HIDE DEF a
    <2> QED
      BY <2>2, <2>3, <2>4, RecordSizes
  <1>13. p.hasRunList => p.nonResident /\ p.RunList = a.runs
    BY <1>5, <1>6, Zenon
  <1>14. p.type = "Index Root" => p.IndexEntries = IndexParse(a.index, RootFront)
    BY <1>6
  <1>15. IsOf(p, d, i)
    BY <1>6, <1>8, <1>12, <1>13, <1>14, Zenon DEF IsOf, a
  <1> QED
    BY <1>11, <1>15 DEF p, a

\* The fields of a record in memory.
LEMMA MemFields ==
  ASSUME NEW rec \in MemRecord
  PROVE  /\ rec.number \in Nat /\ rec.attributes \in Seq(Attribute) /\ rec.Bitmap \in BOOLEAN
         /\ rec.LinkedRecordsInfo \in Seq([ref: Numbers16, vcn: Numbers16])
         /\ rec = [number |-> rec.number, attributes |-> rec.attributes,
                   LinkedRecordsInfo |-> rec.LinkedRecordsInfo, Bitmap |-> rec.Bitmap]
         /\ Len(rec.attributes) \in Nat /\ DOMAIN rec.attributes = 1 .. Len(rec.attributes)
         /\ \A k \in DOMAIN rec.attributes : rec.attributes[k] \in Attribute
  <1>1. /\ rec.number \in Nat /\ rec.attributes \in Seq(Attribute) /\ rec.Bitmap \in BOOLEAN
        /\ rec.LinkedRecordsInfo \in Seq([ref: Numbers16, vcn: Numbers16])
        /\ rec = [number |-> rec.number, attributes |-> rec.attributes,
                  LinkedRecordsInfo |-> rec.LinkedRecordsInfo, Bitmap |-> rec.Bitmap]
    BY DEF MemRecord
  <1>2. Len(rec.attributes) \in Nat /\ DOMAIN rec.attributes = 1 .. Len(rec.attributes)
    BY <1>1, LenProperties
  <1>3. \A k \in DOMAIN rec.attributes : rec.attributes[k] \in Attribute
    BY <1>1, <1>2, ElementOfSeq
  <1> QED
    BY <1>1, <1>2, <1>3

\* Process: the record it begins with has no attribute yet.
LEMMA BeginsEmpty ==
  ASSUME NEW d, NEW n \in Nat
  PROVE  /\ Empty \in MemRecord /\ [Empty EXCEPT !.number = n] \in MemRecord
         /\ MadeOf([Empty EXCEPT !.number = n], d, n, 0)
         /\ [Empty EXCEPT !.number = n].attributes = <<>>
         /\ Empty.number = 0 /\ Empty.attributes = <<>>
  <1>1. /\ <<>> \in Seq(Attribute) /\ <<>> \in Seq([ref: Numbers16, vcn: Numbers16])
        /\ FALSE \in BOOLEAN /\ 0 \in Nat
    OBVIOUS
  <1>2. [Empty EXCEPT !.number = n]
          = [number |-> n, attributes |-> <<>>, LinkedRecordsInfo |-> <<>>, Bitmap |-> FALSE]
    <2>1. \A f, g, h : [[number |-> 0, attributes |-> f, LinkedRecordsInfo |-> g, Bitmap |-> h]
                        EXCEPT !.number = n]
                      = [number |-> n, attributes |-> f, LinkedRecordsInfo |-> g, Bitmap |-> h]
      OBVIOUS
    <2> QED
      BY <2>1, Zenon DEF Empty
  <1>3. Empty \in MemRecord
    BY <1>1, Zenon DEF Empty, MemRecord
  <1>4. [number |-> n, attributes |-> <<>>, LinkedRecordsInfo |-> <<>>, Bitmap |-> FALSE] \in MemRecord
    BY <1>1, Zenon DEF MemRecord
  <1>5. /\ [Empty EXCEPT !.number = n].number = n
        /\ [Empty EXCEPT !.number = n].attributes = <<>>
    BY <1>2
  <1>6. MadeOf([Empty EXCEPT !.number = n], d, n, 0)
    <2>1. 1 .. 0 = {} /\ DOMAIN <<>> = {}
      OBVIOUS
    <2> QED
      BY <1>5, <2>1, Zenon DEF MadeOf
  <1>7. Empty.number = 0 /\ Empty.attributes = <<>>
    BY DEF Empty
  <1> QED
    BY <1>2, <1>3, <1>4, <1>5, <1>6, <1>7

\* Process: one attribute more.
LEMMA AttributeMade ==
  ASSUME NEW d \in DiskRecord, IsSound(d), NEW n \in Nat, n = Len(d.attrs), NEW i \in 1 .. n,
         ReadPtr = StartOf(d.attrs, i), record \in MemRecord, NEW number,
         NEW links \in Seq([ref: Numbers16, vcn: Numbers16]),
         MadeOf(record, d, number, i - 1)
  PROVE  /\ WithAttribute(d.attrs[i], links) \in MemRecord
         /\ MadeOf(WithAttribute(d.attrs[i], links), d, number, i)
  <1> DEFINE a == d.attrs[i]
             new == WithAttribute(a, links)
             p == Parsed(a)
  <1>1. /\ record.number \in Nat /\ record.attributes \in Seq(Attribute) /\ record.Bitmap \in BOOLEAN
        /\ record.LinkedRecordsInfo \in Seq([ref: Numbers16, vcn: Numbers16])
        /\ record = [number |-> record.number, attributes |-> record.attributes,
                     LinkedRecordsInfo |-> record.LinkedRecordsInfo, Bitmap |-> record.Bitmap]
    BY MemFields
  <1>2. p \in Attribute /\ IsOf(p, d, i)
    BY ParsedIs
  <1>3. a.type = "FileName" => ~a.nonResident
    BY AttributesType
  <1> HIDE DEF a, p
  <1>4. PICK f \in Seq(Attribute), g \in Seq([ref: Numbers16, vcn: Numbers16]), h \in BOOLEAN :
          /\ f = (IF IsKnown(a) THEN Append(record.attributes, p) ELSE record.attributes)
          /\ g = record.LinkedRecordsInfo \o links
          /\ h = (record.Bitmap \/ a.type = "BitMap")
    <2>1. Append(record.attributes, p) \in Seq(Attribute)
      BY <1>1, <1>2
    <2>2. record.LinkedRecordsInfo \o links \in Seq([ref: Numbers16, vcn: Numbers16])
      BY <1>1, ConcatProperties
    <2>3. (IF IsKnown(a) THEN Append(record.attributes, p) ELSE record.attributes) \in Seq(Attribute)
      BY <1>1, <2>1, Zenon
    <2>4. (record.Bitmap \/ a.type = "BitMap") \in BOOLEAN
      BY Zenon
    <2> QED
      BY <2>2, <2>3, <2>4, Zenon
  <1>5. new = [record EXCEPT !.attributes = f, !.LinkedRecordsInfo = g, !.Bitmap = h]
    BY <1>4, Zenon DEF WithAttribute, p
  <1> HIDE DEF new
  <1>8. new \in MemRecord /\ new.number = record.number /\ new.attributes = f
    BY <1>5 DEF MemRecord
  <1>9. PICK m \in Nat : /\ m = Len(record.attributes) /\ DOMAIN record.attributes = 1 .. m
    BY <1>1, LenProperties
  <1>10. CASE IsKnown(a)
    <2>1. /\ DOMAIN new.attributes = 1 .. m + 1 /\ new.attributes[m + 1] = p
          /\ \A k \in 1 .. m : new.attributes[k] = record.attributes[k]
      BY <1>1, <1>2, <1>4, <1>8, <1>9, <1>10, AppendProperties
    <2>2. ASSUME NEW k \in 1 .. m + 1
          PROVE  \E j \in 1 .. i : IsOf(new.attributes[k], d, j)
      <3>1. CASE k = m + 1
        BY <1>2, <2>1, <3>1
      <3>2. CASE k # m + 1
        <4>1. k \in 1 .. m
          BY <3>2
        <4>2. PICK j \in 1 .. i - 1 : IsOf(record.attributes[k], d, j)
          BY <1>9, <4>1 DEF MadeOf
        <4>3. j \in 1 .. i
          OBVIOUS
        <4> QED
          BY <2>1, <4>1, <4>2, <4>3
      <3> QED
        BY <3>1, <3>2
    <2>3. ASSUME NEW j \in 1 .. i, d.attrs[j].type = "FileName"
          PROVE  \E k \in 1 .. m + 1 : IsOf(new.attributes[k], d, j)
      <3>1. CASE j = i
        <4>1. m + 1 \in 1 .. m + 1
          OBVIOUS
        <4> QED
          BY <1>2, <2>1, <3>1, <4>1
      <3>2. CASE j # i
        <4>1. j \in 1 .. i - 1
          BY <3>2
        <4>2. PICK k \in 1 .. m : IsOf(record.attributes[k], d, j)
          BY <1>9, <2>3, <4>1 DEF MadeOf
        <4>3. k \in 1 .. m + 1
          OBVIOUS
        <4> QED
          BY <2>1, <4>2, <4>3
      <3> QED
        BY <3>1, <3>2
    <2>4. MadeOf(new, d, number, i)
      BY <1>8, <2>1, <2>2, <2>3 DEF MadeOf
    <2> QED
      BY <1>8, <2>4 DEF new, a
  <1>11. CASE ~IsKnown(a)
    <2>1. new.attributes = record.attributes
      BY <1>4, <1>8, <1>11
    <2>2. a.type # "FileName"
      BY <1>3, <1>11 DEF IsKnown, KnownResident
    <2>3. \A k \in DOMAIN new.attributes : \E j \in 1 .. i : IsOf(new.attributes[k], d, j)
      <3>1. \A j \in 1 .. i - 1 : j \in 1 .. i
        OBVIOUS
      <3> QED
        BY <2>1, <3>1, Zenon DEF MadeOf
    <2>4. \A j \in 1 .. i : d.attrs[j].type = "FileName"
            => \E k \in DOMAIN new.attributes : IsOf(new.attributes[k], d, j)
      <3>1. ASSUME NEW j \in 1 .. i, d.attrs[j].type = "FileName" PROVE j \in 1 .. i - 1
        BY <2>2, <3>1 DEF a
      <3> QED
        BY <2>1, <3>1, Zenon DEF MadeOf
    <2>5. new.number = number
      BY <1>8 DEF MadeOf
    <2>6. MadeOf(new, d, number, i)
      BY <2>3, <2>4, <2>5, Zenon DEF MadeOf
    <2> QED
      BY <1>8, <2>6 DEF new, a
  <1> QED
    BY <1>10, <1>11

-----------------------------------------------------------------------------
(* The invariant of Process.                                               *)

Parsing == {"record", "attribute", "list"}

\* What ProcessRecords leaves of the n-th record of the table.
IsEntry(rec, d, n) == IF d.signature = "FILE" THEN MadeOf(rec, d, n, Len(d.attrs)) ELSE rec = Empty

\* The types of Process; no entry of an attribute list is ever kept, for want of a type.
Typed ==
  /\ job \in Jobs
  /\ pc \in {"record", "attribute", "list", "nonresident", "select", "filter", "show", "done", "panic"}
  /\ r \in 1 .. Len(disk) + 1
  /\ ReadPtr \in 0 .. RecordSize - EndMarker
  /\ restored \subseteq SectorEnds
  /\ attrLen \in Numbers16
  /\ entries = <<>>
  /\ record \in MemRecord
  /\ Records \in Seq(MemRecord)

\* The records in front of r are in memory.
Table ==
  /\ Len(Records) = IF pc \in Parsing \/ Stopped THEN r - 1 ELSE Len(disk)
  /\ \A n \in 1 .. Len(Records) : IsEntry(Records[n], disk[n], n)

\* The attributes of the record r in front of ReadPtr are in memory.
At(i) ==
  /\ ReadPtr = StartOf(attrs, i) /\ MadeOf(record, disk[r], r, i - 1)
  /\ pc = "list" => i <= Len(attrs) /\ IsList(attrs[i])
Current ==
  pc \in {"attribute", "list"} =>
    /\ r <= Len(disk) /\ disk[r].signature = "FILE" /\ restored = RestoredFirst
    /\ \E i \in 1 .. Len(attrs) + 1 : At(i)

\* No attribute reaches the end of the second sector, and the first has its bytes back.
Lent ==
  /\ record # Empty => restored = RestoredFirst
  /\ \A k \in DOMAIN record.attributes : record.attributes[k].at \subseteq Whole

PInv == Typed /\ Table /\ Current /\ Lent

\* The record that is being processed is sound.
LEMMA CurrentType ==
  ASSUME Typed, r <= Len(disk)
  PROVE  /\ r \in 1 .. Len(disk) /\ disk[r] \in DiskRecord /\ IsSound(disk[r])
         /\ attrs = disk[r].attrs /\ Len(attrs) \in Nat /\ DOMAIN attrs = 1 .. Len(attrs)
         /\ attrs \in Seq(DiskAttribute)
         /\ \A k \in 1 .. Len(attrs) : attrs[k] \in DiskAttribute /\ attrs[k].len \in Nat
  <1>1. Len(disk) \in Nat /\ \A n \in 1 .. Len(disk) : disk[n] \in DiskRecord /\ IsSound(disk[n])
    BY JobType DEF Typed, disk
  <1>2. r \in 1 .. Len(disk)
    BY <1>1 DEF Typed
  <1>3. attrs = disk[r].attrs
    BY DEF attrs
  <1>4. disk[r] \in DiskRecord /\ IsSound(disk[r])
    BY <1>1, <1>2
  <1> QED
    BY <1>2, <1>3, <1>4, AttributesType

\* The loop of Process: the attribute at ReadPtr is the one whose turn it is.
LEMMA HereIs ==
  ASSUME Typed, r <= Len(disk), NEW i \in 1 .. Len(attrs) + 1, ReadPtr = StartOf(attrs, i)
  PROVE  Here = IF i <= Len(attrs) THEN i ELSE 0
  <1>1. PICK n \in Nat : n = Len(attrs) /\ DOMAIN attrs = 1 .. n
    BY CurrentType
  <1>2. \A k \in 1 .. n + 1 : \A j \in k + 1 .. n + 1 : StartOf(attrs, k) < StartOf(attrs, j)
    BY <1>1, CurrentType, StartsRise
  <1>3. \A k \in 1 .. n + 1 : StartOf(attrs, k) \in Nat
    <2>1. AttrOff .. RecordSize - EndMarker \subseteq Nat
      BY DEF AttrOff, RecordSize, EndMarker
    <2> QED
      BY <1>1, <2>1, CurrentType, StartsRise
  <1>4. ASSUME NEW k \in 1 .. n, StartOf(attrs, k) = ReadPtr
        PROVE  k = i
    <2>1. i \in 1 .. n + 1 /\ k \in 1 .. n + 1
      BY <1>1
    <2>2. PICK x, y \in Nat : x = StartOf(attrs, k) /\ y = StartOf(attrs, i) /\ x = y
      BY <1>3, <1>4, <2>1
    <2>3. CASE k < i
      <3>1. i \in k + 1 .. n + 1
        BY <2>1, <2>3
      <3>2. x < y
        BY <1>2, <2>1, <2>2, <3>1
      <3> QED
        BY <2>2, <3>2
    <2>4. CASE i < k
      <3>1. k \in i + 1 .. n + 1
        BY <2>1, <2>4
      <3>2. y < x
        BY <1>2, <2>1, <2>2, <3>1
      <3> QED
        BY <2>2, <3>2
    <2> QED
      BY <2>1, <2>3, <2>4
  <1>5. CASE i <= n
    <2>1. i \in 1 .. n
      BY <1>1, <1>5
    <2>2. Here = CHOOSE k \in 1 .. n : StartOf(attrs, k) = ReadPtr
      BY <1>1, <2>1, Zenon DEF Here
    <2>3. Here = i
      BY <1>4, <2>1, <2>2
    <2> QED
      BY <1>1, <1>5, <2>3
  <1>6. CASE ~(i <= n)
    <2>1. \A k \in 1 .. n : k # i
      BY <1>6
    <2>2. ~(\E k \in DOMAIN attrs : StartOf(attrs, k) = ReadPtr)
      BY <1>1, <1>4, <2>1
    <2>3. Here = 0
      BY <2>2, Zenon DEF Here
    <2> QED
      BY <1>1, <1>6, <2>3
  <1> QED
    BY <1>5, <1>6

\* ProcessRecords: one record more.
LEMMA EntryAppended ==
  ASSUME Typed, Table, pc \in Parsing, r <= Len(disk), NEW rec \in MemRecord,
         IsEntry(rec, disk[r], r)
  PROVE  /\ Append(Records, rec) \in Seq(MemRecord) /\ Len(Append(Records, rec)) = r
         /\ \A n \in 1 .. r : IsEntry(Append(Records, rec)[n], disk[n], n)
  <1>1. r \in Nat /\ Len(Records) = r - 1 /\ Records \in Seq(MemRecord)
    BY CurrentType DEF Typed, Table
  <1>2. /\ Append(Records, rec) \in Seq(MemRecord) /\ Len(Append(Records, rec)) = r
        /\ \A n \in 1 .. r - 1 : Append(Records, rec)[n] = Records[n]
        /\ Append(Records, rec)[r] = rec
    BY <1>1
  <1>3. ASSUME NEW n \in 1 .. r
        PROVE  IsEntry(Append(Records, rec)[n], disk[n], n)
    <2>1. CASE n = r
      BY <1>2, <2>1
    <2>2. CASE n # r
      <3>1. n \in 1 .. r - 1 /\ n \in 1 .. Len(Records)
        BY <1>1, <2>2
      <3> QED
        BY <1>2, <3>1 DEF Table
    <2> QED
      BY <2>1, <2>2
  <1> QED
    BY <1>2, <1>3

\* Nothing of Process changes: the invariant holds on.
LEMMA Apart ==
  ASSUME PInv, pc \notin Parsing, pc' \notin Parsing, pc # "panic", Typed',
         UNCHANGED <<job, record, restored, Records>>
  PROVE  PInv' /\ ~Stopped /\ ~Stopped'
  <1>0. disk' = disk /\ Len(Records) = Len(disk) /\ ~Stopped /\ ~Stopped'
    <2>1. disk' = disk /\ ~Stopped
      BY DEF disk, Stopped
    <2>2. Len(Records) = Len(disk)
      BY <2>1 DEF PInv, Table
    <2>3. Len(disk) \in Nat
      BY JobType DEF PInv, Typed, disk
    <2> QED
      BY <2>1, <2>2, <2>3 DEF Stopped
  <1>1. Table'
    BY <1>0 DEF PInv, Table
  <1>2. Current'
    BY DEF Current, Parsing
  <1>3. Lent'
    BY DEF PInv, Lent
  <1> QED
    BY <1>0, <1>1, <1>2, <1>3 DEF PInv

-----------------------------------------------------------------------------
(* The steps of Process.                                                   *)

\* ProcessRecord keeps the invariant.
LEMMA RecordStep ==
  ASSUME PInv, ProcessRecord
  PROVE  PInv'
  <1> USE DEF PInv
  <1>1. /\ pc = "record" /\ r <= Len(disk) /\ job' = job /\ attrLen' = attrLen /\ entries' = entries
        /\ disk' = disk
    BY DEF ProcessRecord, disk
  <1>2. r \in 1 .. Len(disk) /\ Len(disk) \in Nat
    BY <1>1, CurrentType, JobType DEF Typed, disk
  <1>3. CASE disk[r].signature # "FILE"
    <2>1. /\ Records' = Append(Records, Empty) /\ r' = r + 1
          /\ pc' = pc /\ ReadPtr' = ReadPtr /\ restored' = restored /\ record' = record
      BY <1>3 DEF ProcessRecord
    <2>2. Empty \in MemRecord
      BY BeginsEmpty, <1>2
    <2>3. IsEntry(Empty, disk[r], r)
      BY <1>3 DEF IsEntry
    <2>4. /\ Records' \in Seq(MemRecord) /\ Len(Records') = r
          /\ \A n \in 1 .. r : IsEntry(Records'[n], disk[n], n)
      <3>1. pc \in Parsing
        BY <1>1 DEF Parsing
      <3> QED
        BY <1>1, <2>1, <2>2, <2>3, <3>1, EntryAppended
    <2>5. Typed'
      <3>1. r' \in 1 .. Len(disk') + 1
        BY <1>1, <1>2, <2>1
      <3> QED
        BY <1>1, <2>1, <2>4, <3>1 DEF Typed
    <2>6. Table'
      <3>1. pc' \in Parsing /\ r' - 1 = r
        BY <1>1, <1>2, <2>1 DEF Parsing
      <3>2. Len(Records') = r' - 1 /\ \A n \in 1 .. Len(Records') : IsEntry(Records'[n], disk'[n], n)
        BY <1>1, <2>4, <3>1
      <3> QED
        BY <3>1, <3>2 DEF Table
    <2>7. Current'
      BY <1>1, <2>1 DEF Current
    <2>8. Lent'
      BY <2>1 DEF Lent
    <2> QED
      BY <2>5, <2>6, <2>7, <2>8
  <1>4. CASE disk[r].signature = "FILE"
    <2>1. /\ record' = [Empty EXCEPT !.number = r] /\ restored' = RestoredFirst /\ ReadPtr' = AttrOff
          /\ pc' = "attribute" /\ r' = r /\ Records' = Records
      BY <1>4 DEF ProcessRecord
    <2>2. /\ record' \in MemRecord /\ MadeOf(record', disk[r], r, 0) /\ record'.attributes = <<>>
      BY <1>2, <2>1, BeginsEmpty
    <2>3. Typed'
      <3>1. AttrOff \in 0 .. RecordSize - EndMarker
        BY DEF AttrOff, RecordSize, EndMarker
      <3>2. RestoredFirst \subseteq SectorEnds
        BY DEF RestoredFirst, SectorEnds
      <3> QED
        BY <1>1, <1>2, <2>1, <2>2, <3>1, <3>2 DEF Typed
    <2>4. Table'
      <3>1. pc \in Parsing /\ pc' \in Parsing
        BY <1>1, <2>1 DEF Parsing
      <3> QED
        BY <1>1, <2>1, <3>1 DEF Table
    <2>5. Current'
      <3>1. attrs' = attrs
        BY <1>1, <2>1 DEF attrs
      <3>2. StartOf(attrs, 1) = AttrOff
        BY <1>1, CurrentType, StartsRise
      <3>3. 1 \in 1 .. Len(attrs) + 1 /\ 1 - 1 = 0
        BY <1>1, CurrentType
      <3>4. At(1)'
        BY <1>1, <2>1, <2>2, <3>1, <3>2, <3>3 DEF At
      <3> QED
        BY <1>1, <1>4, <2>1, <3>1, <3>3, <3>4 DEF Current
    <2>6. Lent'
      BY <2>1, <2>2 DEF Lent
    <2> QED
      BY <2>3, <2>4, <2>5, <2>6
  <1> QED
    BY <1>3, <1>4

\* One turn of the loop over the attributes behind which the next one begins.
LEMMA TurnTaken ==
  ASSUME PInv, pc \in {"attribute", "list"}, NEW i \in 1 .. Len(attrs), At(i),
         record' = WithAttribute(attrs[i], <<>>), ReadPtr' = ReadPtr + attrs[i].len,
         pc' = "attribute", entries' = <<>>, attrLen' \in Numbers16,
         job' = job, r' = r, restored' = restored, Records' = Records
  PROVE  PInv'
  <1>1. /\ r <= Len(disk) /\ disk[r].signature = "FILE" /\ restored = RestoredFirst
        /\ disk' = disk /\ attrs' = attrs
    BY DEF PInv, Current, disk, attrs
  <1>2. PICK n \in Nat : n = Len(attrs)
    BY <1>1, CurrentType DEF PInv
  <1>3. /\ disk[r] \in DiskRecord /\ IsSound(disk[r]) /\ attrs = disk[r].attrs
        /\ attrs[i] \in DiskAttribute /\ attrs[i].len \in Nat /\ r \in 1 .. Len(disk)
    BY <1>1, CurrentType DEF PInv
  <1>4. i \in 1 .. n /\ i + 1 \in 1 .. n + 1 /\ (i + 1) - 1 = i
    BY <1>2
  <1>5. /\ StartOf(attrs, i + 1) = ReadPtr + attrs[i].len
        /\ StartOf(attrs, i + 1) \in AttrOff .. RecordSize - EndMarker
    BY <1>2, <1>3, <1>4, StartsRise DEF At
  <1>6. record' \in MemRecord /\ MadeOf(record', disk[r], r, i)
    <2>1. <<>> \in Seq([ref: Numbers16, vcn: Numbers16])
      OBVIOUS
    <2>2. record \in MemRecord /\ MadeOf(record, disk[r], r, i - 1)
      BY DEF PInv, Typed, At
    <2> QED
      BY <1>2, <1>3, <1>4, <2>1, <2>2, AttributeMade DEF At
  <1>7. Typed'
    <2>1. AttrOff .. RecordSize - EndMarker \subseteq 0 .. RecordSize - EndMarker
      BY DEF AttrOff, RecordSize, EndMarker
    <2> QED
      BY <1>1, <1>5, <1>6, <2>1 DEF PInv, Typed
  <1>8. Table'
    <2>1. pc \in Parsing /\ pc' \in Parsing
      BY DEF Parsing
    <2> QED
      BY <1>1, <2>1 DEF PInv, Table
  <1>9. Current'
    <2>1. At(i + 1)'
      BY <1>1, <1>4, <1>5, <1>6 DEF At
    <2> QED
      BY <1>1, <1>2, <1>4, <2>1 DEF Current
  <1>10. Lent'
    <2>1. ASSUME NEW k \in DOMAIN record'.attributes
          PROVE  record'.attributes[k].at \subseteq Whole
      BY <1>6, <2>1 DEF MadeOf, IsOf
    <2> QED
      BY <1>1, <2>1 DEF Lent
  <1> QED
    BY <1>7, <1>8, <1>9, <1>10 DEF PInv

\* ProcessAttribute keeps the invariant.
LEMMA AttributeStep ==
  ASSUME PInv, ProcessAttribute
  PROVE  PInv'
  <1>1. /\ pc = "attribute" /\ Here # 0 /\ job' = job /\ r' = r /\ restored' = restored
        /\ Records' = Records /\ disk' = disk /\ attrs' = attrs
    BY DEF ProcessAttribute, disk, attrs
  <1>2. PICK i \in 1 .. Len(attrs) + 1 : At(i)
    BY <1>1 DEF PInv, Current
  <1>3. r <= Len(disk) /\ Typed
    BY <1>1 DEF PInv, Current
  <1>4. i \in 1 .. Len(attrs) /\ Here = i
    <2>1. Here = IF i <= Len(attrs) THEN i ELSE 0
      BY <1>2, <1>3, HereIs DEF At
    <2>2. PICK n \in Nat : n = Len(attrs)
      BY <1>3, CurrentType
    <2> QED
      BY <1>1, <2>1, <2>2
  <1>5. CASE IsList(attrs[i])
    <2>1. attrLen' = 0 /\ entries' = <<>> /\ pc' = "list" /\ record' = record /\ ReadPtr' = ReadPtr
      BY <1>4, <1>5, Zenon DEF ProcessAttribute
    <2>2. Typed'
      <3>1. 0 \in Numbers16
        BY Small
      <3> QED
        BY <1>1, <1>3, <2>1, <3>1 DEF Typed
    <2>3. Table'
      <3>1. pc \in Parsing /\ pc' \in Parsing
        BY <1>1, <2>1 DEF Parsing
      <3> QED
        BY <1>1, <2>1, <3>1 DEF PInv, Table
    <2>4. Current'
      <3>1. i <= Len(attrs)
        BY <1>3, <1>4, CurrentType
      <3>2. At(i)'
        BY <1>1, <1>2, <1>5, <2>1, <3>1 DEF At
      <3>3. disk[r].signature = "FILE" /\ restored = RestoredFirst
        BY <1>1 DEF PInv, Current
      <3> QED
        BY <1>1, <1>3, <2>1, <3>2, <3>3 DEF Current
    <2>5. Lent'
      BY <1>1, <2>1 DEF PInv, Lent
    <2> QED
      BY <2>2, <2>3, <2>4, <2>5 DEF PInv
  <1>6. CASE ~IsList(attrs[i])
    <2>1. /\ record' = WithAttribute(attrs[i], <<>>) /\ ReadPtr' = ReadPtr + attrs[i].len
          /\ pc' = pc /\ attrLen' = attrLen /\ entries' = entries
      BY <1>4, <1>6, Zenon DEF ProcessAttribute
    <2> QED
      BY <1>1, <1>2, <1>3, <1>4, <2>1, TurnTaken DEF Typed
  <1> QED
    BY <1>5, <1>6

\* Parse of attrlist.go: the list it is in, and the fields of an entry, which are in the list.
LEMMA ListIs ==
  ASSUME PInv, pc = "list", ~ListEnd
  PROVE  \E i \in 1 .. Len(attrs) :
           /\ At(i) /\ Here = i /\ IsList(attrs[i]) /\ attrs[i] \in DiskAttribute
           /\ attrLen \in Nat /\ attrLen + ListFront < attrs[i].len - ListFront
           /\ \A name \in {"Len", "Namelen", "Nameoffset"} : Field(name) \in Nat
  <1>1. PICK i \in 1 .. Len(attrs) + 1 : At(i)
    BY DEF PInv, Current
  <1>2. r <= Len(disk) /\ Typed
    BY DEF PInv, Current
  <1>3. i \in 1 .. Len(attrs) /\ Here = i /\ IsList(attrs[i])
    <2>1. Here = IF i <= Len(attrs) THEN i ELSE 0
      BY <1>1, <1>2, HereIs DEF At
    <2>2. PICK n \in Nat : n = Len(attrs)
      BY <1>2, CurrentType
    <2>3. i <= Len(attrs) /\ IsList(attrs[i])
      BY <1>1 DEF At
    <2> QED
      BY <2>1, <2>2, <2>3
  <1>4. PICK a \in DiskAttribute : a = attrs[i] /\ HasRoom(a)
    <2>1. attrs[i] \in DiskAttribute
      BY <1>2, <1>3, CurrentType
    <2>2. HasRoom(attrs[i])
      BY <1>2, <1>3, CurrentType, AttributesType
    <2> QED
      BY <2>1, <2>2
  <1>5. PICK list \in Seq(ListEntry), n \in Nat : list = a.list /\ n = Len(list)
    <2>1. a.list \in Seq(ListEntry)
      BY DEF DiskAttribute
    <2> QED
      BY <2>1, LenProperties
  <1>6. PICK x \in Nat : x = attrLen
    BY <1>2, Small DEF Typed
  <1>7. x + 24 < 32 * n
    <2>1. ~(24 + attrLen >= EntrySize * Len(attrs[i].list))
      BY <1>3 DEF ListEnd
    <2> QED
      BY <1>4, <1>5, <1>6, <2>1 DEF EntrySize
  <1>8. x + ListFront < a.len - ListFront
    <2>1. ListFront + EntrySize * n <= a.len
      BY <1>3, <1>4, <1>5 DEF HasRoom, IsList
    <2>2. a.len \in Nat
      BY DEF DiskAttribute
    <2> QED
      BY <1>7, <2>1, <2>2 DEF ListFront, EntrySize
  <1>9. ASSUME NEW name \in {"Len", "Namelen", "Nameoffset"}
        PROVE  Field(name) \in Nat
    <2>1. PICK y \in Nat : y = OffsetOf(AttributeList, name) /\ y <= 3
      <3>1. OffsetOf(AttributeList, name) \in {0, 2, 3}
        BY EntryLayout
      <3> QED
        BY <3>1
    <2>2. Word(list, x + y) \in Nat
      <3>1. x + y \in Nat /\ (x + y) + 1 < 32 * n
        BY <1>7, <2>1
      <3> QED
        BY <1>5, <3>1, WordType
    <2>3. Field(name) = Word(list, x + y)
      BY <1>3, <1>4, <1>5, <1>6, <2>1, Zenon DEF Field
    <2> QED
      BY <2>2, <2>3
  <1> QED
    BY <1>1, <1>3, <1>4, <1>6, <1>8, <1>9

\* ParseListEntry keeps the invariant: it reads the fields of an entry in the list.
LEMMA ListEntryStep ==
  ASSUME PInv, ParseListEntry
  PROVE  PInv'
  <1> DEFINE len == Field("Len")
             sum == Wrapped(attrLen + len)
  <1>1. /\ pc = "list" /\ pc' = pc /\ ~ListEnd /\ job' = job /\ r' = r /\ ReadPtr' = ReadPtr
        /\ restored' = restored /\ record' = record /\ Records' = Records
        /\ disk' = disk /\ attrs' = attrs
    BY DEF ParseListEntry, disk, attrs
  <1>2. attrLen' = IF StopsAt(len, sum) THEN Uint16 - 25 ELSE sum
    BY Zenon DEF ParseListEntry
  <1>3. entries' = entries
    <2>1. "" # "DATA"
      OBVIOUS
    <2> QED
      BY <2>1, EntryLayout, Zenon DEF ParseListEntry
  <1>4. PICK i \in 1 .. Len(attrs) : At(i)
    BY <1>1, ListIs
  <1>5. r <= Len(disk) /\ Typed
    BY <1>1 DEF PInv, Current
  <1>8. attrLen \in Nat /\ len \in Nat
    BY <1>1, ListIs
  <1> HIDE DEF len
  <1>10. attrLen' \in Numbers16
    <2>1. attrLen + len \in Int
      BY <1>8
    <2>2. sum \in Numbers16
      BY <2>1, Small DEF Wrapped
    <2>3. Uint16 - 25 \in Numbers16
      BY DEF Uint16, Numbers16, MaxUint16
    <2> HIDE DEF sum
    <2> QED
      BY <1>2, <2>2, <2>3, Zenon
  <1>11. Typed'
    BY <1>1, <1>3, <1>5, <1>10 DEF Typed
  <1>12. Table'
    <2>1. pc \in Parsing /\ pc' \in Parsing
      BY <1>1 DEF Parsing
    <2> QED
      BY <1>1, <2>1 DEF PInv, Table
  <1>13. Current'
    <2>1. At(i)'
      BY <1>1, <1>4 DEF At
    <2> QED
      BY <1>1, <2>1 DEF PInv, Current
  <1>14. Lent'
    BY <1>1 DEF PInv, Lent
  <1> QED
    BY <1>11, <1>12, <1>13, <1>14 DEF PInv

\* SliceFails: the name of an entry ends less than 741 bytes behind the list, so that the
\* list is one at the end of the last record.
LEMMA SliceIsNear ==
  ASSUME PInv, SliceFails
  PROVE  /\ r = Len(disk) /\ Here # 0 /\ IsList(attrs[Here])
         /\ RecordSize - StartOf(attrs, Here + 1) < 740
  <1>1. pc = "list" /\ ~ListEnd /\ NameEnd > BufferEnd
    BY DEF SliceFails
  <1>2. PICK i \in 1 .. Len(attrs) :
          /\ At(i) /\ Here = i /\ IsList(attrs[i]) /\ attrs[i] \in DiskAttribute
          /\ attrLen \in Nat /\ attrLen + ListFront < attrs[i].len - ListFront
          /\ Field("Namelen") \in Nat /\ Field("Nameoffset") \in Nat
    BY <1>1, ListIs
  <1>3. r <= Len(disk) /\ Typed
    BY <1>1 DEF PInv, Current
  <1>4. PICK x \in Nat, y \in Nat, len \in Nat :
          /\ x = StartOf(attrs, i) /\ ReadPtr = x /\ len = attrs[i].len
          /\ y = StartOf(attrs, i + 1) /\ y = x + len /\ y + EndMarker <= RecordSize
    <2>0. /\ disk[r] \in DiskRecord /\ IsSound(disk[r]) /\ attrs = disk[r].attrs
          /\ Len(attrs) \in Nat
      BY <1>3, CurrentType
    <2>1. PICK n \in Nat : n = Len(disk[r].attrs) /\ i \in 1 .. n /\ i \in 1 .. n + 1 /\ i + 1 \in 1 .. n + 1
      BY <2>0
    <2>2. /\ StartOf(attrs, i) \in AttrOff .. RecordSize - EndMarker
          /\ StartOf(attrs, i + 1) \in AttrOff .. RecordSize - EndMarker
          /\ StartOf(attrs, i + 1) = StartOf(attrs, i) + attrs[i].len
      BY <2>0, <2>1, StartsRise
    <2>3. ReadPtr = StartOf(attrs, i)
      BY <1>2 DEF At
    <2>4. attrs[i].len \in Nat
      BY <1>2 DEF DiskAttribute
    <2> QED
      BY <2>2, <2>3, <2>4, RecordSizes
  <1>5. PICK z \in Nat : z = attrLen
    BY <1>2
  <1>5a. \A f \in Nat : f % 256 \in Nat /\ f % 256 <= 255
    OBVIOUS
  <1>5b. PICK off \in Nat : off = Field("Nameoffset") % 256 /\ off <= 255
    BY <1>2, <1>5a
  <1>5c. PICK names \in Nat : names = Field("Namelen") % 256 /\ names <= 255
    BY <1>2, <1>5a
  <1>5d. NameEnd = z + off + 2 * names
    BY <1>5, <1>5b, <1>5c, Zenon DEF NameEnd
  <1>6. PICK left \in Nat : left = Len(disk) - r + 1 /\ left >= 1 /\ (left < 2 => r = Len(disk))
    <2>1. PICK n \in Nat : n = Len(disk)
      BY <1>3, JobType DEF Typed, disk
    <2>2. r \in 1 .. n
      BY <1>3, <2>1, CurrentType
    <2>3. n - r + 1 \in Nat /\ n - r + 1 >= 1 /\ (n - r + 1 < 2 => r = n)
      BY <2>2
    <2> QED
      BY <2>1, <2>3
  <1>7. PICK w \in Nat : /\ BufferEnd = w - x - 24 /\ w >= 1024 /\ (left >= 2 => w >= 2048)
    <2>1. BufferEnd = RecordSize * left - x - ListFront
      BY <1>4, <1>6, Zenon DEF BufferEnd, Left
    <2>2. RecordSize = 1024 /\ ListFront = 24
      BY DEF RecordSize, ListFront
    <2>3. PICK w \in Nat : w = 1024 * left
      OBVIOUS
    <2>4. w >= 1024
      BY <1>6, <2>3
    <2>5. left >= 2 => w >= 2048
      BY <2>3
    <2> QED
      BY <2>1, <2>2, <2>3, <2>4, <2>5
  <1>8. z + 765 > w - x - 24
    <2>1. z + off + 2 * names > w - x - 24
      BY <1>1, <1>5d, <1>7
    <2>2. off <= 255 /\ names <= 255
      BY <1>5b, <1>5c
    <2> QED
      BY <2>1, <2>2
  <1>9. z + 48 < len /\ y = x + len /\ y + 8 <= 1024
    <2>1. z + 24 < len - 24
      BY <1>2, <1>4, <1>5 DEF ListFront
    <2>2. y + 8 <= 1024
      BY <1>4 DEF RecordSize, EndMarker
    <2>3. z + 48 < len
      BY <2>1
    <2> QED
      BY <1>4, <2>2, <2>3
  <1>10. left < 2 /\ 1024 - y < 740
    <2>1. z + x + 789 > w
      BY <1>8
    <2>2. z + x + 56 < 1024
      BY <1>9
    <2>3. ~(left >= 2)
      BY <1>7, <2>1, <2>2
    <2>4. w >= 1024
      BY <1>7
    <2>5. 1024 - y < 740
      BY <1>9, <2>1, <2>4
    <2> QED
      BY <2>3, <2>5
  <1> QED
    BY <1>2, <1>4, <1>6, <1>10 DEF RecordSize

\* SliceFails keeps the invariant: the records so far are in memory.
LEMMA SliceStep ==
  ASSUME PInv, SliceFails
  PROVE  PInv' /\ Stopped' /\ ListsReadInTable'
  <1>1. /\ pc = "list" /\ pc' = "panic" /\ disk' = disk /\ attrs' = attrs /\ Here' = Here
        /\ UNCHANGED <<job, r, ReadPtr, restored, attrLen, entries, record, Records>>
    BY DEF SliceFails, disk, attrs, Here
  <1>2. Typed /\ Table /\ Lent /\ r <= Len(disk)
    BY <1>1 DEF PInv, Current
  <1>3. Len(disk) \in Nat /\ r \in 1 .. Len(disk)
    BY <1>2, CurrentType, JobType DEF Typed, disk
  <1>4. Len(Records) = r - 1
    BY <1>1, <1>2 DEF Table, Parsing
  <1>5. Stopped'
    BY <1>1, <1>3, <1>4 DEF Stopped
  <1>6. Typed'
    BY <1>1, <1>2 DEF Typed
  <1>7. Table'
    BY <1>1, <1>2, <1>4, <1>5 DEF Table
  <1>8. Current'
    BY <1>1 DEF Current
  <1>9. Lent'
    BY <1>1, <1>2 DEF Lent
  <1>10. ListsReadInTable'
    <2>1. /\ r = Len(disk) /\ Here # 0 /\ IsList(attrs[Here])
          /\ RecordSize - StartOf(attrs, Here + 1) < 740
      BY SliceIsNear
    <2> QED
      BY <1>1, <2>1, Zenon DEF ListsReadInTable, IsList
  <1> QED
    BY <1>5, <1>6, <1>7, <1>8, <1>9, <1>10 DEF PInv

\* LinkEntries keeps the invariant; it never has an entry to link.
LEMMA LinkStep ==
  ASSUME PInv, LinkEntries
  PROVE  PInv'
  <1>1. /\ pc = "list" /\ pc' = "attribute" /\ job' = job /\ r' = r /\ attrLen' = attrLen
        /\ restored' = restored /\ entries' = entries /\ Records' = Records
        /\ record' = WithAttribute(attrs[Here], entries) /\ ReadPtr' = ReadPtr + attrs[Here].len
    BY DEF LinkEntries
  <1>2. PICK i \in 1 .. Len(attrs) + 1 : At(i)
    BY <1>1 DEF PInv, Current
  <1>3. r <= Len(disk) /\ Typed
    BY <1>1 DEF PInv, Current
  <1>4. i \in 1 .. Len(attrs) /\ Here = i
    <2>1. Here = IF i <= Len(attrs) THEN i ELSE 0
      BY <1>2, <1>3, HereIs DEF At
    <2>2. PICK n \in Nat : n = Len(attrs)
      BY <1>3, CurrentType
    <2>3. i <= Len(attrs)
      BY <1>1, <1>2 DEF At
    <2> QED
      BY <2>1, <2>2, <2>3
  <1>5. entries = <<>> /\ attrLen \in Numbers16
    BY <1>3 DEF Typed
  <1> QED
    BY <1>1, <1>2, <1>4, <1>5, TurnTaken

\* EndRecord keeps the invariant: all attributes of the record are in memory.
LEMMA EndRecordStep ==
  ASSUME PInv, EndRecord
  PROVE  PInv'
  <1>1. /\ pc = "attribute" /\ (ReadPtr >= RecordSize \/ Here = 0) /\ pc' = "record" /\ r' = r + 1
        /\ Records' = Append(Records, record) /\ record' = record
        /\ job' = job /\ ReadPtr' = ReadPtr /\ restored' = restored /\ attrLen' = attrLen
        /\ entries' = entries /\ disk' = disk
    BY DEF EndRecord, disk
  <1>2. PICK i \in 1 .. Len(attrs) + 1 : At(i)
    BY <1>1 DEF PInv, Current
  <1>3. r <= Len(disk) /\ Typed /\ disk[r].signature = "FILE" /\ Table /\ Lent
    BY <1>1 DEF PInv, Current
  <1>4. r \in 1 .. Len(disk) /\ Len(disk) \in Nat /\ attrs = disk[r].attrs
    BY <1>3, CurrentType, JobType DEF Typed, disk
  <1>5. i - 1 = Len(attrs)
    <2>1. Here = IF i <= Len(attrs) THEN i ELSE 0
      BY <1>2, <1>3, HereIs DEF At
    <2>2. PICK n \in Nat : n = Len(attrs)
      BY <1>3, CurrentType
    <2>4. Here = 0
      BY <1>1, <1>3, RecordSizes DEF Typed
    <2> QED
      BY <2>1, <2>2, <2>4
  <1>6. IsEntry(record, disk[r], r) /\ record \in MemRecord
    BY <1>2, <1>3, <1>4, <1>5 DEF IsEntry, At, Typed
  <1>7. /\ Records' \in Seq(MemRecord) /\ Len(Records') = r
        /\ \A n \in 1 .. r : IsEntry(Records'[n], disk[n], n)
    <2>1. pc \in Parsing
      BY <1>1 DEF Parsing
    <2> QED
      BY <1>1, <1>3, <1>6, <2>1, EntryAppended
  <1>8. Typed'
    <2>1. r' \in 1 .. Len(disk') + 1
      BY <1>1, <1>4
    <2> QED
      BY <1>1, <1>3, <1>7, <2>1 DEF Typed
  <1>9. Table'
    <2>1. pc' \in Parsing /\ r' - 1 = r
      BY <1>1, <1>4 DEF Parsing
    <2>2. Len(Records') = r' - 1 /\ \A n \in 1 .. Len(Records') : IsEntry(Records'[n], disk'[n], n)
      BY <1>1, <1>7, <2>1
    <2> QED
      BY <2>1, <2>2 DEF Table
  <1>10. Current'
    BY <1>1 DEF Current
  <1>11. Lent'
    BY <1>1, <1>3 DEF Lent
  <1> QED
    BY <1>8, <1>9, <1>10, <1>11 DEF PInv

\* EndTable keeps the invariant: the whole table is in memory.
LEMMA EndTableStep ==
  ASSUME PInv, EndTable
  PROVE  PInv'
  <1>1. /\ pc = "record" /\ r > Len(disk) /\ pc' \in {"select", "nonresident"} /\ r' = 1
        /\ UNCHANGED <<job, ReadPtr, restored, attrLen, entries, record, Records>> /\ disk' = disk
    BY DEF EndTable, disk
  <1>2. Len(disk) \in Nat /\ r \in 1 .. Len(disk) + 1
    BY JobType DEF PInv, Typed, disk
  <1>3. Typed'
    BY <1>1, <1>2 DEF PInv, Typed
  <1>4. Table'
    <2>1. Len(Records) = r - 1 /\ pc' \notin Parsing
      BY <1>1 DEF PInv, Table, Parsing
    <2>2. Len(Records) = Len(disk)
      BY <1>1, <1>2, <2>1
    <2> QED
      BY <1>1, <2>1, <2>2 DEF PInv, Table, Stopped
  <1>5. Current'
    BY <1>1 DEF Current
  <1>6. Lent'
    BY <1>1 DEF PInv, Lent
  <1> QED
    BY <1>3, <1>4, <1>5, <1>6 DEF PInv

\* ProcessNoNResidentAttributes: what it adds to an attribute.
LEMMA BlocksKept ==
  ASSUME NEW a \in Attribute
  PROVE  /\ WithBlocks(a) \in Attribute
         /\ \A d, j : IsOf(a, d, j) => IsOf(WithBlocks(a), d, j)
  <1> DEFINE new == WithBlocks(a)
  <1>1. CASE ~(a.nonResident /\ a.RunList # <<>> /\ a.type = "Index Allocation")
    BY <1>1, Zenon DEF WithBlocks
  <1>2. CASE a.nonResident /\ a.RunList # <<>> /\ a.type = "Index Allocation"
    <2>1. PICK x \in SUBSET Nat : x = BlockParse(a.disk.index)
      <3>1. a.disk \in DiskAttribute
        BY DEF Attribute
      <3>2. a.disk.index \in Seq(Nat)
        BY <3>1 DEF DiskAttribute
      <3>3. DOMAIN a.disk.index \subseteq Nat
        BY <3>2, LenProperties
      <3>4. IndexParse(a.disk.index, BlockFront) \subseteq DOMAIN a.disk.index
        BY DEF IndexParse
      <3>5. BlockParse(a.disk.index) \subseteq DOMAIN a.disk.index
        BY <3>4, Zenon DEF BlockParse
      <3> QED
        BY <3>3, <3>5
    <2>2. new = [a EXCEPT !.IndexEntries = x]
      BY <1>2, <2>1, Zenon DEF WithBlocks
    <2> HIDE DEF new
    <2>3. /\ new \in Attribute /\ new.disk = a.disk /\ new.type = a.type /\ new.at = a.at
          /\ new.hasRunList = a.hasRunList /\ new.nonResident = a.nonResident
          /\ new.RunList = a.RunList
      BY <2>2 DEF Attribute
    <2>4. ASSUME NEW d, NEW j, IsOf(a, d, j)
          PROVE  IsOf(new, d, j)
      <3>1. new.type # "Index Root"
        BY <1>2, <2>3
      <3> QED
        BY <2>3, <2>4, <3>1, Zenon DEF IsOf
    <2> QED
      BY <2>3, <2>4 DEF new
  <1> QED
    BY <1>1, <1>2

\* The same for the attributes of a record.
LEMMA RecordKept ==
  ASSUME NEW rec \in MemRecord, NEW new,
         new = [rec EXCEPT !.attributes = [k \in DOMAIN rec.attributes |-> WithBlocks(rec.attributes[k])]]
  PROVE  /\ new \in MemRecord
         /\ \A d, n : IsEntry(rec, d, n) => IsEntry(new, d, n)
  <1> DEFINE g == [k \in DOMAIN rec.attributes |-> WithBlocks(rec.attributes[k])]
  <1>1. PICK m \in Nat : m = Len(rec.attributes) /\ DOMAIN rec.attributes = 1 .. m
    BY MemFields
  <1>2. \A k \in 1 .. m : rec.attributes[k] \in Attribute
    BY <1>1, MemFields
  <1>3. g \in [1 .. m -> Attribute]
    BY <1>1, <1>2, BlocksKept
  <1>4. g \in Seq(Attribute) /\ DOMAIN g = 1 .. m
    BY <1>3
  <1>5. \A k \in 1 .. m : g[k] = WithBlocks(rec.attributes[k])
    BY <1>1
  <1> HIDE DEF g
  <1>6. /\ new = [rec EXCEPT !.attributes = g] /\ new \in MemRecord
        /\ new.number = rec.number /\ new.attributes = g
    <2>1. new = [rec EXCEPT !.attributes = g]
      BY Zenon DEF g
    <2> QED
      BY <1>4, <2>1 DEF MemRecord
  <1>7. ASSUME NEW d, NEW n, NEW i, MadeOf(rec, d, n, i)
        PROVE  MadeOf(new, d, n, i)
    <2>1. ASSUME NEW k \in 1 .. m, NEW j, IsOf(rec.attributes[k], d, j)
          PROVE  IsOf(new.attributes[k], d, j)
      <3>1. IsOf(WithBlocks(rec.attributes[k]), d, j)
        BY <1>2, <2>1, BlocksKept
      <3> QED
        BY <1>5, <1>6, <3>1, Zenon
    <2>2. DOMAIN new.attributes = DOMAIN rec.attributes
      BY <1>1, <1>4, <1>6
    <2>3. \A k \in DOMAIN new.attributes : \E j \in 1 .. i : IsOf(new.attributes[k], d, j)
      BY <1>1, <1>7, <2>1, <2>2, Zenon DEF MadeOf
    <2>4. \A j \in 1 .. i : d.attrs[j].type = "FileName"
            => \E k \in DOMAIN new.attributes : IsOf(new.attributes[k], d, j)
      BY <1>1, <1>7, <2>1, <2>2, Zenon DEF MadeOf
    <2>5. new.number = n
      BY <1>6, <1>7 DEF MadeOf
    <2> QED
      BY <2>3, <2>4, <2>5, Zenon DEF MadeOf
  <1>8. ASSUME rec = Empty
        PROVE  new = Empty
    <2>1. rec.attributes = <<>>
      BY <1>8, BeginsEmpty
    <2>2. g = <<>>
      <3>1. m = 0
        BY <1>1, <2>1
      <3> QED
        BY <1>4, <3>1
    <2>3. new = [rec EXCEPT !.attributes = rec.attributes]
      BY <1>6, <2>1, <2>2, Zenon
    <2>4. [rec EXCEPT !.attributes = rec.attributes] = rec
      BY DEF MemRecord
    <2> QED
      BY <1>8, <2>3, <2>4
  <1>9. ASSUME NEW d, NEW n, IsEntry(rec, d, n)
        PROVE  IsEntry(new, d, n)
    BY <1>7, <1>8, <1>9, Zenon DEF IsEntry
  <1> QED
    BY <1>6, <1>9

\* ProcessNoNResidentAttributes keeps the invariant.
LEMMA NonResidentStep ==
  ASSUME PInv, ProcessNoNResidentAttributes
  PROVE  PInv'
  <1>1. /\ pc = "nonresident"
        /\ UNCHANGED <<job, ReadPtr, restored, attrLen, entries, record>> /\ disk' = disk
    BY DEF ProcessNoNResidentAttributes, disk
  <1>2. Typed /\ Table /\ Lent
    BY DEF PInv
  <1>3. /\ Len(disk) \in Nat /\ r \in 1 .. Len(disk) + 1 /\ Records \in Seq(MemRecord)
        /\ Len(Records) = Len(disk) /\ \A n \in 1 .. Len(Records) : IsEntry(Records[n], disk[n], n)
        /\ pc \notin Parsing
    BY <1>1, <1>2, JobType DEF Typed, Table, Stopped, disk, Parsing
  <1>4. CASE r <= Len(Records)
    <2> DEFINE new == [Records[r] EXCEPT !.attributes =
                         [k \in DOMAIN Records[r].attributes |-> WithBlocks(Records[r].attributes[k])]]
    <2>1. Records' = [Records EXCEPT ![r] = new] /\ r' = r + 1 /\ pc' = pc
      BY <1>4 DEF ProcessNoNResidentAttributes
    <2>2. r \in 1 .. Len(Records) /\ Records[r] \in MemRecord
      BY <1>3, <1>4, ElementOfSeq
    <2>3. new \in MemRecord /\ \A d, n : IsEntry(Records[r], d, n) => IsEntry(new, d, n)
      BY <2>2, RecordKept
    <2> HIDE DEF new
    <2>4. /\ Records' \in Seq(MemRecord) /\ Len(Records') = Len(Records)
          /\ \A n \in 1 .. Len(Records) : Records'[n] = IF n = r THEN new ELSE Records[n]
      BY <1>3, <2>1, <2>2, <2>3
    <2>5. Typed'
      <3>1. r' \in 1 .. Len(disk') + 1
        BY <1>1, <1>3, <1>4, <2>1
      <3> QED
        BY <1>1, <1>2, <2>1, <2>4, <3>1 DEF Typed
    <2>6. Table'
      <3>1. \A n \in 1 .. Len(Records) : IsEntry(Records'[n], disk[n], n)
        BY <1>3, <2>2, <2>3, <2>4
      <3> QED
        BY <1>1, <1>3, <2>1, <2>4, <3>1 DEF Table, Stopped
    <2>7. Current'
      BY <1>1, <2>1 DEF Current
    <2>8. Lent'
      BY <1>1, <1>2 DEF Lent
    <2> QED
      BY <2>5, <2>6, <2>7, <2>8 DEF PInv
  <1>5. CASE ~(r <= Len(Records))
    <2>1. pc' = "select" /\ r' = r /\ Records' = Records
      BY <1>5 DEF ProcessNoNResidentAttributes
    <2>2. Typed'
      BY <1>1, <1>2, <2>1 DEF Typed
    <2>3. pc' \notin Parsing
      BY <2>1 DEF Parsing
    <2> QED
      BY <1>1, <1>3, <2>1, <2>2, <2>3, Apart
  <1> QED
    BY <1>4, <1>5

\* Process keeps the invariant.
LEMMA ProcessStep ==
  ASSUME PInv, Process
  PROVE  PInv'
  BY RecordStep, AttributeStep, ListEntryStep, SliceStep, LinkStep, EndRecordStep, EndTableStep,
     NonResidentStep DEF Process

\* The invariant implies that what is in memory of an attribute is what was stored.
LEMMA InMemoryAsStored ==
  ASSUME PInv
  PROVE  ParsedAsStored
  <1>1. ASSUME NEW a \in InMemory
        PROVE  \E d \in DiskRecord : \E j \in 1 .. Len(d.attrs) : IsSound(d) /\ IsOf(a, d, j)
    <2>1. PICK n \in DOMAIN Records : a \in Range(Records[n].attributes)
      BY DEF InMemory
    <2>2. n \in 1 .. Len(Records) /\ Records[n] \in MemRecord
      BY <2>1, LenProperties, ElementOfSeq DEF PInv, Typed
    <2>3. PICK k \in DOMAIN Records[n].attributes : a = Records[n].attributes[k]
      BY <2>1 DEF Range
    <2>4. n \in 1 .. Len(disk)
      <3>1. Len(disk) \in Nat /\ r \in 1 .. Len(disk) + 1
        BY JobType DEF PInv, Typed, disk
      <3>2. Len(Records) = r - 1 \/ Len(Records) = Len(disk)
        BY Zenon DEF PInv, Table
      <3> QED
        BY <2>2, <3>1, <3>2
    <2>5. disk[n] \in DiskRecord /\ IsSound(disk[n])
      BY <2>4, JobType DEF PInv, Typed, disk
    <2>6. IsEntry(Records[n], disk[n], n)
      BY <2>2 DEF PInv, Table
    <2>7. Records[n] # Empty
      <3>1. DOMAIN <<>> = {}
        OBVIOUS
      <3> QED
        BY <2>3, <3>1, BeginsEmpty
    <2>8. MadeOf(Records[n], disk[n], n, Len(disk[n].attrs))
      BY <2>6, <2>7, Zenon DEF IsEntry
    <2>9. PICK j \in 1 .. Len(disk[n].attrs) : IsOf(a, disk[n], j)
      BY <2>3, <2>8 DEF MadeOf
    <2> QED
      BY <2>5, <2>9
  <1>2. RunListsAsStored
    BY <1>1 DEF RunListsAsStored, IsOf
  <1>3. IndexRootsComplete
    <2>1. ASSUME NEW a \in InMemory, a.type = "Index Root"
          PROVE  Named(a.disk.index, a.IndexEntries) = 1 .. Len(a.disk.index) - 1
      <3>1. PICK d \in DiskRecord : \E j \in 1 .. Len(d.attrs) : IsSound(d) /\ IsOf(a, d, j)
        BY <1>1
      <3>2. PICK j \in 1 .. Len(d.attrs) : IsSound(d) /\ IsOf(a, d, j)
        BY <3>1
      <3>3. a.disk = d.attrs[j] /\ a.IndexEntries = IndexParse(a.disk.index, RootFront)
        BY <2>1, <3>2 DEF IsOf
      <3>4. /\ a.disk \in DiskAttribute
            /\ a.disk.index # <<>> => /\ Last(a.disk.index) >= EmptyEntry
                                      /\ \A i \in DOMAIN a.disk.index : a.disk.index[i] > 0
        BY <3>2, <3>3, AttributesType
      <3>5. a.disk.index \in Seq(Nat)
        BY <3>4 DEF DiskAttribute
      <3> QED
        BY <3>3, <3>4, <3>5, RootIsRead
    <2> QED
      BY <2>1 DEF IndexRootsComplete
  <1>4. BytesRestored
    <2>1. ASSUME NEW k \in DOMAIN record.attributes
          PROVE  record.attributes[k].at \cap SectorEnds \subseteq restored
      <3>1. record # Empty
        <4>1. DOMAIN <<>> = {}
          OBVIOUS
        <4> QED
          BY <2>1, <4>1, BeginsEmpty
      <3>2. restored = {510, 511} /\ record.attributes[k].at \subseteq Whole
        BY <2>1, <3>1 DEF PInv, Lent, RestoredFirst
      <3>3. Whole \cap SectorEnds \subseteq {510, 511}
        BY DEF Whole, SectorEnds, AttrOff, RecordSize, EndMarker
      <3> QED
        BY <3>2, <3>3
    <2> QED
      BY <2>1 DEF BytesRestored
  <1> QED
    BY <1>2, <1>3, <1>4, LayoutsRead DEF ParsedAsStored

-----------------------------------------------------------------------------
(* How often a record is among some records.                               *)

Places(recs, k) == {i \in DOMAIN recs : recs[i].number = k}
Count(recs, k) == Cardinality(Places(recs, k))

\* The places of a record are finitely many.
LEMMA PlacesFinite ==
  ASSUME NEW S, NEW s \in Seq(S), NEW k
  PROVE  IsFiniteSet(Places(s, k)) /\ Count(s, k) \in Nat
  <1>1. Len(s) \in Nat /\ DOMAIN s = 1 .. Len(s)
    BY LenProperties
  <1>2. IsFiniteSet(1 .. Len(s))
    BY <1>1, FS_Interval
  <1>3. Places(s, k) \in SUBSET (1 .. Len(s))
    BY <1>1 DEF Places
  <1> QED
    BY <1>2, <1>3, FS_Subset, FS_CardinalityType DEF Count

\* Behind some records come others in which it is once or not at all.
LEMMA CountNext ==
  ASSUME NEW S, NEW s \in Seq(S), NEW t \in Seq(S), NEW k, Count(t, k) \in {0, 1}
  PROVE  Count(s \o t, k) = Count(s, k) + Count(t, k)
  <1>1. PICK n \in Nat, m \in Nat : n = Len(s) /\ m = Len(t) /\ DOMAIN s = 1 .. n /\ DOMAIN t = 1 .. m
    BY LenProperties
  <1>2. /\ DOMAIN (s \o t) = 1 .. n + m
        /\ \A i \in 1 .. n : (s \o t)[i] = s[i]
        /\ \A i \in 1 .. m : (s \o t)[n + i] = t[i]
    <2>1. s \o t \in Seq(S) /\ Len(s \o t) = n + m
      BY <1>1, ConcatProperties
    <2> QED
      BY <1>1, <2>1, ConcatProperties
  <1>3. IsFiniteSet(Places(s, k)) /\ IsFiniteSet(Places(t, k)) /\ Count(s, k) \in Nat
    BY PlacesFinite
  <1>4. CASE Count(t, k) = 0
    <2>1. Places(t, k) = {}
      BY <1>3, <1>4, FS_EmptySet DEF Count
    <2>2. ASSUME NEW i \in 1 .. n + m, (s \o t)[i].number = k
          PROVE  i \in 1 .. n
      <3>1. SUFFICES ASSUME i \notin 1 .. n PROVE FALSE
        OBVIOUS
      <3>2. i - n \in 1 .. m /\ n + (i - n) = i
        BY <3>1
      <3>3. i - n \in Places(t, k)
        BY <1>1, <1>2, <2>2, <3>2 DEF Places
      <3> QED
        BY <2>1, <3>3
    <2>3. 1 .. n \subseteq 1 .. n + m
      OBVIOUS
    <2>4. Places(s \o t, k) = Places(s, k)
      BY <1>1, <1>2, <2>2, <2>3 DEF Places
    <2> QED
      BY <1>3, <1>4, <2>4 DEF Count
  <1>5. CASE Count(t, k) = 1
    <2>1. PICK x : Places(t, k) = {x}
      BY <1>3, <1>5, FS_Singleton DEF Count
    <2>2. x \in 1 .. m /\ t[x].number = k
      BY <1>1, <2>1 DEF Places
    <2>3. n + x \in 1 .. n + m /\ n + x \notin 1 .. n /\ (s \o t)[n + x].number = k
      BY <1>2, <2>2
    <2>4. ASSUME NEW i \in 1 .. n + m, (s \o t)[i].number = k
          PROVE  i \in 1 .. n \/ i = n + x
      <3>1. SUFFICES ASSUME i \notin 1 .. n PROVE i = n + x
        OBVIOUS
      <3>2. i - n \in 1 .. m /\ n + (i - n) = i
        BY <3>1
      <3>3. i - n \in Places(t, k)
        BY <1>1, <1>2, <2>4, <3>2 DEF Places
      <3> QED
        BY <2>1, <3>2, <3>3
    <2>5. 1 .. n \subseteq 1 .. n + m
      OBVIOUS
    <2>6. PICK y : y = n + x
      OBVIOUS
    <2>7. Places(s \o t, k) = Places(s, k) \cup {y} /\ y \notin Places(s, k)
      BY <1>1, <1>2, <2>3, <2>4, <2>5, <2>6 DEF Places
    <2>8. Cardinality(Places(s \o t, k)) = Cardinality(Places(s, k)) + 1
      BY <1>3, <2>7, FS_AddElement
    <2> QED
      BY <1>5, <2>8 DEF Count
  <1> QED
    BY <1>4, <1>5

\* The record is once in each of the sequences of Q, and in no other.
OnceIn(seqs, k, Q) ==
  /\ Q \subseteq DOMAIN seqs
  /\ \A i \in DOMAIN seqs : Count(seqs[i], k) = IF i \in Q THEN 1 ELSE 0

\* FlattenSeq: how often a record is in sequences that each have it once or not at all.
LEMMA CountFlat ==
  ASSUME NEW S, NEW seqs \in Seq(Seq(S)), NEW k, NEW Q, OnceIn(seqs, k, Q)
  PROVE  Count(FlattenSeq(seqs), k) = Cardinality(Q)
  <1>1. PICK n \in Nat : n = Len(seqs) /\ DOMAIN seqs = 1 .. n
    BY LenProperties
  <1>2. Q \subseteq 1 .. n /\ \A i \in 1 .. n : Count(seqs[i], k) = IF i \in Q THEN 1 ELSE 0
    BY <1>1 DEF OnceIn
  <1> DEFINE first == [m \in 0 .. n |-> FlattenSeq(SubSeq(seqs, 1, m))]
             upto == [m \in 0 .. n |-> Q \cap (1 .. m)]
             T == {m \in 0 .. n : Count(first[m], k) = Cardinality(upto[m])}
  <1>3. /\ \A m \in 0 .. n : first[m] = FlattenSeq(SubSeq(seqs, 1, m)) /\ first[m] \in Seq(S)
        /\ \A m \in 0 .. n : upto[m] = Q \cap (1 .. m) /\ IsFiniteSet(upto[m])
    <2>1. ASSUME NEW m \in 0 .. n PROVE FlattenSeq(SubSeq(seqs, 1, m)) \in Seq(S)
      <3>1. SubSeq(seqs, 1, m) \in Seq(Seq(S))
        BY <1>1, FirstOnes
      <3> QED
        BY <3>1, FlattenType
    <2>2. ASSUME NEW m \in 0 .. n PROVE IsFiniteSet(Q \cap (1 .. m))
      <3>1. IsFiniteSet(1 .. m) /\ Q \cap (1 .. m) \in SUBSET (1 .. m)
        BY FS_Interval
      <3> QED
        BY <3>1, FS_Subset
    <2> QED
      BY <2>1, <2>2
  <1>4. 0 \in T
    <2>1. 0 \in 0 .. n
      OBVIOUS
    <2>2. first[0] = <<>>
      <3>1. SubSeq(seqs, 1, 0) = <<>>
        BY <1>1
      <3> QED
        BY <1>3, <2>1, <3>1, FlattenEmpty, Zenon
    <2>3. Places(<<>>, k) = {} /\ upto[0] = {}
      <3>1. DOMAIN <<>> = {}
        OBVIOUS
      <3>2. 1 .. 0 = {}
        OBVIOUS
      <3>3. upto[0] = Q \cap (1 .. 0)
        BY <1>3, <2>1
      <3> QED
        BY <3>1, <3>2, <3>3 DEF Places
    <2> HIDE DEF first, upto
    <2>4. Count(first[0], k) = Cardinality(upto[0])
      BY <2>2, <2>3, Zenon DEF Count
    <2> QED
      BY <2>1, <2>4
  <1> HIDE DEF first, upto
  <1>5. ASSUME NEW m \in 0 .. n - 1, m \in T
        PROVE  m + 1 \in T
    <2>1. m \in 0 .. n /\ m + 1 \in 0 .. n /\ m + 1 \in 1 .. n /\ m \in 0 .. Len(seqs) - 1
      BY <1>1
    <2>2. PICK x : x = m + 1
      OBVIOUS
    <2>3. seqs[x] \in Seq(S)
      BY <1>1, <2>1, <2>2, ElementOfSeq
    <2>4. first[x] = first[m] \o seqs[x]
      <3>1. FlattenSeq(SubSeq(seqs, 1, m + 1)) = FlattenSeq(SubSeq(seqs, 1, m)) \o seqs[m + 1]
        BY <2>1, FlattenNext
      <3> QED
        BY <1>3, <2>1, <2>2, <3>1, Zenon
    <2>5. PICK c \in {0, 1} : c = Count(seqs[x], k) /\ c = IF x \in Q THEN 1 ELSE 0
      BY <1>2, <2>1, <2>2
    <2>6. Count(first[x], k) = Count(first[m], k) + c
      <3>1. first[m] \in Seq(S)
        BY <1>3, <2>1
      <3>2. Count(seqs[x], k) \in {0, 1}
        BY <2>5
      <3>3. Count(first[m] \o seqs[x], k) = Count(first[m], k) + Count(seqs[x], k)
        BY <2>3, <3>1, <3>2, CountNext
      <3> QED
        BY <2>4, <2>5, <3>3, Zenon
    <2>7. IsFiniteSet(upto[m]) /\ upto[m] = Q \cap (1 .. m) /\ upto[x] = Q \cap (1 .. x)
      BY <1>3, <2>1, <2>2
    <2>8. x \notin upto[m]
      BY <2>2, <2>7
    <2>9. Cardinality(upto[x]) = Cardinality(upto[m]) + c
      <3>1. CASE x \in Q
        <4>1. upto[x] = upto[m] \cup {x}
          BY <2>2, <2>7, <3>1
        <4> QED
          BY <2>5, <2>7, <2>8, <3>1, <4>1, FS_AddElement
      <3>2. CASE x \notin Q
        <4>1. upto[x] = upto[m]
          BY <2>2, <2>7, <3>2
        <4>2. Cardinality(upto[m]) \in Nat
          BY <2>7, FS_CardinalityType
        <4> QED
          BY <2>5, <3>2, <4>1, <4>2
      <3> QED
        BY <3>1, <3>2
    <2>10. Count(first[m], k) = Cardinality(upto[m])
      BY <1>5
    <2> QED
      BY <2>1, <2>2, <2>6, <2>9, <2>10
  <1> HIDE DEF T
  <1>6. 0 .. n \subseteq T
    BY <1>4, <1>5, InductionUpTo
  <1>7. n \in T /\ n \in 0 .. n
    BY <1>6
  <1>8. Count(first[n], k) = Cardinality(upto[n])
    BY <1>7 DEF T
  <1>9. SubSeq(seqs, 1, n) = seqs
    BY <1>1
  <1>10. upto[n] = Q
    BY <1>2, <1>3, <1>7
  <1>11. first[n] = FlattenSeq(seqs)
    BY <1>3, <1>7, <1>9, Zenon
  <1> QED
    BY <1>8, <1>10, <1>11, Zenon

\* Of the places of a record, those that a filter keeps.
Kept(recs, P, k) == {i \in DOMAIN recs : i \in P /\ recs[i].number = k}

\* utils.Filter keeps a record as often as its place is one of those asked for.
LEMMA KeepCounts ==
  ASSUME NEW S, NEW s \in Seq(S), NEW P
  PROVE  /\ Keep(s, P) \in Seq(S)
         /\ \A k : Count(Keep(s, P), k) = Cardinality(Kept(s, P, k))
  <1>1. PICK n \in Nat : n = Len(s) /\ DOMAIN s = 1 .. n
    BY LenProperties
  <1> DEFINE seqs == [i \in 1 .. n |-> IF i \in P THEN <<s[i]>> ELSE <<>>]
  <1>2. \A i \in 1 .. n : s[i] \in S
    BY <1>1, ElementOfSeq
  <1>3. seqs \in Seq(Seq(S)) /\ DOMAIN seqs = 1 .. n
    <2>1. ASSUME NEW i \in 1 .. n PROVE (IF i \in P THEN <<s[i]>> ELSE <<>>) \in Seq(S)
      <3>1. s[i] \in S
        BY <1>2
      <3>2. <<s[i]>> \in Seq(S) /\ <<>> \in Seq(S)
        BY <3>1
      <3> QED
        BY <3>2
    <2>2. seqs \in [1 .. n -> Seq(S)]
      BY <2>1
    <2> HIDE DEF seqs
    <2> QED
      BY <2>2
  <1>4. Keep(s, P) = FlattenSeq(seqs)
    BY <1>1, Zenon DEF Keep
  <1>5. \A i \in 1 .. n : seqs[i] = IF i \in P THEN <<s[i]>> ELSE <<>>
    OBVIOUS
  <1> HIDE DEF seqs
  <1>6. ASSUME NEW k
        PROVE  Count(Keep(s, P), k) = Cardinality(Kept(s, P, k))
    <2>1. ASSUME NEW i \in 1 .. n
          PROVE  Count(seqs[i], k) = IF i \in Kept(s, P, k) THEN 1 ELSE 0
      <3>1. CASE i \in P /\ s[i].number = k
        <4>1. seqs[i] = <<s[i]>>
          BY <1>5, <3>1
        <4>2. DOMAIN <<s[i]>> = {1} /\ <<s[i]>>[1] = s[i]
          OBVIOUS
        <4>3. Places(seqs[i], k) = {1}
          BY <3>1, <4>1, <4>2 DEF Places
        <4> QED
          BY <1>1, <3>1, <4>3, FS_Singleton DEF Count, Kept
      <3>2. CASE i \in P /\ s[i].number # k
        <4>1. seqs[i] = <<s[i]>>
          BY <1>5, <3>2
        <4>2. DOMAIN <<s[i]>> = {1} /\ <<s[i]>>[1] = s[i]
          OBVIOUS
        <4>3. Places(seqs[i], k) = {}
          BY <3>2, <4>1, <4>2 DEF Places
        <4> QED
          BY <1>1, <3>2, <4>3, FS_EmptySet DEF Count, Kept
      <3>3. CASE i \notin P
        <4>1. DOMAIN <<>> = {}
          OBVIOUS
        <4>2. seqs[i] = <<>>
          BY <1>5, <3>3, Zenon
        <4>3. Places(seqs[i], k) = {}
          BY <4>1, <4>2 DEF Places
        <4> QED
          BY <1>1, <3>3, <4>3, FS_EmptySet DEF Count, Kept
      <3> QED
        BY <3>1, <3>2, <3>3
    <2>2. Kept(s, P, k) \subseteq 1 .. n
      BY <1>1 DEF Kept
    <2>3. OnceIn(seqs, k, Kept(s, P, k))
      BY <1>3, <2>1, <2>2 DEF OnceIn
    <2> QED
      BY <1>3, <1>4, <2>3, CountFlat
  <1> QED
    BY <1>3, <1>4, <1>6, FlattenType

-----------------------------------------------------------------------------
(* The filters that main registers.                                        *)

\* No two filters are of the same kind.
Distinct(fs) == \A i, j \in DOMAIN fs : fs[i].kind = fs[j].kind => i = j

\* fs are the filters F, each of which is of a kind of its own.
Lists(fs, F) == fs \in Seq(Filter) /\ Distinct(fs) /\ Range(fs) = F

One(b, kind, args) == IF b THEN {[kind |-> kind, args |-> args]} ELSE {}
RegisteredSet ==
  One(flags.filenames # <<>>, "folders", <<>>) \cup
  One(flags.filenames # <<>>, "names", fileNamesToExport) \cup
  One(flags.extensions # <<>>, "extensions", flags.extensions) \cup
  One(flags.path # <<>>, "path", flags.path) \cup
  One(flags.orphans, "orphans", <<>>) \cup
  One(flags.deleted, "deleted", <<>>)

\* Register: a filter of another kind is added.
LEMMA IfJoins ==
  ASSUME NEW fs, NEW F, Lists(fs, F), NEW b \in BOOLEAN, NEW kind \in Kinds,
         NEW args \in Seq(Names \union Exts \union Paths), \A f \in F : f.kind # kind
  PROVE  Lists(fs \o If(b, kind, args), F \cup One(b, kind, args))
  <1>1. PICK n \in Nat : n = Len(fs) /\ DOMAIN fs = 1 .. n
    BY LenProperties DEF Lists
  <1>2. fs \in Seq(Filter) /\ \A i \in 1 .. n : fs[i] \in F
    BY <1>1 DEF Lists, Range
  <1>3. CASE b
    <2>1. PICK f \in Filter : f = [kind |-> kind, args |-> args]
      BY DEF Filter
    <2>2. If(b, kind, args) = <<f>> /\ One(b, kind, args) = {f}
      BY <1>3, <2>1, Zenon DEF If, One
    <2>3. /\ fs \o <<f>> \in Seq(Filter) /\ DOMAIN (fs \o <<f>>) = 1 .. n + 1
          /\ \A i \in 1 .. n : (fs \o <<f>>)[i] = fs[i]
          /\ (fs \o <<f>>)[n + 1] = f
      <3>1. <<f>> \in Seq(Filter) /\ Len(<<f>>) = 1 /\ <<f>>[1] = f
        OBVIOUS
      <3> QED
        BY <1>1, <1>2, <3>1, ConcatProperties
    <2>4. f.kind = kind
      BY <2>1
    <2> DEFINE new == fs \o <<f>>
    <2> HIDE DEF new
    <2>5. ASSUME NEW i \in 1 .. n + 1, NEW j \in 1 .. n + 1, new[i].kind = new[j].kind
          PROVE  i = j
      <3>1. CASE i = n + 1 /\ j # n + 1
        <4>1. j \in 1 .. n
          BY <3>1
        <4> QED
          BY <1>2, <2>3, <2>4, <2>5, <3>1, <4>1 DEF new
      <3>2. CASE i # n + 1 /\ j = n + 1
        <4>1. i \in 1 .. n
          BY <3>2
        <4> QED
          BY <1>2, <2>3, <2>4, <2>5, <3>2, <4>1 DEF new
      <3>3. CASE i # n + 1 /\ j # n + 1
        <4>1. i \in 1 .. n /\ j \in 1 .. n
          BY <3>3
        <4> QED
          BY <1>1, <2>3, <2>5, <4>1 DEF new, Lists, Distinct
      <3> QED
        BY <3>1, <3>2, <3>3
    <2>6. Range(new) = F \cup {f}
      <3>1. Range(fs) = F
        BY DEF Lists
      <3>2. \A i \in 1 .. n + 1 : i \in 1 .. n \/ i = n + 1
        OBVIOUS
      <3>3. 1 .. n \subseteq 1 .. n + 1 /\ n + 1 \in 1 .. n + 1
        OBVIOUS
      <3> QED
        BY <1>1, <2>3, <3>1, <3>2, <3>3 DEF new, Range
    <2> QED
      BY <2>2, <2>3, <2>5, <2>6 DEF new, Lists, Distinct
  <1>4. CASE ~b
    <2>1. If(b, kind, args) = <<>> /\ One(b, kind, args) = {}
      BY <1>4, Zenon DEF If, One
    <2>2. fs \o <<>> = fs
      BY <1>2
    <2> QED
      BY <2>1, <2>2, Zenon
  <1> QED
    BY <1>3, <1>4

\* The options of a command line.
LEMMA FlagsType ==
  ASSUME job \in Jobs
  PROVE  /\ flags \in Flags /\ Len(flags.path) <= 1
         /\ flags.filenames \in Seq(Names) /\ flags.extensions \in Seq(Exts)
         /\ flags.path \in Seq(Paths \ {NoPath}) /\ flags.orphans \in BOOLEAN /\ flags.deleted \in BOOLEAN
         /\ fileNamesToExport \in Seq(Names)
  <1>1. flags \in Flags /\ Len(flags.path) <= 1 /\ UsnJrnl \in Names
    BY FiltersAssumption DEF flags
  <1>2. /\ flags.filenames \in Seq(Names) /\ flags.extensions \in Seq(Exts)
        /\ flags.path \in Seq(Paths \ {NoPath}) /\ flags.orphans \in BOOLEAN /\ flags.deleted \in BOOLEAN
    BY <1>1 DEF Flags
  <1>3. fileNamesToExport \in Seq(Names)
    <2>1. <<UsnJrnl>> \in Seq(Names) /\ <<>> \in Seq(Names)
      BY <1>1
    <2>2. PICK s \in Seq(Names) : s = IF flags.usnjrnl THEN <<UsnJrnl>> ELSE <<>>
      BY <2>1, Zenon
    <2>3. fileNamesToExport = s \o flags.filenames
      BY <2>2, Zenon DEF fileNamesToExport
    <2> QED
      BY <1>2, <2>2, <2>3, ConcatProperties
  <1> QED
    BY <1>1, <1>2, <1>3

\* main registers at most one filter of each kind.
LEMMA RegisteredOnce ==
  ASSUME job \in Jobs
  PROVE  Lists(Registered, RegisteredSet)
  <1> DEFINE A == Names \union Exts \union Paths
             b1 == flags.filenames # <<>>
             b3 == flags.extensions # <<>>
             b4 == flags.path # <<>>
             s1 == If(b1, "folders", <<>>)
             s2 == s1 \o If(b1, "names", fileNamesToExport)
             s3 == s2 \o If(b3, "extensions", flags.extensions)
             s4 == s3 \o If(b4, "path", flags.path)
             s5 == s4 \o If(flags.orphans, "orphans", <<>>)
             F1 == One(b1, "folders", <<>>)
             F2 == F1 \cup One(b1, "names", fileNamesToExport)
             F3 == F2 \cup One(b3, "extensions", flags.extensions)
             F4 == F3 \cup One(b4, "path", flags.path)
             F5 == F4 \cup One(flags.orphans, "orphans", <<>>)
  <1>1. /\ <<>> \in Seq(A) /\ fileNamesToExport \in Seq(A) /\ flags.extensions \in Seq(A)
        /\ flags.path \in Seq(A) /\ flags.orphans \in BOOLEAN /\ flags.deleted \in BOOLEAN
    BY FlagsType
  <1>2. b1 \in BOOLEAN /\ b3 \in BOOLEAN /\ b4 \in BOOLEAN
    BY Zenon
  <1>3. Kinds = {"folders", "names", "extensions", "path", "orphans", "deleted"}
    BY DEF Kinds
  <1>4. \A b, kind, args : \A f \in One(b, kind, args) : f.kind = kind
    BY DEF One
  <1>5. Lists(s1, F1)
    <2>1. Lists(<<>>, {})
      <3>1. DOMAIN <<>> = {}
        OBVIOUS
      <3>2. Range(<<>>) = {}
        BY <3>1 DEF Range
      <3>3. <<>> \in Seq(Filter)
        OBVIOUS
      <3> QED
        BY <3>1, <3>2, <3>3, Zenon DEF Lists, Distinct
    <2>2. \A f \in {} : f.kind # "folders"
      OBVIOUS
    <2>3. Lists(<<>> \o If(b1, "folders", <<>>), {} \cup One(b1, "folders", <<>>))
      BY <1>1, <1>2, <1>3, <2>1, <2>2, IfJoins
    <2>4. <<>> \o s1 = s1
      <3>1. s1 \in Seq(Filter)
        <4>1. <<>> \in Seq(Filter)
          OBVIOUS
        <4>2. [kind |-> "folders", args |-> <<>>] \in Filter
          BY <1>1, <1>3, Zenon DEF Filter
        <4>3. <<[kind |-> "folders", args |-> <<>>]>> \in Seq(Filter)
          BY <4>2
        <4> QED
          BY <4>1, <4>3, Zenon DEF If
      <3> HIDE DEF s1
      <3> QED
        BY <3>1
    <2>5. {} \cup F1 = F1
      OBVIOUS
    <2> QED
      BY <2>3, <2>4, <2>5, Zenon
  <1> HIDE DEF s1, b1, b3, b4, A
  <1>6. \A f \in F1 : f.kind = "folders"
    BY <1>4
  <1>7. Lists(s2, F2)
    BY <1>1, <1>2, <1>3, <1>5, <1>6, IfJoins DEF A
  <1>8. \A f \in F2 : f.kind \in {"folders", "names"}
    BY <1>4, <1>6
  <1> HIDE DEF s2, F2
  <1>9. Lists(s3, F3)
    BY <1>1, <1>2, <1>3, <1>7, <1>8, IfJoins DEF A
  <1>10. \A f \in F3 : f.kind \in {"folders", "names", "extensions"}
    BY <1>4, <1>8
  <1> HIDE DEF s3, F3
  <1>11. Lists(s4, F4)
    BY <1>1, <1>2, <1>3, <1>9, <1>10, IfJoins DEF A
  <1>12. \A f \in F4 : f.kind \in {"folders", "names", "extensions", "path"}
    BY <1>4, <1>10
  <1> HIDE DEF s4, F4
  <1>13. Lists(s5, F5)
    BY <1>1, <1>3, <1>11, <1>12, IfJoins DEF A
  <1>14. \A f \in F5 : f.kind \in {"folders", "names", "extensions", "path", "orphans"}
    BY <1>4, <1>12
  <1> HIDE DEF s5, F5
  <1>15. Lists(s5 \o If(flags.deleted, "deleted", <<>>), F5 \cup One(flags.deleted, "deleted", <<>>))
    BY <1>1, <1>3, <1>13, <1>14, IfJoins DEF A
  <1> QED
    BY <1>15, Zenon DEF Registered, RegisteredSet, s5, s4, s3, s2, s1, F5, F4, F3, F2, b1, b3, b4

-----------------------------------------------------------------------------
(* What a filter keeps.                                                    *)

\* A filter other than that of the extensions lets a record pass.
Accepts(f, rec) ==
  /\ f.kind = "folders" => ~IsFolder(rec)
  /\ f.kind = "names" => GetFname(rec) \in Range(f.args)
  /\ f.kind = "path" => GetFullPath(rec) = f.args[1]
  /\ f.kind = "orphans" => IsDeleted(rec) /\ ~HasParent(rec)
  /\ f.kind = "deleted" => IsDeleted(rec)

\* The asked extensions that the filter finds in a record.
Matching(rec) == {e \in DOMAIN flags.extensions : HasFilenameExtension(rec, flags.extensions[e])}

\* The k-th record of the table was parsed, and there is no other like it.
IsAlone(k, rec) ==
  /\ k \in 1 .. Len(Records) /\ rec = Records[k] /\ rec.number = k
  /\ \A x \in Range(Records) : x.number = k => x = rec

\* The number of a record says which one it is.
LEMMA OneOfTheTable ==
  ASSUME PInv, NEW k \in 1 .. Len(Records), Records[k] # Empty
  PROVE  IsAlone(k, Records[k])
  <1>1. DOMAIN Records = 1 .. Len(Records) /\ Len(Records) \in Nat
    BY LenProperties DEF PInv, Typed
  <1>2. \A n \in 1 .. Len(Records) : Records[n] = Empty \/ Records[n].number = n
    BY DEF PInv, Table, IsEntry, MadeOf
  <1>3. Empty.number = 0
    BY DEF Empty
  <1>4. Records[k].number = k
    BY <1>2
  <1>5. ASSUME NEW x \in Range(Records), x.number = k
        PROVE  x = Records[k]
    <2>1. PICK n \in 1 .. Len(Records) : x = Records[n]
      BY <1>1 DEF Range
    <2>2. k # 0
      OBVIOUS
    <2>3. n = k
      BY <1>2, <1>3, <1>5, <2>1, <2>2
    <2> QED
      BY <2>1, <2>3
  <1> QED
    BY <1>4, <1>5 DEF IsAlone

\* At its places in recs, the record is in P if it is accepted, and else it is not.
Decides(recs, k, P, accepted) == \A i \in DOMAIN recs : recs[i].number = k => (i \in P <=> accepted)

\* utils.Filter keeps all of a record or nothing.
LEMMA AllOrNothing ==
  ASSUME NEW S, NEW recs \in Seq(S), NEW k, NEW P, NEW accepted \in BOOLEAN,
         Decides(recs, k, P, accepted)
  PROVE  Count(Keep(recs, P), k) = IF accepted THEN Count(recs, k) ELSE 0
  <1>1. Count(Keep(recs, P), k) = Cardinality(Kept(recs, P, k))
    BY KeepCounts
  <1>2. CASE accepted
    <2>1. Kept(recs, P, k) = Places(recs, k)
      BY <1>2 DEF Kept, Places, Decides
    <2> QED
      BY <1>1, <1>2, <2>1, Zenon DEF Count
  <1>3. CASE ~accepted
    <2>1. Kept(recs, P, k) = {}
      BY <1>3 DEF Kept, Places, Decides
    <2> QED
      BY <1>1, <1>3, <2>1, FS_EmptySet, Zenon
  <1> QED
    BY <1>2, <1>3

\* The same for the places at which a record is accepted.
LEMMA FilterCounts ==
  ASSUME NEW recs \in Seq(Range(Records)), NEW k, NEW rec, IsAlone(k, rec), NEW f,
         f.kind # "extensions"
  PROVE  Count(Keep(recs, {i \in DOMAIN recs : Accepts(f, recs[i])}), k)
           = IF Accepts(f, rec) THEN Count(recs, k) ELSE 0
  <1>1. ASSUME NEW i \in DOMAIN recs, recs[i].number = k
        PROVE  recs[i] = rec
    <2>1. i \in 1 .. Len(recs)
      BY LenProperties
    <2>2. recs[i] \in Range(Records)
      BY <2>1, ElementOfSeq
    <2> QED
      BY <1>1, <2>2 DEF IsAlone
  <1>2. PICK accepted \in BOOLEAN : accepted = Accepts(f, rec)
    BY Zenon DEF Accepts
  <1> DEFINE P == {i \in DOMAIN recs : Accepts(f, recs[i])}
  <1>3. Decides(recs, k, P, accepted)
    BY <1>1, <1>2, Zenon DEF Decides
  <1> HIDE DEF P
  <1>4. Count(Keep(recs, P), k) = IF accepted THEN Count(recs, k) ELSE 0
    BY <1>3, AllOrNothing
  <1> QED
    BY <1>2, <1>4, Zenon DEF P

\* A filter that accepts a record changes nothing of what the filters before it say.
LEMMA AcceptedByOneMore ==
  ASSUME NEW f, NEW fs, NEW rec, Accepts(f, rec)
  PROVE  (\A g \in fs \cup {f} : Accepts(g, rec)) <=> (\A g \in fs : Accepts(g, rec))
  BY Zenon

\* Execute keeps the places at which a record is accepted, except for the extensions.
LEMMA ExecuteKeeps ==
  ASSUME NEW f \in Filter, f.kind # "extensions", NEW recs
  PROVE  Execute(f, recs) = Keep(recs, {i \in DOMAIN recs : Accepts(f, recs[i])})
  <1>1. f.kind \in {"folders", "names", "extensions", "path", "orphans", "deleted"}
    BY DEF Filter, Kinds
  <1> DEFINE P == {i \in DOMAIN recs : Accepts(f, recs[i])}
  <1>2. CASE f.kind = "folders"
    <2>1. P = {i \in DOMAIN recs : ~IsFolder(recs[i])}
      BY <1>2 DEF Accepts
    <2>2. Execute(f, recs) = FilterOutFolders(recs)
      BY <1>2 DEF Execute
    <2> QED
      BY <2>1, <2>2, Zenon DEF FilterOutFolders
  <1>3. CASE f.kind = "names"
    <2>1. P = {i \in DOMAIN recs : GetFname(recs[i]) \in Range(f.args)}
      BY <1>3 DEF Accepts
    <2>2. Execute(f, recs) = FilterByNames(recs, f.args)
      BY <1>3 DEF Execute
    <2> QED
      BY <2>1, <2>2, Zenon DEF FilterByNames
  <1>4. CASE f.kind = "path"
    <2>1. P = {i \in DOMAIN recs : GetFullPath(recs[i]) = f.args[1]}
      BY <1>4 DEF Accepts
    <2>2. Execute(f, recs) = FilterByPath(recs, f.args[1])
      BY <1>4 DEF Execute
    <2> QED
      BY <2>1, <2>2, Zenon DEF FilterByPath
  <1>5. CASE f.kind = "orphans"
    <2>1. P = {i \in DOMAIN recs : IsDeleted(recs[i]) /\ ~HasParent(recs[i])}
      BY <1>5 DEF Accepts
    <2>2. Execute(f, recs) = FilterOrphans(recs)
      BY <1>5 DEF Execute
    <2> QED
      BY <2>1, <2>2, Zenon DEF FilterOrphans
  <1>6. CASE f.kind = "deleted"
    <2>1. P = {i \in DOMAIN recs : IsDeleted(recs[i])}
      BY <1>6 DEF Accepts
    <2>2. Execute(f, recs) = FilterDeleted(recs)
      BY <1>6 DEF Execute
    <2> QED
      BY <2>1, <2>2, Zenon DEF FilterDeleted
  <1> QED
    BY <1>1, <1>2, <1>3, <1>4, <1>5, <1>6

\* FilterByExtensions has a record as often as an asked extension is one of its own.
LEMMA ExtensionsCount ==
  ASSUME job \in Jobs, NEW recs \in Seq(Range(Records))
  PROVE  /\ FilterByExtensions(recs, flags.extensions) \in Seq(Range(Records))
         /\ \A k, rec : IsAlone(k, rec) /\ Count(recs, k) \in {0, 1}
              => Count(FilterByExtensions(recs, flags.extensions), k)
                   = IF Count(recs, k) = 1 THEN Cardinality(Matching(rec)) ELSE 0
  <1> DEFINE S == Range(Records)
             exts == flags.extensions
             seqs == [e \in DOMAIN exts |-> FilterByExtension(recs, exts[e])]
  <1>1. PICK n \in Nat : n = Len(exts) /\ DOMAIN exts = 1 .. n
    BY FlagsType, LenProperties
  <1>2. \A e : FilterByExtension(recs, e) \in Seq(S)
    BY KeepCounts DEF FilterByExtension
  <1>3. seqs \in Seq(Seq(S)) /\ DOMAIN seqs = 1 .. n
        /\ \A e \in 1 .. n : seqs[e] = FilterByExtension(recs, exts[e])
    <2>1. seqs \in [1 .. n -> Seq(S)] /\ \A e \in 1 .. n : seqs[e] = FilterByExtension(recs, exts[e])
      BY <1>1, <1>2
    <2> HIDE DEF seqs
    <2> QED
      BY <2>1
  <1>4. FilterByExtensions(recs, exts) = FlattenSeq(seqs)
    BY Zenon DEF FilterByExtensions
  <1> HIDE DEF seqs, S
  <1>5. FilterByExtensions(recs, exts) \in Seq(S)
    BY <1>3, <1>4, FlattenType
  <1>6. ASSUME NEW k, NEW rec, IsAlone(k, rec), Count(recs, k) \in {0, 1}
        PROVE  Count(FilterByExtensions(recs, exts), k)
                 = IF Count(recs, k) = 1 THEN Cardinality(Matching(rec)) ELSE 0
    <2>1. ASSUME NEW i \in DOMAIN recs, recs[i].number = k
          PROVE  recs[i] = rec
      <3>1. i \in 1 .. Len(recs)
        BY LenProperties
      <3>2. recs[i] \in Range(Records)
        BY <3>1, ElementOfSeq
      <3> QED
        BY <1>6, <2>1, <3>2 DEF IsAlone
    <2>2. ASSUME NEW e
          PROVE  Count(FilterByExtension(recs, e), k)
                   = IF HasFilenameExtension(rec, e) THEN Count(recs, k) ELSE 0
      <3> DEFINE P == {i \in DOMAIN recs : HasFilenameExtension(recs[i], e)}
      <3>1. PICK accepted \in BOOLEAN : accepted = HasFilenameExtension(rec, e)
        BY Zenon DEF HasFilenameExtension
      <3>2. Decides(recs, k, P, accepted)
        BY <2>1, <3>1, Zenon DEF Decides
      <3>3. FilterByExtension(recs, e) = Keep(recs, P)
        BY Zenon DEF FilterByExtension
      <3> HIDE DEF P
      <3>4. Count(Keep(recs, P), k) = IF accepted THEN Count(recs, k) ELSE 0
        BY <3>2, AllOrNothing
      <3> QED
        BY <3>1, <3>3, <3>4, Zenon
    <2> DEFINE Q == IF Count(recs, k) = 1 THEN Matching(rec) ELSE {}
    <2>3. OnceIn(seqs, k, Q)
      <3>1. Matching(rec) \subseteq 1 .. n /\ Q \subseteq 1 .. n
        BY <1>1 DEF Matching
      <3>2. \A e \in 1 .. n : e \in Matching(rec) <=> HasFilenameExtension(rec, exts[e])
        BY <1>1 DEF Matching
      <3>3. ASSUME NEW e \in 1 .. n
            PROVE  Count(seqs[e], k) = IF e \in Q THEN 1 ELSE 0
        <4>1. Count(seqs[e], k) = IF HasFilenameExtension(rec, exts[e]) THEN Count(recs, k) ELSE 0
          BY <1>3, <2>2
        <4>2. CASE Count(recs, k) = 1
          BY <3>2, <4>1, <4>2
        <4>3. CASE Count(recs, k) = 0
          BY <4>1, <4>3
        <4> QED
          BY <1>6, <4>2, <4>3
      <3> HIDE DEF Q
      <3> QED
        BY <1>3, <3>1, <3>3 DEF OnceIn
    <2> HIDE DEF Q
    <2>4. Count(FlattenSeq(seqs), k) = Cardinality(Q)
      BY <1>3, <2>3, CountFlat
    <2>5. Cardinality({}) = 0
      BY FS_EmptySet
    <2> QED
      BY <1>4, <2>4, <2>5, Zenon DEF Q
  <1> QED
    BY <1>5, <1>6 DEF S

-----------------------------------------------------------------------------
(* The invariant of ApplyFilters.                                          *)

Filtering == {"filter", "show", "done", "panic"}

\* The filters that have been applied.
Done == Range(Registered) \ Range(filters)

\* How often a record passes some filters.
Times(fs, rec) ==
  IF \A f \in fs : Accepts(f, rec)
  THEN IF \E f \in fs : f.kind = "extensions" THEN Cardinality(Matching(rec)) ELSE 1
  ELSE 0

\* Of each record that was parsed, as many are left as pass the filters fs.
Counted(recs, fs) ==
  \A k \in 1 .. Len(Records) : Records[k] # Empty => Count(recs, k) = Times(fs, Records[k])

Selected ==
  /\ pc \notin Filtering \/ Stopped => filters = <<>> /\ records = <<>> /\ shown = 0
  /\ pc = "filter" => shown = 0
  /\ pc \in Filtering \ {"filter"} => filters = <<>>
  /\ filters \in Seq(Filter) /\ Distinct(filters) /\ Range(filters) \subseteq Range(Registered)
  /\ records \in Seq(Range(Records)) /\ shown \in 0 .. Len(records)
  /\ pc \in Filtering /\ ~Stopped => Counted(records, Done)

\* The command line never changes, and the filters with it.
LEMMA SameJob ==
  ASSUME job' = job
  PROVE  flags' = flags /\ Registered' = Registered /\ disk' = disk
  BY DEF flags, Registered, fileNamesToExport, disk

\* What the filters make of a record is said by the command line and by the disk.
LEMMA SameCounted ==
  ASSUME job' = job, Records' = Records, NEW recs, NEW fs, recs = records', fs = Done',
         Counted(recs, fs)
  PROVE  Counted(records, Done)'
  <1>1. /\ disk' = disk /\ flags' = flags
        /\ \A rec : Matching(rec)' = Matching(rec)
    BY Zenon DEF Matching, flags, disk
  <1>2. ASSUME NEW f, NEW rec
        PROVE  Accepts(f, rec)' = Accepts(f, rec)
    BY <1>1, Zenon DEF Accepts, IsFolder, Parsable, OnDisk, GetFullPath, IsDeleted, Used, HasParent
  <1>3. ASSUME NEW rec
        PROVE  Times(fs, rec)' = Times(fs, rec)
    BY <1>1, <1>2, Zenon DEF Times
  <1> QED
    BY <1>3, Zenon DEF Counted

\* Nothing is selected yet: no filter and no record.
LEMMA NothingSelected ==
  ASSUME pc \notin Filtering \/ Stopped, filters = <<>>, records = <<>>, shown = 0
  PROVE  Selected
  <1>1. DOMAIN <<>> = {}
    OBVIOUS
  <1>2. Len(<<>>) = 0
    OBVIOUS
  <1>3. Range(<<>>) = {}
    BY <1>1 DEF Range
  <1>4. Distinct(<<>>)
    BY <1>1 DEF Distinct
  <1>5. <<>> \in Seq(Filter) /\ <<>> \in Seq(Range(Records))
    OBVIOUS
  <1>6. Range(filters) \subseteq Range(Registered)
    BY <1>3
  <1>7. shown \in 0 .. Len(records)
    BY <1>2
  <1>8. pc \in Filtering => Stopped
    OBVIOUS
  <1> QED
    BY <1>4, <1>5, <1>6, <1>7, <1>8 DEF Selected

\* Register: every record is there once, and no filter has been applied.
LEMMA RegisterStep ==
  ASSUME PInv, Selected, Register
  PROVE  PInv' /\ Selected'
  <1>1. /\ pc = "select" /\ pc' = "filter" /\ filters' = Registered /\ records' = Records
        /\ UNCHANGED <<job, r, ReadPtr, restored, attrLen, entries, record, Records, shown>>
    BY DEF Register
  <1>2. flags' = flags /\ Registered' = Registered /\ disk' = disk
    BY <1>1, SameJob
  <1>3. job \in Jobs /\ Records \in Seq(MemRecord)
    BY DEF PInv, Typed
  <1>4. PInv' /\ ~Stopped /\ ~Stopped'
    <2>1. Typed'
      BY <1>1, <1>2 DEF PInv, Typed
    <2>2. pc \notin Parsing /\ pc' \notin Parsing
      BY <1>1 DEF Parsing
    <2> QED
      BY <1>1, <2>1, <2>2, Apart
  <1>5. DOMAIN Records = 1 .. Len(Records) /\ Len(Records) \in Nat
    BY <1>3, LenProperties
  <1>6. Records \in Seq(Range(Records))
    <2>1. \A n \in 1 .. Len(Records) : Records[n] \in Range(Records)
      BY <1>5 DEF Range
    <2>2. Records = [n \in 1 .. Len(Records) |-> Records[n]]
      BY <1>3, <1>5
    <2> QED
      BY <1>5, <2>1, <2>2
  <1>7. Done' = {}
    BY <1>1, <1>2 DEF Done
  <1>8. Counted(Records, {})
    <2>1. ASSUME NEW k \in 1 .. Len(Records), Records[k] # Empty
          PROVE  Count(Records, k) = 1
      <3>1. \A n \in 1 .. Len(Records) : Records[n] = Empty \/ Records[n].number = n
        BY DEF PInv, Table, IsEntry, MadeOf
      <3>2. Empty.number = 0 /\ k # 0
        BY DEF Empty
      <3>3. Places(Records, k) = {k}
        BY <1>5, <2>1, <3>1, <3>2 DEF Places
      <3> QED
        BY <3>3, FS_Singleton DEF Count
    <2>2. \A rec : Times({}, rec) = 1
      BY DEF Times
    <2> QED
      BY <2>1, <2>2 DEF Counted
  <1>9. Counted(records, Done)'
    BY <1>1, <1>7, <1>8, SameCounted
  <1>10. /\ filters' \in Seq(Filter) /\ Distinct(filters)' /\ Range(filters)' \subseteq Range(Registered)'
    <2>1. Lists(Registered, RegisteredSet)
      BY <1>3, RegisteredOnce
    <2> QED
      BY <1>1, <1>2, <2>1 DEF Lists, Distinct
  <1>11. shown' = 0 /\ shown' \in 0 .. Len(records')
    <2>1. shown = 0
      BY <1>1 DEF Selected, Filtering
    <2> QED
      BY <1>1, <1>5, <2>1
  <1> QED
    BY <1>1, <1>4, <1>6, <1>9, <1>10, <1>11 DEF Selected, Filtering

\* ApplyFilter: what the first of the filters leaves.
LEMMA ApplyStep ==
  ASSUME PInv, Selected, ApplyFilter
  PROVE  PInv' /\ Selected'
  <1>1. /\ pc = "filter" /\ filters # <<>> /\ records' = Execute(Head(filters), records)
        /\ filters' = Tail(filters) /\ UNCHANGED parserVars /\ shown' = shown
    BY DEF ApplyFilter
  <1>2. UNCHANGED <<job, pc, r, ReadPtr, restored, attrLen, entries, record, Records>>
    BY <1>1 DEF parserVars
  <1>3. flags' = flags /\ Registered' = Registered /\ disk' = disk
    BY <1>2, SameJob
  <1>4. PInv' /\ ~Stopped /\ ~Stopped'
    <2>1. Typed'
      BY <1>2, <1>3 DEF PInv, Typed
    <2>2. pc \notin Parsing /\ pc' \notin Parsing
      BY <1>1, <1>2 DEF Parsing
    <2> QED
      BY <1>1, <1>2, <2>1, <2>2, Apart
  <1>5. /\ filters \in Seq(Filter) /\ Distinct(filters) /\ Range(filters) \subseteq Range(Registered)
        /\ records \in Seq(Range(Records)) /\ shown = 0 /\ Counted(records, Done)
    BY <1>1, <1>4 DEF Selected, Filtering
  <1>6. PICK n \in Nat : n = Len(filters) /\ DOMAIN filters = 1 .. n /\ n > 0
    BY <1>1, <1>5, LenProperties, EmptySeq
  <1>7. PICK f \in Filter : f = Head(filters) /\ f = filters[1]
    BY <1>1, <1>5
  <1>8. /\ filters' \in Seq(Filter) /\ DOMAIN filters' = 1 .. n - 1
        /\ \A i \in 1 .. n - 1 : filters'[i] = filters[i + 1]
    BY <1>1, <1>5, <1>6, HeadTailProperties
  <1>9. Distinct(filters)'
    <2>1. ASSUME NEW i \in 1 .. n - 1, NEW j \in 1 .. n - 1, filters'[i].kind = filters'[j].kind
          PROVE  i = j
      <3>1. i + 1 \in 1 .. n /\ j + 1 \in 1 .. n
        OBVIOUS
      <3>2. filters[i + 1].kind = filters[j + 1].kind
        BY <1>8, <2>1
      <3>3. i + 1 = j + 1
        BY <1>5, <1>6, <3>1, <3>2 DEF Distinct
      <3> QED
        BY <3>3
    <2> QED
      BY <1>8, <2>1 DEF Distinct
  <1>10. Range(filters') = Range(filters) \ {f} /\ f \in Range(filters)
    <2>1. 1 \in 1 .. n
      BY <1>6
    <2>2. ASSUME NEW i \in 1 .. n - 1 PROVE filters'[i] \in Range(filters) /\ filters'[i] # f
      <3>1. i + 1 \in 1 .. n /\ i + 1 # 1
        OBVIOUS
      <3>2. filters[i + 1].kind # filters[1].kind
        BY <1>5, <1>6, <2>1, <3>1 DEF Distinct
      <3> QED
        BY <1>6, <1>7, <1>8, <3>1, <3>2 DEF Range
    <2>3. ASSUME NEW i \in 1 .. n, filters[i] # f PROVE filters[i] \in Range(filters')
      <3>1. i - 1 \in 1 .. n - 1 /\ (i - 1) + 1 = i
        BY <1>7, <2>3
      <3>2. filters'[i - 1] = filters[i]
        BY <1>8, <3>1
      <3> QED
        BY <1>8, <3>1, <3>2 DEF Range
    <2>4. f \in Range(filters)
      BY <1>6, <1>7, <2>1 DEF Range
    <2>5. \A g \in Range(filters') : g \in Range(filters) /\ g # f
      BY <1>8, <2>2 DEF Range
    <2>6. \A g \in Range(filters) : g # f => g \in Range(filters')
      BY <1>6, <2>3 DEF Range
    <2> QED
      BY <2>4, <2>5, <2>6
  <1>11. Range(filters)' \subseteq Range(Registered)'
    BY <1>3, <1>5, <1>10
  <1>12. Done' = Done \cup {f} /\ f \notin Done /\ f \in Range(Registered)
    BY <1>3, <1>5, <1>10 DEF Done
  <1>13. job \in Jobs
    BY DEF PInv, Typed
  <1>14. f.kind = "extensions" => /\ f.args = flags.extensions
                                  /\ \A g \in Done : g.kind # "extensions"
    <2>1. SUFFICES ASSUME f.kind = "extensions"
                   PROVE  f.args = flags.extensions /\ \A g \in Done : g.kind # "extensions"
      OBVIOUS
    <2>2. Lists(Registered, RegisteredSet)
      BY <1>13, RegisteredOnce
    <2>3. f \in RegisteredSet
      BY <1>12, <2>2 DEF Lists
    <2>4. f.args = flags.extensions
      BY <2>1, <2>3 DEF RegisteredSet, One
    <2>5. ASSUME NEW g \in Done, g.kind = "extensions" PROVE FALSE
      <3>1. PICK i, j \in DOMAIN Registered : f = Registered[i] /\ g = Registered[j]
        BY <1>12 DEF Done, Range
      <3>2. i = j
        BY <2>1, <2>2, <2>5, <3>1 DEF Lists, Distinct
      <3> QED
        BY <1>12, <3>1, <3>2
    <2> QED
      BY <2>4, <2>5
  <1>15. records' \in Seq(Range(Records)) /\ Counted(records', Done \cup {f})
    <2>1. CASE f.kind = "extensions"
      <3>1. records' = FilterByExtensions(records, flags.extensions)
        BY <1>1, <1>7, <1>14, <2>1 DEF Execute
      <3>2. records' \in Seq(Range(Records))
        BY <1>5, <1>13, <3>1, ExtensionsCount
      <3>3. ASSUME NEW k \in 1 .. Len(Records), Records[k] # Empty
            PROVE  Count(records', k) = Times(Done \cup {f}, Records[k])
        <4>1. PICK rec : rec = Records[k]
          OBVIOUS
        <4>2. IsAlone(k, rec)
          BY <3>3, <4>1, OneOfTheTable
        <4>3. Count(records, k) = IF \A g \in Done : Accepts(g, rec) THEN 1 ELSE 0
          BY <1>5, <1>14, <2>1, <3>3, <4>1, Zenon DEF Counted, Times
        <4>4. Count(records, k) \in {0, 1}
          BY <4>3
        <4>5. Count(records', k) = IF Count(records, k) = 1 THEN Cardinality(Matching(rec)) ELSE 0
          BY <1>5, <1>13, <3>1, <4>2, <4>4, ExtensionsCount
        <4>6. Accepts(f, rec)
          BY <2>1 DEF Accepts
        <4>7. (\A g \in Done \cup {f} : Accepts(g, rec)) <=> (\A g \in Done : Accepts(g, rec))
          BY <4>6, AcceptedByOneMore, Zenon
        <4>8. \E g \in Done \cup {f} : g.kind = "extensions"
          BY <2>1
        <4>9. Times(Done \cup {f}, rec)
                = IF \A g \in Done : Accepts(g, rec) THEN Cardinality(Matching(rec)) ELSE 0
          BY <4>7, <4>8, Zenon DEF Times
        <4>10. CASE \A g \in Done : Accepts(g, rec)
          <5>1. Count(records, k) = 1
            BY <4>3, <4>10, Zenon
          <5> QED
            BY <4>1, <4>5, <4>9, <4>10, <5>1, Zenon
        <4>11. CASE ~(\A g \in Done : Accepts(g, rec))
          <5>1. Count(records, k) = 0 /\ 0 # 1
            BY <4>3, <4>11
          <5> QED
            BY <4>1, <4>5, <4>9, <4>11, <5>1, Zenon
        <4> QED
          BY <4>10, <4>11
      <3> QED
        BY <3>2, <3>3 DEF Counted
    <2>2. CASE f.kind # "extensions"
      <3>1. records' = Keep(records, {i \in DOMAIN records : Accepts(f, records[i])})
        BY <1>1, <1>7, <2>2, ExecuteKeeps
      <3>2. records' \in Seq(Range(Records))
        BY <1>5, <3>1, KeepCounts
      <3>3. ASSUME NEW k \in 1 .. Len(Records), Records[k] # Empty
            PROVE  Count(records', k) = Times(Done \cup {f}, Records[k])
        <4>1. PICK rec : rec = Records[k]
          OBVIOUS
        <4>2. IsAlone(k, rec)
          BY <3>3, <4>1, OneOfTheTable
        <4>3. Count(records, k) = Times(Done, rec)
          BY <1>5, <3>3, <4>1 DEF Counted
        <4>4. Count(records', k) = IF Accepts(f, rec) THEN Count(records, k) ELSE 0
          <5>1. records \in Seq(Range(Records))
            BY <1>5
          <5>2. Count(Keep(records, {i \in DOMAIN records : Accepts(f, records[i])}), k)
                  = IF Accepts(f, rec) THEN Count(records, k) ELSE 0
            BY <2>2, <4>2, <5>1, FilterCounts
          <5> QED
            BY <3>1, <5>2, Zenon
        <4>5. (\A g \in Done \cup {f} : Accepts(g, rec)) <=> (Accepts(f, rec) /\ \A g \in Done : Accepts(g, rec))
          BY Zenon
        <4>6. (\E g \in Done \cup {f} : g.kind = "extensions") <=> (\E g \in Done : g.kind = "extensions")
          BY <2>2, Zenon
        <4>7. Times(Done \cup {f}, rec) = IF Accepts(f, rec) THEN Times(Done, rec) ELSE 0
          <5>1. CASE Accepts(f, rec)
            BY <4>5, <4>6, <5>1, Zenon DEF Times
          <5>2. CASE ~Accepts(f, rec)
            BY <4>5, <5>2, Zenon DEF Times
          <5> QED
            BY <5>1, <5>2
        <4> QED
          BY <4>1, <4>3, <4>4, <4>7, Zenon
      <3> QED
        BY <3>2, <3>3 DEF Counted
    <2> QED
      BY <2>1, <2>2
  <1>16. Counted(records, Done)'
    BY <1>2, <1>12, <1>15, SameCounted
  <1>17. shown' \in 0 .. Len(records') /\ shown' = 0
    <2>1. Len(records') \in Nat
      BY <1>15, LenProperties
    <2> QED
      BY <1>1, <1>5, <2>1
  <1>18. records' \in Seq(Range(Records'))
    BY <1>2, <1>15
  <1> QED
    BY <1>1, <1>2, <1>4, <1>8, <1>9, <1>11, <1>16, <1>17, <1>18 DEF Selected, Filtering

\* A step that changes no record and no filter.
LEMMA SelectionStays ==
  ASSUME PInv, Selected, pc \in Filtering, pc' \in Filtering, pc # "done", pc # "panic",
         pc' # "filter", filters = <<>>, shown' \in 0 .. Len(records),
         UNCHANGED <<job, r, ReadPtr, restored, attrLen, entries, record, Records, filters, records>>
  PROVE  PInv' /\ Selected' /\ ~Stopped /\ ~Stopped'
  <1>1. flags' = flags /\ Registered' = Registered /\ disk' = disk
    BY SameJob
  <1>2. PInv' /\ ~Stopped /\ ~Stopped'
    <2>1. Typed'
      BY <1>1 DEF PInv, Typed, Filtering
    <2>2. pc \notin Parsing /\ pc' \notin Parsing
      BY DEF Parsing, Filtering
    <2> QED
      BY <2>1, <2>2, Apart
  <1>3. Done' = Done
    BY <1>1 DEF Done
  <1>4. Counted(records, Done)'
    <2>1. Counted(records, Done)
      BY <1>2 DEF Selected
    <2> QED
      BY <1>3, <2>1, SameCounted
  <1>5. Distinct(filters)'
    BY DEF Selected, Distinct
  <1> QED
    BY <1>1, <1>2, <1>4, <1>5 DEF Selected

-----------------------------------------------------------------------------
(* The names of a record.                                                  *)

\* The greatest of finitely many naturals.
LEMMA MaxOfNaturals ==
  ASSUME NEW N \in Nat, NEW T \in SUBSET (1 .. N), T # {}
  PROVE  Max(T) \in T
  <1> DEFINE U == {n \in Nat : N - n \in T}
  <1>1. U # {}
    <2>1. PICK x : x \in T
      OBVIOUS
    <2>2. N - x \in Nat /\ N - (N - x) = x
      BY <2>1
    <2>3. N - x \in U
      BY <2>1, <2>2
    <2> QED
      BY <2>3
  <1>2. PICK m \in U : \A n \in U : m <= n
    <2>1. U \in SUBSET Nat
      OBVIOUS
    <2> HIDE DEF U
    <2> QED
      BY <1>1, <2>1, LeastNatural
  <1>3. N - m \in T /\ m \in Nat
    OBVIOUS
  <1>4. ASSUME NEW y \in T PROVE N - m >= y
    <2>1. N - y \in Nat /\ N - (N - y) = y
      OBVIOUS
    <2>2. N - y \in U
      BY <2>1
    <2>3. m <= N - y
      BY <1>2, <2>2
    <2> HIDE DEF U
    <2> QED
      BY <1>3, <2>1, <2>3
  <1> HIDE DEF U
  <1>5. \E x \in T : \A y \in T : x >= y
    BY <1>3, <1>4
  <1> QED
    BY <1>5 DEF Max

\* A record in memory has the names of the record on disk.
NamesOf(rec, d) ==
  /\ FNames(rec) \subseteq 1 .. Len(rec.attributes) /\ Len(rec.attributes) \in Nat
  /\ \A k \in FNames(rec) : FNameAt(rec, k) \in DiskNames(d) /\ FNameAt(rec, k).space \in Spaces
  /\ DiskNames(d) # {} => FNames(rec) # {}

\* Process keeps every FileName attribute, and each has one name.
LEMMA NamesKept ==
  ASSUME NEW d \in DiskRecord, IsSound(d), NEW rec \in MemRecord, NEW number,
         MadeOf(rec, d, number, Len(d.attrs))
  PROVE  NamesOf(rec, d)
  <1>1. Len(rec.attributes) \in Nat /\ DOMAIN rec.attributes = 1 .. Len(rec.attributes)
    BY MemFields
  <1>2. DOMAIN d.attrs = 1 .. Len(d.attrs)
    BY AttributesType
  <1>3. FNames(rec) \subseteq 1 .. Len(rec.attributes)
    BY <1>1 DEF FNames
  <1>4. ASSUME NEW k \in FNames(rec)
        PROVE  FNameAt(rec, k) \in DiskNames(d) /\ FNameAt(rec, k).space \in Spaces
    <2>1. k \in DOMAIN rec.attributes /\ rec.attributes[k].type = "FileName"
      BY DEF FNames
    <2>2. PICK j \in 1 .. Len(d.attrs) : IsOf(rec.attributes[k], d, j)
      BY <2>1 DEF MadeOf
    <2>3. PICK a \in DiskAttribute : a = d.attrs[j]
      BY AttributesType
    <2>4. rec.attributes[k].disk = a /\ a.type = "FileName"
      BY <2>1, <2>2, <2>3 DEF IsOf
    <2>5. a.fnames \in Seq(FileName) /\ Len(a.fnames) = 1
      BY <2>3, <2>4, AttributesType DEF DiskAttribute
    <2>6. 1 \in DOMAIN a.fnames /\ a.fnames[1] \in FileName
      BY <2>5
    <2>7. FNameAt(rec, k) = a.fnames[1]
      BY <2>4 DEF FNameAt
    <2>8. a.fnames[1] \in Range(a.fnames)
      BY <2>6 DEF Range
    <2>9. a.fnames[1] \in DiskNames(d)
      BY <1>2, <2>3, <2>4, <2>8 DEF DiskNames
    <2>10. FNameAt(rec, k).space \in Spaces
      BY <2>6, <2>7 DEF FileName
    <2> QED
      BY <2>7, <2>9, <2>10
  <1>5. ASSUME DiskNames(d) # {}
        PROVE  FNames(rec) # {}
    <2>1. PICK j \in 1 .. Len(d.attrs) : d.attrs[j].type = "FileName"
      BY <1>2, <1>5 DEF DiskNames
    <2>2. PICK k \in DOMAIN rec.attributes : IsOf(rec.attributes[k], d, j)
      BY <2>1 DEF MadeOf
    <2>3. rec.attributes[k].type = "FileName"
      BY <2>1, <2>2 DEF IsOf
    <2> QED
      BY <2>2, <2>3 DEF FNames
  <1> QED
    BY <1>1, <1>3, <1>4, <1>5 DEF NamesOf

\* GetFname gives one of the names, or "-" if there is none.
LEMMA NameIsOne ==
  ASSUME NEW rec, NEW d, NamesOf(rec, d)
  PROVE  GetFname(rec) \in CalledBy(d)
  <1>1. Schemes[1] = "Win32" /\ Schemes[2] = "Win32 & Dos" /\ Schemes[3] = "POSIX" /\ Schemes[4] = "Dos"
        /\ DOMAIN Schemes = 1 .. 4
    BY DEF Schemes
  <1>0. 1 \in 1 .. 4 /\ 2 \in 1 .. 4 /\ 3 \in 1 .. 4 /\ 4 \in 1 .. 4 /\ 1 .. 4 \subseteq Nat
    OBVIOUS
  <1> DEFINE K == {k \in DOMAIN Schemes : HasScheme(rec, k)}
  <1>2. CASE FNames(rec) = {}
    <2>1. \A k : ~HasScheme(rec, k)
      BY <1>2 DEF HasScheme, OfScheme
    <2>2. GetFname(rec) = "-"
      BY <2>1, Zenon DEF GetFname
    <2>3. DiskNames(d) = {}
      BY <1>2 DEF NamesOf
    <2> QED
      BY <2>2, <2>3 DEF CalledBy
  <1>3. CASE FNames(rec) # {}
    <2>1. PICK f \in FNames(rec) : FNameAt(rec, f).space \in Spaces
      BY <1>3 DEF NamesOf
    <2>2. \E k \in DOMAIN Schemes : FNameAt(rec, f).space = Schemes[k]
      <3>1. PICK s \in {"POSIX", "Win32", "Dos", "Win32 & Dos"} : s = FNameAt(rec, f).space
        BY <2>1 DEF Spaces
      <3>3. \E k \in DOMAIN Schemes : s = Schemes[k]
        BY <1>0, <1>1, <3>1
      <3> QED
        BY <3>1, <3>3
    <2>3. K # {} /\ K \in SUBSET Nat
      <3>1. PICK k \in DOMAIN Schemes : FNameAt(rec, f).space = Schemes[k]
        BY <2>2
      <3>2. f \in OfScheme(rec, Schemes[k])
        BY <3>1 DEF OfScheme
      <3>3. HasScheme(rec, k)
        BY <3>2 DEF HasScheme
      <3>4. DOMAIN Schemes \subseteq Nat
        BY <1>0, <1>1, Zenon
      <3>5. k \in K
        BY <3>1, <3>3
      <3>6. K \subseteq DOMAIN Schemes
        OBVIOUS
      <3> HIDE DEF K
      <3> QED
        BY <3>4, <3>5, <3>6
    <2>4. \E k \in DOMAIN Schemes : HasScheme(rec, k)
      BY <2>3
    <2>5. Min(K) \in K
      <3> HIDE DEF K
      <3> QED
        BY <2>3, MinOfNaturals
    <2>6. PICK names : names = OfScheme(rec, Schemes[Min(K)])
      OBVIOUS
    <2>7. names # {} /\ names \subseteq FNames(rec)
      BY <2>5, <2>6 DEF HasScheme, OfScheme
    <2>8. Max(names) \in names
      BY <2>7, MaxOfNaturals DEF NamesOf
    <2>9. GetFname(rec) = FNameAt(rec, Max(names)).name
      BY <2>4, <2>6, Zenon DEF GetFname
    <2>10. FNameAt(rec, Max(names)) \in DiskNames(d)
      BY <2>7, <2>8 DEF NamesOf
    <2> QED
      BY <2>9, <2>10 DEF CalledBy
  <1> QED
    BY <1>2, <1>3

\* HasFilenameExtension looks at one of the names.
LEMMA ExtensionIsOne ==
  ASSUME NEW rec, NEW d, NamesOf(rec, d), NEW e
  PROVE  /\ HasFilenameExtension(rec, e) => \E f \in DiskNames(d) : e \in f.exts
         /\ (\E f \in DiskNames(d) : TRUE) /\ (\A f \in DiskNames(d) : e \in f.exts)
              => HasFilenameExtension(rec, e)
  <1>1. FNames(rec) # {} => Min(FNames(rec)) \in FNames(rec)
    <2>1. FNames(rec) \in SUBSET Nat
      BY DEF NamesOf
    <2> QED
      BY <2>1, MinOfNaturals
  <1>2. FNames(rec) # {} => FNameAt(rec, Min(FNames(rec))) \in DiskNames(d)
    BY <1>1 DEF NamesOf
  <1>3. ASSUME HasFilenameExtension(rec, e)
        PROVE  \E f \in DiskNames(d) : e \in f.exts
    BY <1>2, <1>3 DEF HasFilenameExtension
  <1>4. ASSUME NEW g \in DiskNames(d), \A f \in DiskNames(d) : e \in f.exts
        PROVE  HasFilenameExtension(rec, e)
    <2>1. FNames(rec) # {}
      BY DEF NamesOf
    <2> QED
      BY <1>2, <1>4, <2>1 DEF HasFilenameExtension
  <1> QED
    BY <1>3, <1>4

-----------------------------------------------------------------------------
(* What was asked for is selected.                                         *)

\* What the filters know of a record that was parsed is what is on the disk.
LEMMA RecordIsDisk ==
  ASSUME job \in Jobs, NEW rec, NEW k \in 1 .. Len(disk), rec.number = k
  PROVE  /\ IsFolder(rec) = disk[k].folder /\ IsDeleted(rec) = ~disk[k].used
         /\ HasParent(rec) = (~job.file /\ disk[k].hasParent)
         /\ GetFullPath(rec) = IF job.file THEN NoPath ELSE disk[k].path
  <1>1. k # 0 /\ disk[k] \in DiskRecord
    BY JobType DEF disk
  <1>2. Parsable(rec) /\ OnDisk(rec) = disk[k]
    BY <1>1 DEF Parsable, OnDisk
  <1>3. disk[k].folder \in BOOLEAN /\ disk[k].used \in BOOLEAN /\ disk[k].hasParent \in BOOLEAN
        /\ job.file \in BOOLEAN
    BY <1>1, JobType DEF DiskRecord
  <1>4. IsFolder(rec) = disk[k].folder
    BY <1>2, <1>3, Zenon DEF IsFolder
  <1>5. IsDeleted(rec) = ~disk[k].used
    BY <1>2, <1>3, Zenon DEF IsDeleted, Used
  <1>6. HasParent(rec) = (~job.file /\ disk[k].hasParent)
    BY <1>2, <1>3, Zenon DEF HasParent
  <1>7. GetFullPath(rec) = IF job.file THEN NoPath ELSE disk[k].path
    BY <1>2, <1>3, Zenon DEF GetFullPath
  <1> QED
    BY <1>4, <1>5, <1>6, <1>7

\* A record passes all filters that main registers.
Passes(rec) ==
  /\ flags.filenames # <<>> => ~IsFolder(rec) /\ GetFname(rec) \in Range(fileNamesToExport)
  /\ flags.path # <<>> => GetFullPath(rec) = flags.path[1]
  /\ flags.orphans => IsDeleted(rec) /\ ~HasParent(rec)
  /\ flags.deleted => IsDeleted(rec)

\* They are those of the options that are given.
LEMMA PassesAll ==
  ASSUME NEW rec
  PROVE  /\ (\A f \in RegisteredSet : Accepts(f, rec)) <=> Passes(rec)
         /\ (\E f \in RegisteredSet : f.kind = "extensions") <=> flags.extensions # <<>>
  <1>1. \A b, kind, args, f : f \in One(b, kind, args) <=> b /\ f = [kind |-> kind, args |-> args]
    BY DEF One
  <1>2. \A kind, args : /\ [kind |-> kind, args |-> args].kind = kind
                        /\ [kind |-> kind, args |-> args].args = args
    OBVIOUS
  <1>3. \A f : f \in RegisteredSet <=>
          \/ flags.filenames # <<>> /\ f = [kind |-> "folders", args |-> <<>>]
          \/ flags.filenames # <<>> /\ f = [kind |-> "names", args |-> fileNamesToExport]
          \/ flags.extensions # <<>> /\ f = [kind |-> "extensions", args |-> flags.extensions]
          \/ flags.path # <<>> /\ f = [kind |-> "path", args |-> flags.path]
          \/ flags.orphans /\ f = [kind |-> "orphans", args |-> <<>>]
          \/ flags.deleted /\ f = [kind |-> "deleted", args |-> <<>>]
    <2>1. \A f : f \in RegisteredSet <=>
            \/ f \in One(flags.filenames # <<>>, "folders", <<>>)
            \/ f \in One(flags.filenames # <<>>, "names", fileNamesToExport)
            \/ f \in One(flags.extensions # <<>>, "extensions", flags.extensions)
            \/ f \in One(flags.path # <<>>, "path", flags.path)
            \/ f \in One(flags.orphans, "orphans", <<>>)
            \/ f \in One(flags.deleted, "deleted", <<>>)
      BY Zenon DEF RegisteredSet
    <2>2. /\ \A f : f \in One(flags.filenames # <<>>, "folders", <<>>)
                   <=> flags.filenames # <<>> /\ f = [kind |-> "folders", args |-> <<>>]
          /\ \A f : f \in One(flags.filenames # <<>>, "names", fileNamesToExport)
                   <=> flags.filenames # <<>> /\ f = [kind |-> "names", args |-> fileNamesToExport]
          /\ \A f : f \in One(flags.extensions # <<>>, "extensions", flags.extensions)
                   <=> flags.extensions # <<>> /\ f = [kind |-> "extensions", args |-> flags.extensions]
      BY <1>1, Zenon
    <2>3. /\ \A f : f \in One(flags.path # <<>>, "path", flags.path)
                   <=> flags.path # <<>> /\ f = [kind |-> "path", args |-> flags.path]
          /\ \A f : f \in One(flags.orphans, "orphans", <<>>)
                   <=> flags.orphans /\ f = [kind |-> "orphans", args |-> <<>>]
          /\ \A f : f \in One(flags.deleted, "deleted", <<>>)
                   <=> flags.deleted /\ f = [kind |-> "deleted", args |-> <<>>]
      BY <1>1, Zenon
    <2> QED
      BY <2>1, <2>2, <2>3, Zenon
  <1>4. /\ \A args : Accepts([kind |-> "folders", args |-> args], rec) <=> ~IsFolder(rec)
        /\ \A args : Accepts([kind |-> "names", args |-> args], rec) <=> GetFname(rec) \in Range(args)
        /\ \A args : Accepts([kind |-> "extensions", args |-> args], rec)
        /\ \A args : Accepts([kind |-> "path", args |-> args], rec) <=> GetFullPath(rec) = args[1]
        /\ \A args : Accepts([kind |-> "orphans", args |-> args], rec) <=> IsDeleted(rec) /\ ~HasParent(rec)
        /\ \A args : Accepts([kind |-> "deleted", args |-> args], rec) <=> IsDeleted(rec)
    BY DEF Accepts
  <1>5. ASSUME \A f \in RegisteredSet : Accepts(f, rec)
        PROVE  Passes(rec)
    <2>1. flags.filenames # <<>> => ~IsFolder(rec)
      BY <1>3, <1>4, <1>5, Zenon
    <2>2. flags.filenames # <<>> => GetFname(rec) \in Range(fileNamesToExport)
      BY <1>3, <1>4, <1>5, Zenon
    <2>3. flags.path # <<>> => GetFullPath(rec) = flags.path[1]
      BY <1>3, <1>4, <1>5, Zenon
    <2>4. flags.orphans => IsDeleted(rec) /\ ~HasParent(rec)
      BY <1>3, <1>4, <1>5, Zenon
    <2>5. flags.deleted => IsDeleted(rec)
      BY <1>3, <1>4, <1>5, Zenon
    <2> QED
      BY <2>1, <2>2, <2>3, <2>4, <2>5, Zenon DEF Passes
  <1>6. ASSUME Passes(rec), NEW f \in RegisteredSet
        PROVE  Accepts(f, rec)
    <2>1. CASE flags.filenames # <<>> /\ f = [kind |-> "folders", args |-> <<>>]
      BY <1>4, <1>6, <2>1, Zenon DEF Passes
    <2>2. CASE flags.filenames # <<>> /\ f = [kind |-> "names", args |-> fileNamesToExport]
      BY <1>4, <1>6, <2>2, Zenon DEF Passes
    <2>3. CASE flags.extensions # <<>> /\ f = [kind |-> "extensions", args |-> flags.extensions]
      BY <1>4, <2>3, Zenon
    <2>4. CASE flags.path # <<>> /\ f = [kind |-> "path", args |-> flags.path]
      BY <1>4, <1>6, <2>4, Zenon DEF Passes
    <2>5. CASE flags.orphans /\ f = [kind |-> "orphans", args |-> <<>>]
      BY <1>4, <1>6, <2>5, Zenon DEF Passes
    <2>6. CASE flags.deleted /\ f = [kind |-> "deleted", args |-> <<>>]
      BY <1>4, <1>6, <2>6, Zenon DEF Passes
    <2> QED
      BY <1>3, <2>1, <2>2, <2>3, <2>4, <2>5, <2>6, Zenon
  <1>7. (\E f \in RegisteredSet : f.kind = "extensions") => flags.extensions # <<>>
    <2>1. SUFFICES ASSUME NEW f \in RegisteredSet, f.kind = "extensions" PROVE flags.extensions # <<>>
      OBVIOUS
    <2> QED
      BY <1>2, <1>3, <2>1
  <1>8. flags.extensions # <<>> => \E f \in RegisteredSet : f.kind = "extensions"
    BY <1>2, <1>3, Zenon
  <1> QED
    BY <1>5, <1>6, <1>7, <1>8

\* The extensions of a record are those of one of its names.
LEMMA MatchingBounds ==
  ASSUME job \in Jobs, NEW rec, NEW d, NamesOf(rec, d)
  PROVE  /\ Cardinality(AllEnd(d)) \in Nat /\ Cardinality(SomeEnd(d)) \in Nat
         /\ Cardinality(Matching(rec)) \in Nat
         /\ Cardinality(AllEnd(d)) <= Cardinality(Matching(rec))
         /\ Cardinality(Matching(rec)) <= Cardinality(SomeEnd(d))
  <1>1. PICK n \in Nat : DOMAIN flags.extensions = 1 .. n
    BY FlagsType, LenProperties
  <1>2. IsFiniteSet(1 .. n)
    BY FS_Interval
  <1>3. SomeEnd(d) \in SUBSET (1 .. n)
    BY <1>1 DEF SomeEnd
  <1>4. Matching(rec) \in SUBSET SomeEnd(d)
    BY ExtensionIsOne DEF Matching, SomeEnd
  <1>5. AllEnd(d) \in SUBSET Matching(rec)
    <2>1. ASSUME NEW k \in AllEnd(d)
          PROVE  k \in Matching(rec)
      <3>1. /\ k \in DOMAIN flags.extensions
            /\ \E f \in DiskNames(d) : TRUE
            /\ \A f \in DiskNames(d) : flags.extensions[k] \in f.exts
        BY DEF AllEnd, SomeEnd
      <3>2. HasFilenameExtension(rec, flags.extensions[k])
        BY <3>1, ExtensionIsOne
      <3> QED
        BY <3>1, <3>2 DEF Matching
    <2> QED
      BY <2>1
  <1>6. IsFiniteSet(SomeEnd(d))
    BY <1>2, <1>3, FS_Subset
  <1>7. IsFiniteSet(Matching(rec)) /\ Cardinality(Matching(rec)) <= Cardinality(SomeEnd(d))
    BY <1>4, <1>6, FS_Subset
  <1>8. IsFiniteSet(AllEnd(d)) /\ Cardinality(AllEnd(d)) <= Cardinality(Matching(rec))
    BY <1>5, <1>7, FS_Subset
  <1> QED
    BY <1>6, <1>7, <1>8, FS_CardinalityType

\* Of a record on disk: passing the filters lies between what is asked of all of its names
\* and what is asked of one of them.
LEMMA PassesAsAsked ==
  ASSUME job \in Jobs, NEW rec, NEW k \in 1 .. Len(disk), rec.number = k, NamesOf(rec, disk[k])
  PROVE  /\ Passes(rec) => Asked(disk[k]) /\ AskedNames(disk[k]) # {}
         /\ Asked(disk[k]) /\ AskedNames(disk[k]) = CalledBy(disk[k]) => Passes(rec)
  <1> DEFINE d == disk[k]
  <1>1. /\ IsFolder(rec) = d.folder /\ IsDeleted(rec) = ~d.used
        /\ HasParent(rec) = (~job.file /\ d.hasParent)
        /\ GetFullPath(rec) = IF job.file THEN NoPath ELSE d.path
    BY RecordIsDisk
  <1>2. GetFname(rec) \in CalledBy(d)
    BY NameIsOne
  <1>3. flags.path # <<>> => flags.path[1] # NoPath
    <2>1. flags.path \in Seq(Paths \ {NoPath})
      BY FlagsType
    <2> QED
      BY <2>1
  <1>4. job.file \in BOOLEAN
    BY JobType
  <1> HIDE DEF d
  <1>5. ASSUME Passes(rec)
        PROVE  Asked(d) /\ AskedNames(d) # {}
    <2>1. flags.path # <<>> => ~job.file /\ d.path = flags.path[1]
      BY <1>1, <1>3, <1>4, <1>5, Zenon DEF Passes
    <2>2. flags.orphans => ~d.used /\ (job.file \/ ~d.hasParent)
      BY <1>1, <1>4, <1>5, Zenon DEF Passes
    <2>3. flags.deleted => ~d.used
      BY <1>1, <1>5, Zenon DEF Passes
    <2>4. flags.filenames # <<>> => ~d.folder
      BY <1>1, <1>5, Zenon DEF Passes
    <2>5. GetFname(rec) \in AskedNames(d)
      <3>1. CASE flags.filenames = <<>>
        BY <1>2, <3>1, Zenon DEF AskedNames
      <3>2. CASE flags.filenames # <<>>
        <4>1. GetFname(rec) \in Range(fileNamesToExport)
          BY <1>5, <3>2, Zenon DEF Passes
        <4>2. AskedNames(d) = CalledBy(d) \cap Range(fileNamesToExport)
          BY <3>2, Zenon DEF AskedNames
        <4> QED
          BY <1>2, <4>1, <4>2
      <3> QED
        BY <3>1, <3>2
    <2>6. Asked(d)
      BY <2>1, <2>2, <2>3, <2>4, Zenon DEF Asked
    <2> QED
      BY <2>5, <2>6
  <1>6. ASSUME Asked(d), AskedNames(d) = CalledBy(d)
        PROVE  Passes(rec)
    <2>1. flags.path # <<>> => GetFullPath(rec) = flags.path[1]
      BY <1>1, <1>6, Zenon DEF Asked
    <2>2. flags.orphans => IsDeleted(rec) /\ ~HasParent(rec)
      BY <1>1, <1>6, Zenon DEF Asked
    <2>3. flags.deleted => IsDeleted(rec)
      BY <1>1, <1>6, Zenon DEF Asked
    <2>4. flags.filenames # <<>> => ~IsFolder(rec)
      BY <1>1, <1>6, Zenon DEF Asked
    <2>5. flags.filenames # <<>> => GetFname(rec) \in Range(fileNamesToExport)
      <3>1. SUFFICES ASSUME flags.filenames # <<>> PROVE GetFname(rec) \in Range(fileNamesToExport)
        OBVIOUS
      <3>2. AskedNames(d) = CalledBy(d) \cap Range(fileNamesToExport)
        BY <3>1, Zenon DEF AskedNames
      <3> QED
        BY <1>2, <1>6, <3>2
    <2> QED
      BY <2>1, <2>2, <2>3, <2>4, <2>5, Zenon DEF Passes
  <1> QED
    BY <1>5, <1>6 DEF d

\* The invariant implies that what was asked for is selected.
LEMMA SelectedIsAsked ==
  ASSUME PInv, Selected
  PROVE  SelectedAsAsked
  <1>1. SUFFICES ASSUME pc \in {"show", "done", "panic"}, ~Stopped,
                        NEW k \in DOMAIN disk, disk[k].signature = "FILE"
                 PROVE  AtLeast(disk[k]) <= Count(records, k) /\ Count(records, k) <= AtMost(disk[k])
    BY Zenon DEF SelectedAsAsked, Count, Places
  <1>2. job \in Jobs
    BY DEF PInv, Typed
  <1>3. k \in 1 .. Len(disk) /\ Len(disk) \in Nat
    <2>1. disk \in Seq(DiskRecord)
      BY <1>2, JobType DEF disk
    <2> QED
      BY <2>1, LenProperties
  <1>4. k \in 1 .. Len(Records)
    BY <1>1, <1>3 DEF PInv, Table, Parsing
  <1>5. PICK rec \in MemRecord : rec = Records[k]
    BY <1>4, ElementOfSeq DEF PInv, Typed
  <1>6. MadeOf(rec, disk[k], k, Len(disk[k].attrs))
    BY <1>1, <1>4, <1>5 DEF PInv, Table, IsEntry
  <1>7. rec.number = k /\ rec # Empty
    <2>1. rec.number = k /\ k # 0
      BY <1>3, <1>6 DEF MadeOf
    <2> QED
      BY <2>1 DEF Empty
  <1>8. PICK d \in DiskRecord : d = disk[k] /\ IsSound(d)
    BY <1>2, <1>3, JobType DEF disk
  <1>9. NamesOf(rec, d)
    BY <1>6, <1>8, NamesKept
  <1>10. Count(records, k) = Times(RegisteredSet, rec)
    <2>1. filters = <<>> /\ Counted(records, Done)
      BY <1>1 DEF Selected, Filtering
    <2>2. DOMAIN <<>> = {}
      OBVIOUS
    <2>3. Range(filters) = {}
      BY <2>1, <2>2 DEF Range
    <2>4. Done = RegisteredSet
      BY <1>2, <2>3, RegisteredOnce DEF Done, Lists
    <2> QED
      BY <1>4, <1>5, <1>7, <2>1, <2>4 DEF Counted
  <1>11. Count(records, k) = IF Passes(rec)
                             THEN IF flags.extensions # <<>> THEN Cardinality(Matching(rec)) ELSE 1
                             ELSE 0
    BY <1>10, PassesAll, Zenon DEF Times
  <1>12. /\ Passes(rec) => Asked(d) /\ AskedNames(d) # {}
         /\ Asked(d) /\ AskedNames(d) = CalledBy(d) => Passes(rec)
    BY <1>2, <1>3, <1>7, <1>8, <1>9, PassesAsAsked
  <1>13. PICK all, some, found \in Nat :
           /\ all = Cardinality(AllEnd(d)) /\ some = Cardinality(SomeEnd(d))
           /\ found = Cardinality(Matching(rec)) /\ all <= found /\ found <= some
    BY <1>2, <1>9, MatchingBounds
  <1>14. AtLeast(d) = IF ~Asked(d) \/ AskedNames(d) # CalledBy(d) THEN 0
                      ELSE IF flags.extensions = <<>> THEN 1 ELSE all
    BY <1>13, Zenon DEF AtLeast
  <1>15. AtMost(d) = IF ~Asked(d) \/ AskedNames(d) = {} THEN 0
                     ELSE IF flags.extensions = <<>> THEN 1 ELSE some
    BY <1>13, Zenon DEF AtMost
  <1>16. Count(records, k) = IF Passes(rec) THEN IF flags.extensions # <<>> THEN found ELSE 1 ELSE 0
    BY <1>11, <1>13, Zenon
  <1>17. AtLeast(d) <= Count(records, k)
    <2>1. CASE Passes(rec)
      <3>1. Count(records, k) = IF flags.extensions # <<>> THEN found ELSE 1
        BY <1>16, <2>1, Zenon
      <3> QED
        BY <1>13, <1>14, <3>1
    <2>2. CASE ~Passes(rec)
      <3>1. Count(records, k) = 0
        BY <1>16, <2>2, Zenon
      <3>2. AtLeast(d) = 0
        BY <1>12, <1>14, <2>2, Zenon
      <3> QED
        BY <3>1, <3>2
    <2> QED
      BY <2>1, <2>2
  <1>18. Count(records, k) <= AtMost(d)
    <2>1. CASE Passes(rec)
      <3>1. Count(records, k) = IF flags.extensions # <<>> THEN found ELSE 1
        BY <1>16, <2>1, Zenon
      <3>2. AtMost(d) = IF flags.extensions = <<>> THEN 1 ELSE some
        BY <1>12, <1>15, <2>1, Zenon
      <3> QED
        BY <1>13, <3>1, <3>2
    <2>2. CASE ~Passes(rec)
      <3>1. Count(records, k) = 0
        BY <1>16, <2>2, Zenon
      <3> QED
        BY <1>13, <1>15, <3>1
    <2> QED
      BY <2>1, <2>2
  <1> QED
    BY <1>8, <1>17, <1>18

-----------------------------------------------------------------------------
(* Show.                                                                   *)

\* A record of the table is one that was parsed, or the zero record.
LEMMA EntryOf ==
  ASSUME PInv, NEW rec \in Range(Records), rec # Empty
  PROVE  \E n \in 1 .. Len(disk) : /\ rec.number = n /\ rec \in MemRecord
                                   /\ disk[n] \in DiskRecord /\ IsSound(disk[n])
                                   /\ MadeOf(rec, disk[n], n, Len(disk[n].attrs))
  <1>1. Records \in Seq(MemRecord) /\ job \in Jobs
    BY DEF PInv, Typed
  <1>2. DOMAIN Records = 1 .. Len(Records) /\ Len(Records) \in Nat
    BY <1>1, LenProperties
  <1>3. PICK n \in 1 .. Len(Records) : rec = Records[n]
    BY <1>2 DEF Range
  <1>4. n \in 1 .. Len(disk)
    <2>1. Len(disk) \in Nat /\ r \in 1 .. Len(disk) + 1
      BY <1>1, JobType DEF PInv, Typed, disk
    <2>2. Len(Records) = r - 1 \/ Len(Records) = Len(disk)
      BY Zenon DEF PInv, Table
    <2> QED
      BY <2>1, <2>2
  <1>5. disk[n] \in DiskRecord /\ IsSound(disk[n]) /\ rec \in MemRecord
    BY <1>1, <1>3, <1>4, JobType, ElementOfSeq DEF disk
  <1>6. MadeOf(rec, disk[n], n, Len(disk[n].attrs))
    BY <1>3 DEF PInv, Table, IsEntry
  <1>7. rec.number = n
    BY <1>6 DEF MadeOf
  <1> QED
    BY <1>4, <1>5, <1>6, <1>7

\* GetPhysicalSize finds a FileName attribute, unless there is none on disk.
LEMMA SizeIsThere ==
  ASSUME PInv, NEW rec \in Range(Records), ~HasPhysicalSize(rec)
  PROVE  rec.number = 0 \/ DiskNames(disk[rec.number]) = {}
  <1>1. CASE rec = Empty
    BY <1>1 DEF Empty
  <1>2. CASE rec # Empty
    <2>1. PICK n \in 1 .. Len(disk) :
            /\ rec.number = n /\ rec \in MemRecord /\ disk[n] \in DiskRecord /\ IsSound(disk[n])
            /\ MadeOf(rec, disk[n], n, Len(disk[n].attrs))
      BY <1>2, EntryOf
    <2>2. NamesOf(rec, disk[n])
      BY <2>1, NamesKept
    <2> QED
      BY <2>1, <2>2 DEF NamesOf, HasPhysicalSize
  <1> QED
    BY <1>1, <1>2

\* GetRunLists finds the run list of every attribute but one at the end of the record.
LEMMA RunListIsThere ==
  ASSUME PInv, NEW rec \in Range(Records), ~HasRunLists(rec)
  PROVE  /\ rec.number # 0
         /\ \E k \in DOMAIN disk[rec.number].attrs :
              /\ disk[rec.number].attrs[k].nonResident
              /\ RecordSize - StartOf(disk[rec.number].attrs, k + 1) <= disk[rec.number].attrs[k].runOff
  <1>1. PICK i \in DOMAIN rec.attributes : ~rec.attributes[i].hasRunList /\ rec.attributes[i].nonResident
    BY DEF HasRunLists
  <1>2. rec # Empty
    <2>1. DOMAIN <<>> = {}
      OBVIOUS
    <2> QED
      BY <1>1, <2>1 DEF Empty
  <1>3. PICK n \in 1 .. Len(disk) :
          /\ rec.number = n /\ disk[n] \in DiskRecord /\ IsSound(disk[n])
          /\ MadeOf(rec, disk[n], n, Len(disk[n].attrs))
    BY <1>2, EntryOf
  <1>4. PICK j \in 1 .. Len(disk[n].attrs) : IsOf(rec.attributes[i], disk[n], j)
    BY <1>1, <1>3 DEF MadeOf
  <1>5. j \in DOMAIN disk[n].attrs
    BY <1>3, AttributesType
  <1>6. /\ disk[n].attrs[j].nonResident
        /\ RecordSize - StartOf(disk[n].attrs, j + 1) <= disk[n].attrs[j].runOff
    BY <1>1, <1>4 DEF IsOf
  <1>7. n # 0
    OBVIOUS
  <1> QED
    BY <1>3, <1>5, <1>6, <1>7

\* ShowRecord keeps the invariant, and what it panics over is said.
LEMMA ShowRecordStep ==
  ASSUME PInv, Selected, ShowRecord
  PROVE  PInv' /\ Selected' /\ ShownUnlessOddRecord' /\ ~Stopped'
  <1> DEFINE rec == records[shown + 1]
  <1>1. /\ pc = "show" /\ shown < Len(records)
        /\ UNCHANGED <<job, r, ReadPtr, restored, attrLen, entries, record, Records, filters, records>>
    BY DEF ShowRecord
  <1>2. filters = <<>> /\ records \in Seq(Range(Records)) /\ shown \in 0 .. Len(records)
    BY <1>1 DEF Selected, Filtering
  <1>3. PICK n \in Nat : n = Len(records) /\ shown \in 0 .. n /\ shown < n
    BY <1>1, <1>2, LenProperties
  <1>4. rec \in Range(Records)
    <2>1. shown + 1 \in 1 .. n
      BY <1>3
    <2> QED
      BY <1>2, <1>3, <2>1, ElementOfSeq
  <1> HIDE DEF rec
  <1>5. flags' = flags /\ disk' = disk
    BY <1>1, SameJob
  <1>6. CASE /\ IsAskedToShow("runlist") => HasRunLists(rec)
             /\ IsAskedToShow("filesize") => HasPhysicalSize(rec)
    <2>1. shown' = shown + 1 /\ pc' = pc
      BY <1>6 DEF ShowRecord, rec
    <2>2. shown' \in 0 .. Len(records)
      BY <1>3, <2>1
    <2>3. PInv' /\ Selected' /\ ~Stopped'
      BY <1>1, <1>2, <2>1, <2>2, SelectionStays DEF Filtering
    <2> QED
      BY <1>1, <2>1, <2>3 DEF ShownUnlessOddRecord
  <1>7. CASE ~(/\ IsAskedToShow("runlist") => HasRunLists(rec)
               /\ IsAskedToShow("filesize") => HasPhysicalSize(rec))
    <2>1. shown' = shown /\ pc' = "panic"
      BY <1>7 DEF ShowRecord, rec
    <2>2. PInv' /\ Selected' /\ ~Stopped'
      BY <1>1, <1>2, <2>1, SelectionStays DEF Filtering
    <2>3. \/ IsAskedToShow("runlist") /\ ~HasRunLists(rec)
          \/ IsAskedToShow("filesize") /\ ~HasPhysicalSize(rec)
      BY <1>7
    <2>4. \/ IsAskedToShow("filesize") /\ (rec.number = 0 \/ DiskNames(disk[rec.number]) = {})
          \/ /\ IsAskedToShow("runlist") /\ rec.number # 0
             /\ \E k \in DOMAIN disk[rec.number].attrs :
                  /\ disk[rec.number].attrs[k].nonResident
                  /\ RecordSize - StartOf(disk[rec.number].attrs, k + 1)
                       <= disk[rec.number].attrs[k].runOff
      BY <1>4, <2>3, SizeIsThere, RunListIsThere
    <2>5. ShownUnlessOddRecord'
      BY <1>1, <1>5, <2>1, <2>4 DEF ShownUnlessOddRecord, IsAskedToShow, rec
    <2> QED
      BY <2>2, <2>5
  <1> QED
    BY <1>6, <1>7

\* ShowTree keeps the invariant: of a tree only an empty one is panicked over.
LEMMA ShowTreeStep ==
  ASSUME PInv, Selected, ShowTree
  PROVE  PInv' /\ Selected' /\ ShownUnlessOddRecord' /\ ~Stopped'
  <1>1. /\ pc = "show" /\ shown = Len(records)
        /\ pc' = (IF "showtree" \in flags.show /\ ~HasRoot THEN "panic" ELSE "done")
        /\ UNCHANGED <<job, r, ReadPtr, restored, attrLen, entries, record, Records, filters, records, shown>>
    BY DEF ShowTree, filterVars
  <1>2. filters = <<>> /\ records \in Seq(Range(Records)) /\ shown \in 0 .. Len(records)
    BY <1>1 DEF Selected, Filtering
  <1>3. PInv' /\ Selected' /\ ~Stopped'
    <2>1. pc' \in Filtering /\ pc' # "filter"
      BY <1>1 DEF Filtering
    <2> QED
      BY <1>1, <1>2, <2>1, SelectionStays DEF Filtering
  <1>4. ASSUME pc' = "panic"
        PROVE  /\ "showtree" \in flags.show
               /\ flags.tree => \A k \in DOMAIN records : records[k].number <= 5
    <2>1. "showtree" \in flags.show /\ ~HasRoot
      BY <1>1, <1>4
    <2>2. ASSUME NEW k \in DOMAIN records
          PROVE  records[k].number \in Nat
      <3>1. k \in 1 .. Len(records)
        BY <1>2, LenProperties
      <3>2. records[k] \in Range(Records)
        BY <1>2, <3>1, ElementOfSeq
      <3>3. CASE records[k] = Empty
        BY <3>3 DEF Empty
      <3>4. CASE records[k] # Empty
        <4>1. Len(disk) \in Nat
          BY JobType DEF PInv, Typed, disk
        <4> QED
          BY <3>2, <3>4, <4>1, EntryOf
      <3> QED
        BY <3>3, <3>4
    <2>3. flags.tree => \A k \in DOMAIN records : ~(records[k].number > 5)
      BY <2>1, Zenon DEF HasRoot
    <2> QED
      BY <2>1, <2>2, <2>3
  <1>5. flags' = flags
    BY <1>1, SameJob
  <1>6. ~(shown < Len(records))
    BY <1>1, <1>2
  <1>7. ShownUnlessOddRecord'
    BY <1>1, <1>4, <1>5, <1>6 DEF ShownUnlessOddRecord
  <1> QED
    BY <1>3, <1>7

-----------------------------------------------------------------------------
(* The invariant of the specification.                                     *)

IInv == PInv /\ Selected /\ ShownUnlessOddRecord /\ ListsReadInTable

\* It holds in the beginning.
LEMMA Begins ==
  ASSUME Init
  PROVE  IInv
  <1>1. /\ job \in Jobs /\ pc = "record" /\ r = 1 /\ ReadPtr = 0 /\ restored = {} /\ attrLen = 0
        /\ entries = <<>> /\ record = Empty /\ Records = <<>>
        /\ filters = <<>> /\ records = <<>> /\ shown = 0
    BY DEF Init, ParserInit
  <1>2. Len(disk) \in Nat
    BY <1>1, JobType DEF disk
  <1>3. Typed
    <2>1. <<>> \in Seq(MemRecord)
      OBVIOUS
    <2>2. 0 \in 0 .. RecordSize - EndMarker
      BY DEF RecordSize, EndMarker
    <2>3. 0 \in Numbers16 /\ Empty \in MemRecord
      BY Small, BeginsEmpty
    <2>4. r \in 1 .. Len(disk) + 1
      BY <1>1, <1>2
    <2> QED
      BY <1>1, <2>1, <2>2, <2>3, <2>4 DEF Typed
  <1>4. Table
    <2>1. Len(<<>>) = 0
      OBVIOUS
    <2>2. 1 .. 0 = {} /\ 1 - 1 = 0
      OBVIOUS
    <2>3. Len(Records) = 0 /\ r - 1 = 0 /\ pc \in Parsing
      BY <1>1, <2>1, <2>2 DEF Parsing
    <2> QED
      BY <2>2, <2>3 DEF Table
  <1>5. Current
    BY <1>1 DEF Current
  <1>6. Lent
    <2>1. DOMAIN <<>> = {}
      OBVIOUS
    <2>2. record.attributes = <<>>
      BY <1>1, BeginsEmpty
    <2> QED
      BY <1>1, <2>1, <2>2 DEF Lent
  <1>7. Selected
    <2>1. pc \notin Filtering
      BY <1>1 DEF Filtering
    <2> QED
      BY <1>1, <2>1, NothingSelected
  <1>8. ShownUnlessOddRecord /\ ListsReadInTable
    BY <1>1 DEF ShownUnlessOddRecord, ListsReadInTable, Stopped
  <1> QED
    BY <1>3, <1>4, <1>5, <1>6, <1>7, <1>8 DEF IInv, PInv

\* A program that stands still keeps it.
LEMMA StandsStill ==
  ASSUME IInv, UNCHANGED vars
  PROVE  IInv'
  <1>1. UNCHANGED <<job, pc, r, ReadPtr, restored, attrLen, entries, record, Records, filters, records, shown>>
    BY DEF vars, parserVars, filterVars
  <1>2. flags' = flags /\ Registered' = Registered /\ disk' = disk
    BY <1>1, SameJob
  <1>3. Typed'
    BY <1>1, <1>2 DEF IInv, PInv, Typed
  <1>4. Table'
    BY <1>1, <1>2 DEF IInv, PInv, Table, Stopped
  <1>5. Current'
    <2>1. attrs' = attrs
      BY <1>1, <1>2 DEF attrs
    <2>2. ASSUME NEW i, At(i) PROVE At(i)'
      BY <1>1, <1>2, <2>1, <2>2 DEF At
    <2> QED
      BY <1>1, <1>2, <2>1, <2>2 DEF IInv, PInv, Current
  <1>6. Lent'
    BY <1>1 DEF IInv, PInv, Lent
  <1>7. Selected'
    <2>1. Done' = Done
      BY <1>1, <1>2 DEF Done
    <2>2. pc \in Filtering /\ ~Stopped => Counted(records, Done)'
      <3>1. SUFFICES ASSUME pc \in Filtering, ~Stopped PROVE Counted(records, Done)'
        OBVIOUS
      <3>2. Counted(records, Done)
        BY <3>1 DEF IInv, Selected
      <3> QED
        BY <1>1, <2>1, <3>2, SameCounted
    <2>3. Distinct(filters)'
      BY <1>1 DEF IInv, Selected, Distinct
    <2>4. Stopped' = Stopped
      BY <1>1, <1>2, Zenon DEF Stopped
    <2>5. Selected
      BY DEF IInv
    <2>6. /\ filters' \in Seq(Filter) /\ Range(filters)' \subseteq Range(Registered)'
          /\ records' \in Seq(Range(Records')) /\ shown' \in 0 .. Len(records')
      BY <1>1, <1>2, <2>5 DEF Selected
    <2>7. /\ pc' \notin Filtering \/ Stopped' => filters' = <<>> /\ records' = <<>> /\ shown' = 0
          /\ pc' = "filter" => shown' = 0
          /\ pc' \in Filtering \ {"filter"} => filters' = <<>>
          /\ pc' \in Filtering /\ ~Stopped' => pc \in Filtering /\ ~Stopped
      BY <1>1, <2>4, <2>5 DEF Selected
    <2> QED
      BY <2>2, <2>3, <2>6, <2>7, Zenon DEF Selected, Filtering
  <1>8. ShownUnlessOddRecord' /\ ListsReadInTable'
    <2>1. Stopped' = Stopped /\ attrs' = attrs /\ Here' = Here
      BY <1>1, <1>2, Zenon DEF Stopped, attrs, Here
    <2>2. ShownUnlessOddRecord'
      BY <1>1, <1>2, <2>1 DEF IInv, ShownUnlessOddRecord, IsAskedToShow
    <2>3. ListsReadInTable'
      <3>1. CASE Stopped
        <4>1. /\ r = Len(disk) /\ Here # 0 /\ IsList(attrs[Here])
              /\ RecordSize - StartOf(attrs, Here + 1) < 740
          BY <3>1, Zenon DEF IInv, ListsReadInTable
        <4> QED
          BY <1>1, <1>2, <2>1, <4>1, Zenon DEF ListsReadInTable, IsList
      <3>2. CASE ~Stopped
        BY <2>1, <3>2 DEF ListsReadInTable
      <3> QED
        BY <3>1, <3>2
    <2> QED
      BY <2>2, <2>3
  <1> QED
    BY <1>3, <1>4, <1>5, <1>6, <1>7, <1>8 DEF IInv, PInv

\* Every step keeps it.
LEMMA GoesOn ==
  ASSUME IInv, [Next]_vars
  PROVE  IInv'
  <1>1. CASE Process /\ UNCHANGED filterVars
    <2>1. PInv'
      BY <1>1, ProcessStep DEF IInv
    <2>2. pc \notin Filtering /\ (pc' \notin Filtering \/ SliceFails)
      BY <1>1 DEF Process, ProcessRecord, ProcessAttribute, ParseListEntry, LinkEntries, EndRecord,
                  EndTable, ProcessNoNResidentAttributes, SliceFails, Filtering
    <2>2a. /\ pc' \notin Filtering \/ Stopped'
           /\ ListsReadInTable'
      <3>1. CASE SliceFails
        BY <3>1, SliceStep DEF IInv
      <3>2. CASE pc' \notin Filtering
        BY <3>2 DEF ListsReadInTable, Stopped, Filtering
      <3> QED
        BY <2>2, <3>1, <3>2
    <2>3. filters' = <<>> /\ records' = <<>> /\ shown' = 0
      BY <1>1, <2>2 DEF IInv, Selected, filterVars
    <2>4. Selected'
      <3>1. DOMAIN <<>> = {}
        OBVIOUS
      <3>2. Len(<<>>) = 0
        OBVIOUS
      <3>3. Range(<<>>) = {} /\ Distinct(<<>>)
        BY <3>1 DEF Range, Distinct
      <3>4. <<>> \in Seq(Filter) /\ <<>> \in Seq(Range(Records'))
        OBVIOUS
      <3>5. Distinct(filters)'
        BY <2>3, <3>1 DEF Distinct
      <3>6. Range(filters)' \subseteq Range(Registered)'
        BY <2>3, <3>3
      <3>7. shown' \in 0 .. Len(records')
        BY <2>3, <3>2
      <3> QED
        BY <2>2a, <2>3, <3>4, <3>5, <3>6, <3>7 DEF Selected, Filtering
    <2>5. ShownUnlessOddRecord'
      BY <2>2a DEF ShownUnlessOddRecord, Filtering
    <2> QED
      BY <2>1, <2>2a, <2>4, <2>5 DEF IInv
  <1>2. CASE Register
    <2>1. pc' # "panic"
      BY <1>2 DEF Register
    <2> QED
      BY <1>2, <2>1, RegisterStep DEF IInv, ShownUnlessOddRecord, ListsReadInTable, Stopped
  <1>3. CASE ApplyFilter
    <2>1. pc' # "panic"
      BY <1>3 DEF ApplyFilter, parserVars
    <2> QED
      BY <1>3, <2>1, ApplyStep DEF IInv, ShownUnlessOddRecord, ListsReadInTable, Stopped
  <1>4. CASE Applied
    <2>1. /\ pc = "filter" /\ filters = <<>> /\ pc' = "show"
          /\ UNCHANGED <<job, r, ReadPtr, restored, attrLen, entries, record, Records, filters, records, shown>>
      BY <1>4 DEF Applied, filterVars
    <2>2. shown' \in 0 .. Len(records)
      BY <2>1 DEF IInv, Selected
    <2>3. PInv' /\ Selected'
      BY <2>1, <2>2, SelectionStays DEF IInv, Filtering
    <2> QED
      BY <2>1, <2>3 DEF IInv, ShownUnlessOddRecord, ListsReadInTable, Stopped
  <1>5. CASE ShowRecord
    BY <1>5, ShowRecordStep DEF IInv, ListsReadInTable
  <1>6. CASE ShowTree
    BY <1>6, ShowTreeStep DEF IInv, ListsReadInTable
  <1>7. CASE UNCHANGED vars
    BY <1>7, StandsStill
  <1> QED
    BY <1>1, <1>2, <1>3, <1>4, <1>5, <1>6, <1>7 DEF Next, ApplyFilters, Show, Ended

-----------------------------------------------------------------------------
(* Theorems.                                                               *)

\* The invariant implies the types.
LEMMA InvariantTyped ==
  ASSUME IInv
  PROVE  TypeOK
  <1>1. Typed /\ Table /\ Selected
    BY DEF IInv, PInv
  <1>2. entries \in Seq([ref: Numbers16, vcn: Numbers16])
    <2>1. <<>> \in Seq([ref: Numbers16, vcn: Numbers16])
      OBVIOUS
    <2> QED
      BY <1>1, <2>1 DEF Typed
  <1>3. Len(Records) <= Len(disk)
    <2>1. Len(disk) \in Nat /\ r \in 1 .. Len(disk) + 1
      BY <1>1, JobType DEF Typed, disk
    <2>2. Len(Records) = r - 1 \/ Len(Records) = Len(disk)
      BY <1>1, Zenon DEF Table
    <2> QED
      BY <2>1, <2>2
  <1>4. Range(records) \subseteq Range(Records)
    <2>1. records \in Seq(Range(Records))
      BY <1>1 DEF Selected
    <2>2. ASSUME NEW i \in DOMAIN records PROVE records[i] \in Range(Records)
      <3>1. i \in 1 .. Len(records)
        BY <2>1, LenProperties
      <3> QED
        BY <2>1, <3>1, ElementOfSeq
    <2>3. \A x \in Range(records) : \E i \in DOMAIN records : x = records[i]
      BY DEF Range
    <2> QED
      BY <2>2, <2>3
  <1> QED
    BY <1>1, <1>2, <1>3, <1>4 DEF Typed, Selected, TypeOK

\* The invariant holds: Process, ApplyFilters and Show keep it.
THEOREM InvariantHolds == Spec => []IInv
  <1>1. Init => IInv
    BY Begins
  <1>2. IInv /\ [Next]_vars => IInv'
    BY GoesOn
  <1> QED
    BY <1>1, <1>2, PTL DEF Spec

\* The variables of Process, of ApplyFilters and of Show keep their types, whatever the table
\* and the command line: the next attribute begins in front of the end of the record, the
\* bytes of the second sector end are never put back, and the filters keep records of the
\* table. It does not say what the parsers of an attribute read.
THEOREM TypeCorrect == Spec => []TypeOK
  <1>1. IInv => TypeOK
    BY InvariantTyped
  <1> QED
    BY <1>1, InvariantHolds, PTL

\* What is in memory of an attribute is what was stored: run lists of any length with
\* offsets of either sign and of at most four bytes, index roots of any size, and the bytes
\* at the sector ends; of the structs of Layouts just thirteen have fields that are filled
\* from bytes that are not theirs.
THEOREM AlwaysParsedAsStored == Spec => []ParsedAsStored
  <1>1. IInv => ParsedAsStored
    BY InMemoryAsStored DEF IInv
  <1> QED
    BY <1>1, InvariantHolds, PTL

\* ApplyFilters leaves what was asked for, for every combination of options and every table.
THEOREM AlwaysSelectedAsAsked == Spec => []SelectedAsAsked
  <1>1. IInv => SelectedAsAsked
    BY SelectedIsAsked DEF IInv
  <1> QED
    BY <1>1, InvariantHolds, PTL

\* Parse of attrlist.go: a name is read behind the table only from a list at the end of the
\* last record.
THEOREM AlwaysReadInTable == Spec => []ListsReadInTable
  <1>1. IInv => ListsReadInTable
    BY DEF IInv
  <1> QED
    BY <1>1, InvariantHolds, PTL

\* Show panics only over a record without a name or with a run list that was not read, for
\* its attribute ends as close to the end of the record as the run list is to the start of
\* the attribute, or over an empty tree.
THEOREM AlwaysShownUnlessOdd == Spec => []ShownUnlessOddRecord
  <1>1. IInv => ShownUnlessOddRecord
    BY DEF IInv
  <1> QED
    BY <1>1, InvariantHolds, PTL

=============================================================================
