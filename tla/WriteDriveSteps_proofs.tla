----------------------- MODULE WriteDriveSteps_proofs ------------------------
(***************************************************************************)
(* What each step of WriteDrive does, for drives, sectors, buffers and      *)
(* images of any size, and for any faults.                                  *)
(***************************************************************************)
EXTENDS WriteDrive, WellFoundedInduction, TLAPS

-----------------------------------------------------------------------------
(***************************************************************************)
(* Numbers                                                                 *)
(***************************************************************************)
\* A set of numbers that is not empty has a least one.
LEMMA LeastIsIn ==
    ASSUME NEW S \in SUBSET Nat, S # {}
    PROVE  Min(S) \in S /\ \A k \in S : Min(S) <= k
<1> DEFINE R == OpToRel(<, Nat)
<1>1. \E j \in S : \A k \in S : ~(<<k, j>> \in R)
  <2> HIDE DEF R
  <2>1. IsWellFoundedOn(R, Nat)
    BY NatLessThanWellFounded, Zenon DEF R
  <2> QED
    BY <2>1, WFMin, Zenon
<1>2. \A j, k \in Nat : <<k, j>> \in R <=> k < j
  BY Zenon DEF OpToRel
<1> HIDE DEF R
<1>3. PICK j \in S : \A k \in S : ~(<<k, j>> \in R)
  BY <1>1, Zenon
<1>4. \A k \in S : j \in Nat /\ k \in Nat /\ ~(k < j)
  BY <1>2, <1>3, Zenon
<1>5. \A k \in S : j <= k
  BY <1>4
<1> QED
  BY <1>5, Zenon DEF Min

\* One that is bounded has a greatest.
LEMMA GreatestIsIn ==
    ASSUME NEW S \in SUBSET Nat, S # {}, NEW n \in Nat, \A k \in S : k <= n
    PROVE  Max(S) \in S /\ \A k \in S : k <= Max(S)
<1> DEFINE T == {n - k : k \in S}
<1>1. T \in SUBSET Nat /\ T # {}
  <2>1. \A k \in S : n - k \in Nat /\ n - k \in T
    OBVIOUS
  <2>2. T # {}
    BY <2>1, Zenon
  <2> QED
    BY <2>1, <2>2, Zenon
<1>2. Min(T) \in T /\ \A k \in T : Min(T) <= k
  <2> HIDE DEF T
  <2> QED
    BY <1>1, LeastIsIn, Zenon
<1>3. PICK j \in S : Min(T) = n - j
  BY <1>2, Zenon
<1>4. \A k \in S : k <= j
  <2> SUFFICES ASSUME NEW k \in S PROVE k <= j
    OBVIOUS
  <2>1. n - k \in T
    OBVIOUS
  <2>2. n - j <= n - k
    BY <1>2, <1>3, <2>1, Zenon
  <2> QED
    BY <2>2
<1>5. \A k \in S : j >= k
  BY <1>4, Zenon
<1> QED
  BY <1>4, <1>5, Zenon DEF Max

\* Remainders
LEMMA Modulo ==
    ASSUME NEW m \in Nat \ {0}, NEW b \in Nat
    PROVE  b % m \in 0 .. m - 1 /\ (b < m => b % m = b)
OBVIOUS

\* A multiple of m between -m and m is 0.
LEMMA SmallFactor ==
    ASSUME NEW m \in Nat \ {0}, NEW d \in Int, -m < d * m, d * m < m
    PROVE  d = 0
<1>1. d >= 1 => d * m >= m
  OBVIOUS
<1>2. d <= -1 => d * m <= -m
  OBVIOUS
<1> QED
  BY <1>1, <1>2

\* Quotient and remainder of a multiple and a rest
LEMMA ModuloIs ==
    ASSUME NEW m \in Nat \ {0}, NEW q \in Int, NEW i \in 0 .. m - 1
    PROVE  (q * m + i) % m = i /\ (q * m + i) \div m = q
<1> DEFINE c == q * m + i
           p == c \div m
           r == c % m
<1>1. p \in Int /\ r \in 0 .. m - 1 /\ c = p * m + r
  <2>1. c \in Int
    OBVIOUS
  <2> HIDE DEF c
  <2> QED
    BY <2>1, SMTT(30)
<1> HIDE DEF p, r
<1>2. (q - p) * m = r - i /\ q - p \in Int
  BY <1>1, SMTT(30)
<1>3. q - p = 0
  <2> DEFINE d == q - p
  <2>1. d \in Int /\ d * m = r - i
    BY <1>2, Zenon
  <2> HIDE DEF d
  <2>2. d = 0
    BY <1>1, <2>1, SmallFactor
  <2> QED
    BY <2>2, Zenon DEF d
<1>4. r = i /\ p = q
  BY <1>1, <1>2, <1>3
<1> QED
  BY <1>4, Zenon DEF r, p

\* The steps of the thread and of others that have nothing to do with the check
OtherStep ==
    \/ BeginZero \/ BeginCompressed \/ BeginImage
    \/ ZeroBlock \/ CompareBlock \/ SwitchBuffers \/ ReadFault
    \/ WriteBlock \/ WriteFails \/ WriteCancelled \/ Finish
    \/ (\E n \in 1 .. buf_size : sector_write(n)) \/ BledFails \/ BledEnds
    \/ IoCompletes \/ UserCancels \/ UNCHANGED vars

\* WriteDrive itself leaves the check alone.
LEMMA OthersLeaveCheck ==
    ASSUME OtherStep PROVE UNCHANGED check
<1>1. CASE BeginZero \/ BeginCompressed \/ BeginImage
  BY <1>1, Zenon DEF BeginZero, BeginCompressed, BeginImage
<1>2. CASE ZeroBlock \/ CompareBlock \/ SwitchBuffers \/ ReadFault
  BY <1>2, Zenon DEF ZeroBlock, CompareBlock, SwitchBuffers, ReadFault
<1>3. CASE WriteBlock \/ WriteFails \/ WriteCancelled \/ Finish
  BY <1>3, Zenon DEF WriteBlock, WriteFails, WriteCancelled, Finish
<1>4. CASE (\E n \in 1 .. buf_size : sector_write(n)) \/ BledFails \/ BledEnds
  BY <1>4, Zenon DEF sector_write, BledFails, BledEnds
<1>5. CASE IoCompletes \/ UserCancels \/ UNCHANGED vars
  BY <1>5, Zenon DEF IoCompletes, UserCancels, vars, check
<1> QED
  BY <1>1, <1>2, <1>3, <1>4, <1>5, Zenon DEF OtherStep

\* A step is one of the check or one of WriteDrive.
LEMMA NextIs ==
    ASSUME [Next]_vars
    PROVE  CheckBegins \/ CheckTests \/ CheckEnds \/ CheckAlarm \/ OtherStep
BY Zenon DEF Next, Thread, Done, OtherStep

-----------------------------------------------------------------------------
(***************************************************************************)
(* Sectors                                                                 *)
(***************************************************************************)
LEMMA ElementOfSeq == ASSUME NEW S, NEW s \in Seq(S), NEW i \in 1 .. Len(s) PROVE s[i] \in S
OBVIOUS

\* What sector_write puts together: the leftover followed by the new bytes
LEMMA ConcatIs ==
    ASSUME NEW S, NEW r \in Seq(S), NEW s \in Seq(S)
    PROVE  /\ r \o s \in Seq(S) /\ Len(r \o s) = Len(r) + Len(s)
           /\ \A i \in 1 .. Len(r) + Len(s) : (r \o s)[i] = IF i <= Len(r) THEN r[i] ELSE s[i - Len(r)]
OBVIOUS

\* The bytes m to n of a buffer
LEMMA SubSeqProps ==
    ASSUME NEW S, NEW s, NEW m \in Int, NEW n \in Int, \A i \in m .. n : s[i] \in S
    PROVE  /\ SubSeq(s, m, n) \in Seq(S) /\ Len(SubSeq(s, m, n)) = IF m <= n THEN n - m + 1 ELSE 0
           /\ \A i \in 1 .. n - m + 1 : SubSeq(s, m, n)[i] = s[m + i - 1]
OBVIOUS

\* Sector, drive and buffer are not empty, and whole numbers of sectors.
LEMMA Sizes ==
    /\ SectorSize \in Nat \ {0} /\ DiskSize \in Nat \ {0} /\ buf_size \in Nat \ {0}
    /\ SectorSize \in Int /\ SectorSize > 0 /\ DiskSize % SectorSize = 0 /\ buf_size % SectorSize = 0
BY SizeAssumption

\* Quotient and remainder
LEMMA DivisionIs ==
    ASSUME NEW m \in Nat \ {0}, NEW n \in Nat
    PROVE  /\ n \div m \in Nat /\ n % m \in 0 .. m - 1 /\ n = (n \div m) * m + (n % m) /\ (n \div m) * m <= n
           /\ n % m = 0 => n = (n \div m) * m
<1> DEFINE q == n \div m
           r == n % m
<1>1. q \in Int /\ q >= 0 /\ r \in 0 .. m - 1 /\ n = q * m + r
  BY SMTT(30)
<1> HIDE DEF q, r
<1> DEFINE x == q * m
<1>2. x \in Int
  BY <1>1
<1>3. n = x + r
  BY <1>1, Zenon
<1> HIDE DEF x
<1>4. x <= n /\ (r = 0 => n = x)
  BY <1>1, <1>2, <1>3
<1> QED
  BY <1>1, <1>4 DEF q, r, x

\* A multiple has no remainder.
LEMMA MultipleIs ==
    ASSUME NEW m \in Nat \ {0}, NEW q \in Int
    PROVE  (q * m) % m = 0
<1> DEFINE x == q * m
<1>1. x \in Int /\ 0 \in 0 .. m - 1
  OBVIOUS
<1>2. (q * m + 0) % m = 0
  BY <1>1, ModuloIs, Zenon
<1>3. (x + 0) % m = 0
  BY <1>2, Zenon
<1> HIDE DEF x
<1>4. x + 0 = x
  BY <1>1
<1>5. x % m = 0
  BY <1>3, <1>4, Zenon
<1> QED
  BY <1>5, Zenon DEF x

\* A multiple not above another multiple and a rest is not above that multiple.
LEMMA MultiplesOrdered ==
    ASSUME NEW m \in Nat \ {0}, NEW p \in Int, NEW q \in Int, NEW i \in 0 .. m - 1, p * m <= q * m + i
    PROVE  p * m <= q * m
<1>1. p <= q
  <2>1. p > q => (p - q) * m >= m
    BY SMTT(30)
  <2>2. (p - q) * m = p * m - q * m
    BY SMTT(30)
  <2> QED
    BY <2>1, <2>2
<1>2. (q - p) * m >= 0 /\ (q - p) * m = q * m - p * m
  BY <1>1, SMTT(30)
<1> QED
  BY <1>2

\* CEILING_ALIGN rounds up to a sector, and not beyond any whole number of
\* sectors above.
LEMMA AlignIs ==
    ASSUME NEW n \in Nat
    PROVE  /\ CEILING_ALIGN(n) \in Nat /\ n <= CEILING_ALIGN(n) /\ CEILING_ALIGN(n) % SectorSize = 0
           /\ (n = 0 => CEILING_ALIGN(n) = 0)
           /\ \A m \in Nat : m % SectorSize = 0 /\ n <= m => CEILING_ALIGN(n) <= m
<1> DEFINE k == n + SectorSize - 1
           q == k \div SectorSize
           r == k % SectorSize
<1>1. k \in Nat /\ SectorSize \in Nat \ {0}
  BY Sizes
<1>2. q \in Nat /\ r \in 0 .. SectorSize - 1 /\ k = q * SectorSize + r
  <2> HIDE DEF k
  <2> QED
    BY <1>1, DivisionIs, Zenon
<1>3. CEILING_ALIGN(n) = q * SectorSize
  BY Zenon DEF CEILING_ALIGN
<1> HIDE DEF q, r
<1>4. CEILING_ALIGN(n) \in Nat /\ n <= CEILING_ALIGN(n) /\ CEILING_ALIGN(n) < n + SectorSize
  <2> DEFINE x == q * SectorSize
  <2>1. x \in Nat
    BY <1>1, <1>2
  <2> HIDE DEF x
  <2>2. k = x + r
    BY <1>2, Zenon DEF x
  <2> QED
    BY <1>1, <1>2, <1>3, <2>1, <2>2 DEF x
<1>5. CEILING_ALIGN(n) % SectorSize = 0
  <2>1. (q * SectorSize) % SectorSize = 0
    <3>1. q \in Int /\ SectorSize \in Nat \ {0}
      BY <1>1, <1>2
    <3> QED
      BY <3>1, MultipleIs, Zenon
  <2> QED
    BY <1>3, <2>1, Zenon
<1>6. ASSUME NEW m \in Nat, m % SectorSize = 0, n <= m
      PROVE  CEILING_ALIGN(n) <= m
  <2> DEFINE p == m \div SectorSize
  <2>1. p \in Nat /\ m = p * SectorSize
    BY <1>1, <1>6, DivisionIs, Zenon
  <2> HIDE DEF p
  <2>2. q * SectorSize <= p * SectorSize + (SectorSize - 1)
    <3>1. CEILING_ALIGN(n) <= m + (SectorSize - 1)
      BY <1>1, <1>4, <1>6
    <3>2. m = p * SectorSize
      BY <2>1, Zenon
    <3> QED
      BY <1>3, <3>1, <3>2, Zenon
  <2>3. q * SectorSize <= p * SectorSize
    <3>1. SectorSize - 1 \in 0 .. SectorSize - 1 /\ p \in Int /\ q \in Int
      BY <1>1, <1>2, <2>1
    <3> QED
      BY <1>1, <2>2, <3>1, MultiplesOrdered, Zenon
  <2> QED
    BY <1>3, <2>1, <2>3, Zenon
<1>7. n = 0 => CEILING_ALIGN(n) = 0
  BY <1>4, <1>5, <1>1, Modulo
<1> QED
  BY <1>4, <1>5, <1>6, <1>7, Zenon

\* Sums of whole sectors are whole sectors.
LEMMA SectorsAdd ==
    ASSUME NEW a \in Nat, NEW b \in Nat, a % SectorSize = 0, b % SectorSize = 0
    PROVE  (a + b) % SectorSize = 0
<1> DEFINE p == a \div SectorSize
           q == b \div SectorSize
<1>1. p \in Nat /\ q \in Nat /\ a = p * SectorSize /\ b = q * SectorSize /\ SectorSize \in Nat \ {0}
  BY Sizes, DivisionIs, Zenon
<1> HIDE DEF p, q
<1>2. ((p + q) * SectorSize) % SectorSize = 0
  <2>1. p + q \in Int
    BY <1>1
  <2> QED
    BY <1>1, <2>1, MultipleIs, Zenon
<1>3. a + b = (p + q) * SectorSize
  BY <1>1, SMTT(30)
<1> QED
  BY <1>2, <1>3, Zenon

\* Rounding up after whole sectors
LEMMA AlignAfter ==
    ASSUME NEW a \in Nat, NEW n \in Nat, NEW m \in Nat, a % SectorSize = 0, a + n <= m
    PROVE  a + CEILING_ALIGN(n) <= CEILING_ALIGN(m)
<1> DEFINE p == a \div SectorSize
           q == CEILING_ALIGN(m) \div SectorSize
           c == CEILING_ALIGN(m)
<1>1. c \in Nat /\ m <= c /\ c % SectorSize = 0 /\ SectorSize \in Nat \ {0}
  BY AlignIs, Sizes, Zenon
<1>2. p \in Nat /\ q \in Nat /\ a = p * SectorSize /\ c = q * SectorSize
  BY <1>1, DivisionIs, Zenon
<1> HIDE DEF p, q, c
<1>3. c - a \in Nat /\ n <= c - a
  BY <1>1
<1>4. (c - a) % SectorSize = 0
  <2>1. ((q - p) * SectorSize) % SectorSize = 0
    <3>1. q - p \in Int
      BY <1>1, <1>2
    <3> QED
      BY <1>1, <3>1, MultipleIs, Zenon
  <2>2. c - a = (q - p) * SectorSize
    BY <1>1, <1>2, SMTT(30)
  <2> QED
    BY <2>1, <2>2, Zenon
<1>5. CEILING_ALIGN(n) <= c - a /\ CEILING_ALIGN(n) \in Nat
  BY <1>3, <1>4, AlignIs, Zenon
<1> QED
  BY <1>1, <1>5 DEF c

\* A drive has a sector.
LEMMA DiskHasASector == SectorSize <= DiskSize
<1> DEFINE q == DiskSize \div SectorSize
<1>1. q \in Nat /\ DiskSize = q * SectorSize /\ SectorSize \in Nat \ {0} /\ DiskSize # 0
  BY Sizes, DivisionIs, Zenon
<1> HIDE DEF q
<1>2. q # 0
  BY <1>1
<1> QED
  BY <1>1, <1>2, SMTT(30)

\* What a failed write has written is the beginning of what it should.
LEMMA PrefixIs ==
    ASSUME NEW data \in Seq(Bytes), NEW p \in Prefixes(data)
    PROVE  p \in Seq(Bytes) /\ Len(p) <= Len(data) /\ \A k \in 1 .. Len(p) : p[k] = data[k]
<1>1. PICK n \in 0 .. Len(data) \div SectorSize : p = SubSeq(data, 1, n * SectorSize)
  BY Zenon DEF Prefixes
<1> DEFINE q == Len(data) \div SectorSize
           x == n * SectorSize
<1>2. Len(data) \in Nat /\ SectorSize \in Nat \ {0} /\ q \in Nat /\ q * SectorSize <= Len(data)
  BY Sizes, DivisionIs
<1> HIDE DEF q
<1>3. x \in Nat /\ x <= Len(data)
  <2>1. n \in Nat /\ n <= q
    BY <1>1, <1>2 DEF q
  <2>2. n * SectorSize <= q * SectorSize
    <3>1. (q - n) * SectorSize >= 0 /\ (q - n) * SectorSize = q * SectorSize - n * SectorSize
      BY <1>2, <2>1, SMTT(30)
    <3> QED
      BY <1>2, <2>1, <3>1
  <2> QED
    BY <1>2, <2>1, <2>2
<1> HIDE DEF x
<1>4. p = SubSeq(data, 1, x)
  BY <1>1, Zenon DEF x
<1>5. \A i \in 1 .. x : data[i] \in Bytes
  BY <1>2, <1>3, ElementOfSeq
<1>6. /\ p \in Seq(Bytes) /\ Len(p) = IF 1 <= x THEN x - 1 + 1 ELSE 0
      /\ \A i \in 1 .. x - 1 + 1 : p[i] = data[1 + i - 1]
  BY <1>3, <1>4, <1>5, SubSeqProps
<1> QED
  BY <1>2, <1>3, <1>6

-----------------------------------------------------------------------------
(***************************************************************************)
(* What a write leaves on the drive                                        *)
(***************************************************************************)
Threads == [pc : {"check", "start", "zero", "compare", "write", "copy", "unpack", "done"},
            wb : 0 .. DiskSize, i : 1 .. WRITE_RETRIES, throttle : 0 .. THROTTLE,
            read : 0 .. 1, proc : 0 .. 1, ret : BOOLEAN, rewound : BOOLEAN,
            out : {"-", "cancel", "compare", "reposition", "mount", "tail", "log"}]

Drives == [0 .. DiskSize - 1 -> Bytes]

Buffers == [0 .. 1 -> [1 .. buf_size -> Bytes]]

Reads == [st : {"none", "pending", "done", "failed"}, buf : 0 .. 1, want : 0 .. buf_size, off : Nat, n : 0 .. buf_size]

SectorBufs == [buf : [1 .. SectorSize -> Bytes], pos : 0 .. SectorSize - 1, fed : Nat]

Statuses == {"none", "cancelled", "memory", "open", "read", "write", "badblocks"}

Types ==
    /\ job \in Jobs /\ t \in Threads /\ read_size \in [0 .. 1 -> 0 .. buf_size] /\ buffer \in Buffers
    /\ drive \in Drives /\ pos \in 0 .. DiskSize /\ io \in Reads /\ sec \in SectorBufs /\ ErrorStatus \in Statuses

\* A write leaves bytes in every place of the drive.
LEMMA PutType ==
    ASSUME drive \in Drives, NEW p \in Nat, NEW data \in Seq(Bytes)
    PROVE  Put(p, data) \in Drives
<1> SUFFICES ASSUME NEW a \in 0 .. DiskSize - 1 PROVE Put(p, data)[a] \in Bytes
  BY Zenon DEF Put, Drives
<1> DEFINE w == {k \in p .. p + Len(data) - 1 : place(k) = a}
<1>1. Put(p, data)[a] = IF w = {} THEN drive[a] ELSE IF kind(a) = "rot" THEN JUNK ELSE data[Max(w) - p + 1]
  BY Zenon DEF Put
<1>2. drive[a] \in Bytes /\ JUNK \in Bytes /\ Len(data) \in Nat
  BY DEF Drives, Bytes
<1>3. CASE w # {}
  <2>1. w \in SUBSET Nat /\ p + Len(data) \in Nat /\ \A k \in w : k <= p + Len(data)
    BY <1>2
  <2>2. Max(w) \in w
    <3> HIDE DEF w
    <3> QED
      BY <1>3, <2>1, GreatestIsIn, Zenon
  <2>3. Max(w) - p + 1 \in 1 .. Len(data)
    <3>1. Max(w) \in p .. p + Len(data) - 1
      BY <2>2, Zenon
    <3> QED
      BY <1>2, <3>1
  <2>4. data[Max(w) - p + 1] \in Bytes
    BY <2>3, ElementOfSeq, Zenon
  <2> QED
    BY <1>1, <1>2, <2>4, Zenon
<1> QED
  BY <1>1, <1>2, <1>3, Zenon

\* A drive that is as it should be
Good == media.size = last_block /\ \A b \in Blocks : media.kind[b] = "good"

\* On a good drive a write changes the bytes it is made to, and no other.
LEMMA PutGood ==
    ASSUME Good, NEW p \in Nat, NEW data \in Seq(Bytes), NEW a \in 0 .. DiskSize - 1
    PROVE  Put(p, data)[a] = IF a \in p .. p + Len(data) - 1 THEN data[a - p + 1] ELSE drive[a]
<1> DEFINE w == {k \in p .. p + Len(data) - 1 : place(k) = a}
<1>1. Put(p, data)[a] = IF w = {} THEN drive[a] ELSE IF kind(a) = "rot" THEN JUNK ELSE data[Max(w) - p + 1]
  BY Zenon DEF Put
<1>2. \A k \in p .. p + Len(data) - 1 : place(k) = k
  BY Zenon DEF place, Good
<1>3. kind(a) # "rot"
  BY Zenon DEF kind, Good
<1>4. CASE a \in p .. p + Len(data) - 1
  <2>1. w = {a}
    BY <1>2, <1>4, Zenon
  <2>2. Max(w) = a
    <3>1. {a} \in SUBSET Nat /\ {a} # {} /\ a \in Nat /\ \A k \in {a} : k <= a
      BY Sizes
    <3>2. Max({a}) \in {a}
      BY <3>1, GreatestIsIn, Zenon
    <3> QED
      BY <2>1, <3>2, Zenon
  <2> QED
    BY <1>1, <1>3, <1>4, <2>1, <2>2, Zenon
<1>5. CASE a \notin p .. p + Len(data) - 1
  <2>1. w = {}
    BY <1>2, <1>5, Zenon
  <2> QED
    BY <1>1, <1>5, <2>1, Zenon
<1> QED
  BY <1>4, <1>5, Zenon

\* The block to be written
InUse == IF Zeroing THEN 0 ELSE t.proc

\* The block that is written is the buffer in use, up to its read_size.
LEMMA WrittenBlockIs ==
    ASSUME Types
    PROVE  /\ InUse \in 0 .. 1 /\ read_size[InUse] \in 0 .. buf_size
           /\ written \in Seq(Bytes) /\ Len(written) = read_size[InUse]
           /\ \A k \in 1 .. read_size[InUse] : written[k] = buffer[InUse][k]
<1>1. InUse \in 0 .. 1 /\ read_size[InUse] \in 0 .. buf_size
  BY DEF InUse, Types, Threads
<1>2. written = SubSeq(buffer[InUse], 1, read_size[InUse])
  BY Zenon DEF written, InUse
<1> DEFINE m == read_size[InUse]
           s == buffer[InUse]
<1>3. m \in Nat /\ m <= buf_size
  BY <1>1, Sizes
<1>4. s \in [1 .. buf_size -> Bytes]
  BY <1>1, Zenon DEF Types, Buffers
<1>5. written = SubSeq(s, 1, m)
  BY <1>2, Zenon
<1> HIDE DEF m, s
<1>6. \A i \in 1 .. m : s[i] \in Bytes
  BY <1>3, <1>4, Sizes
<1>7. /\ written \in Seq(Bytes) /\ Len(written) = IF 1 <= m THEN m - 1 + 1 ELSE 0
      /\ \A i \in 1 .. m - 1 + 1 : written[i] = s[1 + i - 1]
  BY <1>3, <1>5, <1>6, SubSeqProps
<1>8. Len(written) = m /\ \A i \in 1 .. m : written[i] = s[i]
  BY <1>3, <1>7
<1> QED
  BY <1>1, <1>7, <1>8, Zenon DEF m, s

-----------------------------------------------------------------------------
(***************************************************************************)
(* sector_write                                                            *)
(***************************************************************************)
LEMMA SubSeqIs ==
    ASSUME NEW s, NEW m \in Nat \ {0}, NEW n \in Nat, m <= n + 1, \A i \in m .. n : s[i] \in Bytes
    PROVE  /\ SubSeq(s, m, n) \in Seq(Bytes) /\ Len(SubSeq(s, m, n)) = n - m + 1
           /\ \A i \in 1 .. n - m + 1 : SubSeq(s, m, n)[i] = s[m + i - 1]
<1>1. /\ SubSeq(s, m, n) \in Seq(Bytes) /\ Len(SubSeq(s, m, n)) = IF m <= n THEN n - m + 1 ELSE 0
      /\ \A i \in 1 .. n - m + 1 : SubSeq(s, m, n)[i] = s[m + i - 1]
  BY SubSeqProps
<1> QED
  BY <1>1

\* What sector_write has kept are the last bytes that it was given.
InOrder == \A k \in 1 .. sec.pos : sec.buf[k] = sec.fed - sec.pos + k

\* A call writes and keeps the bytes that follow those written before, in
\* order, and keeps less than a sector.
LEMMA SectorWriteIs ==
    ASSUME sec \in SectorBufs, NEW n \in Nat
    PROVE  /\ ToWrite(n) \in Seq(Bytes) /\ Leftover(n) \in Seq(Bytes) /\ Filled(n) \in Seq(Bytes)
           /\ Len(Leftover(n)) \in 0 .. SectorSize - 1
           /\ Len(ToWrite(n)) + Len(Leftover(n)) = sec.pos + n
           /\ InOrder => /\ \A k \in 1 .. Len(ToWrite(n)) : ToWrite(n)[k] = sec.fed - sec.pos + k
                       /\ \A k \in 1 .. Len(Leftover(n)) : Leftover(n)[k] = sec.fed - sec.pos + Len(ToWrite(n)) + k
<1> DEFINE S == SectorSize
           p == sec.pos
           fed == sec.fed
           c == Chunk(n)
           f == FillSize(n)
           q == SectorsIn(n)
           x == q * S
           A == SubSeq(sec.buf, 1, p)
           B == SubSeq(c, 1, f)
           C == SubSeq(c, f + 1, f + x)
           L == SubSeq(c, f + x + 1, n)
<1>1. S \in Nat \ {0} /\ p \in Nat /\ p < S /\ fed \in Nat /\ sec.buf \in [1 .. S -> Bytes]
  BY Sizes DEF SectorBufs
<1>2. f \in Nat /\ f <= n /\ (p = 0 => f = 0) /\ p + f <= S /\ (p > 0 /\ p + f < S => f = n)
  BY <1>1 DEF FillSize, Min2
<1>3. \A i \in 1 .. n : c[i] = fed + i /\ c[i] \in Bytes
  BY <1>1 DEF Chunk, Bytes
<1>4. q \in Nat /\ x \in Nat /\ x <= n - f /\ n - f - x < S
  <2> DEFINE r == n - f
             e == r % S
  <2>1. r \in Nat /\ q = r \div S
    BY <1>2 DEF SectorsIn
  <2> HIDE DEF r, q, S, f
  <2>2. r \div S \in Nat /\ r % S \in 0 .. S - 1 /\ r = (r \div S) * S + (r % S)
    BY <1>1, <2>1, DivisionIs, Zenon
  <2>3. q \in Nat /\ e \in 0 .. S - 1 /\ r = x + e
    BY <2>1, <2>2, Zenon
  <2>4. x \in Nat
    BY <1>1, <2>3
  <2> HIDE DEF x, e
  <2> QED
    BY <1>1, <2>1, <2>3, <2>4 DEF r
<1>5. Filled(n) = A \o B
  BY Zenon DEF Filled
<1>6. /\ p > 0 /\ p + f < S => ToWrite(n) = <<>> /\ Leftover(n) = Filled(n)
      /\ ~(p > 0 /\ p + f < S) => ToWrite(n) = Filled(n) \o C /\ Leftover(n) = L
  BY Zenon DEF ToWrite, Leftover
<1>7. /\ A \in Seq(Bytes) /\ Len(A) = p /\ \A k \in 1 .. p : A[k] = sec.buf[k]
  <2> HIDE DEF p, S
  <2>1. \A i \in 1 .. p : sec.buf[i] \in Bytes
    BY <1>1
  <2>2. A \in Seq(Bytes) /\ Len(A) = p - 1 + 1 /\ \A i \in 1 .. p - 1 + 1 : A[i] = sec.buf[1 + i - 1]
    BY <1>1, <2>1, SubSeqIs
  <2> QED
    BY <1>1, <2>2
<1>8. B \in Seq(Bytes) /\ Len(B) = f /\ \A k \in 1 .. f : B[k] = fed + k
  <2> HIDE DEF p, S, f, c, fed
  <2>1. \A i \in 1 .. f : c[i] \in Bytes
    BY <1>2, <1>3
  <2>2. B \in Seq(Bytes) /\ Len(B) = f - 1 + 1 /\ \A i \in 1 .. f - 1 + 1 : B[i] = c[1 + i - 1]
    BY <1>2, <2>1, SubSeqIs
  <2> QED
    BY <1>2, <1>3, <2>2
<1>9. C \in Seq(Bytes) /\ Len(C) = x /\ \A k \in 1 .. x : C[k] = fed + f + k
  <2> HIDE DEF p, S, f, c, fed, x, q
  <2>1. \A i \in f + 1 .. f + x : c[i] \in Bytes
    BY <1>2, <1>3, <1>4
  <2> DEFINE g == f + 1
             h == f + x
  <2>2. g \in Nat \ {0} /\ h \in Nat /\ g <= h + 1 /\ h - g + 1 = x /\ h <= n
    BY <1>2, <1>4
  <2>3. C = SubSeq(c, g, h) /\ \A i \in g .. h : c[i] \in Bytes
    BY <2>1, Zenon
  <2>4. \A i \in 1 .. x : g + i - 1 = f + i /\ f + i \in 1 .. n
    BY <1>2, <1>4
  <2> HIDE DEF C, g, h
  <2>5. C \in Seq(Bytes) /\ Len(C) = h - g + 1 /\ \A i \in 1 .. h - g + 1 : C[i] = c[g + i - 1]
    BY <2>2, <2>3, SubSeqIs, Zenon
  <2>6. \A i \in 1 .. x : C[i] = c[f + i] /\ c[f + i] = fed + (f + i)
    BY <1>3, <2>2, <2>4, <2>5, Zenon
  <2> QED
    BY <1>1, <1>2, <1>4, <2>2, <2>5, <2>6
<1>10. L \in Seq(Bytes) /\ Len(L) = n - f - x /\ \A k \in 1 .. n - f - x : L[k] = fed + f + x + k
  <2> HIDE DEF p, S, f, c, fed, x, q
  <2>1. \A i \in f + x + 1 .. n : c[i] \in Bytes
    BY <1>2, <1>3, <1>4
  <2>2. f + x + 1 \in Nat \ {0} /\ f + x + 1 <= n + 1
    BY <1>2, <1>4
  <2>3. L \in Seq(Bytes) /\ Len(L) = n - (f + x + 1) + 1 /\ \A i \in 1 .. n - (f + x + 1) + 1 : L[i] = c[f + x + 1 + i - 1]
    BY <2>1, <2>2, SubSeqIs, Zenon
  <2> QED
    BY <1>1, <1>2, <1>3, <1>4, <2>3
<1> DEFINE F == Filled(n)
<1>11. F \in Seq(Bytes) /\ Len(F) = p + f /\ \A k \in 1 .. p + f : F[k] = IF k <= p THEN A[k] ELSE B[k - p]
  <2> HIDE DEF A, B, p, f
  <2>1. /\ A \o B \in Seq(Bytes) /\ Len(A \o B) = Len(A) + Len(B)
        /\ \A i \in 1 .. Len(A) + Len(B) : (A \o B)[i] = IF i <= Len(A) THEN A[i] ELSE B[i - Len(A)]
    BY <1>7, <1>8, ConcatIs, Zenon
  <2> QED
    BY <1>5, <1>7, <1>8, <2>1, Zenon
<1>12. ASSUME InOrder PROVE \A k \in 1 .. p + f : F[k] = fed - p + k
  <2> HIDE DEF F, A, B, f
  <2>1. \A k \in 1 .. p : A[k] = fed - p + k
    BY <1>7, <1>12, Zenon DEF InOrder
  <2> HIDE DEF p, fed, S
  <2> QED
    <3> SUFFICES ASSUME NEW k \in 1 .. p + f PROVE F[k] = fed - p + k
      OBVIOUS
    <3>1. CASE k <= p
      <4>1. k \in 1 .. p
        BY <1>1, <1>2, <3>1
      <4>2. F[k] = A[k]
        BY <1>11, <3>1, Zenon
      <4> QED
        BY <2>1, <4>1, <4>2, Zenon
    <3>2. CASE ~(k <= p)
      <4>1. k - p \in 1 .. f
        BY <1>1, <1>2, <3>2
      <4>2. F[k] = B[k - p] /\ B[k - p] = fed + (k - p)
        BY <1>8, <1>11, <3>2, <4>1, Zenon
      <4> QED
        BY <1>1, <1>2, <4>2
    <3> QED
      BY <3>1, <3>2, Zenon
<1>13. CASE p > 0 /\ p + f < S
  <2>1. ToWrite(n) = <<>> /\ Leftover(n) = F /\ <<>> \in Seq(Bytes) /\ Len(<<>>) = 0 /\ f = n
    BY <1>2, <1>6, <1>13
  <2> HIDE DEF F, f, p, fed, S
  <2>2. InOrder => \A k \in 1 .. Len(F) : F[k] = fed - p + 0 + k
    BY <1>1, <1>2, <1>11, <1>12
  <2>3. Len(F) \in 0 .. S - 1 /\ 0 + Len(F) = p + n
    BY <1>1, <1>2, <1>11, <1>13, <2>1
  <2> QED
    BY <1>11, <2>1, <2>2, <2>3 DEF F, p, fed, S
<1>14. CASE ~(p > 0 /\ p + f < S)
  <2> DEFINE W == F \o C
  <2>1. ToWrite(n) = W /\ Leftover(n) = L
    BY <1>6, <1>14, Zenon
  <2> HIDE DEF F, C, L, f, p, fed, S, x, q
  <2>2. W \in Seq(Bytes) /\ Len(W) = p + f + x
        /\ \A k \in 1 .. p + f + x : W[k] = IF k <= p + f THEN F[k] ELSE C[k - (p + f)]
    <3>1. /\ F \o C \in Seq(Bytes) /\ Len(F \o C) = Len(F) + Len(C)
          /\ \A i \in 1 .. Len(F) + Len(C) : (F \o C)[i] = IF i <= Len(F) THEN F[i] ELSE C[i - Len(F)]
      BY <1>9, <1>11, ConcatIs, Zenon
    <3> QED
      BY <1>9, <1>11, <3>1, Zenon
  <2> HIDE DEF W
  <2>3. Len(L) \in 0 .. S - 1 /\ Len(W) + Len(L) = p + n
    BY <1>1, <1>2, <1>4, <1>10, <2>2
  <2>4. ASSUME InOrder PROVE \A k \in 1 .. Len(W) : W[k] = fed - p + k
    <3> SUFFICES ASSUME NEW k \in 1 .. p + f + x PROVE W[k] = fed - p + k
      BY <2>2, Zenon
    <3>1. CASE k <= p + f
      <4>1. k \in 1 .. p + f
        BY <1>1, <1>2, <1>4, <3>1
      <4> QED
        BY <1>12, <2>2, <2>4, <3>1, <4>1, Zenon
    <3>2. CASE ~(k <= p + f)
      <4>1. k - (p + f) \in 1 .. x
        BY <1>1, <1>2, <1>4, <3>2
      <4>2. W[k] = C[k - (p + f)] /\ C[k - (p + f)] = fed + f + (k - (p + f))
        BY <1>9, <2>2, <3>2, <4>1, Zenon
      <4> QED
        BY <1>1, <1>2, <1>4, <4>2
    <3> QED
      BY <3>1, <3>2, Zenon
  <2>5. \A k \in 1 .. Len(L) : L[k] = fed - p + Len(W) + k
    <3> SUFFICES ASSUME NEW k \in 1 .. n - f - x PROVE fed + f + x + k = fed - p + (p + f + x) + k
      BY <1>10, <2>2, Zenon
    <3> QED
      BY <1>1, <1>2, <1>4
  <2> QED
    BY <1>10, <1>11, <2>1, <2>2, <2>3, <2>4, <2>5, Zenon DEF F, p, fed, S
<1> QED
  BY <1>13, <1>14, Zenon

-----------------------------------------------------------------------------
(***************************************************************************)
(* Where the thread is, and where the pointer of the drive                 *)
(***************************************************************************)
Loop == {"zero", "compare", "write", "copy"}

Raw == job.mode \in {"image", "vhd"}

\* Nothing was written or read yet.
Untouched ==
    /\ ~t.rewound /\ t.wb = 0 /\ t.read = 0 /\ t.proc = 1
    /\ io.off = 0 /\ io.st = "none" /\ sec.pos = 0 /\ sec.fed = 0
    /\ job.mode = "image" => \A k \in 0 .. DiskSize - 1 : drive[k] = OLD

\* The pointer is where the thread believes it is, or after it when the drive
\* could not be rewound.
Placed ==
    /\ t.pc \in {"zero", "compare"} => Zeroing
    /\ t.pc = "compare" => job.mode = "fast"
    /\ t.pc = "copy" => Raw
    /\ t.pc = "write" => Zeroing \/ Raw
    /\ t.pc = "unpack" => job.mode = "compressed"
    /\ t.pc \in {"check", "start"} => Untouched
    /\ t.pc \in Loop => t.wb <= pos /\ (t.rewound => pos = t.wb)

\* Fields that the end of the call leaves alone
SameCount(c, d) == c.wb = d.wb /\ c.read = d.read /\ c.proc = d.proc /\ c.rewound = d.rewound

\* An exit with an error status
LEMMA FailIs ==
    ASSUME t \in Threads, NEW status, Fail(status)
    PROVE  /\ t' \in Threads /\ t'.pc = "done" /\ SameCount(t', t) /\ t'.ret = t.ret /\ t'.out = t.out
           /\ ErrorStatus' = status
BY Zenon DEF Fail, Threads, SameCount

\* An exit by a bare goto out, which sets no status
LEMMA LeaveIs ==
    ASSUME t \in Threads, NEW why \in {"cancel", "compare", "reposition", "mount", "log"}, Leave(why)
    PROVE  /\ t' \in Threads /\ t'.pc = "done" /\ SameCount(t', t) /\ t'.ret = t.ret /\ t'.out = why
           /\ ErrorStatus' = ErrorStatus
BY Zenon DEF Leave, Threads, SameCount

\* The work begins.
LEMMA BeginIs ==
    ASSUME t \in Threads, NEW pc \in {"zero", "unpack", "copy"}, NEW r \in BOOLEAN,
           t' = [t EXCEPT !.pc = pc, !.rewound = r]
    PROVE  /\ t' \in Threads /\ t'.pc = pc /\ t'.rewound = r /\ t'.wb = t.wb /\ t'.read = t.read /\ t'.proc = t.proc
           /\ t'.ret = t.ret /\ t'.out = t.out
BY Zenon DEF Threads

\* An equation is TRUE or FALSE.
LEMMA BoolIs ==
    ASSUME NEW a, NEW b PROVE (a = b) \in BOOLEAN
OBVIOUS

Base == Types /\ Placed

\* Any step to the end, by itself
LEMMA EndKeepsPlaced ==
    ASSUME t'.pc = "done" PROVE Placed'
BY Zenon DEF Placed, Loop

\* What WriteDrive does before its loop when it zeroes the drive
LEMMA BeginZeroIs ==
    ASSUME Base, BeginZero
    PROVE  /\ Base' /\ t.pc = "start" /\ t'.wb = 0 /\ t'.ret = t.ret /\ t'.out = t.out
           /\ \/ t'.pc = "done" /\ ErrorStatus' # "none"
              \/ /\ t'.pc = "zero" /\ ErrorStatus' = ErrorStatus
                 /\ buffer' = [buffer EXCEPT ![0] = Fill(IF job.mode = "fast" THEN FF ELSE ZERO, buf_size)]
<1>1. Types /\ Placed /\ t \in Threads /\ Zeroing /\ t.pc = "start" /\ Untouched /\ pos' \in {0, pos} /\ pos \in 0 .. DiskSize
  BY Zenon DEF Base, BeginZero, Types, Placed, Rewind
<1>2. pos' \in 0 .. DiskSize
  BY <1>1, Sizes
<1>3. job' = job /\ drive' = drive /\ io' = io /\ sec' = sec
  BY Zenon DEF BeginZero, unpacker
<1>4. CASE Fail("memory") /\ UNCHANGED <<buffer, read_size>>
  <2>1. t' \in Threads /\ t'.pc = "done" /\ SameCount(t', t) /\ t'.ret = t.ret /\ t'.out = t.out /\ ErrorStatus' = "memory"
    BY <1>1, <1>4, FailIs, Zenon
  <2> QED
    BY <1>1, <1>2, <1>3, <1>4, <2>1, EndKeepsPlaced, Zenon DEF Base, Types, Statuses, SameCount, Untouched
<1>5. CASE /\ t' = [t EXCEPT !.pc = "zero", !.rewound = pos' = 0]
           /\ buffer' = [buffer EXCEPT ![0] = Fill(IF job.mode = "fast" THEN FF ELSE ZERO, buf_size)]
           /\ read_size' = [read_size EXCEPT ![0] = buf_size]
           /\ UNCHANGED ErrorStatus
  <2> DEFINE r == pos' = 0
  <2>1. r \in BOOLEAN /\ t' = [t EXCEPT !.pc = "zero", !.rewound = r]
    BY <1>5, BoolIs, Zenon
  <2>2. r <=> pos' = 0
    OBVIOUS
  <2> HIDE DEF r
  <2>3. /\ t' \in Threads /\ t'.pc = "zero" /\ t'.rewound = r /\ t'.wb = t.wb /\ t'.read = t.read /\ t'.proc = t.proc
        /\ t'.ret = t.ret /\ t'.out = t.out
    BY <1>1, <2>1, BeginIs, Zenon
  <2>4. Fill(IF job.mode = "fast" THEN FF ELSE ZERO, buf_size) \in [1 .. buf_size -> Bytes]
    BY Zenon DEF Fill, Bytes
  <2>5. buffer' \in Buffers
    BY <1>1, <1>5, <2>4, Zenon DEF Types, Buffers
  <2>6. read_size' \in [0 .. 1 -> 0 .. buf_size]
    BY <1>1, <1>5, Sizes DEF Types
  <2>7. Types'
    BY <1>1, <1>2, <1>3, <1>5, <2>3, <2>5, <2>6, Zenon DEF Types
  <2>8. Placed'
    BY <1>1, <1>2, <1>3, <2>2, <2>3 DEF Placed, Loop, Zeroing, Untouched
  <2> QED
    BY <1>1, <1>5, <2>3, <2>7, <2>8, Zenon DEF Base, Untouched
<1> QED
  BY <1>4, <1>5, Zenon DEF BeginZero

\* when it unpacks an image
LEMMA BeginCompressedIs ==
    ASSUME Base, BeginCompressed
    PROVE  /\ Base' /\ t.pc = "start" /\ Untouched /\ t'.wb = 0 /\ t'.ret = t.ret /\ t'.out = t.out
           /\ \/ t'.pc = "done" /\ ErrorStatus' # "none"
              \/ t'.pc = "unpack" /\ ErrorStatus' = ErrorStatus /\ (t'.rewound => pos' = 0)
<1>1. /\ Types /\ Placed /\ t \in Threads /\ job.mode = "compressed" /\ t.pc = "start" /\ Untouched /\ pos' \in {0, pos}
      /\ pos \in 0 .. DiskSize
  BY Zenon DEF Base, BeginCompressed, Types, Placed, Rewind
<1>2. pos' \in 0 .. DiskSize
  BY <1>1, Sizes
<1>3. job' = job /\ drive' = drive /\ io' = io /\ sec' = sec /\ buffer' = buffer /\ read_size' = read_size
  BY Zenon DEF BeginCompressed, unpacker, source
<1>4. ASSUME NEW status \in {"open", "memory"}, Fail(status)
      PROVE  Base' /\ t'.wb = 0 /\ t'.ret = t.ret /\ t'.out = t.out /\ t'.pc = "done" /\ ErrorStatus' # "none"
  <2>1. t' \in Threads /\ t'.pc = "done" /\ SameCount(t', t) /\ t'.ret = t.ret /\ t'.out = t.out /\ ErrorStatus' = status
    BY <1>1, <1>4, FailIs, Zenon
  <2> QED
    BY <1>1, <1>2, <1>3, <1>4, <2>1, EndKeepsPlaced, Zenon DEF Base, Types, Statuses, SameCount, Untouched
<1>5. CASE t' = [t EXCEPT !.pc = "unpack", !.rewound = pos' = 0] /\ UNCHANGED ErrorStatus
  <2> DEFINE r == pos' = 0
  <2>1. r \in BOOLEAN /\ t' = [t EXCEPT !.pc = "unpack", !.rewound = r]
    BY <1>5, BoolIs, Zenon
  <2>2. r <=> pos' = 0
    OBVIOUS
  <2> HIDE DEF r
  <2>3. /\ t' \in Threads /\ t'.pc = "unpack" /\ t'.rewound = r /\ t'.wb = t.wb /\ t'.read = t.read /\ t'.proc = t.proc
        /\ t'.ret = t.ret /\ t'.out = t.out
    BY <1>1, <2>1, BeginIs, Zenon
  <2>4. Types'
    BY <1>1, <1>2, <1>3, <1>5, <2>3, Zenon DEF Types
  <2>5. Placed'
    BY <1>1, <1>2, <1>3, <2>2, <2>3, Zenon DEF Placed, Loop
  <2> QED
    BY <1>1, <1>5, <2>2, <2>3, <2>4, <2>5, Zenon DEF Base, Untouched
<1> QED
  BY <1>1, <1>4, <1>5, Zenon DEF BeginCompressed

\* The target is what the mode says, and fits the unsigned 64-bit counters.
LEMMA TargetIs ==
    ASSUME job \in Jobs
    PROVE  /\ target_size \in Nat /\ target_size < U64 /\ job.file \in Nat /\ U64 \in Nat
           /\ Zeroing => target_size = DiskSize
           /\ job.mode = "vhd" => target_size = job.file
           /\ job.mode = "image" => target_size = Min2(DiskSize, job.image) /\ Min2(DiskSize, job.image) <= DiskSize
<1>1. job.mode \in Modes /\ job.image \in Nat /\ job.file \in Nat /\ job.image < U64 /\ job.file < U64 /\ U64 \in Nat
  BY JobsAssumption, WidthAssumption, Zenon
<1>2. DiskSize \in Nat /\ DiskSize < U64
  BY Sizes, WidthAssumption, Zenon
<1>3. Zeroing => target_size = DiskSize
  BY Zenon DEF target_size, Zeroing
<1>4. job.mode = "vhd" => target_size = job.file
  BY Zenon DEF target_size, Zeroing
<1>5. job.mode \in {"image", "compressed"} => target_size = Min2(DiskSize, job.image)
  BY Zenon DEF target_size, Zeroing
<1>6. Min2(DiskSize, job.image) \in Nat /\ Min2(DiskSize, job.image) < U64 /\ Min2(DiskSize, job.image) <= DiskSize
  BY <1>1, <1>2 DEF Min2
<1>7. Zeroing \/ job.mode = "vhd" \/ job.mode \in {"image", "compressed"}
  BY <1>1, Zenon DEF Modes, Zeroing
<1> QED
  BY <1>1, <1>2, <1>3, <1>4, <1>5, <1>6, <1>7, Zenon

\* A read is started.
LEMMA ReadStartIs ==
    ASSUME io \in Reads, NEW b \in 0 .. 1, NEW want \in 0 .. buf_size, ReadFileAsync(b, want)
    PROVE  io' \in Reads /\ io'.st = "pending" /\ io'.buf = b /\ io'.want = want /\ io'.off = io.off
BY Zenon DEF Reads, ReadFileAsync

\* and when it copies one: the first read is made into buffer 0.
LEMMA BeginImageIs ==
    ASSUME Base, BeginImage
    PROVE  /\ Base' /\ t.pc = "start" /\ Untouched /\ t'.wb = 0 /\ t'.ret = t.ret
           /\ \/ t'.pc = "done" /\ ErrorStatus' # "none"
              \/ t'.pc = "done" /\ t'.out = "mount"
              \/ /\ t'.pc = "copy" /\ t'.out = t.out /\ ErrorStatus' = ErrorStatus /\ t'.read = 0 /\ t'.proc = 1
                 /\ io'.st = "pending" /\ io'.buf = 0 /\ io'.off = 0 /\ io'.want = Min2(buf_size, target_size)
                 /\ read_size'[1] = 1
<1>1. /\ Types /\ Placed /\ t \in Threads /\ Raw /\ t.pc = "start" /\ Untouched /\ pos' \in {0, pos}
      /\ pos \in 0 .. DiskSize /\ io \in Reads /\ job \in Jobs
  BY Zenon DEF Base, BeginImage, Types, Placed, Rewind, Raw
<1>2. pos' \in 0 .. DiskSize
  BY <1>1, Sizes
<1>3. job' = job /\ drive' = drive /\ sec' = sec /\ buffer' = buffer
  BY Zenon DEF BeginImage, unpacker
<1>4. CASE Leave("mount") /\ UNCHANGED <<read_size, io>>
  <2>1. /\ t' \in Threads /\ t'.pc = "done" /\ SameCount(t', t) /\ t'.ret = t.ret /\ t'.out = "mount"
        /\ ErrorStatus' = ErrorStatus
    BY <1>1, <1>4, LeaveIs, Zenon
  <2> QED
    BY <1>1, <1>2, <1>3, <1>4, <2>1, EndKeepsPlaced, Zenon DEF Base, Types, SameCount, Untouched
<1>5. ASSUME NEW status \in {"open", "memory"}, Fail(status), UNCHANGED <<read_size, io>>
      PROVE  Base' /\ t'.wb = 0 /\ t'.ret = t.ret /\ t'.pc = "done" /\ ErrorStatus' # "none"
  <2>1. t' \in Threads /\ t'.pc = "done" /\ SameCount(t', t) /\ t'.ret = t.ret /\ t'.out = t.out /\ ErrorStatus' = status
    BY <1>1, <1>5, FailIs, Zenon
  <2> QED
    BY <1>1, <1>2, <1>3, <1>5, <2>1, EndKeepsPlaced, Zenon DEF Base, Types, Statuses, SameCount, Untouched
<1>6. CASE /\ ReadFileAsync(t.read, Min2(buf_size, target_size))
           /\ read_size' = [read_size EXCEPT ![t.proc] = 1]
           /\ t' = [t EXCEPT !.pc = "copy", !.rewound = pos' = 0]
           /\ UNCHANGED ErrorStatus
  <2> DEFINE r == pos' = 0
  <2>1. r \in BOOLEAN /\ t' = [t EXCEPT !.pc = "copy", !.rewound = r]
    BY <1>6, BoolIs, Zenon
  <2>2. r <=> pos' = 0
    OBVIOUS
  <2> HIDE DEF r
  <2>3. /\ t' \in Threads /\ t'.pc = "copy" /\ t'.rewound = r /\ t'.wb = t.wb /\ t'.read = t.read /\ t'.proc = t.proc
        /\ t'.ret = t.ret /\ t'.out = t.out
    BY <1>1, <2>1, BeginIs, Zenon
  <2>4. t.read = 0 /\ t.proc = 1 /\ t.wb = 0 /\ io.off = 0
    BY <1>1, Zenon DEF Untouched
  <2>5. Min2(buf_size, target_size) \in 0 .. buf_size
    BY <1>1, TargetIs, Sizes DEF Min2
  <2>6. io' \in Reads /\ io'.st = "pending" /\ io'.buf = 0 /\ io'.want = Min2(buf_size, target_size) /\ io'.off = 0
    BY <1>1, <1>6, <2>4, <2>5, ReadStartIs
  <2>7. read_size' \in [0 .. 1 -> 0 .. buf_size] /\ read_size'[1] = 1
    BY <1>1, <1>6, <2>4, Sizes DEF Types
  <2>8. Types'
    BY <1>1, <1>2, <1>3, <1>6, <2>3, <2>6, <2>7, Zenon DEF Types
  <2>9. Placed'
    BY <1>1, <1>2, <1>3, <2>2, <2>3, <2>4 DEF Placed, Loop, Raw
  <2> QED
    BY <1>1, <1>6, <2>3, <2>4, <2>6, <2>7, <2>8, <2>9, Zenon DEF Base
<1> QED
  BY <1>1, <1>4, <1>5, <1>6, Zenon DEF BeginImage

\* The loop over a drive to be zeroed takes the next block.
LEMMA ZeroBlockIs ==
    ASSUME Base, ZeroBlock
    PROVE  /\ Base' /\ t.pc = "zero" /\ t'.pc \in {"compare", "write"} /\ SameCount(t', t) /\ t'.ret = t.ret /\ t'.out = t.out
           /\ t'.pc = "compare" => job.mode = "fast"
<1>1. /\ Types /\ Placed /\ t \in Threads /\ t.pc = "zero" /\ Zeroing /\ t.wb < target_size /\ job \in Jobs
      /\ read_size \in [0 .. 1 -> 0 .. buf_size] /\ t.wb \in 0 .. DiskSize /\ t.throttle \in 0 .. THROTTLE
      /\ THROTTLE \in Nat /\ WRITE_RETRIES \in Nat \ {0}
  BY RetryAssumption, Zenon DEF Base, ZeroBlock, Types, Placed, Threads
<1>2. /\ job' = job /\ drive' = drive /\ io' = io /\ sec' = sec /\ buffer' = buffer /\ pos' = pos /\ ErrorStatus' = ErrorStatus
      /\ read_size' = [read_size EXCEPT ![0] = CEILING_ALIGN(Min2(read_size[0], target_size - t.wb))]
  BY <1>1, Zenon DEF ZeroBlock, unpacker, source
<1> DEFINE p == IF t.throttle = 0 /\ job.mode = "fast" THEN "compare" ELSE "write"
           th == IF t.throttle > 0 THEN t.throttle - 1 ELSE 0
           m == Min2(read_size[0], target_size - t.wb)
<1>3. p \in {"compare", "write"} /\ th \in 0 .. THROTTLE /\ 1 \in 1 .. WRITE_RETRIES /\ (p = "compare" => job.mode = "fast")
  BY <1>1
<1>4. t' = [t EXCEPT !.pc = p, !.i = 1, !.throttle = th]
  BY <1>1, Zenon DEF ZeroBlock
<1>5. m \in Nat /\ m <= buf_size
  BY <1>1, TargetIs, Sizes DEF Min2
<1>6. CEILING_ALIGN(m) \in 0 .. buf_size
  <2>1. CEILING_ALIGN(m) \in Nat /\ \A x \in Nat : x % SectorSize = 0 /\ m <= x => CEILING_ALIGN(m) <= x
    <3> HIDE DEF m
    <3> QED
      BY <1>5, AlignIs, Zenon
  <2> QED
    BY <1>5, <2>1, Sizes
<1>7. read_size' \in [0 .. 1 -> 0 .. buf_size]
  BY <1>1, <1>2, <1>6, Zenon
<1> HIDE DEF p, th
<1>8. t' \in Threads /\ t'.pc = p /\ SameCount(t', t) /\ t'.ret = t.ret /\ t'.out = t.out
  <2> DEFINE c == [t EXCEPT !.pc = p]
             d == [c EXCEPT !.i = 1]
  <2>1. c \in Threads /\ c.pc = p /\ SameCount(c, t) /\ c.ret = t.ret /\ c.out = t.out
    BY <1>1, <1>3, Zenon DEF Threads, SameCount
  <2>2. t' = [d EXCEPT !.throttle = th]
    BY <1>4, Zenon DEF Threads
  <2> HIDE DEF c
  <2>3. d \in Threads /\ d.pc = c.pc /\ SameCount(d, c) /\ d.ret = c.ret /\ d.out = c.out
    BY <1>3, <2>1, Zenon DEF Threads, SameCount
  <2> HIDE DEF d
  <2>4. t' \in Threads /\ t'.pc = d.pc /\ SameCount(t', d) /\ t'.ret = d.ret /\ t'.out = d.out
    BY <1>3, <2>2, <2>3, Zenon DEF Threads, SameCount
  <2> QED
    BY <2>1, <2>3, <2>4, Zenon DEF SameCount
<1>9. Types'
  BY <1>1, <1>2, <1>7, <1>8, Zenon DEF Types
<1>10. Placed'
  BY <1>1, <1>2, <1>3, <1>8, Zenon DEF Placed, Loop, Zeroing, SameCount
<1> QED
  BY <1>1, <1>3, <1>8, <1>9, <1>10, Zenon DEF Base

\* Fast zeroing looks at the block first and passes over it if it is empty.
LEMMA CompareBlockIs ==
    ASSUME Base, CompareBlock
    PROVE  /\ Base' /\ t.pc = "compare" /\ t'.ret = t.ret
           /\ \/ t'.pc = "done" /\ SameCount(t', t) /\ (t'.out \in {"compare", "reposition"} \/ ErrorStatus' # "none")
              \/ /\ t'.pc = "zero" /\ t'.wb = t.wb + read_size[0] /\ Empty(Block(pos)) /\ t'.rewound = t.rewound
                 /\ pos + read_size[0] <= DiskSize /\ t'.out = t.out /\ ErrorStatus' = ErrorStatus
              \/ t'.pc = "write" /\ SameCount(t', t) /\ t'.out = t.out /\ ErrorStatus' = ErrorStatus
<1>1. /\ Types /\ Placed /\ t \in Threads /\ t.pc = "compare" /\ Zeroing /\ t.wb <= pos /\ (t.rewound => pos = t.wb)
      /\ read_size[0] \in 0 .. buf_size /\ t.wb \in 0 .. DiskSize /\ pos \in 0 .. DiskSize
      /\ THROTTLE \in Nat
  BY RetryAssumption DEF Base, CompareBlock, Types, Placed, Threads, Loop
<1>2. job' = job /\ drive' = drive /\ io' = io /\ sec' = sec /\ buffer' = buffer /\ read_size' = read_size
  BY Zenon DEF CompareBlock, unpacker, source
<1>3. ASSUME NEW why \in {"cancel", "compare", "reposition"}, Leave(why), why = "cancel" => ErrorStatus = "cancelled",
             pos' \in 0 .. DiskSize
      PROVE  /\ Base' /\ t'.ret = t.ret /\ t'.pc = "done" /\ SameCount(t', t)
             /\ t'.out \in {"compare", "reposition"} \/ ErrorStatus' # "none"
  <2>1. t' \in Threads /\ t'.pc = "done" /\ SameCount(t', t) /\ t'.ret = t.ret /\ t'.out = why /\ ErrorStatus' = ErrorStatus
    BY <1>1, <1>3, LeaveIs, Zenon
  <2>2. Types'
    BY <1>1, <1>2, <1>3, <2>1, Zenon DEF Types
  <2> QED
    BY <1>3, <2>1, <2>2, EndKeepsPlaced, Zenon DEF Base
<1>4. CASE CHECK_FOR_USER_CANCEL /\ Leave("cancel") /\ UNCHANGED pos
  BY <1>1, <1>3, <1>4, Zenon DEF CHECK_FOR_USER_CANCEL
<1>5. CASE Leave("compare") /\ UNCHANGED pos
  BY <1>1, <1>3, <1>5, Zenon
<1>6. ASSUME pos + read_size[0] <= DiskSize, Empty(Block(pos)), UNCHANGED ErrorStatus,
             t' = [t EXCEPT !.pc = "zero", !.wb = @ + read_size[0]], pos' = pos + read_size[0]
      PROVE  /\ Base' /\ t'.ret = t.ret /\ t'.pc = "zero" /\ t'.wb = t.wb + read_size[0] /\ t'.rewound = t.rewound
             /\ t'.out = t.out
  <2> DEFINE w == t.wb + read_size[0]
  <2>1. w \in 0 .. DiskSize /\ pos' \in 0 .. DiskSize /\ w <= pos' /\ (t.rewound => pos' = w)
    BY <1>1, <1>6, Sizes
  <2>2. t' = [t EXCEPT !.pc = "zero", !.wb = w]
    BY <1>1, <1>6, Zenon DEF Threads
  <2> HIDE DEF w
  <2>3. t' \in Threads /\ t'.pc = "zero" /\ t'.wb = w /\ t'.rewound = t.rewound /\ t'.ret = t.ret /\ t'.out = t.out
    BY <1>1, <2>1, <2>2, Zenon DEF Threads
  <2>4. Types'
    BY <1>1, <1>2, <1>6, <2>1, <2>3, Zenon DEF Types
  <2>5. Placed'
    BY <1>1, <1>2, <2>1, <2>3, Zenon DEF Placed, Loop, Zeroing
  <2> QED
    BY <2>3, <2>4, <2>5, Zenon DEF Base, w
<1>7. ASSUME t' = [t EXCEPT !.pc = "write", !.throttle = THROTTLE], pos' = t.wb, UNCHANGED ErrorStatus
      PROVE  Base' /\ t'.ret = t.ret /\ t'.pc = "write" /\ SameCount(t', t) /\ t'.out = t.out
  <2> DEFINE c == [t EXCEPT !.pc = "write"]
  <2>a. c \in Threads /\ c.pc = "write" /\ SameCount(c, t) /\ c.ret = t.ret /\ c.out = t.out
    BY <1>1, Zenon DEF Threads, SameCount
  <2>b. t' = [c EXCEPT !.throttle = THROTTLE] /\ THROTTLE \in 0 .. THROTTLE
    BY <1>1, <1>7 DEF Threads
  <2> HIDE DEF c
  <2>c. t' \in Threads /\ t'.pc = c.pc /\ SameCount(t', c) /\ t'.ret = c.ret /\ t'.out = c.out
    BY <2>a, <2>b, Zenon DEF Threads, SameCount
  <2>1. t' \in Threads /\ t'.pc = "write" /\ SameCount(t', t) /\ t'.ret = t.ret /\ t'.out = t.out
    BY <2>a, <2>c, Zenon DEF SameCount
  <2>2. Types'
    BY <1>1, <1>2, <1>7, <2>1, Zenon DEF Types
  <2>3. Placed'
    BY <1>1, <1>2, <1>7, <2>1 DEF Placed, Loop, Zeroing, SameCount
  <2> QED
    BY <2>1, <2>2, <2>3, Zenon DEF Base
<1>8. CASE pos + read_size[0] <= DiskSize /\ Leave("reposition") /\ pos' = pos + read_size[0]
  <2>1. pos' \in 0 .. DiskSize
    BY <1>1, <1>8, Sizes
  <2> QED
    BY <1>1, <1>3, <1>8, <2>1, Zenon
<1>9. CASE /\ pos + read_size[0] <= DiskSize
           /\ IF Empty(Block(pos))
              THEN /\ t' = [t EXCEPT !.pc = "zero", !.wb = @ + read_size[0]]
                   /\ pos' = pos + read_size[0] /\ UNCHANGED ErrorStatus
              ELSE \/ /\ t' = [t EXCEPT !.pc = "write", !.throttle = THROTTLE]
                      /\ pos' = t.wb /\ UNCHANGED ErrorStatus
                   \/ Leave("reposition") /\ pos' = pos + read_size[0]
  <2>1. CASE Empty(Block(pos))
    BY <1>1, <1>6, <1>9, <2>1, Zenon
  <2>2. CASE ~Empty(Block(pos))
    BY <1>1, <1>7, <1>8, <1>9, <2>2, Zenon
  <2> QED
    BY <2>1, <2>2, Zenon
<1> QED
  BY <1>4, <1>5, <1>9, Zenon DEF CompareBlock

\* The asynchronous read ends: what follows in the image is in the buffer it
\* was made into, and the other is as it was.
LEMMA IoCompletesIs ==
    ASSUME Base, IoCompletes
    PROVE  /\ Base' /\ io.st = "pending" /\ io'.buf = io.buf /\ io'.want = io.want
           /\ LET n == IF io.off >= job.file THEN 0 ELSE Min2(io.want, job.file - io.off)
              IN  \/ /\ io'.st = "done" /\ io'.n = n /\ io'.off = io.off + n /\ n \in 0 .. buf_size
                     /\ \A b \in 0 .. 1 : b # io.buf => buffer'[b] = buffer[b]
                     /\ \A k \in 1 .. n : buffer'[io.buf][k] = io.off + k
                  \/ io'.st = "failed" /\ io'.off = io.off /\ buffer' = buffer
<1>1. Types /\ Placed /\ io \in Reads /\ io.st = "pending" /\ job \in Jobs /\ buffer \in Buffers
  BY Zenon DEF Base, Types, IoCompletes
<1>2. job.file \in Nat /\ buf_size \in Nat
  BY <1>1, TargetIs, Sizes, Zenon
<1>3. /\ job' = job /\ t' = t /\ read_size' = read_size /\ drive' = drive /\ pos' = pos /\ sec' = sec
      /\ ErrorStatus' = ErrorStatus
  BY Zenon DEF IoCompletes, unpacker
<1>4. t.pc \notin {"check", "start"}
  BY <1>1, Zenon DEF Placed, Untouched
<1>5. Placed'
  BY <1>1, <1>3, <1>4, Zenon DEF Placed, Zeroing, Raw
<1> DEFINE n == IF io.off >= job.file THEN 0 ELSE Min2(io.want, job.file - io.off)
<1>6. n \in 0 .. buf_size /\ io.off + n \in Nat /\ n \in Nat /\ io.off \in Nat
  BY <1>1, <1>2 DEF Min2, Reads
<1>7. \/ /\ io' = [io EXCEPT !.st = "done", !.n = n, !.off = @ + n]
         /\ buffer' = [buffer EXCEPT ![io.buf] = [k \in 1 .. buf_size |-> IF k <= n THEN io.off + k ELSE @[k]]]
      \/ io' = [io EXCEPT !.st = "failed"] /\ UNCHANGED buffer
  BY Zenon DEF IoCompletes
<1> HIDE DEF n
<1>8. CASE /\ io' = [io EXCEPT !.st = "done", !.n = n, !.off = @ + n]
           /\ buffer' = [buffer EXCEPT ![io.buf] = [k \in 1 .. buf_size |-> IF k <= n THEN io.off + k ELSE @[k]]]
  <2>1. io' \in Reads /\ io'.st = "done" /\ io'.n = n /\ io'.off = io.off + n /\ io'.buf = io.buf /\ io'.want = io.want
    BY <1>1, <1>6, <1>8, Zenon DEF Reads
  <2>2. io.buf \in 0 .. 1 /\ buffer[io.buf] \in [1 .. buf_size -> Bytes]
    BY <1>1, Zenon DEF Reads, Buffers
  <2> DEFINE f == [k \in 1 .. buf_size |-> IF k <= n THEN io.off + k ELSE buffer[io.buf][k]]
  <2>3. f \in [1 .. buf_size -> Bytes] /\ \A k \in 1 .. n : f[k] = io.off + k
    <3>1. \A k \in 1 .. buf_size : io.off + k \in Bytes
      BY <1>2, <1>6 DEF Bytes
    <3>2. \A k \in 1 .. n : k \in 1 .. buf_size /\ k <= n
      BY <1>2, <1>6
    <3> QED
      BY <2>2, <3>1, <3>2, Zenon
  <2>4. buffer' = [buffer EXCEPT ![io.buf] = f]
    BY <1>1, <1>8, <2>2, Zenon DEF Buffers
  <2> HIDE DEF f
  <2>5. buffer' \in Buffers /\ buffer'[io.buf] = f /\ \A b \in 0 .. 1 : b # io.buf => buffer'[b] = buffer[b]
    BY <1>1, <2>2, <2>3, <2>4, Zenon DEF Buffers
  <2>6. Types'
    BY <1>1, <1>3, <2>1, <2>5, Zenon DEF Types
  <2> QED
    BY <1>1, <1>5, <1>6, <2>1, <2>3, <2>5, <2>6, Zenon DEF Base, n
<1>9. CASE io' = [io EXCEPT !.st = "failed"] /\ UNCHANGED buffer
  <2>1. io' \in Reads /\ io'.st = "failed" /\ io'.off = io.off /\ io'.buf = io.buf /\ io'.want = io.want
    BY <1>1, <1>9, Zenon DEF Reads
  <2>2. Types'
    BY <1>1, <1>3, <1>9, <2>1, Zenon DEF Types
  <2> QED
    BY <1>1, <1>5, <1>9, <2>1, <2>2, Zenon DEF Base
<1> QED
  BY <1>7, <1>8, <1>9, Zenon

\* The buffers change places, and the next read is made into the one not being
\* written.
LEMMA SwitchBuffersIs ==
    ASSUME Base, SwitchBuffers
    PROVE  LET n == CEILING_ALIGN(io.n) IN
           /\ Base' /\ t.pc = "copy" /\ t.wb < target_size /\ io.st = "done"
           /\ t'.pc = "write" /\ t'.wb = t.wb /\ t'.rewound = t.rewound /\ t'.ret = t.ret /\ t'.out = t.out
           /\ t'.proc = t.read /\ t'.read = 1 - t.read /\ n \in 0 .. buf_size
           /\ io'.st = "pending" /\ io'.buf = t'.read /\ io'.want = NextWant(t.wb, n) /\ io'.off = io.off
           /\ read_size'[t.read] = n /\ buffer' = buffer /\ ErrorStatus' = ErrorStatus
<1> DEFINE n == CEILING_ALIGN(io.n)
<1>1. /\ Types /\ Placed /\ t \in Threads /\ io \in Reads /\ t.pc = "copy" /\ Raw /\ t.wb < target_size /\ io.st = "done"
      /\ job \in Jobs /\ t.wb \in Nat /\ t.wb <= pos /\ (t.rewound => pos = t.wb) /\ WRITE_RETRIES \in Nat \ {0}
  BY RetryAssumption DEF Base, SwitchBuffers, Types, Placed, Threads, Loop
<1>2. /\ job' = job /\ drive' = drive /\ sec' = sec /\ buffer' = buffer /\ pos' = pos /\ ErrorStatus' = ErrorStatus
      /\ read_size' = [read_size EXCEPT ![t.read] = n]
      /\ ReadFileAsync((t.read + 1) % 2, NextWant(t.wb, n))
      /\ t' = [t EXCEPT !.pc = "write", !.i = 1, !.proc = t.read, !.read = (t.read + 1) % 2]
  BY Zenon DEF SwitchBuffers, unpacker
<1>3. n \in 0 .. buf_size
  <2>1. io.n \in Nat /\ io.n <= buf_size /\ buf_size \in Nat
    BY <1>1, Sizes DEF Reads
  <2>2. n \in Nat /\ \A x \in Nat : x % SectorSize = 0 /\ io.n <= x => n <= x
    BY <2>1, AlignIs, Zenon
  <2> HIDE DEF n
  <2> QED
    BY <2>1, <2>2, Sizes
<1> HIDE DEF n
<1>4. t.read \in 0 .. 1 /\ (t.read + 1) % 2 = 1 - t.read /\ 1 - t.read \in 0 .. 1
  <2>1. t.read \in {0, 1}
    BY <1>1 DEF Threads
  <2> QED
    BY <2>1
<1>5. NextWant(t.wb, n) \in 0 .. buf_size
  <2> DEFINE x == target_size - (t.wb + n)
             y == x % U64
  <2>1. x \in Int /\ U64 \in Nat \ {0}
    BY <1>1, <1>3, TargetIs, Sizes, WidthAssumption
  <2>2. y \in Nat
    <3> HIDE DEF x
    <3> QED
      BY <2>1, SMTT(30)
  <2>3. NextWant(t.wb, n) = Min2(buf_size, y)
    BY Zenon DEF NextWant
  <2> HIDE DEF y
  <2> QED
    BY <2>2, <2>3, Sizes DEF Min2
<1>6. io' \in Reads /\ io'.st = "pending" /\ io'.buf = 1 - t.read /\ io'.want = NextWant(t.wb, n) /\ io'.off = io.off
  BY <1>1, <1>2, <1>4, <1>5, ReadStartIs, Zenon
<1>7. /\ t' \in Threads /\ t'.pc = "write" /\ t'.wb = t.wb /\ t'.rewound = t.rewound /\ t'.ret = t.ret /\ t'.out = t.out
      /\ t'.proc = t.read /\ t'.read = 1 - t.read
  <2> DEFINE p == t.read
             r == 1 - t.read
             c == [t EXCEPT !.pc = "write", !.i = 1]
             d == [c EXCEPT !.proc = p]
  <2>1. p \in 0 .. 1 /\ r \in 0 .. 1 /\ t' = [d EXCEPT !.read = r]
    BY <1>1, <1>2, <1>4, Zenon DEF Threads
  <2> HIDE DEF p, r
  <2>2. c \in Threads /\ c.pc = "write" /\ c.wb = t.wb /\ c.rewound = t.rewound /\ c.ret = t.ret /\ c.out = t.out
    <3>1. 1 \in 1 .. WRITE_RETRIES
      BY <1>1
    <3> QED
      BY <1>1, <3>1, Zenon DEF Threads
  <2> HIDE DEF c
  <2>3. d \in Threads /\ d.pc = "write" /\ d.wb = c.wb /\ d.rewound = c.rewound /\ d.ret = c.ret /\ d.out = c.out /\ d.proc = p
    BY <2>1, <2>2, Zenon DEF Threads
  <2> HIDE DEF d
  <2>4. /\ t' \in Threads /\ t'.pc = "write" /\ t'.wb = d.wb /\ t'.rewound = d.rewound /\ t'.ret = d.ret /\ t'.out = d.out
        /\ t'.proc = d.proc /\ t'.read = r
    BY <2>1, <2>3, Zenon DEF Threads
  <2> QED
    BY <2>2, <2>3, <2>4, Zenon DEF p, r
<1>8. read_size' \in [0 .. 1 -> 0 .. buf_size] /\ read_size'[t.read] = n
  BY <1>1, <1>2, <1>3, <1>4, Zenon DEF Types
<1>9. Types'
  BY <1>1, <1>2, <1>6, <1>7, <1>8, Zenon DEF Types
<1>10. Placed'
  BY <1>1, <1>2, <1>7, Zenon DEF Placed, Loop, Raw, Zeroing
<1> QED
  BY <1>1, <1>2, <1>3, <1>6, <1>7, <1>8, <1>9, <1>10, Zenon DEF Base, n

\* The call ends without having done its work: there is a status, or it left
\* by a bare goto out.
Stopped ==
    /\ t'.pc = "done" /\ SameCount(t', t) /\ t'.ret = t.ret
    /\ ErrorStatus' # "none" \/ t'.out \in {"reposition", "compare", "mount", "log"}

\* A failed read or a cancellation ends the call.
LEMMA FaultIs ==
    ASSUME Base, ReadFault \/ WriteCancelled
    PROVE  /\ Base' /\ Stopped /\ t.pc \in {"copy", "write"} /\ drive' = drive
<1>1. /\ Types /\ t \in Threads
      /\ UNCHANGED <<job, read_size, drive, pos, buffer, io, sec>>
  BY Zenon DEF Base, Types, ReadFault, WriteCancelled, source, unpacker
<1>2. CASE ReadFault
  <2>1. t' \in Threads /\ t'.pc = "done" /\ SameCount(t', t) /\ t'.ret = t.ret /\ ErrorStatus' = "read" /\ t.pc = "copy"
    BY <1>1, <1>2, FailIs, Zenon DEF ReadFault
  <2>2. Types'
    BY <1>1, <2>1, Zenon DEF Types, Statuses
  <2> QED
    BY <1>1, <2>1, <2>2, EndKeepsPlaced, Zenon DEF Base, Stopped
<1>3. CASE WriteCancelled
  <2>1. /\ t' \in Threads /\ t'.pc = "done" /\ SameCount(t', t) /\ t'.ret = t.ret /\ ErrorStatus' = ErrorStatus /\ t.pc = "write"
        /\ ErrorStatus = "cancelled"
    BY <1>1, <1>3, LeaveIs, Zenon DEF WriteCancelled, CHECK_FOR_USER_CANCEL
  <2>2. Types'
    BY <1>1, <2>1, Zenon DEF Types
  <2> QED
    BY <1>1, <2>1, <2>2, EndKeepsPlaced, Zenon DEF Base, Stopped
<1> QED
  BY <1>2, <1>3, Zenon

\* What fits is on the drive.
LEMMA FitsIs ==
    ASSUME drive \in Drives, pos \in 0 .. DiskSize, NEW data \in Seq(Bytes), Fits(pos, data)
    PROVE  /\ pos \in Nat /\ Len(data) \in Nat /\ pos + Len(data) \in 0 .. DiskSize /\ Put(pos, data) \in Drives
<1>1. pos \in Nat /\ Len(data) \in Nat /\ DiskSize \in Nat
  BY Sizes
<1>2. pos + Len(data) <= DiskSize
  BY Zenon DEF Fits
<1> QED
  BY <1>1, <1>2, PutType

\* WriteFile succeeds: pointer and counter move by the block.
LEMMA WriteBlockIs ==
    ASSUME Base, WriteBlock
    PROVE  /\ Base' /\ t.pc = "write" /\ t'.pc = loop /\ t'.wb = t.wb + Len(written) /\ pos' = pos + Len(written)
           /\ t'.read = t.read /\ t'.proc = t.proc /\ t'.rewound = t.rewound /\ t'.ret = t.ret /\ t'.out = t.out
           /\ ErrorStatus' = ErrorStatus
<1>1. /\ Types /\ Placed /\ t \in Threads /\ t.pc = "write" /\ (Zeroing \/ Raw) /\ t.wb <= pos /\ (t.rewound => pos = t.wb)
      /\ t.wb \in 0 .. DiskSize /\ pos \in 0 .. DiskSize /\ drive \in Drives
  BY Zenon DEF Base, WriteBlock, Types, Placed, Loop, Threads
<1>2. /\ job' = job /\ read_size' = read_size /\ buffer' = buffer /\ io' = io /\ sec' = sec /\ ErrorStatus' = ErrorStatus
      /\ Fits(pos, written) /\ drive' = Put(pos, written) /\ pos' = pos + Len(written)
      /\ t' = [t EXCEPT !.pc = loop, !.wb = @ + Len(written)]
  BY Zenon DEF WriteBlock, source, unpacker
<1>3. written \in Seq(Bytes)
  BY <1>1, WrittenBlockIs, Zenon
<1>4. Len(written) \in Nat /\ pos' \in 0 .. DiskSize /\ drive' \in Drives
  BY <1>1, <1>2, <1>3, FitsIs, Zenon
<1> DEFINE w == t.wb + Len(written)
<1>5. w \in 0 .. DiskSize /\ w <= pos' /\ (t.rewound => pos' = w)
  BY <1>1, <1>2, <1>4, Sizes
<1>6. t' = [t EXCEPT !.pc = loop, !.wb = w] /\ loop \in {"zero", "copy"} /\ (loop = "zero" <=> Zeroing)
  BY <1>1, <1>2, Zenon DEF loop, Threads
<1> DEFINE c == [t EXCEPT !.pc = loop]
<1>7. /\ c \in Threads /\ c.pc = loop /\ c.wb = t.wb /\ c.read = t.read /\ c.proc = t.proc /\ c.rewound = t.rewound
      /\ c.ret = t.ret /\ c.out = t.out
  BY <1>1, <1>6, Zenon DEF Threads
<1>8. t' = [c EXCEPT !.wb = w]
  BY <1>6, Zenon DEF Threads
<1> HIDE DEF w, c
<1>9. /\ t' \in Threads /\ t'.pc = c.pc /\ t'.wb = w /\ t'.read = c.read /\ t'.proc = c.proc /\ t'.rewound = c.rewound
      /\ t'.ret = c.ret /\ t'.out = c.out
  BY <1>5, <1>7, <1>8, Zenon DEF Threads
<1>10. Types'
  BY <1>1, <1>2, <1>4, <1>9, Zenon DEF Types
<1>11. Placed'
  BY <1>1, <1>2, <1>5, <1>6, <1>7, <1>9, Zenon DEF Placed, Loop, Zeroing, Raw
<1> QED
  BY <1>1, <1>2, <1>7, <1>9, <1>10, <1>11, Zenon DEF Base, w

\* It fails: a prefix may be on the drive; the pointer is set back, or the call
\* ends.
LEMMA WriteFailsIs ==
    ASSUME Base, WriteFails
    PROVE  /\ Base' /\ t.pc = "write"
           /\ \E p \in Prefixes(written) : Fits(pos, p) /\ drive' = Put(pos, p)
           /\ \/ Stopped
              \/ t'.pc = "write" /\ SameCount(t', t) /\ t'.ret = t.ret /\ t'.out = t.out /\ ErrorStatus' = ErrorStatus
<1>1. /\ Types /\ Placed /\ t \in Threads /\ t.pc = "write" /\ (Zeroing \/ Raw)
      /\ t.wb \in 0 .. DiskSize /\ pos \in 0 .. DiskSize /\ drive \in Drives
  BY Zenon DEF Base, WriteFails, Types, Placed, Threads
<1>2. /\ job' = job /\ read_size' = read_size /\ buffer' = buffer /\ io' = io /\ sec' = sec
  BY Zenon DEF WriteFails, source, unpacker
<1>3. written \in Seq(Bytes)
  BY <1>1, WrittenBlockIs, Zenon
<1>4. PICK p \in Prefixes(written) :
          /\ Fits(pos, p) /\ drive' = Put(pos, p)
          /\ IF t.i < WRITE_RETRIES
             THEN \/ t' = [t EXCEPT !.i = @ + 1] /\ pos' = t.wb /\ UNCHANGED ErrorStatus
                  \/ Leave("reposition") /\ pos' = pos + Len(p)
             ELSE Fail("write") /\ pos' = pos + Len(p)
  BY Zenon DEF WriteFails
<1>5. p \in Seq(Bytes)
  BY <1>3, PrefixIs, Zenon
<1>6. pos + Len(p) \in 0 .. DiskSize /\ drive' \in Drives
  BY <1>1, <1>4, <1>5, FitsIs, Zenon
<1>7. CASE Leave("reposition") /\ pos' = pos + Len(p)
  <2>1. t' \in Threads /\ t'.pc = "done" /\ SameCount(t', t) /\ t'.ret = t.ret /\ t'.out = "reposition" /\ ErrorStatus' = ErrorStatus
    BY <1>1, <1>7, LeaveIs, Zenon
  <2>2. Types'
    BY <1>1, <1>2, <1>6, <1>7, <2>1, Zenon DEF Types
  <2> QED
    BY <1>1, <1>4, <2>1, <2>2, EndKeepsPlaced, Zenon DEF Base, Stopped
<1>8. CASE Fail("write") /\ pos' = pos + Len(p)
  <2>1. t' \in Threads /\ t'.pc = "done" /\ SameCount(t', t) /\ t'.ret = t.ret /\ ErrorStatus' = "write"
    BY <1>1, <1>8, FailIs, Zenon
  <2>2. Types'
    BY <1>1, <1>2, <1>6, <1>8, <2>1, Zenon DEF Types, Statuses
  <2> QED
    BY <1>1, <1>4, <2>1, <2>2, EndKeepsPlaced, Zenon DEF Base, Stopped
<1>9. CASE t.i < WRITE_RETRIES /\ t' = [t EXCEPT !.i = @ + 1] /\ pos' = t.wb /\ UNCHANGED ErrorStatus
  <2> DEFINE i == t.i + 1
  <2>1. i \in 1 .. WRITE_RETRIES /\ t' = [t EXCEPT !.i = i]
    BY <1>1, <1>9, RetryAssumption DEF Threads
  <2> HIDE DEF i
  <2>2. t' \in Threads /\ t'.pc = "write" /\ SameCount(t', t) /\ t'.ret = t.ret /\ t'.out = t.out
    BY <1>1, <2>1, Zenon DEF Threads, SameCount
  <2>3. Types'
    BY <1>1, <1>2, <1>6, <1>9, <2>2, Zenon DEF Types
  <2>4. Placed'
    BY <1>1, <1>2, <1>9, <2>2 DEF Placed, Loop, Zeroing, Raw, SameCount
  <2> QED
    BY <1>1, <1>4, <1>9, <2>2, <2>3, <2>4, Zenon DEF Base
<1> QED
  BY <1>4, <1>7, <1>8, <1>9, Zenon

\* The call returns TRUE.
LEMMA ReturnIs ==
    ASSUME t \in Threads, t' = [t EXCEPT !.pc = "done", !.ret = TRUE]
    PROVE  t' \in Threads /\ t'.pc = "done" /\ SameCount(t', t) /\ t'.ret /\ t'.out = t.out
BY Zenon DEF Threads, SameCount

\* The target has been written: WriteDrive returns TRUE.
LEMMA FinishIs ==
    ASSUME Base, Finish
    PROVE  /\ Base' /\ t'.pc = "done" /\ SameCount(t', t) /\ t'.ret /\ t'.out = t.out /\ drive' = drive
           /\ ErrorStatus' = ErrorStatus
<1>1. /\ Types /\ t \in Threads
      /\ UNCHANGED <<job, read_size, drive, pos, buffer, io, sec, ErrorStatus>>
  BY Zenon DEF Base, Types, Finish, source, unpacker
<1>2. t' \in Threads /\ t'.pc = "done" /\ SameCount(t', t) /\ t'.ret /\ t'.out = t.out
  BY <1>1, ReturnIs, Zenon DEF Finish
<1>3. Types'
  BY <1>1, <1>2, Zenon DEF Types
<1> QED
  BY <1>1, <1>2, <1>3, EndKeepsPlaced, Zenon DEF Base

\* sector_write with n more bytes: whole sectors are written, the rest is kept.
LEMMA SectorWritten ==
    ASSUME Base, NEW n \in 1 .. buf_size, sector_write(n)
    PROVE  /\ Base' /\ t' = t /\ t.pc = "unpack" /\ pos' = pos + Len(ToWrite(n)) /\ ErrorStatus' = ErrorStatus
           /\ sec'.pos = Len(Leftover(n)) /\ sec'.fed = sec.fed + n /\ sec'.fed <= job.file
           /\ \A k \in 1 .. sec'.pos : sec'.buf[k] = Leftover(n)[k]
<1>1. /\ Types /\ Placed /\ t.pc = "unpack" /\ sec \in SectorBufs /\ n \in Nat /\ job.mode = "compressed"
      /\ drive \in Drives /\ pos \in 0 .. DiskSize
  BY Sizes DEF Base, Types, Placed, sector_write
<1>2. /\ ToWrite(n) \in Seq(Bytes) /\ Leftover(n) \in Seq(Bytes) /\ Filled(n) \in Seq(Bytes)
      /\ Len(Leftover(n)) \in 0 .. SectorSize - 1
  BY <1>1, SectorWriteIs, Zenon
<1> DEFINE L == Leftover(n)
           F == Filled(n)
           f == [k \in 1 .. SectorSize |-> IF k <= Len(L) THEN L[k] ELSE IF k <= Len(F) THEN F[k] ELSE sec.buf[k]]
           l == Len(L)
           fed == sec.fed + n
<1>3. /\ job' = job /\ read_size' = read_size /\ buffer' = buffer /\ io' = io /\ t' = t /\ ErrorStatus' = ErrorStatus
      /\ Fits(pos, ToWrite(n)) /\ drive' = Put(pos, ToWrite(n)) /\ pos' = pos + Len(ToWrite(n))
      /\ sec' = [buf |-> f, pos |-> l, fed |-> fed] /\ sec.fed + n <= job.file
  BY Zenon DEF sector_write, source
<1>4. pos' \in 0 .. DiskSize /\ drive' \in Drives
  BY <1>1, <1>2, <1>3, FitsIs, Zenon
<1> HIDE DEF L, F
<1>5. f \in [1 .. SectorSize -> Bytes] /\ \A k \in 1 .. l : f[k] = L[k]
  <2>1. Len(L) \in Nat /\ Len(F) \in Nat /\ L \in Seq(Bytes) /\ F \in Seq(Bytes) /\ l < SectorSize /\ SectorSize \in Nat
    BY <1>2, Sizes DEF L, F
  <2>2. \A k \in 1 .. SectorSize : /\ k <= Len(L) => k \in 1 .. Len(L)
                                   /\ k <= Len(F) => k \in 1 .. Len(F)
    BY <2>1
  <2>3. /\ \A k \in 1 .. Len(L) : L[k] \in Bytes
        /\ \A k \in 1 .. Len(F) : F[k] \in Bytes
    BY <2>1, ElementOfSeq, Zenon
  <2>4. \A k \in 1 .. SectorSize : sec.buf[k] \in Bytes
    BY <1>1, Zenon DEF SectorBufs
  <2>5. \A k \in 1 .. l : k \in 1 .. SectorSize /\ k <= Len(L)
    BY <2>1
  <2> QED
    BY <2>2, <2>3, <2>4, <2>5, Zenon
<1>6. l \in 0 .. SectorSize - 1 /\ fed \in Nat
  BY <1>1, <1>2 DEF L, SectorBufs
<1>7. l = Len(Leftover(n))
  BY Zenon DEF L
<1> HIDE DEF f, l, fed
<1>8. sec' \in SectorBufs /\ sec'.buf = f /\ sec'.pos = l /\ sec'.fed = fed
  BY <1>3, <1>5, <1>6, Zenon DEF SectorBufs
<1>9. Types'
  BY <1>1, <1>3, <1>4, <1>8, Zenon DEF Types
<1>10. Placed'
  BY <1>1, <1>3, Zenon DEF Placed, Loop
<1> QED
  BY <1>1, <1>3, <1>5, <1>7, <1>8, <1>9, <1>10, Zenon DEF Base, fed, L

\* The decompressor fails or is cancelled; a cancelled one returns TRUE.
LEMMA BledFailsIs ==
    ASSUME Base, BledFails
    PROVE  /\ Base' /\ t.pc = "unpack" /\ t'.pc = "done" /\ SameCount(t', t)
           /\ \/ t'.ret /\ ErrorStatus' = "cancelled"
              \/ t'.ret = t.ret /\ ErrorStatus' = "write"
<1>1. /\ Types /\ t \in Threads /\ sec \in SectorBufs /\ t.pc = "unpack" /\ drive \in Drives /\ pos \in 0 .. DiskSize
      /\ job' = job /\ read_size' = read_size /\ buffer' = buffer /\ io' = io /\ sec' = sec
  BY Zenon DEF Base, Types, BledFails, source, unpacker
<1>2. PICK n \in 0 .. buf_size : \E p \in Prefixes(ToWrite(n)) :
          sec.fed + n <= job.file /\ Fits(pos, p) /\ drive' = Put(pos, p) /\ pos' = pos + Len(p)
  BY Zenon DEF BledFails
<1>3. PICK p \in Prefixes(ToWrite(n)) : Fits(pos, p) /\ drive' = Put(pos, p) /\ pos' = pos + Len(p)
  BY <1>2, Zenon
<1>4. n \in Nat
  BY Sizes
<1>5. ToWrite(n) \in Seq(Bytes)
  BY <1>1, <1>4, SectorWriteIs, Zenon
<1>6. p \in Seq(Bytes)
  BY <1>5, PrefixIs, Zenon
<1>7. pos' \in 0 .. DiskSize /\ drive' \in Drives
  BY <1>1, <1>3, <1>6, FitsIs, Zenon
<1>8. CASE CHECK_FOR_USER_CANCEL /\ t' = [t EXCEPT !.pc = "done", !.ret = TRUE] /\ UNCHANGED ErrorStatus
  <2>1. t' \in Threads /\ t'.pc = "done" /\ SameCount(t', t) /\ t'.ret
    BY <1>1, <1>8, ReturnIs, Zenon
  <2>2. Types' /\ ErrorStatus' = "cancelled"
    BY <1>1, <1>7, <1>8, <2>1, Zenon DEF Types, CHECK_FOR_USER_CANCEL
  <2> QED
    BY <1>1, <2>1, <2>2, EndKeepsPlaced, Zenon DEF Base
<1>9. CASE Fail("write")
  <2>1. t' \in Threads /\ t'.pc = "done" /\ SameCount(t', t) /\ t'.ret = t.ret /\ ErrorStatus' = "write"
    BY <1>1, <1>9, FailIs, Zenon
  <2>2. Types'
    BY <1>1, <1>7, <2>1, Zenon DEF Types, Statuses
  <2> QED
    BY <1>1, <2>1, <2>2, EndKeepsPlaced, Zenon DEF Base
<1> QED
  BY <1>8, <1>9, Zenon DEF BledFails

\* The decompressor is through: the last partial sector is written, perhaps in
\* vain.
LEMMA BledEndsIs ==
    ASSUME Base, BledEnds
    PROVE  /\ Base' /\ t.pc = "unpack" /\ t'.pc = "done" /\ SameCount(t', t) /\ t'.ret /\ sec.fed = job.file /\ sec' = sec
           /\ \/ /\ Fits(pos, sec.buf) /\ drive' = Put(pos, sec.buf) /\ sec.buf \in Seq(Bytes) /\ Len(sec.buf) = SectorSize
                 /\ t'.out = t.out
              \/ /\ drive' = drive /\ sec.pos = 0 /\ t'.out = t.out
              \/ /\ drive' = drive /\ t'.out = "tail"
<1>1. /\ Types /\ t \in Threads /\ sec \in SectorBufs /\ t.pc = "unpack" /\ drive \in Drives /\ pos \in 0 .. DiskSize
      /\ job' = job /\ read_size' = read_size /\ buffer' = buffer /\ io' = io /\ sec' = sec /\ ErrorStatus' = ErrorStatus
      /\ sec.fed = job.file
  BY Zenon DEF Base, Types, BledEnds, source, unpacker
<1>2. CASE /\ Fits(pos, sec.buf) /\ drive' = Put(pos, sec.buf) /\ pos' = pos + SectorSize
           /\ t' = [t EXCEPT !.pc = "done", !.ret = TRUE]
  <2>1. t' \in Threads /\ t'.pc = "done" /\ SameCount(t', t) /\ t'.ret /\ t'.out = t.out
    BY <1>1, <1>2, ReturnIs, Zenon
  <2>2. sec.buf \in Seq(Bytes) /\ Len(sec.buf) = SectorSize
    <3>1. sec.buf \in [1 .. SectorSize -> Bytes] /\ SectorSize \in Nat
      BY <1>1, Sizes, Zenon DEF SectorBufs
    <3> QED
      BY <3>1
  <2>3. pos' \in 0 .. DiskSize /\ drive' \in Drives
    BY <1>1, <1>2, <2>2, FitsIs, Zenon
  <2>4. Types'
    BY <1>1, <2>1, <2>3, Zenon DEF Types
  <2> QED
    BY <1>1, <1>2, <2>1, <2>2, <2>4, EndKeepsPlaced, Zenon DEF Base
<1>3. CASE /\ UNCHANGED <<drive, pos>>
           /\ t' = [t EXCEPT !.pc = "done", !.ret = TRUE, !.out = IF sec.pos # 0 THEN "tail" ELSE @]
  <2> DEFINE o == IF sec.pos # 0 THEN "tail" ELSE t.out
             c == [t EXCEPT !.pc = "done", !.ret = TRUE]
  <2>1. c \in Threads /\ c.pc = "done" /\ SameCount(c, t) /\ c.ret /\ c.out = t.out
    BY <1>1, Zenon DEF Threads, SameCount
  <2>2. t' = [c EXCEPT !.out = o] /\ o \in {"-", "cancel", "compare", "reposition", "mount", "tail", "log"}
    BY <1>1, <1>3, Zenon DEF Threads
  <2>3. o = "tail" \/ (o = t.out /\ sec.pos = 0)
    OBVIOUS
  <2> HIDE DEF c, o
  <2>4. t' \in Threads /\ t'.pc = c.pc /\ SameCount(t', c) /\ t'.ret = c.ret /\ t'.out = o
    BY <2>1, <2>2, Zenon DEF Threads, SameCount
  <2>5. t'.pc = "done" /\ SameCount(t', t) /\ t'.ret
    BY <2>1, <2>4, Zenon DEF SameCount
  <2>6. Types'
    BY <1>1, <1>3, <2>4, Zenon DEF Types
  <2> QED
    BY <1>1, <1>3, <2>3, <2>4, <2>5, <2>6, EndKeepsPlaced, Zenon DEF Base
<1> QED
  BY <1>1, <1>2, <1>3, Zenon DEF BledEnds

\* Cancel sets the status of a call that is running.
LEMMA UserCancelsIs ==
    ASSUME Base, UserCancels
    PROVE  Base' /\ t' = t /\ drive' = drive /\ t.pc # "done"
<1>1. UNCHANGED <<job, t, read_size, buffer, drive, pos, io, sec>> /\ ErrorStatus' = "cancelled" /\ t.pc # "done"
  BY Zenon DEF UserCancels, source, unpacker
<1> QED
  BY <1>1, Zenon DEF Base, Types, Placed, Statuses, Zeroing, Raw, Untouched

\* The steps of the check, seen from WriteDrive
CheckStep == CheckBegins \/ CheckTests \/ CheckEnds \/ CheckAlarm

\* The check for bad blocks before the write leaves the drive's pointer and
\* counters alone.
LEMMA CheckStepIs ==
    ASSUME Base, CheckStep
    PROVE  /\ Base' /\ t.pc = "check" /\ UNCHANGED <<job, read_size, buffer, drive, pos, io, sec>>
           /\ \/ Stopped
              \/ t' = t /\ ErrorStatus' = ErrorStatus
              \/ t'.pc = "start" /\ SameCount(t', t) /\ t'.ret = t.ret /\ t'.out = t.out /\ ErrorStatus' = ErrorStatus
<1>1. /\ Types /\ Placed /\ t \in Threads /\ t.pc = "check" /\ ErrorStatus \in Statuses /\ Untouched
      /\ job' = job /\ read_size' = read_size /\ buffer' = buffer /\ drive' = drive /\ pos' = pos /\ io' = io /\ sec' = sec
  BY Zenon DEF Base, Types, Placed, CheckStep, CheckBegins, CheckTests, CheckEnds, CheckAlarm, source, unpacker
<1>2. ASSUME t' \in Threads, t'.pc = "done", ErrorStatus' \in Statuses PROVE Base'
  BY <1>1, <1>2, EndKeepsPlaced, Zenon DEF Base, Types
<1>3. ASSUME t' = t, ErrorStatus' = ErrorStatus PROVE Base'
  BY <1>1, <1>3, Zenon DEF Base, Types, Placed, Untouched, Zeroing, Raw
<1>4. CASE Leave("log")
  <2>1. /\ t' \in Threads /\ t'.pc = "done" /\ SameCount(t', t) /\ t'.ret = t.ret /\ t'.out = "log"
        /\ ErrorStatus' = ErrorStatus
    BY <1>1, <1>4, LeaveIs, Zenon
  <2> QED
    BY <1>1, <1>2, <2>1, Zenon DEF Stopped
<1>5. ASSUME t' = [t EXCEPT !.pc = "done"], ErrorStatus' \in Statuses \ {"none"}
      PROVE  Base' /\ Stopped
  <2>1. t' \in Threads /\ t'.pc = "done" /\ SameCount(t', t) /\ t'.ret = t.ret
    BY <1>1, <1>5, Zenon DEF Threads, SameCount
  <2> QED
    BY <1>2, <1>5, <2>1, Zenon DEF Stopped
<1>6. CASE t' = [t EXCEPT !.pc = "start"] /\ ErrorStatus' = ErrorStatus
  <2>1. t' \in Threads /\ t'.pc = "start" /\ SameCount(t', t) /\ t'.ret = t.ret /\ t'.out = t.out
    BY <1>1, <1>6, Zenon DEF Threads, SameCount
  <2>2. Types'
    BY <1>1, <1>6, <2>1, Zenon DEF Types
  <2>3. Untouched'
    BY <1>1, <2>1, Zenon DEF Untouched, SameCount
  <2>4. Placed'
    BY <2>1, <2>3, Zenon DEF Placed, Loop
  <2> QED
    BY <1>1, <1>6, <2>1, <2>2, <2>4, Zenon DEF Base
<1>7. CASE CheckBegins
  BY <1>1, <1>3, <1>4, <1>7, Zenon DEF CheckBegins
<1>8. CASE CheckTests \/ CheckAlarm
  BY <1>1, <1>3, <1>8, Zenon DEF CheckTests, CheckAlarm
<1>9. CASE CheckEnds
  <2>1. \/ ErrorStatus' \in Statuses \ {"none"} /\ t' = [t EXCEPT !.pc = "done"]
        \/ t' = t /\ ErrorStatus' = ErrorStatus
        \/ t' = [t EXCEPT !.pc = "start"] /\ ErrorStatus' = ErrorStatus
    BY <1>1, <1>9, Zenon DEF CheckEnds, StatusUnlessSet, Ends, Statuses
  <2> QED
    BY <1>1, <1>3, <1>5, <1>6, <2>1, Zenon
<1> QED
  BY <1>7, <1>8, <1>9, Zenon DEF CheckStep

\* Base holds at the start
LEMMA InitBase ==
    ASSUME Init PROVE Base
<1>1. /\ SectorSize \in Nat \ {0} /\ DiskSize \in Nat \ {0} /\ buf_size \in Nat \ {0} /\ SectorSize <= DiskSize
      /\ WRITE_RETRIES \in Nat \ {0} /\ THROTTLE \in Nat
  BY Sizes, DiskHasASector, RetryAssumption, Zenon
<1>2. /\ t \in Threads /\ t.pc \in {"check", "start"} /\ t.wb = 0 /\ ~t.rewound /\ t.read = 0 /\ t.proc = 1
      /\ ~t.ret /\ t.out = "-"
  <2> DEFINE p == IF job.check THEN "check" ELSE "start"
  <2>1. p \in {"check", "start"} /\ 0 \in 0 .. DiskSize /\ 1 \in 1 .. WRITE_RETRIES /\ 0 \in 0 .. THROTTLE
    BY <1>1
  <2>2. t = [pc |-> p, wb |-> 0, i |-> 1, throttle |-> 0, read |-> 0, proc |-> 1,
             ret |-> FALSE, rewound |-> FALSE, out |-> "-"]
    BY Zenon DEF Init
  <2> HIDE DEF p
  <2>3. 1 \in 0 .. 1 /\ 0 \in 0 .. 1
    OBVIOUS
  <2>4. t \in Threads
    BY <2>1, <2>2, <2>3, Zenon DEF Threads
  <2> QED
    BY <2>1, <2>2, <2>4, Zenon
<1>3. read_size \in [0 .. 1 -> 0 .. buf_size]
  <2>1. read_size = [b \in 0 .. 1 |-> 0]
    BY Zenon DEF Init
  <2>2. 0 \in 0 .. buf_size
    BY <1>1
  <2> QED
    BY <2>1, <2>2, Zenon
<1>4. buffer \in Buffers
  BY Zenon DEF Init, Buffers, Fill, Bytes
<1>5. drive \in Drives /\ (job.mode # "fast" => \A k \in 0 .. DiskSize - 1 : drive[k] = OLD)
  <2>1. CASE drive = [k \in 0 .. DiskSize - 1 |-> OLD]
    BY <2>1, Zenon DEF Drives, Bytes
  <2>2. CASE /\ job.mode = "fast"
             /\ drive \in {[k \in 0 .. DiskSize - 1 |-> c[k \div SectorSize]] :
                              c \in [0 .. DiskSize \div SectorSize - 1 -> Contents]}
    <3>1. PICK c \in [0 .. DiskSize \div SectorSize - 1 -> Contents] :
              drive = [k \in 0 .. DiskSize - 1 |-> c[k \div SectorSize]]
      BY <2>2, Zenon
    <3>2. ASSUME NEW k \in 0 .. DiskSize - 1 PROVE k \div SectorSize \in 0 .. DiskSize \div SectorSize - 1
      <4> DEFINE q == k \div SectorSize
                 d == DiskSize \div SectorSize
      <4>1. k \in Nat /\ k < DiskSize
        BY <1>1
      <4>2. q \in Nat /\ q * SectorSize <= k
        BY <1>1, <4>1, DivisionIs, Zenon
      <4>3. d \in Nat /\ DiskSize = d * SectorSize
        BY <1>1, Sizes, DivisionIs, Zenon
      <4> HIDE DEF q, d
      <4>4. q < d
        <5>1. q >= d => (q - d) * SectorSize >= 0 /\ (q - d) * SectorSize = q * SectorSize - d * SectorSize
          BY <1>1, <4>2, <4>3, SMTT(30)
        <5>2. q * SectorSize \in Int /\ d * SectorSize \in Int
          BY <1>1, <4>2, <4>3
        <5> QED
          BY <1>1, <4>1, <4>2, <4>3, <5>1, <5>2
      <4>5. q \in 0 .. d - 1
        BY <4>2, <4>3, <4>4
      <4> QED
        BY <4>5, Zenon DEF q, d
    <3>3. ASSUME NEW k \in 0 .. DiskSize - 1 PROVE c[k \div SectorSize] \in Bytes
      BY <3>2, ContentsAssumption, Zenon
    <3> QED
      BY <2>2, <3>1, <3>3, Zenon DEF Drives
  <2> QED
    BY <2>1, <2>2, Zenon DEF Init
<1>6. pos \in 0 .. DiskSize
  BY <1>1 DEF Init
<1>7. io \in Reads /\ io.off = 0 /\ io.st = "none"
  <2>1. 0 \in 0 .. 1 /\ 0 \in 0 .. buf_size /\ 0 \in Nat
    BY <1>1
  <2> QED
    BY <2>1, Zenon DEF Init, Reads
<1>8. sec \in SectorBufs /\ sec.pos = 0 /\ sec.fed = 0
  <2>1. Fill(JUNK, SectorSize) \in [1 .. SectorSize -> Bytes]
    BY Zenon DEF Fill, Bytes
  <2>2. 0 \in 0 .. SectorSize - 1
    BY <1>1
  <2> QED
    BY <2>1, <2>2, Zenon DEF Init, SectorBufs
<1>9. job \in Jobs /\ ErrorStatus = "none"
  BY Zenon DEF Init
<1>10. Types
  BY <1>2, <1>3, <1>4, <1>5, <1>6, <1>7, <1>8, <1>9, Zenon DEF Types, Statuses
<1>11. Untouched
  BY <1>2, <1>5, <1>7, <1>8, Zenon DEF Untouched
<1>12. Placed
  BY <1>2, <1>11, Zenon DEF Placed, Loop
<1> QED
  BY <1>10, <1>12, Zenon DEF Base

\* and every step keeps it.
LEMMA StepKeepsBase ==
    ASSUME Base, [Next]_vars PROVE Base'
<1>1. CASE CheckBegins \/ CheckTests \/ CheckEnds \/ CheckAlarm
  BY <1>1, CheckStepIs, Zenon DEF CheckStep
<1>2. CASE BeginZero \/ BeginCompressed \/ BeginImage
  BY <1>2, BeginZeroIs, BeginCompressedIs, BeginImageIs, Zenon
<1>3. CASE ZeroBlock \/ CompareBlock
  BY <1>3, ZeroBlockIs, CompareBlockIs, Zenon
<1>4. CASE SwitchBuffers \/ IoCompletes
  BY <1>4, SwitchBuffersIs, IoCompletesIs, Zenon
<1>5. CASE ReadFault \/ WriteCancelled \/ WriteBlock \/ WriteFails
  BY <1>5, FaultIs, WriteBlockIs, WriteFailsIs, Zenon
<1>6. CASE Finish \/ BledFails \/ BledEnds \/ UserCancels
  BY <1>6, FinishIs, BledFailsIs, BledEndsIs, UserCancelsIs, Zenon
<1>7. CASE \E n \in 1 .. buf_size : sector_write(n)
  BY <1>7, SectorWritten, Zenon
<1>8. CASE UNCHANGED vars
  BY <1>8, Zenon DEF vars, Base, Types, Placed, Zeroing, Raw, Untouched
<1> QED
  BY <1>1, <1>2, <1>3, <1>4, <1>5, <1>6, <1>7, <1>8, NextIs, Zenon DEF OtherStep

-----------------------------------------------------------------------------
(***************************************************************************)
(* What is in the buffers                                                  *)
(***************************************************************************)
Blank == Fill(IF job.mode = "fast" THEN FF ELSE ZERO, buf_size)

ZeroesReady == Zeroing => io.st = "none" /\ (t.pc \in Loop => buffer[0] = Blank)

\* Where the block goes that is being read, and where in the source its read
\* began
Ahead == t.wb + (IF t.pc = "write" THEN read_size[t.proc] ELSE 0)

Start == io.off - (IF io.st = "done" THEN io.n ELSE 0)

Available == Min2(target_size, job.file)

\* The read ahead is made into the buffer that is not being written, of what
\* follows in the image, and stops at the target; unless there is nothing left.
ReadAhead ==
    /\ io.buf = t.read /\ t.proc = 1 - t.read /\ t.wb % SectorSize = 0 /\ io.st # "none"
    /\ Start \in Nat /\ Start <= Ahead /\ (Start = Ahead \/ Start >= job.file \/ Ahead >= target_size)
    /\ Ahead < target_size => io.want = Min2(buf_size, target_size - Ahead)
    /\ io.st = "done" => /\ io.n = IF Start >= job.file THEN 0 ELSE Min2(io.want, job.file - Start)
                         /\ \A k \in 1 .. io.n : buffer[t.read][k] = Start + k

\* The block that is to be written
ReadBefore ==
    /\ t.pc = "write" =>
          /\ read_size[t.proc] % SectorSize = 0
          /\ \A k \in 1 .. read_size[t.proc] : t.wb + k <= Available => buffer[t.proc][k] = t.wb + k
          /\ job.mode = "image" => t.wb + read_size[t.proc] <= CEILING_ALIGN(target_size)
    /\ read_size[t.proc] = 0 => t.wb >= Available

Copying == t.pc \in {"copy", "write"} /\ Raw

Reading == Copying => ReadAhead /\ ReadBefore

\* What sector_write has kept, and where it goes
Keeping == t.pc = "unpack" => sec.pos <= sec.fed /\ InOrder /\ (t.rewound => pos = sec.fed - sec.pos)

Open == t.pc # "done" => t.out = "-" /\ ~t.ret

Unchecked == job.check \/ Good

Prep == ZeroesReady /\ Reading /\ Keeping /\ Open /\ Unchecked

\* A step that leaves the reader and its buffers alone
LEMMA QuietKeepsReading ==
    ASSUME Reading, UNCHANGED <<job, io, buffer, read_size>>, SameCount(t', t), t'.pc = t.pc
    PROVE  Reading'
<1>1. /\ job' = job /\ io' = io /\ buffer' = buffer /\ read_size' = read_size /\ t'.pc = t.pc
      /\ t'.wb = t.wb /\ t'.read = t.read /\ t'.proc = t.proc
  BY Zenon DEF SameCount
<1>2. (Copying' <=> Copying) /\ target_size' = target_size /\ Available' = Available /\ Ahead' = Ahead /\ Start' = Start
  BY <1>1, Zenon DEF Copying, Raw, target_size, Zeroing, Available, Ahead, Start
<1>3. ReadAhead => ReadAhead'
  BY <1>1, <1>2 DEF ReadAhead
<1>4. ReadBefore => ReadBefore'
  BY <1>1, <1>2, Zenon DEF ReadBefore
<1> QED
  BY <1>2, <1>3, <1>4, Zenon DEF Reading

\* The first read
LEMMA BeginKeepsReading ==
    ASSUME Base, BeginImage
    PROVE  Reading'
<1>1. CASE t'.pc = "done"
  BY <1>1, Zenon DEF Reading, Copying
<1>2. CASE t'.pc # "done"
  <2>1. /\ t'.pc = "copy" /\ t'.wb = 0 /\ t'.read = 0 /\ t'.proc = 1 /\ job' = job
        /\ io'.st = "pending" /\ io'.buf = 0 /\ io'.off = 0 /\ io'.want = Min2(buf_size, target_size)
        /\ read_size'[1] = 1 /\ job \in Jobs
    BY <1>2, BeginImageIs, Zenon DEF BeginImage, Base, Types
  <2>2. target_size' = target_size /\ target_size \in Nat
    BY <2>1, TargetIs, Zenon DEF target_size, Zeroing
  <2>3. Ahead' = 0 /\ Start' = 0
    BY <2>1 DEF Ahead, Start
  <2>4. 0 % SectorSize = 0
    BY Sizes, Modulo, Zenon
  <2>5. Min2(buf_size, target_size - 0) = Min2(buf_size, target_size)
    BY <2>2
  <2>6. ReadAhead'
    BY <2>1, <2>2, <2>3, <2>4, <2>5 DEF ReadAhead
  <2>7. ReadBefore'
    BY <2>1 DEF ReadBefore
  <2> QED
    BY <2>6, <2>7, Zenon DEF Reading
<1> QED
  BY <1>1, <1>2, Zenon

\* A read completes or fails.
LEMMA IoKeepsReading ==
    ASSUME Base, Reading, IoCompletes
    PROVE  Reading'
<1> DEFINE n == IF io.off >= job.file THEN 0 ELSE Min2(io.want, job.file - io.off)
<1>1. /\ job' = job /\ t' = t /\ read_size' = read_size /\ job \in Jobs /\ io \in Reads /\ t \in Threads
      /\ read_size \in [0 .. 1 -> 0 .. buf_size]
  BY Zenon DEF IoCompletes, Base, Types
<1>2. SUFFICES ASSUME Copying, ReadAhead, ReadBefore PROVE ReadAhead' /\ ReadBefore'
  BY <1>1, Zenon DEF Reading, Copying, Raw
<1>3. target_size' = target_size /\ Available' = Available /\ Ahead' = Ahead
  BY <1>1, Zenon DEF target_size, Zeroing, Available, Ahead
<1>4. /\ io.st = "pending" /\ io'.buf = io.buf /\ io'.want = io.want
      /\ \/ /\ io'.st = "done" /\ io'.n = n /\ io'.off = io.off + n /\ n \in 0 .. buf_size
            /\ \A b \in 0 .. 1 : b # io.buf => buffer'[b] = buffer[b]
            /\ \A k \in 1 .. n : buffer'[io.buf][k] = io.off + k
         \/ io'.st = "failed" /\ io'.off = io.off /\ buffer' = buffer
  BY IoCompletesIs, Zenon
<1>5. Start = io.off /\ io.off \in Nat
  BY <1>1, <1>4 DEF Start, Reads
<1> HIDE DEF n
<1>6. Start' = Start
  BY <1>4, <1>5, Sizes DEF Start
<1>7. /\ t.read \in 0 .. 1 /\ t.proc \in 0 .. 1 /\ t.proc # io.buf /\ io.buf = t.read
  <2>1. t.read \in {0, 1} /\ t.proc = 1 - t.read /\ io.buf = t.read
    BY <1>1, <1>2 DEF ReadAhead, Threads
  <2> QED
    BY <2>1
<1>8. buffer'[t.proc] = buffer[t.proc]
  BY <1>4, <1>7, Zenon
<1>9. ReadBefore'
  BY <1>1, <1>2, <1>3, <1>8, Zenon DEF ReadBefore
<1>10. ReadAhead'
  <2>1. io'.st = "done" => /\ io'.n = IF Start' >= job'.file THEN 0 ELSE Min2(io'.want, job'.file - Start')
                           /\ \A k \in 1 .. io'.n : buffer'[t'.read][k] = Start' + k
    BY <1>1, <1>4, <1>5, <1>6, <1>7, Zenon DEF n
  <2>2. /\ io'.buf = t'.read /\ t'.proc = 1 - t'.read /\ t'.wb % SectorSize = 0 /\ io'.st # "none"
        /\ Start' \in Nat /\ Start' <= Ahead' /\ (Start' = Ahead' \/ Start' >= job'.file \/ Ahead' >= target_size')
        /\ Ahead' < target_size' => io'.want = Min2(buf_size, target_size' - Ahead')
    BY <1>1, <1>2, <1>3, <1>4, <1>6, Zenon DEF ReadAhead
  <2> QED
    BY <2>1, <2>2, Zenon DEF ReadAhead
<1> QED
  BY <1>9, <1>10, Zenon

\* The buffers are swapped and the next read starts: what was read is what
\* belongs after the blocks written so far, and the next read goes on after it.
LEMMA SwitchKeepsReading ==
    ASSUME Base, Reading, SwitchBuffers
    PROVE  Reading'
<1> DEFINE n == CEILING_ALIGN(io.n)
           s == Start
           m == io.n
           w == t.wb
           T == target_size
           file == job.file
<1>1. /\ job' = job /\ buffer' = buffer /\ job \in Jobs /\ io \in Reads /\ t \in Threads
  BY Zenon DEF SwitchBuffers, Base, Types
<1>2. /\ t.pc = "copy" /\ w < T /\ io.st = "done" /\ t'.pc = "write" /\ t'.wb = w /\ t'.proc = t.read /\ t'.read = 1 - t.read
      /\ n \in 0 .. buf_size /\ io'.st = "pending" /\ io'.buf = t'.read /\ io'.want = NextWant(w, n) /\ io'.off = io.off
      /\ read_size'[t.read] = n /\ Base'
  BY SwitchBuffersIs, Zenon
<1>3. Raw
  BY <1>2, Zenon DEF Base, Placed
<1>4. ReadAhead
  BY <1>2, <1>3, Zenon DEF Reading, Copying
<1>5. /\ T \in Nat /\ T < U64 /\ file \in Nat /\ U64 \in Nat /\ w \in Nat /\ m \in Nat /\ m <= buf_size
      /\ n \in Nat /\ n <= buf_size /\ buf_size \in Nat \ {0} /\ io.off \in Nat
  BY <1>1, <1>2, TargetIs, Sizes DEF Threads, Reads
<1>6. m <= n /\ n % SectorSize = 0 /\ (m = buf_size => n = buf_size)
  BY <1>5, AlignIs
<1>7. w + n <= CEILING_ALIGN(T) \/ w + m > T
  BY <1>4, <1>5, AlignAfter DEF ReadAhead
<1>8. Ahead = w
  BY <1>2, <1>5 DEF Ahead
<1>9. s = io.off - m /\ s \in Nat
  BY <1>2, <1>4, Zenon DEF Start, ReadAhead
<1>10. /\ s <= w /\ (s = w \/ s >= file) /\ io.want = Min2(buf_size, T - w)
       /\ m = IF s >= file THEN 0 ELSE Min2(io.want, file - s)
       /\ \A k \in 1 .. m : buffer[t.read][k] = s + k
  BY <1>2, <1>4, <1>5, <1>8 DEF ReadAhead
<1>11. /\ target_size' = T /\ Available' = Available /\ job'.file = file
       /\ Ahead' = w + n /\ Start' = s + m
  <2>1. target_size' = T /\ Available' = Available /\ job'.file = file
    BY <1>1, Zenon DEF target_size, Zeroing, Available
  <2> HIDE DEF s, m, n, w, T, file
  <2>2. Ahead' = w + n
    <3>1. t'.pc = "write" /\ t'.wb = w /\ read_size'[t'.proc] = n
      BY <1>2, Zenon
    <3> QED
      BY <3>1, Zenon DEF Ahead
  <2>3. Start' = io.off
    BY <1>2, <1>5 DEF Start
  <2> QED
    BY <1>5, <1>9, <2>1, <2>2, <2>3
<1>12. /\ \A k \in 1 .. n : w + k <= Available => buffer[t.read][k] = w + k
       /\ n = 0 => w >= Available
       /\ w + m <= T
       /\ s + m <= w + n /\ (s + m = w + n \/ s + m >= file \/ w + n >= T)
  <2> HIDE DEF s, m, n, w, T, file
  <2>1. Available = Min2(T, file)
    BY Zenon DEF Available, T, file
  <2>2. CASE s >= file
    BY <1>2, <1>5, <1>6, <1>9, <1>10, <2>1, <2>2 DEF Min2
  <2>3. CASE s < file
    <3>1. s = w /\ m = Min2(Min2(buf_size, T - w), file - w)
      BY <1>5, <1>9, <1>10, <2>3
    <3>2. CASE m = buf_size
      <4>1. n = m /\ n > 0 /\ w + m <= T /\ w + m <= file
        BY <1>5, <1>6, <2>3, <3>1, <3>2, Sizes DEF Min2
      <4>2. \A k \in 1 .. n : buffer[t.read][k] = w + k
        BY <1>10, <3>1, <4>1, Zenon
      <4>3. s + m = w + n /\ s + m <= w + n
        BY <1>5, <3>1, <4>1
      <4> QED
        BY <4>1, <4>2, <4>3
    <3>3. CASE m = T - w
      <4>1. w + m = T /\ w + n >= T /\ n > 0 /\ m <= file - w
        BY <1>2, <1>5, <1>6, <2>3, <3>1, <3>3 DEF Min2
      <4>2. Available <= T
        BY <1>5, <2>1 DEF Min2
      <4>3. \A k \in 1 .. n : w + k <= T => k \in 1 .. m
        BY <1>5, <4>1
      <4>4. Available \in Nat
        BY <1>5, <2>1, Zenon DEF Min2
      <4> QED
        BY <1>5, <1>6, <1>10, <3>1, <4>1, <4>2, <4>3, <4>4
    <3>4. CASE m = file - w
      <4>1. w + m = file /\ n > 0 /\ m <= T - w
        BY <1>2, <1>5, <1>6, <1>9, <2>3, <3>1, <3>4 DEF Min2
      <4>2. Available <= file /\ Available \in Nat
        BY <1>5, <2>1 DEF Min2
      <4>3. \A k \in 1 .. n : w + k <= file => k \in 1 .. m
        BY <1>5, <4>1
      <4> QED
        BY <1>5, <1>6, <1>10, <3>1, <4>1, <4>2, <4>3
    <3> QED
      BY <3>1, <3>2, <3>3, <3>4, Zenon DEF Min2
  <2> QED
    BY <1>5, <1>9, <2>2, <2>3
<1>13. w + n < T => NextWant(w, n) = Min2(buf_size, T - (w + n))
  <2> DEFINE x == T - (w + n)
  <2>1. ASSUME w + n < T PROVE x \in Nat /\ x < U64
    BY <1>5, <2>1
  <2>2. U64 \in Nat \ {0}
    BY <1>5
  <2>3. w + n < T => x % U64 = x
    <3> HIDE DEF x
    <3> QED
      BY <2>1, <2>2, Modulo, Zenon
  <2>4. NextWant(w, n) = Min2(buf_size, x % U64)
    BY Zenon DEF NextWant
  <2> HIDE DEF x
  <2>5. w + n < T => NextWant(w, n) = Min2(buf_size, x)
    BY <2>3, <2>4, Zenon
  <2> QED
    BY <2>5, Zenon DEF x
<1>14. t'.proc = 1 - t'.read /\ t.read \in 0 .. 1
  <2>1. t.read \in {0, 1}
    BY <1>1 DEF Threads
  <2> QED
    BY <1>2, <2>1
<1> HIDE DEF n, m, s, w, T, file
<1>15. w % SectorSize = 0
  BY <1>4, Zenon DEF ReadAhead, w
<1>16. s + m \in Nat
  BY <1>5, <1>9
<1>17. ReadAhead'
  BY <1>2, <1>11, <1>12, <1>13, <1>14, <1>15, <1>16, Zenon DEF ReadAhead
<1>18. ReadBefore'
  <2>1. job.mode = "image" => w + n <= CEILING_ALIGN(T)
    BY <1>5, <1>7, <1>12
  <2>2. read_size'[t'.proc] = n /\ t'.pc = "write" /\ buffer' = buffer /\ t'.proc = t.read /\ t'.wb = w /\ job' = job
    BY <1>1, <1>2, Zenon
  <2> QED
    BY <1>6, <1>11, <1>12, <2>1, <2>2, Zenon DEF ReadBefore
<1> QED
  BY <1>17, <1>18, Zenon DEF Reading

\* A block of the image is written: the next one follows it.
LEMMA WriteKeepsReading ==
    ASSUME Base, Reading, WriteBlock
    PROVE  Reading'
<1>1. /\ job' = job /\ buffer' = buffer /\ io' = io /\ read_size' = read_size /\ job \in Jobs /\ io \in Reads /\ t \in Threads
      /\ read_size \in [0 .. 1 -> 0 .. buf_size] /\ Types
  BY Zenon DEF WriteBlock, source, Base, Types
<1>2. SUFFICES ASSUME Raw PROVE Reading'
  BY <1>1, Zenon DEF Reading, Copying, Raw
<1>3. ~Zeroing
  BY <1>2, Zenon DEF Raw, Zeroing
<1> DEFINE r == read_size[t.proc]
<1>4. /\ t.pc = "write" /\ t'.pc = "copy" /\ t'.wb = t.wb + r /\ t'.read = t.read /\ t'.proc = t.proc
  BY <1>1, <1>3, WriteBlockIs, WrittenBlockIs, Zenon DEF loop, InUse
<1>5. ReadAhead /\ ReadBefore
  BY <1>2, <1>4, Zenon DEF Reading, Copying
<1>6. r \in Nat /\ t.wb \in Nat
  BY <1>1, Sizes DEF Threads
<1>7. t'.wb % SectorSize = 0
  BY <1>4, <1>5, <1>6, SectorsAdd DEF ReadAhead, ReadBefore
<1>8. Ahead = t.wb + r
  BY <1>4, Zenon DEF Ahead
<1> HIDE DEF r
<1>9. Ahead' = Ahead /\ Start' = Start /\ target_size' = target_size /\ Available' = Available
  BY <1>1, <1>4, <1>6, <1>8 DEF Ahead, Start, target_size, Zeroing, Available
<1>10. ReadAhead'
  BY <1>1, <1>4, <1>5, <1>7, <1>9, Zenon DEF ReadAhead
<1>11. ReadBefore'
  <2>1. r = 0 => t.wb >= Available
    BY <1>5, Zenon DEF ReadBefore, r
  <2>2. t'.wb >= t.wb /\ read_size'[t'.proc] = r
    BY <1>1, <1>4, <1>6 DEF r
  <2>3. Available \in Nat
    BY <1>1, TargetIs, Zenon DEF Available, Min2
  <2>4. r = 0 => t'.wb >= Available
    BY <1>4, <1>6, <2>1, <2>3
  <2> QED
    BY <1>4, <1>9, <2>2, <2>4, Zenon DEF ReadBefore
<1> QED
  BY <1>10, <1>11, Zenon DEF Reading

\* Copying an image: what the buffers and the read in flight hold is what
\* follows in the image.
LEMMA StepKeepsReading ==
    ASSUME Base, Reading, [Next]_vars PROVE Reading'
<1>1. ASSUME t'.pc \notin {"copy", "write"} \/ (Zeroing /\ job' = job) PROVE Reading'
  BY <1>1, Zenon DEF Reading, Copying, Raw, Zeroing
<1>2. CASE CheckBegins \/ CheckTests \/ CheckEnds \/ CheckAlarm
  <2>1. t.pc = "check" /\ (t'.pc \in {"done", "start"} \/ t' = t)
    BY <1>2, CheckStepIs, Zenon DEF CheckStep, Stopped
  <2> QED
    BY <1>1, <2>1, Zenon
<1>3. CASE BeginZero \/ BeginCompressed
  BY <1>1, <1>3, BeginZeroIs, BeginCompressedIs, Zenon
<1>4. CASE ZeroBlock \/ CompareBlock
  BY <1>1, <1>4, Zenon DEF Base, Placed, ZeroBlock, CompareBlock
<1>5. CASE BeginImage \/ SwitchBuffers \/ IoCompletes \/ WriteBlock
  BY <1>5, BeginKeepsReading, SwitchKeepsReading, IoKeepsReading, WriteKeepsReading, Zenon
<1>6. CASE ReadFault \/ WriteCancelled \/ Finish \/ BledFails \/ BledEnds
  BY <1>1, <1>6, FaultIs, FinishIs, BledFailsIs, BledEndsIs, Zenon DEF Stopped
<1>7. CASE WriteFails
  <2>1. t.pc = "write" /\ (t'.pc = "done" \/ (t'.pc = "write" /\ SameCount(t', t)))
    BY <1>7, WriteFailsIs, Zenon DEF Stopped
  <2>2. UNCHANGED <<job, io, buffer, read_size>>
    BY <1>7, Zenon DEF WriteFails, source
  <2> QED
    BY <1>1, <2>1, <2>2, QuietKeepsReading, Zenon
<1>8. CASE \E n \in 1 .. buf_size : sector_write(n)
  BY <1>1, <1>8, SectorWritten, Zenon
<1>9. CASE UserCancels \/ UNCHANGED vars
  BY <1>9, QuietKeepsReading, Zenon DEF UserCancels, vars, source, SameCount
<1> QED
  BY <1>2, <1>3, <1>4, <1>5, <1>6, <1>7, <1>8, <1>9, NextIs, Zenon DEF OtherStep

\* The buffer of zeroes stays as it was filled.
LEMMA StepKeepsZeroes ==
    ASSUME Base, ZeroesReady, [Next]_vars PROVE ZeroesReady'
<1>1. ASSUME UNCHANGED <<job, io, buffer>>, t'.pc \in Loop /\ Zeroing => t.pc \in Loop PROVE ZeroesReady'
  BY <1>1, Zenon DEF ZeroesReady, Zeroing, Blank
<1>2. CASE CheckBegins \/ CheckTests \/ CheckEnds \/ CheckAlarm
  <2>1. /\ t.pc = "check" /\ (t'.pc \in {"done", "start"} \/ t' = t)
        /\ UNCHANGED <<job, io, buffer>>
    BY <1>2, CheckStepIs, Zenon DEF CheckStep, Stopped
  <2> QED
    BY <1>1, <2>1, Zenon DEF Loop
<1>3. CASE BeginZero
  <2>1. /\ t'.pc = "done" \/ buffer' = [buffer EXCEPT ![0] = Blank]
        /\ buffer \in Buffers /\ job' = job /\ io' = io /\ t.pc = "start" /\ Untouched
    BY <1>3, BeginZeroIs, Zenon DEF Blank, Base, Types, Placed, BeginZero
  <2> QED
    BY <2>1 DEF ZeroesReady, Loop, Buffers, Untouched, Blank, Zeroing
<1>4. CASE ZeroBlock \/ CompareBlock \/ ReadFault \/ WriteBlock \/ WriteFails \/ WriteCancelled
  BY <1>1, <1>4, Zenon DEF ZeroBlock, CompareBlock, ReadFault, WriteBlock, WriteFails, WriteCancelled,
     source, Loop
<1>5. CASE BeginCompressed \/ BeginImage \/ SwitchBuffers
  BY <1>5, Zenon DEF Base, Placed, BeginCompressed, BeginImage, SwitchBuffers, ZeroesReady, Zeroing, Raw
<1>6. CASE IoCompletes
  BY <1>6, Zenon DEF ZeroesReady, Zeroing, IoCompletes
<1>7. CASE Finish \/ BledFails \/ BledEnds
  <2>1. t'.pc = "done" /\ UNCHANGED <<job, io, buffer>>
    BY <1>7, FinishIs, BledFailsIs, BledEndsIs, Zenon DEF Finish, BledFails, BledEnds, source
  <2> QED
    BY <1>1, <2>1, Zenon DEF Loop
<1>8. CASE \E n \in 1 .. buf_size : sector_write(n)
  BY <1>1, <1>8, Zenon DEF sector_write, source
<1>9. CASE UserCancels \/ UNCHANGED vars
  BY <1>1, <1>9, Zenon DEF UserCancels, vars, source
<1> QED
  BY <1>2, <1>3, <1>4, <1>5, <1>6, <1>7, <1>8, <1>9, NextIs, Zenon DEF OtherStep

\* sector_write keeps what it has not written yet, and the pointer is before it.
LEMMA SectorKeepsKeeping ==
    ASSUME Base, Keeping, NEW n \in 1 .. buf_size, sector_write(n) PROVE Keeping'
<1>1. /\ t' = t /\ t.pc = "unpack" /\ pos' = pos + Len(ToWrite(n))
      /\ sec'.pos = Len(Leftover(n)) /\ sec'.fed = sec.fed + n
      /\ \A k \in 1 .. sec'.pos : sec'.buf[k] = Leftover(n)[k]
  BY SectorWritten, Zenon
<1>2. sec \in SectorBufs /\ n \in Nat /\ pos \in Nat /\ InOrder /\ sec.pos <= sec.fed /\ (t.rewound => pos = sec.fed - sec.pos)
  BY <1>1, Sizes DEF Base, Types, Keeping
<1>3. /\ ToWrite(n) \in Seq(Bytes) /\ Len(Leftover(n)) \in 0 .. SectorSize - 1
      /\ Len(ToWrite(n)) + Len(Leftover(n)) = sec.pos + n
      /\ \A k \in 1 .. Len(Leftover(n)) : Leftover(n)[k] = sec.fed - sec.pos + Len(ToWrite(n)) + k
  BY <1>2, SectorWriteIs, Zenon
<1> DEFINE a == Len(ToWrite(n))
           l == Len(Leftover(n))
<1>4. a \in Nat /\ l \in Nat /\ sec.pos \in Nat /\ sec.fed \in Nat
  BY <1>2, <1>3, Sizes DEF SectorBufs
<1>5. a + l = sec.pos + n
  BY <1>3, Zenon
<1>6. \A k \in 1 .. l : sec'.buf[k] = sec.fed - sec.pos + a + k
  BY <1>1, <1>3, Zenon
<1>7. sec'.pos = l /\ sec'.fed = sec.fed + n /\ (t.rewound => pos' = sec.fed - sec.pos + a)
  BY <1>1, <1>2, Zenon
<1> HIDE DEF a, l
<1>8. sec.fed - sec.pos + a = sec'.fed - sec'.pos /\ sec'.pos <= sec'.fed
  BY <1>2, <1>4, <1>5, <1>7
<1>9. InOrder'
  BY <1>6, <1>7, <1>8, Zenon DEF InOrder
<1> QED
  BY <1>1, <1>7, <1>8, <1>9, Zenon DEF Keeping

\* Unpacking: sector_write has the last bytes it was given.
LEMMA StepKeepsKeeping ==
    ASSUME Base, Keeping, [Next]_vars PROVE Keeping'
<1>1. ASSUME t'.pc # "unpack" PROVE Keeping'
  BY <1>1, Zenon DEF Keeping
<1>2. CASE CheckBegins \/ CheckTests \/ CheckEnds \/ CheckAlarm
  <2>1. t.pc = "check" /\ (t'.pc \in {"done", "start"} \/ t' = t)
    BY <1>2, CheckStepIs, Zenon DEF CheckStep, Stopped
  <2> QED
    BY <1>1, <2>1, Zenon
<1>3. CASE BeginZero \/ BeginImage \/ ZeroBlock \/ CompareBlock \/ SwitchBuffers
  BY <1>1, <1>3, BeginZeroIs, BeginImageIs, ZeroBlockIs, CompareBlockIs, SwitchBuffersIs, Zenon
<1>4. CASE BeginCompressed
  <2>1. /\ t'.pc = "done" \/ (t'.pc = "unpack" /\ (t'.rewound => pos' = 0))
        /\ sec' = sec /\ sec.pos = 0 /\ sec.fed = 0
    BY <1>4, BeginCompressedIs, Zenon DEF BeginCompressed, unpacker, Untouched
  <2> QED
    BY <2>1 DEF Keeping, InOrder
<1>5. CASE ReadFault \/ WriteCancelled \/ WriteBlock \/ WriteFails
  BY <1>1, <1>5, FaultIs, WriteBlockIs, WriteFailsIs, Zenon DEF Stopped, loop
<1>6. CASE Finish \/ BledFails \/ BledEnds
  BY <1>1, <1>6, FinishIs, BledFailsIs, BledEndsIs, Zenon
<1>7. CASE \E n \in 1 .. buf_size : sector_write(n)
  BY <1>7, SectorKeepsKeeping, Zenon
<1>8. CASE IoCompletes \/ UserCancels \/ UNCHANGED vars
  BY <1>8, Zenon DEF IoCompletes, UserCancels, vars, unpacker, Keeping, InOrder
<1> QED
  BY <1>2, <1>3, <1>4, <1>5, <1>6, <1>7, <1>8, NextIs, Zenon DEF OtherStep

\* Until the end there is nothing to return.
LEMMA StepKeepsOpen ==
    ASSUME Base, Open, [Next]_vars PROVE Open'
<1>1. ASSUME t.pc # "done", t'.ret = t.ret, t'.out = t.out \/ t'.pc = "done" PROVE Open'
  BY <1>1, Zenon DEF Open
<1>2. CASE CheckBegins \/ CheckTests \/ CheckEnds \/ CheckAlarm
  <2>1. t.pc = "check" /\ (t'.pc = "done" \/ (t'.ret = t.ret /\ t'.out = t.out))
    BY <1>2, CheckStepIs, Zenon DEF CheckStep, Stopped
  <2> QED
    BY <2>1, Zenon DEF Open
<1>3. CASE BeginZero \/ BeginImage \/ BeginCompressed
  BY <1>1, <1>3, BeginZeroIs, BeginImageIs, BeginCompressedIs, Zenon
<1>4. CASE ZeroBlock \/ CompareBlock \/ SwitchBuffers
  BY <1>1, <1>4, ZeroBlockIs, CompareBlockIs, SwitchBuffersIs, Zenon
<1>5. CASE ReadFault \/ WriteCancelled \/ WriteBlock \/ WriteFails
  BY <1>1, <1>5, FaultIs, WriteBlockIs, WriteFailsIs, Zenon DEF Stopped
<1>6. CASE Finish \/ BledFails \/ BledEnds
  BY <1>6, FinishIs, BledFailsIs, BledEndsIs, Zenon DEF Open
<1>7. CASE \E n \in 1 .. buf_size : sector_write(n)
  BY <1>7, SectorWritten, Zenon DEF Open
<1>8. CASE IoCompletes \/ UserCancels \/ UNCHANGED vars
  BY <1>8, Zenon DEF IoCompletes, UserCancels, vars, Open
<1> QED
  BY <1>2, <1>3, <1>4, <1>5, <1>6, <1>7, <1>8, NextIs, Zenon DEF OtherStep

\* The job and the drive are what they are.
LEMMA SameJob ==
    ASSUME [Next]_vars PROVE job' = job /\ media' = media
<1>1. CASE CheckBegins \/ CheckTests \/ CheckEnds \/ CheckAlarm
  BY <1>1, Zenon DEF CheckBegins, CheckTests, CheckEnds, CheckAlarm
<1>2. CASE OtherStep
  <2>1. media' = media
    BY <1>2, OthersLeaveCheck, Zenon DEF check
  <2>2. CASE BeginZero \/ BeginCompressed \/ BeginImage \/ ZeroBlock \/ CompareBlock \/ SwitchBuffers \/ ReadFault
    BY <2>1, <2>2, Zenon DEF BeginZero, BeginCompressed, BeginImage, ZeroBlock, CompareBlock, SwitchBuffers,
       ReadFault
  <2>3. CASE WriteBlock \/ WriteFails \/ WriteCancelled \/ Finish \/ BledFails \/ BledEnds
    BY <2>1, <2>3, Zenon DEF WriteBlock, WriteFails, WriteCancelled, Finish, BledFails, BledEnds
  <2>4. CASE (\E n \in 1 .. buf_size : sector_write(n)) \/ IoCompletes \/ UserCancels \/ UNCHANGED vars
    BY <2>1, <2>4, Zenon DEF sector_write, IoCompletes, UserCancels, vars
  <2> QED
    BY <1>2, <2>2, <2>3, <2>4, Zenon DEF OtherStep
<1> QED
  BY <1>1, <1>2, NextIs, Zenon

\* What is in the buffers, at the start
LEMMA InitPrep ==
    ASSUME Init PROVE Prep
<1>1. t.pc \in {"check", "start"} /\ ~t.ret /\ t.out = "-" /\ io.st = "none"
  BY Zenon DEF Init
<1>2. ZeroesReady /\ Reading /\ Keeping /\ Open
  BY <1>1, Zenon DEF ZeroesReady, Reading, Copying, Keeping, Open, Loop
<1>3. Unchecked
  <2>1. ~ job.check => media = Sound
    BY Zenon DEF Init
  <2>2. Sound.size = last_block /\ \A b \in Blocks : Sound.kind[b] = "good"
    BY Zenon DEF Sound
  <2> QED
    BY <2>1, <2>2, Zenon DEF Unchecked, Good
<1> QED
  BY <1>2, <1>3, Zenon DEF Prep

\* and after every step.
LEMMA StepKeepsPrep ==
    ASSUME Base, Prep, [Next]_vars PROVE Prep'
<1>1. Unchecked'
  BY SameJob, Zenon DEF Prep, Unchecked, Good
<1> QED
  BY <1>1, StepKeepsZeroes, StepKeepsReading, StepKeepsKeeping, StepKeepsOpen, Zenon DEF Prep

-----------------------------------------------------------------------------
(***************************************************************************)
(* What is on the drive                                                    *)
(***************************************************************************)
\* On a drive that is as it should be and was rewound: the blocks behind the
\* counter
WipedBehind == Zeroing => \A k \in 0 .. t.wb - 1 : Wiped(k)

CopiedBehind == Raw => \A k \in 0 .. t.wb - 1 : k < Available => drive[k] = k + 1

PassedOn == t.pc = "unpack" => \A k \in 0 .. sec.fed - sec.pos - 1 : drive[k] = k + 1

OldAfter == job.mode = "image" => \A k \in CEILING_ALIGN(Min2(DiskSize, job.image)) .. DiskSize - 1 : drive[k] = OLD

Final == t.rewound /\ Good => WipedBehind /\ CopiedBehind /\ PassedOn /\ OldAfter

\* A step that writes nothing and counts nothing
LEMMA QuietKeepsFinal ==
    ASSUME Final, [Next]_vars, drive' = drive, t'.wb = t.wb, t'.rewound = t.rewound,
           t'.pc = "unpack" => t.pc = "unpack" /\ sec' = sec
    PROVE  Final'
<1>1. job' = job /\ media' = media /\ drive' = drive /\ t'.wb = t.wb
  BY SameJob, Zenon
<1>2. Good' <=> Good
  BY <1>1, Zenon DEF Good
<1>3. WipedBehind => WipedBehind'
  BY <1>1, Zenon DEF WipedBehind, Zeroing, Wiped
<1>4. CopiedBehind => CopiedBehind'
  BY <1>1, Zenon DEF CopiedBehind, Raw, Available, target_size, Zeroing
<1>5. PassedOn => PassedOn'
  BY <1>1, Zenon DEF PassedOn
<1>6. OldAfter => OldAfter'
  BY <1>1, Zenon DEF OldAfter
<1> QED
  BY <1>2, <1>3, <1>4, <1>5, <1>6, Zenon DEF Final

\* The work begins: nothing is behind the counter, nothing was written.
LEMMA BeginKeepsFinal ==
    ASSUME Base, BeginZero \/ BeginCompressed \/ BeginImage, [Next]_vars
    PROVE  Final'
<1>1. job' = job /\ drive' = drive /\ sec' = sec /\ t'.wb = 0 /\ Untouched
  BY BeginZeroIs, BeginCompressedIs, BeginImageIs, Zenon DEF BeginZero, BeginCompressed, BeginImage,
     unpacker, Base, Placed
<1>2. WipedBehind' /\ CopiedBehind'
  BY <1>1 DEF WipedBehind, CopiedBehind
<1>3. PassedOn'
  BY <1>1 DEF PassedOn, Untouched
<1>4. OldAfter'
  <2>1. ASSUME job.mode = "image" PROVE CEILING_ALIGN(Min2(DiskSize, job.image)) \in Nat
    <3>1. Min2(DiskSize, job.image) \in Nat
      BY <2>1, TargetIs, Zenon DEF Base, Types
    <3> QED
      BY <3>1, AlignIs, Zenon
  <2>2. ASSUME job.mode = "image", NEW k \in CEILING_ALIGN(Min2(DiskSize, job.image)) .. DiskSize - 1
        PROVE  drive[k] = OLD
    BY <1>1, <2>1, <2>2, Sizes DEF Untouched
  <2> QED
    BY <1>1, <2>2, Zenon DEF OldAfter
<1> QED
  BY <1>2, <1>3, <1>4, Zenon DEF Final

\* Fast zeroing skips a block that is empty.
LEMMA CompareKeepsFinal ==
    ASSUME Base, Final, CompareBlock, [Next]_vars PROVE Final'
<1>1. CASE t'.wb = t.wb
  <2>1. t'.rewound = t.rewound /\ drive' = drive /\ t'.pc # "unpack"
    BY CompareBlockIs, Zenon DEF SameCount, CompareBlock
  <2> QED
    BY <1>1, <2>1, QuietKeepsFinal, Zenon
<1>2. CASE t'.wb # t.wb
  <2>1. /\ t'.pc = "zero" /\ t'.wb = t.wb + read_size[0] /\ Empty(Block(pos)) /\ t'.rewound = t.rewound
        /\ pos + read_size[0] <= DiskSize
    BY <1>2, CompareBlockIs, Zenon DEF SameCount
  <2>2. /\ t.pc = "compare" /\ Zeroing /\ job.mode = "fast" /\ (t.rewound => pos = t.wb) /\ drive' = drive /\ job' = job /\ media' = media
        /\ read_size[0] \in 0 .. buf_size /\ t.wb \in Nat /\ buf_size \in Nat /\ read_size[0] \in Nat
    BY SameJob, Sizes DEF CompareBlock, Base, Types, Placed, Loop, Threads
  <2>3. SUFFICES ASSUME t.rewound, Good PROVE WipedBehind' /\ CopiedBehind' /\ PassedOn' /\ OldAfter'
    BY <2>1, <2>2, Zenon DEF Final, Good
  <2>4. WipedBehind
    BY <2>3, Zenon DEF Final
  <2>5. CopiedBehind' /\ OldAfter' /\ PassedOn'
    BY <2>1, <2>2, Zenon DEF CopiedBehind, OldAfter, PassedOn, Raw, Zeroing
  <2>6. PICK b \in {ZERO, FF} : \A k \in 1 .. Len(Block(pos)) : Block(pos)[k] = b
    BY <2>1, Zenon DEF Empty
  <2>7. Len(Block(pos)) = read_size[0] /\ \A k \in 1 .. read_size[0] : Block(pos)[k] = drive[pos + k - 1]
    <3>1. read_size[0] \in Nat
      BY <2>2, Zenon
    <3> QED
      BY <3>1 DEF Block
  <2>8. ASSUME NEW k \in 0 .. t'.wb - 1 PROVE Wiped(k)'
    <3>1. CASE k < t.wb
      <4>1. Wiped(k)
        BY <2>2, <2>4, <3>1 DEF WipedBehind
      <4> QED
        BY <2>2, <4>1, Zenon DEF Wiped
    <3>2. CASE k >= t.wb
      <4> DEFINE i == k - t.wb + 1
      <4>1. i \in 1 .. read_size[0] /\ pos + i - 1 = k
        BY <2>1, <2>2, <2>3, <3>2
      <4>2. drive[k] = b
        BY <2>6, <2>7, <4>1, Zenon
      <4>3. job.mode = "fast"
        BY <2>2, Zenon
      <4> QED
        BY <2>2, <4>2, <4>3, Zenon DEF Wiped
    <3> QED
      BY <2>1, <2>2, <3>1, <3>2, SMTT(30)
  <2>9. WipedBehind'
    BY <2>8, Zenon DEF WipedBehind
  <2> QED
    BY <2>5, <2>9, Zenon
<1> QED
  BY <1>1, <1>2, Zenon

\* A write, complete or not, puts the right bytes in their places, behind the
\* counter it changes nothing, and nothing after the end of the image.
LEMMA BlockPut ==
    ASSUME Base, Prep, Good, t.rewound, t.pc = "write", job' = job, media' = media,
           WipedBehind, CopiedBehind, OldAfter,
           NEW d \in Seq(Bytes), Len(d) <= Len(written), \A k \in 1 .. Len(d) : d[k] = written[k],
           Fits(pos, d), drive' = Put(pos, d)
    PROVE  /\ Zeroing => \A k \in 0 .. t.wb + Len(d) - 1 : Wiped(k)'
           /\ Raw => \A k \in 0 .. t.wb + Len(d) - 1 : k < Available => drive'[k] = k + 1
           /\ OldAfter'
<1> DEFINE n == Len(d)
           w == t.wb
           r == read_size[InUse]
           B == buffer[InUse]
<1>1. Types /\ pos = w /\ w \in Nat /\ pos \in Nat /\ drive \in Drives /\ job \in Jobs /\ pos \in 0 .. DiskSize
  BY Sizes DEF Base, Types, Placed, Loop, Threads
<1>2. /\ written \in Seq(Bytes) /\ Len(written) = r /\ InUse \in 0 .. 1 /\ r \in 0 .. buf_size
      /\ \A k \in 1 .. r : written[k] = B[k]
  BY <1>1, WrittenBlockIs, Zenon
<1>3. n \in Nat /\ r \in Nat /\ DiskSize \in Nat /\ n <= r /\ r <= buf_size
  BY <1>2, Sizes
<1>4. w + n <= DiskSize
  BY <1>1, <1>3, FitsIs
<1>5. \A k \in 1 .. n : d[k] = B[k]
  BY <1>2, <1>3
<1>6. \A a \in 0 .. DiskSize - 1 : drive'[a] = IF a \in pos .. pos + Len(d) - 1 THEN d[a - pos + 1] ELSE drive[a]
  BY <1>1, PutGood, Zenon
<1>7. \A a \in 0 .. DiskSize - 1 : drive'[a] = IF a \in w .. w + n - 1 THEN d[a - w + 1] ELSE drive[a]
  BY <1>1, <1>6, Zenon
<1> HIDE DEF n, w, r, B
<1>8. ASSUME NEW k \in 0 .. w + n - 1
      PROVE  /\ k \in 0 .. DiskSize - 1
             /\ k < w => drive'[k] = drive[k] /\ k \in 0 .. w - 1
             /\ k >= w => k - w + 1 \in 1 .. n /\ drive'[k] = B[k - w + 1]
  <2>1. k \in 0 .. DiskSize - 1 /\ (k < w => k \in 0 .. w - 1)
    BY <1>1, <1>3, <1>4
  <2>2. CASE k < w
    <3>1. k \notin w .. w + n - 1
      BY <1>1, <1>3, <2>2
    <3> QED
      BY <1>1, <1>7, <2>1, <2>2, <3>1
  <2>3. CASE k >= w
    <3>1. k \in w .. w + n - 1 /\ k - w + 1 \in 1 .. n
      BY <1>1, <1>3, <2>3
    <3> QED
      BY <1>1, <1>5, <1>7, <2>1, <2>3, <3>1
  <2> QED
    BY <1>1, <2>1, <2>2, <2>3, Zenon
<1>9. ASSUME Zeroing, NEW k \in 0 .. w + n - 1 PROVE Wiped(k)'
  <2>1. CASE k < w
    <3>1. Wiped(k) /\ drive'[k] = drive[k]
      BY <1>8, <1>9, <2>1, Zenon DEF WipedBehind, w
    <3> QED
      BY <3>1, Zenon DEF Wiped
  <2>2. CASE k >= w
    <3>1. k - w + 1 \in 1 .. n /\ drive'[k] = B[k - w + 1]
      BY <1>8, <2>2, Zenon
    <3>2. B = Blank
      BY <1>9, Zenon DEF B, InUse, Prep, ZeroesReady, Loop
    <3>3. k - w + 1 \in 1 .. buf_size
      BY <1>3, <3>1, Sizes
    <3>4. Blank[k - w + 1] = IF job.mode = "fast" THEN FF ELSE ZERO
      BY <3>3, Zenon DEF Blank, Fill
    <3> QED
      BY <3>1, <3>2, <3>4, Zenon DEF Wiped
  <2> QED
    BY <1>1, <1>3, <2>1, <2>2
<1>10. ASSUME Raw PROVE InUse = t.proc /\ ReadBefore
  BY <1>10, Zenon DEF Raw, InUse, Zeroing, Prep, Reading, Copying
<1>11. ASSUME Raw, NEW k \in 0 .. w + n - 1, k < Available PROVE drive'[k] = k + 1
  <2>1. CASE k < w
    <3>1. drive[k] = k + 1 /\ drive'[k] = drive[k]
      BY <1>8, <1>11, <2>1, Zenon DEF CopiedBehind, w
    <3> QED
      BY <3>1, Zenon
  <2>2. CASE k >= w
    <3> DEFINE i == k - w + 1
    <3>1. i \in 1 .. n /\ drive'[k] = B[i]
      BY <1>8, <2>2, Zenon
    <3>2. i \in 1 .. r
      BY <1>3, <3>1
    <3>3. w + i = k + 1 /\ k \in Nat
      BY <1>1, <1>3
    <3>4. Available \in Nat
      BY <1>1, TargetIs, Zenon DEF Available, Min2
    <3>5. w + i <= Available
      BY <1>11, <3>3, <3>4
    <3> HIDE DEF i
    <3>6. \A j \in 1 .. r : w + j <= Available => B[j] = w + j
      BY <1>10, <1>11, Zenon DEF ReadBefore, r, B, w
    <3>7. B[i] = w + i
      BY <3>2, <3>5, <3>6, Zenon
    <3> QED
      BY <3>1, <3>3, <3>7, Zenon
  <2> QED
    BY <1>1, <1>3, <2>1, <2>2
<1>12. OldAfter'
  <2> DEFINE c == CEILING_ALIGN(Min2(DiskSize, job.image))
  <2>1. SUFFICES ASSUME job.mode = "image", NEW k \in c .. DiskSize - 1 PROVE drive'[k] = OLD
    BY Zenon DEF OldAfter
  <2>2. w + r <= c
    BY <1>1, <1>10, <2>1, TargetIs, Zenon DEF ReadBefore, Raw, w, r
  <2>3. c \in Nat
    BY <1>1, <2>1, TargetIs, AlignIs, Zenon
  <2>4. drive[k] = OLD
    BY <2>1, Zenon DEF OldAfter
  <2> HIDE DEF c
  <2>5. k \in 0 .. DiskSize - 1 /\ k \notin w .. w + n - 1
    BY <1>1, <1>3, <2>2, <2>3
  <2> QED
    BY <1>7, <2>4, <2>5, Zenon
<1> QED
  BY <1>9, <1>11, <1>12, Zenon DEF w, n

\* A block that is written is final, and follows what is behind the counter.
LEMMA WriteKeepsFinal ==
    ASSUME Base, Prep, Final, WriteBlock, [Next]_vars PROVE Final'
<1>1. /\ t.pc = "write" /\ t'.pc = loop /\ t'.wb = t.wb + Len(written) /\ t'.rewound = t.rewound
      /\ job' = job /\ media' = media /\ drive' = Put(pos, written) /\ Fits(pos, written)
  BY WriteBlockIs, SameJob, Zenon DEF WriteBlock
<1>2. SUFFICES ASSUME t.rewound, Good PROVE WipedBehind' /\ CopiedBehind' /\ PassedOn' /\ OldAfter'
  BY <1>1, Zenon DEF Final, Good
<1>3. written \in Seq(Bytes) /\ Len(written) <= Len(written)
  <2>1. written \in Seq(Bytes) /\ Len(written) \in Nat
    BY WrittenBlockIs DEF Base
  <2> QED
    BY <2>1
<1>4. WipedBehind /\ CopiedBehind /\ OldAfter
  BY <1>2, Zenon DEF Final
<1>5. /\ Zeroing => \A k \in 0 .. t.wb + Len(written) - 1 : Wiped(k)'
      /\ Raw => \A k \in 0 .. t.wb + Len(written) - 1 : k < Available => drive'[k] = k + 1
      /\ OldAfter'
  BY <1>1, <1>2, <1>3, <1>4, BlockPut, Zenon
<1> DEFINE w == t.wb + Len(written)
<1>b. w - 1 = t.wb + Len(written) - 1
  <2>1. t.wb \in Int /\ Len(written) \in Int
    BY <1>3, Sizes DEF Base, Types, Threads
  <2> QED
    BY <2>1
<1>a. /\ t'.wb = w
      /\ Zeroing => \A k \in 0 .. w - 1 : Wiped(k)'
      /\ Raw => \A k \in 0 .. w - 1 : k < Available => drive'[k] = k + 1
  BY <1>1, <1>5, <1>b, Zenon
<1> HIDE DEF w
<1>6. WipedBehind'
  BY <1>1, <1>a, Zenon DEF WipedBehind, Zeroing
<1>7. CopiedBehind'
  BY <1>1, <1>a, Zenon DEF CopiedBehind, Raw, Available, target_size, Zeroing
<1>8. PassedOn'
  BY <1>1, Zenon DEF PassedOn, loop
<1> QED
  BY <1>5, <1>6, <1>7, <1>8, Zenon

\* A failed write may have changed what is ahead of the counter, never what is
\* behind it.
LEMMA FailKeepsFinal ==
    ASSUME Base, Prep, Final, WriteFails, [Next]_vars PROVE Final'
<1>1. /\ t.pc = "write" /\ t'.pc \in {"write", "done"} /\ t'.wb = t.wb /\ t'.rewound = t.rewound
      /\ job' = job /\ media' = media
  BY WriteFailsIs, SameJob, Zenon DEF Stopped, SameCount
<1>2. PICK p \in Prefixes(written) : Fits(pos, p) /\ drive' = Put(pos, p)
  BY WriteFailsIs, Zenon
<1>3. SUFFICES ASSUME t.rewound, Good PROVE WipedBehind' /\ CopiedBehind' /\ PassedOn' /\ OldAfter'
  BY <1>1, Zenon DEF Final, Good
<1>4. written \in Seq(Bytes)
  BY WrittenBlockIs, Zenon DEF Base
<1>5. p \in Seq(Bytes) /\ Len(p) <= Len(written) /\ \A k \in 1 .. Len(p) : p[k] = written[k]
  BY <1>4, PrefixIs, Zenon
<1>6. WipedBehind /\ CopiedBehind /\ OldAfter
  BY <1>3, Zenon DEF Final
<1>7. /\ Zeroing => \A k \in 0 .. t.wb + Len(p) - 1 : Wiped(k)'
      /\ Raw => \A k \in 0 .. t.wb + Len(p) - 1 : k < Available => drive'[k] = k + 1
      /\ OldAfter'
  BY <1>1, <1>2, <1>3, <1>5, <1>6, BlockPut, Zenon
<1>8. \A k \in 0 .. t.wb - 1 : k \in 0 .. t.wb + Len(p) - 1
  <2>1. t.wb \in Nat /\ Len(p) \in Nat
    BY <1>5, Sizes DEF Base, Types, Threads
  <2> QED
    BY <2>1
<1>9. WipedBehind'
  BY <1>1, <1>7, <1>8, Zenon DEF WipedBehind, Zeroing
<1>10. CopiedBehind'
  BY <1>1, <1>7, <1>8, Zenon DEF CopiedBehind, Raw, Available, target_size, Zeroing
<1>11. PassedOn'
  BY <1>1, Zenon DEF PassedOn
<1> QED
  BY <1>7, <1>9, <1>10, <1>11, Zenon

\* sector_write puts the bytes of the image in their places.
LEMMA SectorKeepsFinal ==
    ASSUME Base, Prep, Final, NEW n \in 1 .. buf_size, sector_write(n), [Next]_vars PROVE Final'
<1>1. /\ t' = t /\ t.pc = "unpack" /\ pos' = pos + Len(ToWrite(n))
      /\ sec'.pos = Len(Leftover(n)) /\ sec'.fed = sec.fed + n
      /\ job' = job /\ media' = media /\ drive' = Put(pos, ToWrite(n)) /\ Fits(pos, ToWrite(n))
  BY SectorWritten, SameJob, Zenon DEF sector_write
<1>2. /\ sec \in SectorBufs /\ n \in Nat /\ pos \in Nat /\ job.mode = "compressed" /\ drive \in Drives /\ pos \in 0 .. DiskSize
      /\ InOrder /\ (t.rewound => pos = sec.fed - sec.pos) /\ sec.pos \in Nat /\ sec.fed \in Nat
  BY <1>1, Sizes DEF Base, Types, Placed, Prep, Keeping, SectorBufs
<1>3. SUFFICES ASSUME t.rewound, Good PROVE WipedBehind' /\ CopiedBehind' /\ PassedOn' /\ OldAfter'
  BY <1>1, Zenon DEF Final, Good
<1>4. WipedBehind' /\ CopiedBehind' /\ OldAfter'
  BY <1>1, <1>2, Zenon DEF WipedBehind, CopiedBehind, OldAfter, Zeroing, Raw
<1> DEFINE d == ToWrite(n)
           a == Len(d)
           l == Len(Leftover(n))
<1>5. /\ d \in Seq(Bytes) /\ l \in Nat
      /\ a + l = sec.pos + n
      /\ \A k \in 1 .. a : d[k] = sec.fed - sec.pos + k
  BY <1>2, SectorWriteIs, Sizes
<1>6. a \in Nat /\ pos + a \in 0 .. DiskSize
  BY <1>1, <1>2, <1>5, FitsIs, Zenon
<1>7. \A b \in 0 .. DiskSize - 1 : drive'[b] = IF b \in pos .. pos + a - 1 THEN d[b - pos + 1] ELSE drive[b]
  BY <1>1, <1>2, <1>3, <1>5, PutGood, Zenon
<1>8. \A k \in 0 .. pos - 1 : drive[k] = k + 1
  BY <1>1, <1>2, <1>3, Zenon DEF Final, PassedOn
<1>9. sec'.pos = l /\ sec'.fed = sec.fed + n /\ pos = sec.fed - sec.pos
  BY <1>1, <1>2, <1>3, Zenon
<1> HIDE DEF d, a, l
<1>10. sec'.fed - sec'.pos = pos + a
  <2> DEFINE x == sec.pos
             y == sec.fed
  <2>1. x \in Nat /\ y \in Nat /\ n \in Nat /\ a \in Nat /\ l \in Nat /\ a + l = x + n /\ pos = y - x
    BY <1>2, <1>5, <1>6, <1>9, Zenon
  <2>2. sec'.fed = y + n /\ sec'.pos = l
    BY <1>9, Zenon
  <2> HIDE DEF x, y
  <2>3. (y + n) - l = pos + a
    BY <2>1
  <2> QED
    BY <2>2, <2>3, Zenon
<1>11. ASSUME NEW k \in 0 .. pos + a - 1 PROVE drive'[k] = k + 1
  <2>1. k \in 0 .. DiskSize - 1
    BY <1>2, <1>6, Sizes
  <2>2. CASE k < pos
    <3>1. k \notin pos .. pos + a - 1 /\ k \in 0 .. pos - 1
      BY <1>2, <1>6, <2>2
    <3> QED
      BY <1>7, <1>8, <2>1, <3>1, Zenon
  <2>3. CASE k >= pos
    <3>1. k \in pos .. pos + a - 1 /\ k - pos + 1 \in 1 .. a /\ pos + (k - pos + 1) = k + 1
      BY <1>2, <1>6, <2>3
    <3>2. d[k - pos + 1] = pos + (k - pos + 1)
      BY <1>5, <1>9, <3>1, Zenon
    <3> QED
      BY <1>7, <2>1, <3>1, <3>2, Zenon
  <2> QED
    BY <1>2, <1>6, <2>2, <2>3
<1>12. PassedOn'
  <2> DEFINE e == pos + a
  <2>a. e - 1 = pos + a - 1
    BY <1>2, <1>6
  <2>1. \A k \in 0 .. e - 1 : drive'[k] = k + 1
    BY <1>11, <2>a, Zenon
  <2>2. sec'.fed - sec'.pos = e
    BY <1>10, Zenon
  <2> HIDE DEF e
  <2> QED
    BY <2>1, <2>2, Zenon DEF PassedOn
<1> QED
  BY <1>4, <1>12, Zenon

\* So what is behind the counter stays final.
LEMMA StepKeepsFinal ==
    ASSUME Base, Prep, Final, [Next]_vars PROVE Final'
<1>1. CASE CheckBegins \/ CheckTests \/ CheckEnds \/ CheckAlarm
  <2>1. ~t.rewound /\ t'.rewound = t.rewound
    BY <1>1, CheckStepIs, Zenon DEF CheckStep, Stopped, SameCount, Base, Placed, Untouched
  <2> QED
    BY <2>1, Zenon DEF Final
<1>2. CASE BeginZero \/ BeginCompressed \/ BeginImage
  BY <1>2, BeginKeepsFinal, Zenon
<1>3. CASE ZeroBlock \/ SwitchBuffers \/ ReadFault \/ WriteCancelled \/ Finish
  <2>1. /\ drive' = drive /\ t'.wb = t.wb /\ t'.rewound = t.rewound /\ t'.pc # "unpack"
    BY <1>3, ZeroBlockIs, SwitchBuffersIs, FaultIs, FinishIs, Zenon DEF ZeroBlock, SwitchBuffers, SameCount,
       Stopped
  <2> QED
    BY <2>1, QuietKeepsFinal, Zenon
<1>4. CASE CompareBlock \/ WriteBlock \/ WriteFails
  BY <1>4, CompareKeepsFinal, WriteKeepsFinal, FailKeepsFinal, Zenon
<1>5. CASE \E n \in 1 .. buf_size : sector_write(n)
  BY <1>5, SectorKeepsFinal, Zenon
<1>6. CASE BledFails \/ BledEnds
  <2>1. t'.pc = "done" /\ t.pc = "unpack" /\ job' = job
    BY <1>6, BledFailsIs, BledEndsIs, SameJob, Zenon
  <2>2. job.mode = "compressed"
    BY <2>1, Zenon DEF Base, Placed
  <2> QED
    BY <2>1, <2>2, Zenon DEF Final, WipedBehind, CopiedBehind, PassedOn, OldAfter, Zeroing, Raw
<1>7. CASE IoCompletes \/ UserCancels \/ UNCHANGED vars
  <2>1. drive' = drive /\ t' = t /\ sec' = sec
    BY <1>7, Zenon DEF IoCompletes, UserCancels, vars, unpacker
  <2> QED
    BY <2>1, QuietKeepsFinal, Zenon
<1> QED
  BY <1>1, <1>2, <1>3, <1>4, <1>5, <1>6, <1>7, NextIs, Zenon DEF OtherStep

\* What a return says
AllThere ==
    /\ Zeroing => \A k \in 0 .. DiskSize - 1 : Wiped(k)
    /\ Raw => \A k \in 0 .. Available - 1 : drive[k] = k + 1
    /\ job.mode = "compressed" =>
          \A k \in 0 .. job.file - (IF t.out = "tail" THEN sec.pos ELSE 0) - 1 : drive[k] = k + 1

Whole ==
    t.pc = "done" =>
        /\ t.ret /\ t.rewound /\ Good /\ ErrorStatus # "cancelled" => AllThere
        /\ ~t.ret /\ ErrorStatus = "none" => t.out \in {"reposition", "compare", "mount", "log"}

\* The loops are over: everything is behind the counter.
LEMMA FinishIsWhole ==
    ASSUME Base, Prep, Final, Finish, [Next]_vars PROVE Whole'
<1>1. /\ t'.pc = "done" /\ SameCount(t', t) /\ t'.ret /\ t'.out = t.out /\ drive' = drive
      /\ job' = job /\ media' = media /\ job \in Jobs /\ t.wb \in Nat
  BY FinishIs, SameJob, Sizes DEF Base, Types, Threads
<1>2. SUFFICES ASSUME t.rewound, Good PROVE AllThere'
  BY <1>1, Zenon DEF Whole, Good, SameCount
<1>3. WipedBehind /\ CopiedBehind
  BY <1>2, Zenon DEF Final
<1>4. job.mode # "compressed"
  BY Zenon DEF Finish, Base, Placed, Zeroing, Raw
<1>5. ASSUME Zeroing, NEW k \in 0 .. DiskSize - 1 PROVE Wiped(k)'
  <2>1. t.wb >= DiskSize
    BY <1>1, <1>5, TargetIs, Zenon DEF Finish, Base, Placed, Raw, Zeroing
  <2>2. k \in 0 .. t.wb - 1
    <3>1. t.wb \in Nat /\ DiskSize \in Nat
      BY <1>1, Sizes, Zenon
    <3> QED
      BY <2>1, <3>1
  <2>3. Wiped(k)
    BY <1>3, <1>5, <2>2, Zenon DEF WipedBehind
  <2> QED
    BY <1>1, <2>3, Zenon DEF Wiped
<1>6. ASSUME Raw PROVE Available \in Nat /\ t.wb >= Available
  <2>1. target_size \in Nat /\ job.file \in Nat
    BY <1>1, TargetIs, Zenon
  <2>2. t.pc = "copy" /\ (t.wb >= target_size \/ read_size[t.proc] = 0)
    BY <1>6, Zenon DEF Finish, Base, Placed, Raw, Zeroing
  <2>3. read_size[t.proc] = 0 => t.wb >= Available
    BY <1>6, <2>2, Zenon DEF Prep, Reading, Copying, ReadBefore
  <2> QED
    BY <1>1, <2>1, <2>2, <2>3 DEF Available, Min2
<1>7. ASSUME Raw, NEW k \in 0 .. Available - 1 PROVE drive[k] = k + 1
  <2>1. k \in 0 .. t.wb - 1 /\ k < Available
    BY <1>1, <1>6, <1>7
  <2> QED
    BY <1>3, <1>7, <2>1, Zenon DEF CopiedBehind
<1>8. Available' = Available
  BY <1>1, Zenon DEF Available, target_size, Zeroing
<1> QED
  BY <1>1, <1>4, <1>5, <1>7, <1>8, Zenon DEF AllThere, Zeroing, Raw

\* The whole image was handed over: it is on the drive, but for what the last
\* write, if it failed, was to put there.
LEMMA BledEndsWhole ==
    ASSUME Base, Prep, Final, BledEnds, [Next]_vars PROVE Whole'
<1>1. /\ t.pc = "unpack" /\ t'.pc = "done" /\ SameCount(t', t) /\ t'.ret /\ sec.fed = job.file /\ sec' = sec
      /\ job' = job /\ media' = media
      /\ \/ /\ Fits(pos, sec.buf) /\ drive' = Put(pos, sec.buf) /\ sec.buf \in Seq(Bytes) /\ Len(sec.buf) = SectorSize
            /\ t'.out = t.out
         \/ /\ drive' = drive /\ sec.pos = 0 /\ t'.out = t.out
         \/ /\ drive' = drive /\ t'.out = "tail"
  BY BledEndsIs, SameJob, Zenon
<1>2. /\ sec \in SectorBufs /\ job.mode = "compressed" /\ pos \in 0 .. DiskSize /\ drive \in Drives /\ t.out # "tail"
      /\ InOrder /\ (t.rewound => pos = sec.fed - sec.pos)
  BY <1>1, Zenon DEF Base, Types, Placed, Prep, Keeping, Open
<1>3. SUFFICES ASSUME t.rewound, Good PROVE AllThere'
  BY <1>1, Zenon DEF Whole, Good, SameCount
<1> DEFINE p == sec.pos
           n == sec.fed
           b == sec.buf
<1>4. p \in Nat /\ n \in Nat /\ p < SectorSize /\ SectorSize \in Nat /\ pos \in Nat /\ DiskSize \in Nat /\ pos = n - p
  BY <1>2, <1>3, Sizes DEF SectorBufs
<1>5. \A k \in 0 .. n - p - 1 : drive[k] = k + 1
  BY <1>1, <1>3, Zenon DEF Final, PassedOn
<1>6. \A k \in 1 .. p : b[k] = n - p + k
  BY <1>2, Zenon DEF InOrder
<1>7. /\ job'.mode = "compressed" /\ job'.file = n /\ sec'.pos = p
  BY <1>1, <1>2, Zenon
<1>8. SUFFICES \A k \in 0 .. n - (IF t'.out = "tail" THEN p ELSE 0) - 1 : drive'[k] = k + 1
  BY <1>7, Zenon DEF AllThere, Zeroing, Raw
<1>9. CASE Fits(pos, b) /\ drive' = Put(pos, b) /\ b \in Seq(Bytes) /\ Len(b) = SectorSize /\ t'.out = t.out
  <2>1. \A a \in 0 .. DiskSize - 1 : drive'[a] = IF a \in pos .. pos + Len(b) - 1 THEN b[a - pos + 1] ELSE drive[a]
    <3> HIDE DEF p, n, b
    <3> SUFFICES ASSUME NEW a \in 0 .. DiskSize - 1
                 PROVE  drive'[a] = IF a \in pos .. pos + Len(b) - 1 THEN b[a - pos + 1] ELSE drive[a]
      OBVIOUS
    <3>1. Good /\ pos \in Nat /\ b \in Seq(Bytes) /\ drive' = Put(pos, b)
      BY <1>3, <1>4, <1>9, Zenon
    <3>2. Put(pos, b)[a] = IF a \in pos .. pos + Len(b) - 1 THEN b[a - pos + 1] ELSE drive[a]
      BY <3>1, PutGood, Zenon
    <3> QED
      BY <3>1, <3>2, Zenon
  <2>2. pos + SectorSize <= DiskSize
    BY <1>4, <1>9, Zenon DEF Fits
  <2> HIDE DEF p, n, b
  <2>3. ASSUME NEW k \in 0 .. n - 1 PROVE drive'[k] = k + 1
    <3>1. k \in 0 .. DiskSize - 1 /\ k \in Nat
      BY <1>4, <2>2
    <3>2. CASE k < pos
      <4>1. k \in 0 .. n - p - 1 /\ k \notin pos .. pos + Len(b) - 1
        BY <1>4, <1>9, <3>2
      <4> QED
        BY <1>5, <2>1, <3>1, <4>1, Zenon
    <3>3. CASE k >= pos
      <4>1. k \in pos .. pos + Len(b) - 1 /\ k - pos + 1 \in 1 .. p /\ n - p + (k - pos + 1) = k + 1
        BY <1>4, <1>9, <3>3
      <4>2. b[k - pos + 1] = n - p + (k - pos + 1)
        BY <1>6, <4>1, Zenon
      <4> QED
        BY <2>1, <3>1, <4>1, <4>2, Zenon
    <3> QED
      BY <1>4, <3>1, <3>2, <3>3
  <2>4. n - 0 - 1 = n - 1
    BY <1>4
  <2> QED
    BY <1>2, <1>9, <2>3, <2>4, Zenon
<1>10. CASE drive' = drive /\ p = 0 /\ t'.out = t.out
  BY <1>2, <1>5, <1>10, Zenon
<1>11. CASE drive' = drive /\ t'.out = "tail"
  BY <1>5, <1>11, Zenon
<1> QED
  BY <1>1, <1>9, <1>10, <1>11, Zenon

\* A call that was stopped says so, or is one of the exits TrueMeansWhole
\* names.
LEMMA StoppedIsWhole ==
    ASSUME Stopped, Open, t.pc # "done" PROVE Whole'
BY Zenon DEF Stopped, Open, Whole

\* What a return says stays true.
LEMMA StepKeepsWhole ==
    ASSUME Base, Prep, Final, Whole, [Next]_vars PROVE Whole'
<1>1. Open
  BY Zenon DEF Prep
<1>2. ASSUME t'.pc # "done" PROVE Whole'
  BY <1>2, Zenon DEF Whole
<1>3. ASSUME t.pc # "done", t'.ret = t.ret, ErrorStatus' # "none" \/ t'.out \in {"reposition", "compare", "mount", "log"}
      PROVE  Whole'
  BY <1>1, <1>3, Zenon DEF Whole, Open
<1>4. CASE CheckBegins \/ CheckTests \/ CheckEnds \/ CheckAlarm
  <2>1. t.pc = "check" /\ (Stopped \/ t'.pc = "start" \/ t' = t)
    BY <1>4, CheckStepIs, Zenon DEF CheckStep
  <2> QED
    BY <1>1, <1>2, <2>1, StoppedIsWhole, Zenon
<1>5. CASE BeginZero \/ BeginCompressed \/ BeginImage
  <2>1. /\ t.pc = "start" /\ t'.ret = t.ret
        /\ t'.pc # "done" \/ ErrorStatus' # "none" \/ t'.out = "mount"
    BY <1>5, BeginZeroIs, BeginCompressedIs, BeginImageIs, Zenon
  <2> QED
    BY <1>2, <1>3, <2>1, Zenon
<1>6. CASE ZeroBlock \/ SwitchBuffers \/ WriteBlock
  BY <1>2, <1>6, ZeroBlockIs, SwitchBuffersIs, WriteBlockIs, Zenon DEF loop
<1>7. CASE CompareBlock
  BY <1>2, <1>3, <1>7, CompareBlockIs, Zenon
<1>8. CASE ReadFault \/ WriteCancelled \/ WriteFails
  BY <1>1, <1>2, <1>8, FaultIs, WriteFailsIs, StoppedIsWhole, Zenon
<1>9. CASE Finish \/ BledEnds
  BY <1>9, FinishIsWhole, BledEndsWhole, Zenon
<1>10. CASE BledFails
  <2>1. t.pc = "unpack" /\ ((t'.ret /\ ErrorStatus' = "cancelled") \/ (t'.ret = t.ret /\ ErrorStatus' = "write"))
    BY <1>10, BledFailsIs, Zenon
  <2>2. CASE t'.ret /\ ErrorStatus' = "cancelled"
    BY <2>2, Zenon DEF Whole
  <2>3. CASE t'.ret = t.ret /\ ErrorStatus' = "write"
    BY <1>3, <2>1, <2>3, Zenon
  <2> QED
    BY <2>1, <2>2, <2>3, Zenon
<1>11. CASE (\E n \in 1 .. buf_size : sector_write(n)) \/ UserCancels
  BY <1>2, <1>11, SectorWritten, UserCancelsIs, Zenon
<1>12. CASE IoCompletes \/ UNCHANGED vars
  <2>1. drive' = drive /\ t' = t /\ sec' = sec /\ ErrorStatus' = ErrorStatus /\ job' = job /\ media' = media
    BY <1>12, SameJob, Zenon DEF IoCompletes, vars, unpacker
  <2>2. (Good' <=> Good) /\ (Zeroing' <=> Zeroing) /\ (Raw' <=> Raw) /\ Available' = Available
    BY <2>1, Zenon DEF Good, Zeroing, Raw, Available, target_size
  <2>3. AllThere => AllThere'
    BY <2>1, <2>2, Zenon DEF AllThere, Wiped
  <2> QED
    BY <2>1, <2>2, <2>3, Zenon DEF Whole
<1> QED
  BY <1>4, <1>5, <1>6, <1>7, <1>8, <1>9, <1>10, <1>11, <1>12, NextIs DEF OtherStep
-----------------------------------------------------------------------------
=============================================================================
