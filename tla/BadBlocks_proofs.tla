-------------------------- MODULE BadBlocks_proofs ---------------------------
(***************************************************************************)
(* Proofs about the check for bad blocks: what each of its steps keeps, for  *)
(* drives and patterns of any size and any faults.                          *)
(***************************************************************************)
EXTENDS BadBlocks, WellFoundedInduction, TLAPS

-----------------------------------------------------------------------------
(***************************************************************************)
(* Numbers                                                                 *)
(***************************************************************************)
\* A set of numbers that is not empty has a least one.
LEMMA MinIsIn ==
    ASSUME NEW S \in SUBSET Nat, S # {}
    PROVE  Min(S) \in S /\ \A k \in S : Min(S) <= k
<1> DEFINE R == OpToRel(<, Nat)
<1>1. \E j \in S : \A k \in S : ~(<<k, j>> \in R)
  <2> HIDE DEF R
  <2>1. IsWellFoundedOn(R, Nat)
    BY NatLessThanWellFounded, Zenon DEF R
  <2> QED
    BY <2>1, WFMin, Zenon
<1>2. \A j, k \in Nat : <<k, j>> \in R <=> k < j
  BY Zenon DEF OpToRel
<1> HIDE DEF R
<1>3. PICK j \in S : \A k \in S : ~(<<k, j>> \in R)
  BY <1>1, Zenon
<1>4. \A k \in S : j \in Nat /\ k \in Nat /\ ~(k < j)
  BY <1>2, <1>3, Zenon
<1>5. \A k \in S : j <= k
  BY <1>4
<1> QED
  BY <1>5, Zenon DEF Min

\* One that is bounded has a greatest.
LEMMA MaxIsIn ==
    ASSUME NEW S \in SUBSET Nat, S # {}, NEW n \in Nat, \A k \in S : k <= n
    PROVE  Max(S) \in S /\ \A k \in S : k <= Max(S)
<1> DEFINE T == {n - k : k \in S}
<1>1. T \in SUBSET Nat /\ T # {}
  <2>1. \A k \in S : n - k \in Nat /\ n - k \in T
    OBVIOUS
  <2>2. T # {}
    BY <2>1, Zenon
  <2> QED
    BY <2>1, <2>2, Zenon
<1>2. Min(T) \in T /\ \A k \in T : Min(T) <= k
  <2> HIDE DEF T
  <2> QED
    BY <1>1, MinIsIn, Zenon
<1>3. PICK j \in S : Min(T) = n - j
  BY <1>2, Zenon
<1>4. \A k \in S : k <= j
  <2> SUFFICES ASSUME NEW k \in S PROVE k <= j
    OBVIOUS
  <2>1. n - k \in T
    OBVIOUS
  <2>2. n - j <= n - k
    BY <1>2, <1>3, <2>1, Zenon
  <2> QED
    BY <2>2
<1>5. \A k \in S : j >= k
  BY <1>4, Zenon
<1> QED
  BY <1>4, <1>5, Zenon DEF Max

-----------------------------------------------------------------------------
(***************************************************************************)
(* The check for bad blocks                                                *)
(***************************************************************************)
Checks == [pc : {"off", "write", "read", "end"}, pass : Nat, testing : Nat, tryout : Nat, recover : Int,
           list : SUBSET Blocks, cancel : BOOLEAN, cuts : Nat, lost : BOOLEAN, n : Nat, clean : BOOLEAN]

\* Fields that neither a transfer nor its outcome changes
SameCheck(c, d) == c.pc = d.pc /\ c.pass = d.pass /\ c.cancel = d.cancel /\ c.n = d.n /\ c.clean = d.clean

\* What is found goes into the list, unless there is no memory for it.
Outcome(c, s, found) ==
    \/ c.list = s.list \cup found /\ c.lost = s.lost /\ c.cuts = s.cuts
    \/ s.list \subseteq c.list /\ c.list \subseteq s.list \cup found /\ c.lost /\ c.cuts = s.cuts + 1 /\ s.cuts < MaxCuts

\* bb_output adds what was found to the list, or loses it when the list cannot
\* grow, and nothing else.
LEMMA OutputIs ==
    ASSUME NEW s \in Checks, NEW found \in SUBSET Blocks, NEW c \in bb_output(s, found)
    PROVE  /\ c \in Checks /\ SameCheck(c, s)
           /\ c.testing = s.testing /\ c.tryout = s.tryout /\ c.recover = s.recover
           /\ Outcome(c, s, found)
<1>1. CASE c = [s EXCEPT !.list = @ \cup found]
  <2>1. c \in Checks
    BY <1>1, Zenon DEF Checks
  <2>2. SameCheck(c, s) /\ c.testing = s.testing /\ c.tryout = s.tryout /\ c.recover = s.recover
    BY <1>1, Zenon DEF Checks, SameCheck
  <2>3. Outcome(c, s, found)
    BY <1>1, Zenon DEF Checks, Outcome
  <2> QED
    BY <2>1, <2>2, <2>3, Zenon
<1>2. ASSUME s.cuts < MaxCuts, NEW b \in found,
             c = [s EXCEPT !.list = @ \cup (found \ {b}), !.cuts = @ + 1, !.lost = TRUE]
      PROVE  /\ c \in Checks /\ SameCheck(c, s)
             /\ c.testing = s.testing /\ c.tryout = s.tryout /\ c.recover = s.recover
             /\ Outcome(c, s, found)
  <2>1. c \in Checks
    <3> DEFINE L == s.list \cup (found \ {b})
               k == s.cuts + 1
    <3>1. L \in SUBSET Blocks /\ k \in Nat
      BY DEF Checks
    <3>2. c = [s EXCEPT !.list = L, !.cuts = k, !.lost = TRUE]
      BY <1>2, Zenon DEF Checks
    <3> HIDE DEF L, k
    <3> QED
      BY <3>1, <3>2, Zenon DEF Checks
  <2>2. SameCheck(c, s) /\ c.testing = s.testing /\ c.tryout = s.tryout /\ c.recover = s.recover
    BY <1>2, Zenon DEF Checks, SameCheck
  <2>3. Outcome(c, s, found)
    BY <1>2, Zenon DEF Checks, Outcome
  <2> QED
    BY <2>1, <2>2, <2>3, Zenon
<1> QED
  BY <1>1, <1>2, Zenon DEF bb_output

\* The drive under test, and how it is tested: chosen once
Setting ==
    /\ media \in [kind : [Blocks -> Kinds], size : 0 .. last_block] /\ (last_block > 0 => media.size > 0)
    /\ pattern \in Seq(1 .. 3) /\ nb_passes > 0 /\ detect_fakes \in BOOLEAN

Running == bb.pc \in {"write", "read"}

Holdings == {UNKNOWN} \cup Blocks \cup {PatternAt(p, i) : p \in 0 .. nb_passes - 1, i \in 0 .. 2}

InPlace ==
    /\ bb \in Checks /\ held \in [Blocks -> Holdings] /\ bb.recover \in {None} \cup 0 .. last_block + BB_BLOCKS_AT_ONCE
    /\ bb.cuts <= MaxCuts /\ bb.testing \in 0 .. last_block /\ bb.pass < nb_passes
    /\ bb.tryout \in 0 .. BB_BLOCKS_AT_ONCE /\ (Running => bb.tryout \in 1 .. BB_BLOCKS_AT_ONCE)

\* The number of blocks
LEMMA LastBlockNat == last_block \in Nat
BY BadBlocksAssumption, SMTT(30) DEF last_block

\* Remainders
LEMMA Remainder ==
    ASSUME NEW m \in Nat \ {0}, NEW b \in Nat
    PROVE  b % m \in 0 .. m - 1 /\ (b < m => b % m = b)
OBVIOUS

\* A multiple of m between -m and m is 0.
LEMMA SmallMultiple ==
    ASSUME NEW m \in Nat \ {0}, NEW d \in Int, -m < d * m, d * m < m
    PROVE  d = 0
<1>1. d >= 1 => d * m >= m
  OBVIOUS
<1>2. d <= -1 => d * m <= -m
  OBVIOUS
<1> QED
  BY <1>1, <1>2

\* Quotient and remainder of a multiple and a rest
LEMMA RemainderIs ==
    ASSUME NEW m \in Nat \ {0}, NEW q \in Int, NEW i \in 0 .. m - 1
    PROVE  (q * m + i) % m = i /\ (q * m + i) \div m = q
<1> DEFINE c == q * m + i
           p == c \div m
           r == c % m
<1>1. p \in Int /\ r \in 0 .. m - 1 /\ c = p * m + r
  <2>1. c \in Int
    OBVIOUS
  <2> HIDE DEF c
  <2> QED
    BY <2>1, SMTT(30)
<1> HIDE DEF p, r
<1>2. (q - p) * m = r - i /\ q - p \in Int
  BY <1>1, SMTT(30)
<1>3. q - p = 0
  <2> DEFINE d == q - p
  <2>1. d \in Int /\ d * m = r - i
    BY <1>2, Zenon
  <2> HIDE DEF d
  <2>2. d = 0
    BY <1>1, <2>1, SmallMultiple
  <2> QED
    BY <2>2, Zenon DEF d
<1>4. r = i /\ p = q
  BY <1>1, <1>2, <1>3
<1> QED
  BY <1>4, Zenon DEF r, p

\* At a multiple of the length of the pattern the buffer begins with the
\* pattern.
LEMMA RemainderOfSum ==
    ASSUME NEW m \in Nat \ {0}, NEW c \in Nat, c % m = 0
    PROVE  (c + m) % m = 0 /\ \A i \in 0 .. m - 1 : (c + i) % m = i
<1> DEFINE q == c \div m
<1>1. q \in Int /\ c = q * m
  BY SMTT(30)
<1> HIDE DEF q
<1>2. \A i \in 0 .. m - 1 : (q * m + i) % m = i
  BY <1>1, RemainderIs, Zenon
<1>3. ((q + 1) * m + 0) % m = 0
  <2>1. q + 1 \in Int /\ 0 \in 0 .. m - 1
    BY <1>1
  <2> QED
    BY <2>1, RemainderIs, Zenon
<1>4. c + m = (q + 1) * m + 0
  BY <1>1, SMTT(30)
<1> QED
  BY <1>1, <1>2, <1>3, <1>4, Zenon

\* Where a block really is: inside the real size, and in its place if the drive
\* has that place.
LEMMA AtIsIn ==
    ASSUME Setting, NEW b \in Blocks
    PROVE  at(b) \in Blocks /\ at(b) < media.size /\ (b < media.size => at(b) = b)
<1>1. media.size \in Nat \ {0} /\ media.size <= last_block /\ b \in Nat /\ b < last_block
  BY LastBlockNat DEF Setting, Blocks
<1>2. b % media.size \in 0 .. media.size - 1 /\ (b < media.size => b % media.size = b)
  BY <1>1, Remainder, Zenon
<1> QED
  BY <1>1, <1>2, LastBlockNat DEF at, Blocks

\* What a transfer finds is noted, unless a failure that does not last hides it.
Noted(found) ==
    /\ bb.list \subseteq bb'.list /\ bb'.list \subseteq bb.list \cup found
    /\ bb.lost => bb'.lost
    /\ bb'.lost \/ found \subseteq bb'.list
    /\ bb.cuts <= bb'.cuts /\ (bb'.cuts = 0 => found \subseteq bb'.list)

\* A transfer was whole; it failed after so many blocks.
Passed(found) ==
    /\ Noted(found) /\ bb'.testing = bb.testing + tryout
    /\ bb'.recover \in {bb.recover, None}
    /\ bb.recover = None => bb'.recover = None /\ bb'.tryout = tryout

Failed(got, fault) ==
    /\ Noted(Suspect(got)) /\ bb'.testing = bb.testing + got + (IF Alone(got) THEN 1 ELSE 0)
    /\ bb'.cuts = 0 => Bad(fault) # {}

\* The blocks of the next transfer are blocks of the drive.
LEMMA TransferIn ==
    ASSUME InPlace, Running, bb.testing < last_block
    PROVE  /\ tryout \in 1 .. BB_BLOCKS_AT_ONCE /\ tryout <= bb.tryout /\ bb.testing + tryout <= last_block
           /\ bb.testing + tryout = last_block \/ tryout = bb.tryout
           /\ Transfer \subseteq Blocks
           /\ bb.testing \in Nat
<1>1. /\ bb.tryout \in 1 .. BB_BLOCKS_AT_ONCE /\ bb.testing \in 0 .. last_block
      /\ BB_BLOCKS_AT_ONCE \in Nat /\ last_block \in Nat
  BY LastBlockNat, BadBlocksAssumption, Zenon DEF InPlace
<1>2. /\ tryout \in 1 .. BB_BLOCKS_AT_ONCE /\ tryout <= bb.tryout /\ bb.testing + tryout <= last_block
      /\ bb.testing + tryout = last_block \/ tryout = bb.tryout
  BY <1>1 DEF tryout
<1> QED
  BY <1>1, <1>2 DEF Transfer, Blocks

\* The locals after a whole transfer
LEMMA AdvanceIs ==
    ASSUME InPlace, Running, bb.testing < last_block
    PROVE  /\ Advance \in Checks /\ SameCheck(Advance, bb)
           /\ Advance.testing = bb.testing + tryout /\ Advance.tryout \in 1 .. BB_BLOCKS_AT_ONCE
           /\ Advance.recover \in {bb.recover, None}
           /\ bb.recover = None => Advance.recover = None /\ Advance.tryout = tryout
           /\ Advance.list = bb.list /\ Advance.lost = bb.lost /\ Advance.cuts = bb.cuts
<1> DEFINE next == bb.testing + tryout
           tr == IF next = bb.recover THEN BB_BLOCKS_AT_ONCE ELSE tryout
           re == IF next = bb.recover THEN None ELSE bb.recover
<1>1. next \in Nat /\ bb.recover \in Int /\ None \in Int /\ None \notin Nat
  <2>1. None \in Int /\ None \notin Nat
    BY DEF None
  <2>2. bb.recover \in {None} \cup 0 .. last_block + BB_BLOCKS_AT_ONCE
    BY Zenon DEF InPlace
  <2>3. bb.testing \in Nat /\ tryout \in 1 .. BB_BLOCKS_AT_ONCE
    BY TransferIn, Zenon
  <2> QED
    BY <2>1, <2>2, <2>3, BadBlocksAssumption, LastBlockNat
<1>2. tr \in 1 .. BB_BLOCKS_AT_ONCE /\ tr \in Nat
  BY TransferIn, BadBlocksAssumption
<1>3. /\ re \in Int /\ re \in {bb.recover, None}
      /\ bb.recover = None => re = None /\ tr = tryout
  <2> HIDE DEF next
  <2> QED
    BY <1>1, Zenon
<1>4. Advance = [bb EXCEPT !.testing = next, !.tryout = tr, !.recover = re] /\ bb \in Checks
  BY Zenon DEF Advance, InPlace, Checks
<1> HIDE DEF tr, re
<1>5. /\ Advance \in Checks /\ SameCheck(Advance, bb)
      /\ Advance.list = bb.list /\ Advance.lost = bb.lost /\ Advance.cuts = bb.cuts
      /\ Advance.testing = next /\ Advance.tryout = tr /\ Advance.recover = re
  <2> HIDE DEF next
  <2>1. Advance \in Checks
    BY <1>1, <1>2, <1>3, <1>4, Zenon DEF Checks
  <2>2. SameCheck(Advance, bb) /\ Advance.list = bb.list /\ Advance.lost = bb.lost /\ Advance.cuts = bb.cuts
    BY <1>4, Zenon DEF Checks, SameCheck
  <2>3. Advance.testing = next /\ Advance.tryout = tr /\ Advance.recover = re
    BY <1>4, Zenon DEF Checks
  <2> QED
    BY <2>1, <2>2, <2>3, Zenon
<1> QED
  BY <1>2, <1>3, <1>5, Zenon

\* The locals after a transfer that got so many blocks, and failed
LEMMA StepBackIs ==
    ASSUME InPlace, Running, bb.testing < last_block, NEW got \in Nat, got < tryout
    PROVE  /\ StepBack(got) \in Checks /\ SameCheck(StepBack(got), bb)
           /\ StepBack(got).testing = bb.testing + got + (IF Alone(got) THEN 1 ELSE 0)
           /\ StepBack(got).testing <= last_block
           /\ StepBack(got).tryout = 1 /\ StepBack(got).recover \in 0 .. last_block + BB_BLOCKS_AT_ONCE
           /\ StepBack(got).list = bb.list /\ StepBack(got).lost = bb.lost /\ StepBack(got).cuts = bb.cuts
<1> DEFINE next == bb.testing + got + (IF Alone(got) THEN 1 ELSE 0)
           re == IF bb.recover = None THEN next - got + BB_BLOCKS_AT_ONCE ELSE bb.recover
<1>1. next \in Nat /\ next <= last_block /\ next - got \in 0 .. last_block
  BY TransferIn, BadBlocksAssumption, LastBlockNat DEF Alone
<1>2. re \in 0 .. last_block + BB_BLOCKS_AT_ONCE
  BY <1>1, BadBlocksAssumption, LastBlockNat DEF InPlace
<1>3. StepBack(got) = [bb EXCEPT !.testing = next, !.tryout = 1, !.recover = re] /\ bb \in Checks
  BY Zenon DEF StepBack, InPlace, Checks
<1>4. re \in Int
  BY <1>2, BadBlocksAssumption, LastBlockNat
<1> HIDE DEF next, re
<1>5. /\ StepBack(got) \in Checks /\ SameCheck(StepBack(got), bb)
      /\ StepBack(got).list = bb.list /\ StepBack(got).lost = bb.lost /\ StepBack(got).cuts = bb.cuts
      /\ StepBack(got).testing = next /\ StepBack(got).tryout = 1 /\ StepBack(got).recover = re
  <2> DEFINE c == [bb EXCEPT !.testing = next]
             d == [c EXCEPT !.tryout = 1]
  <2>1. c \in Checks /\ SameCheck(c, bb) /\ c.list = bb.list /\ c.lost = bb.lost /\ c.cuts = bb.cuts /\ c.testing = next
    BY <1>1, <1>3, Zenon DEF Checks, SameCheck
  <2> HIDE DEF c
  <2>2. d \in Checks /\ SameCheck(d, c) /\ d.list = c.list /\ d.lost = c.lost /\ d.cuts = c.cuts /\ d.testing = c.testing
        /\ d.tryout = 1
    BY <2>1, Zenon DEF Checks, SameCheck
  <2>3. StepBack(got) = [d EXCEPT !.recover = re]
    BY <1>3, Zenon DEF c
  <2> HIDE DEF d
  <2>4. StepBack(got) \in Checks
    BY <1>4, <2>2, <2>3, Zenon DEF Checks
  <2>5. /\ SameCheck(StepBack(got), d) /\ StepBack(got).list = d.list /\ StepBack(got).lost = d.lost
        /\ StepBack(got).cuts = d.cuts /\ StepBack(got).testing = d.testing /\ StepBack(got).tryout = d.tryout
        /\ StepBack(got).recover = re
    BY <2>2, <2>3, Zenon DEF Checks, SameCheck
  <2> QED
    BY <2>1, <2>2, <2>4, <2>5, Zenon DEF SameCheck
<1> QED
  BY <1>1, <1>2, <1>5, Zenon DEF next

\* A transfer that fails for a reason that does not last is counted.
LEMMA CountedIs ==
    ASSUME NEW c \in Checks, NEW S
    PROVE  /\ Counted(c, S # {}) \in Checks /\ SameCheck(Counted(c, S # {}), c)
           /\ Counted(c, S # {}).list = c.list /\ Counted(c, S # {}).lost = c.lost
           /\ Counted(c, S # {}).testing = c.testing /\ Counted(c, S # {}).tryout = c.tryout
           /\ Counted(c, S # {}).recover = c.recover
           /\ Counted(c, S # {}).cuts = IF S # {} THEN c.cuts ELSE c.cuts + 1
<1>1. CASE S # {}
  BY <1>1, Zenon DEF Counted, SameCheck
<1>2. CASE S = {}
  <2>1. Counted(c, S # {}) = [c EXCEPT !.cuts = c.cuts + 1] /\ c.cuts + 1 \in Nat
    BY <1>2 DEF Counted, Checks
  <2>2. Counted(c, S # {}) \in Checks
    BY <2>1, Zenon DEF Checks
  <2>3. SameCheck(Counted(c, S # {}), c)
    BY <2>1, Zenon DEF Checks, SameCheck
  <2>4. /\ Counted(c, S # {}).list = c.list /\ Counted(c, S # {}).lost = c.lost
        /\ Counted(c, S # {}).testing = c.testing /\ Counted(c, S # {}).tryout = c.tryout
        /\ Counted(c, S # {}).recover = c.recover
        /\ Counted(c, S # {}).cuts = c.cuts + 1
    BY <2>1, Zenon DEF Checks
  <2> QED
    BY <1>2, <2>2, <2>3, <2>4, Zenon
<1> QED
  BY <1>1, <1>2, Zenon

\* A failed transfer: what becomes of the locals
LEMMA FailedIs ==
    ASSUME InPlace, Running, bb.testing < last_block, NEW got \in Nat, got < tryout, NEW fault \in {"rd", "wr"},
           Bad(fault) # {} \/ CanCut,
           NEW s \in Checks,
           SameCheck(s, bb), s.list = bb.list, bb.lost => s.lost, s.cuts = IF Bad(fault) # {} THEN bb.cuts ELSE bb.cuts + 1,
           s.testing = StepBack(got).testing, s.tryout = StepBack(got).tryout, s.recover = StepBack(got).recover,
           bb' \in bb_output(s, Suspect(got)), held' \in [Blocks -> Holdings], UNCHANGED pattern
    PROVE  Failed(got, fault) /\ InPlace' /\ SameCheck(bb', bb) /\ (s.lost => bb'.lost)
<1>1. Suspect(got) \in SUBSET Blocks
  BY LastBlockNat DEF Suspect, Blocks, InPlace, Checks
<1>2. /\ bb' \in Checks /\ SameCheck(bb', s)
      /\ bb'.testing = s.testing /\ bb'.tryout = s.tryout /\ bb'.recover = s.recover
      /\ Outcome(bb', s, Suspect(got))
  BY <1>1, OutputIs, Zenon
<1>3. /\ s.testing = bb.testing + got + (IF Alone(got) THEN 1 ELSE 0) /\ s.testing <= last_block
      /\ s.tryout = 1 /\ s.recover \in 0 .. last_block + BB_BLOCKS_AT_ONCE
  BY StepBackIs, Zenon
<1>4. bb.cuts \in Nat /\ bb'.cuts \in Nat /\ s.cuts \in Nat
  BY <1>2, Zenon DEF InPlace, Checks
<1>5. Noted(Suspect(got)) /\ (s.lost => bb'.lost)
  BY <1>2, <1>4 DEF Outcome, Noted
<1>6. bb'.cuts = 0 => Bad(fault) # {}
  BY <1>2, <1>4 DEF Outcome
<1>7. bb'.cuts <= MaxCuts
  BY <1>2, <1>4, BadBlocksAssumption DEF Outcome, InPlace, CanCut
<1>8. SameCheck(bb', bb)
  BY <1>2, Zenon DEF SameCheck
<1>9. InPlace'
  <2>1. /\ bb'.testing \in 0 .. last_block
        /\ bb'.tryout \in 1 .. BB_BLOCKS_AT_ONCE /\ bb'.tryout \in 0 .. BB_BLOCKS_AT_ONCE
    <3>1. s.testing \in Nat /\ BB_BLOCKS_AT_ONCE \in Nat \ {0}
      BY BadBlocksAssumption, Zenon DEF Checks
    <3> QED
      BY <1>2, <1>3, <3>1, LastBlockNat
  <2>2. bb'.recover \in {None} \cup 0 .. last_block + BB_BLOCKS_AT_ONCE
    BY <1>2, <1>3, Zenon
  <2> QED
    BY <1>2, <1>7, <1>8, <2>1, <2>2 DEF InPlace, Running, SameCheck, nb_passes, Holdings, PatternAt
<1> QED
  BY <1>2, <1>3, <1>5, <1>6, <1>8, <1>9, Zenon DEF Failed

\* A whole transfer
LEMMA PassedIs ==
    ASSUME InPlace, Running, bb.testing < last_block, NEW found \in SUBSET Blocks,
           bb' \in bb_output(Advance, found), held' \in [Blocks -> Holdings], UNCHANGED pattern
    PROVE  Passed(found) /\ InPlace' /\ SameCheck(bb', bb)
<1>1. /\ Advance \in Checks /\ SameCheck(Advance, bb)
      /\ Advance.testing = bb.testing + tryout /\ Advance.tryout \in 1 .. BB_BLOCKS_AT_ONCE
      /\ Advance.recover \in {bb.recover, None}
      /\ bb.recover = None => Advance.recover = None /\ Advance.tryout = tryout
      /\ Advance.list = bb.list /\ Advance.lost = bb.lost /\ Advance.cuts = bb.cuts
  BY AdvanceIs, Zenon
<1>2. /\ bb' \in Checks /\ SameCheck(bb', Advance)
      /\ bb'.testing = Advance.testing /\ bb'.tryout = Advance.tryout /\ bb'.recover = Advance.recover
      /\ Outcome(bb', Advance, found)
  BY <1>1, OutputIs, Zenon
<1>3. bb.cuts \in Nat /\ bb'.cuts \in Nat
  BY <1>2, Zenon DEF InPlace, Checks
<1>4. Noted(found)
  BY <1>1, <1>2, <1>3 DEF Outcome, Noted
<1>5. bb'.cuts <= MaxCuts
  BY <1>1, <1>2, <1>3, BadBlocksAssumption DEF Outcome, InPlace
<1>6. SameCheck(bb', bb)
  BY <1>1, <1>2, Zenon DEF SameCheck
<1>7. bb.testing + tryout \in 0 .. last_block
  BY TransferIn, LastBlockNat, BadBlocksAssumption
<1>8. InPlace'
  <2>1. bb'.tryout \in 1 .. BB_BLOCKS_AT_ONCE /\ bb'.tryout \in 0 .. BB_BLOCKS_AT_ONCE
    BY <1>1, <1>2, BadBlocksAssumption
  <2> QED
    BY <1>1, <1>2, <1>5, <1>6, <1>7, <2>1 DEF InPlace, Running, SameCheck, nb_passes, Holdings, PatternAt
<1> QED
  BY <1>1, <1>2, <1>4, <1>6, <1>8, Zenon DEF Passed

\* What a block is to hold
LEMMA ExpectedIs ==
    ASSUME Setting, InPlace, Running, NEW b \in Blocks, b >= bb.testing
    PROVE  Expected(b) \in Holdings /\ Expected(b) # UNKNOWN
<1>1. b \in Nat /\ bb.testing \in Nat /\ b - bb.testing \in Nat /\ bb.pass \in 0 .. nb_passes - 1
  BY LastBlockNat DEF Blocks, InPlace, Checks, Setting, nb_passes
<1> DEFINE m == pattern[bb.pass + 1]
           i == b - bb.testing
<1>2. m \in 1 .. 3
  BY <1>1 DEF Setting, nb_passes
<1> HIDE DEF m
<1>3. i % m \in 0 .. 2 /\ (i % m) % m = i % m
  <2>1. m \in Nat \ {0} /\ i \in Nat
    BY <1>1, <1>2
  <2> HIDE DEF i
  <2> DEFINE r == i % m
  <2>2. r \in 0 .. m - 1
    BY <2>1, Remainder, Zenon
  <2>3. r \in Nat /\ r < m
    BY <2>1, <2>2
  <2> HIDE DEF r
  <2>4. r % m = r
    BY <2>1, <2>3, Remainder, Zenon
  <2> QED
    BY <1>2, <2>3, <2>4 DEF r
<1>4. PatternAt(bb.pass, i) = -3 - 3 * bb.pass - (i % m) /\ PatternAt(bb.pass, i % m) = -3 - 3 * bb.pass - ((i % m) % m)
  BY Zenon DEF PatternAt, m
<1>5. PatternAt(bb.pass, i) \in Holdings
  BY <1>1, <1>3, <1>4 DEF Holdings
<1>6. PatternAt(bb.pass, i) # UNKNOWN /\ b # UNKNOWN
  BY <1>1, <1>3, <1>4 DEF UNKNOWN
<1> QED
  BY <1>5, <1>6 DEF Expected, Holdings

\* After a write, a block that was reached holds what it is to hold, or what it
\* makes of it; the others are as before.
LEMMA WrittenIs ==
    ASSUME Setting, InPlace, Running, bb.testing < last_block, NEW n \in 0 .. tryout, NEW a \in Blocks
    PROVE  \/ Written(n)[a] = held[a] /\ \A b \in bb.testing .. bb.testing + n - 1 : at(b) # a
           \/ \E x \in bb.testing .. bb.testing + n - 1 :
                 /\ x \in Transfer /\ x \in Blocks /\ at(x) = a
                 /\ \A b \in bb.testing .. bb.testing + n - 1 : at(b) = a => b <= x
                 /\ Written(n)[a] = IF media.kind[a] = "rot" THEN UNKNOWN ELSE Expected(x)
<1> DEFINE w == {b \in bb.testing .. bb.testing + n - 1 : at(b) = a}
<1>1. Written(n)[a] = IF w = {} THEN held[a] ELSE IF media.kind[a] = "rot" THEN UNKNOWN ELSE Expected(Max(w))
  BY Zenon DEF Written
<1>2. bb.testing \in Nat /\ n \in Nat /\ tryout \in Nat /\ n <= tryout
  BY TransferIn, BadBlocksAssumption
<1>3. w \in SUBSET Nat /\ \A k \in w : k <= bb.testing + n
  BY <1>2
<1>4. CASE w = {}
  BY <1>1, <1>4, Zenon
<1>5. CASE w # {}
  <2>1. Max(w) \in w /\ \A k \in w : k <= Max(w)
    <3> HIDE DEF w
    <3>1. bb.testing + n \in Nat
      BY <1>2
    <3> QED
      BY <1>3, <1>5, <3>1, MaxIsIn, Zenon
  <2>2. Max(w) \in Transfer
    BY <1>2, <2>1 DEF Transfer
  <2>3. Max(w) \in Blocks
    BY <2>2, TransferIn, Zenon
  <2> QED
    BY <1>1, <1>5, <2>1, <2>2, <2>3, Zenon
<1> QED
  BY <1>4, <1>5, Zenon

\* A write of some blocks leaves every block with something that can be there.
LEMMA WrittenType ==
    ASSUME Setting, InPlace, Running, bb.testing < last_block, NEW n \in 0 .. tryout
    PROVE  Written(n) \in [Blocks -> Holdings]
<1>1. \A a \in Blocks : Written(n)[a] \in Holdings
  <2> SUFFICES ASSUME NEW a \in Blocks PROVE Written(n)[a] \in Holdings
    OBVIOUS
  <2>1. CASE Written(n)[a] = held[a]
    BY <2>1, Zenon DEF InPlace
  <2>2. ASSUME NEW x \in Transfer, x \in Blocks,
               Written(n)[a] = IF media.kind[a] = "rot" THEN UNKNOWN ELSE Expected(x)
        PROVE  Written(n)[a] \in Holdings
    <3>1. x >= bb.testing
      BY TransferIn, BadBlocksAssumption DEF Transfer
    <3>2. Expected(x) \in Holdings
      BY <2>2, <3>1, ExpectedIs, Zenon
    <3> QED
      BY <2>2, <3>2 DEF Holdings
  <2> QED
    BY <2>1, <2>2, WrittenIs, Zenon
<1>2. Written(n) = [a \in Blocks |-> Written(n)[a]]
  BY Zenon DEF Written
<1> QED
  BY <1>1, <1>2, Zenon

\* The steps of the test, in these terms
WriteStep(n) ==
    /\ held' = Written(n)
    /\ \/ n = tryout /\ Bad("wr") = {} /\ Passed({})
       \/ Failed(0, "wr")

ReadStep(got) ==
    /\ held' = held
    /\ \/ Bad("rd") = {} /\ Passed({b \in Transfer : held[at(b)] # Expected(b)})
       \/ Failed(got, "rd") /\ (got > 0 => bb'.lost) /\ \A b \in Bad("rd") : bb.testing + got <= b

\* What a step of the writing loop of test_rw does
LEMMA WritesAre ==
    ASSUME Setting, InPlace, TestWrites, UNCHANGED <<media, pattern, detect_fakes>>
    PROVE  /\ bb.pc = "write" /\ bb.testing < last_block /\ InPlace' /\ SameCheck(bb', bb)
           /\ \E n \in 0 .. tryout : WriteStep(n)
<1>1. Running /\ bb.pc = "write" /\ bb.testing < last_block
  BY Zenon DEF TestWrites, Testing, Running
<1>2. /\ tryout \in 1 .. BB_BLOCKS_AT_ONCE /\ tryout \in Nat /\ tryout \in 0 .. tryout /\ 0 \in Nat /\ 0 < tryout
      /\ bb.testing \in Nat /\ Transfer \subseteq Blocks
  BY <1>1, TransferIn, BadBlocksAssumption
<1>3. CASE Bad("wr") = {} /\ held' = Written(tryout) /\ bb' = Advance
  <2>1. held' \in [Blocks -> Holdings]
    BY <1>1, <1>2, <1>3, WrittenType, Zenon
  <2>2. Advance \in Checks
    BY <1>1, AdvanceIs, Zenon
  <2>3. bb' \in bb_output(Advance, {})
    <3>1. [Advance EXCEPT !.list = @ \cup {}] = Advance
      <4>1. Advance.list \cup {} = Advance.list
        OBVIOUS
      <4> QED
        BY <2>2, <4>1, Zenon DEF Checks
    <3> QED
      BY <1>3, <3>1, Zenon DEF bb_output
  <2>4. Passed({}) /\ InPlace' /\ SameCheck(bb', bb)
    BY <1>1, <2>1, <2>3, PassedIs
  <2> QED
    BY <1>1, <1>2, <1>3, <2>4, Zenon DEF WriteStep
<1>4. ASSUME NEW n \in WritesShort, held' = Written(n),
             bb' \in bb_output(Counted(StepBack(0), Bad("wr") # {}), Suspect(0))
      PROVE  InPlace' /\ SameCheck(bb', bb) /\ n \in 0 .. tryout /\ WriteStep(n)
  <2>1. Bad("wr") # {} => Min(Bad("wr")) \in Transfer
    <3>1. Bad("wr") \in SUBSET Nat
      BY <1>2 DEF Bad, Transfer
    <3>2. Bad("wr") # {} => Min(Bad("wr")) \in Bad("wr")
      BY <3>1, MinIsIn, Zenon
    <3> QED
      BY <3>2, Zenon DEF Bad
  <2>2. n \in 0 .. tryout /\ (Bad("wr") # {} \/ CanCut)
    BY <1>2, <2>1 DEF WritesShort, Transfer
  <2>3. held' \in [Blocks -> Holdings]
    BY <1>1, <1>4, <2>2, WrittenType, Zenon
  <2> DEFINE s == Counted(StepBack(0), Bad("wr") # {})
  <2>4. /\ StepBack(0) \in Checks /\ SameCheck(StepBack(0), bb)
        /\ StepBack(0).list = bb.list /\ StepBack(0).lost = bb.lost /\ StepBack(0).cuts = bb.cuts
    BY <1>1, <1>2, StepBackIs, Zenon
  <2>5. /\ s \in Checks /\ SameCheck(s, StepBack(0))
        /\ s.list = StepBack(0).list /\ s.lost = StepBack(0).lost
        /\ s.testing = StepBack(0).testing /\ s.tryout = StepBack(0).tryout /\ s.recover = StepBack(0).recover
        /\ s.cuts = IF Bad("wr") # {} THEN StepBack(0).cuts ELSE StepBack(0).cuts + 1
    BY <2>4, CountedIs, Zenon
  <2>6. bb' \in bb_output(s, Suspect(0))
    BY <1>4, Zenon
  <2> HIDE DEF s
  <2>7. SameCheck(s, bb)
    BY <2>4, <2>5, Zenon DEF SameCheck
  <2>8. Failed(0, "wr") /\ InPlace' /\ SameCheck(bb', bb)
    BY <1>1, <1>2, <2>2, <2>3, <2>4, <2>5, <2>6, <2>7, FailedIs, Zenon
  <2> QED
    BY <1>4, <2>2, <2>8, Zenon DEF WriteStep
<1> QED
  BY <1>1, <1>3, <1>4, Zenon DEF TestWrites

\* What a step of the reading loop does
LEMMA ReadsAre ==
    ASSUME Setting, InPlace, TestReads, UNCHANGED <<media, pattern, detect_fakes>>
    PROVE  /\ bb.pc = "read" /\ bb.testing < last_block /\ InPlace' /\ SameCheck(bb', bb)
           /\ \E got \in 0 .. tryout - 1 : ReadStep(got)
<1>1. Running /\ bb.pc = "read" /\ bb.testing < last_block /\ held' = held /\ held \in [Blocks -> Holdings]
  BY Zenon DEF TestReads, Testing, Running, InPlace
<1>2. /\ tryout \in 1 .. BB_BLOCKS_AT_ONCE /\ tryout \in Nat /\ 0 \in 0 .. tryout - 1
      /\ bb.testing \in Nat /\ Transfer \subseteq Blocks
  BY <1>1, TransferIn, BadBlocksAssumption
<1>3. CASE Bad("rd") = {} /\ bb' \in bb_output(Advance, {b \in Transfer : held[at(b)] # Expected(b)})
  <2> DEFINE found == {b \in Transfer : held[at(b)] # Expected(b)}
  <2>1. found \in SUBSET Blocks /\ bb' \in bb_output(Advance, found)
    BY <1>2, <1>3, Zenon
  <2> HIDE DEF found
  <2>2. Passed(found) /\ InPlace' /\ SameCheck(bb', bb)
    BY <1>1, <2>1, PassedIs, Zenon
  <2> QED
    BY <1>1, <1>2, <1>3, <2>2, Zenon DEF ReadStep, found
<1>4. ASSUME NEW got \in ReadsShort,
             bb' \in bb_output([Counted(StepBack(got), Bad("rd") # {}) EXCEPT !.lost = @ \/ got > 0], Suspect(got))
      PROVE  InPlace' /\ SameCheck(bb', bb) /\ got \in 0 .. tryout - 1 /\ ReadStep(got)
  <2>1. Bad("rd") # {} => Min(Bad("rd")) \in Transfer /\ \A b \in Bad("rd") : Min(Bad("rd")) <= b
    <3>1. Bad("rd") \in SUBSET Nat
      BY <1>2 DEF Bad, Transfer
    <3>2. Bad("rd") # {} => Min(Bad("rd")) \in Bad("rd") /\ \A b \in Bad("rd") : Min(Bad("rd")) <= b
      BY <3>1, MinIsIn, Zenon
    <3> QED
      BY <3>2, Zenon DEF Bad
  <2>2. got \in 0 .. tryout - 1 /\ got \in Nat /\ got < tryout /\ (Bad("rd") # {} \/ CanCut)
    BY <1>2, <2>1 DEF ReadsShort, Transfer
  <2>3. \A b \in Bad("rd") : bb.testing + got <= b
    <3> SUFFICES ASSUME NEW b \in Bad("rd") PROVE bb.testing + got <= b
      OBVIOUS
    <3>1. got \in 0 .. Min(Bad("rd")) - bb.testing /\ Min(Bad("rd")) \in Transfer /\ Min(Bad("rd")) <= b /\ b \in Transfer
      BY <2>1, Zenon DEF ReadsShort, Bad
    <3> QED
      BY <1>2, <3>1 DEF Transfer
  <2> DEFINE c == Counted(StepBack(got), Bad("rd") # {})
             l == c.lost \/ got > 0
             s == [c EXCEPT !.lost = l]
  <2>4. /\ StepBack(got) \in Checks /\ SameCheck(StepBack(got), bb)
        /\ StepBack(got).list = bb.list /\ StepBack(got).lost = bb.lost /\ StepBack(got).cuts = bb.cuts
    BY <1>1, <2>2, StepBackIs, Zenon
  <2>5. /\ c \in Checks /\ SameCheck(c, StepBack(got))
        /\ c.list = StepBack(got).list /\ c.lost = StepBack(got).lost
        /\ c.testing = StepBack(got).testing /\ c.tryout = StepBack(got).tryout /\ c.recover = StepBack(got).recover
        /\ c.cuts = IF Bad("rd") # {} THEN StepBack(got).cuts ELSE StepBack(got).cuts + 1
    BY <2>4, CountedIs, Zenon
  <2>6. bb' \in bb_output(s, Suspect(got))
    BY <1>4, Zenon
  <2> HIDE DEF c
  <2>7. l \in BOOLEAN /\ (got > 0 => l) /\ (c.lost => l)
    BY Zenon
  <2> HIDE DEF l
  <2>8. s \in Checks
    BY <2>5, <2>7, Zenon DEF Checks
  <2>9. SameCheck(s, c) /\ s.list = c.list /\ s.cuts = c.cuts /\ s.testing = c.testing /\ s.tryout = c.tryout
        /\ s.recover = c.recover /\ s.lost = l
    BY <2>5, Zenon DEF SameCheck, Checks
  <2> HIDE DEF s
  <2>10. SameCheck(s, bb)
    BY <2>4, <2>5, <2>9, Zenon DEF SameCheck
  <2>11. bb.lost => s.lost
    BY <2>4, <2>5, <2>7, <2>9, Zenon
  <2>12. Failed(got, "rd") /\ InPlace' /\ SameCheck(bb', bb) /\ (s.lost => bb'.lost)
    BY <1>1, <2>2, <2>4, <2>5, <2>6, <2>8, <2>9, <2>10, <2>11, FailedIs
  <2> QED
    BY <1>1, <2>2, <2>3, <2>7, <2>9, <2>12, Zenon DEF ReadStep
<1> QED
  BY <1>1, <1>3, <1>4, Zenon DEF TestReads

-----------------------------------------------------------------------------
(***************************************************************************)
(* What is known of the drive while the check runs and has found nothing   *)
(***************************************************************************)
\* A block that does not keep what is written holds something else.
Rotten == \A a \in Blocks : media.kind[a] = "rot" => held[a] = UNKNOWN

Clean == bb.list = {} /\ ~bb.lost

\* The blocks passed so far are not bad;
FoundGood ==
    Clean =>
        /\ bb.pc = "write" => \A b \in 0 .. bb.testing - 1 : media.kind[at(b)] # "wr"
        /\ bb.pc = "read" => /\ \A b \in Blocks : media.kind[at(b)] # "wr"
                             /\ \A b \in 0 .. bb.testing - 1 : media.kind[at(b)] = "good"
        /\ (Running /\ bb.pass > 0) \/ (bb.pc = "end" /\ ~bb.cancel) => \A b \in Blocks : media.kind[at(b)] = "good"

\* and a drive that wraps has lost the number of its first block, which is the
\* first to be read back.
FoundFake ==
    detect_fakes /\ media.size < last_block /\ Clean =>
        /\ Running => bb.pass = 0
        /\ bb.pc = "write" /\ bb.testing > media.size => held[0] # 0
        /\ bb.pc = "read" => bb.testing = 0 /\ held[0] # 0
        /\ bb.pc = "end" => bb.cancel

Found == Rotten /\ FoundGood /\ FoundFake

\* Writing: the blocks passed without an entry are writable.
LEMMA WritesKeepFound ==
    ASSUME Setting, InPlace, Found, TestWrites, UNCHANGED <<media, pattern, detect_fakes>>
    PROVE  Found'
<1>1. /\ bb.pc = "write" /\ bb.testing < last_block /\ InPlace' /\ SameCheck(bb', bb) /\ Running
      /\ \E n \in 0 .. tryout : WriteStep(n)
  BY WritesAre, Zenon DEF Running
<1>2. PICK n \in 0 .. tryout : WriteStep(n)
  BY <1>1, Zenon
<1>3. /\ tryout \in 1 .. BB_BLOCKS_AT_ONCE /\ tryout \in Nat /\ bb.testing \in Nat /\ Transfer \subseteq Blocks
      /\ bb'.testing \in Nat /\ n \in Nat /\ media.size \in Nat /\ media.size > 0 /\ last_block \in Nat
  <2>1. tryout \in 1 .. BB_BLOCKS_AT_ONCE /\ bb.testing \in Nat /\ Transfer \subseteq Blocks
    BY <1>1, TransferIn, Zenon
  <2>2. tryout \in Nat /\ n \in Nat
    BY <2>1, BadBlocksAssumption
  <2>3. bb'.testing \in Nat
    BY <1>1, Zenon DEF InPlace, Checks
  <2>4. media.size \in Nat /\ media.size > 0
    BY <1>1, <2>1, LastBlockNat DEF Setting
  <2> QED
    BY <2>1, <2>2, <2>3, <2>4, LastBlockNat, Zenon
<1>4. bb'.pc = "write" /\ bb'.pass = bb.pass /\ media' = media /\ detect_fakes' = detect_fakes
  BY <1>1, Zenon DEF SameCheck
<1>5. Clean' => Clean /\ (bb'.testing = bb.testing \/ (n = tryout /\ bb'.testing = bb.testing + tryout /\ Bad("wr") = {}))
  <2>1. CASE n = tryout /\ Bad("wr") = {} /\ Passed({})
    BY <2>1, Zenon DEF Passed, Noted, Clean
  <2>2. CASE Failed(0, "wr")
    <3>1. CASE Alone(0)
      <4>1. Suspect(0) # {} /\ Noted(Suspect(0))
        BY <2>2, <3>1, Zenon DEF Suspect, Failed
      <4> QED
        BY <4>1, Zenon DEF Noted, Clean
    <3>2. CASE ~Alone(0)
      BY <1>3, <2>2, <3>2 DEF Failed, Noted, Clean
    <3> QED
      BY <3>1, <3>2, Zenon
  <2> QED
    BY <1>2, <2>1, <2>2, Zenon DEF WriteStep
<1>6. Rotten'
  <2> SUFFICES ASSUME NEW a \in Blocks, media.kind[a] = "rot" PROVE Written(n)[a] = UNKNOWN
    BY <1>2, <1>4, Zenon DEF Rotten, WriteStep
  <2>1. held[a] = UNKNOWN
    BY Zenon DEF Found, Rotten
  <2> QED
    BY <1>1, <2>1, WrittenIs, Zenon
<1>7. FoundGood'
  <2> SUFFICES ASSUME Clean'
               PROVE  /\ \A b \in 0 .. bb'.testing - 1 : media.kind[at(b)] # "wr"
                      /\ bb.pass > 0 => \A b \in Blocks : media.kind[at(b)] = "good"
    BY <1>4, Zenon DEF FoundGood, Running, at
  <2>1. /\ \A b \in 0 .. bb.testing - 1 : media.kind[at(b)] # "wr"
        /\ bb.pass > 0 => \A b \in Blocks : media.kind[at(b)] = "good"
    BY <1>1, <1>5, Zenon DEF Found, FoundGood
  <2>2. CASE bb'.testing = bb.testing
    BY <2>1, <2>2, Zenon
  <2>3. CASE n = tryout /\ bb'.testing = bb.testing + tryout /\ Bad("wr") = {}
    <3>1. \A b \in Transfer : media.kind[at(b)] # "wr"
      BY <2>3, Zenon DEF Bad
    <3>2. \A b \in 0 .. bb'.testing - 1 : b \in 0 .. bb.testing - 1 \/ b \in Transfer
      BY <1>3, <2>3 DEF Transfer
    <3> QED
      BY <2>1, <3>1, <3>2, Zenon
  <2> QED
    BY <1>5, <2>2, <2>3, Zenon
<1>8. FoundFake'
  <2> SUFFICES ASSUME detect_fakes, media.size < last_block, Clean'
               PROVE  bb.pass = 0 /\ (bb'.testing > media.size => Written(n)[0] # 0)
    BY <1>2, <1>4 DEF FoundFake, Running, WriteStep
  <2>1. bb.pass = 0 /\ (bb.testing > media.size => held[0] # 0)
    BY <1>1, <1>5, Zenon DEF Found, FoundFake
  <2> SUFFICES ASSUME bb'.testing > media.size PROVE Written(n)[0] # 0
    BY <2>1, Zenon
  <2>2. 0 \in Blocks
    BY <1>3 DEF Blocks
  <2>3. CASE Written(n)[0] = held[0] /\ \A b \in bb.testing .. bb.testing + n - 1 : at(b) # 0
    <3>1. CASE bb.testing > media.size
      BY <2>1, <2>3, <3>1, Zenon
    <3>2. CASE ~(bb.testing > media.size)
      <4>1. n = tryout /\ bb'.testing = bb.testing + tryout
        BY <1>5, <3>2, Zenon
      <4>2. media.size \in bb.testing .. bb.testing + n - 1
        BY <1>3, <3>2, <4>1
      <4>3. at(media.size) = 0
        BY <1>3 DEF at
      <4> QED
        BY <2>3, <4>2, <4>3, Zenon
    <3> QED
      BY <3>1, <3>2, Zenon
  <2>4. ASSUME NEW x \in bb.testing .. bb.testing + n - 1, x \in Blocks, at(x) = 0,
               \A b \in bb.testing .. bb.testing + n - 1 : at(b) = 0 => b <= x,
               Written(n)[0] = IF media.kind[0] = "rot" THEN UNKNOWN ELSE Expected(x)
        PROVE  Written(n)[0] # 0
    <3>1. x > 0
      <4>1. CASE bb.testing > media.size
        BY <1>3, <4>1
      <4>2. CASE ~(bb.testing > media.size)
        <5>1. n = tryout /\ bb'.testing = bb.testing + tryout
          BY <1>5, <4>2, Zenon
        <5>2. media.size \in bb.testing .. bb.testing + n - 1
          BY <1>3, <4>2, <5>1
        <5>3. at(media.size) = 0
          BY <1>3 DEF at
        <5> QED
          BY <1>3, <2>4, <5>2, <5>3
      <4> QED
        BY <4>1, <4>2, Zenon
    <3>2. Expected(x) = x
      BY <2>1, Zenon DEF Expected
    <3> QED
      BY <1>3, <2>4, <3>1, <3>2 DEF UNKNOWN
  <2> QED
    BY <1>1, <2>2, <2>3, <2>4, WrittenIs, Zenon
<1> QED
  BY <1>6, <1>7, <1>8, Zenon DEF Found

\* Reading: the blocks passed without an entry are readable and hold what was
\* written; a wrapped drive has lost its first number.
LEMMA ReadsKeepFound ==
    ASSUME Setting, InPlace, Found, TestReads, UNCHANGED <<media, pattern, detect_fakes>>
    PROVE  Found'
<1>1. /\ bb.pc = "read" /\ bb.testing < last_block /\ InPlace' /\ SameCheck(bb', bb) /\ Running
      /\ \E got \in 0 .. tryout - 1 : ReadStep(got)
  BY ReadsAre, Zenon DEF Running
<1>2. PICK got \in 0 .. tryout - 1 : ReadStep(got)
  BY <1>1, Zenon
<1>3. /\ tryout \in 1 .. BB_BLOCKS_AT_ONCE /\ tryout \in Nat /\ bb.testing \in Nat /\ Transfer \subseteq Blocks
      /\ bb'.testing \in Nat /\ got \in Nat /\ media.size \in Nat /\ media.size > 0 /\ last_block \in Nat
  <2>1. tryout \in 1 .. BB_BLOCKS_AT_ONCE /\ bb.testing \in Nat /\ Transfer \subseteq Blocks
    BY <1>1, TransferIn, Zenon
  <2>2. tryout \in Nat /\ got \in Nat
    BY <2>1, BadBlocksAssumption
  <2>3. bb'.testing \in Nat
    BY <1>1, Zenon DEF InPlace, Checks
  <2>4. media.size \in Nat /\ media.size > 0
    BY <1>1, <2>1, LastBlockNat DEF Setting
  <2> QED
    BY <2>1, <2>2, <2>3, <2>4, LastBlockNat, Zenon
<1>4. bb'.pc = "read" /\ bb'.pass = bb.pass /\ media' = media /\ detect_fakes' = detect_fakes /\ held' = held
  BY <1>1, <1>2, Zenon DEF SameCheck, ReadStep
<1>5. ASSUME Clean'
      PROVE  /\ Clean
             /\ \/ bb'.testing = bb.testing
                \/ /\ bb'.testing = bb.testing + tryout /\ Bad("rd") = {}
                   /\ \A b \in Transfer : held[at(b)] = Expected(b)
  <2>1. CASE Bad("rd") = {} /\ Passed({b \in Transfer : held[at(b)] # Expected(b)})
    <3> DEFINE found == {b \in Transfer : held[at(b)] # Expected(b)}
    <3>1. Noted(found) /\ bb'.testing = bb.testing + tryout
      BY <2>1, Zenon DEF Passed
    <3>2. found = {} /\ Clean
      <4> HIDE DEF found
      <4> QED
        BY <1>5, <3>1, Zenon DEF Noted, Clean
    <3> QED
      BY <2>1, <3>1, <3>2, Zenon
  <2>2. CASE Failed(got, "rd") /\ (got > 0 => bb'.lost)
    <3>1. got = 0
      BY <1>3, <1>5, <2>2 DEF Clean
    <3>2. Noted(Suspect(got)) /\ bb'.testing = bb.testing + got + (IF Alone(got) THEN 1 ELSE 0)
      BY <2>2, Zenon DEF Failed
    <3>3. Clean /\ Suspect(got) = {}
      BY <1>5, <3>2, Zenon DEF Noted, Clean
    <3>4. ~Alone(got)
      BY <3>3, Zenon DEF Suspect
    <3> QED
      BY <1>3, <3>1, <3>2, <3>3, <3>4
  <2> QED
    BY <1>2, <2>1, <2>2, Zenon DEF ReadStep
<1>6. Rotten'
  BY <1>4, Zenon DEF Found, Rotten
<1>7. FoundGood'
  <2> SUFFICES ASSUME Clean'
               PROVE  /\ \A b \in Blocks : media.kind[at(b)] # "wr"
                      /\ \A b \in 0 .. bb'.testing - 1 : media.kind[at(b)] = "good"
                      /\ bb.pass > 0 => \A b \in Blocks : media.kind[at(b)] = "good"
    BY <1>4, Zenon DEF FoundGood, Running, at
  <2>1. /\ \A b \in Blocks : media.kind[at(b)] # "wr"
        /\ \A b \in 0 .. bb.testing - 1 : media.kind[at(b)] = "good"
        /\ bb.pass > 0 => \A b \in Blocks : media.kind[at(b)] = "good"
    BY <1>1, <1>5, Zenon DEF Found, FoundGood
  <2>2. CASE bb'.testing = bb.testing
    BY <2>1, <2>2, Zenon
  <2>3. CASE bb'.testing = bb.testing + tryout /\ Bad("rd") = {} /\ \A b \in Transfer : held[at(b)] = Expected(b)
    <3>1. \A b \in Transfer : media.kind[at(b)] = "good"
      <4> SUFFICES ASSUME NEW b \in Transfer PROVE media.kind[at(b)] = "good"
        OBVIOUS
      <4>1. b \in Blocks /\ at(b) \in Blocks /\ b >= bb.testing
        BY <1>3, AtIsIn DEF Transfer
      <4>2. media.kind[at(b)] # "rd" /\ media.kind[at(b)] # "wr"
        BY <2>1, <2>3, <4>1, Zenon DEF Bad
      <4>3. held[at(b)] # UNKNOWN
        BY <1>1, <2>3, <4>1, ExpectedIs, Zenon
      <4>4. media.kind[at(b)] # "rot"
        BY <4>1, <4>3, Zenon DEF Found, Rotten
      <4>5. media.kind[at(b)] \in Kinds
        BY <4>1, Zenon DEF Setting
      <4> QED
        BY <4>2, <4>4, <4>5, Zenon DEF Kinds
    <3>2. \A b \in 0 .. bb'.testing - 1 : b \in 0 .. bb.testing - 1 \/ b \in Transfer
      BY <1>3, <2>3 DEF Transfer
    <3> QED
      BY <2>1, <3>1, <3>2, Zenon
  <2> QED
    BY <1>5, <2>2, <2>3, Zenon
<1>8. FoundFake'
  <2> SUFFICES ASSUME detect_fakes, media.size < last_block, Clean'
               PROVE  bb.pass = 0 /\ bb'.testing = 0 /\ held[0] # 0
    BY <1>4 DEF FoundFake, Running
  <2>1. bb.pass = 0 /\ bb.testing = 0 /\ held[0] # 0
    BY <1>1, <1>5, Zenon DEF Found, FoundFake
  <2>2. ~(\A b \in Transfer : held[at(b)] = Expected(b))
    <3>1. 0 \in Transfer /\ at(0) = 0
      BY <1>3, <2>1 DEF Transfer, at
    <3>2. Expected(0) = 0
      BY <2>1, Zenon DEF Expected
    <3> QED
      BY <2>1, <3>1, <3>2, Zenon
  <2> QED
    BY <1>5, <2>1, <2>2, Zenon
<1> QED
  BY <1>6, <1>7, <1>8, Zenon DEF Found

-----------------------------------------------------------------------------
(***************************************************************************)
(* What is in the list, while nothing failed but for a lasting reason      *)
(***************************************************************************)
Lasting == bb.cuts = 0 /\ media.size = last_block

Multi == \E k \in 1 .. nb_passes : pattern[k] > 1

Broken == \E x \in Blocks : media.kind[x] \in {"rd", "wr"}

\* Every block that failed when it was tried;
Due(b) ==
    \/ media.kind[b] = "wr" /\ Running /\ (bb.pc = "read" \/ bb.pass > 0 \/ b < bb.testing)
    \/ media.kind[b] = "rd" /\ Running /\ (bb.pass > 0 \/ (bb.pc = "read" /\ b < bb.testing))
    \/ media.kind[b] \in {"rd", "wr"} /\ bb.pc = "end" /\ ~bb.cancel

AllListed == Lasting => \A b \in Blocks : Due(b) => b \in bb.list

\* and none that is good: those hold what they will be compared with, as all
\* transfers are whole, or the pattern is the same wherever a transfer begins.
Kept(b) == IF detect_fakes /\ bb.pass = 0 THEN b ELSE PatternAt(bb.pass, b % BB_BLOCKS_AT_ONCE)

Even == bb.testing < last_block => bb.tryout = BB_BLOCKS_AT_ONCE /\ bb.testing % BB_BLOCKS_AT_ONCE = 0

NoneListed ==
    Lasting /\ ~(Multi /\ Broken) =>
        /\ \A b \in bb.list : media.kind[b] # "good"
        /\ Running => \A b \in Blocks : media.kind[b] = "good" /\ (bb.pc = "read" \/ b < bb.testing) => held[b] = Kept(b)
        /\ Running /\ ~Broken => Even /\ bb.recover = None

Listed == AllListed /\ NoneListed

\* What a good block is compared with is what it holds.
LEMMA KeptIsExpected ==
    ASSUME Setting, InPlace, Running, bb.testing < last_block, ~Multi \/ Even, NEW b \in Transfer
    PROVE  Expected(b) = Kept(b)
<1>1. /\ tryout \in 1 .. BB_BLOCKS_AT_ONCE /\ tryout \in Nat /\ bb.testing \in Nat /\ BB_BLOCKS_AT_ONCE \in Nat \ {0}
      /\ b \in Nat /\ b - bb.testing \in Nat /\ b - bb.testing < tryout
  <2>1. tryout \in 1 .. BB_BLOCKS_AT_ONCE /\ bb.testing \in Nat
    BY TransferIn, Zenon
  <2>2. BB_BLOCKS_AT_ONCE \in Nat \ {0} /\ tryout \in Nat
    BY <2>1, BadBlocksAssumption
  <2> QED
    BY <2>1, <2>2 DEF Transfer
<1>2. bb.pass + 1 \in 1 .. nb_passes
  BY DEF Setting, InPlace, Checks, nb_passes
<1> DEFINE m == pattern[bb.pass + 1]
           i == b - bb.testing
           j == b % BB_BLOCKS_AT_ONCE
<1>3. m \in Nat \ {0} /\ (~Multi => m = 1) /\ i \in Nat /\ j \in Nat
  <2>1. m \in 1 .. 3
    BY <1>2 DEF Setting, nb_passes
  <2>2. ~Multi => ~(m > 1)
    BY <1>2, Zenon DEF Multi
  <2>3. j \in Nat
    BY <1>1, Remainder
  <2> QED
    BY <1>1, <2>1, <2>2, <2>3
<1>4. i % m = j % m
  <2>1. CASE ~Multi
    <3>1. \A k \in Nat : k % 1 = 0
      OBVIOUS
    <3> HIDE DEF i, j
    <3> QED
      BY <1>3, <2>1, <3>1, Zenon
  <2>2. CASE Even
    <3>1. bb.testing % BB_BLOCKS_AT_ONCE = 0 /\ i < BB_BLOCKS_AT_ONCE
      BY <1>1, <2>2 DEF Even
    <3>2. (bb.testing + i) % BB_BLOCKS_AT_ONCE = i
      <4>1. i \in 0 .. BB_BLOCKS_AT_ONCE - 1
        BY <1>1, <1>3, <3>1
      <4> HIDE DEF i
      <4> QED
        BY <1>1, <3>1, <4>1, RemainderOfSum, Zenon
    <3>3. i = j
      BY <1>1, <3>2
    <3> QED
      BY <3>3, Zenon
  <2> QED
    BY <2>1, <2>2, Zenon
<1> QED
  BY <1>4, Zenon DEF Expected, Kept, PatternAt

\* On a drive of its size every block is in its place.
LEMMA AtIsSelf ==
    ASSUME Setting, media.size = last_block
    PROVE  \A b \in Blocks : at(b) = b
<1> SUFFICES ASSUME NEW b \in Blocks PROVE at(b) = b
  OBVIOUS
<1>1. b < media.size
  BY LastBlockNat DEF Blocks
<1> QED
  BY <1>1, AtIsIn, Zenon

\* A transfer that fails for a lasting reason is of a block that fails, once it
\* is of one block.
LEMMA SuspectIs ==
    ASSUME Setting, InPlace, Running, bb.testing < last_block, media.size = last_block,
           NEW fault \in {"rd", "wr"}, Bad(fault) # {}, NEW got \in Nat, NEW b \in Suspect(got)
    PROVE  b = bb.testing /\ got = 0 /\ media.kind[b] = fault
<1>1. Alone(got) /\ b = bb.testing
  BY Zenon DEF Suspect
<1>2. PICK x \in Transfer : media.kind[at(x)] = fault
  BY Zenon DEF Bad
<1>3. x = bb.testing /\ x \in Blocks
  BY <1>1, <1>2, TransferIn DEF Alone, Transfer
<1>4. at(x) = x
  BY <1>3, AtIsSelf, Zenon
<1> QED
  BY <1>1, <1>2, <1>3, <1>4, Zenon DEF Alone

\* Writing accuses no good block, and good blocks come to hold the pattern.
LEMMA WritesKeepListed ==
    ASSUME Setting, InPlace, Listed, TestWrites, UNCHANGED <<media, pattern, detect_fakes>>
    PROVE  Listed'
<1>1. /\ bb.pc = "write" /\ bb.testing < last_block /\ InPlace' /\ SameCheck(bb', bb) /\ Running
      /\ \E n \in 0 .. tryout : WriteStep(n)
  BY WritesAre, Zenon DEF Running
<1>2. PICK n \in 0 .. tryout : WriteStep(n)
  BY <1>1, Zenon
<1>3. /\ tryout \in 1 .. BB_BLOCKS_AT_ONCE /\ tryout \in Nat /\ bb.testing \in Nat /\ Transfer \subseteq Blocks
      /\ bb'.testing \in Nat /\ n \in Nat /\ last_block \in Nat /\ bb.testing \in Blocks /\ BB_BLOCKS_AT_ONCE \in Nat \ {0}
      /\ bb.testing + tryout = last_block \/ tryout = bb.tryout
  <2>1. /\ tryout \in 1 .. BB_BLOCKS_AT_ONCE /\ bb.testing \in Nat /\ Transfer \subseteq Blocks
        /\ bb.testing + tryout = last_block \/ tryout = bb.tryout
    BY <1>1, TransferIn, Zenon
  <2>2. tryout \in Nat /\ n \in Nat /\ BB_BLOCKS_AT_ONCE \in Nat \ {0}
    BY <2>1, BadBlocksAssumption
  <2>3. bb'.testing \in Nat
    BY <1>1, Zenon DEF InPlace, Checks
  <2>4. bb.testing \in Blocks
    BY <1>1, <2>1, LastBlockNat DEF Blocks
  <2> QED
    BY <2>1, <2>2, <2>3, <2>4, LastBlockNat, Zenon
<1>4. bb'.pc = "write" /\ bb'.pass = bb.pass /\ bb'.cancel = bb.cancel
      /\ media' = media /\ detect_fakes' = detect_fakes /\ pattern' = pattern /\ held' = Written(n)
  BY <1>1, <1>2, Zenon DEF SameCheck, WriteStep
<1>5. Noted({}) \/ Noted(Suspect(0))
  BY <1>2, Zenon DEF WriteStep, Passed, Failed
<1>6. bb.list \subseteq bb'.list /\ bb.cuts \in Nat /\ bb'.cuts \in Nat /\ (bb'.cuts = 0 => bb.cuts = 0)
  BY <1>1, <1>5 DEF Noted, InPlace, Checks
<1>7. Broken' = Broken /\ Multi' = Multi
  BY <1>4, Zenon DEF Broken, Multi, nb_passes
<1>8. SUFFICES ASSUME Lasting' PROVE Listed'
  BY Zenon DEF Listed, AllListed, NoneListed
<1>9. Lasting /\ bb'.cuts = 0
  BY <1>4, <1>6, <1>8, Zenon DEF Lasting
<1>10. CASE n = tryout /\ Bad("wr") = {} /\ Passed({})
  <2>1. bb'.list = bb.list /\ bb'.testing = bb.testing + tryout
    BY <1>10, Zenon DEF Passed, Noted
  <2>2. AllListed'
    <3> SUFFICES ASSUME NEW b \in Blocks, Due(b)' PROVE b \in bb'.list
      BY Zenon DEF AllListed
    <3>1. CASE Due(b)
      BY <1>9, <2>1, <3>1, Zenon DEF Listed, AllListed
    <3>2. CASE ~Due(b)
      <4>1. media.kind[b] = "wr" /\ b < bb'.testing /\ ~(b < bb.testing)
        BY <1>1, <1>4, <3>2, Zenon DEF Due, Running
      <4>2. b \in Transfer
        BY <1>3, <2>1, <4>1 DEF Transfer, Blocks
      <4>3. at(b) = b
        BY <1>9, AtIsSelf, Zenon DEF Lasting
      <4> QED
        BY <1>10, <4>1, <4>2, <4>3, Zenon DEF Bad
    <3> QED
      BY <3>1, <3>2, Zenon
  <2>3. NoneListed'
    <3> SUFFICES ASSUME ~(Multi /\ Broken)
                 PROVE  /\ \A b \in bb.list : media.kind[b] # "good"
                        /\ \A b \in Blocks : media.kind[b] = "good" /\ b < bb'.testing => Written(n)[b] = Kept(b)
                        /\ ~Broken => Even' /\ bb'.recover = None
      BY <1>4, <1>7, <2>1 DEF NoneListed, Kept, PatternAt, Running
    <3>1. /\ \A b \in bb.list : media.kind[b] # "good"
          /\ \A b \in Blocks : media.kind[b] = "good" /\ b < bb.testing => held[b] = Kept(b)
          /\ ~Broken => Even /\ bb.recover = None
      BY <1>1, <1>9, Zenon DEF Listed, NoneListed
    <3>2. ASSUME NEW b \in Blocks, media.kind[b] = "good", b < bb'.testing PROVE Written(n)[b] = Kept(b)
      <4>1. at(b) = b
        BY <1>9, AtIsSelf, Zenon DEF Lasting
      <4>2. CASE Written(n)[b] = held[b] /\ \A x \in bb.testing .. bb.testing + n - 1 : at(x) # b
        <5>1. b \notin bb.testing .. bb.testing + n - 1
          BY <4>1, <4>2, Zenon
        <5>2. b < bb.testing
          BY <1>3, <1>10, <2>1, <3>2, <5>1 DEF Blocks
        <5> QED
          BY <3>1, <3>2, <4>2, <5>2, Zenon
      <4>3. ASSUME NEW x \in Transfer, x \in Blocks, at(x) = b, Written(n)[b] = Expected(x)
            PROVE  Written(n)[b] = Kept(b)
        <5>1. x = b
          BY <1>9, <4>3, AtIsSelf, Zenon DEF Lasting
        <5>2. ~Multi \/ Even
          BY <3>1, Zenon
        <5>3. Expected(x) = Kept(x)
          BY <1>1, <5>2, KeptIsExpected, Zenon
        <5> QED
          BY <4>3, <5>1, <5>3, Zenon
      <4> QED
        BY <1>1, <3>2, <4>2, <4>3, WrittenIs, Zenon
    <3>3. ASSUME ~Broken PROVE Even' /\ bb'.recover = None
      <4>1. Even /\ bb.recover = None
        BY <3>1, <3>3, Zenon
      <4>2. bb'.recover = None /\ bb'.tryout = tryout
        BY <1>10, <4>1, Zenon DEF Passed
      <4>3. ASSUME bb'.testing < last_block PROVE bb'.tryout = BB_BLOCKS_AT_ONCE /\ bb'.testing % BB_BLOCKS_AT_ONCE = 0
        <5>1. tryout = bb.tryout /\ bb.tryout = BB_BLOCKS_AT_ONCE /\ bb.testing % BB_BLOCKS_AT_ONCE = 0
          BY <1>1, <1>3, <2>1, <4>1, <4>3 DEF Even
        <5>2. (bb.testing + BB_BLOCKS_AT_ONCE) % BB_BLOCKS_AT_ONCE = 0
          BY <1>3, <5>1, RemainderOfSum, Zenon
        <5> QED
          BY <2>1, <4>2, <5>1, <5>2, Zenon
      <4> QED
        BY <4>2, <4>3, Zenon DEF Even
    <3> QED
      BY <3>1, <3>2, <3>3, Zenon
  <2> QED
    BY <2>2, <2>3, Zenon DEF Listed
<1>11. CASE Failed(0, "wr")
  <2>1. /\ Bad("wr") # {} /\ bb'.testing = bb.testing + (IF Alone(0) THEN 1 ELSE 0)
        /\ bb'.list \subseteq bb.list \cup Suspect(0) /\ Suspect(0) \subseteq bb'.list
    BY <1>3, <1>9, <1>11 DEF Failed, Noted
  <2>2. \A b \in Suspect(0) : b = bb.testing /\ media.kind[b] = "wr"
    BY <1>1, <1>9, <2>1, SuspectIs, Zenon DEF Lasting
  <2>3. bb'.testing = bb.testing \/ (bb'.testing = bb.testing + 1 /\ bb.testing \in Suspect(0))
    BY <1>3, <2>1 DEF Suspect
  <2>4. Broken
    <3>1. PICK b \in Transfer : media.kind[at(b)] = "wr"
      BY <2>1, Zenon DEF Bad
    <3>2. b \in Blocks /\ at(b) \in Blocks
      BY <1>3, AtIsIn, Zenon
    <3> QED
      BY <3>1, <3>2, Zenon DEF Broken
  <2>5. AllListed'
    <3> SUFFICES ASSUME NEW b \in Blocks, Due(b)' PROVE b \in bb'.list
      BY Zenon DEF AllListed
    <3>1. CASE Due(b)
      BY <1>6, <1>9, <3>1, Zenon DEF Listed, AllListed
    <3>2. CASE ~Due(b)
      <4>1. media.kind[b] = "wr" /\ b < bb'.testing /\ ~(b < bb.testing)
        BY <1>1, <1>4, <3>2, Zenon DEF Due, Running
      <4>2. b = bb.testing /\ b \in Suspect(0)
        BY <1>3, <2>3, <4>1 DEF Blocks
      <4> QED
        BY <2>1, <4>2, Zenon
    <3> QED
      BY <3>1, <3>2, Zenon
  <2>6. NoneListed'
    <3> SUFFICES ASSUME ~(Multi /\ Broken)
                 PROVE  /\ \A b \in bb'.list : media.kind[b] # "good"
                        /\ \A b \in Blocks : media.kind[b] = "good" /\ b < bb'.testing => Written(n)[b] = Kept(b)
      BY <1>4, <1>7, <2>4 DEF NoneListed, Kept, PatternAt, Running
    <3>1. /\ \A b \in bb.list : media.kind[b] # "good"
          /\ \A b \in Blocks : media.kind[b] = "good" /\ b < bb.testing => held[b] = Kept(b)
      BY <1>1, <1>9, Zenon DEF Listed, NoneListed
    <3>2. \A b \in bb'.list : media.kind[b] # "good"
      BY <2>1, <2>2, <3>1, Zenon
    <3>3. ASSUME NEW b \in Blocks, media.kind[b] = "good", b < bb'.testing PROVE Written(n)[b] = Kept(b)
      <4>1. b < bb.testing
        <5>1. b # bb.testing \/ bb'.testing = bb.testing
          BY <2>2, <2>3, <3>3, Zenon
        <5> QED
          BY <1>3, <2>3, <3>3, <5>1 DEF Blocks
      <4>2. \A x \in Transfer : x \in Blocks /\ at(x) # b
        <5> SUFFICES ASSUME NEW x \in Transfer PROVE x \in Blocks /\ at(x) # b
          OBVIOUS
        <5>1. x \in Blocks /\ at(x) = x
          BY <1>3, <1>9, AtIsSelf, Zenon DEF Lasting
        <5> QED
          BY <1>3, <4>1, <5>1 DEF Transfer
      <4>3. Written(n)[b] = held[b]
        BY <1>1, <4>2, WrittenIs, Zenon
      <4> QED
        BY <3>1, <3>3, <4>1, <4>3, Zenon
    <3> QED
      BY <3>2, <3>3, Zenon
  <2> QED
    BY <2>5, <2>6, Zenon DEF Listed
<1> QED
  BY <1>2, <1>10, <1>11, Zenon DEF WriteStep

\* Reading accuses no good block.
LEMMA ReadsKeepListed ==
    ASSUME Setting, InPlace, Listed, TestReads, UNCHANGED <<media, pattern, detect_fakes>>
    PROVE  Listed'
<1>1. /\ bb.pc = "read" /\ bb.testing < last_block /\ InPlace' /\ SameCheck(bb', bb) /\ Running
      /\ \E got \in 0 .. tryout - 1 : ReadStep(got)
  BY ReadsAre, Zenon DEF Running
<1>2. PICK got \in 0 .. tryout - 1 : ReadStep(got)
  BY <1>1, Zenon
<1>3. /\ tryout \in 1 .. BB_BLOCKS_AT_ONCE /\ tryout \in Nat /\ bb.testing \in Nat /\ Transfer \subseteq Blocks
      /\ bb'.testing \in Nat /\ got \in Nat /\ got < tryout /\ last_block \in Nat /\ BB_BLOCKS_AT_ONCE \in Nat \ {0}
      /\ bb.testing + tryout = last_block \/ tryout = bb.tryout
  <2>1. /\ tryout \in 1 .. BB_BLOCKS_AT_ONCE /\ bb.testing \in Nat /\ Transfer \subseteq Blocks
        /\ bb.testing + tryout = last_block \/ tryout = bb.tryout
    BY <1>1, TransferIn, Zenon
  <2>2. tryout \in Nat /\ got \in Nat /\ BB_BLOCKS_AT_ONCE \in Nat \ {0}
    BY <2>1, BadBlocksAssumption
  <2>3. bb'.testing \in Nat /\ got < tryout
    BY <1>1, <2>2 DEF InPlace, Checks
  <2> QED
    BY <2>1, <2>2, <2>3, LastBlockNat, Zenon
<1>4. bb'.pc = "read" /\ bb'.pass = bb.pass /\ bb'.cancel = bb.cancel
      /\ media' = media /\ detect_fakes' = detect_fakes /\ pattern' = pattern /\ held' = held
  BY <1>1, <1>2, Zenon DEF SameCheck, ReadStep
<1> DEFINE found == {b \in Transfer : held[at(b)] # Expected(b)}
<1>5. Noted(found) \/ Noted(Suspect(got))
  BY <1>2, Zenon DEF ReadStep, Passed, Failed
<1>6. bb.list \subseteq bb'.list /\ bb.cuts \in Nat /\ bb'.cuts \in Nat /\ (bb'.cuts = 0 => bb.cuts = 0)
  <2> HIDE DEF found
  <2> QED
    BY <1>1, <1>5 DEF Noted, InPlace, Checks
<1>7. Broken' = Broken /\ Multi' = Multi
  BY <1>4, Zenon DEF Broken, Multi, nb_passes
<1>8. SUFFICES ASSUME Lasting' PROVE Listed'
  BY Zenon DEF Listed, AllListed, NoneListed
<1>9. Lasting /\ bb'.cuts = 0
  BY <1>4, <1>6, <1>8, Zenon DEF Lasting
<1>10. \A b \in Blocks : at(b) = b
  BY <1>9, AtIsSelf, Zenon DEF Lasting
<1>11. ~(Multi /\ Broken) => /\ \A b \in bb.list : media.kind[b] # "good"
                             /\ \A b \in Blocks : media.kind[b] = "good" => held[b] = Kept(b)
                             /\ ~Broken => Even /\ bb.recover = None
  BY <1>1, <1>9, Zenon DEF Listed, NoneListed
<1>12. CASE Bad("rd") = {} /\ Passed(found)
  <2>1. bb'.list \subseteq bb.list \cup found /\ bb'.testing = bb.testing + tryout
    <3> HIDE DEF found
    <3> QED
      BY <1>12, Zenon DEF Passed, Noted
  <2>2. AllListed'
    <3> SUFFICES ASSUME NEW b \in Blocks, Due(b)' PROVE b \in bb'.list
      BY Zenon DEF AllListed
    <3>1. CASE Due(b)
      BY <1>6, <1>9, <3>1, Zenon DEF Listed, AllListed
    <3>2. CASE ~Due(b)
      <4>1. media.kind[b] = "rd" /\ b < bb'.testing /\ ~(b < bb.testing)
        BY <1>1, <1>4, <3>2, Zenon DEF Due, Running
      <4>2. b \in Transfer
        BY <1>3, <2>1, <4>1 DEF Transfer, Blocks
      <4> QED
        BY <1>10, <1>12, <4>1, <4>2, Zenon DEF Bad
    <3> QED
      BY <3>1, <3>2, Zenon
  <2>3. NoneListed'
    <3> SUFFICES ASSUME ~(Multi /\ Broken)
                 PROVE  /\ \A b \in bb'.list : media.kind[b] # "good"
                        /\ \A b \in Blocks : media.kind[b] = "good" => held[b] = Kept(b)
                        /\ ~Broken => Even' /\ bb'.recover = None
      BY <1>4, <1>7 DEF NoneListed, Kept, PatternAt, Running
    <3>1. \A b \in found : media.kind[b] # "good"
      <4> SUFFICES ASSUME NEW b \in found, media.kind[b] = "good" PROVE FALSE
        OBVIOUS
      <4>1. b \in Transfer /\ b \in Blocks /\ held[b] # Expected(b)
        BY <1>3, <1>10, Zenon
      <4>2. ~Multi \/ Even
        BY <1>11, Zenon
      <4>3. Expected(b) = Kept(b)
        BY <1>1, <4>1, <4>2, KeptIsExpected, Zenon
      <4> QED
        BY <1>11, <4>1, <4>3, Zenon
    <3>2. \A b \in bb'.list : media.kind[b] # "good"
      <4> HIDE DEF found
      <4> QED
        BY <1>11, <2>1, <3>1, Zenon
    <3>3. ASSUME ~Broken PROVE Even' /\ bb'.recover = None
      <4>1. Even /\ bb.recover = None
        BY <1>11, <3>3, Zenon
      <4>2. bb'.recover = None /\ bb'.tryout = tryout
        <5> HIDE DEF found
        <5> QED
          BY <1>12, <4>1, Zenon DEF Passed
      <4>3. ASSUME bb'.testing < last_block PROVE bb'.tryout = BB_BLOCKS_AT_ONCE /\ bb'.testing % BB_BLOCKS_AT_ONCE = 0
        <5>1. tryout = bb.tryout /\ bb.tryout = BB_BLOCKS_AT_ONCE /\ bb.testing % BB_BLOCKS_AT_ONCE = 0
          BY <1>1, <1>3, <2>1, <4>1, <4>3 DEF Even
        <5>2. (bb.testing + BB_BLOCKS_AT_ONCE) % BB_BLOCKS_AT_ONCE = 0
          BY <1>3, <5>1, RemainderOfSum, Zenon
        <5> QED
          BY <2>1, <4>2, <5>1, <5>2, Zenon
      <4> QED
        BY <4>2, <4>3, Zenon DEF Even
    <3> QED
      BY <1>11, <3>2, <3>3, Zenon
  <2> QED
    BY <2>2, <2>3, Zenon DEF Listed
<1>13. CASE Failed(got, "rd") /\ \A b \in Bad("rd") : bb.testing + got <= b
  <2>1. /\ Bad("rd") # {} /\ bb'.testing = bb.testing + got + (IF Alone(got) THEN 1 ELSE 0)
        /\ bb'.list \subseteq bb.list \cup Suspect(got) /\ Suspect(got) \subseteq bb'.list
    BY <1>3, <1>9, <1>13, Zenon DEF Failed, Noted
  <2>2. \A b \in Suspect(got) : b = bb.testing /\ got = 0 /\ media.kind[b] = "rd"
    BY <1>1, <1>3, <1>9, <2>1, SuspectIs, Zenon DEF Lasting
  <2>3. bb'.testing = bb.testing + got \/ (bb'.testing = bb.testing + 1 /\ bb.testing \in Suspect(got))
    BY <1>3, <2>1 DEF Suspect, Alone
  <2>4. Broken
    <3>1. PICK b \in Transfer : media.kind[at(b)] = "rd"
      BY <2>1, Zenon DEF Bad
    <3>2. b \in Blocks /\ at(b) \in Blocks
      BY <1>3, AtIsIn, Zenon
    <3> QED
      BY <3>1, <3>2, Zenon DEF Broken
  <2>5. AllListed'
    <3> SUFFICES ASSUME NEW b \in Blocks, Due(b)' PROVE b \in bb'.list
      BY Zenon DEF AllListed
    <3>1. CASE Due(b)
      BY <1>6, <1>9, <3>1, Zenon DEF Listed, AllListed
    <3>2. CASE ~Due(b)
      <4>1. media.kind[b] = "rd" /\ b < bb'.testing /\ ~(b < bb.testing) /\ b \in Nat
        BY <1>1, <1>4, <3>2 DEF Due, Running, Blocks
      <4>2. CASE bb'.testing = bb.testing + got
        <5>1. b \in Transfer
          BY <1>3, <4>1, <4>2 DEF Transfer
        <5>2. b \in Bad("rd")
          BY <1>10, <4>1, <5>1, Zenon DEF Bad
        <5> QED
          BY <1>3, <1>13, <4>1, <4>2, <5>2
      <4>3. CASE bb'.testing = bb.testing + 1 /\ bb.testing \in Suspect(got)
        <5>1. b = bb.testing
          BY <1>3, <4>1, <4>3
        <5> QED
          BY <2>1, <4>3, <5>1, Zenon
      <4> QED
        BY <2>3, <4>2, <4>3, Zenon
    <3> QED
      BY <3>1, <3>2, Zenon
  <2>6. NoneListed'
    <3> SUFFICES ASSUME ~(Multi /\ Broken)
                 PROVE  /\ \A b \in bb'.list : media.kind[b] # "good"
                        /\ \A b \in Blocks : media.kind[b] = "good" => held[b] = Kept(b)
      BY <1>4, <1>7, <2>4 DEF NoneListed, Kept, PatternAt, Running
    <3> QED
      BY <1>11, <2>1, <2>2, Zenon
  <2> QED
    BY <2>5, <2>6, Zenon DEF Listed
<1> QED
  BY <1>2, <1>12, <1>13, Zenon DEF ReadStep

-----------------------------------------------------------------------------
(***************************************************************************)
(* The other steps of the check                                            *)
(***************************************************************************)
\* Fields that the end of a phase leaves alone
SameFindings(c, d) == c.list = d.list /\ c.lost = d.lost /\ c.cuts = d.cuts /\ c.recover = d.recover /\ c.n = d.n /\ c.clean = d.clean

PhaseStep ==
    \/ bb'.pc = "end" /\ bb'.cancel
    \/ bb.testing >= last_block /\ bb.pc = "read" /\ bb'.pc = "end" /\ bb'.cancel = bb.cancel
    \/ /\ bb.testing >= last_block /\ bb'.testing = 0 /\ bb'.tryout = BB_BLOCKS_AT_ONCE /\ bb'.cancel = bb.cancel
       /\ \/ bb.pc = "write" /\ bb'.pc = "read" /\ bb'.pass = bb.pass
          \/ bb.pc = "read" /\ bb'.pc = "write" /\ bb'.pass = bb.pass + 1

\* What the end of a phase of test_rw does
LEMMA PhaseIs ==
    ASSUME Setting, InPlace, PhaseEnds, UNCHANGED <<media, pattern, detect_fakes>>
    PROVE  Running /\ held' = held /\ InPlace' /\ SameFindings(bb', bb) /\ PhaseStep
<1>1. Running /\ held' = held /\ bb \in Checks
  BY Zenon DEF PhaseEnds, Running, InPlace
<1>2. CASE bb' = [bb EXCEPT !.pc = "end", !.cancel = TRUE]
  <2>1. bb' \in Checks
    BY <1>1, <1>2, Zenon DEF Checks
  <2>2. SameFindings(bb', bb) /\ bb'.pc = "end" /\ bb'.cancel
    BY <1>1, <1>2, Zenon DEF Checks, SameFindings
  <2>3. bb'.testing = bb.testing /\ bb'.tryout = bb.tryout /\ bb'.pass = bb.pass
    BY <1>1, <1>2, Zenon DEF Checks
  <2>4. InPlace'
    BY <1>1, <2>1, <2>2, <2>3 DEF InPlace, SameFindings, Running, Holdings, PatternAt, nb_passes
  <2> QED
    BY <1>1, <2>2, <2>4, Zenon DEF PhaseStep
<1>3. CASE bb.testing >= last_block /\ bb.pc = "read" /\ bb' = [bb EXCEPT !.pc = "end"]
  <2>1. bb' \in Checks
    BY <1>1, <1>3, Zenon DEF Checks
  <2>2. SameFindings(bb', bb) /\ bb'.pc = "end" /\ bb'.cancel = bb.cancel
    BY <1>1, <1>3, Zenon DEF Checks, SameFindings
  <2>3. bb'.testing = bb.testing /\ bb'.tryout = bb.tryout /\ bb'.pass = bb.pass
    BY <1>1, <1>3, Zenon DEF Checks
  <2>4. InPlace'
    BY <1>1, <2>1, <2>2, <2>3 DEF InPlace, SameFindings, Running, Holdings, PatternAt, nb_passes
  <2> QED
    BY <1>1, <1>3, <2>2, <2>4, Zenon DEF PhaseStep
<1>4. CASE /\ bb.testing >= last_block /\ (bb.pc = "write" \/ (bb.pass + 1 < nb_passes /\ ~bb.cancel))
           /\ bb' = [bb EXCEPT !.pc = IF @ = "write" THEN "read" ELSE "write",
                               !.pass = IF bb.pc = "write" THEN @ ELSE @ + 1,
                               !.testing = 0, !.tryout = BB_BLOCKS_AT_ONCE]
  <2> DEFINE w == IF bb.pc = "write" THEN "read" ELSE "write"
             p == IF bb.pc = "write" THEN bb.pass ELSE bb.pass + 1
             c == [bb EXCEPT !.pc = w]
             d == [c EXCEPT !.pass = p]
             e == [d EXCEPT !.testing = 0]
  <2>1. w \in {"read", "write"} /\ p \in Nat /\ p < nb_passes /\ BB_BLOCKS_AT_ONCE \in Nat \ {0}
    BY <1>1, <1>4, BadBlocksAssumption DEF Checks, InPlace
  <2>2. /\ bb.pc = "write" => w = "read" /\ p = bb.pass
        /\ bb.pc = "read" => w = "write" /\ p = bb.pass + 1
    OBVIOUS
  <2>3. bb' = [e EXCEPT !.tryout = BB_BLOCKS_AT_ONCE]
    BY <1>1, <1>4, Zenon DEF Checks
  <2> HIDE DEF w, p
  <2>4. c \in Checks /\ SameFindings(c, bb) /\ c.pc = w /\ c.cancel = bb.cancel
    BY <1>1, <2>1, Zenon DEF Checks, SameFindings
  <2> HIDE DEF c
  <2>5. d \in Checks /\ SameFindings(d, c) /\ d.pc = w /\ d.cancel = c.cancel /\ d.pass = p
    BY <2>1, <2>4, Zenon DEF Checks, SameFindings
  <2> HIDE DEF d
  <2>6. e \in Checks /\ SameFindings(e, d) /\ e.pc = w /\ e.cancel = d.cancel /\ e.pass = p /\ e.testing = 0
    BY <2>1, <2>5, Zenon DEF Checks, SameFindings
  <2> HIDE DEF e
  <2>7. bb' \in Checks
    BY <2>1, <2>3, <2>6, Zenon DEF Checks
  <2>8. SameFindings(bb', e) /\ bb'.pc = w /\ bb'.cancel = e.cancel /\ bb'.pass = p /\ bb'.testing = 0
        /\ bb'.tryout = BB_BLOCKS_AT_ONCE
    BY <2>3, <2>6, Zenon DEF Checks, SameFindings
  <2>9. SameFindings(bb', bb) /\ bb'.cancel = bb.cancel
    BY <2>4, <2>5, <2>6, <2>8, Zenon DEF SameFindings
  <2>10. bb'.testing \in 0 .. last_block /\ bb'.tryout \in 1 .. BB_BLOCKS_AT_ONCE /\ bb'.tryout \in 0 .. BB_BLOCKS_AT_ONCE
    BY <2>1, <2>8, LastBlockNat
  <2>11. InPlace'
    BY <1>1, <2>1, <2>7, <2>8, <2>9, <2>10 DEF InPlace, SameFindings, Running, Holdings, PatternAt, nb_passes
  <2>12. PhaseStep
    BY <1>1, <1>4, <2>2, <2>8, <2>9, Zenon DEF PhaseStep, Running
  <2> QED
    BY <1>1, <2>9, <2>11, <2>12, Zenon
<1> QED
  BY <1>2, <1>3, <1>4, Zenon DEF PhaseEnds

\* The next phase begins with nothing passed; what the reads of a pass found is
\* kept.
LEMMA PhaseKeepsFound ==
    ASSUME Setting, InPlace, Found, PhaseEnds, UNCHANGED <<media, pattern, detect_fakes>>
    PROVE  Found'
<1>1. /\ Running /\ held' = held /\ SameFindings(bb', bb) /\ PhaseStep /\ media' = media /\ detect_fakes' = detect_fakes
      /\ bb.pass \in Nat /\ bb.testing \in Nat /\ last_block \in Nat /\ bb'.pass \in Nat
  BY PhaseIs, LastBlockNat, Zenon DEF InPlace, Checks
<1>2. Clean' <=> Clean
  BY <1>1, Zenon DEF Clean, SameFindings
<1>3. Rotten'
  BY <1>1, Zenon DEF Found, Rotten
<1>4. FoundGood /\ FoundFake
  BY Zenon DEF Found
<1>5. bb.testing >= last_block => \A b \in Blocks : b \in 0 .. bb.testing - 1
  BY <1>1 DEF Blocks
<1>6. FoundGood'
  <2> SUFFICES ASSUME Clean'
               PROVE  /\ bb'.pc = "write" => \A b \in 0 .. bb'.testing - 1 : media.kind[at(b)] # "wr"
                      /\ bb'.pc = "read" => /\ \A b \in Blocks : media.kind[at(b)] # "wr"
                                            /\ \A b \in 0 .. bb'.testing - 1 : media.kind[at(b)] = "good"
                      /\ (bb'.pc \in {"write", "read"} /\ bb'.pass > 0) \/ (bb'.pc = "end" /\ ~bb'.cancel) =>
                             \A b \in Blocks : media.kind[at(b)] = "good"
    BY <1>1, Zenon DEF FoundGood, Running, at
  <2>1. /\ bb.pc = "write" => \A b \in 0 .. bb.testing - 1 : media.kind[at(b)] # "wr"
        /\ bb.pc = "read" => /\ \A b \in Blocks : media.kind[at(b)] # "wr"
                             /\ \A b \in 0 .. bb.testing - 1 : media.kind[at(b)] = "good"
        /\ Running /\ bb.pass > 0 => \A b \in Blocks : media.kind[at(b)] = "good"
    BY <1>2, <1>4, Zenon DEF FoundGood
  <2>2. CASE bb'.pc = "end" /\ bb'.cancel
    BY <2>2, Zenon
  <2>3. CASE bb.testing >= last_block /\ bb.pc = "read" /\ bb'.pc = "end" /\ bb'.cancel = bb.cancel
    BY <1>5, <2>1, <2>3, Zenon
  <2>4. CASE bb.testing >= last_block /\ bb'.testing = 0 /\ bb.pc = "write" /\ bb'.pc = "read" /\ bb'.pass = bb.pass
    BY <1>1, <1>5, <2>1, <2>4
  <2>5. CASE bb.testing >= last_block /\ bb'.testing = 0 /\ bb.pc = "read" /\ bb'.pc = "write" /\ bb'.pass = bb.pass + 1
    BY <1>5, <2>1, <2>5
  <2> QED
    BY <1>1, <2>2, <2>3, <2>4, <2>5, Zenon DEF PhaseStep
<1>7. FoundFake'
  BY <1>1, <1>2, <1>4 DEF FoundFake, PhaseStep, Running, Setting
<1> QED
  BY <1>3, <1>6, <1>7, Zenon DEF Found

\* The list goes from phase to phase and from pass to pass.
LEMMA PhaseKeepsListed ==
    ASSUME Setting, InPlace, Listed, PhaseEnds, UNCHANGED <<media, pattern, detect_fakes>>
    PROVE  Listed'
<1>1. /\ Running /\ held' = held /\ SameFindings(bb', bb) /\ PhaseStep /\ media' = media /\ detect_fakes' = detect_fakes
      /\ pattern' = pattern
      /\ bb.pass \in Nat /\ bb.testing \in Nat /\ last_block \in Nat /\ bb'.pass \in Nat /\ BB_BLOCKS_AT_ONCE \in Nat \ {0}
  BY PhaseIs, LastBlockNat, BadBlocksAssumption, Zenon DEF InPlace, Checks
<1>2. Lasting' <=> Lasting
  BY <1>1, Zenon DEF Lasting, SameFindings
<1>3. Broken' = Broken /\ Multi' = Multi
  BY <1>1, Zenon DEF Broken, Multi, nb_passes
<1>4. bb.testing >= last_block => \A b \in Blocks : b < bb.testing
  BY <1>1 DEF Blocks
<1>5. AllListed'
  <2> SUFFICES ASSUME Lasting, NEW b \in Blocks, Due(b)' PROVE Due(b)
    BY <1>1, <1>2, Zenon DEF Listed, AllListed, SameFindings
  <2>1. b \in Nat /\ ~(b < 0)
    BY <1>1 DEF Blocks
  <2>2. CASE bb'.pc = "end" /\ bb'.cancel
    BY <1>1, <2>2, Zenon DEF Due, Running
  <2>3. CASE bb.testing >= last_block /\ bb.pc = "read" /\ bb'.pc = "end"
    BY <1>1, <1>4, <2>3 DEF Due, Running
  <2>4. CASE bb.testing >= last_block /\ bb'.testing = 0 /\ bb.pc = "write" /\ bb'.pc = "read" /\ bb'.pass = bb.pass
    BY <1>1, <1>4, <2>1, <2>4, Zenon DEF Due, Running
  <2>5. CASE bb.testing >= last_block /\ bb'.testing = 0 /\ bb.pc = "read" /\ bb'.pc = "write"
    BY <1>1, <1>4, <2>1, <2>5 DEF Due, Running
  <2> QED
    BY <1>1, <2>2, <2>3, <2>4, <2>5, Zenon DEF PhaseStep
<1>6. NoneListed'
  <2> SUFFICES ASSUME Lasting, ~(Multi /\ Broken)
               PROVE  /\ \A b \in bb'.list : media.kind[b] # "good"
                      /\ Running' => \A b \in Blocks :
                             media.kind[b] = "good" /\ (bb'.pc = "read" \/ b < bb'.testing) => held[b] = Kept(b)'
                      /\ Running' /\ ~Broken => Even' /\ bb'.recover = None
    BY <1>1, <1>2, <1>3, Zenon DEF NoneListed
  <2>1. /\ \A b \in bb.list : media.kind[b] # "good"
        /\ \A b \in Blocks : media.kind[b] = "good" /\ (bb.pc = "read" \/ b < bb.testing) => held[b] = Kept(b)
        /\ ~Broken => bb.recover = None
    BY <1>1, Zenon DEF Listed, NoneListed
  <2>2. \A b \in bb'.list : media.kind[b] # "good"
    BY <1>1, <2>1, Zenon DEF SameFindings
  <2>3. ASSUME Running', NEW b \in Blocks, media.kind[b] = "good", bb'.pc = "read" \/ b < bb'.testing
        PROVE  held[b] = Kept(b)'
    <3>1. bb.testing >= last_block /\ bb'.testing = 0
      BY <1>1, <2>3, Zenon DEF Running, PhaseStep
    <3>2. ~(b < bb'.testing)
      BY <1>1, <3>1 DEF Blocks
    <3>3. bb'.pass = bb.pass
      BY <1>1, <2>3, <3>2, Zenon DEF PhaseStep, Running
    <3>4. held[b] = Kept(b)
      BY <1>4, <2>1, <2>3, <3>1, Zenon
    <3> QED
      BY <1>1, <3>3, <3>4 DEF Kept, PatternAt
  <2>4. ASSUME Running', ~Broken PROVE Even' /\ bb'.recover = None
    <3>1. bb'.testing = 0 /\ bb'.tryout = BB_BLOCKS_AT_ONCE
      BY <1>1, <2>4, Zenon DEF Running, PhaseStep
    <3>2. 0 % BB_BLOCKS_AT_ONCE = 0
      BY <1>1
    <3> QED
      BY <1>1, <2>1, <2>4, <3>1, <3>2, Zenon DEF Even, SameFindings
  <2> QED
    BY <2>2, <2>3, <2>4, Zenon
<1> QED
  BY <1>5, <1>6, Zenon DEF Listed

\* alarm_intr, the timer that looks for a cancellation, changes no finding.
LEMMA AlarmKeeps ==
    ASSUME Setting, InPlace, Found, Listed, alarm_intr, UNCHANGED <<media, pattern, detect_fakes>>
    PROVE  InPlace' /\ Found' /\ Listed' /\ SameFindings(bb', bb)
<1>1. bb \in Checks /\ held' = held /\ bb' = [bb EXCEPT !.cancel = TRUE] /\ Running
  BY Zenon DEF alarm_intr, InPlace, Running
<1>2. bb' \in Checks
  BY <1>1, Zenon DEF Checks
<1>3. /\ SameFindings(bb', bb) /\ bb'.pc = bb.pc /\ bb'.pass = bb.pass /\ bb'.testing = bb.testing /\ bb'.tryout = bb.tryout
      /\ bb'.cancel
  BY <1>1, Zenon DEF Checks, SameFindings
<1>4. InPlace'
  BY <1>1, <1>2, <1>3 DEF InPlace, SameFindings, Running, Holdings, PatternAt, nb_passes
<1>5. Found'
  <2>1. Clean' <=> Clean
    BY <1>3, Zenon DEF Clean, SameFindings
  <2>2. Rotten'
    BY <1>1, Zenon DEF Found, Rotten
  <2>3. FoundGood'
    BY <1>1, <1>3, <2>1, Zenon DEF Found, FoundGood, Running, at
  <2>4. FoundFake'
    BY <1>1, <1>3, <2>1, Zenon DEF Found, FoundFake, Running
  <2> QED
    BY <2>2, <2>3, <2>4, Zenon DEF Found
<1>6. Listed'
  <2>1. (Lasting' <=> Lasting) /\ Broken' = Broken /\ Multi' = Multi /\ (Running' <=> Running) /\ (Even' <=> Even)
    BY <1>1, <1>3, Zenon DEF Lasting, Broken, Multi, nb_passes, Running, Even, SameFindings
  <2>2. \A b \in Blocks : Due(b)' => Due(b)
    BY <1>1, <1>3, Zenon DEF Due, Running
  <2>3. AllListed'
    BY <1>3, <2>1, <2>2, Zenon DEF Listed, AllListed, SameFindings
  <2>4. \A b \in Blocks : Kept(b)' = Kept(b)
    BY <1>3, Zenon DEF Kept, PatternAt
  <2>5. NoneListed'
    BY <1>1, <1>3, <2>1, <2>4, Zenon DEF Listed, NoneListed, SameFindings
  <2> QED
    BY <2>3, <2>5, Zenon DEF Listed
<1> QED
  BY <1>3, <1>4, <1>5, <1>6, Zenon

\* A check begins, or there is none: nothing is known and nothing is listed.
Fresh(c) ==
    /\ c \in Checks /\ c.list = {} /\ c.pass = 0 /\ c.testing = 0 /\ c.cuts = 0 /\ c.recover = None
    /\ \/ c.pc = "off" /\ c.tryout = 0
       \/ c.pc = "write" /\ c.tryout = BB_BLOCKS_AT_ONCE
       \/ c.pc = "end" /\ c.cancel /\ c.tryout = BB_BLOCKS_AT_ONCE

Begun == Setting /\ held \in [Blocks -> Holdings] /\ Rotten /\ Fresh(bb)

\* A check that has not begun has passed nothing
LEMMA FreshKeeps ==
    Begun => InPlace /\ Found /\ Listed
<1> SUFFICES ASSUME Setting, held \in [Blocks -> Holdings], Rotten, Fresh(bb)
             PROVE  InPlace /\ Found /\ Listed
  BY Zenon DEF Begun
<1>1. /\ 0 \in 0 .. last_block /\ 0 \in Nat /\ 0 <= MaxCuts /\ 0 < nb_passes /\ BB_BLOCKS_AT_ONCE \in Nat \ {0}
      /\ BB_BLOCKS_AT_ONCE \in 1 .. BB_BLOCKS_AT_ONCE /\ BB_BLOCKS_AT_ONCE \in 0 .. BB_BLOCKS_AT_ONCE
      /\ 0 \in 0 .. BB_BLOCKS_AT_ONCE /\ 0 .. 0 - 1 = {} /\ 0 % BB_BLOCKS_AT_ONCE = 0
      /\ \A b \in Blocks : ~(b < 0)
  BY LastBlockNat, BadBlocksAssumption DEF Setting, Blocks, nb_passes
<1>2. InPlace
  BY <1>1, Zenon DEF InPlace, Fresh, Running
<1>3. FoundGood
  BY <1>1 DEF FoundGood, Fresh, Running
<1>4. FoundFake
  <2>1. ~(0 > media.size)
    BY LastBlockNat DEF Setting
  <2> QED
    BY <2>1, Zenon DEF FoundFake, Fresh, Running
<1>5. AllListed
  BY <1>1 DEF AllListed, Due, Fresh, Running
<1>6. NoneListed
  BY <1>1, Zenon DEF NoneListed, Even, Fresh, Running
<1> QED
  BY <1>2, <1>3, <1>4, <1>5, <1>6, Zenon DEF Found, Listed

\* What a check that found nothing has shown
Verdict ==
    bb.clean /\ ~bb.lost =>
        /\ detect_fakes => media.size = last_block
        /\ media.size = last_block => \A b \in Blocks : media.kind[b] = "good"

CInv == Setting /\ InPlace /\ Found /\ Listed /\ Verdict

\* The check is right at its end.
LEMMA CInvCheckIsRight ==
    ASSUME CInv PROVE CheckIsRight
<1> SUFFICES ASSUME bb.pc = "end"
             PROVE  /\ bb.list = {} /\ ~bb.cancel /\ ~bb.lost =>
                          /\ detect_fakes => media.size = last_block
                          /\ media.size = last_block => \A b \in Blocks : media.kind[b] = "good"
                    /\ bb.cuts = 0 /\ media.size = last_block =>
                          /\ \A b \in bb.list : media.kind[b] # "good" \/ (Multi /\ Broken)
                          /\ ~bb.cancel => \A b \in Blocks : media.kind[b] \in {"rd", "wr"} => b \in bb.list
  BY Zenon DEF CheckIsRight, Multi, Broken
<1>1. ASSUME Clean, ~bb.cancel
      PROVE  /\ detect_fakes => media.size = last_block
             /\ media.size = last_block => \A b \in Blocks : media.kind[b] = "good"
  <2>1. ~(detect_fakes /\ media.size < last_block)
    BY <1>1, Zenon DEF CInv, Found, FoundFake
  <2>2. media.size <= last_block /\ media.size \in Nat /\ last_block \in Nat
    BY LastBlockNat DEF CInv, Setting
  <2>3. \A b \in Blocks : media.kind[at(b)] = "good"
    BY <1>1, Zenon DEF CInv, Found, FoundGood
  <2>4. media.size = last_block => \A b \in Blocks : at(b) = b
    BY AtIsSelf, Zenon DEF CInv
  <2>5. media.size = last_block => \A b \in Blocks : media.kind[b] = "good"
    BY <2>3, <2>4, Zenon
  <2>6. detect_fakes => media.size = last_block
    BY <2>1, <2>2
  <2> QED
    BY <2>5, <2>6, Zenon
<1>2. ASSUME Lasting PROVE \A b \in bb.list : media.kind[b] # "good" \/ (Multi /\ Broken)
  BY <1>2, Zenon DEF CInv, Listed, NoneListed
<1>3. ASSUME Lasting, ~bb.cancel PROVE \A b \in Blocks : media.kind[b] \in {"rd", "wr"} => b \in bb.list
  BY <1>3, Zenon DEF CInv, Listed, AllListed, Due
<1> QED
  BY <1>1, <1>2, <1>3, Zenon DEF Clean, Lasting

\* and so has one that is just beginning.
LEMMA FreshKeepsNext ==
    Begun' => InPlace' /\ Found' /\ Listed'
BY FreshKeeps, PTL

\* No check before the first
LEMMA NoCheckIs ==
    Fresh(NoCheck) /\ NoCheck.pc = "off" /\ NoCheck.tryout = 0 /\ ~NoCheck.clean /\ NoCheck.n = 0
<1>1. NoCheck \in Checks
  <2>1. {} \in SUBSET Blocks /\ -1 \in Int /\ 0 \in Nat
    OBVIOUS
  <2> QED
    BY <2>1, Zenon DEF NoCheck, Checks, None
<1>2. /\ NoCheck.pc = "off" /\ NoCheck.pass = 0 /\ NoCheck.testing = 0 /\ NoCheck.tryout = 0
      /\ NoCheck.recover = None /\ NoCheck.list = {} /\ NoCheck.cuts = 0 /\ NoCheck.n = 0
      /\ NoCheck.clean = FALSE
  BY Zenon DEF NoCheck
<1> QED
  BY <1>1, <1>2, Zenon DEF Fresh

\* FormatThread begins a check, the first or one more.
LEMMA BeginsKeepsCInv ==
    ASSUME CInv, BadBlocksBegins, UNCHANGED <<media, pattern, detect_fakes>>
    PROVE  CInv' /\ bb'.n = bb.n + 1
<1> DEFINE n == bb.n + 1
           b1 == [NoCheck EXCEPT !.pc = "write"]
           b2 == [b1 EXCEPT !.tryout = BB_BLOCKS_AT_ONCE]
           b3 == [b2 EXCEPT !.n = n]
           b4 == [b3 EXCEPT !.pc = "end"]
           b5 == [b4 EXCEPT !.cancel = TRUE]
<1>1. n \in Nat /\ BB_BLOCKS_AT_ONCE \in Nat \ {0} /\ held' = held
  BY BadBlocksAssumption DEF CInv, InPlace, Checks, BadBlocksBegins
<1>2. bb' = b3 \/ bb' = b5
  BY Zenon DEF BadBlocksBegins, NoCheck
<1> HIDE DEF n
<1>3. /\ b1 \in Checks /\ b1.list = {} /\ b1.pass = 0 /\ b1.testing = 0 /\ b1.cuts = 0 /\ b1.recover = None
      /\ b1.pc = "write" /\ ~b1.clean
  BY NoCheckIs, Zenon DEF Checks, Fresh
<1> HIDE DEF b1
<1>4. /\ b2 \in Checks /\ b2.list = {} /\ b2.pass = 0 /\ b2.testing = 0 /\ b2.cuts = 0 /\ b2.recover = None
      /\ b2.pc = "write" /\ b2.tryout = BB_BLOCKS_AT_ONCE /\ ~b2.clean
  BY <1>1, <1>3, Zenon DEF Checks
<1> HIDE DEF b2
<1>5. Fresh(b3) /\ b3.n = n /\ ~b3.clean /\ b3.tryout = BB_BLOCKS_AT_ONCE
  BY <1>1, <1>4, Zenon DEF Checks, Fresh
<1> HIDE DEF b3
<1>6. /\ b4 \in Checks /\ b4.list = {} /\ b4.pass = 0 /\ b4.testing = 0 /\ b4.cuts = 0 /\ b4.recover = None
      /\ b4.pc = "end" /\ b4.tryout = BB_BLOCKS_AT_ONCE /\ b4.n = n /\ ~b4.clean
  BY <1>5, Zenon DEF Checks, Fresh
<1> HIDE DEF b4
<1>7. Fresh(b5) /\ b5.n = n /\ ~b5.clean
  BY <1>6, Zenon DEF Checks, Fresh
<1> HIDE DEF b5
<1>8. Fresh(bb') /\ bb'.n = n /\ ~bb'.clean
  BY <1>2, <1>5, <1>7, Zenon
<1>9. Setting' /\ held' \in [Blocks -> Holdings'] /\ Rotten'
  <2>1. Setting'
    BY Zenon DEF CInv, Setting, nb_passes
  <2>2. held \in [Blocks -> Holdings] /\ Rotten
    BY Zenon DEF CInv, InPlace, Found
  <2>3. Holdings' = Holdings
    BY DEF Holdings, PatternAt, nb_passes
  <2> QED
    BY <1>1, <2>1, <2>2, <2>3, Zenon DEF Rotten
<1>10. Begun'
  BY <1>8, <1>9, Zenon DEF Begun, Fresh
<1>11. InPlace' /\ Found' /\ Listed'
  BY <1>10, FreshKeepsNext, Zenon
<1> QED
  BY <1>8, <1>9, <1>11, Zenon DEF CInv, Verdict, n

\* Any step of test_rw
LEMMA TestsKeepCInv ==
    ASSUME CInv, TestWrites \/ TestReads \/ PhaseEnds \/ alarm_intr, UNCHANGED <<media, pattern, detect_fakes>>
    PROVE  CInv' /\ bb'.n = bb.n /\ bb'.pc # "off"
<1>1. Setting'
  BY Zenon DEF CInv, Setting, nb_passes
<1>2. Setting /\ InPlace /\ Found /\ Listed /\ Verdict /\ bb.clean \in BOOLEAN /\ bb.lost \in BOOLEAN
  BY Zenon DEF CInv, InPlace, Checks
<1>3. CASE TestWrites
  <2>1. bb.pc = "write" /\ InPlace' /\ SameCheck(bb', bb) /\ \E n \in 0 .. tryout : WriteStep(n)
    BY <1>2, <1>3, WritesAre, Zenon
  <2>2. Found' /\ Listed'
    BY <1>2, <1>3, WritesKeepFound, WritesKeepListed, Zenon
  <2>3. bb.lost => bb'.lost
    BY <2>1, Zenon DEF WriteStep, Passed, Failed, Noted
  <2> QED
    BY <1>1, <1>2, <2>1, <2>2, <2>3, Zenon DEF CInv, Verdict, SameCheck
<1>4. CASE TestReads
  <2>1. bb.pc = "read" /\ InPlace' /\ SameCheck(bb', bb) /\ \E got \in 0 .. tryout - 1 : ReadStep(got)
    BY <1>2, <1>4, ReadsAre, Zenon
  <2>2. Found' /\ Listed'
    BY <1>2, <1>4, ReadsKeepFound, ReadsKeepListed, Zenon
  <2>3. bb.lost => bb'.lost
    BY <2>1, Zenon DEF ReadStep, Passed, Failed, Noted
  <2> QED
    BY <1>1, <1>2, <2>1, <2>2, <2>3, Zenon DEF CInv, Verdict, SameCheck
<1>5. CASE PhaseEnds
  <2>1. InPlace' /\ SameFindings(bb', bb) /\ Found' /\ Listed' /\ PhaseStep
    BY <1>2, <1>5, PhaseIs, PhaseKeepsFound, PhaseKeepsListed, Zenon
  <2> QED
    BY <1>1, <1>2, <2>1, Zenon DEF CInv, Verdict, SameFindings, PhaseStep
<1>6. CASE alarm_intr
  <2>1. InPlace' /\ SameFindings(bb', bb) /\ Found' /\ Listed'
    BY <1>2, <1>6, AlarmKeeps, Zenon
  <2>2. bb'.pc # "off"
    BY <1>2, <1>6, Zenon DEF alarm_intr, InPlace, Checks
  <2> QED
    BY <1>1, <1>2, <2>1, <2>2, Zenon DEF CInv, Verdict, SameFindings
<1> QED
  BY <1>3, <1>4, <1>5, <1>6, Zenon
=============================================================================
