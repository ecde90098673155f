-------------------------- MODULE WriteDrive_proofs --------------------------
(***************************************************************************)
(* Proofs about WriteDrive, for drives, sectors, buffers and images of any  *)
(* size, and for any faults.                                                *)
(***************************************************************************)
EXTENDS WriteDriveSteps_proofs, BadBlocks_proofs

-----------------------------------------------------------------------------
(***************************************************************************)
(* The check for bad blocks, as WriteDrive has it made                     *)
(***************************************************************************)
\* Steps that leave the check and the drive it knows alone
LEMMA QuietKeepsCInv ==
    ASSUME CInv, UNCHANGED check
    PROVE  CInv'
<1>1. media' = media /\ held' = held /\ bb' = bb /\ pattern' = pattern /\ detect_fakes' = detect_fakes
  BY DEF check
<1>2. Setting' /\ InPlace'
  BY <1>1 DEF CInv, Setting, InPlace, Running, Holdings, PatternAt, nb_passes
<1>3. Found'
  BY <1>1, Zenon DEF CInv, Found, Rotten, FoundGood, FoundFake, Clean, Running, at
<1>4. Listed'
  BY <1>1, Zenon DEF CInv, Listed, AllListed, NoneListed, Lasting, Multi, Broken, Due, Kept, Even, Running,
     PatternAt, nb_passes
<1>5. Verdict'
  BY <1>1, Zenon DEF CInv, Verdict
<1> QED
  BY <1>2, <1>3, <1>4, <1>5 DEF CInv

\* At the start no check has been made.
LEMMA InitCInv ==
    ASSUME Init PROVE CInv
<1>1. Setting
  <2>1. media \in [kind : [Blocks -> Kinds], size : 0 .. last_block] /\ (last_block > 0 => media.size > 0)
    <3>1. CASE media \in Media
      <4>1. media \in [kind : [Blocks -> Kinds], size : 1 .. last_block]
        BY <3>1, MediaAssumption, Zenon
      <4> QED
        BY <4>1, LastBlockNat
    <3>2. CASE media = Sound
      BY <3>2, LastBlockNat DEF Sound, Kinds
    <3> QED
      BY <3>1, <3>2, Zenon DEF Init
  <2>2. pattern \in Seq(1 .. 3) /\ nb_passes > 0
    <3>1. CASE pattern \in Patterns
      BY <3>1, BadBlocksAssumption, Zenon DEF nb_passes
    <3>2. CASE pattern = <<1>>
      BY <3>2 DEF nb_passes
    <3> QED
      BY <3>1, <3>2, Zenon DEF Init
  <2>3. detect_fakes \in BOOLEAN
    BY Zenon DEF Init
  <2> QED
    BY <2>1, <2>2, <2>3, Zenon DEF Setting
<1>2. held = Erased /\ bb = NoCheck
  BY Zenon DEF Init
<1>3. held \in [Blocks -> Holdings] /\ Rotten
  BY <1>2 DEF Erased, Rotten, Holdings
<1>4. Fresh(bb) /\ ~bb.clean
  BY <1>2, NoCheckIs, Zenon
<1> QED
  BY <1>1, <1>3, <1>4, FreshKeeps DEF Begun, CInv, Verdict

\* FormatThread takes note of the check, with the user's abort, retry or
\* ignore.
LEMMA CheckEndsKeepsCInv ==
    ASSUME CInv, CheckEnds
    PROVE  CInv'
<1>1. media' = media /\ pattern' = pattern /\ detect_fakes' = detect_fakes /\ bb.pc = "end" /\ CheckIsRight
  BY CInvCheckIsRight, Zenon DEF CheckEnds
<1>2. CASE UNCHANGED <<bb, held>>
  BY <1>1, <1>2, QuietKeepsCInv, Zenon DEF check
<1>3. CASE bb' = [NoCheck EXCEPT !.n = bb.n] /\ held' = held
  <2>1. Fresh(bb') /\ ~bb'.clean
    <3>1. bb.n \in Nat
      BY DEF CInv, InPlace, Checks
    <3> QED
      BY <1>3, <3>1, NoCheckIs DEF Fresh, Checks
  <2>2. Setting' /\ held' \in [Blocks -> Holdings'] /\ Rotten'
    BY <1>1, <1>3 DEF CInv, Setting, InPlace, Found, Rotten, Holdings, PatternAt, nb_passes
  <2>3. Begun'
    BY <2>1, <2>2, Zenon DEF Begun, Fresh
  <2> QED
    BY <2>1, <2>2, <2>3, FreshKeepsNext DEF CInv, Verdict
<1>4. CASE ~CheckFailed /\ bb' = [NoCheck EXCEPT !.clean = bb.list = {}, !.lost = bb.lost] /\ held' = Erased
  <2> DEFINE c == bb.list = {}
             l == bb.lost
  <2>1. c \in BOOLEAN /\ l \in BOOLEAN
    BY Zenon DEF CInv, InPlace, Checks
  <2>2. bb' = [NoCheck EXCEPT !.clean = c, !.lost = l]
    BY <1>4, Zenon
  <2> HIDE DEF c, l
  <2> DEFINE d == [NoCheck EXCEPT !.clean = c]
  <2>3. d \in Checks /\ Fresh(d) /\ d.clean = c /\ d.pc = "off" /\ d.tryout = 0
    BY <2>1, NoCheckIs, Zenon DEF Fresh, Checks
  <2>4. bb' = [d EXCEPT !.lost = l]
    BY <2>2, Zenon DEF NoCheck
  <2> HIDE DEF d
  <2>5. Fresh(bb') /\ bb'.clean = c /\ bb'.lost = l
    BY <2>1, <2>3, <2>4 DEF Fresh, Checks
  <2>6. Setting' /\ held' \in [Blocks -> Holdings'] /\ Rotten'
    BY <1>1, <1>4 DEF CInv, Setting, Rotten, Erased, Holdings, nb_passes
  <2>7. Begun'
    BY <2>5, <2>6, Zenon DEF Begun, Fresh
  <2>8. ASSUME bb'.clean, ~bb'.lost
        PROVE  /\ detect_fakes => media.size = last_block
               /\ media.size = last_block => \A b \in Blocks : media.kind[b] = "good"
    <3>1. bb.list = {} /\ ~bb.lost
      BY <2>5, <2>8, Zenon DEF c, l
    <3>2. ~bb.cancel
      BY <1>4, <3>1 DEF CheckFailed
    <3> QED
      BY <1>1, <3>1, <3>2 DEF CheckIsRight
  <2>9. Verdict'
    BY <1>1, <2>8, Zenon DEF Verdict
  <2> QED
    BY <2>6, <2>7, <2>9, FreshKeepsNext DEF CInv
<1> QED
  BY <1>2, <1>3, <1>4 DEF CheckEnds, Ends

\* So every step keeps the invariant of the check.
LEMMA NextCInv ==
    ASSUME CInv, [Next]_vars PROVE CInv'
<1>1. CASE CheckBegins
  <2>1. CASE UNCHANGED <<bb, held>>
    BY <1>1, <2>1, QuietKeepsCInv DEF CheckBegins, check
  <2>2. CASE BadBlocksBegins
    BY <1>1, <2>2, BeginsKeepsCInv DEF CheckBegins
  <2> QED
    BY <1>1, <2>1, <2>2 DEF CheckBegins
<1>2. CASE CheckTests \/ CheckAlarm
  BY <1>2, TestsKeepCInv DEF CheckTests, CheckAlarm
<1>3. CASE CheckEnds
  BY <1>3, CheckEndsKeepsCInv, Zenon
<1>4. CASE OtherStep
  BY <1>4, OthersLeaveCheck, QuietKeepsCInv
<1> QED
  BY <1>1, <1>2, <1>3, <1>4, NextIs

\* What test_rw knows holds in every state.
THEOREM CheckInvariance == Spec => []CInv
<1>1. Init => CInv
  BY InitCInv, Zenon
<1>2. CInv /\ [Next]_vars => CInv'
  BY NextCInv, Zenon
<1> QED
  BY <1>1, <1>2, PTL DEF Spec

\* The check for bad blocks is right: for a drive of any size, any faults, any
\* pattern and any number of blocks in a transfer, a check that ran through and
\* found nothing was made of a drive without bad blocks and, with the numbers,
\* of the size it claims; and if nothing failed but for a lasting reason, it
\* lists every block that fails and, unless a pattern of several bytes meets a
\* failed transfer, no good one (test_rw, bb_output, BadBlocks).
THEOREM ChecksAreRight == Spec => []CheckIsRight
<1>1. CInv => CheckIsRight
  BY CInvCheckIsRight, Zenon
<1> QED
  BY <1>1, CheckInvariance, PTL

\* A check is begun again only while it may be.
Rounds == bb.n <= MaxChecks /\ (t.pc = "check" /\ bb.pc = "off" => bb.n < MaxChecks)

\* Nothing goes back to the check once it is over.
LEMMA OthersGoOn ==
    ASSUME Base, OtherStep PROVE t'.pc # "check" \/ t' = t
<1>2. CASE BeginZero \/ BeginCompressed \/ BeginImage
  BY <1>2, BeginZeroIs, BeginCompressedIs, BeginImageIs
<1>3. CASE ZeroBlock \/ CompareBlock
  BY <1>3, ZeroBlockIs, CompareBlockIs
<1>4. CASE SwitchBuffers \/ IoCompletes
  BY <1>4, SwitchBuffersIs, Zenon DEF IoCompletes
<1>5. CASE ReadFault \/ WriteCancelled \/ WriteBlock \/ WriteFails
  BY <1>5, FaultIs, WriteBlockIs, WriteFailsIs DEF Stopped, loop
<1>6. CASE Finish \/ BledFails \/ BledEnds \/ UserCancels
  BY <1>6, FinishIs, BledFailsIs, BledEndsIs, UserCancelsIs
<1>7. CASE \E n \in 1 .. buf_size : sector_write(n)
  BY <1>7, SectorWritten
<1>8. CASE UNCHANGED vars
  BY <1>8, Zenon DEF vars
<1> QED
  BY <1>2, <1>3, <1>4, <1>5, <1>6, <1>7, <1>8 DEF OtherStep

\* The checks are counted.
LEMMA StepKeepsRounds ==
    ASSUME Base, CInv, Rounds, [Next]_vars PROVE Rounds'
<1>1. bb \in Checks /\ bb.n \in Nat /\ MaxChecks \in Nat \ {0} /\ t \in Threads
  BY BadBlocksAssumption, Zenon DEF CInv, InPlace, Checks, Base, Types
<1>2. CASE CheckBegins
  <2>1. CASE Leave("log") /\ UNCHANGED <<bb, held>>
    BY <1>1, <2>1, LeaveIs, Zenon DEF Rounds
  <2>2. CASE BadBlocksBegins
    <3>1. bb'.n = bb.n + 1 /\ t.pc = "check" /\ bb.pc = "off"
      BY <1>2, <2>2, BeginsKeepsCInv DEF CheckBegins
    <3>2. bb'.pc # "off"
      BY <1>1, <2>2, NoCheckIs, Zenon DEF BadBlocksBegins, Fresh, Checks
    <3> QED
      BY <1>1, <3>1, <3>2 DEF Rounds
  <2> QED
    BY <1>2, <2>1, <2>2, Zenon DEF CheckBegins
<1>3. CASE CheckTests \/ CheckAlarm
  BY <1>3, TestsKeepCInv, Zenon DEF CheckTests, CheckAlarm, Rounds
<1>4. CASE CheckEnds
  <2>1. CASE UNCHANGED bb /\ t' = [t EXCEPT !.pc = "done"]
    BY <1>1, <2>1, Zenon DEF Rounds, Threads
  <2>2. CASE bb.n < MaxChecks /\ bb' = [NoCheck EXCEPT !.n = bb.n]
    BY <1>1, <2>2, NoCheckIs DEF Rounds, Fresh, Checks
  <2>3. CASE t' = [t EXCEPT !.pc = "start"] /\ bb' = [NoCheck EXCEPT !.clean = bb.list = {}, !.lost = bb.lost]
    <3>1. bb'.n = NoCheck.n
      BY <2>3, NoCheckIs, Zenon DEF Fresh, Checks
    <3> QED
      BY <1>1, <2>3, <3>1, NoCheckIs DEF Rounds, Threads
  <2> QED
    BY <1>4, <2>1, <2>2, <2>3 DEF CheckEnds, Ends
<1>5. CASE OtherStep
  <2>1. UNCHANGED bb
    BY <1>5, OthersLeaveCheck DEF check
  <2> QED
    BY <1>5, <2>1, OthersGoOn DEF Rounds
<1> QED
  BY <1>2, <1>3, <1>4, <1>5, NextIs

\* TypeOK follows.
LEMMA TypesAre ==
    ASSUME Base, CInv, Rounds PROVE TypeOK
<1>1. bb \in [pc : {"off", "write", "read", "end"}, pass : 0 .. nb_passes - 1, testing : 0 .. last_block,
              tryout : 0 .. BB_BLOCKS_AT_ONCE, recover : {None} \cup 0 .. last_block + BB_BLOCKS_AT_ONCE,
              list : SUBSET Blocks, cancel : BOOLEAN, cuts : 0 .. MaxCuts, lost : BOOLEAN,
              n : 0 .. MaxChecks, clean : BOOLEAN]
  <2>1. /\ bb \in Checks /\ bb.recover \in {None} \cup 0 .. last_block + BB_BLOCKS_AT_ONCE
        /\ bb.cuts <= MaxCuts /\ bb.testing \in 0 .. last_block /\ bb.pass < nb_passes
        /\ bb.tryout \in 0 .. BB_BLOCKS_AT_ONCE /\ bb.n <= MaxChecks /\ nb_passes \in Nat
    BY DEF CInv, InPlace, Rounds, Setting, nb_passes
  <2>2. bb.pass \in 0 .. nb_passes - 1 /\ bb.cuts \in 0 .. MaxCuts /\ bb.n \in 0 .. MaxChecks
    BY <2>1, BadBlocksAssumption DEF Checks
  <2> HIDE DEF nb_passes, last_block, Blocks, None
  <2> QED
    BY <2>1, <2>2, Zenon DEF Checks
<1>2. held \in [Blocks -> {UNKNOWN} \cup Blocks \cup {PatternAt(p, i) : p \in 0 .. nb_passes - 1, i \in 0 .. 2}]
  BY DEF CInv, InPlace, Holdings
<1>3. /\ job \in Jobs /\ t \in Threads /\ read_size \in [0 .. 1 -> 0 .. buf_size] /\ buffer \in Buffers
      /\ drive \in Drives /\ pos \in 0 .. DiskSize /\ io \in Reads /\ sec \in SectorBufs /\ ErrorStatus \in Statuses
  BY Zenon DEF Base, Types
<1> QED
  BY <1>1, <1>2, <1>3 DEF TypeOK, Threads, Buffers, Drives, Reads, SectorBufs, Statuses

WInv == Base /\ CInv /\ Rounds /\ Prep /\ Final /\ Whole

\* A drive that can be relied on is as it should be.
LEMMA TrustedIsGood ==
    ASSUME CInv, Prep, Trusted PROVE Good /\ \A k : place(k) = k
<1>1. Good
  BY Zenon DEF CInv, Verdict, Prep, Unchecked, Trusted, Good
<1> QED
  BY <1>1, Zenon DEF Good, place

\* BehindIsDone follows
LEMMA BehindIs ==
    ASSUME WInv PROVE BehindIsDone
<1>1. SUFFICES ASSUME t.rewound, Trusted
      PROVE  /\ Zeroing => \A k \in 0 .. t.wb - 1 : Wiped(k)
             /\ Raw => \A k \in 0 .. Min2(t.wb, Available) - 1 : Copied(k)
             /\ t.pc = "unpack" => \A k \in 0 .. sec.fed - sec.pos - 1 : Copied(k)
             /\ OldAfter
  BY Zenon DEF BehindIsDone, Raw, Available, OldAfter
<1>2. Good /\ \A k : place(k) = k
  BY <1>1, TrustedIsGood, Zenon DEF WInv
<1>3. WipedBehind /\ CopiedBehind /\ PassedOn /\ OldAfter
  BY <1>1, <1>2, Zenon DEF WInv, Final
<1>4. t.wb \in Nat /\ Available \in Nat
  <2>1. t.wb \in Nat /\ job \in Jobs
    BY Sizes DEF WInv, Base, Types, Threads
  <2> QED
    BY <2>1, TargetIs, Zenon DEF Available, Min2
<1>5. ASSUME Raw, NEW k \in 0 .. Min2(t.wb, Available) - 1 PROVE Copied(k)
  <2>1. k \in 0 .. t.wb - 1 /\ k < Available
    BY <1>4 DEF Min2
  <2>2. drive[k] = k + 1
    BY <1>3, <1>5, <2>1 DEF CopiedBehind
  <2> QED
    BY <1>2, <2>2, Zenon DEF Copied
<1>6. ASSUME t.pc = "unpack", NEW k \in 0 .. sec.fed - sec.pos - 1 PROVE Copied(k)
  BY <1>2, <1>3, <1>6 DEF Copied, PassedOn
<1> QED
  BY <1>3, <1>5, <1>6 DEF WipedBehind

\* and so does TrueMeansWhole.
LEMMA TrueMeans ==
    ASSUME WInv PROVE TrueMeansWhole
<1>1. t.pc = "done" /\ ~t.ret /\ ErrorStatus = "none" => t.out \in {"reposition", "compare", "mount", "log"}
  BY Zenon DEF WInv, Whole
<1>2. ASSUME t.pc = "done", t.ret, t.rewound, Trusted, ErrorStatus # "cancelled"
      PROVE  CASE Zeroing -> \A k \in 0 .. DiskSize - 1 : Wiped(k)
               [] job.mode = "compressed" ->
                     \A k \in 0 .. job.file - (IF t.out = "tail" THEN sec.pos ELSE 0) - 1 : Copied(k)
               [] OTHER -> \A k \in 0 .. Min2(target_size, job.file) - 1 : Copied(k)
  <2>1. Good /\ \A k : place(k) = k
    BY <1>2, TrustedIsGood, Zenon DEF WInv
  <2>2. AllThere
    BY <1>2, <2>1, Zenon DEF WInv, Whole
  <2>3. CASE Zeroing
    <3>1. \A k \in 0 .. DiskSize - 1 : Wiped(k)
      BY <2>2, <2>3, Zenon DEF AllThere
    <3>2. job.mode # "compressed"
      BY <2>3, Zenon DEF Zeroing
    <3> QED
      BY <2>3, <3>1, <3>2, Zenon
  <2>4. CASE job.mode = "compressed"
    <3>1. \A k \in 0 .. job.file - (IF t.out = "tail" THEN sec.pos ELSE 0) - 1 : Copied(k)
      BY <2>1, <2>2, <2>4 DEF AllThere, Copied
    <3>2. ~Zeroing
      BY <2>4, Zenon DEF Zeroing
    <3> QED
      BY <2>4, <3>1, <3>2, Zenon
  <2>5. CASE ~Zeroing /\ job.mode # "compressed"
    <3>1. Raw
      <4>1. job.mode \in Modes
        BY JobsAssumption, Zenon DEF WInv, Base, Types
      <4> QED
        BY <2>5, <4>1, Zenon DEF Modes, Raw, Zeroing
    <3>2. \A k \in 0 .. Min2(target_size, job.file) - 1 : Copied(k)
      BY <2>1, <2>2, <3>1 DEF AllThere, Copied, Available
    <3> QED
      BY <2>5, <3>2, Zenon
  <2> QED
    BY <2>3, <2>4, <2>5, Zenon
<1> QED
  BY <1>1, <1>2, Zenon DEF TrueMeansWhole

\* Everything that WriteDrive relies on holds in every state.
THEOREM Invariance == Spec => []WInv
<1>1. Init => WInv
  <2>1. ASSUME Init PROVE Base /\ CInv /\ Rounds /\ Prep /\ Final /\ Whole
    <3>1. ~t.rewound /\ t.pc # "done"
      BY <2>1, Zenon DEF Init
    <3>2. bb.n = 0 /\ MaxChecks \in Nat \ {0}
      BY <2>1, NoCheckIs, BadBlocksAssumption, Zenon DEF Init
    <3>3. Rounds
      BY <3>2 DEF Rounds
    <3> QED
      BY <2>1, <3>1, <3>3, InitBase, InitCInv, InitPrep DEF Final, Whole
  <2> QED
    BY <2>1, Zenon DEF WInv
<1>2. WInv /\ [Next]_vars => WInv'
  BY StepKeepsBase, NextCInv, StepKeepsRounds, StepKeepsPrep, StepKeepsFinal, StepKeepsWhole DEF WInv
<1> QED
  BY <1>1, <1>2, PTL DEF Spec

\* WriteDrive never leaves its bounds: it reads and writes no more than a
\* buffer holds, keeps less than a sector between the calls of sector_write,
\* counts and writes no further than the drive goes and tries a write no more
\* than WRITE_RETRIES times; test_rw tests the blocks of the drive and no others.
THEOREM TypeCorrect == Spec => []TypeOK
<1>1. WInv => TypeOK
  BY TypesAre DEF WInv
<1> QED
  BY <1>1, Invariance, PTL

\* What lies behind the counter is final: for a drive, a buffer and an image of
\* any size, whatever writes and reads fail, are cut short or are tried again
\* and whenever the user cancels, the blocks that WriteDrive has counted are
\* wiped or hold the image's own bytes in their places, so do the sectors that
\* sector_write has passed on, and a raw image changes nothing after the sector
\* that holds its last byte.
THEOREM BehindStaysDone == Spec => []BehindIsDone
<1>1. WInv => BehindIsDone
  BY BehindIs, Zenon
<1> QED
  BY <1>1, Invariance, PTL

\* WriteDrive returns TRUE only over a drive that is wiped to its end or holds
\* all there is of the image (or, compressed, all but what the last, unchecked
\* write of bled's end was to put there), the drive checked for bad blocks
\* before included; and if it returns FALSE without a status, it left by one of
\* the bare goto out.
THEOREM TrueIsWhole == Spec => []TrueMeansWhole
<1>1. WInv => TrueMeansWhole
  BY TrueMeans, Zenon
<1> QED
  BY <1>1, Invariance, PTL
=============================================================================
