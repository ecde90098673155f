----------------------------- MODULE WriteDrive -----------------------------
(***************************************************************************)
(* format.c, WriteDrive: one thread zeroes a drive, writes a raw image to  *)
(* it with a double-buffered asynchronous reader (winio.h), or feeds it    *)
(* from the bled decompressor through sector_write; FormatThread may have  *)
(* the drive checked for bad blocks before.  The user may cancel           *)
(* at any moment; every I/O call may fail.  Sizes are in bytes, of which a *)
(* sector has SectorSize.                                                  *)
(***************************************************************************)
EXTENDS BadBlocks

CONSTANTS SectorSize,            \* SelectedDrive; the size is in BadBlocks
          buf_size,              \* DD_BUFFER_SIZE, rounded up to whole sectors
          WRITE_RETRIES,         \* 4
          THROTTLE,              \* 15: blocks written without looking, after one was
          Jobs,                  \* [mode, image: the size scanned, file: the size now, check]
          Contents,              \* what sectors hold before a fast zeroing
          Media                  \* the drives that are checked first

ASSUME SizeAssumption == /\ {SectorSize, DiskSize, buf_size} \subseteq Nat \ {0}
                         /\ DiskSize % SectorSize = 0 /\ buf_size % SectorSize = 0
ASSUME RetryAssumption == WRITE_RETRIES \in Nat \ {0} /\ THROTTLE \in Nat

\* Bytes: the k-th byte of the image is k; others are named.
ZERO == 0
FF == -1
OLD == -2
JUNK == -3          \* memory malloc returned
U64 == 2 ^ 30       \* stands for 2^64: larger than any size
Bytes == {ZERO, FF, OLD, JUNK} \cup (Nat \ {0})

Modes == {"zero", "fast", "image", "vhd", "compressed"}
ASSUME JobsAssumption == Jobs \subseteq [mode : Modes, image : Nat, file : Nat, check : BOOLEAN]
ASSUME WidthAssumption == U64 \in Nat /\ DiskSize < U64 /\ \A j \in Jobs : j.image < U64 /\ j.file < U64
ASSUME ContentsAssumption == Contents \subseteq Bytes
ASSUME MediaAssumption == Media \subseteq [kind : [Blocks -> Kinds], size : 1 .. last_block]

VARIABLES job, t, read_size, buffer, drive, pos, io, sec

vars == <<job, t, read_size, buffer, drive, pos, io, sec, ErrorStatus, media, held, bb, pattern, detect_fakes>>
check == <<media, held, bb, pattern, detect_fakes>>
source == <<buffer, io>>
unpacker == sec

Min2(a, b) == IF a <= b THEN a ELSE b
Fill(b, n) == [k \in 1 .. n |-> b]
CEILING_ALIGN(n) == ((n + SectorSize - 1) \div SectorSize) * SectorSize
Zeroing == job.mode \in {"zero", "fast"}

\* A mounted VHD has the size of its disk, which the drive's does not limit.
target_size == CASE Zeroing -> DiskSize
                 [] job.mode = "vhd" -> job.file
                 [] OTHER -> Min2(DiskSize, job.image)

\* A drive without faults
Sound == [kind |-> [b \in Blocks |-> "good"], size |-> last_block]

Init == /\ job \in Jobs
        /\ t = [pc |-> IF job.check THEN "check" ELSE "start", wb |-> 0, i |-> 1, throttle |-> 0, read |-> 0, proc |-> 1,
                ret |-> FALSE, rewound |-> FALSE, out |-> "-"]
        /\ read_size = [b \in 0 .. 1 |-> 0]
        /\ buffer = [b \in 0 .. 1 |-> Fill(JUNK, buf_size)]
        /\ drive \in IF job.mode = "fast"
                     THEN {[k \in 0 .. DiskSize - 1 |-> c[k \div SectorSize]] :
                              c \in [0 .. DiskSize \div SectorSize - 1 -> Contents]}
                     ELSE {[k \in 0 .. DiskSize - 1 |-> OLD]}
        /\ pos \in {0, SectorSize}      \* the MBR was looked at before
        /\ io = [st |-> "none", buf |-> 0, want |-> 0, off |-> 0, n |-> 0]
        /\ sec = [buf |-> Fill(JUNK, SectorSize), pos |-> 0, fed |-> 0]
        /\ media \in IF job.check THEN Media ELSE {Sound}
        /\ detect_fakes \in IF job.check THEN BOOLEAN ELSE {TRUE}
        /\ pattern \in IF job.check THEN Patterns ELSE {<<1>>}
        /\ held = Erased /\ bb = NoCheck
        /\ ErrorStatus = "none"

\* goto out, with or without a status for the user to see
Fail(status) == ErrorStatus' = status /\ t' = [t EXCEPT !.pc = "done"]
Leave(why) == t' = [t EXCEPT !.pc = "done", !.out = why] /\ UNCHANGED ErrorStatus
CHECK_FOR_USER_CANCEL == ErrorStatus = "cancelled"

\* Where the k-th byte really is, and the kind of its block
place(k) == IF media.size = last_block THEN k ELSE k % (media.size * BADBLOCK_BLOCK_SIZE)
kind(k) == LET b == place(k) \div BADBLOCK_BLOCK_SIZE IN IF b \in Blocks THEN media.kind[b] ELSE "good"

\* What a drive holds once data is written at p; a write that stops early
\* leaves some of its first sectors.
Put(p, data) == [a \in 0 .. DiskSize - 1 |->
    LET w == {k \in p .. p + Len(data) - 1 : place(k) = a}
    IN  IF w = {} THEN drive[a] ELSE IF kind(a) = "rot" THEN JUNK ELSE data[Max(w) - p + 1]]
Prefixes(data) == {SubSeq(data, 1, n * SectorSize) : n \in 0 .. Len(data) \div SectorSize}
Fits(p, data) == p + Len(data) <= DiskSize /\ \A k \in p .. p + Len(data) - 1 : kind(k) # "wr"

\* The rewind may fail, with a warning only.
Rewind == pos' \in {0, pos}

\* ReadFileAsync: a read of the source starts at the offset reached so far.
ReadFileAsync(b, want) == io' = [io EXCEPT !.st = "pending", !.buf = b, !.want = want]

(***************************************************************************)
(* The check for bad blocks, before an image is written                    *)
(***************************************************************************)
StatusUnlessSet(status) == ErrorStatus' = IF ErrorStatus = "none" THEN status ELSE ErrorStatus
Ends == t' = [t EXCEPT !.pc = "done"] /\ UNCHANGED <<bb, held>>

\* Without its log file the check is not begun, which leaves no status.
CheckBegins ==
    /\ t.pc = "check" /\ bb.pc = "off"
    /\ \/ Leave("log") /\ UNCHANGED <<bb, held>>
       \/ BadBlocksBegins /\ UNCHANGED <<t, ErrorStatus>>
    /\ UNCHANGED <<job, read_size, drive, pos, source, unpacker, media, pattern, detect_fakes>>

CheckTests ==
    /\ t.pc = "check" /\ (TestWrites \/ TestReads \/ PhaseEnds)
    /\ UNCHANGED <<t, job, read_size, drive, pos, source, unpacker, media, pattern, detect_fakes, ErrorStatus>>

CheckAlarm ==
    /\ t.pc = "check" /\ alarm_intr
    /\ UNCHANGED <<t, job, read_size, drive, pos, source, unpacker, media, pattern, detect_fakes, ErrorStatus>>

\* If it found something the user may abort, retry or ignore it; before the
\* image is written the partition tables are cleared.
CheckEnds ==
    /\ t.pc = "check" /\ bb.pc = "end"
    /\ \/ CheckFailed /\ StatusUnlessSet("badblocks") /\ Ends
       \/ bb.list # {} /\ ErrorStatus' = "cancelled" /\ Ends
       \/ /\ bb.list # {} /\ bb.n < MaxChecks
          /\ bb' = [NoCheck EXCEPT !.n = bb.n] /\ UNCHANGED <<t, held, ErrorStatus>>
       \/ ~CheckFailed /\ StatusUnlessSet("write") /\ Ends
       \/ /\ ~CheckFailed /\ t' = [t EXCEPT !.pc = "start"]
          /\ bb' = [NoCheck EXCEPT !.clean = bb.list = {}, !.lost = bb.lost]
          /\ held' = Erased /\ UNCHANGED ErrorStatus
    /\ UNCHANGED <<job, read_size, drive, pos, source, unpacker, media, pattern, detect_fakes>>

(***************************************************************************)
(* Set-up                                                                  *)
(***************************************************************************)
BeginZero ==
    /\ t.pc = "start" /\ Zeroing /\ Rewind
    /\ \/ Fail("memory") /\ UNCHANGED <<buffer, read_size>>
       \/ /\ t' = [t EXCEPT !.pc = "zero", !.rewound = pos' = 0]
          /\ buffer' = [buffer EXCEPT ![0] = Fill(IF job.mode = "fast" THEN FF ELSE ZERO, buf_size)]
          /\ read_size' = [read_size EXCEPT ![0] = buf_size]
          /\ UNCHANGED ErrorStatus
    /\ UNCHANGED <<check, job, drive, io, unpacker>>

BeginCompressed ==
    /\ t.pc = "start" /\ job.mode = "compressed" /\ Rewind
    /\ \/ \E status \in {"open", "memory"} : Fail(status)
       \/ t' = [t EXCEPT !.pc = "unpack", !.rewound = pos' = 0] /\ UNCHANGED ErrorStatus
    /\ UNCHANGED <<check, job, read_size, drive, source, unpacker>>

BeginImage ==
    /\ t.pc = "start" /\ job.mode \in {"image", "vhd"} /\ Rewind
    /\ \/ job.mode = "vhd" /\ Leave("mount") /\ UNCHANGED <<read_size, io>>
       \/ \E status \in {"open", "memory"} : Fail(status) /\ UNCHANGED <<read_size, io>>
       \/ /\ ReadFileAsync(t.read, Min2(buf_size, target_size))
          /\ read_size' = [read_size EXCEPT ![t.proc] = 1]
          /\ t' = [t EXCEPT !.pc = "copy", !.rewound = pos' = 0]
          /\ UNCHANGED ErrorStatus
    /\ UNCHANGED <<check, job, buffer, drive, unpacker>>

(***************************************************************************)
(* Zeroing                                                                 *)
(***************************************************************************)
\* The head of the loop: size of the block, and whether to look at it first
ZeroBlock ==
    /\ t.pc = "zero" /\ t.wb < target_size
    /\ read_size' = [read_size EXCEPT ![0] = CEILING_ALIGN(Min2(@, target_size - t.wb))]
    /\ t' = [t EXCEPT !.pc = IF t.throttle = 0 /\ job.mode = "fast" THEN "compare" ELSE "write",
                      !.i = 1, !.throttle = IF @ > 0 THEN @ - 1 ELSE 0]
    /\ UNCHANGED <<check, job, drive, pos, source, unpacker, ErrorStatus>>

Block(p) == [k \in 1 .. read_size[0] |-> drive[p + k - 1]]

\* All bits 0 or all bits 1
Empty(block) == \E b \in {ZERO, FF} : \A k \in 1 .. Len(block) : block[k] = b

\* Fast zeroing: a block found empty is skipped; before a write the pointer
\* goes back to the start of the block.
CompareBlock ==
    /\ t.pc = "compare"
    /\ \/ CHECK_FOR_USER_CANCEL /\ Leave("cancel") /\ UNCHANGED pos
       \/ ~CHECK_FOR_USER_CANCEL /\ Leave("compare") /\ UNCHANGED pos
       \/ /\ ~CHECK_FOR_USER_CANCEL /\ pos + read_size[0] <= DiskSize
          /\ IF Empty(Block(pos))
             THEN /\ t' = [t EXCEPT !.pc = "zero", !.wb = @ + read_size[0]]
                  /\ pos' = pos + read_size[0] /\ UNCHANGED ErrorStatus
             ELSE \/ /\ t' = [t EXCEPT !.pc = "write", !.throttle = THROTTLE]
                     /\ pos' = t.wb /\ UNCHANGED ErrorStatus
                  \/ Leave("reposition") /\ pos' = pos + read_size[0]
    /\ UNCHANGED <<check, job, read_size, drive, source, unpacker>>

(***************************************************************************)
(* The raw image                                                           *)
(***************************************************************************)
\* winio.h: the pending read completes in its buffer, or fails; at the end of
\* the source it reads nothing, which counts as success.
IoCompletes ==
    /\ io.st = "pending"
    /\ LET n == IF io.off >= job.file THEN 0 ELSE Min2(io.want, job.file - io.off)
       IN  \/ /\ io' = [io EXCEPT !.st = "done", !.n = n, !.off = @ + n]
              /\ buffer' = [buffer EXCEPT ![io.buf] =
                               [k \in 1 .. buf_size |-> IF k <= n THEN io.off + k ELSE @[k]]]
           \/ io' = [io EXCEPT !.st = "failed"] /\ UNCHANGED buffer
    /\ UNCHANGED <<check, job, t, read_size, drive, pos, unpacker, ErrorStatus>>

\* Mutant: the read is not limited to the buffer.
NextWant_unclamped(wb, n) == (target_size - (wb + n)) % U64

\* The next read stops at the target: in 64 bits without a sign.
NextWant(wb, n) == Min2(buf_size, (target_size - (wb + n)) % U64)

\* The read has completed: round its size up, swap buffers, read on.
SwitchBuffers ==
    /\ t.pc = "copy" /\ read_size[t.proc] # 0 /\ t.wb < target_size /\ io.st = "done"
    /\ LET n == CEILING_ALIGN(io.n) IN
       /\ read_size' = [read_size EXCEPT ![t.read] = n]
       /\ ReadFileAsync((t.read + 1) % 2, NextWant(t.wb, n))
    /\ t' = [t EXCEPT !.pc = "write", !.i = 1, !.proc = t.read, !.read = (t.read + 1) % 2]
    /\ UNCHANGED <<check, job, buffer, drive, pos, unpacker, ErrorStatus>>

\* WaitFileAsync gives up, or GetSizeAsync reports the failure.
ReadFault ==
    /\ t.pc = "copy" /\ read_size[t.proc] # 0 /\ t.wb < target_size /\ io.st \in {"pending", "failed"}
    /\ Fail("read")
    /\ UNCHANGED <<check, job, read_size, drive, pos, source, unpacker>>

(***************************************************************************)
(* One synchronous write with its retries, for zeroes and for an image     *)
(***************************************************************************)
written == IF Zeroing THEN SubSeq(buffer[0], 1, read_size[0])
                      ELSE SubSeq(buffer[t.proc], 1, read_size[t.proc])
loop == IF Zeroing THEN "zero" ELSE "copy"

WriteBlock ==
    /\ t.pc = "write" /\ ~CHECK_FOR_USER_CANCEL /\ Fits(pos, written)
    /\ drive' = Put(pos, written) /\ pos' = pos + Len(written)
    /\ t' = [t EXCEPT !.pc = loop, !.wb = @ + Len(written)]
    /\ UNCHANGED <<check, job, read_size, source, unpacker, ErrorStatus>>

\* Mutant: the retry goes on where the failed write left the pointer.
WriteFails_nosetpos ==
    /\ t.pc = "write" /\ ~CHECK_FOR_USER_CANCEL
    /\ \E p \in Prefixes(written) :
          /\ Fits(pos, p) /\ drive' = Put(pos, p) /\ pos' = pos + Len(p)
          /\ IF t.i < WRITE_RETRIES
             THEN t' = [t EXCEPT !.i = @ + 1] /\ UNCHANGED ErrorStatus
             ELSE Fail("write")
    /\ UNCHANGED <<check, job, read_size, source, unpacker>>

\* Mutant: the attempts are not counted.
WriteFails_uncounted ==
    /\ t.pc = "write" /\ ~CHECK_FOR_USER_CANCEL
    /\ \E p \in Prefixes(written) : Fits(pos, p) /\ drive' = Put(pos, p) /\ pos' = t.wb
    /\ UNCHANGED <<check, job, t, read_size, source, unpacker, ErrorStatus>>

\* A failed or short write is tried again from the start of the block, unless
\* the pointer cannot be set back; the last failure is a write fault.
WriteFails ==
    /\ t.pc = "write" /\ ~CHECK_FOR_USER_CANCEL
    /\ \E p \in Prefixes(written) :
          /\ Fits(pos, p) /\ drive' = Put(pos, p)
          /\ IF t.i < WRITE_RETRIES
             THEN \/ t' = [t EXCEPT !.i = @ + 1] /\ pos' = t.wb /\ UNCHANGED ErrorStatus
                  \/ Leave("reposition") /\ pos' = pos + Len(p)
             ELSE Fail("write") /\ pos' = pos + Len(p)
    /\ UNCHANGED <<check, job, read_size, source, unpacker>>

WriteCancelled ==
    /\ t.pc = "write" /\ CHECK_FOR_USER_CANCEL /\ Leave("cancel")
    /\ UNCHANGED <<check, job, read_size, drive, pos, source, unpacker>>

\* Mutant: the last, shorter block of a drive is left out.
Finish_early ==
    /\ \/ t.pc = "zero" /\ t.wb + buf_size >= target_size
       \/ t.pc = "copy" /\ (t.wb >= target_size \/ read_size[t.proc] = 0)
    /\ t' = [t EXCEPT !.pc = "done", !.ret = TRUE]
    /\ UNCHANGED <<check, job, read_size, drive, pos, source, unpacker, ErrorStatus>>

\* The loops are over: RefreshDriveLayout, ret = TRUE.
Finish ==
    /\ \/ t.pc = "zero" /\ t.wb >= target_size
       \/ t.pc = "copy" /\ (t.wb >= target_size \/ read_size[t.proc] = 0)
    /\ t' = [t EXCEPT !.pc = "done", !.ret = TRUE]
    /\ UNCHANGED <<check, job, read_size, drive, pos, source, unpacker, ErrorStatus>>

(***************************************************************************)
(* The compressed image: bled hands sector_write chunks of any size        *)
(***************************************************************************)
Chunk(n) == [k \in 1 .. n |-> sec.fed + k]
FillSize(n) == IF sec.pos > 0 THEN Min2(SectorSize - sec.pos, n) ELSE 0
SectorsIn(n) == (n - FillSize(n)) \div SectorSize
Filled(n) == SubSeq(sec.buf, 1, sec.pos) \o SubSeq(Chunk(n), 1, FillSize(n))

\* What a call writes: the sector kept so far, when n bytes fill it, and
\* every whole sector after it.
ToWrite(n) ==
    IF sec.pos > 0 /\ sec.pos + FillSize(n) < SectorSize THEN <<>>
    ELSE Filled(n) \o SubSeq(Chunk(n), FillSize(n) + 1, FillSize(n) + SectorsIn(n) * SectorSize)

\* What it keeps for the next call
Leftover(n) ==
    IF sec.pos > 0 /\ sec.pos + FillSize(n) < SectorSize THEN Filled(n)
    ELSE SubSeq(Chunk(n), FillSize(n) + SectorsIn(n) * SectorSize + 1, n)

sector_write(n) ==
    /\ t.pc = "unpack" /\ sec.fed + n <= job.file /\ Fits(pos, ToWrite(n))
    /\ drive' = Put(pos, ToWrite(n)) /\ pos' = pos + Len(ToWrite(n))
    /\ sec' = [buf |-> [k \in 1 .. SectorSize |->
                           IF k <= Len(Leftover(n)) THEN Leftover(n)[k]
                           ELSE IF k <= Len(Filled(n)) THEN Filled(n)[k] ELSE sec.buf[k]],
               pos |-> Len(Leftover(n)), fed |-> sec.fed + n]
    /\ UNCHANGED <<check, job, t, read_size, source, ErrorStatus>>

\* bled gives up: a write of sector_write failed or was short, the archive is
\* damaged, or the user cancelled, which alone is no failure here.
BledFails ==
    /\ t.pc = "unpack"
    /\ \E n \in 0 .. buf_size : \E p \in Prefixes(ToWrite(n)) :
          sec.fed + n <= job.file /\ Fits(pos, p) /\ drive' = Put(pos, p) /\ pos' = pos + Len(p)
    /\ IF CHECK_FOR_USER_CANCEL
       THEN t' = [t EXCEPT !.pc = "done", !.ret = TRUE] /\ UNCHANGED ErrorStatus
       ELSE Fail("write")
    /\ UNCHANGED <<check, job, read_size, source, unpacker>>

\* The whole image was handed over; what is left of it is written as one
\* sector, and that write is not checked.
BledEnds ==
    /\ t.pc = "unpack" /\ sec.fed = job.file
    /\ \/ /\ sec.pos # 0 /\ Fits(pos, sec.buf)
          /\ drive' = Put(pos, sec.buf) /\ pos' = pos + SectorSize
          /\ t' = [t EXCEPT !.pc = "done", !.ret = TRUE]
       \/ /\ UNCHANGED <<drive, pos>>
          /\ t' = [t EXCEPT !.pc = "done", !.ret = TRUE, !.out = IF sec.pos # 0 THEN "tail" ELSE @]
    /\ UNCHANGED <<check, job, read_size, source, unpacker, ErrorStatus>>

\* The main dialog, while the thread runs
UserCancels == /\ t.pc # "done" /\ ErrorStatus = "none" /\ ErrorStatus' = "cancelled"
               /\ UNCHANGED <<check, job, t, read_size, drive, pos, source, unpacker>>

Done == t.pc = "done" /\ UNCHANGED vars

Thread == \/ CheckBegins \/ CheckTests \/ CheckEnds
          \/ BeginZero \/ BeginCompressed \/ BeginImage
          \/ ZeroBlock \/ CompareBlock \/ SwitchBuffers \/ ReadFault
          \/ WriteBlock \/ WriteFails \/ WriteCancelled \/ Finish
          \/ (\E n \in 1 .. buf_size : sector_write(n)) \/ BledFails \/ BledEnds

Next == Thread \/ CheckAlarm \/ IoCompletes \/ UserCancels \/ Done

Spec == Init /\ [][Next]_vars

-----------------------------------------------------------------------------
TypeOK ==
    /\ job \in Jobs
    /\ t \in [pc : {"check", "start", "zero", "compare", "write", "copy", "unpack", "done"},
              wb : 0 .. DiskSize, i : 1 .. WRITE_RETRIES, throttle : 0 .. THROTTLE,
              read : 0 .. 1, proc : 0 .. 1, ret : BOOLEAN, rewound : BOOLEAN,
              out : {"-", "cancel", "compare", "reposition", "mount", "tail", "log"}]
    /\ read_size \in [0 .. 1 -> 0 .. buf_size]
    /\ buffer \in [0 .. 1 -> [1 .. buf_size -> Bytes]]
    /\ drive \in [0 .. DiskSize - 1 -> Bytes]
    /\ pos \in 0 .. DiskSize
    /\ io \in [st : {"none", "pending", "done", "failed"}, buf : 0 .. 1,
               want : 0 .. buf_size, off : Nat, n : 0 .. buf_size]
    /\ sec \in [buf : [1 .. SectorSize -> Bytes], pos : 0 .. SectorSize - 1, fed : Nat]
    /\ ErrorStatus \in {"none", "cancelled", "memory", "open", "read", "write", "badblocks"}
    /\ bb \in [pc : {"off", "write", "read", "end"}, pass : 0 .. nb_passes - 1, testing : 0 .. last_block,
               tryout : 0 .. BB_BLOCKS_AT_ONCE, recover : {None} \cup 0 .. last_block + BB_BLOCKS_AT_ONCE,
               list : SUBSET Blocks, cancel : BOOLEAN, cuts : 0 .. MaxCuts, lost : BOOLEAN,
               n : 0 .. MaxChecks, clean : BOOLEAN]
    /\ held \in [Blocks -> {UNKNOWN} \cup Blocks \cup {PatternAt(p, i) : p \in 0 .. nb_passes - 1, i \in 0 .. 2}]

Copied(k) == drive[place(k)] = k + 1
Wiped(k) == drive[k] \in IF job.mode = "fast" THEN {ZERO, FF} ELSE {ZERO}

\* The drive can be relied on: it was not checked (and is sound), or the check
\* found nothing, no passing failure hid a block from it, and it looked for
\* fakes if the drive is one.
Trusted == ~job.check \/ (bb.clean /\ ~bb.lost /\ (detect_fakes \/ media.size = last_block))

\* Whatever failed, was retried or was skipped on the way, what lies behind the
\* counter wb (behind the bytes sector_write has passed on) is final: the
\* image's own bytes in their places, or wiped.  And a raw image changes
\* nothing after the sector that holds the last byte of its scanned size, though
\* the file may have grown since and blocks are whole sectors.  A failed rewind,
\* which the code only warns of, is the exception.
BehindIsDone ==
    t.rewound /\ Trusted =>
        /\ Zeroing => \A k \in 0 .. t.wb - 1 : Wiped(k)
        /\ job.mode \in {"image", "vhd"} =>
              \A k \in 0 .. Min2(t.wb, Min2(target_size, job.file)) - 1 : Copied(k)
        /\ t.pc = "unpack" => \A k \in 0 .. sec.fed - sec.pos - 1 : Copied(k)
        /\ job.mode = "image" =>
              \A k \in CEILING_ALIGN(Min2(DiskSize, job.image)) .. DiskSize - 1 : drive[k] = OLD

\* WriteDrive returns TRUE only over a drive that is wiped to its last sector,
\* or holds all there is of the image, the drive checked for bad blocks before
\* included; of a compressed image the last, partial sector may be missing (its
\* write is not checked), and a cancelled one may stop anywhere.  If it does not
\* return TRUE there is a status for the user to see, unless the file pointer
\* could not be set back, the block to compare could not be read, the VHD not be
\* mounted or the log of the check not be created: those leave by a bare goto out.
TrueMeansWhole ==
    /\ t.pc = "done" /\ t.ret /\ t.rewound /\ Trusted /\ ErrorStatus # "cancelled" =>
           CASE Zeroing -> \A k \in 0 .. DiskSize - 1 : Wiped(k)
             [] job.mode = "compressed" ->
                   \A k \in 0 .. job.file - (IF t.out = "tail" THEN sec.pos ELSE 0) - 1 : Copied(k)
             [] OTHER -> \A k \in 0 .. Min2(target_size, job.file) - 1 : Copied(k)
    /\ t.pc = "done" /\ ~t.ret /\ ErrorStatus = "none" => t.out \in {"reposition", "compare", "mount", "log"}

\* The call returns if its thread keeps running: no failure is retried for
\* ever, and a read that never completes times out.
Returns == WF_vars(Thread) => <>(t.pc = "done")
=============================================================================
