------------------------------ MODULE BadBlocks ------------------------------
(***************************************************************************)
(* badblocks.c, test_rw: every pass writes a pattern to all blocks of the   *)
(* drive and reads it back, many blocks at once, and one at a time where    *)
(* that fails.  In the first pass every block also gets its own number, so  *)
(* that a drive that wraps at less than the size it claims is found out.    *)
(***************************************************************************)
EXTENDS Integers, Sequences, FiniteSets, FiniteSetsExt

CONSTANTS DiskSize,
          BADBLOCK_BLOCK_SIZE, BB_BLOCKS_AT_ONCE, BB_BAD_BLOCKS_THRESHOLD,
          Patterns,              \* pattern types: the bytes in the pattern of each pass
          MaxCuts, MaxChecks     \* bounds: transfers that fail for no lasting reason, checks

ASSUME BadBlocksAssumption ==
    /\ {BADBLOCK_BLOCK_SIZE, BB_BLOCKS_AT_ONCE, BB_BAD_BLOCKS_THRESHOLD, MaxChecks} \subseteq Nat \ {0}
    /\ DiskSize \in Nat /\ MaxCuts \in Nat
    /\ \A p \in Patterns : p \in Seq(1 .. 3) /\ Len(p) > 0

last_block == DiskSize \div BADBLOCK_BLOCK_SIZE
Blocks == 0 .. last_block - 1

VARIABLES media,         \* kind: what is wrong with each block; size: where the drive wraps, in blocks
          held,          \* what the blocks hold
          bb,            \* the locals of test_rw, the list and cancel_ops
          pattern, detect_fakes,
          ErrorStatus

\* "rd", "wr": reads, writes fail; "rot": holds something else than was written
Kinds == {"good", "rd", "wr", "rot"}
at(b) == b % media.size

None == -1
UNKNOWN == -2
Erased == [b \in Blocks |-> UNKNOWN]

\* No check is running.  Of the model alone: cuts counts the failures that do
\* not last, lost says that one of them hid a block, clean that the last check
\* ran through and found nothing.
NoCheck == [pc |-> "off", pass |-> 0, testing |-> 0, tryout |-> 0, recover |-> None, list |-> {},
            cancel |-> FALSE, cuts |-> 0, lost |-> FALSE, n |-> 0, clean |-> FALSE]

nb_passes == Len(pattern)
PatternAt(pass, i) == -3 - 3 * pass - (i % pattern[pass + 1])

\* Mutant: the number of the block is not put into the pattern.
Expected_noid(b) == PatternAt(bb.pass, b - bb.testing)

\* What block b of the transfer is to hold: its number, in the first pass, or
\* the pattern.  pattern_fill fills the buffer of the whole transfer: three
\* bytes do not divide a block, so where the block is in the buffer matters.
Expected(b) == IF detect_fakes /\ bb.pass = 0 THEN b ELSE PatternAt(bb.pass, b - bb.testing)

\* The blocks of the next transfer
tryout == IF bb.testing + bb.tryout > last_block THEN last_block - bb.testing ELSE bb.tryout
Transfer == bb.testing .. bb.testing + tryout - 1
Bad(kind) == {b \in Transfer : media.kind[at(b)] = kind}
CanCut == bb.cuts < MaxCuts

\* After n blocks of the transfer reached the drive
Written(n) == [a \in Blocks |->
    LET w == {b \in bb.testing .. bb.testing + n - 1 : at(b) = a}
    IN  IF w = {} THEN held[a] ELSE IF media.kind[a] = "rot" THEN UNKNOWN ELSE Expected(Max(w))]

\* write_sectors fails with some of the blocks written; or with all of them, for
\* large drives report no size.
WritesShort == IF Bad("wr") # {} THEN 0 .. Min(Bad("wr")) - bb.testing ELSE IF CanCut THEN 0 .. tryout ELSE {}

\* read_sectors returns what it got.
ReadsShort == IF Bad("rd") # {} THEN 0 .. Min(Bad("rd")) - bb.testing ELSE IF CanCut THEN 0 .. tryout - 1 ELSE {}

\* bb_output: a block goes into the list once, if there is memory for it.
bb_output(s, found) ==
    {[s EXCEPT !.list = @ \cup found]} \cup
    IF s.cuts < MaxCuts
    THEN {[s EXCEPT !.list = @ \cup (found \ {b}), !.cuts = @ + 1, !.lost = TRUE] : b \in found \ bb.list}
    ELSE {}

\* After a whole transfer: many blocks at once again, once past the failure
Advance ==
    LET next == bb.testing + tryout IN
    [bb EXCEPT !.testing = next,
               !.tryout = IF next = bb.recover THEN BB_BLOCKS_AT_ONCE ELSE tryout,
               !.recover = IF next = bb.recover THEN None ELSE @]

\* After one that got so many blocks and failed: one at a time from there
Alone(got) == got = 0 /\ tryout = 1
StepBack(got) ==
    LET next == bb.testing + got + (IF Alone(got) THEN 1 ELSE 0) IN
    [bb EXCEPT !.testing = next, !.tryout = 1,
               !.recover = IF @ = None THEN next - got + BB_BLOCKS_AT_ONCE ELSE @]
Suspect(got) == IF Alone(got) THEN {bb.testing} ELSE {}
Counted(s, lasting) == IF lasting THEN s ELSE [s EXCEPT !.cuts = @ + 1]

\* cancel_ops, or so many bad blocks that the test is given up
GivesUp == bb.cancel \/ Cardinality(bb.list) >= BB_BAD_BLOCKS_THRESHOLD
Testing(pc) == bb.pc = pc /\ bb.testing < last_block /\ ~GivesUp

TestWrites ==
    /\ Testing("write")
    /\ \/ Bad("wr") = {} /\ held' = Written(tryout) /\ bb' = Advance
       \/ \E n \in WritesShort : /\ held' = Written(n)
                                 /\ bb' \in bb_output(Counted(StepBack(0), Bad("wr") # {}), Suspect(0))

\* What is read is compared, unless the read was short: then the blocks it did
\* get are passed over.
TestReads ==
    /\ Testing("read") /\ UNCHANGED held
    /\ \/ /\ Bad("rd") = {}
          /\ bb' \in bb_output(Advance, {b \in Transfer : held[at(b)] # Expected(b)})
       \/ \E got \in ReadsShort :
             bb' \in bb_output([Counted(StepBack(got), Bad("rd") # {}) EXCEPT !.lost = @ \/ got > 0], Suspect(got))

\* The other half of the pass, the next pass, or the end
PhaseEnds ==
    /\ bb.pc \in {"write", "read"} /\ UNCHANGED held
    /\ \/ bb.testing < last_block /\ GivesUp /\ bb' = [bb EXCEPT !.pc = "end", !.cancel = TRUE]
       \/ /\ bb.testing >= last_block /\ bb.pc = "read" /\ (bb.pass + 1 = nb_passes \/ bb.cancel)
          /\ bb' = [bb EXCEPT !.pc = "end"]
       \/ /\ bb.testing >= last_block /\ (bb.pc = "write" \/ (bb.pass + 1 < nb_passes /\ ~bb.cancel))
          /\ bb' = [bb EXCEPT !.pc = IF @ = "write" THEN "read" ELSE "write",
                              !.pass = IF bb.pc = "write" THEN @ ELSE @ + 1,
                              !.testing = 0, !.tryout = BB_BLOCKS_AT_ONCE]

\* The timer of the main dialog sees that the user has cancelled.
num_blocks == IF bb.pc = "write" THEN last_block - 1 ELSE last_block
alarm_intr ==
    /\ bb.pc \in {"write", "read"} /\ num_blocks # 0 /\ ErrorStatus # "none" /\ ~bb.cancel
    /\ bb' = [bb EXCEPT !.cancel = TRUE] /\ UNCHANGED held

\* BadBlocks: a new list, and the first pass begins, if there is memory for both.
BadBlocksBegins ==
    /\ bb.pc = "off" /\ UNCHANGED held
    /\ LET begun == [NoCheck EXCEPT !.pc = "write", !.tryout = BB_BLOCKS_AT_ONCE, !.n = bb.n + 1]
       IN  bb' \in {begun, [begun EXCEPT !.pc = "end", !.cancel = TRUE]}

\* It returns FALSE.
CheckFailed == bb.cancel /\ bb.list = {}

-----------------------------------------------------------------------------
\* What the check says of the drive, at its end.  If it ran through and found
\* nothing (and no passing failure hid a block from it), no block is bad and,
\* with the numbers, the drive has the size it claims.  If nothing failed but
\* for a lasting reason, on a drive of the size it claims, it lists every block
\* that cannot be read or written, unless it was given up, and none that is
\* good: but with a pattern of three bytes good blocks are listed as well once
\* a transfer has failed, as they are then not compared with what was written.
CheckIsRight ==
    bb.pc = "end" =>
        /\ bb.list = {} /\ ~bb.cancel /\ ~bb.lost =>
              /\ detect_fakes => media.size = last_block
              /\ media.size = last_block => \A b \in Blocks : media.kind[b] = "good"
        /\ bb.cuts = 0 /\ media.size = last_block =>
              /\ \A b \in bb.list : \/ media.kind[b] # "good"
                                    \/ /\ \E k \in 1 .. nb_passes : pattern[k] > 1
                                       /\ \E x \in Blocks : media.kind[x] \in {"rd", "wr"}
              /\ ~bb.cancel => \A b \in Blocks : media.kind[b] \in {"rd", "wr"} => b \in bb.list
=============================================================================
