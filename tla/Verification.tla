---------------------------- MODULE Verification ----------------------------
(***************************************************************************)
(* verification.sh: the sampling, entropy and scan tests made of a device  *)
(* after a wipe, one device after the other in one shell.  A device may    *)
(* stop answering at any time.  dd, hexdump, ent and bc are external.      *)
(***************************************************************************)
EXTENDS Sectors

CONSTANTS VerifyDevices,
          VerifySize,       \* sectors of each device
          Contents,         \* what devices may hold when they are verified
          VERIFY_MARGIN,    \* 1000: sectors at either end the samples avoid
          PROGRESS,         \* 20: parts in which a scan shows its progress
          PATTERN_SAMPLES,  \* 1000 to 25000, by level
          ENTROPY_SAMPLES,  \* 1000 to 5000, by level
          VerifyFaults

Levels  == {"basic", "standard", "thorough", "forensic"}
Methods == {"zeros", "0x55", "random"}
VerifyFaultKinds == {"blockdev", "unplug", "interrupt"}

ASSUME VerifySizeAssumption == VerifySize \in [VerifyDevices -> Nat \ {0}]
ASSUME MarginAssumption ==
    /\ VERIFY_MARGIN \in Nat /\ RANDOM_MAX \in Nat /\ PROGRESS \in Nat \ {0}
    /\ 2 * VERIFY_MARGIN * 10 >= 100 * PROGRESS     \* 2000 sectors: a tenth is 200
ASSUME SamplesAssumption ==
    /\ PATTERN_SAMPLES \in [Levels -> Nat \ {0}] /\ ENTROPY_SAMPLES \in [Levels -> Nat \ {0}]
ASSUME VerifyFaultsAssumption == VerifyFaults \subseteq VerifyFaultKinds
ASSUME ContentsAssumption == \A c \in Contents : c \in [DOMAIN c -> Kinds]

VARIABLES vf_call,   \* the running call: its step, arguments, locals and verdict;
                        \* whether its device can be read
          TOTAL,     \* exported: VERIFY_TOTAL_SECTORS
          vf_report,  \* the last verification report
          samples,   \* entropy-samples.bin: the sectors appended to it
          leftover,  \* history: the samples an interrupted call left in the file
          vf_sectors  \* what the devices hold

vf_vars == <<vf_call, TOTAL, vf_report, samples, leftover, vf_sectors>>

VerifyIdle == [pc |-> "idle", device |-> "none", method |-> "none", level |-> "none", n |-> 0,
         failed |-> 0, wrong |-> 0, suspicious |-> 0, passed |-> 0, ok |-> TRUE, answers |-> TRUE,
         result |-> "none"]
VerifyNoReport == [device |-> "none", result |-> "none", total |-> 0]

VerifyInit == /\ vf_call = VerifyIdle /\ TOTAL = 0 /\ vf_report = VerifyNoReport /\ samples = {} /\ leftover = {}
              /\ vf_sectors \in {f \in [VerifyDevices -> Contents] :
                                   \A d \in VerifyDevices : DOMAIN f[d] = 0 .. VerifySize[d] - 1}

vf_device == vf_call.device
Read(s) == IF vf_call.answers THEN ReadSector(vf_sectors[vf_device], VerifySize[vf_device], s) ELSE "none"
VerifyReturn(how) == vf_call' = [vf_call EXCEPT !.pc = "returned", !.result = how]

\* execute_comprehensive_verification, up to initialize_verification_engine.
VerifyCall(d, method, level) ==
    /\ vf_call.pc \in {"idle", "returned"}
    /\ vf_call' = [VerifyIdle EXCEPT !.pc = "init", !.device = d, !.method = method, !.level = level]
    /\ UNCHANGED <<TOTAL, vf_report, samples, leftover, vf_sectors>>

\* Mutant: the size is taken in bytes.
initialize_verification_engine_bytes ==
    /\ vf_call.pc = "init" /\ TOTAL' = VerifySize[vf_device] * 512
    /\ vf_call' = [vf_call EXCEPT !.pc = IF vf_call.level \in Levels THEN "pattern" ELSE "results"]
    /\ UNCHANGED <<vf_report, samples, leftover, vf_sectors>>

\* get_device_geometry; then the tests of the level, none for an unknown one.
initialize_verification_engine ==
    /\ vf_call.pc = "init"
    /\ \/ /\ vf_call.answers /\ TOTAL' = VerifySize[vf_device]
          /\ vf_call' = [vf_call EXCEPT !.pc = IF vf_call.level \in Levels THEN "pattern" ELSE "results"]
       \/ /\ ~ vf_call.answers \/ "blockdev" \in VerifyFaults
          /\ VerifyReturn("failed") /\ UNCHANGED TOTAL
    /\ UNCHANGED <<vf_report, samples, leftover, vf_sectors>>

\* A basic verification does not know random data.
Expected == IF vf_call.level = "basic" /\ vf_call.method = "random" THEN "zeros" ELSE vf_call.method

\* Mutant: 0x55 is taken for any data that is not zero.
MatchesNonZero(pattern, kind) == pattern # "zeros" /\ ~ Grep("00", Echo(Hexdump(kind)))

Matches(pattern, kind) ==
    LET data == Echo(Hexdump(kind))
    IN CASE pattern = "zeros"  -> Grep("00", data) /\ ~ HexDigitsBesides("00", data)
         [] pattern = "0x55"   -> Grep("55", data)
         [] pattern = "random" -> ~ Grep("00", data)

\* History: what the sample shows is not what the wipe leaves.  (Random data has
\* no long run of zeros; nothing else is known of it, and a sector that could
\* not be read does not refute it.)
Refutes(kind) ==
    \/ vf_call.method = "zeros"  /\ kind # "zero"
    \/ vf_call.method = "0x55"   /\ kind # "p55"
    \/ vf_call.method = "random" /\ kind \in {"zero", "oldz", "oldfs"}

\* Mutant: a sector that could not be read is passed over.
PatternSampleSkips(random) ==
    /\ vf_call.pc = "pattern" /\ vf_call.n < PATTERN_SAMPLES[vf_call.level] /\ TOTAL # 2 * VERIFY_MARGIN
    /\ LET kind == Read(RandomSector(random, TOTAL, VERIFY_MARGIN))
       IN vf_call' = [vf_call EXCEPT !.n = @ + 1,
                                     !.failed = IF kind = "none" \/ Matches(Expected, kind) THEN @ ELSE @ + 1,
                                     !.wrong = IF Refutes(kind) THEN @ + 1 ELSE @]
    /\ UNCHANGED <<TOTAL, vf_report, samples, leftover, vf_sectors>>

\* One turn of the loop of execute_pattern_verification; a sector dd could
\* not read is judged like an empty one.
PatternSample(random) ==
    /\ vf_call.pc = "pattern" /\ vf_call.n < PATTERN_SAMPLES[vf_call.level] /\ TOTAL # 2 * VERIFY_MARGIN
    /\ LET kind == Read(RandomSector(random, TOTAL, VERIFY_MARGIN))
       IN vf_call' = [vf_call EXCEPT !.n = @ + 1,
                                     !.failed = IF Matches(Expected, kind) THEN @ ELSE @ + 1,
                                     !.wrong = IF Refutes(kind) THEN @ + 1 ELSE @]
    /\ UNCHANGED <<TOTAL, vf_report, samples, leftover, vf_sectors>>

\* RANDOM % 0: bash abandons every function that is running.
PatternAborts == /\ vf_call.pc = "pattern" /\ TOTAL = 2 * VERIFY_MARGIN /\ VerifyReturn("aborted")
                 /\ UNCHANGED <<TOTAL, vf_report, samples, leftover, vf_sectors>>

\* The suite goes on to the next test of the level, also after a failed one.
EndTest(ok) ==
    vf_call' = [vf_call EXCEPT !.pc = IF vf_call.pc = "pattern" /\ vf_call.level # "basic" THEN "entropy"
                                      ELSE IF vf_call.pc = "entropy" /\ vf_call.level # "standard" THEN "scan"
                                      ELSE "results",
                               !.n = 0, !.passed = IF ok THEN @ + 1 ELSE @, !.ok = @ /\ ok]

PatternResult ==
    /\ vf_call.pc = "pattern" /\ vf_call.n = PATTERN_SAMPLES[vf_call.level]
    /\ EndTest((vf_call.failed * 100) \div PATTERN_SAMPLES[vf_call.level] <= 1)
    /\ UNCHANGED <<TOTAL, vf_report, samples, leftover, vf_sectors>>

\* One turn of the loop of execute_entropy_verification.
EntropySample(random) ==
    /\ vf_call.pc = "entropy" /\ vf_call.n < ENTROPY_SAMPLES[vf_call.level]
    /\ LET kind == Read(RandomSector(random, TOTAL, VERIFY_MARGIN))
       IN samples' = IF kind = "none" THEN samples ELSE samples \cup {<<vf_device, kind>>}
    /\ vf_call' = [vf_call EXCEPT !.n = @ + 1]
    /\ UNCHANGED <<TOTAL, vf_report, leftover, vf_sectors>>

\* Bits per byte of the samples: below 1, above 6 or between.  One repeated
\* byte, or nothing at all, is low, random data high, anything else is any.
EntropyScores ==
    LET kinds == {x[2] : x \in samples}
    IN IF kinds \in {{}, {"zero"}, {"p55"}} THEN {"low"}
       ELSE IF kinds = {"rand"} THEN {"high"} ELSE {"low", "moderate", "high"}

\* Mutant: an unclear result leaves the samples behind.
EntropyResultKeeps ==
    /\ vf_call.pc = "entropy" /\ vf_call.n = ENTROPY_SAMPLES[vf_call.level]
    /\ \E score \in EntropyScores : /\ EndTest(score # "moderate")
                                    /\ samples' = IF score = "moderate" THEN samples ELSE {}
    /\ UNCHANGED <<TOTAL, vf_report, leftover, vf_sectors>>

EntropyResult ==
    /\ vf_call.pc = "entropy" /\ vf_call.n = ENTROPY_SAMPLES[vf_call.level]
    /\ \E score \in EntropyScores : EndTest(score # "moderate")
    /\ samples' = {} /\ leftover' = {}
    /\ UNCHANGED <<TOTAL, vf_report, vf_sectors>>

Percentage == IF vf_call.level = "thorough" THEN 10 ELSE 50
\* Mutant: the division is made first.
sectors_to_scan_rounded == (TOTAL \div 100) * Percentage

sectors_to_scan == (TOTAL * Percentage) \div 100

scan_interval == TOTAL \div sectors_to_scan

\* Dividing by sectors_to_scan, or by a twentieth of it for the progress.
ScanAborts == /\ vf_call.pc = "scan" /\ sectors_to_scan < PROGRESS /\ VerifyReturn("aborted")
              /\ UNCHANGED <<TOTAL, vf_report, samples, leftover, vf_sectors>>

\* One turn of the loop of execute_full_scan_verification.
ScanSector ==
    /\ vf_call.pc = "scan" /\ sectors_to_scan >= PROGRESS /\ vf_call.n * scan_interval < TOTAL
    /\ LET data == HeadLines(5, Hexdump(Read(vf_call.n * scan_interval)))
       IN vf_call' = [vf_call EXCEPT !.n = @ + 1, !.suspicious = IF Grep("FAT", data) THEN @ + 1 ELSE @]
    /\ UNCHANGED <<TOTAL, vf_report, samples, leftover, vf_sectors>>

ScanResult ==
    /\ vf_call.pc = "scan" /\ sectors_to_scan >= PROGRESS /\ vf_call.n * scan_interval >= TOTAL
    /\ EndTest(vf_call.suspicious = 0 \/ (vf_call.suspicious * 100) \div vf_call.n <= 5)
    /\ UNCHANGED <<TOTAL, vf_report, samples, leftover, vf_sectors>>

tests_completed == CASE vf_call.level = "basic" -> 1 [] vf_call.level = "standard" -> 2
                     [] vf_call.level \in {"thorough", "forensic"} -> 3 [] OTHER -> 0

\* The success rate divides by the number of tests.
Results ==
    /\ vf_call.pc = "results"
    /\ VerifyReturn(IF tests_completed = 0 THEN "aborted" ELSE IF vf_call.ok THEN "passed" ELSE "failed")
    /\ UNCHANGED <<TOTAL, vf_report, samples, leftover, vf_sectors>>

\* generate_verification_report, called with what the suite returned.
generate_verification_report ==
    /\ vf_call.pc = "returned"
    /\ vf_report' = [device |-> vf_device, result |-> vf_call.result, total |-> TOTAL]
    /\ vf_call' = VerifyIdle
    /\ UNCHANGED <<TOTAL, samples, leftover, vf_sectors>>

\* The device stops answering, or answers again; Ctrl-C ends the shell.
VerifyUnplug == /\ "unplug" \in VerifyFaults /\ vf_call.pc \notin {"idle", "returned"}
                /\ vf_call' = [vf_call EXCEPT !.answers = ~ @]
                /\ UNCHANGED <<TOTAL, vf_report, samples, leftover, vf_sectors>>

VerifyInterrupt == /\ "interrupt" \in VerifyFaults /\ vf_call.pc \notin {"idle", "returned"}
                   /\ vf_call' = VerifyIdle /\ TOTAL' = 0 /\ leftover' = samples
                   /\ UNCHANGED <<vf_report, samples, vf_sectors>>

Tests == \/ initialize_verification_engine \/ PatternAborts \/ PatternResult
         \/ (\E r \in 0 .. RANDOM_MAX : PatternSample(r) \/ EntropySample(r)) \/ EntropyResult
         \/ ScanAborts \/ ScanSector \/ ScanResult \/ Results

VerifyNext == \/ \E d \in VerifyDevices, m \in Methods, l \in Levels \cup {"other"} : VerifyCall(d, m, l)
              \/ Tests \/ generate_verification_report \/ VerifyUnplug \/ VerifyInterrupt

VerifySpec == VerifyInit /\ [][VerifyNext]_vf_vars

-----------------------------------------------------------------------------
\* Steps, counters and globals keep to their types.
VerifyTypeOK ==
    /\ vf_call.pc \in {"idle", "init", "pattern", "entropy", "scan", "results", "returned"}
    /\ vf_device \in VerifyDevices \cup {"none"} /\ vf_call.ok \in BOOLEAN
    /\ vf_call.passed \in 0 .. 3
    /\ {vf_call.n, vf_call.failed, vf_call.wrong, vf_call.suspicious} \subseteq Nat
    /\ vf_call.result \in {"none", "passed", "failed", "aborted"} /\ vf_call.answers \in BOOLEAN
    /\ TOTAL \in {0} \cup {VerifySize[d] : d \in VerifyDevices}
    /\ samples \subseteq VerifyDevices \X Kinds /\ leftover \subseteq samples

\* The suite's verdict is founded: when it passes, fewer than 2% of the samples
\* of its pattern test refute the wipe.  (1% is tolerated, after an integer
\* division.)  For 0x55 a sector that could not be read, because the device has
\* stopped answering, refutes it; for random data, a run of zeros.  (For zeros
\* the suite never passes: grep finds digits in the last offset.)  And only a
\* device of at most 2000 sectors, or an unknown level, makes a division by zero
\* abandon the suite without a verdict.
VerdictIsFounded ==
    vf_call.pc = "returned" =>
        /\ vf_call.result = "passed" => vf_call.wrong * 100 < 2 * PATTERN_SAMPLES[vf_call.level]
        /\ vf_call.result = "aborted" => vf_call.level \notin Levels \/ TOTAL <= 2 * VERIFY_MARGIN

\* The entropy is that of this device: no sample of another one is in the file
\* but those of a call that was interrupted.
SamplesOfThisDevice == \A x \in samples \ leftover : x[1] = vf_device /\ vf_call.pc = "entropy"
=============================================================================
