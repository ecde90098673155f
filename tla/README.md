# SecureWipe: models, checks and proofs

TLA+ modules of SecureWipeOut: the Windows program under `src/src/` (a fork of
Rufus) and the wipe engines in bash under `src/linux-boot/`. Every definition
is translated from the source; `PROJECT.json` maps it to the lines it stands for,
names every run, the mutated definition that each property catches, the theorems,
and the hazards the properties are aimed at.

    tlc -workers 2 -config HashPipeline.cfg MCHashPipeline    # one run
    tlapm Threads_proofs.tla                                  # one module of proofs

## The system

| part | source | module | status |
|---|---|---|---|
| image digests: a reader, one worker per algorithm, asynchronous reads | `src/src/hash.c`, `winio.h` | `HashPipeline`, `Threads_proofs` | modelled, proved |
| overwrite of a hard disk and its host protected area (HPA) | `hdd-overwrite.sh` | `HddOverwrite`, `Engines_proofs`, `Sectors` | modelled, proved |
| wipe plan and cryptographic erase | `wipe-engine.sh`, `crypto-erase.sh` | `CryptoErase`, `Engines_proofs`, `EraseContract` | modelled, proved |
| external storage | `external-storage.sh` | `ExternalStorage`, `Engines_proofs`, `Sectors`, `EraseContract` | modelled, proved |
| verification suite | `verification.sh` | `Verification`, `Engines_proofs`, `Sectors` | modelled, proved |
| certificates | `certificate-gen.sh` | `CertificateGen`, `Engines_proofs` | modelled, proved |
| a session: plan, wipe, verify, certify device after device in one shell | all engines | `WipeSession` (extends `CertificateGen`), `Engines_proofs` | partly, proved |
| writing a drive: zeroing, raw, mounted and compressed images | `format.c` `WriteDrive`, `sector_write` | `WriteDrive`, `WriteDriveSteps_proofs`, `WriteDrive_proofs` | modelled, proved |
| the format thread: order of steps, error status, cancellation | `format.c` `FormatThread` | `FormatThread`, `MainDialog_proofs` | partly, proved |
| bad blocks check, before a drive is written | `badblocks.c`, `ms-sys/file.c`, `format.c` | `BadBlocks`, composed in `WriteDrive`; `BadBlocks_proofs`, `WriteDrive_proofs` | modelled, proved |
| search for conflicting processes: a thread and its callers | `process.c` | `ProcessSearch`, `Threads_proofs` | partly, proved |
| rewriting a WIM in place: writer, compressor threads, the file | `wimlib/write.c`, `compress_parallel.c`, `resource.c`, `integrity.c` | `WimOverwrite`, `BlobWriter`, `ChunkCompressor`, `ChunkFifo`; `ChunkCompressor_proofs`, `WimOverwrite_proofs` | partly, the compressors proved |
| main dialog: start, checks, confirmation, cancel, hotplug, downloads, report | `rufus.c`, `dev.c`, `iso.c`; of `net.c`, what a download does to `ErrorStatus` | `MainDialog` (extends `FormatThread`), `MainDialog_proofs` | partly, proved |
| partition layout, FAT32 geometry, hash table | `drive.c`, `format_fat32.c`, `stdfn.c` | | left out |
| device enumeration, ISO extraction, VHD, transfers and signatures of downloads, boot loaders, Windows customisation, parsers, dialogs and localization | rest of `src/src/` | | left out |
| launcher, init scripts, build and test scripts | `linux-boot/`, `*.ps1` | | left out |
| vendored libraries (bled, ext2fs, libcdio, syslinux; the rest of ms-sys and wimlib) | `src/src/*/` | | left out |

`PROJECT.json` gives the reason for each part that is left out. The engines under
`SecureWipe-Unified-Build/` are copies.

How the parts meet. The dialog validates a request, has `BootCheckThread` check
it, asks for a confirmation and starts one worker: a `FormatThread`, which ends in
`WriteDrive` for images and for zeroing, a `HashThread`, or a thread that saves a
disc. A format may check the drive for bad blocks before it writes, and the same
thread asks the process search who has the drive open. An installation image is
changed on the finished drive by `wue.c`, which has wimlib rewrite it in place. All share one `ErrorStatus`, and every worker ends with one
`UM_FORMAT_COMPLETED`. The engines are bash functions meant to run in one shell;
they communicate by exported globals and files in `/tmp`, which outlive a call.
No shipped script calls them in sequence: `securewipe-launcher` sources
`wipe-engine.sh`, whose last lines exit without two arguments, and its wipe is a
TODO. `WipeSession` therefore composes them the way their own documentation
orders them, plan, wipe, verify, certify.

## The modules

**HashPipeline.** State: control point and locals of `HashThread`, three buffers,
the pending read, the two auto-reset events per worker, control point, context and
digest of each worker. Actions: one per step of the reader between two waits and
of a worker; each error path is an action. A digest is the sequence of chunks
hashed. `hash_str` starts as what an earlier image left.

**HddOverwrite.** State: the running call, the exported globals `DEVICE_SIZE` and
`hpa`, the drives (sectors shown, sectors hidden, contents), the log's reports.
Actions: one per function of `execute_hdd_secure_overwrite`, with the operator's
choices. `Sectors` has what `hexdump | grep` tells apart in a sector, and bash's
remainder.

**CryptoErase.** `wipe-engine.sh`'s detection and plan, then
`execute_ssd_cryptographic_erase`: NVMe format, or the ATA sequence set password,
erase, disable password. State: the call, the exported method and detection
results, the password and contents of each drive.

**ExternalStorage.** The levels of an overwrite, pass by pass, on whatever device
is in the port: a device may be pulled, exchanged, or fail between any two steps, or before
the first.
`ext_call.fd` is the device an open descriptor refers to.

**Verification.** The three tests of `run_comprehensive_verification`, with their
counters, the file of samples that outlives an interrupted call, and the
divisions that abandon it.

**CertificateGen, WipeSession.** Keys, certificates, data and signature files in
the certificate directory, each generated anew or left over; `WipeSession` adds
the globals the earlier engines export.

**EraseContract.** What any erase engine promises: success is reported only for a
device that was erased, and an erased device stays so. `CryptoErase` and
`ExternalStorage` are each shown to implement it, by `INSTANCE EraseContract WITH`
and the properties `ReportsOnlyErased` (a conjunct of `VerdictIsTrue` in `CryptoErase`);
both refinements are checked on small instances and proved for all.

**WriteDrive.** State: the sectors of the drive, the file pointer, the counters
`wb` and retries, the two buffers and the asynchronous read in flight, the
partial sector of a decompressor. Actions: one per block compared, read, written
or retried, and one per failing call. It extends **BadBlocks**, `test_rw` of
`badblocks.c`: the pass and the phase, the block tested, how many at once and up to
which block one at a time, the list, `cancel_ops`. A pattern is known by its pass
and its phase within the buffer, a numbered block by its number. Actions: a
transfer written, a transfer read and compared, the end of a phase, the timer that
looks for a cancellation; `CheckBegins` and `CheckEnds` are `FormatThread`'s loop
around them, with the user's abort, retry or ignore. The drive under both has a
kind for each block (good, unreadable, unwritable, not keeping what is written) and
a real size, at which it wraps.

**ProcessSearch.** State: `blocking_process`, the mutex of each thread that was
started, the search thread, the caller, and what the passes over the current drive
found (`past`, of the model alone). A step of the thread or of a caller is what happens
between two waits. Any process is found or not in any pass; a system call may fail,
one may never return, and `TerminateThread` leaves the structure as it is.

**ChunkFifo, ChunkCompressor, BlobWriter, WimOverwrite.** `ChunkFifo` is what a
compressor promises the writer: chunks come back in the order they were given in,
each once. `ChunkCompressor` is `compress_parallel.c`: two queues with their
mutexes and condition variables, the messages, the threads. `BlobWriter` is the
writer's loop over blobs: reading pieces, filling a chunk, handing it over, writing
results and the chunk table. `WimOverwrite` adds the rest of `overwrite_wim_inplace`
and `finish_write`: what the file holds, byte range by byte range, the header that
is written twice, the integrity table, truncation on failure. Every state is one
the machine may be switched off in.

**FormatThread, MainDialog.** `FormatThread` has the steps of each kind of job as
a table, `Plan`: what a step's failure does to `ErrorStatus` and whether the
thread then leaves. `MainDialog` runs it beside the user interface. State: the
globals of `rufus.c`, the posted messages, the stack of modal boxes, the drives
listed and plugged in, the threads. A handler is one action unless it opens a
box, which runs a message loop; then the rest of the handler is the action that
answers the box. Input is taken only when no box is open and no message is posted.
The downloads of `net.c` reset `ErrorStatus` when they begin and set it when they fail
(`:185`, `:309`, `:370`), so they are actions too: `CheckDownload` by the checks, `DownloadISO` by
the user, `BackgroundDownload` by the threads that look for updates. `op.lost` is history:
who reset a status that was set.
A drive is the number Windows gives it.

## The runs

Ten runs pass and check forty properties between them. Each property has one or
more mutants: the definition named in `PROJECT.json` is changed the way a slip in
the code would change it, and TLC then finds the property violated.

| run | states | what it shows |
|---|---|---|
| `hash_pipeline` | 65 thousand | the read in flight never hits a buffer being hashed; a published digest is the whole image's; the one shown is, unless its worker gave up; `proc_bufnum` moves only when nobody uses it; the reader returns, and no wake-up is lost |
| `hdd_overwrite` | 2.2 million | an HPA that was disabled is put back on every path on which `hdparm` works and bash does not abandon the call; a SUCCESS over a `dd` that ran to the end is true, its HPA line included |
| `crypto_erase` | 155 thousand | a temporary password is taken off unless that itself fails; an owner's password is never replaced; a planned SSD is not refused by another device's detection results; the contract |
| `external_storage` | 2.5 million | an undisturbed wipe passes its own verification; the contract |
| `verification` | 854 thousand | in a pass fewer than 2% of the pattern samples refute the wipe; the entropy samples are this device's; only a tiny device or an unknown level abandons the suite |
| `wipe_session` | 3 million | the CA certificate fits the CA key and the device's certificate chains to it after any sequence of failures; a certificate shows its own device |
| `write_drive` | 276 thousand | a check that finds nothing means a drive without bad blocks and, with the numbers, of the size it claims; it accuses no good block; all that is behind the write counter is final and nothing after the target is touched; TRUE means whole and a failure leaves a status, on a drive that is sound or was found so; the call returns |
| `process_search` | 1.3 million | a report is made only after a whole pass over the drive set last; it has every process found in two passes running and none of another drive; an undisturbed search comes to a report |
| `wim_update` | 124 thousand | whenever the machine stops, the header leads to a whole image, old or new; success means the new one; chunks come back in order, each in one place (a refinement of `ChunkFifo`); the call and all threads end |
| `main_dialog` | 534 thousand | the drive formatted is the one confirmed; zeroing is not inherited, but from a request turned down; one operation at a time; a cancellation or failure is shown as success only if one of three known steps reset the status after it; the controls come back |

Two runs end in a violation, each of a sentence the repository states:

| run | sentence | what happens |
|---|---|---|
| `external_removed` | "Status: All data destroyed" (`external-storage.sh:454`) | a device pulled after the one presence check is reported as wiped |
| `session_signature` | "Any modification will invalidate the signature" (`certificate-gen.sh:373`) | the data is rewritten after it is signed; no delivered file is the one signed |

Two more such sentences are false and have no run of their own; `ReportIsTrue`
excepts the first and `verify_overwrite` has the second:

- "Status: All sectors overwritten" (`hdd-overwrite.sh:272`): `dd ... | tee` at `:253`
  yields the status of `tee`, so a `dd` that stopped at a bad sector counts as completed.
- "Check if the sector contains all zeros" (`hdd-overwrite.sh:336`): `grep -qv` matches
  the `*` and offset lines that `hexdump` prints, so a drive of zeros fails.

### Bounds

- `hash_pipeline`: 3 workers, 4 chunks. Four chunks take the three buffers once
  round and reuse the first; three workers allow one fast, one slow and one gone.
  Deadlock is not checked here alone: the threads end.
- `hdd_overwrite`: two drives of 4 sectors, each with or without an HPA; `HDD_MARGIN`
  (500 in the code) is 1, so an accessible size above, at and below twice the
  margin occurs. Two drives let the globals of one reach the other; calls are
  not bounded.
- `crypto_erase`: one device of each kind, calls unbounded.
- `external_storage`: devices of 3 and 2 sectors around a margin of 1, at most two
  disturbances (`TROUBLES`): out and back in, or out and exchanged.
- `verification`: devices above, at and below twice the margin. 51 samples at the basic
  level: one failure is below 2% of them and passes, two are above and fail. The two
  sectors that are sampled of the largest device hold 0x55 and old data in one of its
  contents, so that both counts occur, and the device may stop answering between them.
- `wipe_session`: two disks and an SSD. `KEYS` = 7 recycles key identities: no
  more than that many are referred to at once, which an assumption states.
- `write_drive`: a drive of 5 sectors of 2 bytes, blocks of 2 sectors, eleven jobs, one of them
  checked first:
  images shorter, longer, ending in mid-sector, shrunk or grown since the scan,
  and larger than the drive. `WRITE_RETRIES` is 3 (4 in the code, `rufus.h:98`), which
  has a first, a middle and a last retry; `THROTTLE` is 1. The
  check tests 5 blocks two at a time, so that the last transfer is a short one and a
  recovery may begin and end in mid-transfer, be cut off by the end of the drive, or
  last into the next phase; 3 bad blocks give it up. Eleven drives: every kind of
  block alone, mixtures, enough bad ones to give up, and wrapped ones. One failure that
  does not last (`MaxCuts`), two checks (`MaxChecks`: the user may retry once). A
  pattern type has two passes, with patterns of one byte or of one and three.
- `process_search`: three processes and a table of two slots, so that it is full; two
  threads, two settings of at most three passes each, one failure. Two of each are
  what a stale thread, lock or name needs to meet a new one; three passes let an entry
  grow stale. `PassRange` stands for 2^32: the passes never reach it, and it matters
  only for `nPass - 1`, which wraps at 0.
- `wim_update`: two compressor threads, one or two messages of one or two chunks, so
  that both queues run empty and the messages run out; contents of one to five bytes in
  chunks of three, read two at a time; seven jobs with duplicates, replaced and no new
  files, solid and plain, compressed and not, with an integrity table whose chunks are
  reused, and with the parts of the file in an order that forbids appending. Any
  call may fail, at any point.
- `main_dialog`: two drives, two operations, one outside event (a drive plugged or
  unplugged, an image selected or downloaded, a download in the background); the
  downloads of the checks are not bounded. The invariants are proved for any number of
  each. After an image scan has given back the controls in the middle of an operation
  (`op.mixed`, see below) one request is followed at a time.

### Fairness

- `HashPipeline`: `HashThreadReturns` assumes only that the reader runs and that
  its waits with a timeout end, which `WaitForSingleObject` and
  `WaitForMultipleObjects` do. `NoWakeUpLost` is stated for an execution without
  failures; it assumes in addition that every worker runs and the disk answers,
  and never relies on a timeout.
- `WriteDrive`: the thread runs; every wait in it has a timeout and every retry a
  count.
- `ProcessSearch`: both threads run; a call that has the lock goes on to release it.
  Nobody has to select a drive or to ask, and a call of the system may hang.
- `WimOverwrite`: `Returns` assumes that the calling thread and every worker run. A
  worker that waits for a condition variable is woken when it is signalled or
  broadcast, by nothing else.
- `MainDialog`: threads run, posted messages are dispatched, and the user answers
  every box in the end. Strong fairness is asked of one answer alone: whoever is
  asked about bad blocks again and again chooses something other than another
  check some day. No fairness is put on pressing Start, Cancel, or on a drive
  being plugged in.
- The engines in bash have no liveness property: they are loops over finite lists
  and wait for an operator.

## The proofs

Besides the assumptions named, each module uses the ASSUMEs that give its constants
their types; TLC evaluates all of them on the runs. A leaf that is pure logic and sets
names `Zenon`; the others, arithmetic mostly, are left to SMT. Every module is proved from
nothing in less than twenty minutes.

`Threads_proofs` has the two protocols of helper threads, of `hash.c` and `process.c`. It
extends both modules, so what they have in common carries a prefix (`HashSpec`,
`SearchSpec`, `HashTypeOK`, `SearchTypeOK`, ...).

*Image digests* (for every number of workers, of chunks, every set of
faults; from `NumHashes \in Nat \ {0}`, `NumChunks \in Nat`). `RaceFree`,
`DigestsCorrect`, `ShownCorrect`, `ProcBufnumDiscipline`, `HashTypeCorrect` all follow
from `Invariance : HashSpec => []HashIInv`. The properties are not inductive: that no
worker hashes the buffer being filled depends on which workers have been signalled
but not yet woken, where the reader stands between its two waits, and that the
buffers go round in threes. `HashIInv` adds these: `EventInv` (an event is set only
when its owner waits for it or has gone), `BufferInv` (where the reader's and the
workers' buffers stand relative to each other at each control point), `DataInv`
(which chunk a buffer holds), `ProgressInv` (how much each worker has hashed
against how much it has been told to) and `ResultInv` (what an exit code says of a
digest). The step lemma has one case per action.

*Search for conflicting processes* (for any number of processes, slots, threads, settings and
failures). `ReportsAreFresh : SearchSpec => FreshReport`. The report is guarded by
`nPass >= 1`, but `nPass` is raised without the lock, by a thread that may still be
working on the names of the drive before. `SearchIInv` says why that does no harm.
`NamesOfLastSet`: the thread's version is never ahead. `CopyIsCurrent`: while the
versions differ nothing is reported, and once they agree the thread's own copy is of
the names that were set last. `CutShortByStop`: a pass that stops half way, and still
raises `nPass`, is one that a caller is stopping, who then lets go of the thread.
`CountsArePasses`: so wherever a report can be asked for, `nPass >= 1` with equal
versions stands for a whole pass over those names. `SearchTypeCorrect` adds three layers:
`Owners` (who has the mutexes), `Bounds` and `Table` (each process once).
`ReportsAreRight : SearchSpec => ReportIsRight` adds `Record`: what a pass stored is in the
table until the end of the next one, but for the first pass, which drops what it stored
before; and once the first pass has stored a process, none of an earlier drive is left.

`Engines_proofs` has the five engines in bash. It extends all their modules, so what
they have in common carries the name of its engine (`HddTypeOK`, `CryptoInit`,
`ext_call`, `vf_device`, ...).

*Hard disk overwrite* (for any drives, native size, margin, samples, faults).
`HpaComesBack`, `SuccessIsTrue` and `HddTypeCorrect` follow from `HddInvariance`. A
drive may show more than it did in the middle of a call, so `HpaRestored` is
strengthened by `HpaKept` (while the size is owed, the exported
`ORIGINAL_HPA_SIZE` is this drive's, at all other times the drive is as it was),
`NeverLess` (a drive never shows less than it did, and all of it while the HPA is
off) and `SamplesCounted`. The argument is that `detect_and_handle_hpa` overwrites
both globals before anything reads them, so what an earlier call left is harmless.

*Verification* (for any devices, sizes, contents, numbers of samples and faults; from
devices of at least one sector, and 2000 sectors being enough for the percentages of
the scan not to be of nothing, which the code's numbers are). `VerdictsAreFounded`,
`SamplesAreTheDevices` and `VerifyTypeCorrect`. `Founded` follows the counters: a sample
that refutes the wipe never matches (`RefutedFails`, from what `hexdump` prints of each
kind of sector, `HexdumpShows`), so the refuting samples are at most the failed ones; the
test passes with an integer quotient of at most 1, which is less than 2%, and the tests
after it keep its verdict. Past its first sample no remainder by zero can follow.

*Cryptographic erase* (for any devices, failures and interruptions; from `"none" \notin
CryptoDevices`). `PasswordsAreHandled` and `VerdictsAreTrue` follow from `CryptoInvariance`. A
temporary password is on a drive in the middle of a call and for ever after a failed
removal, so the invariant says where it may be: on the drive that the call is erasing,
at the steps between setting and removing it, or on one known to be stuck. It also says
that the exported detection is that of the device planned last, and what each step of a
call has found out. `VerdictsAreTrue` includes the refinement: `Init` implies the
contract's, and each action is one of its steps or a stutter.

*Session and certificates* (for any devices, faults and interruptions; from the same
of its devices and `KEYS >= 7`, which leaves a number for a new key). `ChainsHold`: `KeyInv`
follows a call through `certificate-gen.sh` and says of each control point which keys
and certificates are there and fit each other, left over ones included.
`CertificatesAreTheDevices`: the exported results are of one device at a time, the
session's, and each engine overwrites its own before the certificate reads them.

*External storage* (for any devices, sizes, contents, samples and faults; from
`"none" \notin ExtDevices`). `GoodWipesPass` and `EnginesReportOnlyErased`, the refinement,
follow from `ExtInvariance`. While a call is undisturbed, the port has the call's
device, an open descriptor refers to it, and the sectors before the position hold what
the pass writes; the last pass of each level writes what `grep` looks for, and a
sample is inside the device.

`BadBlocks_proofs` (for any drive and block size, number of blocks at once, threshold,
patterns, number of failures that do not last and of checks): every step of `test_rw`
keeps `CInv`, from which `WriteDrive_proofs` has `ChecksAreRight`. `CheckIsRight` speaks
of the end alone; `CInv` says what is known on the way. `InPlace`: the block tested, the size of the next transfer
and the block up to which the recovery goes fit each other, at the end of the drive and
across phases. `Found`: while the list is empty the blocks passed in this phase are not
bad, and a drive that wraps has lost the number of its first block. `Listed`: a block that
failed when its turn came is in the list; good blocks hold what they will be compared
with, as all transfers are whole ones or the pattern looks the same from wherever in
the buffer it is written. `Verdict`: what a clean check showed stays true when the user
has it repeated or goes on.

`WriteDriveSteps_proofs` and `WriteDrive_proofs` (for any job, drive size, sector size, buffer size, number of retries;
from sizes that are whole sectors and below `U64`, which stands for 2^64).
`BehindStaysDone`, `TrueIsWhole` and `TypeCorrect` follow from `Invariance : Spec => []WInv`,
and `WInv` has `CInv` for the check before the write. `Base`: the pointer of the drive is
where the counters say, after each retry too. `Prep`: what is in the buffers; the read
ahead is made into the buffer that is not being written, of what follows in the image,
and stops at the target, the unsigned difference that wraps included; `sector_write`
keeps the last bytes it was given, in order. `Final`: on a sound drive what is behind
the counter is final and what is after the image is old. `Whole`: what a return says.
`sector_write` is proved for chunks that begin and end anywhere in a sector.
`WriteDriveSteps_proofs` has what each step does and keeps; `WriteDrive_proofs` puts the
steps together, with those of the check.

`MainDialog_proofs` (for any drives, any number of operations and events, with no
assumption). `OneAtATime` and `FormatsTheConfirmed` are not inductive, since they except
operations mixed with an image scan. `IInv` has what holds for all: `Exclusive`, an
operation is in one place at most (being checked, at work, a posted message, or waiting
for its confirmation), and `ThreadHandle`, whose `format_thread` is. Given these,
`Controls` says when the controls are off, so that the selection stays what it was
while the confirmation is open, and `Faithful` what was asked for and confirmed.
`SuccessIsDone : Spec => []SuccessMeansDone` needs more: every thread sets the one
`ErrorStatus`, and many steps reset it. `SInv` says what it holds wherever the operation is.
`Reported`: a report, and its box, belong to an operation that is over, so closing the
box resets nothing of the next. `StatusKept`: a cancellation stays in the status until it is
reported or reset by one of the three in `op.lost` (a download of the checks, one in
the background, a failed `DeletePartition`), and a failure of the thread until it is
reported or reset by a download in the background: by then the checks are over, and a
thread that failed takes no further step.

`ChunkCompressor_proofs` and `WimOverwrite_proofs` (for any number of workers, messages
and chunks per message, any jobs and contents, whatever fails; from contents that have a
size and jobs made of contents). `CompressorKeepsOrder : Spec => ChunksInOrder` is the
refinement of `ChunkFifo` by the parallel and the serial compressor, with the one owner
of a message and `prepare_chunk_buffer`'s assertion. A submitted message is full unless it is the last, so a
division tells where the k-th pending chunk is, in which message and at which index
(`pendingChunks`), and no induction over the queue is needed. `CInv` is the invariant
that makes this so. `Owned`: to the owner a message is available, being filled or
submitted, one of them and once. `Stages`: one that was submitted and not received is in
the first queue, with one worker, or in the second. `Full`: all submitted messages but
the last are full. `Results`: past the worker a compressed chunk is that of its own data,
and the next result belongs to the first message. `ChunkCompressor_proofs` shows that
each operation of `compress_parallel.c` and `compress_serial.c`, and each step of a worker,
keeps `CInv` and is a step of the abstract queue or a stutter. Some of that has
preconditions: a part-filled message is submitted only at the end, a buffer is filled
only after it was asked for. `WimOverwrite_proofs` adds `Control`, what `write.c` has in
hand at each of its steps, which makes them true. `CompressorIndices` is a corollary: the
arrays of a message are indexed within their bounds.

Only model-checked: liveness, which with `ENABLED` is out of the prover's reach; and of
`WimOverwrite` the properties of the file, `TypeOK`, `CrashSafe` and `SuccessMeansNew`.
What a WIM file holds, and where, are sums and concatenations over all its resources and
chunks (`SumTo`, `Concatenated`, `ChunkTable`), the place of a resource in the header is
one of them, and what is read back is an equation between such folds, which takes
induction over data.

## What is assumed of the outside

- `hdparm -I` and `-N` print what the scripts' patterns expect, or fail.
- `nvme format -s 0` stands for the cryptographic erase the script takes it for.
- A drive with an owner's password may or may not accept an erase with an empty
  one; setting a password on it replaces it.
- `openssl x509` refuses a CA certificate that does not fit its key; a failed
  `genrsa` may leave an empty file.
- What the entropy test computes is one of low, moderate and high, and goes with
  what the samples hold.
- A failed write may have written any prefix of the block, and a failed one of wimlib any
  prefix of what it was given; its header (212 bytes in one `pwrite`) is written whole or not at all, and
  writes reach the medium in order, which wimlib's own comment assumes too.
- A blob has the contents its hash names; what a compressor makes of a chunk is
  smaller or not, and can be expanded again.
- A faulty block is faulty all the time, but for `MaxCuts` transfers; a drive smaller
  than it claims wraps.

## What the properties except

Where the code does less than one would like, the property names the case instead of
leaving it out of the model. Comments speak of two of them, `format.c:1385` and
`process.c:539`:

- `hash.c:2104`: the final wait takes a worker that timed out for one that
  finished, so an earlier image's digest is shown (`ShownDigestsAreTheImages`).
- `hdd-overwrite.sh:331`: a remainder by zero on a drive of exactly 1000 sectors
  abandons the call before the HPA is restored (`HpaRestored`).
- `crypto-erase.sh:290`: a device erased without a plan of its own is judged by
  the exported `DETECTED_IS_NVME` of another (`VerdictIsTrue`).
- `external-storage.sh:309`: the name is resolved by each pass, so a device put in
  the port meanwhile is overwritten (`ReportsOnlyErased` speaks of undisturbed calls).
- `verification.sh:93`, `:99`, `:143`: an unread sector counts as random data; a
  drive of zeros never passes; the 1% tolerance is compared after an integer
  division (`VerdictIsFounded`: less than 2%; an unread sector refutes 0x55 but not
  random data; for zeros it says that there is no pass).
- `certificate-gen.sh:206`, `:276`, `:398`: a device that is no hard disk shows an
  earlier disk's HPA; a failed `jq` leaves empty data; a failed PDF leaves the old
  one (`CertificateIsTheDevices`).
- `format.c:1385-1391`: for an image of no whole number of sectors an unsigned
  difference wraps and more is asked for than is left of the target, though the comment
  has the size adjusted "not to ever overflow" (`TypeOK` bounds what is asked for);
  `format.c:1229` and others leave by a
  bare `goto out` (`TrueMeansWhole`); the last partial sector of a compressed
  image is written unchecked, and a cancelled one returns TRUE (`TrueMeansWhole`);
  a failed rewind only warns (`t.rewound`).
- `rufus.c:2782`: a request turned down by validation or build leaves `zero_drive`
  set (`FormatsAsConfirmed`). `SuccessMeansDone` excepts three resets of `ErrorStatus`:
  `format.c:1537`, a failed `DeletePartition`, and `net.c:185`, a download that begins
  after a cancellation while `BootCheckThread` fetches what the image needs
  (`CheckDownload`), or by a background thread at any time, which may lose a
  failure too (`BackgroundDownload`). `format.c:1614`: no
  status when the bad-block log cannot be created (`SuccessMeansDone`, `TrueMeansWhole`).
- `badblocks.c:458`: the three-byte patterns of the last pattern type (`rufus.h:110`) do
  not divide a block of 512 KB, and after a failed transfer blocks are written one at
  a time from the front of the buffer but may be compared at another place of it, so
  good blocks are listed as corrupted. `badblocks.c:538`: the blocks a short read did get are passed
  over uncompared, so a corrupted block just before an unreadable one is not
  reported; a block for which the list cannot grow is not counted (both `bb.lost`
  in `CheckIsRight`). What is left of the drive after the last whole block is not checked.
- `process.c:539`: `nPass - 1` wraps in the first pass, so storing a process drops those
  stored before it in that pass, though the comment above speaks of "a few passes";
  `ReportIsRight` therefore asks for two passes. Entries of an earlier drive stay
  until a process is stored for the new one. A find is dropped when the table is full
  or the lock is not had in time. After `TerminateThread` the old `hLock` is still there
  for the next start to find (`SearchIsDone` excepts it). A call that sets names while
  the thread exits fails by releasing no mutex, and the search is stopped. A drive none
  of whose names is known leaves `nHandles` 0 and every report times out.
- `rufus.c:3127`: `WM_DROPFILES` looks at `format_thread` alone, so an image dropped
  during the checks is scanned and the scan's end enables the controls
  (`op.mixed`, excepted by the dialog's invariants).
- `rufus.c:3274`, `:2925`: a hotplug event put off by a start that is then aborted,
  or arriving during a hash, is not made up for; the list is stale until the next.

## Not modelled

Reasons are in `PROJECT.json`. In short: parsers, tables and layout have no state
to interleave; downloads, boot loaders and ISO extraction are sequences of I/O whose
failures end in the `ErrorStatus` that `FormatThread` already has; compression,
digests and file systems are vendored or pure computation over large data;
`securewipe-launcher` does not reach the engines. Of the session, the order of the
engines is taken from their documentation. Of `FormatThread`, the contents of each
step other than the bad blocks check and `WriteDrive`, which have their own run, are
abstracted to success, failure and tolerated failure; of `rufus.c`, the handlers that
change neither the device list, an operation nor its status are left out. Of
`process.c`, `GetProcessSearchAlt` and the wrappers of NT calls, which share no state.

Of wimlib only what `wue.c:1081-1082` reaches is modelled: `wimlib_overwrite` with
`RECOMPRESS` after an update. Recompression means no blob is copied raw; `flock` does
not exist on Windows; compaction, pipable images, split images, extraction and
capture are not reached. Whether a blob is read from a larger solid
resource (`write.c:837-840`) is not in the model: `RewriteBlob` may leave any resource as
it is. The compressors' arithmetic is out of scope.

About three quarters of the repository's two hundred thousand lines are vendored
libraries, localization, tables and copies of the engines, most of the rest is
sequential calls of the system; the models cover the concurrent and stateful parts,
a few thousand lines.

## Plan

1. `drive.c` `CreatePartition`: offsets and sizes of the partitions with their
   alignment; FAT32 geometry and the hash table as operators checked against
   reference definitions.
2. `WriteDrive` as the step `FormatThread` takes in `MainDialog`: one composed run
   instead of the two-valued step.
3. Proofs: that a resource which was written is read back, by hand-made steps of its folds,
   as the first part of `CrashSafe`.
