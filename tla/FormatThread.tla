---------------------------- MODULE FormatThread ----------------------------
(***************************************************************************)
(* format.c, FormatThread: the steps of a format, in the order the thread  *)
(* takes them, what each does to the shared ErrorStatus when it fails, and *)
(* where the thread looks for a cancellation.  MainDialog runs it beside   *)
(* the user interface, which may set ErrorStatus between any two steps.    *)
(***************************************************************************)
EXTENDS Naturals, Sequences

CONSTANTS Devices,   \* physical drives
          None       \* no device

VARIABLES ErrorStatus,  \* "ok", "cancelled" or "error"; shared by all threads
          thread        \* the running FormatThread: its plan, next step, the drive
                        \* it was given and, once it left, why

IS_ERROR == ErrorStatus # "ok"

\* A step, which may also have nothing to do, and what its failure does: "set"
\* an error and leave, "keep" the status if there is one already and leave,
\* leave "bare" without a status, "clear" the status and go on, "go" on with
\* an error, "ignore", "ask" the user.
\* "check" is CHECK_FOR_USER_CANCEL, "maybe" one that an ESP or an ext
\* partition, which is mounted already, skips; "write" is WriteDrive, after which the
\* thread always leaves.
Step(op, kind) == [op |-> op, kind |-> kind]
Check == Step("cancelled?", "check")
MaybeCheck == Step("cancelled?", "maybe")

OpenSteps ==
    <<Step("GetPhysicalHandle", "set"), Step("GetDriveLetters", "set"),
      Step("RemoveDriveLetters", "set"), Step("DeletePartition", "clear"),
      Step("GetPhysicalHandle", "set"), Step("GetLogicalHandle", "set"), Check>>

ClearSteps == <<Step("ClearMBRGPT", "set")>>

\* Bad blocks make the user choose: go on, abort or check again.
BadBlockSteps ==
    <<Step("fopenU", "bare"), Step("BadBlocks", "keep"), Step("Notification", "ask"),
      Step("ClearMBRGPT", "keep")>>

ImageSteps == <<Step("WriteDrive", "write")>>
FfuSteps == <<Step("has_ffu_support", "bare"), Step("dism", "keep")>>

PartitionSteps ==
    <<Check, Step("CreatePartition", "set"), Step("CloseHandle", "set"),
      Step("AltMountVolume", "set"), Step("WaitForLogical", "keep"), Check,
      Step("FormatPartition_casper", "keep")>>

FormatSteps ==
    <<Step("FormatPartition", "keep"), Step("GetPhysicalHandle", "set"), Step("WriteMBR", "keep"),
      MaybeCheck, Step("GetLogicalName", "set"), Step("MountVolume", "set"), MaybeCheck>>

BootSteps ==
    <<Step("InstallSyslinux", "set"), Step("GetLogicalHandle", "set"), Step("WritePBR", "keep"), Check,
      Step("RemountVolume", "set"), Check>>

\* Setting up Win7 EFI, WinPE and unattend are one step.
FileSteps ==
    <<Step("is_windows_img", "bare"), Step("ExtractISO", "keep"), Step("ApplyWindowsCustomization", "go"),
      Step("RemountVolume", "go"), Step("ExtractZip", "ignore")>>

\* The way through FormatThread for each kind of job.  Zeroing leaves before
\* the check for bad blocks, which has nothing to do unless it was ticked.
Jobs == {"zero", "image", "ffu", "format"}
Plan == [job \in Jobs |->
    OpenSteps \o (CASE job = "zero" -> ImageSteps
                   [] job = "image" -> BadBlockSteps \o ImageSteps
                   [] job = "ffu" -> BadBlockSteps \o FfuSteps
                   [] job = "format" -> ClearSteps \o BadBlockSteps \o PartitionSteps
                                           \o FormatSteps \o BootSteps \o FileSteps)]

NoThread == [job |-> "none", k |-> 0, device |-> None, out |-> "-", need_logical |-> FALSE]
FormatThread(job, d) == [NoThread EXCEPT !.job = job, !.k = 1, !.device = d]

Running == thread.job \in Jobs /\ thread.out = "-"
step == Plan[thread.job][thread.k]
GotoOut(why) == thread' = [thread EXCEPT !.out = why]
StepDone == thread' = IF thread.k < Len(Plan[thread.job]) THEN [thread EXCEPT !.k = @ + 1]
                      ELSE [thread EXCEPT !.out = "end"]

\* Mutant: going on after bad blocks checks for them again.
StepSucceeds_again ==
    /\ Running /\ step.kind \notin {"check", "write"} /\ UNCHANGED ErrorStatus
    /\ IF step.kind = "ask" THEN thread' = [thread EXCEPT !.k = @ - 2] ELSE StepDone

\* The next step succeeds.
StepSucceeds ==
    /\ Running /\ step.kind \notin {"check", "write"}
    /\ StepDone /\ UNCHANGED ErrorStatus

CheckForCancel ==
    /\ Running /\ step.kind \in {"check", "maybe"}
    /\ IF ErrorStatus = "cancelled" THEN GotoOut("cancel") ELSE StepDone
    /\ UNCHANGED ErrorStatus

\* The volume is opened for an image, or when its partitions are still there.
MayFail == step.op = "GetLogicalHandle" /\ thread.k <= Len(OpenSteps) =>
               thread.need_logical \/ thread.job \in {"image", "ffu"}

\* Mutant: a failure that would keep a status leaves none either.
StepFails_nostatus ==
    /\ Running /\ step.kind \in {"set", "keep", "bare"} /\ MayFail
    /\ GotoOut(IF step.kind = "bare" THEN "bare" ELSE "fail")
    /\ ErrorStatus' = IF step.kind = "set" THEN "error" ELSE ErrorStatus

\* It fails, and the thread leaves.
StepFails ==
    /\ Running /\ step.kind \in {"set", "keep", "bare"} /\ MayFail
    /\ GotoOut(IF step.kind = "bare" THEN "bare" ELSE "fail")
    /\ ErrorStatus' = IF step.kind = "set" \/ (step.kind = "keep" /\ ~IS_ERROR) THEN "error" ELSE ErrorStatus

\* Bad blocks: the user aborts, or has them checked again.
BadBlocksFound ==
    /\ Running /\ step.kind = "ask"
    /\ \/ GotoOut("cancel") /\ ErrorStatus' = "cancelled"
       \/ thread' = [thread EXCEPT !.k = @ - 2] /\ UNCHANGED ErrorStatus

\* It fails, and the thread goes on.
StepTolerated ==
    /\ Running /\ step.kind \in {"go", "ignore"}
    /\ ErrorStatus' = IF step.kind = "go" THEN "error" ELSE ErrorStatus
    /\ StepDone

\* The partitions cannot be deleted, which resets the status, whatever it
\* was.
DeletePartitionFails ==
    /\ Running /\ step.kind = "clear"
    /\ ErrorStatus' = "ok"
    /\ thread' = [thread EXCEPT !.k = @ + 1, !.need_logical = TRUE]

\* WriteDrive, whose return value nobody reads: what it may leave in
\* ErrorStatus, and whether it leaves early without a status.
WriteDrive ==
    /\ Running /\ step.kind = "write"
    /\ \/ GotoOut("end") /\ UNCHANGED ErrorStatus
       \/ GotoOut("fail") /\ ErrorStatus' = "error"
       \/ GotoOut("silent") /\ ~IS_ERROR /\ UNCHANGED ErrorStatus
       \/ GotoOut("cancel") /\ ErrorStatus = "cancelled" /\ UNCHANGED ErrorStatus

ThreadStep == \/ StepSucceeds \/ CheckForCancel \/ StepFails \/ BadBlocksFound
              \/ StepTolerated \/ DeletePartitionFails \/ WriteDrive
=============================================================================
