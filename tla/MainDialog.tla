----------------------------- MODULE MainDialog -----------------------------
(***************************************************************************)
(* rufus.c, MainCallback and the threads it starts: the life of an         *)
(* operation from the Start button (or Alt-Z) through the checks, the      *)
(* confirmation and the thread to the report, beside hotplug events,       *)
(* cancellations, image scans and the downloads of net.c, which write the  *)
(* same ErrorStatus.  The user interface is one thread whose modal boxes   *)
(* run a message loop of their own, so that posted messages are still      *)
(* handled while a box is open.                                            *)
(***************************************************************************)
EXTENDS FormatThread

CONSTANTS OPERATIONS,   \* bounds: operations asked for;
          EVENTS        \* hotplug events, image selections, background downloads

VARIABLES op_in_progress, format_thread, zero_drive, queued_hotplug_event,
          no_confirmation_on_cancel,
          IDCANCEL,     \* the Cancel button is enabled
          sel,          \* selection of hDeviceList, and DeviceNum, which follows it
          listed,       \* contents of hDeviceList
          plugged, arrival,          \* the drives there are; a WM_DEVICECHANGE is queued
          msgs,         \* posted messages
          boxes,        \* open modal boxes, the innermost last
          boot, scan,   \* BootCheckThread; ImageScanThread or DownloadISOThread
          other,        \* a HashThread or OpticalDiscSaveImageThread
          shown,        \* the last report
          op,           \* history of the operation
          used          \* how much of the bounds is used up

flags == <<op_in_progress, format_thread, zero_drive, no_confirmation_on_cancel, IDCANCEL>>
list == <<sel, listed, queued_hotplug_event>>
world == <<plugged, arrival>>
workers == <<thread, boot, scan, other>>
history == <<shown, op, used>>
vars == <<ErrorStatus, workers, flags, list, world, msgs, boxes, history>>

NULL == "NULL"
Message(msg, wParam) == [msg |-> msg, wParam |-> wParam]
IDC_START == Message("IDC_START", "-")
UM_FORMAT_START(ret) == Message("UM_FORMAT_START", ret)
UM_FORMAT_COMPLETED(w) == Message("UM_FORMAT_COMPLETED", w)
Messages == {IDC_START} \cup {UM_FORMAT_START(r) : r \in {"PROCEED", "CANCEL", "DOWNLOAD_ERROR"}}
               \cup {UM_FORMAT_COMPLETED(w) : w \in {"TRUE", "FALSE"}}
PostMessage(m) == msgs' = Append(msgs, m)
Dispatched(m) == msgs # <<>> /\ Head(msgs) = m

Range(s) == {s[i] : i \in DOMAIN s}
Top == IF boxes = <<>> THEN "none" ELSE boxes[Len(boxes)]
Pop == boxes' = SubSeq(boxes, 1, Len(boxes) - 1)
\* Posted messages are retrieved before input, and an open box takes the input.
Input == boxes = <<>> /\ msgs = <<>>

First(devices) == IF devices = {} THEN None ELSE CHOOSE d \in devices : TRUE

NewOp == [asked |-> "none", confirmed |-> None, cancelled |-> FALSE, mixed |-> FALSE,
          leftover |-> FALSE, out |-> "-", lost |-> {}]

Init ==
    /\ ErrorStatus = "ok" /\ thread = NoThread /\ boot = FALSE /\ scan = "no" /\ other = "no"
    /\ op_in_progress = FALSE /\ format_thread = NULL /\ zero_drive = FALSE
    /\ no_confirmation_on_cancel = FALSE /\ IDCANCEL = TRUE
    /\ plugged \in SUBSET Devices /\ listed = plugged /\ arrival = FALSE
    /\ sel = First(listed)
    /\ queued_hotplug_event = FALSE /\ msgs = <<>> /\ boxes = <<>>
    /\ shown = "none" /\ op = NewOp /\ used = [operations |-> 0, events |-> 0]

\* Something is under way that ends with UM_FORMAT_COMPLETED or an aborted start.
Working == other # "no" \/ thread.job \in Jobs
Active == boot \/ Working \/ msgs # <<>> \/ "confirm" \in Range(boxes)

EnableControls(b) == op_in_progress' = ~b

\* History: who resets the status after the latest cancellation; a background
\* download, after anything.
Noting(who) ==
    op' = [op EXCEPT !.lost = IF IS_ERROR /\ ErrorStatus' = "ok" /\ (op.cancelled \/ who = "background")
                              THEN @ \cup {who} ELSE @]

\* Mutant: a device that has gone stays selected.
GetDevices_keep(d) ==
    /\ listed' = plugged
    /\ sel' = IF d # None THEN d ELSE First(plugged)

\* dev.c: list what is there; keep device d selected, or take the first.
GetDevices(d) ==
    /\ listed' = plugged
    /\ sel' = IF d \in plugged THEN d ELSE First(plugged)

(***************************************************************************)
(* The device list                                                         *)
(***************************************************************************)
\* Environment: a drive is put in or taken out.
Hotplug(d) ==
    /\ used.events < EVENTS /\ used' = [used EXCEPT !.events = @ + 1]
    /\ plugged' = IF d \in plugged THEN plugged \ {d} ELSE plugged \cup {d}
    /\ arrival' = TRUE
    /\ UNCHANGED <<ErrorStatus, workers, flags, list, msgs, boxes, shown, op>>

\* Mutant: the list is refreshed while an operation is being checked.
UM_MEDIA_CHANGE_always ==
    IF format_thread # NULL THEN UNCHANGED <<list, op_in_progress>>
    ELSE GetDevices(sel) /\ queued_hotplug_event' = FALSE /\ UNCHANGED op_in_progress

\* Ignored while a thread runs, put off while op_in_progress
UM_MEDIA_CHANGE ==
    IF format_thread # NULL THEN UNCHANGED <<list, op_in_progress>>
    ELSE IF op_in_progress
    THEN queued_hotplug_event' = TRUE /\ UNCHANGED <<sel, listed, op_in_progress>>
    ELSE GetDevices(sel) /\ queued_hotplug_event' = FALSE /\ EnableControls(TRUE)

WM_DEVICECHANGE ==
    /\ arrival /\ arrival' = FALSE /\ Top # "closed"
    /\ UM_MEDIA_CHANGE
    /\ UNCHANGED <<ErrorStatus, workers, format_thread, zero_drive, no_confirmation_on_cancel,
                   IDCANCEL, plugged, msgs, boxes, history>>

\* IDC_DEVICE: the user selects another drive.
IDC_DEVICE(d) ==
    /\ Input /\ ~op_in_progress /\ d \in listed /\ sel' = d
    /\ UNCHANGED <<ErrorStatus, workers, flags, listed, queued_hotplug_event, world, msgs, boxes,
                   history>>

\* IDC_SAVE, the Refresh button; IDC_LIST_USB_HDD, for d = None
Refresh(d) ==
    /\ Input /\ ~op_in_progress /\ GetDevices(d) /\ EnableControls(TRUE)
    /\ UNCHANGED <<ErrorStatus, workers, format_thread, zero_drive, no_confirmation_on_cancel,
                   IDCANCEL, queued_hotplug_event, world, msgs, boxes, history>>

(***************************************************************************)
(* Asking for an operation                                                 *)
(***************************************************************************)
\* A new operation, as the history has it.  Bound: after an image scan has
\* enabled the controls in the middle of an operation, the user does not ask
\* for a second one before the first is over.
Request(asked) ==
    /\ Input /\ ~op_in_progress /\ ~Active
    /\ used.operations < OPERATIONS /\ used' = [used EXCEPT !.operations = @ + 1]
    /\ op' = [NewOp EXCEPT !.asked = asked, !.leftover = op.leftover, !.mixed = scan # "no"]
    /\ shown' = "none"

\* Mutant: the controls stay enabled during the checks.
StartChecks_enabled(rest) ==
    /\ ErrorStatus' = "ok" /\ no_confirmation_on_cancel' = FALSE /\ boot' = TRUE
    /\ msgs' = rest /\ UNCHANGED <<op_in_progress, boxes>>

\* The rest of the IDC_START handler: the controls go and BootCheckThread starts.
StartChecks(rest) ==
    /\ EnableControls(FALSE) /\ no_confirmation_on_cancel' = FALSE
    /\ \/ ErrorStatus' = "ok" /\ boot' = TRUE /\ msgs' = rest
       \/ ErrorStatus' = "error" /\ msgs' = Append(rest, UM_FORMAT_COMPLETED("FALSE")) /\ UNCHANGED boot
    /\ UNCHANGED boxes

\* ValidateSecureWipeOperation refuses, with a box
ValidationFails(rest) ==
    /\ boxes' = Append(boxes, "refused") /\ msgs' = rest
    /\ UNCHANGED <<ErrorStatus, op_in_progress, no_confirmation_on_cancel, boot>>

\* BuildSecureWipeLinux fails
BuildFails(rest) ==
    /\ EnableControls(TRUE) /\ msgs' = rest
    /\ UNCHANGED <<ErrorStatus, no_confirmation_on_cancel, boot, boxes>>

\* The IDC_START handler.  A drive that is not there is refused; one that is
\* may be refused for its size.  Nothing takes back zero_drive then.
OnStart(rest) ==
    /\ format_thread = NULL
    /\ \/ ValidationFails(rest)
       \/ sel # None /\ BuildFails(rest)
       \/ sel # None /\ StartChecks(rest)
    /\ UNCHANGED <<thread, scan, other, format_thread, zero_drive, IDCANCEL, list, world>>

PressStart ==
    /\ sel # None /\ Request("start") /\ OnStart(<<>>)

\* Alt-Z, Ctrl-Alt-Z
ZeroTheDrive ==
    /\ Request("zero") /\ zero_drive' = TRUE /\ PostMessage(IDC_START)
    /\ UNCHANGED <<ErrorStatus, workers, op_in_progress, format_thread, no_confirmation_on_cancel,
                   IDCANCEL, list, world, boxes>>

StartPosted ==
    /\ Dispatched(IDC_START) /\ Top # "closed" /\ OnStart(Tail(msgs))
    /\ op' = [op EXCEPT !.leftover = @ \/ (boot' = boot /\ msgs' = Tail(msgs))]
    /\ UNCHANGED <<shown, used>>

CloseRefusal ==
    /\ Top = "refused" /\ Pop
    /\ UNCHANGED <<ErrorStatus, workers, flags, list, world, msgs, history>>

\* IDC_HASH and OpticalDiscSaveImage: a thread without checks
StartOther(kind) ==
    /\ Request(kind) /\ format_thread = NULL /\ EnableControls(FALSE)
    /\ no_confirmation_on_cancel' = IF kind = "hash" THEN TRUE ELSE no_confirmation_on_cancel
    /\ \/ ErrorStatus' = "ok" /\ other' = kind /\ format_thread' = kind /\ UNCHANGED msgs
       \/ ErrorStatus' = "error" /\ PostMessage(UM_FORMAT_COMPLETED("FALSE")) /\ UNCHANGED <<other, format_thread>>
    /\ UNCHANGED <<thread, boot, scan, zero_drive, IDCANCEL, list, world, boxes>>

(***************************************************************************)
(* Downloads.  Each resets the status when it begins and sets an error if  *)
(* it fails; they are steps of their own, since anything may come between. *)
(***************************************************************************)
\* Of the files BootCheckThread needs.  It may go on without them.
CheckDownload ==
    /\ boot /\ sel # None /\ ~zero_drive
    /\ ErrorStatus' \in {"ok", "error"} /\ Noting("checks")
    /\ UNCHANGED <<workers, flags, list, world, msgs, boxes, shown, used>>

\* By CheckForFidoThread, CheckForUpdatesThread or the box about a new version,
\* which has an Abort button.  None looks at op_in_progress by then.
BackgroundDownload ==
    /\ used.events < EVENTS /\ used' = [used EXCEPT !.events = @ + 1]
    /\ ErrorStatus' \in {"ok", "error", "cancelled"} /\ Noting("background")
    /\ UNCHANGED <<workers, flags, list, world, msgs, boxes, shown>>

(***************************************************************************)
(* The checks and the confirmation                                         *)
(***************************************************************************)
\* Without a device nothing is checked; a drive to be zeroed needs no checks.
BootCheckThread ==
    /\ boot /\ boot' = FALSE
    /\ \E ret \in IF sel = None THEN {"CANCEL"} ELSE IF zero_drive THEN {"PROCEED"}
                  ELSE {"PROCEED", "CANCEL", "DOWNLOAD_ERROR"} : PostMessage(UM_FORMAT_START(ret))
    /\ UNCHANGED <<ErrorStatus, thread, scan, other, flags, list, world, boxes, history>>

\* Mutant: an aborted start leaves zero_drive alone.
AbortedStart_keepzero ==
    /\ UNCHANGED <<zero_drive, op, list>> /\ EnableControls(TRUE)

\* aborted_start with BOOTCHECK_CANCEL.  A hotplug event put off is taken up
\* while op_in_progress is still set, which only puts it off again.
AbortedStart ==
    /\ zero_drive' = FALSE /\ op' = [op EXCEPT !.leftover = FALSE]
    /\ IF queued_hotplug_event /\ ~op_in_progress
       THEN GetDevices(sel) /\ queued_hotplug_event' = FALSE ELSE UNCHANGED list
    /\ EnableControls(TRUE)

CheckAborts ==
    /\ Dispatched(UM_FORMAT_START("CANCEL")) /\ Top # "closed" /\ msgs' = Tail(msgs)
    /\ AbortedStart
    /\ UNCHANGED <<ErrorStatus, workers, format_thread, no_confirmation_on_cancel, IDCANCEL, world,
                   boxes, shown, used>>

\* BOOTCHECK_PROCEED: the boxes, the one that names the drive among them
CheckProceeds ==
    /\ Dispatched(UM_FORMAT_START("PROCEED")) /\ Top # "closed" /\ msgs' = Tail(msgs)
    /\ boxes' = Append(boxes, "confirm") /\ op' = [op EXCEPT !.confirmed = sel]
    /\ UNCHANGED <<ErrorStatus, workers, flags, list, world, shown, used>>

Declined ==
    /\ Top = "confirm" /\ Pop /\ AbortedStart
    /\ UNCHANGED <<ErrorStatus, workers, format_thread, no_confirmation_on_cancel, IDCANCEL, world,
                   msgs, shown, used>>

\* Mutant: the status starts afresh with the thread.
Confirmed_reset ==
    /\ Top = "confirm" /\ Pop /\ ErrorStatus' = "ok"
    /\ \E job \in IF zero_drive THEN {"zero"} ELSE Jobs \ {"zero"} :
          thread' = FormatThread(job, sel) /\ format_thread' = "format"
    /\ UNCHANGED <<boot, scan, other, op_in_progress, zero_drive, no_confirmation_on_cancel, IDCANCEL,
                   list, world, msgs, history>>

\* The drive selected now goes to a new FormatThread.
Confirmed ==
    /\ Top = "confirm" /\ Pop
    /\ \E job \in IF zero_drive THEN {"zero"} ELSE Jobs \ {"zero"} :
          thread' = FormatThread(job, sel) /\ format_thread' = "format"
    /\ UNCHANGED <<ErrorStatus, boot, scan, other, op_in_progress, zero_drive,
                   no_confirmation_on_cancel, IDCANCEL, list, world, msgs, history>>

\* The thread cannot be created: an error is posted and the start is aborted.
ConfirmedNoThread ==
    /\ Top = "confirm" /\ Pop
    /\ ErrorStatus' = "error" /\ PostMessage(UM_FORMAT_COMPLETED("FALSE")) /\ AbortedStart
    /\ UNCHANGED <<workers, format_thread, no_confirmation_on_cancel, IDCANCEL, world, shown, used>>

(***************************************************************************)
(* Cancelling                                                              *)
(***************************************************************************)
Cancelled == /\ ErrorStatus' = "cancelled"
             /\ op' = IF Active THEN [op EXCEPT !.cancelled = TRUE, !.lost = {}] ELSE op

\* IDCANCEL during an operation.  (Otherwise it closes the application.)
PressCancel ==
    /\ Input /\ IDCANCEL
    /\ \/ /\ format_thread # NULL /\ ~no_confirmation_on_cancel
          /\ IDCANCEL' = FALSE /\ boxes' = Append(boxes, "cancel?")
          /\ UNCHANGED <<ErrorStatus, op, no_confirmation_on_cancel>>
       \/ /\ format_thread # NULL /\ no_confirmation_on_cancel
          /\ IDCANCEL' = FALSE /\ Cancelled /\ no_confirmation_on_cancel' = FALSE /\ UNCHANGED boxes
       \/ /\ format_thread = NULL /\ op_in_progress
          /\ Cancelled /\ UNCHANGED <<IDCANCEL, no_confirmation_on_cancel, boxes>>
    /\ UNCHANGED <<workers, op_in_progress, format_thread, zero_drive, list, world, msgs, shown, used>>

\* The answer.  UM_FORMAT_COMPLETED closes the box with either answer, and the
\* operation is over by then.
CancelYes ==
    /\ Top \in {"cancel?", "closed"} /\ Pop
    /\ IF format_thread # NULL THEN Cancelled ELSE UNCHANGED <<ErrorStatus, op>>
    /\ no_confirmation_on_cancel' = FALSE
    /\ UNCHANGED <<workers, op_in_progress, format_thread, zero_drive, IDCANCEL, list, world, msgs,
                   shown, used>>

CancelNo ==
    /\ Top \in {"cancel?", "closed"} /\ Pop
    /\ IDCANCEL' = TRUE /\ no_confirmation_on_cancel' = FALSE
    /\ UNCHANGED <<ErrorStatus, workers, op_in_progress, format_thread, zero_drive, list, world, msgs,
                   history>>

(***************************************************************************)
(* The threads, and the report                                             *)
(***************************************************************************)
FormatThreadStep ==
    /\ ThreadStep /\ Noting("partitions")
    /\ UNCHANGED <<boot, scan, other, flags, list, world, msgs, boxes, shown, used>>

FormatThreadExits ==
    /\ thread.out # "-" /\ thread' = NoThread
    /\ PostMessage(UM_FORMAT_COMPLETED("TRUE"))
    /\ op' = [op EXCEPT !.out = thread.out]
    /\ UNCHANGED <<ErrorStatus, boot, scan, other, flags, list, world, boxes, shown, used>>

\* HashThread or OpticalDiscSaveImageThread ends: done, failed, cancelled, or
\* failed in one of the places that set no status.
OtherExits ==
    /\ other # "no" /\ other' = "no"
    /\ \E out \in {"end", "fail", "cancel", "bare"} :
          /\ out = "cancel" => ErrorStatus = "cancelled"
          /\ ErrorStatus' = IF out = "fail" THEN "error" ELSE ErrorStatus
          /\ op' = [op EXCEPT !.out = out]
    /\ PostMessage(UM_FORMAT_COMPLETED(IF other = "save" THEN "TRUE" ELSE "FALSE"))
    /\ UNCHANGED <<thread, boot, scan, flags, list, world, boxes, shown, used>>

\* UM_FORMAT_COMPLETED.  The status is reset once the report, if it is in a
\* box, is closed.
Report(status, wParam, rest) ==
    LET left == [i \in DOMAIN boxes |-> IF boxes[i] = "cancel?" THEN "closed" ELSE boxes[i]] IN
    /\ zero_drive' = FALSE /\ op' = [op EXCEPT !.leftover = FALSE] /\ format_thread' = NULL
    /\ EnableControls(TRUE) /\ IDCANCEL' = TRUE
    /\ IF wParam = "FALSE" THEN UNCHANGED <<sel, listed>> ELSE GetDevices(sel)
    /\ shown' = status
    /\ boxes' = IF status = "ok" THEN left ELSE Append(left, "report")
    /\ ErrorStatus' = status
    /\ msgs' = rest

FormatCompleted(wParam) ==
    /\ Dispatched(UM_FORMAT_COMPLETED(wParam)) /\ Top # "closed"
    /\ Report(ErrorStatus, wParam, Tail(msgs))
    /\ UNCHANGED <<workers, no_confirmation_on_cancel, queued_hotplug_event, world, used>>

\* UM_FORMAT_START with a failed download, which falls through to the report
CheckFails ==
    /\ Dispatched(UM_FORMAT_START("DOWNLOAD_ERROR")) /\ Top # "closed"
    /\ Report("error", "DOWNLOAD_ERROR", Tail(msgs))
    /\ UNCHANGED <<workers, no_confirmation_on_cancel, world, used>>
    /\ queued_hotplug_event' = (queued_hotplug_event /\ op_in_progress)

CloseReport ==
    /\ Top = "report" /\ Pop /\ ErrorStatus' = "ok"
    /\ UNCHANGED <<workers, flags, list, world, msgs, history>>

(***************************************************************************)
(* Image scans and downloads: IDC_SELECT, from its button or from          *)
(* WM_DROPFILES, which looks at format_thread only, not at op_in_progress  *)
(***************************************************************************)
\* Selected by downloading it: the controls go, unless no thread can be created.
DownloadISO ==
    \/ EnableControls(FALSE) /\ scan' = "download" /\ UNCHANGED ErrorStatus
    \/ EnableControls(TRUE) /\ ErrorStatus' = "error" /\ UNCHANGED scan

IDC_SELECT ==
    /\ Input /\ format_thread = NULL /\ scan = "no"
    /\ used.events < EVENTS /\ used' = [used EXCEPT !.events = @ + 1]
    /\ \/ ErrorStatus' = "ok" /\ scan' = "started" /\ UNCHANGED op_in_progress
       \/ ErrorStatus' = "error" /\ UNCHANGED <<scan, op_in_progress>>
       \/ DownloadISO
    /\ op' = [op EXCEPT !.mixed = @ \/ Active]
    /\ UNCHANGED <<thread, boot, other, format_thread, zero_drive, no_confirmation_on_cancel, IDCANCEL,
                   list, world, msgs, boxes, shown>>

\* DownloadISOThread ends, having reset the status or set one on its way; an
\* image that was downloaded is selected (UM_SELECT_ISO).
DownloadISOEnds ==
    /\ scan = "download" /\ EnableControls(TRUE)
    /\ \/ scan' = "no" /\ ErrorStatus' \in {ErrorStatus, "ok", "error"}
       \/ scan' = "started" /\ ErrorStatus' = "ok"
    /\ UNCHANGED <<thread, boot, other, format_thread, zero_drive, no_confirmation_on_cancel, IDCANCEL,
                   list, world, msgs, boxes, history>>

\* ImageScanThread, which may reset the status (IsCompressedBootableImage) or
\* set one (ExtractISO)
ScanBegins ==
    /\ scan = "started" /\ scan' = "running" /\ EnableControls(FALSE)
    /\ UNCHANGED <<ErrorStatus, thread, boot, other, format_thread, zero_drive,
                   no_confirmation_on_cancel, IDCANCEL, list, world, msgs, boxes, history>>
ScanEnds ==
    /\ scan = "running" /\ scan' = "no" /\ EnableControls(TRUE)
    /\ ErrorStatus' \in {ErrorStatus, "ok", "error"}
    /\ UNCHANGED <<thread, boot, other, format_thread, zero_drive, no_confirmation_on_cancel, IDCANCEL,
                   list, world, msgs, boxes, history>>

(***************************************************************************)
(* The dialog and its threads                                              *)
(***************************************************************************)
Devicelist == \/ WM_DEVICECHANGE
              \/ \E d \in Devices : Hotplug(d) \/ IDC_DEVICE(d)
              \/ \E d \in {sel, None} : Refresh(d)
Asking == PressStart \/ ZeroTheDrive \/ StartPosted \/ \E kind \in {"hash", "save"} : StartOther(kind)
Checking == BootCheckThread \/ CheckAborts \/ CheckProceeds \/ CheckFails
Answering == CloseRefusal \/ Declined \/ Confirmed \/ ConfirmedNoThread \/ CancelYes \/ CancelNo \/ CloseReport
Completing == FormatThreadExits \/ OtherExits \/ \E w \in {"TRUE", "FALSE"} : FormatCompleted(w)
Downloading == CheckDownload \/ BackgroundDownload
Scanning == IDC_SELECT \/ DownloadISOEnds \/ ScanBegins \/ ScanEnds

Next == Devicelist \/ Asking \/ Checking \/ Answering \/ PressCancel \/ FormatThreadStep
           \/ Completing \/ Downloading \/ Scanning

\* Threads run, messages are dispatched, and the user answers every box in the
\* end, that about bad blocks by something else than another check.
BadBlocksAnswered == Running /\ step.kind = "ask" /\ StepSucceeds
                        /\ UNCHANGED <<boot, scan, other, flags, list, world, msgs, boxes, history>>
Fairness == /\ WF_vars(FormatThreadStep) /\ SF_vars(BadBlocksAnswered)
            /\ WF_vars(Completing) /\ WF_vars(Checking) /\ WF_vars(Answering) /\ WF_vars(StartPosted)
            /\ WF_vars(DownloadISOEnds \/ ScanBegins \/ ScanEnds) /\ WF_vars(WM_DEVICECHANGE)
Spec == Init /\ [][Next]_vars /\ Fairness

\* Every variable has its type, and the drive selected is one of those listed.
TypeOK ==
    /\ ErrorStatus \in {"ok", "cancelled", "error"}
    /\ thread.job \in Jobs \cup {"none"} /\ thread.device \in Devices \cup {None}
    /\ {op_in_progress, zero_drive, queued_hotplug_event, no_confirmation_on_cancel, IDCANCEL, arrival, boot}
           \subseteq BOOLEAN
    /\ format_thread \in {NULL, "format", "hash", "save"}
    /\ sel \in listed \cup {None} /\ listed \subseteq Devices /\ plugged \subseteq Devices
    /\ Range(msgs) \subseteq Messages
    /\ Range(boxes) \subseteq {"refused", "confirm", "cancel?", "closed", "report"}
    /\ scan \in {"no", "download", "started", "running"} /\ other \in {"no", "hash", "save"}
    /\ shown \in {"none", "ok", "cancelled", "error"}

\* FormatThread does what was confirmed: it works on the drive the confirmation
\* named, whatever was plugged in or out meanwhile, and zeroes it only when the
\* operation was asked for with Alt-Z, or when the latest Alt-Z was turned down
\* by the validation or the build, after which zero_drive is left set.  (An
\* image scan that gave the controls back while the operation was being checked
\* is the exception.)
FormatsAsConfirmed ==
    thread.job \in Jobs /\ ~op.mixed =>
        /\ thread.device = op.confirmed /\ thread.device # None
        /\ thread.job = "zero" => op.asked = "zero" \/ op.leftover

\* The controls are disabled exactly while one operation, or the scan or the
\* download of an image, is under way, and format_thread is set exactly while its thread runs or has
\* its completion to be handled.
OneOperation ==
    ~op.mixed =>
        /\ boot => ~Working /\ msgs = <<>> /\ "confirm" \notin Range(boxes)
        /\ Working => "confirm" \notin Range(boxes) /\ msgs = <<>> /\ format_thread # NULL
        /\ Len(msgs) <= 1
        /\ boot \/ Working \/ "confirm" \in Range(boxes) => op_in_progress
        /\ op_in_progress => scan \in {"running", "download"} \/ Active
        /\ format_thread # NULL => Active

\* An operation reported as a success has not failed with a status (it may have
\* left by a path that sets none), and the user has not cancelled it; unless the
\* one ErrorStatus they share was reset after that: a failure, by a download in
\* the background; a cancellation, by that, by a later download of the checks,
\* or by FormatThread when it could not delete the partitions.
SuccessMeansDone ==
    shown = "ok" /\ ~op.mixed => /\ op.out \in {"end", "silent", "bare"} \/ "background" \in op.lost
                                 /\ op.cancelled => op.lost # {}

\* The controls always come back.
ControlsReturn == op_in_progress ~> ~op_in_progress
=============================================================================
