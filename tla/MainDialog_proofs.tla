------------------------- MODULE MainDialog_proofs --------------------------
(***************************************************************************)
(* Why no two operations of the dialog meet, why a format works on the     *)
(* drive that was confirmed, and why a success that is reported is one,    *)
(* for any drives, operations and events.                                  *)
(***************************************************************************)
EXTENDS MainDialog, Integers, TLAPS

Boxes == {"refused", "confirm", "cancel?", "closed", "report"}
Asked == {"none", "start", "zero", "hash", "save"}
Outs == {"-", "end", "fail", "cancel", "bare", "silent"}
Confirming == "confirm" \in Range(boxes)
Pending(msg) == \E m \in Messages : msgs = <<m>> /\ m.msg = msg

StatusType == ErrorStatus \in {"ok", "cancelled", "error"} /\ shown \in {"none", "ok", "cancelled", "error"}
Losers == {"checks", "background", "partitions"}
ThreadType == /\ thread \in [job : Jobs \cup {"none"}, k : Int, device : Devices \cup {None}, out : Outs,
                             need_logical : BOOLEAN]
              /\ thread.out # "-" => thread.job \in Jobs
OpType == op \in [asked : Asked, confirmed : Devices \cup {None}, cancelled : BOOLEAN, mixed : BOOLEAN,
                  leftover : BOOLEAN, out : Outs, lost : SUBSET Losers]
FlagType == /\ op_in_progress \in BOOLEAN /\ zero_drive \in BOOLEAN /\ no_confirmation_on_cancel \in BOOLEAN
            /\ IDCANCEL \in BOOLEAN /\ format_thread \in {NULL, "format", "hash", "save"}
WorkerType == /\ boot \in BOOLEAN /\ scan \in {"no", "download", "started", "running"}
              /\ other \in {"no", "hash", "save"}
ListType == /\ queued_hotplug_event \in BOOLEAN /\ arrival \in BOOLEAN
            /\ listed \subseteq Devices /\ plugged \subseteq Devices /\ sel \in listed \cup {None}
BoxType == /\ boxes \in Seq(Boxes)
           /\ \A i, j \in DOMAIN boxes : boxes[i] = "confirm" /\ boxes[j] = "confirm" => i = j
Types == StatusType /\ ThreadType /\ OpType /\ FlagType /\ WorkerType /\ ListType /\ BoxType

\* At any time an operation is in one place at most: it is being checked, works,
\* is a posted message, or waits for its confirmation.  This holds even when an
\* image scan has enabled the controls.
Exclusive ==
    /\ msgs = <<>> \/ \E m \in Messages : msgs = <<m>>
    /\ boot => ~Working /\ msgs = <<>> /\ ~Confirming
    /\ Working => msgs = <<>> /\ ~Confirming
    /\ other = "no" \/ thread.job = "none"
    /\ Confirming => msgs = <<>>

\* format_thread is the operation's that works or has reported its end.
ThreadHandle ==
    /\ Working => format_thread # NULL
    /\ format_thread # NULL => Working \/ Pending("UM_FORMAT_COMPLETED")

\* The controls, unless an image scan meddled with them.
Controls ==
    ~op.mixed =>
        /\ boot \/ Working \/ Confirming \/ Pending("UM_FORMAT_START") => op_in_progress
        /\ Pending("IDC_START") => ~op_in_progress
        /\ Active => scan = "no"
        /\ op_in_progress => scan \in {"running", "download"} \/ Active

\* What was asked for and confirmed, and what is done.
Faithful ==
    /\ zero_drive => op.leftover \/ (op.asked = "zero" /\ Active)
    /\ thread.job = "zero" => op.leftover \/ op.asked = "zero"
    /\ ~op.mixed =>
        /\ msgs = <<UM_FORMAT_START("PROCEED")>> => sel # None
        /\ Confirming => op.confirmed = sel /\ sel # None
        /\ thread.job \in Jobs => thread.device = op.confirmed /\ thread.device # None

Operation == Exclusive /\ ThreadHandle /\ Controls /\ Faithful
IInv == Types /\ Operation

-----------------------------------------------------------------------------
(***************************************************************************)
(* The stack of boxes and the queue of messages                            *)
(***************************************************************************)
LEMMA BoxOpens ==
    ASSUME BoxType, NEW box \in Boxes, box = "confirm" => ~Confirming, boxes' = Append(boxes, box)
    PROVE  BoxType' /\ (Confirming' <=> Confirming \/ box = "confirm")
<1>1. /\ boxes' \in Seq(Boxes) /\ DOMAIN boxes = 1 .. Len(boxes) /\ DOMAIN boxes' = 1 .. Len(boxes) + 1
      /\ boxes'[Len(boxes) + 1] = box /\ \A i \in 1 .. Len(boxes) : boxes'[i] = boxes[i]
      /\ Len(boxes) \in Nat
  BY DEF BoxType
<1>2. Confirming <=> \E i \in 1 .. Len(boxes) : boxes[i] = "confirm"
  BY <1>1, Zenon DEF Confirming, Range
<1>3. Confirming' <=> \E i \in 1 .. Len(boxes) + 1 : boxes'[i] = "confirm"
  BY <1>1, Zenon DEF Confirming, Range
<1>4. Confirming' <=> Confirming \/ box = "confirm"
  BY <1>1, <1>2, <1>3
<1>5. ASSUME NEW i \in DOMAIN boxes', NEW j \in DOMAIN boxes', boxes'[i] = "confirm", boxes'[j] = "confirm"
      PROVE  i = j
  BY <1>1, <1>2, <1>5 DEF BoxType
<1> QED
  BY <1>1, <1>4, <1>5, Zenon DEF BoxType

\* The user answers the box on top.
LEMMA BoxCloses ==
    ASSUME BoxType, NEW box \in Boxes, Top = box, Pop
    PROVE  BoxType' /\ (Confirming' <=> Confirming /\ box # "confirm") /\ (box = "confirm" => Confirming)
<1>1. boxes # <<>> /\ boxes[Len(boxes)] = box
  BY Zenon DEF Top, Boxes
<1>2. /\ Len(boxes) \in Nat \ {0} /\ DOMAIN boxes = 1 .. Len(boxes)
      /\ boxes' \in Seq(Boxes) /\ DOMAIN boxes' = 1 .. Len(boxes) - 1
      /\ \A i \in 1 .. Len(boxes) - 1 : boxes'[i] = boxes[i]
  BY <1>1 DEF BoxType, Pop
<1>3. Confirming <=> \E i \in 1 .. Len(boxes) : boxes[i] = "confirm"
  BY <1>2, Zenon DEF Confirming, Range
<1>4. Confirming' <=> \E i \in 1 .. Len(boxes) - 1 : boxes'[i] = "confirm"
  BY <1>2, Zenon DEF Confirming, Range
<1>5. box = "confirm" => ~Confirming' /\ Confirming
  BY <1>1, <1>2, <1>3, <1>4 DEF BoxType
<1>6. box # "confirm" => (Confirming' <=> Confirming)
  BY <1>1, <1>2, <1>3, <1>4
<1>7. ASSUME NEW i \in DOMAIN boxes', NEW j \in DOMAIN boxes', boxes'[i] = "confirm", boxes'[j] = "confirm"
      PROVE  i = j
  BY <1>2, <1>7 DEF BoxType
<1> QED
  BY <1>2, <1>5, <1>6, <1>7, Zenon DEF BoxType

\* An operation that is over closes "Do you want to cancel?".
LEMMA BoxesLeft ==
    ASSUME BoxType, boxes' = [i \in DOMAIN boxes |-> IF boxes[i] = "cancel?" THEN "closed" ELSE boxes[i]]
    PROVE  BoxType' /\ (Confirming' <=> Confirming)
<1>1. /\ Len(boxes) \in Nat /\ DOMAIN boxes = 1 .. Len(boxes) /\ DOMAIN boxes' = 1 .. Len(boxes)
      /\ \A i \in 1 .. Len(boxes) : boxes'[i] = IF boxes[i] = "cancel?" THEN "closed" ELSE boxes[i]
      /\ \A i \in 1 .. Len(boxes) : boxes[i] \in Boxes
  BY DEF BoxType
<1>2. \A i \in 1 .. Len(boxes) : boxes'[i] \in Boxes /\ (boxes'[i] = "confirm" <=> boxes[i] = "confirm")
  BY <1>1, Zenon DEF Boxes
<1>3. boxes' \in Seq(Boxes)
  BY <1>1, <1>2
<1>4. Confirming' <=> Confirming
  BY <1>1, <1>2, Zenon DEF Confirming, Range
<1> QED
  BY <1>1, <1>2, <1>3, <1>4, Zenon DEF BoxType

\* A step that opens and closes no box
LEMMA BoxesSame ==
    ASSUME BoxType, UNCHANGED boxes
    PROVE  BoxType' /\ (Confirming' <=> Confirming)
  BY Zenon DEF BoxType, Confirming, Range

\* Where an operation can be, before a step and after it
LEMMA ActiveIs == /\ Active <=> boot \/ Working \/ msgs # <<>> \/ Confirming
                  /\ Active' <=> boot' \/ Working' \/ msgs' # <<>> \/ Confirming'
  BY Zenon DEF Active, Confirming

\* The messages that carry an operation on are told apart by their number.
LEMMA MessagesAre ==
    /\ IDC_START \in Messages /\ IDC_START.msg = "IDC_START"
    /\ \A ret \in {"PROCEED", "CANCEL", "DOWNLOAD_ERROR"} :
          UM_FORMAT_START(ret) \in Messages /\ UM_FORMAT_START(ret).msg = "UM_FORMAT_START"
    /\ \A w \in {"TRUE", "FALSE"} :
          UM_FORMAT_COMPLETED(w) \in Messages /\ UM_FORMAT_COMPLETED(w).msg = "UM_FORMAT_COMPLETED"
  BY Zenon DEF Messages, Message, IDC_START, UM_FORMAT_START, UM_FORMAT_COMPLETED

\* An operation posts its message to an empty queue, ...
LEMMA MessageSent ==
    ASSUME msgs = <<>>, NEW m, PostMessage(m)
    PROVE  msgs' = <<m>>
  BY DEF PostMessage

\* ... so the one dispatched is the only one.
LEMMA MessageTaken ==
    ASSUME Exclusive, NEW m, Dispatched(m)
    PROVE  m \in Messages /\ msgs = <<m>> /\ Tail(msgs) = <<>>
<1>1. PICK n \in Messages : msgs = <<n>>
  BY Zenon DEF Exclusive, Dispatched
<1> QED
  BY <1>1 DEF Dispatched

\* Which message it is that is posted
LEMMA PendingIs ==
    ASSUME NEW m \in Messages, msgs = <<m>>, NEW msg
    PROVE  Pending(msg) <=> m.msg = msg
<1>1. ASSUME NEW n \in Messages, msgs = <<n>> PROVE n = m
  BY <1>1
<1> QED
  BY <1>1, Zenon DEF Pending

\* Nothing is pending while nothing is posted.
LEMMA PendingNone ==
    ASSUME msgs = <<>>, NEW msg
    PROVE  ~Pending(msg)
<1>1. ASSUME NEW n \in Messages PROVE msgs # <<n>>
  OBVIOUS
<1> QED
  BY <1>1, Zenon DEF Pending

\* What the history takes down when the status is written
LEMMA NotingOp ==
    ASSUME OpType, NEW who \in Losers, Noting(who)
    PROVE  /\ OpType' /\ op'.mixed = op.mixed /\ op'.leftover = op.leftover /\ op'.asked = op.asked
           /\ op'.confirmed = op.confirmed /\ op'.cancelled = op.cancelled /\ op'.out = op.out
           /\ op.lost \subseteq op'.lost
           /\ IS_ERROR /\ ErrorStatus' = "ok" /\ (op.cancelled \/ who = "background") => who \in op'.lost
<1>1. op.lost \subseteq Losers /\ op.lost \cup {who} \subseteq Losers
  BY Zenon DEF OpType
<1>2. CASE op' = [op EXCEPT !.lost = @ \cup {who}]
  <2>1. OpType' /\ op'.lost = op.lost \cup {who}
    BY <1>1, <1>2, Zenon DEF OpType
  <2> QED
    BY <1>2, <2>1, Zenon DEF OpType
<1>3. CASE op' = op /\ ~(IS_ERROR /\ ErrorStatus' = "ok" /\ (op.cancelled \/ who = "background"))
  BY <1>3, Zenon DEF OpType
<1>4. [op EXCEPT !.lost = @] = op
  BY Zenon DEF OpType
<1> QED
  BY <1>2, <1>3, <1>4, Zenon DEF Noting

\* A cancellation is one of the operation under way, if there is one.
LEMMA CancelledOp ==
    ASSUME OpType, Cancelled
    PROVE  /\ OpType' /\ op'.mixed = op.mixed /\ op'.leftover = op.leftover /\ op'.asked = op.asked
           /\ op'.confirmed = op.confirmed /\ op'.out = op.out
           /\ ~Active => op' = op
<1>1. CASE Active
  <2> DEFINE o == [op EXCEPT !.cancelled = TRUE]
  <2>1. OpType /\ op' = [o EXCEPT !.lost = {}] /\ {} \in SUBSET Losers
    BY <1>1, Zenon DEF Cancelled
  <2>2. /\ o \in [asked : Asked, confirmed : Devices \cup {None}, cancelled : BOOLEAN, mixed : BOOLEAN,
                  leftover : BOOLEAN, out : Outs, lost : SUBSET Losers]
        /\ o.mixed = op.mixed /\ o.leftover = op.leftover /\ o.asked = op.asked
        /\ o.confirmed = op.confirmed /\ o.out = op.out
    BY Zenon DEF OpType
  <2> HIDE DEF o
  <2> QED
    BY <1>1, <2>1, <2>2, Zenon DEF OpType
<1>2. CASE ~Active
  BY <1>2, Zenon DEF Cancelled, OpType
<1> QED
  BY <1>1, <1>2, Zenon

(***************************************************************************)
(* Three sorts of steps                                                    *)
(***************************************************************************)
\* The operation stays where it is; the selection stays with it.
LEMMA OperationStays ==
    ASSUME IInv, UNCHANGED <<boot, other, msgs, format_thread, scan, op_in_progress, zero_drive>>,
           sel' = sel \/ ~op_in_progress,
           thread'.job = thread.job, thread'.device = thread.device, Confirming' <=> Confirming,
           op'.mixed = op.mixed, op'.leftover = op.leftover, op'.asked = op.asked,
           op'.confirmed = op.confirmed
    PROVE  Operation'
<1> USE DEF IInv, Operation
<1>1. (Working' <=> Working) /\ (Active' <=> Active) /\ \A msg : Pending(msg)' <=> Pending(msg)
  BY ActiveIs, Zenon DEF Working, Pending
<1>2. Exclusive'
  BY <1>1, Zenon DEF Exclusive
<1>3. ThreadHandle'
  BY <1>1, Zenon DEF ThreadHandle
<1>4. Controls'
  BY <1>1, Zenon DEF Controls
<1>5. Faithful'
  <2>1. msgs = <<UM_FORMAT_START("PROCEED")>> => Pending("UM_FORMAT_START")
    BY MessagesAre, Zenon DEF Pending
  <2>2. thread.job \in Jobs => Working
    BY Zenon DEF Working
  <2> QED
    BY <1>1, <2>1, <2>2, Zenon DEF Faithful, Controls
<1> QED
  BY <1>2, <1>3, <1>4, <1>5, Zenon

\* The operation is over, and the controls are enabled.
LEMMA OperationOver ==
    ASSUME ~boot', ~Working', msgs' = <<>>, ~Confirming', format_thread' = NULL, ~op_in_progress', ~zero_drive'
    PROVE  Operation'
<1>1. ~Active' /\ \A msg : ~Pending(msg)'
  <2>1. ASSUME NEW n \in Messages PROVE msgs' # <<n>>
    OBVIOUS
  <2> QED
    BY <2>1, ActiveIs, Zenon DEF Pending
<1>2. Exclusive'
  BY Zenon DEF Exclusive, Working
<1>3. ThreadHandle' /\ Controls'
  BY <1>1, Zenon DEF ThreadHandle, Controls
<1>4. Faithful'
  BY Zenon DEF Faithful, Working, Jobs
<1> QED
  BY <1>2, <1>3, <1>4, Zenon DEF Operation

\* The IDC_START handler: nothing was under way, and the operation asked for is
\* turned down, checked, or reported because no thread could be created.
LEMMA OperationStarts ==
    ASSUME IInv, ~boot, ~Working, ~Confirming, OnStart(<<>>),
           ~op'.mixed => ~op_in_progress /\ scan = "no",
           zero_drive => op'.leftover \/ (op'.asked = "zero" /\ Active')
    PROVE  BoxType' /\ Operation'
<1> USE DEF IInv, Operation
<1>1. /\ ~Working' /\ UNCHANGED <<thread, other, scan, zero_drive>> /\ format_thread' = NULL
  BY Zenon DEF OnStart, Working
<1>2. CASE ValidationFails(<<>>)
  <2>1. BoxType' /\ ~Confirming'
    BY <1>2, BoxOpens, Zenon DEF ValidationFails, Types, Boxes
  <2>2. msgs' = <<>> /\ ~boot' /\ UNCHANGED op_in_progress
    BY <1>2, Zenon DEF ValidationFails
  <2>3. ~Active' /\ \A msg : ~Pending(msg)'
    <3>1. ASSUME NEW n \in Messages PROVE msgs' # <<n>>
      BY <2>2, Zenon
    <3> QED
      BY <1>1, <2>1, <2>2, <3>1, ActiveIs, Zenon DEF Pending
  <2>4. Exclusive' /\ ThreadHandle' /\ Controls'
    BY <1>1, <2>1, <2>2, <2>3, Zenon DEF Exclusive, ThreadHandle, Controls, Working
  <2>5. Faithful'
    BY <1>1, <2>1, <2>2, <2>3, Zenon DEF Faithful, Working, Jobs
  <2> QED
    BY <2>1, <2>4, <2>5, Zenon
<1>3. CASE BuildFails(<<>>)
  <2>1. BoxType' /\ ~Confirming'
    BY <1>3, BoxesSame, Zenon DEF BuildFails, Types
  <2>2. msgs' = <<>> /\ ~boot' /\ ~op_in_progress'
    BY <1>3, Zenon DEF BuildFails, EnableControls
  <2>3. ~Active' /\ \A msg : ~Pending(msg)'
    <3>1. ASSUME NEW n \in Messages PROVE msgs' # <<n>>
      BY <2>2, Zenon
    <3> QED
      BY <1>1, <2>1, <2>2, <3>1, ActiveIs, Zenon DEF Pending
  <2>4. Exclusive' /\ ThreadHandle' /\ Controls'
    BY <1>1, <2>1, <2>2, <2>3, Zenon DEF Exclusive, ThreadHandle, Controls, Working
  <2>5. Faithful'
    BY <1>1, <2>1, <2>2, <2>3, Zenon DEF Faithful, Working, Jobs
  <2> QED
    BY <2>1, <2>4, <2>5, Zenon
<1>4. CASE StartChecks(<<>>)
  <2>1. BoxType' /\ ~Confirming'
    BY <1>4, BoxesSame, Zenon DEF StartChecks, Types
  <2>2. /\ op_in_progress'
        /\ \/ boot' /\ msgs' = <<>>
           \/ ~boot' /\ msgs' = <<UM_FORMAT_COMPLETED("FALSE")>>
    <3>1. Append(<<>>, UM_FORMAT_COMPLETED("FALSE")) = <<UM_FORMAT_COMPLETED("FALSE")>>
      OBVIOUS
    <3>2. \/ boot' = TRUE /\ msgs' = <<>>
          \/ boot' = boot /\ msgs' = <<UM_FORMAT_COMPLETED("FALSE")>>
      BY <1>4, <3>1, Zenon DEF StartChecks
    <3>3. op_in_progress'
      BY <1>4, Zenon DEF StartChecks, EnableControls
    <3> QED
      BY <3>2, <3>3
  <2>3. Active'
    BY <2>2, ActiveIs
  <2>4. CASE boot' /\ msgs' = <<>>
    <3>1. \A msg : ~Pending(msg)'
      <4>1. ASSUME NEW n \in Messages PROVE msgs' # <<n>>
        BY <2>4, Zenon
      <4> QED
        BY <4>1, Zenon DEF Pending
    <3>2. Exclusive' /\ ThreadHandle' /\ Controls'
      BY <1>1, <2>1, <2>2, <2>3, <2>4, <3>1, Zenon DEF Exclusive, ThreadHandle, Controls, Working
    <3>3. Faithful'
      BY <1>1, <2>1, <2>3, <2>4, Zenon DEF Faithful, Working, Jobs
    <3> QED
      BY <2>1, <3>2, <3>3, Zenon
  <2>5. CASE ~boot' /\ msgs' = <<UM_FORMAT_COMPLETED("FALSE")>>
    <3>1. \A msg : Pending(msg)' <=> msg = "UM_FORMAT_COMPLETED"
      <4>1. \A n : msgs' = <<n>> => n = UM_FORMAT_COMPLETED("FALSE")
        BY <2>5, Zenon
      <4> QED
        BY <2>5, <4>1, MessagesAre, Zenon DEF Pending
    <3>2. msgs' # <<UM_FORMAT_START("PROCEED")>>
      <4>1. UM_FORMAT_START("PROCEED") # UM_FORMAT_COMPLETED("FALSE")
        BY MessagesAre, Zenon
      <4> QED
        BY <2>5, <4>1, Zenon
    <3>3. Exclusive' /\ ThreadHandle'
      BY <1>1, <2>1, <2>5, <3>1, MessagesAre, Zenon DEF Exclusive, ThreadHandle, Working
    <3>4. Controls'
      BY <1>1, <2>1, <2>2, <2>3, <3>1, Zenon DEF Controls
    <3>5. Faithful'
      BY <1>1, <2>1, <2>3, <3>2, Zenon DEF Faithful, Working, Jobs
    <3> QED
      BY <2>1, <3>3, <3>4, <3>5, Zenon
  <2> QED
    BY <2>2, <2>4, <2>5, Zenon
<1> QED
  BY <1>2, <1>3, <1>4, Zenon DEF OnStart

(***************************************************************************)
(* The device list                                                         *)
(***************************************************************************)
LEMMA GetDevicesLists ==
    ASSUME plugged \subseteq Devices, NEW d, GetDevices(d)
    PROVE  listed' \subseteq Devices /\ sel' \in listed' \cup {None}
<1>1. First(plugged) \in plugged \cup {None}
  BY Zenon DEF First
<1> QED
  BY <1>1, Zenon DEF GetDevices

\* Drives come and go, the list is refreshed, another drive is selected.
LEMMA DevicelistKeeps == IInv /\ Devicelist => IInv'
<1> SUFFICES ASSUME IInv, Devicelist PROVE IInv'
  OBVIOUS
<1> USE DEF IInv, Types
<1>1. CASE WM_DEVICECHANGE
  <2>1. /\ UNCHANGED <<ErrorStatus, thread, boot, scan, other, format_thread, zero_drive,
                       no_confirmation_on_cancel, IDCANCEL, plugged, msgs, boxes, shown, op>>
        /\ arrival' = FALSE
    BY <1>1, Zenon DEF WM_DEVICECHANGE, workers, history
  <2>2. op_in_progress' = op_in_progress /\ (sel' = sel \/ ~op_in_progress)
    BY <1>1, Zenon DEF WM_DEVICECHANGE, UM_MEDIA_CHANGE, EnableControls, list, FlagType
  <2>3. ListType'
    <3>1. CASE UNCHANGED <<sel, listed>> /\ queued_hotplug_event' \in BOOLEAN
      BY <2>1, <3>1, Zenon DEF ListType
    <3>2. CASE GetDevices(sel) /\ queued_hotplug_event' = FALSE
      BY <2>1, <3>2, GetDevicesLists, Zenon DEF ListType
    <3> QED
      BY <1>1, <3>1, <3>2, Zenon DEF WM_DEVICECHANGE, UM_MEDIA_CHANGE, list, ListType
  <2>4. BoxType' /\ (Confirming' <=> Confirming)
    BY <2>1, BoxesSame, Zenon
  <2>5. Operation'
    BY <2>1, <2>2, <2>4, OperationStays, Zenon
  <2> QED
    BY <2>1, <2>2, <2>3, <2>4, <2>5 DEF StatusType, ThreadType, OpType, FlagType, WorkerType
<1>2. ASSUME NEW d \in Devices, Hotplug(d) PROVE IInv'
  <2>1. /\ UNCHANGED <<ErrorStatus, thread, boot, scan, other, flags, list, msgs, boxes, shown, op>>
        /\ plugged' \subseteq Devices /\ arrival' = TRUE
    BY <1>2, Zenon DEF Hotplug, workers, ListType
  <2>2. BoxType' /\ (Confirming' <=> Confirming)
    BY <2>1, BoxesSame, Zenon
  <2>3. Operation'
    BY <2>1, <2>2, OperationStays, Zenon DEF flags, list
  <2> QED
    BY <2>1, <2>2, <2>3 DEF StatusType, ThreadType, OpType, FlagType, WorkerType, ListType, flags, list
<1>3. ASSUME NEW d \in Devices, IDC_DEVICE(d) PROVE IInv'
  <2>1. /\ UNCHANGED <<ErrorStatus, thread, boot, scan, other, flags, listed, queued_hotplug_event,
                       plugged, arrival, msgs, boxes, shown, op>>
        /\ ~op_in_progress /\ sel' \in listed
    BY <1>3, Zenon DEF IDC_DEVICE, workers, world, history
  <2>2. BoxType' /\ (Confirming' <=> Confirming)
    BY <2>1, BoxesSame, Zenon
  <2>3. Operation'
    BY <2>1, <2>2, OperationStays, Zenon DEF flags
  <2> QED
    BY <2>1, <2>2, <2>3 DEF StatusType, ThreadType, OpType, FlagType, WorkerType, ListType, flags
<1>4. ASSUME NEW d, Refresh(d) PROVE IInv'
  <2>1. /\ UNCHANGED <<ErrorStatus, thread, boot, scan, other, format_thread, zero_drive,
                       no_confirmation_on_cancel, IDCANCEL, queued_hotplug_event, plugged, arrival,
                       msgs, boxes, shown, op>>
        /\ ~op_in_progress /\ op_in_progress' = FALSE /\ GetDevices(d)
    BY <1>4, Zenon DEF Refresh, EnableControls, workers, world, history
  <2>2. op_in_progress' = op_in_progress
    BY <2>1, Zenon DEF FlagType
  <2>3. ListType'
    BY <2>1, GetDevicesLists, Zenon DEF ListType
  <2>4. BoxType' /\ (Confirming' <=> Confirming)
    BY <2>1, BoxesSame, Zenon
  <2>5. Operation'
    BY <2>1, <2>2, <2>4, OperationStays, Zenon
  <2> QED
    BY <2>1, <2>2, <2>3, <2>4, <2>5 DEF StatusType, ThreadType, OpType, FlagType, WorkerType
<1> QED
  BY <1>1, <1>2, <1>3, <1>4, Zenon DEF Devicelist

(***************************************************************************)
(* Asking for an operation                                                 *)
(***************************************************************************)
\* Nothing is under way when the user asks for something.
LEMMA NothingUnderWay ==
    ASSUME IInv, NEW asked \in Asked, Request(asked)
    PROVE  /\ ~boot /\ ~Working /\ ~Confirming /\ msgs = <<>> /\ format_thread = NULL /\ ~op_in_progress
           /\ OpType' /\ op'.asked = asked /\ op'.leftover = op.leftover /\ op'.mixed = (scan # "no")
           /\ zero_drive => op.leftover
           /\ shown' = "none"
<1> USE DEF IInv, Operation
<1>1. ~Active /\ ~op_in_progress
  BY Zenon DEF Request
<1>2. ~boot /\ ~Working /\ ~Confirming /\ msgs = <<>>
  BY <1>1, ActiveIs, Zenon
<1>3. format_thread = NULL
  BY <1>2, PendingNone, Zenon DEF ThreadHandle
<1>4. zero_drive => op.leftover
  BY <1>1, Zenon DEF Faithful
<1>5. op' = [asked |-> asked, confirmed |-> None, cancelled |-> FALSE, mixed |-> (scan # "no"),
             leftover |-> op.leftover, out |-> "-", lost |-> {}]
  BY Zenon DEF Request, NewOp
<1>6. op.leftover \in BOOLEAN /\ (scan # "no") \in BOOLEAN /\ {} \in SUBSET Losers
  BY Zenon DEF Types, OpType
<1>7. OpType'
  BY <1>5, <1>6, Zenon DEF OpType, Outs
<1> QED
  BY <1>1, <1>2, <1>3, <1>4, <1>5, <1>7, Zenon DEF Request

\* What the IDC_START handler leaves well typed
LEMMA StartTypes ==
    ASSUME IInv, NEW rest, OnStart(rest), shown' \in {"none", shown}
    PROVE  StatusType' /\ ThreadType' /\ FlagType' /\ WorkerType' /\ ListType'
<1> USE DEF IInv, Types, OnStart
<1>1. ErrorStatus' \in {"ok", "error", ErrorStatus} /\ boot' \in BOOLEAN
  BY Zenon DEF ValidationFails, BuildFails, StartChecks, WorkerType
<1>2. op_in_progress' \in BOOLEAN /\ no_confirmation_on_cancel' \in BOOLEAN
  BY Zenon DEF ValidationFails, BuildFails, StartChecks, EnableControls, FlagType
<1>3. UNCHANGED <<thread, scan, other, format_thread, zero_drive, IDCANCEL, list, world>>
  OBVIOUS
<1> QED
  BY <1>1, <1>2, <1>3 DEF StatusType, ThreadType, FlagType, WorkerType, ListType, list, world

\* Start, the hash button, the save command and the shortcut that zeroes a drive
LEMMA AskingKeeps == IInv /\ Asking => IInv'
<1> SUFFICES ASSUME IInv, Asking PROVE IInv'
  OBVIOUS
<1>1. CASE PressStart
  <2>1. /\ ~boot /\ ~Working /\ ~Confirming /\ ~op_in_progress /\ OpType'
        /\ op'.leftover = op.leftover /\ op'.mixed = (scan # "no") /\ (zero_drive => op.leftover)
        /\ shown' = "none" /\ OnStart(<<>>)
    BY <1>1, NothingUnderWay, Zenon DEF PressStart, Asked
  <2>2. BoxType' /\ Operation'
    BY <2>1, OperationStarts, Zenon
  <2> QED
    BY <2>1, <2>2, StartTypes, Zenon DEF IInv, Types
<1>2. CASE ZeroTheDrive
  <2>1. /\ ~boot /\ ~Working /\ ~Confirming /\ msgs = <<>> /\ format_thread = NULL /\ ~op_in_progress
        /\ OpType' /\ op'.asked = "zero" /\ op'.mixed = (scan # "no") /\ shown' = "none"
    BY <1>2, NothingUnderWay, Zenon DEF ZeroTheDrive, Asked
  <2>2. /\ zero_drive' = TRUE /\ msgs' = <<IDC_START>>
        /\ UNCHANGED <<ErrorStatus, thread, boot, scan, other, op_in_progress, format_thread,
                       no_confirmation_on_cancel, IDCANCEL, list, world, boxes>>
    BY <1>2, <2>1, MessageSent, Zenon DEF ZeroTheDrive, workers
  <2>3. BoxType' /\ ~Confirming'
    BY <2>1, <2>2, BoxesSame, Zenon DEF IInv, Types
  <2>4. \A msg : Pending(msg)' <=> msg = "IDC_START"
    <3>1. \A n : msgs' = <<n>> => n = IDC_START
      BY <2>2, Zenon
    <3> QED
      BY <2>2, <3>1, MessagesAre, Zenon DEF Pending
  <2>5. ~Working' /\ Active'
    BY <2>1, <2>2, ActiveIs, Zenon DEF Working
  <2>6. Exclusive'
    BY <2>1, <2>2, <2>3, <2>5, MessagesAre, Zenon DEF Exclusive, Working
  <2>7. ThreadHandle' /\ Controls'
    BY <2>1, <2>2, <2>3, <2>4, <2>5, Zenon DEF ThreadHandle, Controls
  <2>8. Faithful'
    <3>1. msgs' # <<UM_FORMAT_START("PROCEED")>>
      <4>1. UM_FORMAT_START("PROCEED") # IDC_START
        BY MessagesAre, Zenon
      <4> QED
        BY <2>2, <4>1, Zenon
    <3> QED
      BY <2>1, <2>3, <2>5, <3>1, Zenon DEF Faithful, Working, Jobs
  <2>9. StatusType' /\ ThreadType' /\ FlagType' /\ WorkerType' /\ ListType'
    BY <2>1, <2>2 DEF IInv, Types, StatusType, ThreadType, FlagType, WorkerType, ListType, list, world
  <2> QED
    BY <2>1, <2>3, <2>6, <2>7, <2>8, <2>9, Zenon DEF IInv, Types, Operation
<1>3. CASE StartPosted
  <2>1. msgs = <<IDC_START>> /\ Tail(msgs) = <<>> /\ IDC_START \in Messages
    BY <1>3, MessageTaken, Zenon DEF StartPosted, IInv, Operation
  <2>2. ~boot /\ ~Working /\ ~Confirming /\ Active
    BY <2>1, ActiveIs, Zenon DEF IInv, Operation, Exclusive
  <2>3. Pending("IDC_START")
    BY <2>1, MessagesAre, Zenon DEF Pending
  <2>4. /\ op'.asked = op.asked /\ op'.mixed = op.mixed /\ OpType'
        /\ op'.leftover = (op.leftover \/ (boot' = boot /\ msgs' = <<>>))
    <3>1. op' = [op EXCEPT !.leftover = @ \/ (boot' = boot /\ msgs' = Tail(msgs))]
      BY <1>3, Zenon DEF StartPosted
    <3> QED
      BY <2>1, <3>1, Zenon DEF IInv, Types, OpType
  <2>5. OnStart(<<>>) /\ shown' = shown
    BY <1>3, <2>1, Zenon DEF StartPosted
  <2>6. ~op'.mixed => ~op_in_progress /\ scan = "no"
    BY <2>2, <2>3, <2>4, Zenon DEF IInv, Operation, Controls
  <2>7. zero_drive => op'.leftover \/ (op'.asked = "zero" /\ Active')
    <3>1. boot' \in BOOLEAN
      BY <2>5, StartTypes, Zenon DEF WorkerType
    <3>2. (boot' = boot /\ msgs' = <<>>) \/ Active'
      BY <2>2, <3>1, ActiveIs, Zenon DEF IInv, Types, WorkerType
    <3> QED
      BY <2>4, <3>2, Zenon DEF IInv, Operation, Faithful
  <2>8. BoxType' /\ Operation'
    BY <2>2, <2>5, <2>6, <2>7, OperationStarts, Zenon
  <2> QED
    BY <2>4, <2>5, <2>8, StartTypes, Zenon DEF IInv, Types
<1>4. ASSUME NEW kind \in {"hash", "save"}, StartOther(kind) PROVE IInv'
  <2>1. /\ ~boot /\ ~Working /\ ~Confirming /\ msgs = <<>> /\ format_thread = NULL
        /\ OpType' /\ op'.leftover = op.leftover /\ op'.mixed = (scan # "no")
        /\ (zero_drive => op.leftover) /\ shown' = "none"
    BY <1>4, NothingUnderWay, Zenon DEF StartOther, Asked
  <2>2. /\ op_in_progress' = TRUE /\ UNCHANGED <<thread, boot, scan, zero_drive, IDCANCEL, list, world, boxes>>
        /\ \/ ErrorStatus' = "ok" /\ other' = kind /\ format_thread' = kind /\ msgs' = <<>>
           \/ /\ ErrorStatus' = "error" /\ msgs' = <<UM_FORMAT_COMPLETED("FALSE")>>
              /\ UNCHANGED <<other, format_thread>>
    BY <1>4, <2>1, MessageSent, Zenon DEF StartOther, EnableControls
  <2>3. StatusType' /\ ThreadType' /\ FlagType' /\ WorkerType' /\ ListType'
    <3>1. no_confirmation_on_cancel' \in BOOLEAN
      BY <1>4, Zenon DEF StartOther, IInv, Types, FlagType
    <3>2. FlagType' /\ WorkerType'
      BY <2>2, <3>1, Zenon DEF IInv, Types, FlagType, WorkerType
    <3> QED
      BY <2>1, <2>2, <3>2, Zenon DEF IInv, Types, StatusType, ThreadType, ListType, list, world
  <2>4. BoxType' /\ ~Confirming'
    BY <2>1, <2>2, BoxesSame, Zenon DEF IInv, Types
  <2>5. thread.job = "none" /\ thread.job \notin Jobs /\ kind # NULL /\ kind # "no"
    BY <2>1, Zenon DEF Working, IInv, Types, ThreadType, NULL, Jobs
  <2>6. CASE other' = kind /\ format_thread' = kind /\ msgs' = <<>>
    <3>1. Working' /\ Active' /\ \A msg : ~Pending(msg)'
      <4>1. ASSUME NEW n \in Messages PROVE msgs' # <<n>>
        BY <2>6, Zenon
      <4> QED
        BY <2>5, <2>6, <4>1, ActiveIs, Zenon DEF Working, Pending
    <3>2. Exclusive' /\ ThreadHandle' /\ Controls'
      BY <2>1, <2>2, <2>4, <2>5, <2>6, <3>1, Zenon DEF Exclusive, ThreadHandle, Controls
    <3>3. Faithful'
      BY <2>1, <2>2, <2>4, <2>5, <2>6, Zenon DEF Faithful, Jobs
    <3> QED
      BY <2>1, <2>3, <2>4, <3>2, <3>3, Zenon DEF IInv, Types, Operation
  <2>7. CASE msgs' = <<UM_FORMAT_COMPLETED("FALSE")>> /\ UNCHANGED <<other, format_thread>>
    <3>1. \A msg : Pending(msg)' <=> msg = "UM_FORMAT_COMPLETED"
      <4>1. \A n : msgs' = <<n>> => n = UM_FORMAT_COMPLETED("FALSE")
        BY <2>7, Zenon
      <4> QED
        BY <2>7, <4>1, MessagesAre, Zenon DEF Pending
    <3>2. ~Working' /\ Active'
      BY <2>1, <2>2, <2>7, ActiveIs, Zenon DEF Working
    <3>3. msgs' # <<UM_FORMAT_START("PROCEED")>>
      <4>1. UM_FORMAT_START("PROCEED") # UM_FORMAT_COMPLETED("FALSE")
        BY MessagesAre, Zenon
      <4> QED
        BY <2>7, <4>1, Zenon
    <3>4. Exclusive' /\ ThreadHandle'
      BY <2>1, <2>2, <2>4, <2>5, <2>7, <3>1, <3>2, MessagesAre, Zenon DEF Exclusive, ThreadHandle
    <3>5. Controls'
      BY <2>1, <2>2, <2>4, <3>1, <3>2, Zenon DEF Controls
    <3>6. Faithful'
      BY <2>1, <2>2, <2>4, <2>5, <3>2, <3>3, Zenon DEF Faithful, Jobs
    <3> QED
      BY <2>1, <2>3, <2>4, <3>4, <3>5, <3>6, Zenon DEF IInv, Types, Operation
  <2> QED
    BY <2>2, <2>6, <2>7, Zenon
<1> QED
  BY <1>1, <1>2, <1>3, <1>4, Zenon DEF Asking

(***************************************************************************)
(* The checks, the confirmation and the report                             *)
(***************************************************************************)
\* A message that is dispatched was all there was of the operation.
LEMMA OnlyMessage ==
    ASSUME IInv, NEW m, Dispatched(m)
    PROVE  /\ m \in Messages /\ msgs = <<m>> /\ Tail(msgs) = <<>>
           /\ ~boot /\ ~Working /\ ~Confirming /\ Pending(m.msg)
           /\ m.msg # "UM_FORMAT_COMPLETED" => format_thread = NULL
<1> USE DEF IInv, Operation
<1>1. m \in Messages /\ msgs = <<m>> /\ Tail(msgs) = <<>>
  BY MessageTaken, Zenon
<1>2. ~boot /\ ~Working /\ ~Confirming
  BY <1>1, Zenon DEF Exclusive
<1>3. \A msg : Pending(msg) <=> m.msg = msg
  BY <1>1, PendingIs, Zenon
<1> QED
  BY <1>1, <1>2, <1>3, Zenon DEF ThreadHandle

\* So was a confirmation.
LEMMA OnlyConfirmation ==
    ASSUME IInv, Top = "confirm", Pop
    PROVE  /\ BoxType' /\ Confirming /\ ~Confirming'
           /\ ~boot /\ ~Working /\ msgs = <<>> /\ format_thread = NULL
<1>1. BoxType' /\ Confirming /\ ~Confirming'
  BY BoxCloses, Zenon DEF IInv, Types, Boxes
<1>2. ~boot /\ ~Working /\ msgs = <<>>
  BY <1>1, Zenon DEF IInv, Operation, Exclusive
<1> QED
  BY <1>1, <1>2, PendingNone, Zenon DEF IInv, Operation, ThreadHandle

\* What aborted_start leaves: the controls enabled, zero_drive cleared, nothing confirmed anew
LEMMA AbortedStartTypes ==
    ASSUME IInv, AbortedStart, UNCHANGED <<world, format_thread, no_confirmation_on_cancel, IDCANCEL>>
    PROVE  /\ OpType' /\ FlagType' /\ ListType' /\ ~op_in_progress' /\ ~zero_drive'
           /\ op'.asked = op.asked /\ op'.mixed = op.mixed /\ op'.confirmed = op.confirmed
<1> USE DEF IInv, Types, AbortedStart, EnableControls
<1>1. OpType' /\ op'.asked = op.asked /\ op'.mixed = op.mixed /\ op'.confirmed = op.confirmed
  BY Zenon DEF OpType
<1>2. FlagType' /\ ~op_in_progress' /\ ~zero_drive'
  BY Zenon DEF FlagType
<1>3. ListType'
  <2>1. CASE GetDevices(sel) /\ queued_hotplug_event' = FALSE
    BY <2>1, GetDevicesLists, Zenon DEF ListType, world
  <2>2. CASE UNCHANGED list
    BY <2>2, Zenon DEF ListType, world, list
  <2> QED
    BY <2>1, <2>2, Zenon
<1> QED
  BY <1>1, <1>2, <1>3, Zenon

\* The report's box does not hide a confirmation.
LEMMA ReportBoxes ==
    ASSUME BoxType, ~Confirming, NEW status, NEW w, NEW rest, Report(status, w, rest)
    PROVE  BoxType' /\ ~Confirming'
<1> DEFINE left == [i \in DOMAIN boxes |-> IF boxes[i] = "cancel?" THEN "closed" ELSE boxes[i]]
<1>1. CASE status = "ok"
  <2>1. boxes' = left
    BY <1>1, Zenon DEF Report
  <2> QED
    BY <2>1, BoxesLeft, Zenon
<1>2. CASE status # "ok"
  <2>1. boxes' = Append(left, "report")
    BY <1>2, Zenon DEF Report
  <2>2. /\ Len(boxes) \in Nat /\ DOMAIN boxes = 1 .. Len(boxes)
        /\ \A i \in 1 .. Len(boxes) : boxes[i] \in Boxes /\ boxes[i] # "confirm"
    BY DEF BoxType, Confirming, Range
  <2>3. left \in Seq(Boxes) /\ Len(left) = Len(boxes) /\ \A i \in 1 .. Len(boxes) : left[i] # "confirm"
    BY <2>2 DEF Boxes
  <2> HIDE DEF left
  <2>4. /\ boxes' \in Seq(Boxes) /\ DOMAIN boxes' = 1 .. Len(boxes) + 1
        /\ \A i \in DOMAIN boxes' : boxes'[i] # "confirm"
    BY <2>1, <2>2, <2>3 DEF Boxes
  <2> QED
    BY <2>4, Zenon DEF BoxType, Confirming, Range
<1> QED
  BY <1>1, <1>2, Zenon

\* UM_FORMAT_COMPLETED: the operation is over and its status is shown.
LEMMA ReportKeeps ==
    ASSUME IInv, NEW m, Dispatched(m), NEW status \in {"ok", "cancelled", "error"}, NEW w,
           Report(status, w, Tail(msgs)), UNCHANGED <<workers, no_confirmation_on_cancel, world>>,
           queued_hotplug_event' \in BOOLEAN
    PROVE  IInv'
<1> USE DEF IInv, Types
<1>1. ~boot /\ ~Working /\ ~Confirming /\ Tail(msgs) = <<>>
  BY OnlyMessage, Zenon
<1>2. BoxType' /\ ~Confirming'
  BY <1>1, ReportBoxes, Zenon
<1>3. /\ UNCHANGED <<thread, boot, scan, other>> /\ msgs' = <<>> /\ format_thread' = NULL
      /\ zero_drive' = FALSE /\ op_in_progress' = FALSE /\ IDCANCEL' = TRUE
      /\ ErrorStatus' = status /\ shown' = status
  BY <1>1, Zenon DEF Report, EnableControls, workers
<1>4. ~Working'
  BY <1>1, <1>3, Zenon DEF Working
<1>5. Operation'
  BY <1>1, <1>2, <1>3, <1>4, OperationOver, Zenon
<1>6. OpType'
  BY Zenon DEF Report, OpType
<1>7. ListType'
  <2>1. CASE UNCHANGED <<sel, listed>>
    BY <2>1, Zenon DEF ListType, world
  <2>2. CASE GetDevices(sel)
    BY <2>2, GetDevicesLists, Zenon DEF ListType, world
  <2> QED
    BY <2>1, <2>2, Zenon DEF Report
<1>8. StatusType' /\ ThreadType' /\ FlagType' /\ WorkerType'
  BY <1>3, ZenonT(60) DEF StatusType, ThreadType, FlagType, WorkerType
<1> QED
  BY <1>2, <1>5, <1>6, <1>7, <1>8, Zenon

\* BootCheckThread ends, and its verdict is taken.
LEMMA CheckingKeeps == IInv /\ Checking => IInv'
<1> SUFFICES ASSUME IInv, Checking PROVE IInv'
  OBVIOUS
<1>1. CASE BootCheckThread
  <2>1. boot /\ ~Working /\ msgs = <<>> /\ ~Confirming /\ format_thread = NULL
    <3>1. boot /\ ~Working /\ msgs = <<>> /\ ~Confirming
      BY <1>1, Zenon DEF BootCheckThread, IInv, Operation, Exclusive
    <3> QED
      BY <3>1, PendingNone, Zenon DEF IInv, Operation, ThreadHandle
  <2>2. PICK ret \in {"PROCEED", "CANCEL", "DOWNLOAD_ERROR"} :
          msgs' = <<UM_FORMAT_START(ret)>> /\ (sel = None => ret = "CANCEL")
    BY <1>1, <2>1, MessageSent DEF BootCheckThread
  <2>3. /\ boot' = FALSE
        /\ UNCHANGED <<ErrorStatus, thread, scan, other, flags, list, world, boxes, shown, op>>
    BY <1>1, Zenon DEF BootCheckThread, history
  <2>4. BoxType' /\ ~Confirming'
    BY <2>1, <2>3, BoxesSame, Zenon DEF IInv, Types
  <2>5. ~Working' /\ Active' /\ Active
    BY <2>1, <2>2, <2>3, ActiveIs, Zenon DEF Working
  <2>6. \A msg : Pending(msg)' <=> msg = "UM_FORMAT_START"
    <3>1. \A n : msgs' = <<n>> => n = UM_FORMAT_START(ret)
      BY <2>2, Zenon
    <3> QED
      BY <2>2, <3>1, MessagesAre, Zenon DEF Pending
  <2>7. Exclusive' /\ ThreadHandle'
    BY <2>1, <2>2, <2>3, <2>4, <2>5, MessagesAre, Zenon DEF Exclusive, ThreadHandle, flags, Working
  <2>8. Controls'
    BY <2>1, <2>3, <2>4, <2>5, <2>6, Zenon DEF Controls, flags, IInv, Operation
  <2>9. Faithful'
    <3>1. UM_FORMAT_START("PROCEED") = UM_FORMAT_START(ret) => ret = "PROCEED"
      BY Zenon DEF UM_FORMAT_START, Message
    <3>2. msgs' = <<UM_FORMAT_START("PROCEED")>> => UM_FORMAT_START("PROCEED") = UM_FORMAT_START(ret)
      BY <2>2, Zenon
    <3>3. msgs' = <<UM_FORMAT_START("PROCEED")>> => sel # None
      BY <2>2, <3>1, <3>2, Zenon
    <3> QED
      BY <2>1, <2>3, <2>4, <2>5, <3>3, Zenon DEF Faithful, flags, list, Working, Jobs, IInv, Operation
  <2>10. WorkerType'
    BY <2>3, Zenon DEF IInv, Types, WorkerType
  <2> QED
    BY <2>3, <2>4, <2>7, <2>8, <2>9, <2>10
       DEF IInv, Types, Operation, StatusType, ThreadType, OpType, FlagType, ListType, flags, list, world
<1>2. CASE CheckAborts
  <2>1. /\ Dispatched(UM_FORMAT_START("CANCEL")) /\ msgs' = Tail(msgs) /\ AbortedStart
        /\ UNCHANGED <<ErrorStatus, thread, boot, scan, other, format_thread, no_confirmation_on_cancel,
                       IDCANCEL, world, boxes, shown>>
    BY <1>2, Zenon DEF CheckAborts, workers
  <2>2. ~boot /\ ~Working /\ ~Confirming /\ msgs' = <<>> /\ format_thread = NULL
    BY <2>1, OnlyMessage, MessagesAre, Zenon
  <2>3. OpType' /\ FlagType' /\ ListType' /\ ~op_in_progress' /\ ~zero_drive'
    BY <2>1, AbortedStartTypes, Zenon
  <2>4. BoxType' /\ ~Confirming'
    BY <2>1, <2>2, BoxesSame, Zenon DEF IInv, Types
  <2>5. Operation'
    <3>1. ~Working'
      BY <2>1, <2>2, Zenon DEF Working
    <3> QED
      BY <2>1, <2>2, <2>3, <2>4, <3>1, OperationOver, Zenon
  <2> QED
    BY <2>1, <2>3, <2>4, <2>5 DEF IInv, Types, StatusType, ThreadType, WorkerType
<1>3. CASE CheckProceeds
  <2>1. /\ Dispatched(UM_FORMAT_START("PROCEED")) /\ msgs' = Tail(msgs)
        /\ boxes' = Append(boxes, "confirm") /\ op' = [op EXCEPT !.confirmed = sel]
        /\ UNCHANGED <<ErrorStatus, thread, boot, scan, other, flags, list, world, shown>>
    BY <1>3, Zenon DEF CheckProceeds, workers
  <2>2. /\ ~boot /\ ~Working /\ ~Confirming /\ msgs' = <<>> /\ format_thread = NULL
        /\ Pending("UM_FORMAT_START") /\ msgs = <<UM_FORMAT_START("PROCEED")>>
    BY <2>1, OnlyMessage, MessagesAre, Zenon
  <2>3. BoxType' /\ Confirming'
    BY <2>1, <2>2, BoxOpens, Zenon DEF IInv, Types, Boxes
  <2>4. /\ OpType' /\ op'.mixed = op.mixed /\ op'.asked = op.asked /\ op'.leftover = op.leftover
        /\ op'.confirmed = sel
    <3>1. sel \in Devices \cup {None}
      BY Zenon DEF IInv, Types, ListType
    <3> QED
      BY <2>1, <3>1, Zenon DEF IInv, Types, OpType
  <2>5. ~Working' /\ Active' /\ Active
    BY <2>1, <2>2, <2>3, ActiveIs, Zenon DEF Working
  <2>6. \A msg : ~Pending(msg)'
    <3>1. ASSUME NEW n \in Messages PROVE msgs' # <<n>>
      BY <2>2, Zenon
    <3> QED
      BY <3>1, Zenon DEF Pending
  <2>7. Exclusive' /\ ThreadHandle'
    BY <2>1, <2>2, <2>3, <2>5, Zenon DEF Exclusive, ThreadHandle, flags, Working
  <2>8. Controls'
    BY <2>1, <2>2, <2>3, <2>4, <2>5, <2>6, Zenon DEF Controls, flags, IInv, Operation
  <2>9. Faithful'
    BY <2>1, <2>2, <2>4, <2>5, Zenon DEF Faithful, flags, list, Working, Jobs, IInv, Operation
  <2> QED
    BY <2>1, <2>3, <2>4, <2>7, <2>8, <2>9
       DEF IInv, Types, Operation, StatusType, ThreadType, FlagType, WorkerType, ListType,
           flags, list, world
<1>4. CASE CheckFails
  <2>1. queued_hotplug_event' \in BOOLEAN
    BY <1>4, Zenon DEF CheckFails, IInv, Types, ListType, FlagType
  <2> QED
    BY <1>4, <2>1, ReportKeeps, Zenon DEF CheckFails
<1> QED
  BY <1>1, <1>2, <1>3, <1>4, Zenon DEF Checking

\* The answers to the boxes
LEMMA AnsweringKeeps == IInv /\ Answering => IInv'
<1> SUFFICES ASSUME IInv, Answering PROVE IInv'
  OBVIOUS
<1>1. CASE CloseRefusal
  <2>1. BoxType' /\ (Confirming' <=> Confirming)
    BY <1>1, BoxCloses, Zenon DEF CloseRefusal, IInv, Types, Boxes
  <2>2. UNCHANGED <<ErrorStatus, thread, boot, scan, other, flags, list, world, msgs, shown, op>>
    BY <1>1, Zenon DEF CloseRefusal, workers, history
  <2>3. Operation'
    BY <2>1, <2>2, OperationStays, Zenon DEF flags, list
  <2> QED
    BY <2>1, <2>2, <2>3
       DEF IInv, Types, StatusType, ThreadType, OpType, FlagType, WorkerType, ListType, flags, list, world
<1>2. CASE Declined
  <2>1. /\ Top = "confirm" /\ Pop /\ AbortedStart
        /\ UNCHANGED <<ErrorStatus, thread, boot, scan, other, format_thread, no_confirmation_on_cancel,
                       IDCANCEL, world, msgs, shown>>
    BY <1>2, Zenon DEF Declined, workers
  <2>2. BoxType' /\ ~Confirming' /\ ~boot /\ ~Working /\ msgs = <<>> /\ format_thread = NULL
    BY <2>1, OnlyConfirmation, Zenon
  <2>3. OpType' /\ FlagType' /\ ListType' /\ ~op_in_progress' /\ ~zero_drive'
    BY <2>1, AbortedStartTypes, Zenon
  <2>4. Operation'
    <3>1. ~Working'
      BY <2>1, <2>2, Zenon DEF Working
    <3> QED
      BY <2>1, <2>2, <2>3, <3>1, OperationOver, Zenon
  <2> QED
    BY <2>1, <2>2, <2>3, <2>4 DEF IInv, Types, StatusType, ThreadType, WorkerType
<1>3. CASE Confirmed
  <2>1. /\ Top = "confirm" /\ Pop /\ format_thread' = "format"
        /\ UNCHANGED <<ErrorStatus, boot, scan, other, op_in_progress, zero_drive,
                       no_confirmation_on_cancel, IDCANCEL, list, world, msgs, shown, op>>
    BY <1>3, Zenon DEF Confirmed, history
  <2>2. PICK job \in Jobs : thread' = FormatThread(job, sel) /\ (job = "zero" => zero_drive)
    BY <1>3, Zenon DEF Confirmed, Jobs
  <2>3. /\ BoxType' /\ Confirming /\ ~Confirming'
        /\ ~boot /\ ~Working /\ msgs = <<>>
    BY <2>1, OnlyConfirmation, Zenon
  <2>4. thread' = [job |-> job, k |-> 1, device |-> sel, out |-> "-", need_logical |-> FALSE]
    BY <2>2, ZenonT(60) DEF FormatThread, NoThread
  <2>5. thread'.job = job /\ thread'.device = sel /\ ThreadType'
    <3>1. sel \in Devices \cup {None}
      BY Zenon DEF IInv, Types, ListType
    <3> QED
      BY <2>4, <3>1 DEF ThreadType, Outs
  <2>6. Working' /\ Active /\ Active' /\ other' = "no"
    BY <2>1, <2>3, <2>5, ActiveIs, Zenon DEF Working
  <2>7. \A msg : ~Pending(msg)'
    <3>1. ASSUME NEW n \in Messages PROVE msgs' # <<n>>
      BY <2>1, <2>3, Zenon
    <3> QED
      BY <3>1, Zenon DEF Pending
  <2>8. Exclusive' /\ ThreadHandle'
    BY <2>1, <2>3, <2>6, Zenon DEF Exclusive, ThreadHandle, NULL
  <2>9. Controls'
    BY <2>1, <2>3, <2>6, <2>7, Zenon DEF Controls, IInv, Operation
  <2>10. Faithful'
    BY <2>1, <2>2, <2>3, <2>5, <2>6, Zenon DEF Faithful, list, IInv, Operation
  <2>11. FlagType'
    BY <2>1, Zenon DEF IInv, Types, FlagType
  <2> QED
    BY <2>1, <2>3, <2>5, <2>8, <2>9, <2>10, <2>11
       DEF IInv, Types, Operation, StatusType, OpType, WorkerType, ListType, list, world
<1>4. CASE ConfirmedNoThread
  <2>1. /\ Top = "confirm" /\ Pop /\ AbortedStart /\ PostMessage(UM_FORMAT_COMPLETED("FALSE"))
        /\ ErrorStatus' = "error"
        /\ UNCHANGED <<thread, boot, scan, other, format_thread, no_confirmation_on_cancel,
                       IDCANCEL, world, shown>>
    BY <1>4, Zenon DEF ConfirmedNoThread, workers
  <2>2. /\ BoxType' /\ Confirming /\ ~Confirming' /\ ~boot /\ ~Working /\ format_thread = NULL
        /\ msgs' = <<UM_FORMAT_COMPLETED("FALSE")>>
    BY <2>1, OnlyConfirmation, MessageSent, Zenon
  <2>3. /\ OpType' /\ FlagType' /\ ListType' /\ ~op_in_progress' /\ ~zero_drive' /\ op'.mixed = op.mixed
    BY <2>1, AbortedStartTypes, Zenon
  <2>4. ~Working' /\ Active
    BY <2>1, <2>2, ActiveIs, Zenon DEF Working
  <2>5. \A msg : Pending(msg)' <=> msg = "UM_FORMAT_COMPLETED"
    <3>1. \A n : msgs' = <<n>> => n = UM_FORMAT_COMPLETED("FALSE")
      BY <2>2, Zenon
    <3> QED
      BY <2>2, <3>1, MessagesAre, Zenon DEF Pending
  <2>6. msgs' # <<UM_FORMAT_START("PROCEED")>>
    <3>1. UM_FORMAT_START("PROCEED") # UM_FORMAT_COMPLETED("FALSE")
      BY MessagesAre, Zenon
    <3> QED
      BY <2>2, <3>1, Zenon
  <2>7. Exclusive' /\ ThreadHandle'
    BY <2>1, <2>2, <2>4, MessagesAre, Zenon DEF Exclusive, ThreadHandle, Working
  <2>8. Controls'
    BY <2>1, <2>2, <2>3, <2>4, <2>5, Zenon DEF Controls, IInv, Operation
  <2>9. Faithful'
    BY <2>2, <2>3, <2>4, <2>6, Zenon DEF Faithful, Working, Jobs
  <2> QED
    BY <2>1, <2>2, <2>3, <2>7, <2>8, <2>9 DEF IInv, Types, Operation, StatusType, ThreadType, WorkerType
<1>5. CASE CancelYes \/ CancelNo
  <2>1. BoxType' /\ (Confirming' <=> Confirming)
    BY <1>5, BoxCloses, Zenon DEF CancelYes, CancelNo, IInv, Types, Boxes
  <2>2. /\ UNCHANGED <<thread, boot, scan, other, op_in_progress, format_thread, zero_drive, list, world,
                       msgs, shown>>
        /\ IDCANCEL' \in BOOLEAN /\ no_confirmation_on_cancel' = FALSE
        /\ ErrorStatus' \in {"cancelled", ErrorStatus}
    BY <1>5, Zenon DEF CancelYes, CancelNo, Cancelled, workers, history, IInv, Types, FlagType
  <2>3. op' = op \/ Cancelled
    BY <1>5, Zenon DEF CancelYes, CancelNo, history
  <2>4. /\ OpType' /\ op'.mixed = op.mixed /\ op'.leftover = op.leftover /\ op'.asked = op.asked
        /\ op'.confirmed = op.confirmed
    <3>1. CASE op' = op
      BY <3>1, Zenon DEF IInv, Types, OpType
    <3> QED
      BY <2>3, <3>1, CancelledOp, Zenon DEF IInv, Types
  <2>5. Operation'
    BY <2>1, <2>2, <2>4, OperationStays, Zenon DEF list
  <2>6. FlagType'
    BY <2>2, Zenon DEF IInv, Types, FlagType
  <2> QED
    BY <2>1, <2>2, <2>4, <2>5, <2>6
       DEF IInv, Types, StatusType, ThreadType, WorkerType, ListType, list, world
<1>6. CASE CloseReport
  <2>1. BoxType' /\ (Confirming' <=> Confirming)
    BY <1>6, BoxCloses, Zenon DEF CloseReport, IInv, Types, Boxes
  <2>2. /\ UNCHANGED <<thread, boot, scan, other, flags, list, world, msgs, shown, op>>
        /\ ErrorStatus' = "ok"
    BY <1>6, Zenon DEF CloseReport, workers, history
  <2>3. Operation'
    BY <2>1, <2>2, OperationStays, Zenon DEF flags, list
  <2> QED
    BY <2>1, <2>2, <2>3
       DEF IInv, Types, StatusType, ThreadType, OpType, FlagType, WorkerType, ListType, flags, list, world
<1> QED
  BY <1>1, <1>2, <1>3, <1>4, <1>5, <1>6, Zenon DEF Answering

\* Cancel is pressed, with or without a question.
LEMMA PressCancelKeeps == IInv /\ PressCancel => IInv'
<1> SUFFICES ASSUME IInv, PressCancel PROVE IInv'
  OBVIOUS
<1>1. BoxType' /\ (Confirming' <=> Confirming)
  <2>1. boxes' = boxes \/ boxes' = Append(boxes, "cancel?")
    BY Zenon DEF PressCancel
  <2> QED
    BY <2>1, BoxesSame, BoxOpens, Zenon DEF IInv, Types, Boxes
<1>2. UNCHANGED <<thread, boot, scan, other, op_in_progress, format_thread, zero_drive, list, world,
                  msgs, shown>>
  BY Zenon DEF PressCancel, workers
<1>3. /\ IDCANCEL' \in BOOLEAN /\ no_confirmation_on_cancel' \in BOOLEAN
      /\ ErrorStatus' \in {"cancelled", ErrorStatus}
  BY Zenon DEF PressCancel, Cancelled, IInv, Types, FlagType
<1>4. op' = op \/ Cancelled
  BY Zenon DEF PressCancel
<1>5. /\ OpType' /\ op'.mixed = op.mixed /\ op'.leftover = op.leftover /\ op'.asked = op.asked
      /\ op'.confirmed = op.confirmed
  <2>1. CASE op' = op
    BY <2>1, Zenon DEF IInv, Types, OpType
  <2> QED
    BY <1>4, <2>1, CancelledOp, Zenon DEF IInv, Types
<1>6. Operation'
  BY <1>1, <1>2, <1>5, OperationStays, Zenon DEF list
<1>7. FlagType'
  BY <1>2, <1>3, Zenon DEF IInv, Types, FlagType
<1> QED
  BY <1>1, <1>2, <1>3, <1>5, <1>6, <1>7
     DEF IInv, Types, StatusType, ThreadType, WorkerType, ListType, list, world

(***************************************************************************)
(* The threads                                                             *)
(***************************************************************************)
\* FormatThread stays with its job and its drive.
LEMMA ThreadStays ==
    ASSUME ThreadType, StatusType, ThreadStep
    PROVE  /\ ThreadType' /\ thread'.job = thread.job /\ thread'.device = thread.device
           /\ ErrorStatus' \in {"ok", "cancelled", "error"}
<1> DEFINE Stays == ThreadType' /\ thread'.job = thread.job /\ thread'.device = thread.device
<1>1. Stays
  <2>1. thread.job \in Jobs
    BY Zenon DEF ThreadStep, StepSucceeds, CheckForCancel, StepFails, BadBlocksFound, StepTolerated,
           DeletePartitionFails, WriteDrive, Running
  <2>2. ASSUME NEW why \in Outs, GotoOut(why) PROVE Stays
    BY <2>1, <2>2, Zenon DEF GotoOut, ThreadType
  <2>3. ASSUME NEW k \in Int, thread' = [thread EXCEPT !.k = k] PROVE Stays
    BY <2>1, <2>3, Zenon DEF ThreadType
  <2>4. CASE StepDone
    <3>1. thread.k + 1 \in Int /\ "end" \in Outs
      BY DEF ThreadType, Outs
    <3>2. thread' = [thread EXCEPT !.k = thread.k + 1] \/ GotoOut("end")
      BY <2>4, Zenon DEF StepDone, GotoOut
    <3> HIDE DEF Stays
    <3> QED
      BY <2>2, <2>3, <3>1, <3>2, Zenon
  <2>5. CASE thread' = [thread EXCEPT !.k = @ - 2]
    <3>1. thread.k - 2 \in Int
      BY DEF ThreadType
    <3> HIDE DEF Stays
    <3> QED
      BY <2>3, <2>5, <3>1, Zenon
  <2>6. CASE DeletePartitionFails
    <3> DEFINE t == [thread EXCEPT !.k = thread.k + 1]
               Threads == [job : Jobs \cup {"none"}, k : Int, device : Devices \cup {None}, out : Outs,
                           need_logical : BOOLEAN]
    <3>1. t \in Threads /\ t.job = thread.job /\ t.device = thread.device
      BY DEF ThreadType
    <3>2. thread' = [t EXCEPT !.need_logical = TRUE]
      BY <2>6, Zenon DEF DeletePartitionFails
    <3> HIDE DEF t
    <3>3. thread' \in Threads /\ thread'.job = t.job /\ thread'.device = t.device
      BY <3>1, <3>2, Zenon
    <3> QED
      BY <2>1, <3>1, <3>3, Zenon DEF ThreadType
  <2>7. ASSUME NEW why \in {"cancel", "fail", "bare", "end", "silent"}, GotoOut(why) PROVE Stays
    <3>1. why \in Outs
      BY Zenon DEF Outs
    <3> HIDE DEF Stays
    <3> QED
      BY <2>2, <2>7, <3>1, Zenon
  <2> HIDE DEF Stays
  <2> QED
    BY <2>4, <2>5, <2>6, <2>7, Zenon
       DEF ThreadStep, StepSucceeds, CheckForCancel, StepFails, BadBlocksFound, StepTolerated, WriteDrive
<1>2. ErrorStatus' \in {"ok", "cancelled", "error"}
  BY Zenon DEF ThreadStep, StepSucceeds, CheckForCancel, StepFails, BadBlocksFound, StepTolerated, WriteDrive,
         DeletePartitionFails, StatusType
<1> QED
  BY <1>1, <1>2, Zenon

\* A step of FormatThread, its last one included
LEMMA FormatThreadKeeps == IInv /\ FormatThreadStep => IInv'
<1> SUFFICES ASSUME IInv, FormatThreadStep PROVE IInv'
  OBVIOUS
<1>1. /\ UNCHANGED <<boot, scan, other, flags, list, world, msgs, boxes, shown>>
      /\ OpType' /\ op'.mixed = op.mixed /\ op'.leftover = op.leftover /\ op'.asked = op.asked
      /\ op'.confirmed = op.confirmed
  BY NotingOp, Zenon DEF FormatThreadStep, IInv, Types, Losers
<1>2. /\ ThreadType' /\ thread'.job = thread.job /\ thread'.device = thread.device
      /\ ErrorStatus' \in {"ok", "cancelled", "error"}
  BY ThreadStays, Zenon DEF FormatThreadStep, IInv, Types
<1>3. BoxType' /\ (Confirming' <=> Confirming)
  BY <1>1, BoxesSame, Zenon DEF IInv, Types
<1>4. Operation'
  BY <1>1, <1>2, <1>3, OperationStays, Zenon DEF flags, list
<1> QED
  BY <1>1, <1>2, <1>3, <1>4
     DEF IInv, Types, StatusType, FlagType, WorkerType, ListType, flags, list, world

\* A download writes the status, and nothing else that the operation is.
LEMMA DownloadingKeeps == IInv /\ Downloading => IInv'
<1> SUFFICES ASSUME IInv, Downloading PROVE IInv'
  OBVIOUS
<1>1. /\ UNCHANGED <<thread, boot, scan, other, flags, list, world, msgs, boxes, shown>>
      /\ ErrorStatus' \in {"ok", "cancelled", "error"} /\ \E who \in Losers : Noting(who)
  BY Zenon DEF Downloading, CheckDownload, BackgroundDownload, workers, Losers
<1>2. /\ OpType' /\ op'.mixed = op.mixed /\ op'.leftover = op.leftover /\ op'.asked = op.asked
      /\ op'.confirmed = op.confirmed
  BY <1>1, NotingOp, Zenon DEF IInv, Types
<1>3. BoxType' /\ (Confirming' <=> Confirming)
  BY <1>1, BoxesSame, Zenon DEF IInv, Types
<1>4. Operation'
  BY <1>1, <1>2, <1>3, OperationStays, Zenon DEF flags, list
<1> QED
  BY <1>1, <1>2, <1>3, <1>4
     DEF IInv, Types, StatusType, ThreadType, FlagType, WorkerType, ListType, flags, list, world

\* A worker that ends posts the one message that is left of its operation.
LEMMA WorkerEnds ==
    ASSUME IInv, Working, other' = "no", thread'.job = "none", NEW w \in {"TRUE", "FALSE"},
           PostMessage(UM_FORMAT_COMPLETED(w)), UNCHANGED <<boot, scan, flags, list, boxes>>,
           op'.mixed = op.mixed, op'.leftover = op.leftover, op'.asked = op.asked
    PROVE  BoxType' /\ Operation'
<1>1. ~boot /\ msgs = <<>> /\ ~Confirming
  BY Zenon DEF IInv, Operation, Exclusive
<1>2. BoxType' /\ ~Confirming' /\ msgs' = <<UM_FORMAT_COMPLETED(w)>>
  BY <1>1, BoxesSame, MessageSent, Zenon DEF IInv, Types
<1>3. ~Working' /\ Active /\ Active'
  BY <1>2, ActiveIs, Zenon DEF Working, Jobs
<1>4. \A msg : Pending(msg)' <=> msg = "UM_FORMAT_COMPLETED"
  <2>1. \A n : msgs' = <<n>> => n = UM_FORMAT_COMPLETED(w)
    BY <1>2, Zenon
  <2> QED
    BY <1>2, <2>1, MessagesAre, Zenon DEF Pending
<1>5. msgs' # <<UM_FORMAT_START("PROCEED")>>
  <2>1. UM_FORMAT_START("PROCEED") # UM_FORMAT_COMPLETED(w)
    BY MessagesAre, Zenon
  <2> QED
    BY <1>2, <2>1, Zenon
<1>6. Exclusive'
  BY <1>1, <1>2, <1>3, MessagesAre, Zenon DEF Exclusive
<1>7. ThreadHandle'
  BY <1>3, <1>4, Zenon DEF ThreadHandle
<1>8. Controls'
  BY <1>1, <1>2, <1>3, <1>4, Zenon DEF Controls, flags, IInv, Operation
<1>9. Faithful'
  BY <1>2, <1>3, <1>5, Zenon DEF Faithful, flags, Jobs, IInv, Operation
<1> QED
  BY <1>2, <1>6, <1>7, <1>8, <1>9, Zenon DEF Operation

\* A worker's last message is dispatched.
LEMMA CompletingKeeps == IInv /\ Completing => IInv'
<1> SUFFICES ASSUME IInv, Completing PROVE IInv'
  OBVIOUS
<1>1. CASE FormatThreadExits
  <2>1. /\ thread.out # "-" /\ thread' = NoThread /\ PostMessage(UM_FORMAT_COMPLETED("TRUE"))
        /\ op' = [op EXCEPT !.out = thread.out]
        /\ UNCHANGED <<ErrorStatus, boot, scan, other, flags, list, world, boxes, shown>>
    BY <1>1, Zenon DEF FormatThreadExits
  <2>2. thread.job \in Jobs
    BY <2>1, Zenon DEF IInv, Types, ThreadType
  <2>3. thread'.job = "none" /\ ThreadType'
    BY <2>1 DEF NoThread, ThreadType, Outs
  <2>4. /\ OpType' /\ op'.mixed = op.mixed /\ op'.leftover = op.leftover /\ op'.asked = op.asked
    BY <2>1, Zenon DEF IInv, Types, OpType, ThreadType
  <2>5. other' = "no" /\ Working
    BY <2>1, <2>2, Zenon DEF IInv, Operation, Exclusive, Working, Jobs
  <2>6. BoxType' /\ Operation'
    BY <2>1, <2>3, <2>4, <2>5, WorkerEnds, Zenon
  <2> QED
    BY <2>1, <2>3, <2>4, <2>6 DEF IInv, Types, StatusType, FlagType, WorkerType, ListType, flags, list,
       world, NoThread
<1>2. CASE OtherExits
  <2>1. /\ other # "no" /\ other' = "no"
        /\ UNCHANGED <<thread, boot, scan, flags, list, world, boxes, shown>>
    BY <1>2, Zenon DEF OtherExits
  <2>2. PICK out \in {"end", "fail", "cancel", "bare"} :
          ErrorStatus' \in {"error", ErrorStatus} /\ op' = [op EXCEPT !.out = out]
    BY <1>2, Zenon DEF OtherExits
  <2>3. PICK w \in {"TRUE", "FALSE"} : PostMessage(UM_FORMAT_COMPLETED(w))
    BY <1>2, Zenon DEF OtherExits
  <2>4. Working /\ thread'.job = "none"
    BY <2>1, Zenon DEF Working, IInv, Operation, Exclusive
  <2>5. OpType' /\ op'.mixed = op.mixed /\ op'.leftover = op.leftover /\ op'.asked = op.asked
    BY <2>2, Zenon DEF IInv, Types, OpType, Outs
  <2>6. BoxType' /\ Operation'
    BY <2>1, <2>3, <2>4, <2>5, WorkerEnds, Zenon
  <2> QED
    BY <2>1, <2>2, <2>5, <2>6
       DEF IInv, Types, StatusType, ThreadType, FlagType, WorkerType, ListType, flags, list, world
<1>3. ASSUME NEW w \in {"TRUE", "FALSE"}, FormatCompleted(w) PROVE IInv'
  <2>1. queued_hotplug_event' \in BOOLEAN /\ ErrorStatus \in {"ok", "cancelled", "error"}
    BY <1>3, Zenon DEF FormatCompleted, IInv, Types, ListType, StatusType
  <2> QED
    BY <1>3, <2>1, ReportKeeps, Zenon DEF FormatCompleted
<1> QED
  BY <1>1, <1>2, <1>3, Zenon DEF Completing

(***************************************************************************)
(* Image scans                                                             *)
(***************************************************************************)
LEMMA ScanningKeeps == IInv /\ Scanning => IInv'
<1> SUFFICES ASSUME IInv, Scanning PROVE IInv'
  OBVIOUS
<1> DEFINE Moves == /\ UNCHANGED <<thread, boot, other, format_thread, zero_drive, no_confirmation_on_cancel,
                                   IDCANCEL, list, world, msgs, boxes, shown>>
                    /\ ErrorStatus' \in {"ok", "error", ErrorStatus}
                    /\ scan' \in {"no", "download", "started", "running"}
                    /\ op_in_progress' \in BOOLEAN
<1>1. Moves
  <2>1. CASE IDC_SELECT
    BY <2>1, Zenon DEF IDC_SELECT, DownloadISO, EnableControls, IInv, Types, WorkerType, FlagType
  <2>2. CASE DownloadISOEnds
    BY <2>2, Zenon DEF DownloadISOEnds, EnableControls, history
  <2>3. CASE ScanBegins \/ ScanEnds
    BY <2>3, Zenon DEF ScanBegins, ScanEnds, EnableControls, history
  <2> QED
    BY <2>1, <2>2, <2>3, Zenon DEF Scanning
<1>2. BoxType' /\ (Confirming' <=> Confirming)
  BY <1>1, BoxesSame, Zenon DEF IInv, Types
<1>3. (Working' <=> Working) /\ (Active' <=> Active) /\ \A msg : Pending(msg)' <=> Pending(msg)
  BY <1>1, <1>2, ActiveIs, Zenon DEF Working, Pending
<1>4. /\ OpType' /\ op'.leftover = op.leftover /\ op'.asked = op.asked /\ op'.confirmed = op.confirmed
      /\ op'.mixed = (op.mixed \/ (IDC_SELECT /\ Active))
  <2>1. CASE IDC_SELECT
    <3>1. op' = [op EXCEPT !.mixed = @ \/ Active]
      BY <2>1, Zenon DEF IDC_SELECT
    <3>2. (op.mixed \/ Active) \in BOOLEAN
      OBVIOUS
    <3> QED
      BY <2>1, <3>1, <3>2, Zenon DEF IInv, Types, OpType
  <2>2. CASE ~IDC_SELECT
    <3>1. op' = op
      BY <2>2, Zenon DEF Scanning, DownloadISOEnds, ScanBegins, ScanEnds, history
    <3> QED
      BY <2>2, <3>1, Zenon DEF IInv, Types, OpType
  <2> QED
    BY <2>1, <2>2, Zenon
<1>5. Exclusive' /\ ThreadHandle'
  BY <1>1, <1>2, <1>3, Zenon DEF Exclusive, ThreadHandle, IInv, Operation
<1>6. Controls'
  <2> SUFFICES ASSUME ~op'.mixed PROVE Controls'
    BY Zenon DEF Controls
  <2>1. ~op.mixed /\ ~Active
    <3>1. CASE IDC_SELECT
      BY <1>4, <3>1, Zenon
    <3>2. CASE scan # "no"
      BY <1>4, <3>2, Zenon DEF IInv, Operation, Controls
    <3> QED
      BY <3>1, <3>2, Zenon DEF Scanning, DownloadISOEnds, ScanBegins, ScanEnds
  <2>2. op_in_progress' => scan' \in {"running", "download"}
    <3>1. CASE IDC_SELECT
      <4>1. scan = "no" /\ ~op_in_progress
        <5>1. scan = "no"
          BY <3>1, Zenon DEF IDC_SELECT
        <5> QED
          BY <2>1, <5>1, Zenon DEF IInv, Operation, Controls
      <4> QED
        BY <3>1, <4>1, Zenon DEF IDC_SELECT, DownloadISO, EnableControls
    <3>2. CASE ScanBegins
      BY <3>2, Zenon DEF ScanBegins
    <3>3. CASE DownloadISOEnds \/ ScanEnds
      BY <3>3, Zenon DEF DownloadISOEnds, ScanEnds, EnableControls
    <3> QED
      BY <3>1, <3>2, <3>3, Zenon DEF Scanning
  <2>3. ~boot' /\ ~Working' /\ ~Confirming' /\ msgs' = <<>> /\ ~Active'
    BY <1>1, <1>2, <1>3, <2>1, ActiveIs, Zenon
  <2>4. \A msg : ~Pending(msg)'
    <3>1. ASSUME NEW n \in Messages PROVE msgs' # <<n>>
      BY <2>3, Zenon
    <3> QED
      BY <3>1, Zenon DEF Pending
  <2> QED
    BY <2>2, <2>3, <2>4, Zenon DEF Controls
<1>7. Faithful'
  BY <1>1, <1>2, <1>3, <1>4, Zenon DEF Faithful, list, IInv, Operation
<1>8. FlagType' /\ WorkerType'
  BY <1>1, <1>4, Zenon DEF IInv, Types, FlagType, WorkerType
<1> QED
  BY <1>1, <1>2, <1>4, <1>5, <1>6, <1>7, <1>8
     DEF IInv, Types, Operation, StatusType, ThreadType, ListType, list, world

-----------------------------------------------------------------------------
\* The program has started.
LEMMA InitIInv == Init => IInv
<1> SUFFICES ASSUME Init PROVE IInv
  OBVIOUS
<1> USE DEF Init
<1>1. StatusType /\ ThreadType /\ OpType
  BY DEF StatusType, ThreadType, OpType, NoThread, NewOp, Asked, Outs
<1>2. FlagType /\ WorkerType
  BY Zenon DEF FlagType, WorkerType
<1>3. ListType
  <2>1. First(plugged) \in plugged \cup {None}
    BY Zenon DEF First
  <2> QED
    BY <2>1, Zenon DEF ListType
<1>4. BoxType /\ ~Confirming
  BY SMTT(30) DEF BoxType, Confirming, Range
<1>5. ~boot /\ ~Working /\ msgs = <<>> /\ format_thread = NULL /\ ~op_in_progress /\ ~zero_drive
  BY Zenon DEF Working, NoThread, Jobs
<1>6. ~Active /\ \A msg : ~Pending(msg)
  BY <1>4, <1>5, ActiveIs, PendingNone, Zenon
<1>7. Exclusive /\ ThreadHandle /\ Controls
  BY <1>4, <1>5, <1>6, Zenon DEF Exclusive, ThreadHandle, Controls
<1>8. Faithful
  BY <1>4, <1>5 DEF Faithful, Working, Jobs
<1> QED
  BY <1>1, <1>2, <1>3, <1>4, <1>7, <1>8, Zenon DEF IInv, Types, Operation

\* Every step keeps the invariant, whoever takes it.
LEMMA StepIInv == IInv /\ [Next]_vars => IInv'
<1> SUFFICES ASSUME IInv, [Next]_vars PROVE IInv'
  OBVIOUS
<1>1. CASE UNCHANGED vars
  <2>1. UNCHANGED <<ErrorStatus, thread, boot, scan, other, flags, list, world, msgs, boxes, shown, op>>
    BY <1>1, Zenon DEF vars, workers, history
  <2>2. BoxType' /\ (Confirming' <=> Confirming)
    BY <2>1, BoxesSame, Zenon DEF IInv, Types
  <2>3. Operation'
    BY <2>1, <2>2, OperationStays, Zenon DEF flags, list
  <2> QED
    BY <2>1, <2>2, <2>3
       DEF IInv, Types, StatusType, ThreadType, OpType, FlagType, WorkerType, ListType, flags, list, world
<1> QED
  BY <1>1, DevicelistKeeps, AskingKeeps, CheckingKeeps, AnsweringKeeps, PressCancelKeeps, FormatThreadKeeps,
     CompletingKeeps, DownloadingKeeps, ScanningKeeps, Zenon DEF Next

\* IInv holds throughout, whatever is asked for, plugged in, cancelled or dropped.
THEOREM Invariance == Spec => []IInv
  BY InitIInv, StepIInv, PTL DEF Spec

\* The globals of rufus.c, the posted messages and the boxes keep to their types,
\* and the drive selected is one of those listed (dev.c, GetDevices).
THEOREM TypeCorrect == Spec => []TypeOK
<1>1. IInv => TypeOK
  <2> SUFFICES ASSUME IInv PROVE TypeOK
    OBVIOUS
  <2>1. Range(msgs) \subseteq Messages
    BY DEF IInv, Operation, Exclusive, Range
  <2>2. Range(boxes) \subseteq Boxes
    BY DEF IInv, Types, BoxType, Range
  <2>3. thread.job \in Jobs \cup {"none"} /\ thread.device \in Devices \cup {None}
    BY Zenon DEF IInv, Types, ThreadType
  <2>4. {op_in_progress, zero_drive, queued_hotplug_event, no_confirmation_on_cancel, IDCANCEL, arrival, boot}
           \subseteq BOOLEAN
    BY Zenon DEF IInv, Types, FlagType, ListType, WorkerType
  <2> QED
    BY <2>1, <2>2, <2>3, <2>4, Zenon
       DEF IInv, Types, TypeOK, StatusType, FlagType, WorkerType, ListType, Boxes
<1> QED
  BY <1>1, Invariance, PTL

\* OneOperation, for any number of operations and drives: MainCallback lets no
\* second operation begin before UM_FORMAT_COMPLETED or an aborted start has
\* ended the first, the controls are off meanwhile, and format_thread is its.
THEOREM OneAtATime == Spec => []OneOperation
<1>1. IInv => OneOperation
  <2> SUFFICES ASSUME IInv, ~op.mixed PROVE OneOperation
    BY Zenon DEF OneOperation
  <2> USE DEF IInv, Operation
  <2>1. Len(msgs) <= 1
    <3>1. CASE msgs = <<>>
      BY <3>1
    <3>2. CASE \E m \in Messages : msgs = <<m>>
      BY <3>2
    <3> QED
      BY <3>1, <3>2, Zenon DEF Exclusive
  <2>2. Confirming <=> "confirm" \in Range(boxes)
    BY Zenon DEF Confirming
  <2>3. format_thread # NULL => Active
    <3>1. Pending("UM_FORMAT_COMPLETED") => msgs # <<>>
      BY PendingNone, Zenon
    <3> QED
      BY <3>1, ActiveIs, Zenon DEF ThreadHandle
  <2> QED
    BY <2>1, <2>2, <2>3, Zenon DEF OneOperation, Exclusive, ThreadHandle, Controls
<1> QED
  BY <1>1, Invariance, PTL

\* FormatsAsConfirmed, for any drives and events: FormatThread gets the drive that
\* the confirmation named, though rufus.c passes it by the global selection, and
\* zeroes it only if zero_drive was set for it or left over.
THEOREM FormatsTheConfirmed == Spec => []FormatsAsConfirmed
<1>1. IInv => FormatsAsConfirmed
  BY Zenon DEF IInv, Operation, Faithful, FormatsAsConfirmed
<1> QED
  BY <1>1, Invariance, PTL

-----------------------------------------------------------------------------
(***************************************************************************)
(* Why a success that the dialog reports is one, though ErrorStatus is one *)
(* variable that every thread writes, for any drives, operations, events.  *)
(***************************************************************************)
(***************************************************************************)
(* The status                                                              *)
(***************************************************************************)
Reporting == "report" \in Range(boxes)
DoneFor == /\ op.out \in {"end", "silent", "bare"} \/ "background" \in op.lost
           /\ op.cancelled => op.lost # {}

\* A report is of an operation that is over, and so is its box.
Reported == /\ shown # "none" => ~Active
            /\ Reporting => shown # "none"

\* What ErrorStatus says of the operation wherever it is: a cancellation, or a
\* failure with a status, stays in it until somebody resets it, who is known.
StatusKept ==
    ~op.mixed =>
        /\ Pending("IDC_START") => ~op.cancelled
        /\ Active /\ op.cancelled => IS_ERROR \/ op.lost # {}
        /\ thread.out \in {"fail", "cancel"} => IS_ERROR \/ "background" \in op.lost
        /\ Pending("UM_FORMAT_COMPLETED") => IS_ERROR \/ DoneFor
        /\ shown = "ok" => DoneFor

SInv == Reported /\ StatusKept

\* What opening, closing and answering boxes does to the report's
LEMMA BoxesReport ==
    ASSUME BoxType
    PROVE  /\ \A box \in Boxes : boxes' = Append(boxes, box) => (Reporting' <=> Reporting \/ box = "report")
           /\ Top # "none" /\ Pop => (Reporting' => Reporting)
           /\ Top = "report" => Reporting
           /\ boxes' = [i \in DOMAIN boxes |-> IF boxes[i] = "cancel?" THEN "closed" ELSE boxes[i]]
                 => (Reporting' => Reporting)
           /\ boxes' = boxes => (Reporting' <=> Reporting)
<1> USE DEF BoxType
<1>1. Len(boxes) \in Nat /\ DOMAIN boxes = 1 .. Len(boxes)
  OBVIOUS
<1>2. Reporting <=> \E i \in 1 .. Len(boxes) : boxes[i] = "report"
  BY <1>1, Zenon DEF Reporting, Range
<1>3. Reporting' <=> \E i \in DOMAIN boxes' : boxes'[i] = "report"
  BY Zenon DEF Reporting, Range
<1>4. ASSUME NEW box \in Boxes, boxes' = Append(boxes, box) PROVE Reporting' <=> Reporting \/ box = "report"
  <2>1. /\ DOMAIN boxes' = 1 .. Len(boxes) + 1 /\ boxes'[Len(boxes) + 1] = box
        /\ \A i \in 1 .. Len(boxes) : boxes'[i] = boxes[i]
    BY <1>4
  <2> QED
    BY <1>1, <1>2, <1>3, <2>1
<1>5. ASSUME Top # "none", Pop PROVE Reporting' => Reporting
  <2>1. boxes # <<>>
    BY <1>5, Zenon DEF Top
  <2>2. Len(boxes) > 0 /\ DOMAIN boxes' = 1 .. Len(boxes) - 1 /\ \A i \in 1 .. Len(boxes) - 1 : boxes'[i] = boxes[i]
    BY <1>5, <2>1 DEF Pop
  <2> QED
    BY <1>1, <1>2, <1>3, <2>2
<1>6. ASSUME Top = "report" PROVE Reporting
  <2>1. boxes # <<>> /\ boxes[Len(boxes)] = "report"
    BY <1>6, Zenon DEF Top
  <2> QED
    BY <1>1, <1>2, <2>1
<1>7. ASSUME boxes' = [i \in DOMAIN boxes |-> IF boxes[i] = "cancel?" THEN "closed" ELSE boxes[i]], Reporting'
      PROVE  Reporting
  BY <1>1, <1>2, <1>3, <1>7, Zenon
<1>8. boxes' = boxes => (Reporting' <=> Reporting)
  BY Zenon DEF Reporting, Range
<1> QED
  BY <1>4, <1>5, <1>6, <1>7, <1>8, Zenon

\* Steps that leave the operation and the status where they are
LEMMA StatusStays ==
    ASSUME IInv, SInv, UNCHANGED <<ErrorStatus, thread, boot, other, msgs, shown>>,
           Confirming' <=> Confirming, Reporting' => Reporting,
           op'.cancelled = op.cancelled, op'.out = op.out, op'.lost = op.lost, op.mixed => op'.mixed
    PROVE  SInv'
<1>1. (Working' <=> Working) /\ \A msg : Pending(msg)' <=> Pending(msg)
  BY Zenon DEF Working, Pending
<1>2. Active' <=> Active
  BY <1>1, ActiveIs, Zenon
<1>3. Reported'
  BY <1>2, Zenon DEF SInv, Reported
<1>4. StatusKept'
  <2>1. (IS_ERROR' <=> IS_ERROR) /\ (DoneFor' <=> DoneFor)
    BY <1>1, Zenon DEF IS_ERROR, DoneFor
  <2> QED
    BY <1>1, <1>2, <2>1, Zenon DEF SInv, StatusKept
<1> QED
  BY <1>3, <1>4, Zenon DEF SInv

\* Steps after which nothing is under way
LEMMA StatusOver ==
    ASSUME IInv', ~boot', ~Working', msgs' = <<>>, ~Confirming', Reporting' => shown' # "none",
           shown' = "ok" /\ ~op'.mixed => DoneFor'
    PROVE  SInv'
<1>1. ~Active' /\ \A msg : ~Pending(msg)'
  <2>1. ASSUME NEW n \in Messages PROVE msgs' # <<n>>
    OBVIOUS
  <2> QED
    BY <2>1, ActiveIs, Zenon DEF Pending
<1>2. thread'.out = "-"
  BY Zenon DEF IInv, Types, ThreadType, Working, Outs
<1>3. Reported'
  BY <1>1, Zenon DEF Reported
<1>4. StatusKept'
  BY <1>1, <1>2, Zenon DEF StatusKept
<1> QED
  BY <1>3, <1>4, Zenon DEF SInv

\* A cancellation, which finds an operation or, when an image scan has disabled
\* the controls, none.
LEMMA StatusCancelled ==
    ASSUME IInv, SInv, Cancelled, UNCHANGED <<thread, boot, other, msgs, shown, format_thread, op_in_progress>>,
           format_thread # NULL \/ op_in_progress,
           Confirming' <=> Confirming, Reporting' => Reporting
    PROVE  SInv'
<1>1. (Working' <=> Working) /\ \A msg : Pending(msg)' <=> Pending(msg)
  BY Zenon DEF Working, Pending
<1>2. Active' <=> Active
  BY <1>1, ActiveIs, Zenon
<1>3. Reported'
  BY <1>2, Zenon DEF SInv, Reported
<1>4. IS_ERROR'
  BY Zenon DEF Cancelled, IS_ERROR
<1>5. op'.mixed = op.mixed /\ (~Active => op' = op)
  BY CancelledOp, Zenon DEF IInv, Types
<1>6. Pending("IDC_START") /\ ~op.mixed => FALSE
  <2>1. ASSUME Pending("IDC_START"), ~op.mixed PROVE FALSE
    <3>1. ~op_in_progress
      BY <2>1, Zenon DEF IInv, Operation, Controls
    <3>2. PICK m \in Messages : msgs = <<m>> /\ m.msg = "IDC_START"
      BY <2>1, Zenon DEF Pending
    <3>3. ~Pending("UM_FORMAT_COMPLETED") /\ msgs # <<>>
      BY <3>2, PendingIs
    <3>4. format_thread = NULL
      BY <3>3, Zenon DEF IInv, Operation, ThreadHandle, Exclusive
    <3> QED
      BY <3>1, <3>4, Zenon
  <2> QED
    BY <2>1, Zenon
<1>7. shown = "ok" /\ ~op.mixed => DoneFor'
  BY <1>5, Zenon DEF SInv, Reported, StatusKept, DoneFor
<1>8. StatusKept'
  BY <1>1, <1>4, <1>5, <1>6, <1>7, Zenon DEF StatusKept
<1> QED
  BY <1>3, <1>8, Zenon DEF SInv

\* The status is written by a thread that carries nothing on: what was in it is
\* still there, or the history says who took it.
LEMMA StatusNoted ==
    ASSUME IInv, SInv, UNCHANGED <<thread, boot, other, msgs, boxes, shown>>, NEW who \in Losers, Noting(who),
           who = "background" \/ boot, ErrorStatus' \in {"ok", "cancelled", "error"}
    PROVE  SInv'
<1>1. (Working' <=> Working) /\ \A msg : Pending(msg)' <=> Pending(msg)
  BY Zenon DEF Working, Pending
<1>2. (Confirming' <=> Confirming) /\ (Reporting' <=> Reporting)
  BY Zenon DEF Confirming, Reporting, Range
<1>3. (Active' <=> Active) /\ Reported'
  BY <1>1, <1>2, ActiveIs, Zenon DEF SInv, Reported
<1>4. /\ op'.mixed = op.mixed /\ op'.cancelled = op.cancelled /\ op'.out = op.out /\ op.lost \subseteq op'.lost
      /\ IS_ERROR /\ ErrorStatus' = "ok" /\ (op.cancelled \/ who = "background") => who \in op'.lost
  BY NotingOp, Zenon DEF IInv, Types
<1>5. (op.lost # {} => op'.lost # {}) /\ ("background" \in op.lost => "background" \in op'.lost)
  BY <1>4, Zenon
<1>6. DoneFor => DoneFor'
  BY <1>4, <1>5, Zenon DEF DoneFor
<1>7. boot => thread.out = "-" /\ ~Pending("UM_FORMAT_COMPLETED")
  <2>1. boot => ~Working /\ msgs = <<>>
    BY Zenon DEF IInv, Operation, Exclusive
  <2> QED
    BY <2>1, PendingNone, Zenon DEF IInv, Types, ThreadType, Working
<1>8. op.cancelled /\ (IS_ERROR \/ op.lost # {}) => IS_ERROR' \/ op'.lost # {}
  BY <1>4, <1>5, Zenon DEF IS_ERROR
<1>9. who = "background" /\ (IS_ERROR \/ "background" \in op.lost) => IS_ERROR' \/ "background" \in op'.lost
  BY <1>4, <1>5, Zenon DEF IS_ERROR
<1>10. ~op.mixed /\ Pending("UM_FORMAT_COMPLETED") => IS_ERROR' \/ DoneFor'
  <2>1. CASE IS_ERROR /\ who = "background"
    <3>1. IS_ERROR' \/ "background" \in op'.lost
      BY <1>9, <2>1, Zenon
    <3>2. "background" \in op'.lost => DoneFor'
      BY Zenon DEF DoneFor
    <3> QED
      BY <3>1, <3>2, Zenon
  <2> QED
    BY <1>6, <1>7, <2>1, Zenon DEF SInv, StatusKept
<1>11. StatusKept'
  BY <1>1, <1>3, <1>4, <1>6, <1>7, <1>8, <1>9, <1>10, Zenon DEF SInv, StatusKept
<1> QED
  BY <1>3, <1>11, Zenon DEF SInv

\* Drives come and go.
LEMMA DevicelistStatus == IInv /\ SInv /\ Devicelist => SInv'
<1> SUFFICES ASSUME IInv, SInv, Devicelist PROVE SInv'
  OBVIOUS
<1>1. UNCHANGED <<ErrorStatus, thread, boot, other, msgs, boxes, shown, op>>
  BY Zenon DEF Devicelist, WM_DEVICECHANGE, Hotplug, IDC_DEVICE, Refresh, workers, history
<1>2. (Confirming' <=> Confirming) /\ (Reporting' => Reporting)
  BY <1>1, Zenon DEF Confirming, Reporting, Range
<1> QED
  BY <1>1, <1>2, StatusStays, Zenon

\* IDC_START, posted or not, with the status of no operation before it
LEMMA StartStatus ==
    ASSUME IInv', BoxType, ~boot, ~Working, ~Confirming, ~Reporting, OnStart(<<>>),
           shown' = "none", ~op'.mixed => ~op'.cancelled
    PROVE  SInv'
<1>1. ~Working' /\ UNCHANGED <<thread, other>>
  BY Zenon DEF OnStart, Working
<1>2. CASE ValidationFails(<<>>)
  <2>1. ~boot' /\ msgs' = <<>> /\ boxes' = Append(boxes, "refused")
    BY <1>2, Zenon DEF ValidationFails
  <2>2. ~Confirming' /\ ~Reporting'
    BY <2>1, BoxOpens, BoxesReport, Zenon DEF Boxes
  <2> QED
    BY <1>1, <2>1, <2>2, StatusOver, Zenon
<1>3. CASE BuildFails(<<>>)
  <2>1. ~boot' /\ msgs' = <<>> /\ boxes' = boxes
    BY <1>3, Zenon DEF BuildFails
  <2>2. ~Confirming' /\ ~Reporting'
    BY <2>1, BoxesSame, BoxesReport, Zenon
  <2> QED
    BY <1>1, <2>1, <2>2, StatusOver, Zenon
<1>4. CASE StartChecks(<<>>)
  <2>1. boxes' = boxes /\ \/ ErrorStatus' = "ok" /\ boot' = TRUE /\ msgs' = <<>>
                          \/ ErrorStatus' = "error" /\ msgs' = <<UM_FORMAT_COMPLETED("FALSE")>> /\ boot' = boot
    BY <1>4 DEF StartChecks
  <2>2. ~Confirming' /\ ~Reporting'
    BY <2>1, BoxesSame, BoxesReport, Zenon
  <2>3. thread'.out = "-"
    BY <1>1, Zenon DEF IInv, Types, ThreadType, Working, Outs
  <2>4. Pending("UM_FORMAT_COMPLETED")' => ErrorStatus' = "error"
    <3>1. UM_FORMAT_COMPLETED("FALSE").msg = "UM_FORMAT_COMPLETED"
      BY MessagesAre, Zenon
    <3>2. ASSUME NEW n \in Messages, msgs' = <<n>> PROVE n = UM_FORMAT_COMPLETED("FALSE") /\ ErrorStatus' = "error"
      BY <2>1, <3>2, Zenon
    <3> QED
      BY <3>1, <3>2, Zenon DEF Pending
  <2>5. StatusKept'
    BY <2>3, <2>4, Zenon DEF StatusKept, IS_ERROR
  <2>6. Reported'
    BY <2>2, Zenon DEF Reported
  <2> QED
    BY <2>5, <2>6, Zenon DEF SInv
<1> QED
  BY <1>2, <1>3, <1>4, Zenon DEF OnStart

\* A new operation begins without a cancellation.
LEMMA RequestClears ==
    ASSUME IInv, NEW asked \in Asked, Request(asked)
    PROVE  /\ ~op'.cancelled /\ shown' = "none" /\ ~Reporting /\ boxes = <<>>
           /\ ~boot /\ ~Working /\ ~Confirming /\ msgs = <<>>
<1>1. boxes = <<>>
  BY Zenon DEF Request, Input
<1>2. ~Reporting
  BY <1>1 DEF Reporting, Range
<1>3. ~op'.cancelled
  BY Zenon DEF Request, NewOp
<1> QED
  BY <1>1, <1>2, <1>3, NothingUnderWay, Zenon

\* Start, zeroing, hashing and saving
LEMMA AskingStatus == IInv /\ SInv /\ Asking => SInv'
<1> SUFFICES ASSUME IInv, SInv, Asking PROVE SInv'
  OBVIOUS
<1>1. IInv'
  BY AskingKeeps, Zenon
<1>2. CASE PressStart
  BY <1>1, <1>2, RequestClears, StartStatus, Zenon DEF PressStart, Asked, IInv, Types
<1>3. CASE ZeroTheDrive
  <2>1. /\ ~op'.cancelled /\ shown' = "none" /\ ~Reporting /\ ~boot /\ ~Working /\ ~Confirming /\ msgs = <<>>
        /\ UNCHANGED <<thread, boot, other, boxes>> /\ PostMessage(IDC_START)
    BY <1>3, RequestClears, Zenon DEF ZeroTheDrive, Asked, workers
  <2>2. ~Confirming' /\ ~Reporting' /\ ~Working' /\ ~boot'
    BY <2>1, Zenon DEF Confirming, Reporting, Range, Working
  <2>3. \A n \in Messages : msgs' = <<n>> => n.msg = "IDC_START"
    <3>1. msgs' = <<IDC_START>>
      BY <2>1, MessageSent, Zenon
    <3>2. \A n \in Messages : msgs' = <<n>> => n = IDC_START
      BY <3>1, Zenon
    <3> QED
      BY <3>2, MessagesAre, Zenon
  <2>4. ~Pending("UM_FORMAT_COMPLETED")'
    BY <2>3, Zenon DEF Pending
  <2>5. thread'.out = "-"
    BY <1>1, <2>2, Zenon DEF IInv, Types, ThreadType, Working, Outs
  <2> QED
    BY <2>1, <2>2, <2>4, <2>5, Zenon DEF SInv, Reported, StatusKept
<1>4. CASE StartPosted
  <2>1. /\ Dispatched(IDC_START) /\ OnStart(Tail(msgs)) /\ shown' = shown
        /\ op' = [op EXCEPT !.leftover = @ \/ (boot' = boot /\ msgs' = Tail(msgs))]
    BY <1>4, Zenon DEF StartPosted
  <2>2. ~boot /\ ~Working /\ ~Confirming /\ Tail(msgs) = <<>> /\ Pending("IDC_START") /\ msgs # <<>>
    BY <2>1, OnlyMessage, MessagesAre, Zenon DEF Dispatched
  <2>3. shown = "none" /\ ~Reporting
    BY <2>2, ActiveIs, Zenon DEF SInv, Reported
  <2>4. op'.cancelled = op.cancelled /\ op'.mixed = op.mixed
    <3>1. PICK b : op' = [op EXCEPT !.leftover = b]
      BY <2>1, Zenon
    <3> QED
      BY <3>1, Zenon DEF IInv, Types, OpType
  <2>5. ~op'.mixed => ~op'.cancelled
    BY <2>2, <2>4, Zenon DEF SInv, StatusKept
  <2> QED
    BY <1>1, <2>1, <2>2, <2>3, <2>5, StartStatus, Zenon DEF IInv, Types
<1>5. ASSUME NEW kind \in {"hash", "save"}, StartOther(kind) PROVE SInv'
  <2>1. /\ ~op'.cancelled /\ shown' = "none" /\ ~Reporting /\ ~boot /\ ~Working /\ ~Confirming /\ msgs = <<>>
        /\ UNCHANGED <<thread, boot, boxes>>
        /\ \/ ErrorStatus' = "ok" /\ other' = kind /\ msgs' = msgs
           \/ ErrorStatus' = "error" /\ PostMessage(UM_FORMAT_COMPLETED("FALSE")) /\ other' = other
    BY <1>5, RequestClears, Zenon DEF StartOther, Asked
  <2>2. ~Reporting' /\ thread'.out = "-"
    BY <2>1, Zenon DEF Reporting, Range, Working, IInv, Types, ThreadType, Outs
  <2>3. \A n \in Messages : msgs' = <<n>> => n.msg = "UM_FORMAT_COMPLETED" /\ ErrorStatus' = "error"
    <3>1. msgs' = <<>> \/ (msgs' = <<UM_FORMAT_COMPLETED("FALSE")>> /\ ErrorStatus' = "error")
      BY <2>1, MessageSent, Zenon
    <3>2. \A n \in Messages : msgs' = <<n>> => n = UM_FORMAT_COMPLETED("FALSE") /\ ErrorStatus' = "error"
      BY <3>1
    <3> QED
      BY <3>2, MessagesAre, Zenon
  <2>4. Pending("UM_FORMAT_COMPLETED")' => ErrorStatus' = "error"
    BY <2>3, Zenon DEF Pending
  <2> QED
    BY <2>1, <2>2, <2>4, Zenon DEF SInv, Reported, StatusKept, IS_ERROR
<1> QED
  BY <1>2, <1>3, <1>4, <1>5, Zenon DEF Asking

\* UM_FORMAT_COMPLETED and a failed download: what is shown is the status.
LEMMA ReportStatus ==
    ASSUME IInv, SInv, IInv', NEW m, Dispatched(m), NEW status \in {"ok", "cancelled", "error"}, NEW w,
           Report(status, w, Tail(msgs)), UNCHANGED workers,
           status = "ok" /\ ~op.mixed => DoneFor
    PROVE  SInv'
<1>1. ~boot /\ ~Working /\ ~Confirming /\ Tail(msgs) = <<>>
  BY OnlyMessage, Zenon
<1>2. ~boot' /\ ~Working' /\ msgs' = <<>> /\ shown' = status
  BY <1>1, Zenon DEF workers, Working, Report
<1>3. ~Confirming'
  BY <1>1, ReportBoxes, Zenon DEF IInv, Types
<1>4. op' = [op EXCEPT !.leftover = FALSE]
  BY Zenon DEF Report
<1>5. op'.mixed = op.mixed /\ (DoneFor' <=> DoneFor)
  BY <1>4, Zenon DEF IInv, Types, OpType, DoneFor
<1> QED
  BY <1>2, <1>3, <1>5, StatusOver, Zenon

\* BootCheckThread and what its verdict leads to
LEMMA CheckingStatus == IInv /\ SInv /\ Checking => SInv'
<1> SUFFICES ASSUME IInv, SInv, Checking PROVE SInv'
  OBVIOUS
<1>1. IInv'
  BY CheckingKeeps, Zenon
<1>2. CASE BootCheckThread
  <2>1. boot /\ ~boot' /\ ~Working /\ msgs = <<>> /\ ~Confirming
    BY <1>2, Zenon DEF BootCheckThread, IInv, Operation, Exclusive
  <2>2. UNCHANGED <<ErrorStatus, thread, other, boxes, shown, op>>
    BY <1>2, Zenon DEF BootCheckThread, history
  <2>3. \A n \in Messages : msgs' = <<n>> => n.msg = "UM_FORMAT_START"
    <3>1. PICK ret \in {"PROCEED", "CANCEL", "DOWNLOAD_ERROR"} : PostMessage(UM_FORMAT_START(ret))
      BY <1>2, Zenon DEF BootCheckThread
    <3>2. msgs' = <<UM_FORMAT_START(ret)>>
      BY <2>1, <3>1, MessageSent, Zenon
    <3>3. \A n \in Messages : msgs' = <<n>> => n = UM_FORMAT_START(ret)
      BY <3>2, Zenon
    <3> QED
      BY <3>3, MessagesAre, Zenon
  <2>4. ~Pending("IDC_START")' /\ ~Pending("UM_FORMAT_COMPLETED")'
    BY <2>3, Zenon DEF Pending
  <2>5. (Reporting' <=> Reporting) /\ thread.out = "-" /\ Active
    BY <2>1, <2>2, ActiveIs, Zenon DEF Reporting, Range, Working, IInv, Types, ThreadType, Outs
  <2>6. shown = "none" /\ ~Reporting
    BY <2>1, ActiveIs, Zenon DEF SInv, Reported
  <2> QED
    BY <2>2, <2>4, <2>5, <2>6, Zenon DEF SInv, Reported, StatusKept, IS_ERROR
<1>3. CASE CheckAborts
  <2>1. /\ Dispatched(UM_FORMAT_START("CANCEL")) /\ msgs' = Tail(msgs)
        /\ UNCHANGED <<thread, boot, other, boxes, shown>>
    BY <1>3, Zenon DEF CheckAborts, workers
  <2>2. ~boot /\ ~Working /\ ~Confirming /\ msgs' = <<>> /\ msgs # <<>>
    BY <2>1, OnlyMessage, Zenon DEF Dispatched
  <2>3. shown = "none" /\ ~Reporting
    BY <2>2, ActiveIs, Zenon DEF SInv, Reported
  <2>4. ~Working' /\ ~Confirming' /\ ~Reporting'
    BY <2>1, <2>2, <2>3, Zenon DEF Working, Confirming, Reporting, Range
  <2> QED
    BY <1>1, <2>1, <2>2, <2>3, <2>4, StatusOver, Zenon
<1>4. CASE CheckProceeds
  <2>1. /\ Dispatched(UM_FORMAT_START("PROCEED")) /\ msgs' = Tail(msgs) /\ boxes' = Append(boxes, "confirm")
        /\ op' = [op EXCEPT !.confirmed = sel] /\ UNCHANGED <<ErrorStatus, thread, boot, other, shown>>
    BY <1>4, Zenon DEF CheckProceeds, workers
  <2>2. /\ ~boot /\ ~Working /\ ~Confirming /\ msgs' = <<>> /\ msgs # <<>> /\ Pending("UM_FORMAT_START")
    BY <2>1, OnlyMessage, MessagesAre, Zenon DEF Dispatched
  <2>3. shown = "none" /\ ~Reporting
    BY <2>2, ActiveIs, Zenon DEF SInv, Reported
  <2>4. ~Reporting'
    BY <2>1, <2>3, BoxesReport, Zenon DEF IInv, Types, Boxes
  <2>5. \A msg : ~Pending(msg)'
    <3>1. ASSUME NEW n \in Messages PROVE msgs' # <<n>>
      BY <2>2, Zenon
    <3> QED
      BY <3>1, Zenon DEF Pending
  <2>6. thread'.out = "-" /\ Active
    BY <2>1, <2>2, ActiveIs, Zenon DEF Working, IInv, Types, ThreadType, Outs
  <2>7. op'.mixed = op.mixed /\ op'.cancelled = op.cancelled /\ op'.lost = op.lost
    BY <2>1, Zenon DEF IInv, Types, OpType
  <2> QED
    BY <2>1, <2>3, <2>4, <2>5, <2>6, <2>7, Zenon DEF SInv, Reported, StatusKept, IS_ERROR
<1>5. CASE CheckFails
  BY <1>1, <1>5, ReportStatus, Zenon DEF CheckFails
<1> QED
  BY <1>2, <1>3, <1>4, <1>5, Zenon DEF Checking

\* The answers to the boxes: closing a report resets the status of no operation.
LEMMA AnsweringStatus == IInv /\ SInv /\ Answering => SInv'
<1> SUFFICES ASSUME IInv, SInv, Answering PROVE SInv'
  OBVIOUS
<1>1. IInv' /\ BoxType
  BY AnsweringKeeps, Zenon DEF IInv, Types
<1>2. CASE CloseRefusal \/ CancelNo
  <2>1. \E box \in {"refused", "cancel?", "closed"} : Top = box /\ Pop
    BY <1>2, Zenon DEF CloseRefusal, CancelNo
  <2>2. (Confirming' <=> Confirming) /\ (Reporting' => Reporting)
    BY <1>1, <2>1, BoxCloses, BoxesReport, Zenon DEF Boxes
  <2>3. UNCHANGED <<ErrorStatus, thread, boot, other, msgs, shown, op>>
    BY <1>2, Zenon DEF CloseRefusal, CancelNo, workers, history
  <2> QED
    BY <2>2, <2>3, StatusStays, Zenon
<1>3. ASSUME Top = "confirm", Pop
      PROVE  /\ shown = "none" /\ ~Reporting /\ ~Reporting' /\ ~Confirming' /\ ~boot /\ ~Working /\ msgs = <<>>
             /\ Active
  <2>1. Confirming /\ ~Confirming' /\ ~boot /\ ~Working /\ msgs = <<>>
    BY <1>3, OnlyConfirmation, Zenon
  <2>2. Active /\ shown = "none" /\ ~Reporting
    BY <2>1, ActiveIs, Zenon DEF SInv, Reported
  <2>3. ~Reporting'
    BY <1>1, <1>3, <2>2, BoxesReport, Zenon
  <2> QED
    BY <2>1, <2>2, <2>3, Zenon
<1>4. CASE Declined
  <2>1. Top = "confirm" /\ Pop /\ UNCHANGED <<thread, boot, other, msgs, shown>>
    BY <1>4, Zenon DEF Declined, workers
  <2>2. ~Working'
    BY <1>3, <2>1, Zenon DEF Working
  <2> QED
    BY <1>1, <1>3, <2>1, <2>2, StatusOver, Zenon
<1>5. CASE Confirmed
  <2>1. Top = "confirm" /\ Pop /\ UNCHANGED <<ErrorStatus, boot, other, msgs, shown, op>>
    BY <1>5, Zenon DEF Confirmed, history
  <2>2. PICK job \in Jobs : thread' = FormatThread(job, sel)
    BY <1>5, Zenon DEF Confirmed, Jobs
  <2>3. thread'.out = "-"
    BY <2>2, Zenon DEF FormatThread, NoThread
  <2>4. \A msg : ~Pending(msg)'
    <3>1. ASSUME NEW n \in Messages PROVE msgs' # <<n>>
      BY <1>3, <2>1
    <3> QED
      BY <3>1, Zenon DEF Pending
  <2>5. Reported'
    BY <1>3, <2>1, Zenon DEF Reported
  <2>6. ~op'.mixed => (op'.cancelled => IS_ERROR' \/ op'.lost # {}) /\ shown' # "ok"
    BY <1>3, <2>1, Zenon DEF IS_ERROR, SInv, StatusKept
  <2>7. StatusKept'
    BY <2>3, <2>4, <2>6, Zenon DEF StatusKept
  <2> QED
    BY <2>5, <2>7, Zenon DEF SInv
<1>6. CASE ConfirmedNoThread
  <2>1. /\ Top = "confirm" /\ Pop /\ ErrorStatus' = "error" /\ PostMessage(UM_FORMAT_COMPLETED("FALSE"))
        /\ UNCHANGED <<thread, boot, other, shown>>
    BY <1>6, Zenon DEF ConfirmedNoThread, workers
  <2>2. \A n \in Messages : msgs' = <<n>> => n.msg = "UM_FORMAT_COMPLETED"
    <3>1. msgs' = <<UM_FORMAT_COMPLETED("FALSE")>>
      BY <1>3, <2>1, MessageSent, Zenon
    <3>2. \A n \in Messages : msgs' = <<n>> => n = UM_FORMAT_COMPLETED("FALSE")
      BY <3>1, Zenon
    <3> QED
      BY <3>2, MessagesAre, Zenon
  <2>3. ~Pending("IDC_START")'
    BY <2>2, Zenon DEF Pending
  <2> QED
    BY <1>3, <2>1, <2>3, Zenon DEF SInv, Reported, StatusKept, IS_ERROR
<1>7. CASE CancelYes
  <2>1. /\ \E box \in {"cancel?", "closed"} : Top = box /\ Pop
        /\ UNCHANGED <<thread, boot, other, msgs, shown, format_thread, op_in_progress>>
        /\ IF format_thread # NULL THEN Cancelled ELSE UNCHANGED <<ErrorStatus, op>>
    BY <1>7, Zenon DEF CancelYes, workers
  <2>2. (Confirming' <=> Confirming) /\ (Reporting' => Reporting)
    BY <1>1, <2>1, BoxCloses, BoxesReport, Zenon DEF Boxes
  <2>3. CASE format_thread # NULL
    BY <2>1, <2>2, <2>3, StatusCancelled, Zenon
  <2>4. CASE format_thread = NULL
    BY <2>1, <2>2, <2>4, StatusStays, Zenon
  <2> QED
    BY <2>3, <2>4, Zenon
<1>8. CASE CloseReport
  <2>1. Top = "report" /\ Pop /\ UNCHANGED <<thread, boot, other, msgs, shown, op>>
    BY <1>8, Zenon DEF CloseReport, workers, history
  <2>2. ~Active /\ shown # "none"
    BY <1>1, <2>1, BoxesReport, Zenon DEF SInv, Reported
  <2>3. ~boot /\ ~Working /\ msgs = <<>> /\ ~Confirming
    BY <2>2, ActiveIs, Zenon
  <2>4. ~Confirming' /\ ~Working'
    BY <1>1, <2>1, <2>3, BoxCloses, Zenon DEF Boxes, Working
  <2>5. shown' = "ok" /\ ~op'.mixed => DoneFor'
    BY <2>1, Zenon DEF SInv, StatusKept, DoneFor
  <2> QED
    BY <1>1, <2>1, <2>2, <2>3, <2>4, <2>5, StatusOver, Zenon
<1> QED
  BY <1>2, <1>4, <1>5, <1>6, <1>7, <1>8, Zenon DEF Answering

\* Cancel is pressed.
LEMMA PressCancelStatus == IInv /\ SInv /\ PressCancel => SInv'
<1> SUFFICES ASSUME IInv, SInv, PressCancel PROVE SInv'
  OBVIOUS
<1>1. boxes' = boxes \/ boxes' = Append(boxes, "cancel?")
  BY Zenon DEF PressCancel
<1>2. (Confirming' <=> Confirming) /\ (Reporting' => Reporting)
  BY <1>1, BoxesSame, BoxOpens, BoxesReport, Zenon DEF IInv, Types, Boxes
<1>3. UNCHANGED <<thread, boot, other, msgs, shown, format_thread, op_in_progress>>
  BY Zenon DEF PressCancel, workers
<1>4. CASE UNCHANGED <<ErrorStatus, op>>
  BY <1>2, <1>3, <1>4, StatusStays, Zenon
<1>5. CASE Cancelled /\ (format_thread # NULL \/ op_in_progress)
  BY <1>2, <1>3, <1>5, StatusCancelled, Zenon
<1> QED
  BY <1>4, <1>5, Zenon DEF PressCancel

\* A step of FormatThread that leaves for a failure or a cancellation has a
\* status to show for it.
LEMMA ThreadStatus ==
    ASSUME ThreadType, StatusType, ThreadStep
    PROVE  /\ thread'.job = thread.job /\ thread.job \in Jobs
           /\ thread'.out \in {"fail", "cancel"} => IS_ERROR'
<1>1. Running /\ thread.job \in Jobs
  BY Zenon DEF ThreadStep, StepSucceeds, CheckForCancel, StepFails, BadBlocksFound, StepTolerated,
         DeletePartitionFails, WriteDrive, Running
<1>2. thread'.job = thread.job
  BY ThreadStays, Zenon
<1>3. StepDone => thread'.out \in {"-", "end"}
  BY <1>1, Zenon DEF StepDone, ThreadType, Running
<1>4. \A why \in Outs : GotoOut(why) => thread'.out = why
  BY Zenon DEF GotoOut, ThreadType
<1> DEFINE Rest == thread'.out \in {"fail", "cancel"} => IS_ERROR'
<1>5. ASSUME StepSucceeds \/ StepTolerated PROVE Rest
  BY <1>3, <1>5, Zenon DEF StepSucceeds, StepTolerated
<1>6. ASSUME CheckForCancel PROVE Rest
  BY <1>3, <1>4, <1>6, Zenon DEF CheckForCancel, IS_ERROR
<1>7. ASSUME StepFails PROVE Rest
  <2>1. PICK why \in {"bare", "fail"} : GotoOut(why) /\ (why = "fail" => step.kind \in {"set", "keep"})
    BY <1>7, Zenon DEF StepFails
  <2>2. thread'.out = why
    BY <1>4, <2>1, Zenon DEF Outs
  <2>3. step.kind \in {"set", "keep"} => ErrorStatus' # "ok"
    BY <1>7, Zenon DEF StepFails, IS_ERROR
  <2> QED
    BY <2>1, <2>2, <2>3, Zenon DEF IS_ERROR
<1>8. ASSUME BadBlocksFound PROVE Rest
  <2>1. CASE ErrorStatus' = "cancelled"
    BY <2>1, Zenon DEF IS_ERROR
  <2>2. CASE thread' = [thread EXCEPT !.k = @ - 2]
    BY <1>1, <2>2, Zenon DEF ThreadType, Running
  <2> QED
    BY <1>8, <2>1, <2>2, Zenon DEF BadBlocksFound
<1>9. ASSUME DeletePartitionFails PROVE Rest
  BY <1>1, <1>9, Zenon DEF DeletePartitionFails, ThreadType, Running
<1>10. ASSUME WriteDrive PROVE Rest
  <2>1. PICK why \in {"end", "fail", "silent", "cancel"} :
            GotoOut(why) /\ (why \in {"fail", "cancel"} => ErrorStatus' # "ok")
    BY <1>10, Zenon DEF WriteDrive
  <2>2. thread'.out = why
    BY <2>1, Zenon DEF GotoOut, ThreadType
  <2> QED
    BY <2>1, <2>2, Zenon DEF IS_ERROR
<1> QED
  BY <1>1, <1>2, <1>5, <1>6, <1>7, <1>8, <1>9, <1>10, Zenon DEF ThreadStep

\* A step of FormatThread beside the dialog
LEMMA FormatThreadStatus == IInv /\ SInv /\ FormatThreadStep => SInv'
<1> SUFFICES ASSUME IInv, SInv, FormatThreadStep PROVE SInv'
  OBVIOUS
<1>1. UNCHANGED <<boot, other, msgs, boxes, shown>> /\ Noting("partitions")
  BY Zenon DEF FormatThreadStep
<1>2. /\ thread'.job = thread.job /\ thread.job \in Jobs
      /\ thread'.out \in {"fail", "cancel"} => IS_ERROR'
  BY ThreadStatus, Zenon DEF FormatThreadStep, IInv, Types
<1>3. ErrorStatus' \in {"ok", "cancelled", "error"}
  BY ThreadStays, Zenon DEF FormatThreadStep, IInv, Types
<1>4. Working /\ Working' /\ ~boot /\ msgs = <<>> /\ Active
  BY <1>1, <1>2, ActiveIs, Zenon DEF Working, IInv, Operation, Exclusive
<1>5. shown = "none" /\ ~Reporting
  BY <1>4, Zenon DEF SInv, Reported
<1>6. ~Reporting' /\ \A msg : ~Pending(msg)'
  <2>1. ASSUME NEW n \in Messages PROVE msgs' # <<n>>
    BY <1>1, <1>4, Zenon
  <2> QED
    BY <1>1, <1>5, <2>1, Zenon DEF Reporting, Range, Pending
<1>7. /\ op'.mixed = op.mixed /\ op'.cancelled = op.cancelled /\ op.lost \subseteq op'.lost
      /\ IS_ERROR /\ ErrorStatus' = "ok" /\ op.cancelled => "partitions" \in op'.lost
  BY <1>1, NotingOp, Zenon DEF IInv, Types, Losers
<1>8. ~op.mixed /\ op.cancelled => IS_ERROR \/ op.lost # {}
  BY <1>4, Zenon DEF SInv, StatusKept
<1>9. ~op.mixed /\ op.cancelled => IS_ERROR' \/ op'.lost # {}
  BY <1>7, <1>8, Zenon DEF IS_ERROR
<1>10. StatusKept'
  BY <1>1, <1>2, <1>5, <1>6, <1>7, <1>9, Zenon DEF StatusKept
<1> QED
  BY <1>1, <1>5, <1>6, <1>10, Zenon DEF SInv, Reported

\* A download of the checks, or one in the background
LEMMA DownloadingStatus == IInv /\ SInv /\ Downloading => SInv'
<1> SUFFICES ASSUME IInv, SInv, Downloading PROVE SInv'
  OBVIOUS
<1>1. /\ UNCHANGED <<thread, boot, other, msgs, boxes, shown>> /\ ErrorStatus' \in {"ok", "cancelled", "error"}
      /\ \E who \in Losers : Noting(who) /\ (who = "background" \/ boot)
  BY Zenon DEF Downloading, CheckDownload, BackgroundDownload, workers, Losers
<1> QED
  BY <1>1, StatusNoted, Zenon

\* A worker leaves, and its message is dispatched.
LEMMA CompletingStatus == IInv /\ SInv /\ Completing => SInv'
<1> SUFFICES ASSUME IInv, SInv, Completing PROVE SInv'
  OBVIOUS
<1>1. IInv'
  BY CompletingKeeps, Zenon
<1>2. ASSUME Working, other' = "no", thread'.job = "none", thread'.out = "-", NEW w \in {"TRUE", "FALSE"},
             PostMessage(UM_FORMAT_COMPLETED(w)), UNCHANGED <<boot, boxes, shown>>,
             ~op'.mixed => IS_ERROR' \/ DoneFor'
      PROVE  SInv'
  <2>1. ~boot /\ msgs = <<>> /\ ~Confirming
    BY <1>2, Zenon DEF IInv, Operation, Exclusive
  <2>2. shown = "none" /\ ~Reporting
    BY <1>2, ActiveIs, Zenon DEF SInv, Reported
  <2>3. ~Confirming' /\ ~Reporting'
    BY <1>2, <2>1, <2>2, Zenon DEF Confirming, Reporting, Range
  <2>4. \A n \in Messages : msgs' = <<n>> => n.msg = "UM_FORMAT_COMPLETED"
    <3>1. msgs' = <<UM_FORMAT_COMPLETED(w)>>
      BY <1>2, <2>1, MessageSent, Zenon
    <3>2. \A n \in Messages : msgs' = <<n>> => n = UM_FORMAT_COMPLETED(w)
      BY <3>1, Zenon
    <3> QED
      BY <3>2, MessagesAre, Zenon
  <2>5. ~Pending("IDC_START")'
    BY <2>4, Zenon DEF Pending
  <2>6. IS_ERROR' \/ DoneFor' => (op'.cancelled => IS_ERROR' \/ op'.lost # {})
    BY Zenon DEF DoneFor
  <2> QED
    BY <1>2, <2>2, <2>3, <2>5, <2>6, Zenon DEF SInv, Reported, StatusKept
<1>3. CASE FormatThreadExits
  <2>1. /\ thread.out # "-" /\ thread' = NoThread /\ PostMessage(UM_FORMAT_COMPLETED("TRUE"))
        /\ op' = [op EXCEPT !.out = thread.out]
        /\ UNCHANGED <<ErrorStatus, boot, other, boxes, shown>>
    BY <1>3, Zenon DEF FormatThreadExits
  <2>2. thread.job \in Jobs /\ Working /\ other = "no" /\ thread.out \in Outs \ {"-"}
    BY <2>1, Zenon DEF IInv, Types, ThreadType, Operation, Exclusive, Working, Jobs
  <2>3. /\ op'.out = thread.out /\ op'.lost = op.lost
        /\ op'.cancelled = op.cancelled /\ op'.mixed = op.mixed
    BY <2>1, Zenon DEF IInv, Types, OpType
  <2>4. ~op.mixed => /\ op.cancelled => IS_ERROR \/ op.lost # {}
                     /\ thread.out \in {"fail", "cancel"} => IS_ERROR \/ "background" \in op.lost
    BY <2>2, ActiveIs, Zenon DEF SInv, StatusKept
  <2>5. ~op'.mixed => IS_ERROR' \/ DoneFor'
    BY <2>1, <2>2, <2>3, <2>4, Zenon DEF IS_ERROR, DoneFor, Outs
  <2>6. thread'.job = "none" /\ thread'.out = "-"
    BY <2>1, Zenon DEF NoThread
  <2> QED
    BY <1>2, <2>1, <2>2, <2>5, <2>6, Zenon
<1>4. CASE OtherExits
  <2>1. other # "no" /\ other' = "no" /\ UNCHANGED <<thread, boot, boxes, shown>>
    BY <1>4, Zenon DEF OtherExits
  <2>2. PICK out \in {"end", "fail", "cancel", "bare"} :
            /\ out = "cancel" => ErrorStatus = "cancelled"
            /\ ErrorStatus' = IF out = "fail" THEN "error" ELSE ErrorStatus
            /\ op' = [op EXCEPT !.out = out]
    BY <1>4, Zenon DEF OtherExits
  <2>3. PICK w \in {"TRUE", "FALSE"} : PostMessage(UM_FORMAT_COMPLETED(w))
    BY <1>4, Zenon DEF OtherExits
  <2>4. Working /\ thread.job = "none" /\ thread.out = "-"
    BY <2>1, Zenon DEF Working, IInv, Types, ThreadType, Operation, Exclusive, Outs, Jobs
  <2>5. op'.out = out /\ op'.cancelled = op.cancelled /\ op'.mixed = op.mixed /\ op'.lost = op.lost
    BY <2>2, Zenon DEF IInv, Types, OpType
  <2>6. ~op.mixed /\ op.cancelled => IS_ERROR \/ op.lost # {}
    BY <2>4, ActiveIs, Zenon DEF SInv, StatusKept
  <2>7. ~op'.mixed => IS_ERROR' \/ DoneFor'
    BY <2>2, <2>5, <2>6, Zenon DEF IS_ERROR, DoneFor
  <2> QED
    BY <1>2, <2>1, <2>3, <2>4, <2>7, Zenon
<1>5. ASSUME NEW w \in {"TRUE", "FALSE"}, FormatCompleted(w) PROVE SInv'
  <2>1. /\ Dispatched(UM_FORMAT_COMPLETED(w)) /\ Report(ErrorStatus, w, Tail(msgs)) /\ UNCHANGED workers
    BY <1>5, Zenon DEF FormatCompleted
  <2>2. Pending("UM_FORMAT_COMPLETED")
    BY <2>1, OnlyMessage, MessagesAre, Zenon
  <2>3. ErrorStatus = "ok" /\ ~op.mixed => DoneFor
    BY <2>2, Zenon DEF SInv, StatusKept, IS_ERROR
  <2>4. ErrorStatus \in {"ok", "cancelled", "error"}
    BY Zenon DEF IInv, Types, StatusType
  <2> QED
    BY <1>1, <2>1, <2>3, <2>4, ReportStatus, Zenon
<1> QED
  BY <1>3, <1>4, <1>5, Zenon DEF Completing

\* An image scan or download resets the status too, and is known to have mixed
\* with an operation.
LEMMA ScanningStatus == IInv /\ SInv /\ Scanning => SInv'
<1> SUFFICES ASSUME IInv, SInv, Scanning PROVE SInv'
  OBVIOUS
<1>1. UNCHANGED <<thread, boot, other, msgs, boxes, shown>>
  BY Zenon DEF Scanning, IDC_SELECT, DownloadISOEnds, ScanBegins, ScanEnds, history
<1>2. (Confirming' <=> Confirming) /\ (Reporting' <=> Reporting)
  BY <1>1, Zenon DEF Confirming, Reporting, Range
<1>3. CASE ScanBegins
  BY <1>1, <1>2, <1>3, StatusStays, Zenon DEF ScanBegins, history
<1>4. ASSUME ~op'.mixed => ~op.mixed /\ ~Active /\ op'.cancelled = op.cancelled /\ op'.out = op.out
                             /\ op'.lost = op.lost
      PROVE  SInv'
  <2>1. (Working' <=> Working) /\ \A msg : Pending(msg)' <=> Pending(msg)
    BY <1>1, Zenon DEF Working, Pending
  <2>2. (Active' <=> Active) /\ Reported'
    BY <1>1, <1>2, <2>1, ActiveIs, Zenon DEF SInv, Reported
  <2>3. ASSUME ~op'.mixed PROVE thread'.out = "-" /\ ~Active' /\ \A msg : ~Pending(msg)'
    <3>1. ~Working /\ msgs = <<>> /\ ~Active
      BY <1>4, <2>3, ActiveIs, Zenon
    <3> QED
      BY <1>1, <2>1, <2>2, <3>1, PendingNone, Zenon DEF Working, IInv, Types, ThreadType, Outs
  <2>4. shown' = "ok" /\ ~op'.mixed => DoneFor'
    BY <1>1, <1>4, Zenon DEF SInv, StatusKept, DoneFor
  <2>5. StatusKept'
    BY <2>3, <2>4, Zenon DEF StatusKept
  <2> QED
    BY <2>2, <2>5, Zenon DEF SInv
<1>5. CASE IDC_SELECT
  <2>1. op' = [op EXCEPT !.mixed = @ \/ Active]
    BY <1>5, Zenon DEF IDC_SELECT
  <2>2. PICK b \in BOOLEAN : op' = [op EXCEPT !.mixed = b] /\ (op.mixed \/ Active => b)
    <3>1. (op.mixed \/ Active) \in BOOLEAN
      OBVIOUS
    <3> QED
      BY <2>1, <3>1, Zenon
  <2>3. /\ op'.mixed = b /\ op'.cancelled = op.cancelled /\ op'.out = op.out /\ op'.lost = op.lost
    BY <2>2, Zenon DEF IInv, Types, OpType
  <2> QED
    BY <1>4, <2>2, <2>3, Zenon
<1>6. CASE DownloadISOEnds \/ ScanEnds
  <2>1. scan \in {"running", "download"} /\ op' = op
    BY <1>6, Zenon DEF DownloadISOEnds, ScanEnds, history
  <2>2. ~op.mixed => ~Active
    BY <2>1, Zenon DEF IInv, Operation, Controls
  <2> QED
    BY <1>4, <2>1, <2>2, Zenon
<1> QED
  BY <1>3, <1>5, <1>6, Zenon DEF Scanning

\* The program has started.
LEMMA InitSInv == Init => SInv
<1> SUFFICES ASSUME Init PROVE SInv
  OBVIOUS
<1>1. ~Reporting /\ ~Confirming
  BY DEF Init, Reporting, Confirming, Range
<1>2. \A msg : ~Pending(msg)
  BY PendingNone, Zenon DEF Init
<1>3. thread.out = "-"
  BY Zenon DEF Init, NoThread
<1> QED
  BY <1>1, <1>2, <1>3, Zenon DEF Init, SInv, Reported, StatusKept, NewOp

\* Every step keeps what the status says.
LEMMA StepSInv == IInv /\ SInv /\ [Next]_vars => SInv'
<1> SUFFICES ASSUME IInv, SInv, [Next]_vars PROVE SInv'
  OBVIOUS
<1>1. CASE UNCHANGED vars
  <2>1. UNCHANGED <<ErrorStatus, thread, boot, other, msgs, boxes, shown, op>>
    BY <1>1, Zenon DEF vars, workers, history
  <2>2. (Confirming' <=> Confirming) /\ (Reporting' => Reporting)
    BY <2>1, Zenon DEF Confirming, Reporting, Range
  <2> QED
    BY <2>1, <2>2, StatusStays, Zenon
<1> QED
  BY <1>1, DevicelistStatus, AskingStatus, CheckingStatus, AnsweringStatus, PressCancelStatus, Zenon,
     FormatThreadStatus, CompletingStatus, DownloadingStatus, ScanningStatus DEF Next

\* SuccessMeansDone, for any drives, operations and events: when MainCallback
\* reports success, FormatThread or its like left by no error path that sets
\* ErrorStatus, and nobody cancelled it, but for a status that somebody reset: a
\* download of the checks or in the background (net.c), or DeletePartition's failure.
THEOREM SuccessIsDone == Spec => []SuccessMeansDone
<1>1. SInv => SuccessMeansDone
  BY Zenon DEF SInv, StatusKept, SuccessMeansDone, DoneFor
<1> QED
  BY <1>1, Invariance, InitSInv, StepSInv, PTL DEF Spec
=============================================================================
