-------------------------- MODULE ExternalStorage ---------------------------
(***************************************************************************)
(* external-storage.sh: wiping removable devices at one of three security  *)
(* levels.  The script knows a device by its name only, and the device     *)
(* behind the name may be pulled, put back or exchanged at any moment.     *)
(* dd, tee, blockdev and udevadm are external.                             *)
(***************************************************************************)
EXTENDS Sectors

CONSTANTS ExtDevices,
          ExtKind,     \* what each device is
          ExtSize,     \* sectors of each device
          Content,     \* the data each device comes with
          EXT_MARGIN,  \* 50: sectors at either end the verification skips
          EXT_SAMPLES,  \* 20 or 30: sectors it reads
          TROUBLES,    \* bound: devices pulled, and writes failed, during wipes
          ExtFaults

ExtFaultKinds == {"udevadm", "unplug", "swap", "io", "tee", "blockdev"}

ASSUME ExtKindAssumption == ExtKind \in [ExtDevices -> {"USB_FLASH", "USB_HDD", "SD_CARD", "OTHER"}]
ASSUME ExtSizeAssumption == ExtSize \in [ExtDevices -> Nat \ {0}]
ASSUME ContentAssumption == Content \in [ExtDevices -> {"old", "oldz"}]
ASSUME ExtVerifyAssumption == EXT_MARGIN \in Nat /\ EXT_SAMPLES \in Nat \ {0} /\ RANDOM_MAX \in Nat
ASSUME TroublesAssumption == TROUBLES \in Nat
ASSUME ExtFaultsAssumption == ExtFaults \subseteq ExtFaultKinds
ASSUME ExtNoneAssumption == "none" \notin ExtDevices

VARIABLES port,    \* the device behind the name, if any
          ext_call,  \* the running call: its step, device and locals
          ext,     \* exported: EXT_DETECTED_TYPE, EXT_SECURITY_LEVEL
          ext_result,  \* how the last call on each device ended, and (history)
                       \* whether it was disturbed: a device pulled, a write failed
          ext_sectors, \* what each sector of each device holds
          troubles \* devices pulled and writes failed during wipes so far

ext_vars == <<port, ext_call, ext, ext_result, ext_sectors, troubles>>

\* fd is what dd has open, at the sector it writes next, size what blockdev said.
ExtIdle == [pc |-> "idle", device |-> "none", pass |-> 1, fd |-> "none", at |-> 0,
         size |-> 0, n |-> 0, ok |-> TRUE, disturbed |-> FALSE]

ExtInit == /\ troubles = 0 /\ port = "none" /\ ext_call = ExtIdle /\ ext = [TYPE |-> "unset", LEVEL |-> 0]
           /\ ext_result = [d \in ExtDevices |-> [is |-> "none", disturbed |-> FALSE]]
           /\ ext_sectors = [d \in ExtDevices |-> [s \in 0 .. ExtSize[d] - 1 |-> Content[d]]]

ext_device == ext_call.device
SizeOf(d) == IF d = "none" THEN 0 ELSE ExtSize[d]
ExtGoto(step) == ext_call' = [ext_call EXCEPT !.pc = step]
ExtReturn(how) ==
    /\ ext_call' = ExtIdle
    /\ ext_result' = [ext_result EXCEPT ![ext_device] = [is |-> how, disturbed |-> ext_call.disturbed]]

\* The operator plugs a device in: during a call it is the one they pulled,
\* unless they exchange it for another.
Plug(d) == /\ port = "none" /\ port' = d
           /\ ext_device \in {"none", d} \/ "swap" \in ExtFaults
           /\ UNCHANGED <<ext_call, ext, ext_result, ext_sectors, troubles>>

\* What was open on a device that is pulled stays dead.
ExtUnplug == /\ port # "none" /\ port' = "none"
             /\ \/ ext_call.pc = "idle" /\ UNCHANGED <<ext_call, troubles>>
                \/ /\ "unplug" \in ExtFaults /\ ext_call.pc # "idle" /\ troubles < TROUBLES
                   /\ troubles' = troubles + 1 /\ ext_call' = [ext_call EXCEPT !.fd = "none", !.disturbed = TRUE]
             /\ UNCHANGED <<ext, ext_result, ext_sectors>>

\* handle_external_storage_device "$device", a device that is there.
ExtCall == /\ ext_call.pc = "idle" /\ port # "none"
           /\ ext_call' = [ExtIdle EXCEPT !.pc = "detect", !.device = port]
           /\ UNCHANGED <<port, ext, ext_result, ext_sectors, troubles>>

\* Without an answer of udevadm the type is "other", and it is no error.
detect_external_device_type ==
    /\ ext_call.pc = "detect" /\ ExtGoto("present")
    /\ \/ port # "none" /\ ext' = [ext EXCEPT !.TYPE = ExtKind[port]]
       \/ /\ port = "none" \/ "udevadm" \in ExtFaults
          /\ ext' = [ext EXCEPT !.TYPE = "OTHER"]
    /\ UNCHANGED <<port, ext_result, ext_sectors, troubles>>

check_device_presence ==
    /\ ext_call.pc = "present"
    /\ IF port = "none" THEN ExtReturn("failed") ELSE ExtGoto("level") /\ UNCHANGED ext_result
    /\ UNCHANGED <<port, ext, ext_sectors, troubles>>

Recommended == IF ext.TYPE \in {"USB_FLASH", "SD_CARD"} THEN 3 ELSE 2

\* The level asked for (1 to 3), or the recommended one (0, or anything else).
determine_external_security_level(choice) ==
    /\ ext_call.pc = "level" /\ ExtGoto("confirm")
    /\ ext' = [ext EXCEPT !.LEVEL = IF choice \in 1 .. 3 THEN choice ELSE Recommended]
    /\ UNCHANGED <<port, ext_result, ext_sectors, troubles>>

ExtConfirm == /\ ext_call.pc = "confirm" /\ ExtGoto("open")
              /\ UNCHANGED <<port, ext, ext_result, ext_sectors, troubles>>

ExtDecline == /\ ext_call.pc = "confirm" /\ ExtReturn("failed")
              /\ UNCHANGED <<port, ext, ext_sectors, troubles>>

\* Mutant: the passes of the enhanced level in another order.
PassesReordered == IF ext.LEVEL = 3 THEN <<"rand", "p55", "zero">> ELSE <<"zero">>

\* What is written at each level.
Passes == IF ext.LEVEL = 3 THEN <<"rand", "zero", "p55">> ELSE <<"zero">>

\* Mutant: dd seeks past the first sector.
OpenDeviceSeek == /\ ext_call.pc = "open"
                  /\ ext_call' = [ext_call EXCEPT !.pc = "write", !.fd = port, !.at = 1]
                  /\ UNCHANGED <<port, ext, ext_result, ext_sectors, troubles>>

\* dd of="$device": without a device it creates a plain file of that name.
OpenDevice == /\ ext_call.pc = "open"
              /\ ext_call' = [ext_call EXCEPT !.pc = "write", !.fd = port, !.at = 0]
              /\ UNCHANGED <<port, ext, ext_result, ext_sectors, troubles>>

\* Mutant: one sector too many.
WriteSectorBeyond ==
    /\ ext_call.pc = "write" /\ ext_call.fd # "none" /\ ext_call.at <= SizeOf(ext_call.fd)
    /\ ext_sectors' = [ext_sectors EXCEPT ![ext_call.fd][ext_call.at] = Passes[ext_call.pass]]
    /\ ext_call' = [ext_call EXCEPT !.at = @ + 1]
    /\ UNCHANGED <<port, ext, ext_result, troubles>>

WriteSector ==
    /\ ext_call.pc = "write" /\ ext_call.at < SizeOf(ext_call.fd)
    /\ ext_sectors' = [ext_sectors EXCEPT ![ext_call.fd][ext_call.at] = Passes[ext_call.pass]]
    /\ ext_call' = [ext_call EXCEPT !.at = @ + 1]
    /\ UNCHANGED <<port, ext, ext_result, troubles>>

\* dd ends: the device is full, gone, or a write failed.  Whether the pass
\* failed is the status of tee.
PassEnds ==
    /\ ext_call.pc = "write"
    /\ \/ ext_call.at >= SizeOf(ext_call.fd) /\ UNCHANGED troubles
       \/ /\ "io" \in ExtFaults /\ ext_call.at < SizeOf(ext_call.fd) /\ troubles < TROUBLES
          /\ troubles' = troubles + 1
    /\ LET cut == ext_call.disturbed \/ troubles' # troubles
       IN \/ ext_call' = [ext_call EXCEPT !.pc = IF ext_call.pass < Len(Passes) THEN "open"
                                                 ELSE IF ext.LEVEL = 1 THEN "finish" ELSE "verify",
                                          !.pass = IF @ < Len(Passes) THEN @ + 1 ELSE @,
                                          !.fd = "none", !.disturbed = cut]
          \/ /\ "tee" \in ExtFaults
             /\ ext_call' = [ext_call EXCEPT !.pc = "finish", !.ok = FALSE, !.fd = "none", !.disturbed = TRUE]
    /\ UNCHANGED <<port, ext, ext_result, ext_sectors>>

\* blockdev --getsz, or 0, which skips the verification.
GetSize ==
    /\ ext_call.pc = "verify"
    /\ \E size \in {SizeOf(port)} \cup (IF "blockdev" \in ExtFaults THEN {0} ELSE {}) :
         ext_call' = [ext_call EXCEPT !.size = size, !.pc = IF size = 0 THEN "finish" ELSE "sample"]
    /\ UNCHANGED <<port, ext, ext_result, ext_sectors, troubles>>

\* The test each level makes of a sector.
SampleGood(kind) ==
    IF ext.LEVEL = 2 THEN Grep("00", Hexdump(kind))
    ELSE Grep("55", Echo(HeadLines(1, Hexdump(kind))))

\* One turn of the verification loop.
VerifySample(random) ==
    /\ ext_call.pc = "sample" /\ ext_call.size # 2 * EXT_MARGIN
    /\ LET s == RandomSector(random, ext_call.size, EXT_MARGIN)
           kind == ReadSector(ext_sectors[port], SizeOf(port), s)
       IN ext_call' = [ext_call EXCEPT !.n = @ + 1, !.ok = SampleGood(kind),
                     !.pc = IF ~ SampleGood(kind) \/ ext_call.n + 1 = EXT_SAMPLES THEN "finish" ELSE @]
    /\ UNCHANGED <<port, ext, ext_result, ext_sectors, troubles>>

\* RANDOM % 0: bash abandons every function that is running.
ExtVerifyAborts == /\ ext_call.pc = "sample" /\ ext_call.size = 2 * EXT_MARGIN /\ ExtReturn("aborted")
                   /\ UNCHANGED <<port, ext, ext_sectors, troubles>>

ExtFinish == /\ ext_call.pc = "finish" /\ ExtReturn(IF ext_call.ok THEN "success" ELSE "failed")
             /\ UNCHANGED <<port, ext, ext_sectors, troubles>>

Wipe == \/ OpenDevice \/ WriteSector \/ PassEnds \/ GetSize
        \/ (\E r \in 0 .. RANDOM_MAX : VerifySample(r)) \/ ExtVerifyAborts \/ ExtFinish

ExtNext == \/ (\E d \in ExtDevices : Plug(d)) \/ ExtUnplug
           \/ ExtCall \/ detect_external_device_type \/ check_device_presence
           \/ (\E c \in 0 .. 3 : determine_external_security_level(c))
           \/ ExtConfirm \/ ExtDecline \/ Wipe

ExtSpec == ExtInit /\ [][ExtNext]_ext_vars

-----------------------------------------------------------------------------
\* Steps, globals and devices keep to their types, and dd stays on the device.
ExtTypeOK ==
    /\ port \in ExtDevices \cup {"none"} /\ troubles \in 0 .. TROUBLES
    /\ ext_call.pc \in {"idle", "detect", "present", "level", "confirm", "open", "write",
                    "verify", "sample", "finish"}
    /\ ext_device \in ExtDevices \cup {"none"} /\ ext_call.fd \in ExtDevices \cup {"none"}
    /\ ext_call.fd # "none" => ext_call.at \in 0 .. ExtSize[ext_call.fd]
    /\ ext_call.pass \in 1 .. 3 /\ ext_call.n \in 0 .. EXT_SAMPLES /\ ext_call.ok \in BOOLEAN
    /\ ext_call.size \in {0} \cup {ExtSize[d] : d \in ExtDevices}
    /\ ext.LEVEL \in 0 .. 3
    /\ ext.TYPE \in {"unset", "USB_FLASH", "USB_HDD", "SD_CARD", "OTHER"}
    /\ ext_result \in [ExtDevices -> [is : {"none", "success", "failed", "aborted"}, disturbed : BOOLEAN]]
    /\ \A d \in ExtDevices : ext_sectors[d] \in [0 .. ExtSize[d] - 1 -> Kinds]

\* The verification of a level looks for what its last pass wrote: a device
\* of more than 100 sectors that is neither pulled nor failing passes it.
GoodWipePasses ==
    ext_call.pc = "finish" /\ ~ ext_call.disturbed /\ ExtSize[ext_device] > 2 * EXT_MARGIN => ext_call.ok

\* Success of a call that was not disturbed is reported only for a device with
\* no old data left, and data never comes back: the engine implements the
\* contract.
ExtEngine == INSTANCE EraseContract
    WITH Devices <- ExtDevices,
         clean <- {d \in ExtDevices : \A s \in DOMAIN ext_sectors[d] : ext_sectors[d][s] \notin Old},
         verdict <- [d \in ExtDevices |-> IF ext_result[d].is = "none" THEN "none"
                                          ELSE IF ext_result[d] = [is |-> "success", disturbed |-> FALSE]
                                          THEN "success" ELSE "failed"]

ReportsOnlyErased == ExtEngine!Contract

\* "Status: All data destroyed" (external-storage.sh:454), also of a device
\* that was pulled.
DataDestroyed ==
    \A d \in ExtDevices : ext_result[d].is = "success" =>
        \A s \in DOMAIN ext_sectors[d] : ext_sectors[d][s] \notin Old
=============================================================================
