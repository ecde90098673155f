---------------------------- MODULE HddOverwrite ----------------------------
(***************************************************************************)
(* hdd-overwrite.sh: the overwrite of a rotating drive, the host protected *)
(* area (HPA) it may hide sectors in, and the shell globals that outlive a *)
(* call.  A session calls execute_hdd_secure_overwrite on drive after      *)
(* drive in one shell.                                                     *)
(***************************************************************************)
EXTENDS Sectors

CONSTANTS Drives,      \* the drives of the session
          Native,      \* sectors of a drive, its HPA included
          HDD_MARGIN,  \* 500: sectors at either end verify_overwrite skips
          HDD_SAMPLES,  \* 10: sectors verify_overwrite reads
          HddFaults    \* what may go wrong outside the script

HddFaultKinds == {"blockdev", "report", "disable", "restore", "io", "tee"}

ASSUME DrivesAssumption == "none" \notin Drives
ASSUME NativeAssumption == Native \in Nat \ {0}
ASSUME HddVerifyAssumption == HDD_MARGIN \in Nat /\ HDD_SAMPLES \in Nat \ {0} /\ RANDOM_MAX \in Nat
ASSUME HddFaultsAssumption == HddFaults \subseteq HddFaultKinds

VARIABLES hdd_call,     \* the running call: its step, argument and locals
          DEVICE_SIZE,  \* exported by get_device_geometry, in sectors
          hpa,          \* exported by detect_and_handle_hpa: HPA_WAS_DISABLED,
                        \* ORIGINAL_HPA_SIZE and HPA_DETECTED
          hdd_result,   \* how the last call on each drive ended
          hdd_report,   \* each drive's last report in the log: Status, HPA Handled;
                            \* history: dd got to the end of what the drive showed
          accessible,   \* sectors each drive shows
          factory,      \* ... and showed when the session began
          hdd_sectors,  \* what each sector of each drive holds
          lost          \* why a drive's HPA was not put back, if it was not

hdd_vars == <<hdd_call, DEVICE_SIZE, hpa, hdd_result, hdd_report, accessible, factory, hdd_sectors, lost>>

Positions == 0 .. Native - 1
HddNoReport == [status |-> "none", handled |-> FALSE, whole |-> FALSE]
HddIdle == [pc |-> "idle", device |-> "none", n |-> 0, ok |-> FALSE]

\* A fresh shell, nothing exported yet; drives with or without an HPA.
HddInit == /\ hdd_call = HddIdle
           /\ DEVICE_SIZE = 0
           /\ hpa = [WAS_DISABLED |-> FALSE, ORIGINAL_SIZE |-> 0, DETECTED |-> FALSE]
           /\ hdd_result = [d \in Drives |-> "none"] /\ hdd_report = [d \in Drives |-> HddNoReport]
           /\ accessible \in [Drives -> 1 .. Native] /\ factory = accessible
           /\ hdd_sectors = [d \in Drives |-> [s \in Positions |-> "old"]]
           /\ lost = [d \in Drives |-> "no"]

hdd_device == hdd_call.device
HddGoto(step) == hdd_call' = [hdd_call EXCEPT !.pc = step]
HddReturn(how) == hdd_call' = HddIdle /\ hdd_result' = [hdd_result EXCEPT ![hdd_device] = how]

\* execute_hdd_secure_overwrite "$device"
HddCall(d) == /\ hdd_call.pc = "idle"
              /\ hdd_call' = [pc |-> "geometry", device |-> d, n |-> 0, ok |-> FALSE]
              /\ UNCHANGED <<DEVICE_SIZE, hpa, hdd_result, hdd_report, accessible, factory, hdd_sectors, lost>>

\* Mutant: the size is exported in bytes, as blockdev --getsize64 gives it.
get_device_geometry_bytes ==
    /\ hdd_call.pc = "geometry"
    /\ HddGoto("hpa") /\ DEVICE_SIZE' = accessible[hdd_device] * 512
    /\ UNCHANGED <<hpa, hdd_result, hdd_report, accessible, factory, hdd_sectors, lost>>

get_device_geometry ==
    /\ hdd_call.pc = "geometry"
    /\ \/ HddGoto("hpa") /\ DEVICE_SIZE' = accessible[hdd_device] /\ UNCHANGED hdd_result
       \/ "blockdev" \in HddFaults /\ HddReturn("failed") /\ UNCHANGED DEVICE_SIZE
    /\ UNCHANGED <<hpa, hdd_report, accessible, factory, hdd_sectors, lost>>

\* Mutant: HPA_WAS_DISABLED keeps the value of an earlier call.
HpaNotFoundKeepsFlag ==
    /\ hdd_call.pc = "hpa"
    /\ "report" \in HddFaults \/ accessible[hdd_device] = Native
    /\ HddGoto("confirm") /\ hpa' = [hpa EXCEPT !.DETECTED = FALSE]
    /\ UNCHANGED <<DEVICE_SIZE, hdd_result, hdd_report, accessible, factory, hdd_sectors, lost>>

\* detect_and_handle_hpa when hdparm -N fails, when its answer has another
\* form than the script expects, and when there is no HPA.
HpaNotFound ==
    /\ hdd_call.pc = "hpa"
    /\ "report" \in HddFaults \/ accessible[hdd_device] = Native
    /\ HddGoto("confirm") /\ hpa' = [hpa EXCEPT !.WAS_DISABLED = FALSE, !.DETECTED = FALSE]
    /\ UNCHANGED <<DEVICE_SIZE, hdd_result, hdd_report, accessible, factory, hdd_sectors, lost>>

\* Mutant: the flag is exported although hdparm failed.
HpaFoundFlagFirst(choice) ==
    /\ hdd_call.pc = "hpa" /\ accessible[hdd_device] < Native
    /\ \/ /\ choice = 1 /\ HddGoto("confirm")
          /\ accessible' \in {accessible, [accessible EXCEPT ![hdd_device] = Native]}
          /\ hpa' = [WAS_DISABLED |-> TRUE, ORIGINAL_SIZE |-> accessible[hdd_device], DETECTED |-> TRUE]
       \/ /\ choice = 2 /\ HddGoto("confirm")
          /\ hpa' = [hpa EXCEPT !.WAS_DISABLED = FALSE, !.DETECTED = TRUE]
          /\ UNCHANGED accessible
    /\ UNCHANGED <<DEVICE_SIZE, hdd_result, hdd_report, factory, hdd_sectors, lost>>

\* ... and when there is one: the operator has it disabled (1), keeps it (2)
\* or cancels (3, or anything else).
HpaFound(choice) ==
    /\ hdd_call.pc = "hpa" /\ accessible[hdd_device] < Native
    /\ \/ /\ choice = 1 /\ HddGoto("confirm")
          /\ accessible' = [accessible EXCEPT ![hdd_device] = Native]
          /\ hpa' = [WAS_DISABLED |-> TRUE, ORIGINAL_SIZE |-> accessible[hdd_device], DETECTED |-> TRUE]
          /\ UNCHANGED hdd_result
       \/ /\ choice = 1 /\ "disable" \in HddFaults
          /\ HddReturn("failed") /\ UNCHANGED <<accessible, hpa>>
       \/ /\ choice = 2 /\ HddGoto("confirm")
          /\ hpa' = [hpa EXCEPT !.WAS_DISABLED = FALSE, !.DETECTED = TRUE]
          /\ UNCHANGED <<accessible, hdd_result>>
       \/ /\ choice = 3 /\ HddReturn("failed") /\ UNCHANGED <<accessible, hpa>>
    /\ UNCHANGED <<DEVICE_SIZE, hdd_report, factory, hdd_sectors, lost>>

restore_hpa_settings ==
    IF hpa.WAS_DISABLED /\ hpa.ORIGINAL_SIZE # 0
    THEN \/ accessible' = [accessible EXCEPT ![hdd_device] = hpa.ORIGINAL_SIZE] /\ UNCHANGED lost
         \/ "restore" \in HddFaults /\ lost' = [lost EXCEPT ![hdd_device] = "hdparm"] /\ UNCHANGED accessible
    ELSE UNCHANGED <<accessible, lost>>

\* "OVERWRITE NOW", or anything else.
HddConfirm == /\ hdd_call.pc = "confirm" /\ HddGoto("overwrite")
              /\ UNCHANGED <<DEVICE_SIZE, hpa, hdd_result, hdd_report, accessible, factory, hdd_sectors, lost>>

HddDecline == /\ hdd_call.pc = "confirm"
              /\ restore_hpa_settings /\ HddReturn("failed")
              /\ UNCHANGED <<DEVICE_SIZE, hpa, hdd_report, factory, hdd_sectors>>

\* dd writes zeros up to the end of the drive, or to a sector it cannot write;
\* the status that counts is that of the tee its output is piped to.
execute_secure_overwrite ==
    /\ hdd_call.pc = "overwrite"
    /\ \E last \in IF "io" \in HddFaults THEN 0 .. accessible[hdd_device] ELSE {accessible[hdd_device]},
          status \in {"SUCCESS"} \cup (IF "tee" \in HddFaults THEN {"FAILED"} ELSE {}) :
         /\ hdd_sectors' = [hdd_sectors EXCEPT ![hdd_device] = [s \in Positions |-> IF s < last THEN "zero" ELSE @[s]]]
         /\ hdd_report' = [hdd_report EXCEPT ![hdd_device] = [status |-> status, handled |-> hpa.WAS_DISABLED,
                                              whole |-> last = accessible[hdd_device]]]
         /\ HddGoto(IF status = "SUCCESS" THEN "verify" ELSE "restore")
    /\ UNCHANGED <<DEVICE_SIZE, hpa, hdd_result, accessible, factory, lost>>

\* The grep -qv that looks for a line without zeros in the first five lines.
NonZeroFound(kind) == GrepV("00", Echo(HeadLines(5, Hexdump(kind))))

\* One turn of the loop of verify_overwrite.
verify_overwrite(random) ==
    /\ hdd_call.pc = "verify" /\ DEVICE_SIZE # 2 * HDD_MARGIN
    /\ LET s == RandomSector(random, DEVICE_SIZE, HDD_MARGIN)
           bad == NonZeroFound(ReadSector(hdd_sectors[hdd_device], accessible[hdd_device], s))
       IN hdd_call' = [hdd_call EXCEPT !.n = @ + 1, !.ok = ~ bad,
                                       !.pc = IF bad \/ hdd_call.n + 1 = HDD_SAMPLES THEN "restore" ELSE @]
    /\ UNCHANGED <<DEVICE_SIZE, hpa, hdd_result, hdd_report, accessible, factory, hdd_sectors, lost>>

\* RANDOM % 0: bash abandons every function that is running.
HddVerifyAborts ==
    /\ hdd_call.pc = "verify" /\ DEVICE_SIZE = 2 * HDD_MARGIN
    /\ HddReturn("aborted") /\ lost' = [lost EXCEPT ![hdd_device] = "abort"]
    /\ UNCHANGED <<DEVICE_SIZE, hpa, hdd_report, accessible, factory, hdd_sectors>>

HddFinish == /\ hdd_call.pc = "restore"
             /\ restore_hpa_settings /\ HddReturn(IF hdd_call.ok THEN "success" ELSE "failed")
             /\ UNCHANGED <<DEVICE_SIZE, hpa, hdd_report, factory, hdd_sectors>>

HddNext == \/ \E d \in Drives : HddCall(d)
           \/ get_device_geometry \/ HpaNotFound \/ (\E c \in 1 .. 3 : HpaFound(c))
           \/ HddConfirm \/ HddDecline \/ execute_secure_overwrite
           \/ (\E r \in 0 .. RANDOM_MAX : verify_overwrite(r)) \/ HddVerifyAborts \/ HddFinish

HddSpec == HddInit /\ [][HddNext]_hdd_vars

-----------------------------------------------------------------------------
\* Steps, globals and drives keep to their types.
HddTypeOK ==
    /\ hdd_call \in [pc : {"idle", "geometry", "hpa", "confirm", "overwrite", "verify", "restore"},
                     device : Drives \cup {"none"}, n : 0 .. HDD_SAMPLES, ok : BOOLEAN]
    /\ (hdd_call.pc = "idle") <=> (hdd_device = "none")
    /\ DEVICE_SIZE \in 0 .. Native
    /\ hpa \in [WAS_DISABLED : BOOLEAN, ORIGINAL_SIZE : 0 .. Native, DETECTED : BOOLEAN]
    /\ hdd_result \in [Drives -> {"none", "success", "failed", "aborted"}]
    /\ hdd_report \in [Drives -> [status : {"none", "SUCCESS", "FAILED"}, handled : BOOLEAN,
                                  whole : BOOLEAN]]
    /\ accessible \in [Drives -> 1 .. Native] /\ factory \in [Drives -> 1 .. Native]
    /\ hdd_sectors \in [Drives -> [Positions -> {"old", "zero"}]]
    /\ lost \in [Drives -> {"no", "hdparm", "abort"}]

\* Between calls every drive shows the sectors it showed at the start: however
\* a call returns, restore_hpa_settings put back this drive's own HPA and not
\* the size an earlier call left in ORIGINAL_HPA_SIZE, unless hdparm failed or
\* bash abandoned the call.
HpaRestored ==
    \A d \in Drives : d # hdd_device /\ lost[d] = "no" => accessible[d] = factory[d]

\* A report whose Status is SUCCESS is true if dd was not stopped: the sectors
\* the drive showed are zero, and those of its HPA as well if the report says
\* "HPA Handled: true".
ReportIsTrue ==
    \A d \in Drives : hdd_report[d].status = "SUCCESS" /\ hdd_report[d].whole =>
        \A s \in Positions : s < factory[d] \/ hdd_report[d].handled => hdd_sectors[d][s] = "zero"
=============================================================================
