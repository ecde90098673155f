-------------------------- MODULE Engines_proofs ---------------------------
(***************************************************************************)
(* Proofs about the erase engines, the verification of a device and the    *)
(* session that certifies what they did, for any devices, of any sizes,    *)
(* and any faults.                                                         *)
(***************************************************************************)
EXTENDS HddOverwrite, CryptoErase, ExternalStorage, Verification, WipeSession, TLAPS

-----------------------------------------------------------------------------
(***************************************************************************)
(* hdd-overwrite.sh                                                        *)
(***************************************************************************)
\* The steps of a call after detect_and_handle_hpa
AfterHpa == hdd_call.pc \in {"confirm", "overwrite", "verify", "restore"}

\* This call disabled the HPA of its drive and has still to put it back.
Owed == AfterHpa /\ hpa.WAS_DISABLED

\* The samples are counted from the start of the verification.
SamplesCounted ==
    /\ hdd_call.pc \in {"geometry", "hpa", "confirm", "overwrite"} => hdd_call.n = 0
    /\ hdd_call.pc = "verify" => hdd_call.n < HDD_SAMPLES

\* What is owed is the drive's own size; nothing else is missing.
HpaKept ==
    \A d \in Drives : lost[d] = "no" =>
        IF d = hdd_device /\ Owed THEN hpa.ORIGINAL_SIZE = factory[d] ELSE accessible[d] = factory[d]

\* A drive never shows less than it did; all of it while its HPA is off.
NeverLess ==
    /\ \A d \in Drives : factory[d] <= accessible[d]
    /\ Owed => accessible[hdd_device] = Native /\ factory[hdd_device] <= hpa.ORIGINAL_SIZE

HddIInv == HddTypeOK /\ SamplesCounted /\ HpaKept /\ NeverLess /\ ReportIsTrue

-----------------------------------------------------------------------------
\* HddIInv holds at the start of a session.
LEMMA HddInitIInv == HddInit => HddIInv
<1> SUFFICES ASSUME HddInit PROVE HddIInv
  OBVIOUS
<1> USE DEF HddInit
<1>1. HddTypeOK
  BY DrivesAssumption, NativeAssumption, HddVerifyAssumption DEF HddTypeOK, HddIdle, HddNoReport, hdd_device
<1>2. SamplesCounted
  BY Zenon DEF SamplesCounted, HddIdle
<1>3. HpaKept /\ NeverLess
  BY NativeAssumption DEF HpaKept, NeverLess, Owed, AfterHpa, HddIdle
<1>4. ReportIsTrue
  BY Zenon DEF ReportIsTrue, HddNoReport
<1> QED
  BY <1>1, <1>2, <1>3, <1>4, Zenon DEF HddIInv

\* A running call has a drive, and the drive its sizes.
LEMMA CallHasDrive ==
    ASSUME HddTypeOK, hdd_call.pc # "idle"
    PROVE  /\ hdd_device \in Drives
           /\ accessible[hdd_device] \in 1 .. Native
           /\ factory[hdd_device] \in 1 .. Native
BY Zenon DEF HddTypeOK, hdd_device

\* A call that goes to another step keeps its drive and locals.
LEMMA GotoTypes ==
    ASSUME HddTypeOK, hdd_call.pc # "idle", HddGoto("hpa") \/ HddGoto("confirm")
    PROVE  /\ hdd_call' \in [pc : {"idle", "geometry", "hpa", "confirm", "overwrite", "verify", "restore"},
                         device : Drives \cup {"none"}, n : 0 .. HDD_SAMPLES, ok : BOOLEAN]
           /\ (hdd_call'.pc = "idle") <=> (hdd_call'.device = "none")
BY Zenon DEF HddTypeOK, HddGoto, hdd_device

\* What detect_and_handle_hpa does about an HPA: take it off, or leave
\* everything but the call as it is.
LEMMA HpaOutcomes ==
    ASSUME HddTypeOK, NEW c \in 1 .. 3, HpaFound(c)
    PROVE  /\ hdd_call.pc = "hpa" /\ UNCHANGED <<DEVICE_SIZE, hdd_report, factory, hdd_sectors, lost>>
           /\ \/ /\ HddGoto("confirm") /\ UNCHANGED hdd_result
                 /\ accessible' = [accessible EXCEPT ![hdd_device] = Native]
                 /\ hpa' = [WAS_DISABLED |-> TRUE, ORIGINAL_SIZE |-> accessible[hdd_device], DETECTED |-> TRUE]
              \/ /\ HddGoto("confirm") /\ UNCHANGED <<accessible, hdd_result>>
                 /\ hpa' = [hpa EXCEPT !.WAS_DISABLED = FALSE, !.DETECTED = TRUE]
              \/ HddReturn("failed") /\ UNCHANGED <<accessible, hpa>>
BY Zenon DEF HpaFound

\* Every step of a call keeps the types.
LEMMA TypeStep == HddIInv /\ HddNext => HddTypeOK'
<1> SUFFICES ASSUME HddIInv, HddNext PROVE HddTypeOK'
  OBVIOUS
<1> USE DrivesAssumption, NativeAssumption, HddVerifyAssumption
<1>0. HddTypeOK /\ SamplesCounted
  BY Zenon DEF HddIInv
<1>1. ASSUME NEW d \in Drives, HddCall(d) PROVE HddTypeOK'
  BY <1>0, <1>1 DEF HddTypeOK, SamplesCounted, hdd_device, HddCall
<1>2. ASSUME get_device_geometry PROVE HddTypeOK'
  <2>0. hdd_device \in Drives /\ accessible[hdd_device] \in 1 .. Native
    BY <1>0, <1>2, CallHasDrive, Zenon DEF get_device_geometry
  <2>1. CASE HddGoto("hpa") /\ DEVICE_SIZE' = accessible[hdd_device] /\ UNCHANGED hdd_result
    <3>1. hdd_call.pc # "idle" /\ DEVICE_SIZE' \in 0 .. Native
      BY <1>2, <2>0, <2>1 DEF get_device_geometry
    <3> QED
      BY <1>0, <1>2, <2>1, <3>1, GotoTypes, Zenon DEF HddTypeOK, hdd_device, get_device_geometry
  <2>2. CASE HddReturn("failed") /\ UNCHANGED DEVICE_SIZE
    BY <1>0, <1>2, <2>0, <2>2 DEF HddTypeOK, hdd_device, get_device_geometry, HddReturn, HddIdle
  <2> QED
    BY <1>2, <2>1, <2>2, Zenon DEF get_device_geometry
<1>3. ASSUME HpaNotFound PROVE HddTypeOK'
  BY <1>0, <1>3, Zenon DEF HddTypeOK, SamplesCounted, hdd_device, HpaNotFound, HddGoto
<1>4. ASSUME NEW c \in 1 .. 3, HpaFound(c) PROVE HddTypeOK'
  <2>0. hdd_call.pc = "hpa" /\ UNCHANGED <<DEVICE_SIZE, hdd_report, factory, hdd_sectors, lost>>
    BY <1>0, <1>4, HpaOutcomes, Zenon
  <2>1. hdd_device \in Drives /\ accessible[hdd_device] \in 1 .. Native /\ factory[hdd_device] \in 1 .. Native
    BY <1>0, <2>0, CallHasDrive, Zenon
  <2>2. CASE /\ HddGoto("confirm") /\ UNCHANGED hdd_result
             /\ accessible' = [accessible EXCEPT ![hdd_device] = Native]
             /\ hpa' = [WAS_DISABLED |-> TRUE, ORIGINAL_SIZE |-> accessible[hdd_device], DETECTED |-> TRUE]
    <3>1. accessible' \in [Drives -> 1 .. Native]
      BY <1>0, <2>1, <2>2 DEF HddTypeOK
    <3>2. hpa' \in [WAS_DISABLED : BOOLEAN, ORIGINAL_SIZE : 0 .. Native, DETECTED : BOOLEAN]
      BY <2>1, <2>2
    <3> QED
      BY <1>0, <2>0, <2>2, <3>1, <3>2, GotoTypes, Zenon DEF HddTypeOK, hdd_device
  <2>3. CASE /\ HddGoto("confirm") /\ UNCHANGED <<accessible, hdd_result>>
             /\ hpa' = [hpa EXCEPT !.WAS_DISABLED = FALSE, !.DETECTED = TRUE]
    BY <1>0, <2>0, <2>1, <2>3, Zenon DEF HddTypeOK, hdd_device, HddGoto
  <2>4. CASE HddReturn("failed") /\ UNCHANGED <<accessible, hpa>>
    BY <1>0, <2>0, <2>1, <2>4 DEF HddTypeOK, hdd_device, HddReturn, HddIdle
  <2> QED
    BY <1>0, <1>4, <2>2, <2>3, <2>4, HpaOutcomes, Zenon
<1>5. ASSUME HddConfirm PROVE HddTypeOK'
  BY <1>0, <1>5, Zenon DEF HddTypeOK, SamplesCounted, hdd_device, HddConfirm, HddGoto
<1>6. ASSUME HddDecline PROVE HddTypeOK'
  <2>1. hdd_device \in Drives /\ hpa.ORIGINAL_SIZE \in 0 .. Native
    BY <1>0, <1>6, CallHasDrive, Zenon DEF HddTypeOK, HddDecline
  <2>2. accessible' \in [Drives -> 1 .. Native] /\ lost' \in [Drives -> {"no", "hdparm", "abort"}]
    <3>1. CASE accessible' = [accessible EXCEPT ![hdd_device] = hpa.ORIGINAL_SIZE] /\ hpa.ORIGINAL_SIZE # 0 /\ lost' = lost
      <4>1. hpa.ORIGINAL_SIZE \in 1 .. Native
        BY <2>1, <3>1, NativeAssumption
      <4> QED
        BY <1>0, <2>1, <3>1, <4>1, Zenon DEF HddTypeOK
    <3>2. CASE lost' = [lost EXCEPT ![hdd_device] = "hdparm"] /\ accessible' = accessible
      BY <1>0, <2>1, <3>2, Zenon DEF HddTypeOK
    <3>3. CASE UNCHANGED <<accessible, lost>>
      BY <1>0, <3>3, Zenon DEF HddTypeOK
    <3> QED
      BY <1>6, <3>1, <3>2, <3>3, Zenon DEF HddDecline, restore_hpa_settings
  <2>3. hdd_call' = HddIdle /\ hdd_result' \in [Drives -> {"none", "success", "failed", "aborted"}]
    BY <1>0, <1>6, <2>1, Zenon DEF HddTypeOK, HddDecline, HddReturn
  <2>4. UNCHANGED <<DEVICE_SIZE, hpa, hdd_report, factory, hdd_sectors>>
    BY <1>6, Zenon DEF HddDecline
  <2> QED
    BY <1>0, <2>2, <2>3, <2>4 DEF HddTypeOK, HddIdle, hdd_device
<1>7. ASSUME execute_secure_overwrite PROVE HddTypeOK'
  <2>0. hdd_device \in Drives /\ accessible[hdd_device] \in 1 .. Native /\ factory[hdd_device] \in 1 .. Native
    BY <1>0, <1>7, CallHasDrive, Zenon DEF execute_secure_overwrite
  <2>1. PICK last \in IF "io" \in HddFaults THEN 0 .. accessible[hdd_device] ELSE {accessible[hdd_device]},
             status \in {"SUCCESS"} \cup (IF "tee" \in HddFaults THEN {"FAILED"} ELSE {}) :
            /\ hdd_sectors' = [hdd_sectors EXCEPT ![hdd_device] = [s \in Positions |-> IF s < last THEN "zero" ELSE @[s]]]
            /\ hdd_report' = [hdd_report EXCEPT ![hdd_device] = [status |-> status, handled |-> hpa.WAS_DISABLED,
                                                 whole |-> last = accessible[hdd_device]]]
            /\ HddGoto(IF status = "SUCCESS" THEN "verify" ELSE "restore")
    BY <1>7, Zenon DEF execute_secure_overwrite
  <2>a. last \in 0 .. accessible[hdd_device] /\ status \in {"SUCCESS", "FAILED"}
    BY <2>0
  <2>2. hdd_call.pc = "overwrite" /\ UNCHANGED <<DEVICE_SIZE, hpa, hdd_result, accessible, factory, lost>>
    BY <1>7, Zenon DEF execute_secure_overwrite
  <2>3. hdd_sectors' \in [Drives -> [Positions -> {"old", "zero"}]]
    BY <1>0, <2>0, <2>1, <2>a DEF HddTypeOK
  <2>4. hdd_report' \in [Drives -> [status : {"none", "SUCCESS", "FAILED"}, handled : BOOLEAN, whole : BOOLEAN]]
    BY <1>0, <2>0, <2>1, <2>a, Zenon DEF HddTypeOK
  <2> QED
    BY <1>0, <2>1, <2>a, <2>2, <2>3, <2>4, Zenon DEF HddTypeOK, hdd_device, HddGoto
<1>8. ASSUME NEW r \in 0 .. RANDOM_MAX, verify_overwrite(r) PROVE HddTypeOK'
  <2>1. PICK bad \in BOOLEAN :
            hdd_call' = [hdd_call EXCEPT !.n = @ + 1, !.ok = ~ bad,
                                         !.pc = IF bad \/ hdd_call.n + 1 = HDD_SAMPLES THEN "restore" ELSE @]
    BY <1>8, Zenon DEF verify_overwrite, NonZeroFound, GrepV
  <2>2. /\ hdd_call.pc = "verify"
        /\ UNCHANGED <<DEVICE_SIZE, hpa, hdd_result, hdd_report, accessible, factory, hdd_sectors, lost>>
    BY <1>8, Zenon DEF verify_overwrite
  <2>3. hdd_call.n + 1 \in 0 .. HDD_SAMPLES
    BY <1>0, <2>2 DEF HddTypeOK, SamplesCounted
  <2> QED
    BY <1>0, <2>1, <2>2, <2>3, Zenon DEF HddTypeOK, hdd_device
<1>9. ASSUME HddVerifyAborts PROVE HddTypeOK'
  BY <1>0, <1>9 DEF HddTypeOK, SamplesCounted, hdd_device, HddVerifyAborts, HddReturn, HddIdle
<1>10. ASSUME HddFinish PROVE HddTypeOK'
  <2>1. /\ hdd_device \in Drives /\ hdd_call' = HddIdle
        /\ hdd_result' = [hdd_result EXCEPT ![hdd_device] = IF hdd_call.ok THEN "success" ELSE "failed"]
        /\ UNCHANGED <<DEVICE_SIZE, hpa, hdd_report, factory, hdd_sectors>>
    BY <1>0, <1>10, Zenon DEF HddTypeOK, hdd_device, HddFinish, HddReturn
  <2>2. accessible' \in [Drives -> 1 .. Native] /\ lost' \in [Drives -> {"no", "hdparm", "abort"}]
    <3>1. \/ /\ hpa.ORIGINAL_SIZE # 0 /\ UNCHANGED lost
             /\ accessible' = [accessible EXCEPT ![hdd_device] = hpa.ORIGINAL_SIZE]
          \/ lost' = [lost EXCEPT ![hdd_device] = "hdparm"] /\ UNCHANGED accessible
          \/ UNCHANGED <<accessible, lost>>
      BY <1>10, Zenon DEF HddFinish, restore_hpa_settings
    <3>2. /\ accessible \in [Drives -> 1 .. Native] /\ lost \in [Drives -> {"no", "hdparm", "abort"}]
          /\ hpa.ORIGINAL_SIZE # 0 => hpa.ORIGINAL_SIZE \in 1 .. Native
      BY <1>0, NativeAssumption DEF HddTypeOK
    <3> QED
      BY <2>1, <3>1, <3>2, Zenon
  <2>3. hdd_result' \in [Drives -> {"none", "success", "failed", "aborted"}]
    BY <1>0, <2>1, Zenon DEF HddTypeOK
  <2>4. /\ hdd_call' \in [pc : {"idle", "geometry", "hpa", "confirm", "overwrite", "verify", "restore"},
                          device : Drives \cup {"none"}, n : 0 .. HDD_SAMPLES, ok : BOOLEAN]
        /\ hdd_call'.pc = "idle" /\ hdd_device' = "none"
    BY <2>1, HddVerifyAssumption DEF HddIdle, hdd_device
  <2> QED
    BY <1>0, <2>1, <2>2, <2>3, <2>4, Zenon DEF HddTypeOK
<1> QED
  BY <1>1, <1>2, <1>3, <1>4, <1>5, <1>6, <1>7, <1>8, <1>9, <1>10, Zenon DEF HddNext

\* The count of samples starts at zero and stays below HDD_SAMPLES.
LEMMA SamplesStep == HddIInv /\ HddNext => SamplesCounted'
<1> SUFFICES ASSUME HddIInv, HddNext PROVE SamplesCounted'
  OBVIOUS
<1> USE DrivesAssumption, NativeAssumption, HddVerifyAssumption
<1>0. HddTypeOK /\ SamplesCounted
  BY Zenon DEF HddIInv
<1>1. ASSUME NEW d \in Drives, HddCall(d) PROVE SamplesCounted'
  BY <1>0, <1>1, Zenon DEF HddTypeOK, SamplesCounted, HddCall
<1>2. ASSUME get_device_geometry PROVE SamplesCounted'
  BY <1>0, <1>2 DEF HddTypeOK, SamplesCounted, get_device_geometry, HddGoto, HddReturn, HddIdle
<1>3. ASSUME HpaNotFound PROVE SamplesCounted'
  BY <1>0, <1>3, Zenon DEF HddTypeOK, SamplesCounted, HpaNotFound, HddGoto
<1>4. ASSUME NEW c \in 1 .. 3, HpaFound(c) PROVE SamplesCounted'
  BY <1>0, <1>4 DEF HddTypeOK, SamplesCounted, HpaFound, HddGoto, HddReturn, HddIdle
<1>5. ASSUME HddConfirm PROVE SamplesCounted'
  BY <1>0, <1>5, Zenon DEF HddTypeOK, SamplesCounted, HddConfirm, HddGoto
<1>6. ASSUME HddDecline PROVE SamplesCounted'
  BY <1>0, <1>6, Zenon DEF HddTypeOK, SamplesCounted, HddDecline, restore_hpa_settings, HddReturn, HddIdle
<1>7. ASSUME execute_secure_overwrite PROVE SamplesCounted'
  BY <1>0, <1>7 DEF HddTypeOK, SamplesCounted, execute_secure_overwrite, HddGoto
<1>8. ASSUME NEW r \in 0 .. RANDOM_MAX, verify_overwrite(r) PROVE SamplesCounted'
  BY <1>0, <1>8 DEF HddTypeOK, SamplesCounted, verify_overwrite
<1>9. ASSUME HddVerifyAborts PROVE SamplesCounted'
  BY <1>0, <1>9, Zenon DEF HddTypeOK, SamplesCounted, HddVerifyAborts, HddReturn, HddIdle
<1>10. ASSUME HddFinish PROVE SamplesCounted'
  BY <1>0, <1>10, Zenon DEF HddTypeOK, SamplesCounted, HddFinish, restore_hpa_settings, HddReturn, HddIdle
<1> QED
  BY <1>1, <1>2, <1>3, <1>4, <1>5, <1>6, <1>7, <1>8, <1>9, <1>10, Zenon DEF HddNext

\* Whatever a call does to the HPA, it owes the drive its own size or nothing.
LEMMA HpaStep == HddIInv /\ HddNext => HpaKept'
<1> SUFFICES ASSUME HddIInv, HddNext PROVE HpaKept'
  OBVIOUS
<1> USE DrivesAssumption, NativeAssumption, HddVerifyAssumption
<1>0. HddTypeOK /\ HpaKept
  BY Zenon DEF HddIInv
<1>1. ASSUME NEW d \in Drives, HddCall(d) PROVE HpaKept'
  BY <1>0, <1>1, Zenon DEF HddTypeOK, HpaKept, Owed, AfterHpa, hdd_device, HddCall
<1>2. ASSUME get_device_geometry PROVE HpaKept'
  BY <1>0, <1>2 DEF HddTypeOK, HpaKept, Owed, AfterHpa, hdd_device, get_device_geometry, HddGoto, HddReturn,
     HddIdle
<1>3. ASSUME HpaNotFound PROVE HpaKept'
  BY <1>0, <1>3, Zenon DEF HddTypeOK, HpaKept, Owed, AfterHpa, hdd_device, HpaNotFound, HddGoto
<1>4. ASSUME NEW c \in 1 .. 3, HpaFound(c) PROVE HpaKept'
  <2>0. hdd_call.pc = "hpa" /\ UNCHANGED <<DEVICE_SIZE, hdd_report, factory, hdd_sectors, lost>>
    BY <1>0, <1>4, HpaOutcomes, Zenon
  <2>1. hdd_device \in Drives /\ accessible[hdd_device] \in 1 .. Native /\ factory[hdd_device] \in 1 .. Native
    BY <1>0, <2>0, CallHasDrive, Zenon
  <2>2. CASE /\ HddGoto("confirm") /\ UNCHANGED hdd_result
             /\ accessible' = [accessible EXCEPT ![hdd_device] = Native]
             /\ hpa' = [WAS_DISABLED |-> TRUE, ORIGINAL_SIZE |-> accessible[hdd_device], DETECTED |-> TRUE]
    BY <1>0, <2>0, <2>1, <2>2, Zenon DEF HddTypeOK, HpaKept, Owed, AfterHpa, hdd_device, HddGoto
  <2>3. CASE /\ HddGoto("confirm") /\ UNCHANGED <<accessible, hdd_result>>
             /\ hpa' = [hpa EXCEPT !.WAS_DISABLED = FALSE, !.DETECTED = TRUE]
    BY <1>0, <2>0, <2>1, <2>3, Zenon DEF HddTypeOK, HpaKept, Owed, AfterHpa, hdd_device, HddGoto
  <2>4. CASE HddReturn("failed") /\ UNCHANGED <<accessible, hpa>>
    BY <1>0, <2>0, <2>1, <2>4, Zenon DEF HddTypeOK, HpaKept, Owed, AfterHpa, hdd_device, HddReturn, HddIdle
  <2> QED
    BY <1>0, <1>4, <2>2, <2>3, <2>4, HpaOutcomes, Zenon
<1>5. ASSUME HddConfirm PROVE HpaKept'
  BY <1>0, <1>5, Zenon DEF HddTypeOK, HpaKept, Owed, AfterHpa, hdd_device, HddConfirm, HddGoto
<1>6. ASSUME HddDecline PROVE HpaKept'
  BY <1>0, <1>6 DEF HddTypeOK, HpaKept, Owed, AfterHpa, hdd_device, HddDecline, restore_hpa_settings,
     HddReturn, HddIdle
<1>7. ASSUME execute_secure_overwrite PROVE HpaKept'
  BY <1>0, <1>7 DEF HddTypeOK, HpaKept, Owed, AfterHpa, hdd_device, execute_secure_overwrite, HddGoto
<1>8. ASSUME NEW r \in 0 .. RANDOM_MAX, verify_overwrite(r) PROVE HpaKept'
  BY <1>0, <1>8, Zenon DEF HddTypeOK, HpaKept, Owed, AfterHpa, hdd_device, verify_overwrite
<1>9. ASSUME HddVerifyAborts PROVE HpaKept'
  BY <1>0, <1>9, Zenon DEF HddTypeOK, HpaKept, Owed, AfterHpa, hdd_device, HddVerifyAborts, HddReturn, HddIdle
<1>10. ASSUME HddFinish PROVE HpaKept'
  BY <1>0, <1>10 DEF HddTypeOK, HpaKept, Owed, AfterHpa, hdd_device, HddFinish, restore_hpa_settings,
     HddReturn, HddIdle
<1> QED
  BY <1>1, <1>2, <1>3, <1>4, <1>5, <1>6, <1>7, <1>8, <1>9, <1>10, Zenon DEF HddNext

\* No step makes a drive show less than it did when the session began.
LEMMA NeverLessStep == HddIInv /\ HddNext => NeverLess'
<1> SUFFICES ASSUME HddIInv, HddNext PROVE NeverLess'
  OBVIOUS
<1> USE DrivesAssumption, NativeAssumption, HddVerifyAssumption
<1>0. HddTypeOK /\ NeverLess
  BY Zenon DEF HddIInv
<1>1. ASSUME NEW d \in Drives, HddCall(d) PROVE NeverLess'
  BY <1>0, <1>1, Zenon DEF HddTypeOK, NeverLess, Owed, AfterHpa, hdd_device, HddCall
<1>2. ASSUME get_device_geometry PROVE NeverLess'
  BY <1>0, <1>2 DEF HddTypeOK, NeverLess, Owed, AfterHpa, hdd_device, get_device_geometry, HddGoto, HddReturn,
     HddIdle
<1>3. ASSUME HpaNotFound PROVE NeverLess'
  BY <1>0, <1>3, Zenon DEF HddTypeOK, NeverLess, Owed, AfterHpa, hdd_device, HpaNotFound, HddGoto
<1>4. ASSUME NEW c \in 1 .. 3, HpaFound(c) PROVE NeverLess'
  <2>0. hdd_call.pc = "hpa" /\ UNCHANGED <<DEVICE_SIZE, hdd_report, factory, hdd_sectors, lost>>
    BY <1>0, <1>4, HpaOutcomes, Zenon
  <2>1. hdd_device \in Drives /\ accessible[hdd_device] \in 1 .. Native /\ factory[hdd_device] \in 1 .. Native
    BY <1>0, <2>0, CallHasDrive, Zenon
  <2>2. CASE /\ HddGoto("confirm") /\ UNCHANGED hdd_result
             /\ accessible' = [accessible EXCEPT ![hdd_device] = Native]
             /\ hpa' = [WAS_DISABLED |-> TRUE, ORIGINAL_SIZE |-> accessible[hdd_device], DETECTED |-> TRUE]
    BY <1>0, <2>0, <2>1, <2>2 DEF HddTypeOK, NeverLess, Owed, AfterHpa, hdd_device, HddGoto
  <2>3. CASE /\ HddGoto("confirm") /\ UNCHANGED <<accessible, hdd_result>>
             /\ hpa' = [hpa EXCEPT !.WAS_DISABLED = FALSE, !.DETECTED = TRUE]
    BY <1>0, <2>0, <2>1, <2>3, Zenon DEF HddTypeOK, NeverLess, Owed, AfterHpa, hdd_device, HddGoto
  <2>4. CASE HddReturn("failed") /\ UNCHANGED <<accessible, hpa>>
    BY <1>0, <2>0, <2>1, <2>4, Zenon DEF HddTypeOK, NeverLess, Owed, AfterHpa, hdd_device, HddReturn, HddIdle
  <2> QED
    BY <1>0, <1>4, <2>2, <2>3, <2>4, HpaOutcomes, Zenon
<1>5. ASSUME HddConfirm PROVE NeverLess'
  BY <1>0, <1>5, Zenon DEF HddTypeOK, NeverLess, Owed, AfterHpa, hdd_device, HddConfirm, HddGoto
<1>6. ASSUME HddDecline PROVE NeverLess'
  BY <1>0, <1>6, Zenon DEF HddTypeOK, NeverLess, Owed, AfterHpa, hdd_device, HddDecline, restore_hpa_settings,
     HddReturn, HddIdle
<1>7. ASSUME execute_secure_overwrite PROVE NeverLess'
  BY <1>0, <1>7 DEF HddTypeOK, NeverLess, Owed, AfterHpa, hdd_device, execute_secure_overwrite, HddGoto
<1>8. ASSUME NEW r \in 0 .. RANDOM_MAX, verify_overwrite(r) PROVE NeverLess'
  BY <1>0, <1>8, Zenon DEF HddTypeOK, NeverLess, Owed, AfterHpa, hdd_device, verify_overwrite
<1>9. ASSUME HddVerifyAborts PROVE NeverLess'
  BY <1>0, <1>9, Zenon DEF HddTypeOK, NeverLess, Owed, AfterHpa, hdd_device, HddVerifyAborts, HddReturn, HddIdle
<1>10. ASSUME HddFinish PROVE NeverLess'
  BY <1>0, <1>10, Zenon DEF HddTypeOK, NeverLess, Owed, AfterHpa, hdd_device, HddFinish, restore_hpa_settings,
     HddReturn, HddIdle
<1> QED
  BY <1>1, <1>2, <1>3, <1>4, <1>5, <1>6, <1>7, <1>8, <1>9, <1>10, Zenon DEF HddNext

\* A report stays true, and a new one is.
LEMMA ReportStep == HddIInv /\ HddNext => ReportIsTrue'
<1> SUFFICES ASSUME HddIInv, HddNext PROVE ReportIsTrue'
  OBVIOUS
<1> USE DrivesAssumption, NativeAssumption, HddVerifyAssumption
<1>0. HddTypeOK /\ NeverLess /\ ReportIsTrue
  BY Zenon DEF HddIInv
<1>1. ASSUME NEW d \in Drives, HddCall(d) PROVE ReportIsTrue'
  BY <1>0, <1>1, Zenon DEF HddTypeOK, NeverLess, Owed, AfterHpa, ReportIsTrue, Positions, hdd_device, HddCall
<1>2. ASSUME get_device_geometry PROVE ReportIsTrue'
  BY <1>0, <1>2, Zenon DEF HddTypeOK, NeverLess, Owed, AfterHpa, ReportIsTrue, Positions, hdd_device,
     get_device_geometry, HddGoto, HddReturn, HddIdle
<1>3. ASSUME HpaNotFound PROVE ReportIsTrue'
  BY <1>0, <1>3, Zenon DEF HddTypeOK, NeverLess, Owed, AfterHpa, ReportIsTrue, Positions, hdd_device,
     HpaNotFound, HddGoto
<1>4. ASSUME NEW c \in 1 .. 3, HpaFound(c) PROVE ReportIsTrue'
  BY <1>0, <1>4, Zenon DEF HddTypeOK, NeverLess, Owed, AfterHpa, ReportIsTrue, Positions, hdd_device, HpaFound,
     HddGoto, HddReturn, HddIdle
<1>5. ASSUME HddConfirm PROVE ReportIsTrue'
  BY <1>0, <1>5, Zenon DEF HddTypeOK, NeverLess, Owed, AfterHpa, ReportIsTrue, Positions, hdd_device,
     HddConfirm,
     HddGoto
<1>6. ASSUME HddDecline PROVE ReportIsTrue'
  BY <1>0, <1>6, Zenon DEF HddTypeOK, NeverLess, Owed, AfterHpa, ReportIsTrue, Positions, hdd_device,
     HddDecline,
     restore_hpa_settings, HddReturn, HddIdle
<1>7. ASSUME execute_secure_overwrite PROVE ReportIsTrue'
  <2>0. hdd_device \in Drives /\ accessible[hdd_device] \in 1 .. Native /\ factory[hdd_device] \in 1 .. Native
    BY <1>0, <1>7, CallHasDrive, Zenon DEF execute_secure_overwrite
  <2>1. PICK last \in IF "io" \in HddFaults THEN 0 .. accessible[hdd_device] ELSE {accessible[hdd_device]},
             status \in {"SUCCESS"} \cup (IF "tee" \in HddFaults THEN {"FAILED"} ELSE {}) :
            /\ hdd_sectors' = [hdd_sectors EXCEPT ![hdd_device] = [s \in Positions |-> IF s < last THEN "zero" ELSE @[s]]]
            /\ hdd_report' = [hdd_report EXCEPT ![hdd_device] = [status |-> status, handled |-> hpa.WAS_DISABLED,
                                                 whole |-> last = accessible[hdd_device]]]
            /\ HddGoto(IF status = "SUCCESS" THEN "verify" ELSE "restore")
    BY <1>7, Zenon DEF execute_secure_overwrite
  <2>a. last \in 0 .. accessible[hdd_device] /\ status \in {"SUCCESS", "FAILED"}
    BY <2>0
  <2>2. hdd_call.pc = "overwrite" /\ UNCHANGED <<DEVICE_SIZE, hpa, hdd_result, accessible, factory, lost>>
    BY <1>7, Zenon DEF execute_secure_overwrite
  <2>3. SUFFICES ASSUME NEW d \in Drives, hdd_report'[d].status = "SUCCESS", hdd_report'[d].whole,
                        NEW s \in Positions, s < factory[d] \/ hdd_report'[d].handled
                 PROVE  hdd_sectors'[d][s] = "zero"
    BY <2>2, Zenon DEF ReportIsTrue
  <2>4. CASE d # hdd_device
    BY <1>0, <2>1, <2>3, <2>4 DEF HddTypeOK, ReportIsTrue
  <2>5. CASE d = hdd_device
    <3>1. last = accessible[hdd_device] /\ hdd_report'[hdd_device].handled = hpa.WAS_DISABLED
      BY <1>0, <2>0, <2>1, <2>3, <2>5, Zenon DEF HddTypeOK
    <3>2. s < accessible[hdd_device]
      BY <1>0, <2>0, <2>2, <2>3, <2>5, <3>1 DEF NeverLess, Owed, AfterHpa, Positions
    <3> QED
      BY <1>0, <2>0, <2>1, <2>5, <3>1, <3>2, Zenon DEF HddTypeOK
  <2> QED
    BY <2>4, <2>5, Zenon
<1>8. ASSUME NEW r \in 0 .. RANDOM_MAX, verify_overwrite(r) PROVE ReportIsTrue'
  BY <1>0, <1>8, Zenon DEF HddTypeOK, NeverLess, Owed, AfterHpa, ReportIsTrue, Positions, hdd_device,
     verify_overwrite
<1>9. ASSUME HddVerifyAborts PROVE ReportIsTrue'
  BY <1>0, <1>9, Zenon DEF HddTypeOK, NeverLess, Owed, AfterHpa, ReportIsTrue, Positions, hdd_device,
     HddVerifyAborts,
     HddReturn, HddIdle
<1>10. ASSUME HddFinish PROVE ReportIsTrue'
  BY <1>0, <1>10, Zenon DEF HddTypeOK, NeverLess, Owed, AfterHpa, ReportIsTrue, Positions, hdd_device,
     HddFinish,
     restore_hpa_settings, HddReturn, HddIdle
<1> QED
  BY <1>1, <1>2, <1>3, <1>4, <1>5, <1>6, <1>7, <1>8, <1>9, <1>10, Zenon DEF HddNext

\* HddIInv holds throughout every session.
THEOREM HddInvariance == HddSpec => []HddIInv
<1>1. HddIInv /\ [HddNext]_hdd_vars => HddIInv'
  <2> SUFFICES ASSUME HddIInv, [HddNext]_hdd_vars PROVE HddIInv'
    OBVIOUS
  <2>1. CASE HddNext
    BY <2>1, TypeStep, SamplesStep, HpaStep, NeverLessStep, ReportStep, Zenon DEF HddIInv
  <2>2. CASE UNCHANGED hdd_vars
    BY <2>2 DEF hdd_vars, HddIInv, HddTypeOK, SamplesCounted, HpaKept, NeverLess, ReportIsTrue, Owed, AfterHpa,
       hdd_device
  <2> QED
    BY <2>1, <2>2, Zenon
<1> QED
  BY HddInitIInv, <1>1, PTL DEF HddSpec

\* The globals, locals and drives keep to their types.
THEOREM HddTypeCorrect == HddSpec => []HddTypeOK
BY HddInvariance, PTL DEF HddIInv

\* Between calls every drive shows what it showed at the start, unless hdparm
\* failed or bash abandoned the call: ORIGINAL_HPA_SIZE, which outlives a call,
\* never gets to another drive.
THEOREM HpaComesBack == HddSpec => []HpaRestored
<1>1. HddIInv => HpaRestored
  BY Zenon DEF HddIInv, HpaKept, HpaRestored
<1> QED
  BY HddInvariance, <1>1, PTL

\* A report of success over a dd that was not stopped is true: the sectors
\* shown at the start are zero, and all are if the HPA was handled.
THEOREM SuccessIsTrue == HddSpec => []ReportIsTrue
BY HddInvariance, PTL DEF HddIInv

-----------------------------------------------------------------------------
(***************************************************************************)
(* crypto-erase.sh and the plan of wipe-engine.sh                          *)
(***************************************************************************)
\* call is a record, of a device while it is under way.
CallShape ==
    /\ crypto_call \in [pc : {"idle", "choose", "nvme", "nvme_format", "ata", "set_password", "ata_erase"},
                 device : CryptoDevices \cup {"none"}, password_set : BOOLEAN]
    /\ crypto_call.pc # "idle" => crypto_call.device \in CryptoDevices

\* A password of the script is on the drive it is erasing, or is known to have
\* stayed behind; and only then does the call think that it has set one.
PasswordInv ==
    /\ \A d \in CryptoDevices : security[d] = "temporary" =>
          d \in stuck \/ (d = crypto_device /\ crypto_call.pc = "ata_erase" /\ crypto_call.password_set)
    /\ crypto_call.password_set => crypto_call.pc = "ata_erase" /\ security[crypto_device] = "temporary"

\* What is exported after a plan was confirmed was detected of its device.
DetectedInv ==
    method.planned # "none" =>
        /\ detected.TYPE \in TypesFound(method.planned)
        /\ detected.IS_NVME = IF detected.TYPE = "nvme" THEN "true" ELSE "false"

CryptoIInv == CryptoTypeOK /\ CallShape /\ PasswordInv /\ DetectedInv

-----------------------------------------------------------------------------
\* The types detect_device_type finds are types.
LEMMA TypesFoundType == \A d \in CryptoDevices : TypesFound(d) \subseteq CryptoKinds \cup {"unknown"}
<1> SUFFICES ASSUME NEW d \in CryptoDevices PROVE TypesFound(d) \subseteq CryptoKinds \cup {"unknown"}
  OBVIOUS
<1>1. CryptoKind[d] \in CryptoKinds
  BY CryptoKindAssumption, Zenon
<1> QED
  BY <1>1, Zenon DEF TypesFound, CryptoKinds

\* What detect_device_type exports, and that it never finds the erase supported
\* by anything that is neither an NVMe drive nor an SSD.
LEMMA Detects ==
    ASSUME NEW d \in CryptoDevices, detect_device_type(d)
    PROVE  /\ detected' \in [TYPE : CryptoKinds \cup {"unknown", "unset"}, IS_NVME : {"true", "false", "unset"},
                             CRYPTO : BOOLEAN]
           /\ detected'.TYPE \in TypesFound(d)
           /\ detected'.IS_NVME = IF detected'.TYPE = "nvme" THEN "true" ELSE "false"
           /\ detected'.CRYPTO => detected'.TYPE \in {"nvme", "ssd"}
<1>1. PICK t \in TypesFound(d), tool \in BOOLEAN :
        detected' = [TYPE |-> t, IS_NVME |-> IF t = "nvme" THEN "true" ELSE "false",
                     CRYPTO |-> t \in {"nvme", "ssd"} /\ tool]
  BY Zenon DEF detect_device_type
<1>2. t \in CryptoKinds \cup {"unknown"}
  BY TypesFoundType, Zenon
<1> QED
  BY <1>1, <1>2, Zenon

\* A fresh shell satisfies CryptoIInv.
LEMMA CryptoInitIInv == CryptoInit => CryptoIInv
<1> SUFFICES ASSUME CryptoInit PROVE CryptoIInv
  OBVIOUS
<1> USE DEF CryptoInit, CryptoIdle, Unset, NoMethod
<1>1. CryptoTypeOK
  BY Zenon DEF CryptoTypeOK
<1>2. CallShape
  BY Zenon DEF CallShape
<1>3. PasswordInv
  BY Zenon DEF PasswordInv, crypto_device
<1>4. DetectedInv
  BY Zenon DEF DetectedInv
<1> QED
  BY <1>1, <1>2, <1>3, <1>4, Zenon DEF CryptoIInv

\* Steps between the begin of a call and the erase of an ATA drive: the next one ...
LEMMA GotoKeepsIInv ==
    ASSUME CryptoIInv, crypto_call.pc \notin {"idle", "ata_erase"},
           NEW step \in {"nvme", "nvme_format", "ata", "set_password", "ata_erase"},
           crypto_call' = [crypto_call EXCEPT !.pc = step], UNCHANGED <<method, detected, crypto_result,
           security, erased, stuck>>
    PROVE  CryptoIInv'
<1> USE DEF CryptoIInv
<1>1. /\ crypto_call' \in [pc : {"idle", "choose", "nvme", "nvme_format", "ata", "set_password", "ata_erase"},
                    device : CryptoDevices \cup {"none"}, password_set : BOOLEAN]
      /\ crypto_call'.pc = step /\ crypto_call'.device = crypto_call.device
      /\ crypto_call'.password_set = crypto_call.password_set
  BY Zenon DEF CallShape
<1>2. CryptoTypeOK' /\ CallShape'
  BY <1>1, Zenon DEF CryptoTypeOK, CallShape
<1>3. ~ crypto_call.password_set
  BY Zenon DEF PasswordInv
<1>4. PasswordInv'
  BY <1>1, <1>3, Zenon DEF PasswordInv, crypto_device
<1>5. DetectedInv'
  BY Zenon DEF DetectedInv
<1> QED
  BY <1>2, <1>4, <1>5, Zenon

\* ... or the end, which may have erased the device.
LEMMA CryptoReturnKeepsIInv ==
    ASSUME CryptoIInv, crypto_call.pc \notin {"idle", "ata_erase"}, NEW how \in {"success", "failed",
    "not an SSD"},
           crypto_call' = CryptoIdle, crypto_result' = [crypto_result EXCEPT ![crypto_device] = how],
           erased' \in {erased, erased \cup {crypto_device}},
           UNCHANGED <<method, detected, security, stuck>>
    PROVE  CryptoIInv'
<1> USE DEF CryptoIInv
<1>1. CryptoTypeOK' /\ CallShape'
  BY Zenon DEF CryptoTypeOK, CallShape, CryptoIdle, crypto_device
<1>2. PasswordInv'
  BY Zenon DEF PasswordInv, CryptoIdle, crypto_device
<1>3. DetectedInv'
  BY Zenon DEF DetectedInv
<1> QED
  BY <1>1, <1>2, <1>3, Zenon

\* Every step keeps CryptoIInv.
LEMMA CryptoStepIInv == CryptoIInv /\ [CryptoNext]_crypto_vars => CryptoIInv'
<1> SUFFICES ASSUME CryptoIInv, [CryptoNext]_crypto_vars PROVE CryptoIInv'
  OBVIOUS
<1> USE DEF CryptoIInv
<1>1. CASE UNCHANGED crypto_vars
  <2>1. CryptoTypeOK' /\ CallShape'
    BY <1>1, ZenonT(60) DEF crypto_vars, CryptoTypeOK, CallShape
  <2>2. PasswordInv' /\ DetectedInv'
    BY <1>1, Zenon DEF crypto_vars, PasswordInv, DetectedInv, crypto_device
  <2> QED
    BY <2>1, <2>2, Zenon
<1>2. ASSUME NEW d \in CryptoDevices, CryptoCall(d) PROVE CryptoIInv'
  <2>1. detected' \in [TYPE : CryptoKinds \cup {"unknown", "unset"}, IS_NVME : {"true", "false", "unset"}, CRYPTO : BOOLEAN]
    BY <1>2, Detects, Zenon DEF CryptoCall, CryptoTypeOK
  <2>2. CryptoTypeOK' /\ CallShape'
    BY <1>2, <2>1, Zenon DEF CryptoCall, CryptoTypeOK, CallShape
  <2>3. PasswordInv'
    BY <1>2, Zenon DEF CryptoCall, PasswordInv, crypto_device, CallShape, CryptoTypeOK
  <2>4. DetectedInv'
    <3>1. CASE UNCHANGED detected
      BY <1>2, <3>1, Zenon DEF CryptoCall, DetectedInv
    <3>2. CASE detected.IS_NVME = "unset"
      BY <1>2, <3>2, Zenon DEF CryptoCall, DetectedInv
    <3> QED
      BY <1>2, <3>1, <3>2, Zenon DEF CryptoCall
  <2> QED
    BY <2>2, <2>3, <2>4, Zenon
<1>3. ASSUME NEW d \in CryptoDevices, NEW confirmed \in BOOLEAN, CryptoPlan(d, confirmed) PROVE CryptoIInv'
  <2>1. detect_device_type(d)
    BY <1>3, Zenon DEF CryptoPlan
  <2>2. method' = [is |-> IF ~ detected'.CRYPTO THEN "overwrite" ELSE "crypto",
                   planned |-> IF confirmed THEN d ELSE "none"]
    BY <1>3, <2>1, Detects, Zenon DEF CryptoPlan
  <2>3. CryptoTypeOK'
    <3>1. method' \in [is : {"unknown", "crypto", "overwrite"}, planned : CryptoDevices \cup {"none"}]
      BY <2>2, Zenon
    <3>2. detected' \in [TYPE : CryptoKinds \cup {"unknown", "unset"}, IS_NVME : {"true", "false", "unset"}, CRYPTO : BOOLEAN]
      BY <2>1, Detects, Zenon
    <3> QED
      BY <1>3, <3>1, <3>2, Zenon DEF CryptoPlan, CryptoTypeOK
  <2>4. CallShape' /\ PasswordInv'
    BY <1>3, Zenon DEF CryptoPlan, CallShape, PasswordInv, crypto_device
  <2>5. DetectedInv'
    BY <2>1, <2>2, Detects, Zenon DEF DetectedInv
  <2> QED
    BY <2>3, <2>4, <2>5, Zenon
<1>4. CASE Choose
  <2>1. CASE CryptoReturn("not an SSD")
    BY <1>4, <2>1, CryptoReturnKeepsIInv, Zenon DEF Choose, CryptoReturn
  <2>2. CASE CryptoGoto("nvme") /\ UNCHANGED crypto_result
    BY <1>4, <2>2, GotoKeepsIInv, Zenon DEF Choose, CryptoGoto
  <2>3. CASE CryptoGoto("ata") /\ UNCHANGED crypto_result
    BY <1>4, <2>3, GotoKeepsIInv, Zenon DEF Choose, CryptoGoto
  <2> QED
    BY <1>4, <2>1, <2>2, <2>3, Zenon DEF Choose
<1>5. CASE NvmeInfo
  <2>1. CASE CryptoReturn("failed")
    BY <1>5, <2>1, CryptoReturnKeepsIInv, Zenon DEF NvmeInfo, CryptoReturn
  <2>2. CASE CryptoGoto("nvme_format") /\ UNCHANGED crypto_result
    BY <1>5, <2>2, GotoKeepsIInv, Zenon DEF NvmeInfo, CryptoGoto
  <2> QED
    BY <1>5, <2>1, <2>2, Zenon DEF NvmeInfo
<1>6. CASE Cancel
  BY <1>6, CryptoReturnKeepsIInv, Zenon DEF Cancel, CryptoReturn
<1>7. CASE NvmeFormat
  <2>1. CASE CryptoReturn("success") /\ erased' = erased \cup {crypto_device}
    BY <1>7, <2>1, CryptoReturnKeepsIInv, Zenon DEF NvmeFormat, CryptoReturn
  <2>2. CASE CryptoReturn("failed") /\ UNCHANGED erased
    BY <1>7, <2>2, CryptoReturnKeepsIInv, Zenon DEF NvmeFormat, CryptoReturn
  <2> QED
    BY <1>7, <2>1, <2>2, Zenon DEF NvmeFormat
<1>8. CASE AtaInfo
  <2>1. CASE CryptoReturn("failed")
    BY <1>8, <2>1, CryptoReturnKeepsIInv, Zenon DEF AtaInfo, CryptoReturn
  <2>2. CASE CryptoGoto("set_password") /\ UNCHANGED crypto_result
    BY <1>8, <2>2, GotoKeepsIInv, Zenon DEF AtaInfo, CryptoGoto
  <2> QED
    BY <1>8, <2>1, <2>2, Zenon DEF AtaInfo
<1>9. CASE AtaSetPassword
  <2> USE <1>9 DEF AtaSetPassword
  <2>1. CASE security' = [security EXCEPT ![crypto_device] = "temporary"]
             /\ crypto_call' = [crypto_call EXCEPT !.pc = "ata_erase", !.password_set = TRUE]
             /\ UNCHANGED crypto_result
    <3>1. CryptoTypeOK' /\ CallShape'
      <4>1. CryptoTypeOK'
        BY <2>1, Zenon DEF CryptoTypeOK, CallShape, crypto_device
      <4>2. CallShape'
        BY <2>1, Zenon DEF CallShape, CryptoTypeOK, crypto_device
      <4> QED
        BY <4>1, <4>2, Zenon
    <3>2. PasswordInv'
      BY <2>1, ZenonT(60) DEF PasswordInv, CryptoTypeOK, CallShape, crypto_device
    <3> QED
      BY <3>1, <3>2, Zenon DEF DetectedInv
  <2>2. CASE CryptoReturn("failed") /\ UNCHANGED security
    BY <2>2, CryptoReturnKeepsIInv, Zenon DEF CryptoReturn
  <2>3. CASE CryptoGoto("ata_erase") /\ UNCHANGED <<crypto_result, security>>
    BY <2>3, GotoKeepsIInv, Zenon DEF CryptoGoto
  <2> QED
    BY <2>1, <2>2, <2>3, Zenon
<1>10. CASE AtaErase
  <2>1. CryptoTypeOK' /\ CallShape'
    <3>1. CryptoTypeOK'
      BY <1>10, Zenon DEF CryptoReturn, AtaErase, CryptoTypeOK, CryptoIdle, CallShape, crypto_device
    <3>2. CallShape'
      BY <1>10, Zenon DEF CryptoReturn, AtaErase, CryptoIdle, CallShape, CryptoTypeOK, crypto_device
    <3> QED
      BY <3>1, <3>2, Zenon
  <2>2. PasswordInv'
    BY <1>10, Zenon DEF CryptoReturn, AtaErase, PasswordInv, CryptoTypeOK, CryptoIdle, crypto_device, CallShape
  <2>3. DetectedInv'
    BY <1>10, Zenon DEF AtaErase, DetectedInv
  <2> QED
    BY <2>1, <2>2, <2>3, Zenon
<1>11. CASE AtaEraseFails
  <2>1. CryptoTypeOK' /\ CallShape'
    <3>1. CryptoTypeOK'
      BY <1>11, Zenon DEF CryptoReturn, AtaEraseFails, CryptoTypeOK, CryptoIdle, CallShape, crypto_device
    <3>2. CallShape'
      BY <1>11, Zenon DEF CryptoReturn, AtaEraseFails, CryptoIdle, CallShape, CryptoTypeOK, crypto_device
    <3> QED
      BY <3>1, <3>2, Zenon
  <2>2. PasswordInv'
    BY <1>11, ZenonT(60) DEF CryptoReturn, AtaEraseFails, PasswordInv, CryptoTypeOK, CryptoIdle, crypto_device,
       CallShape
  <2>3. DetectedInv'
    BY <1>11, Zenon DEF AtaEraseFails, DetectedInv
  <2> QED
    BY <2>1, <2>2, <2>3, Zenon
<1>12. CASE CryptoInterrupt
  <2>1. CryptoTypeOK' /\ CallShape'
    BY <1>12, Zenon DEF CryptoReturn, CryptoInterrupt, CryptoTypeOK, CryptoIdle, Unset, NoMethod, CallShape,
       crypto_device
  <2>2. PasswordInv'
    BY <1>12, Zenon DEF CryptoReturn, CryptoInterrupt, PasswordInv, CryptoIdle, crypto_device, CallShape,
       CryptoTypeOK
  <2>3. DetectedInv'
    BY <1>12, Zenon DEF CryptoInterrupt, DetectedInv, NoMethod
  <2> QED
    BY <2>1, <2>2, <2>3, Zenon
<1> QED
  BY <1>1, <1>2, <1>3, <1>4, <1>5, <1>6, <1>7, <1>8, <1>9, <1>10, <1>11, <1>12, Zenon DEF CryptoNext

\* CryptoIInv holds throughout: what the erase of drive after drive relies on.
THEOREM CryptoInvariance == CryptoSpec => []CryptoIInv
  BY CryptoInitIInv, CryptoStepIInv, PTL DEF CryptoSpec

\* Steps, exported globals and drives keep to their types (crypto-erase.sh,
\* wipe-engine.sh), and determine_wipe_method never gets to its hybrid method.
THEOREM CryptoTypeCorrect == CryptoSpec => []CryptoTypeOK
  BY CryptoInvariance, PTL DEF CryptoIInv

\* A step that takes the owner's password off a drive has erased it.
LEMMA OwnersPasswords ==
    CryptoIInv /\ [CryptoNext]_crypto_vars =>
        \A d \in CryptoDevices : security[d] = "owner" /\ security'[d] # "owner" => d \in erased'
<1> SUFFICES ASSUME CryptoIInv, [CryptoNext]_crypto_vars, NEW d \in CryptoDevices, security[d] = "owner", security'[d] # "owner"
             PROVE  d \in erased'
  OBVIOUS
<1>1. CASE AtaSetPassword
  BY <1>1, Zenon DEF AtaSetPassword, CryptoIInv, CryptoTypeOK, crypto_device
<1>2. CASE AtaErase
  BY <1>2, Zenon DEF AtaErase, CryptoIInv, CryptoTypeOK, crypto_device
<1>3. CASE AtaEraseFails
  BY <1>3, Zenon DEF AtaEraseFails, CryptoIInv, CryptoTypeOK, PasswordInv, crypto_device
<1> QED
  BY <1>1, <1>2, <1>3, Zenon DEF CryptoNext, crypto_vars, CryptoCall, CryptoPlan, Choose, Cancel,
     CryptoInterrupt,
     NvmeInfo, NvmeFormat, AtaInfo

\* PasswordsHandled, for any drives: the temporary password of
\* execute_ata_secure_erase (crypto-erase.sh:203) stays on no drive but one the
\* script was stopped on or whose --security-disable failed, and no owner's
\* password goes without an erase.
THEOREM PasswordsAreHandled == CryptoSpec => PasswordsHandled
<1>1. CryptoIInv => \A d \in CryptoDevices : security[d] = "temporary" => d = crypto_device \/ d \in stuck
  BY Zenon DEF CryptoIInv, PasswordInv
<1> QED
  BY <1>1, OwnersPasswords, CryptoInvariance, PTL DEF CryptoSpec, PasswordsHandled

-----------------------------------------------------------------------------
\* The verdicts of a state, as the contract sees them
LEMMA MappedVerdict ==
    ASSUME CryptoTypeOK, NEW d \in CryptoDevices, NEW how \in {"success", "failed", "not an SSD"},
           crypto_result' = [crypto_result EXCEPT ![d] = how]
    PROVE  [x \in CryptoDevices |-> IF crypto_result'[x] = "not an SSD" THEN "failed" ELSE crypto_result'[x]] =
           [[x \in CryptoDevices |-> IF crypto_result[x] = "not an SSD" THEN "failed" ELSE crypto_result[x]]
              EXCEPT ![d] = IF how = "success" THEN "success" ELSE "failed"]
  BY Zenon DEF CryptoTypeOK

\* A call that ends is a step of the contract, ...
LEMMA CryptoReturnImplements ==
    ASSUME CryptoIInv, crypto_call.pc # "idle", NEW how \in {"success", "failed", "not an SSD"},
    CryptoReturn(how),
           erased' \in {erased, erased \cup {crypto_device}}, how = "success" => crypto_device \in erased'
    PROVE  CryptoEngine!CNext
<1>1. crypto_device \in CryptoDevices /\ crypto_result' = [crypto_result EXCEPT ![crypto_device] = how]
  BY Zenon DEF CryptoIInv, CallShape, CryptoReturn, crypto_device
<1>2. CryptoEngine!Step(crypto_device)
  BY <1>1, MappedVerdict, Zenon DEF CryptoIInv, CryptoEngine!Step
<1> QED
  BY <1>1, <1>2, Zenon DEF CryptoEngine!CNext, CryptoEngine!Step

\* ... and every other step is none.
LEMMA CryptoStepImplements == CryptoIInv /\ [CryptoNext]_crypto_vars => [CryptoEngine!CNext]_CryptoEngine!cvars
<1> SUFFICES ASSUME CryptoIInv, [CryptoNext]_crypto_vars PROVE [CryptoEngine!CNext]_CryptoEngine!cvars
  OBVIOUS
<1>1. CASE UNCHANGED <<crypto_result, erased>>
  BY <1>1, Zenon DEF CryptoEngine!cvars
<1>2. CASE Choose
  BY <1>1, <1>2, CryptoReturnImplements, Zenon DEF Choose
<1>3. CASE NvmeInfo
  BY <1>1, <1>3, CryptoReturnImplements, Zenon DEF NvmeInfo
<1>4. CASE Cancel
  BY <1>4, CryptoReturnImplements, Zenon DEF Cancel
<1>5. CASE NvmeFormat
  BY <1>5, CryptoReturnImplements, Zenon DEF NvmeFormat
<1>6. CASE AtaInfo
  BY <1>1, <1>6, CryptoReturnImplements, Zenon DEF AtaInfo
<1>7. CASE AtaSetPassword
  BY <1>1, <1>7, CryptoReturnImplements, Zenon DEF AtaSetPassword
<1>8. CASE AtaErase
  BY <1>8, CryptoReturnImplements, Zenon DEF AtaErase
<1>9. CASE AtaEraseFails
  BY <1>9, CryptoReturnImplements, Zenon DEF AtaEraseFails
<1>10. CASE CryptoInterrupt
  BY <1>10, CryptoReturnImplements, Zenon DEF CryptoInterrupt
<1> QED
  BY <1>1, <1>2, <1>3, <1>4, <1>5, <1>6, <1>7, <1>8, <1>9, <1>10, Zenon DEF CryptoNext, crypto_vars, CryptoCall,
     CryptoPlan

\* A planned device is refused only if it is none that can be erased this way,
\* or was taken for a rotating disk.
LEMMA RefusalIsFounded ==
    CryptoIInv /\ [CryptoNext]_crypto_vars =>
        (/\ crypto_call.pc = "choose" /\ method.planned = crypto_device
         /\ crypto_call' = CryptoIdle /\ crypto_result'[crypto_device] = "not an SSD"
         => CryptoKind[crypto_device] \notin {"nvme", "ssd"} \/ detected.TYPE = "hdd")
<1> SUFFICES ASSUME CryptoIInv, [CryptoNext]_crypto_vars, crypto_call.pc = "choose", method.planned = crypto_device, crypto_call' = CryptoIdle,
                    crypto_result'[crypto_device] = "not an SSD", CryptoKind[crypto_device] \in {"nvme", "ssd"}
             PROVE  detected.TYPE = "hdd"
  OBVIOUS
<1>1. crypto_device \in CryptoDevices /\ crypto_device # "none"
  BY CryptoNoneAssumption, Zenon DEF CryptoIInv, CallShape, crypto_device
<1>2. /\ detected.TYPE \in TypesFound(crypto_device)
      /\ detected.IS_NVME = IF detected.TYPE = "nvme" THEN "true" ELSE "false"
  BY <1>1, Zenon DEF CryptoIInv, DetectedInv
<1>3. ~ CryptoInterrupt
  BY <1>1, Zenon DEF CryptoInterrupt, CryptoReturn, CryptoIInv, CryptoTypeOK
<1>4. Choose
  <2>1. crypto_call' # crypto_call
    <3>1. CryptoIdle.pc # crypto_call.pc
      BY Zenon DEF CryptoIdle
    <3> QED
      BY <3>1, Zenon
  <2>2. ASSUME NEW d \in CryptoDevices PROVE ~ CryptoCall(d)
    BY Zenon DEF CryptoCall
  <2>3. ASSUME NEW d \in CryptoDevices, NEW confirmed \in BOOLEAN PROVE ~ CryptoPlan(d, confirmed)
    BY Zenon DEF CryptoPlan
  <2>4. ~ (Cancel \/ NvmeInfo \/ NvmeFormat \/ AtaInfo \/ AtaSetPassword \/ AtaErase \/ AtaEraseFails)
    BY Zenon DEF Cancel, NvmeInfo, NvmeFormat, AtaInfo, AtaSetPassword, AtaErase, AtaEraseFails
  <2> QED
    BY <1>3, <2>1, <2>2, <2>3, <2>4, Zenon DEF CryptoNext, crypto_vars
<1>5. detected.IS_NVME # "true" /\ detected.TYPE # "ssd"
  BY <1>4, Zenon DEF Choose, CryptoGoto, CryptoIdle, CryptoIInv, CallShape
<1>6. detected.TYPE \in {"nvme", "ssd", "hdd"}
  BY <1>2, Zenon DEF TypesFound
<1> QED
  BY <1>2, <1>5, <1>6, Zenon

\* VerdictIsTrue, for any devices and faults: crypto-erase.sh implements the
\* contract of an erase engine, and "not an SSD" (line 308) is said of no planned
\* SSD but one that lsblk took for a rotating disk.
THEOREM VerdictsAreTrue == CryptoSpec => VerdictIsTrue
<1>1. CryptoInit => CryptoEngine!CInit
  BY Zenon DEF CryptoInit, CryptoEngine!CInit
<1> QED
  BY <1>1, CryptoStepImplements, RefusalIsFounded, CryptoInvariance, PTL DEF CryptoSpec, VerdictIsTrue,
     CryptoEngine!Contract

-----------------------------------------------------------------------------
(***************************************************************************)
(* external-storage.sh                                                     *)
(***************************************************************************)
ExtSteps == {"idle", "detect", "present", "level", "confirm", "open", "write",
          "verify", "sample", "finish"}
Someone == ExtDevices \cup {"none"}
Clean(d) == \A s \in 0 .. ExtSize[d] - 1 : ext_sectors[d][s] \notin Old

CallType == ext_call \in [pc : ExtSteps, device : Someone, pass : 1 .. 3, fd : Someone, at : Nat,
                      size : Nat, n : 0 .. EXT_SAMPLES, ok : BOOLEAN, disturbed : BOOLEAN]
ExtType == ext \in [TYPE : {"unset", "USB_FLASH", "USB_HDD", "SD_CARD", "OTHER"}, LEVEL : 0 .. 3]
PortType == port \in Someone /\ troubles \in 0 .. TROUBLES
ResultType == ext_result \in [ExtDevices -> [is : {"none", "success", "failed", "aborted"}, disturbed : BOOLEAN]]
MediaType == /\ DOMAIN ext_sectors = ExtDevices
             /\ \A d \in ExtDevices : ext_sectors[d] \in [0 .. ExtSize[d] - 1 -> Kinds]
Types == CallType /\ ExtType /\ PortType /\ ResultType /\ MediaType

\* Where the call stands, whatever happens to the device.
Control ==
    /\ ext_call.pc # "idle" => ext_call.device \in ExtDevices
    /\ ext_call.size \in {0} \cup {ExtSize[d] : d \in ExtDevices}
    /\ ext_call.fd # "none" => ext_call.at <= ExtSize[ext_call.fd]
    /\ ext_call.pc \in {"confirm", "open", "write", "verify", "sample", "finish"} => ext.LEVEL \in 1 .. 3
    /\ ext_call.pc \in {"verify", "sample"} => ext.LEVEL \in 2 .. 3
    /\ ext_call.pc \in {"detect", "present", "level", "confirm"} => ext_call.pass = 1
    /\ ext_call.pass > 1 => ext.LEVEL = 3
    /\ ext_call.pc # "finish" => ext_call.ok
    /\ ext_call.pc \notin {"sample", "finish"} => ext_call.n = 0
    /\ ext_call.pc = "sample" => ext_call.n < EXT_SAMPLES

\* As long as nothing has disturbed the call the port has its device, and the
\* device what was written.
Undisturbed ==
    ext_call.pc # "idle" /\ ~ ext_call.disturbed =>
        /\ port = ext_call.device
        /\ ext_call.pc = "write" =>
              /\ ext_call.fd = ext_call.device
              /\ \A s \in 0 .. ext_call.at - 1 : ext_sectors[ext_device][s] = Passes[ext_call.pass]
        /\ ext_call.pass > 1 \/ ext_call.pc = "finish" => Clean(ext_device)
        /\ ext_call.pc \in {"verify", "sample"} =>
              \A s \in 0 .. ExtSize[ext_device] - 1 : ext_sectors[ext_device][s] = Passes[Len(Passes)]
        /\ ext_call.pc = "sample" => ext_call.size = ExtSize[ext_device]
        /\ ext_call.pc = "finish" /\ ExtSize[ext_device] > 2 * EXT_MARGIN => ext_call.ok

ExtIInv == Types /\ Control /\ Undisturbed

-----------------------------------------------------------------------------
\* Every pass writes something that is no old data, and the last one what the
\* verification of the level looks for.
LEMMA PassesWrite ==
    ASSUME ext.LEVEL \in 1 .. 3
    PROVE  /\ Len(Passes) = IF ext.LEVEL = 3 THEN 3 ELSE 1
           /\ \A i \in 1 .. Len(Passes) : Passes[i] \in Kinds /\ Passes[i] \notin Old
           /\ Passes[Len(Passes)] = IF ext.LEVEL = 3 THEN "p55" ELSE "zero"
           /\ Passes[Len(Passes)] \notin Old
<1>1. CASE ext.LEVEL = 3
  BY <1>1 DEF Passes, Written, Old, Kinds
<1>2. CASE ext.LEVEL # 3
  BY <1>2 DEF Passes, Written, Old, Kinds
<1> QED
  BY <1>1, <1>2, Zenon

\* What the last pass of levels 2 and 3 writes is what grep looks for in a sample.
LEMMA LastPassIsFound ==
    ASSUME ext.LEVEL \in 2 .. 3
    PROVE  SampleGood(Passes[Len(Passes)])
<1>1. CASE ext.LEVEL = 2
  <2>1. Hexdump("zero") = <<"00", "*", "offset">>
    BY Zenon DEF Hexdump
  <2> QED
    BY <1>1, <2>1, PassesWrite DEF SampleGood, Grep
<1>2. CASE ext.LEVEL = 3
  <2>1. Hexdump("p55") = <<"55", "*", "offset">>
    BY Zenon DEF Hexdump
  <2> DEFINE line == HeadLines(1, Hexdump("p55"))
  <2>2. line = SubSeq(<<"55", "*", "offset">>, 1, 1)
    <3>1. Min2(1, Len(Hexdump("p55"))) = 1
      BY <2>1 DEF Min2
    <3> QED
      BY <2>1, <3>1, Zenon DEF HeadLines
  <2>3. Len(line) = 1 /\ line[1] = "55" /\ 1 \in DOMAIN line
    BY <2>2
  <2> HIDE DEF line
  <2>4. Echo(line) = line
    <3>1. line # << >>
      BY <2>3
    <3> QED
      BY <3>1, Zenon DEF Echo
  <2>5. Grep("55", Echo(line))
    BY <2>3, <2>4, Zenon DEF Grep
  <2> QED
    BY <1>2, <2>5, PassesWrite DEF SampleGood, line
<1> QED
  BY <1>1, <1>2

\* $((RANDOM % (size - 100) + 50)) is a sector of the device.
LEMMA SampleIsInside ==
    ASSUME NEW random \in Nat, NEW size \in Nat, size > 2 * EXT_MARGIN
    PROVE  RandomSector(random, size, EXT_MARGIN) \in 0 .. size - 1
  BY ExtVerifyAssumption DEF RandomSector, Rem

\* Before the first call
LEMMA ExtInitIInv == ExtInit => ExtIInv
<1> SUFFICES ASSUME ExtInit PROVE ExtIInv
  OBVIOUS
<1> USE DEF ExtInit
<1>1. CallType /\ ExtType
  BY ExtVerifyAssumption, SMTT(30) DEF CallType, ExtType, ExtIdle, ExtSteps, Someone
<1>2. PortType /\ ResultType /\ MediaType
  BY ContentAssumption, ExtSizeAssumption, TroublesAssumption
     DEF PortType, ResultType, MediaType, Someone, Kinds, Old
<1>3. Control /\ Undisturbed
  BY SMTT(30) DEF Control, Undisturbed, ExtIdle
<1> QED
  BY <1>1, <1>2, <1>3, Zenon DEF ExtIInv, Types

\* A call that ends
LEMMA ExtReturnKeepsIInv ==
    ASSUME ExtIInv, ext_call.pc # "idle", NEW how \in {"success", "failed", "aborted"}, ExtReturn(how),
           UNCHANGED <<port, ext, ext_sectors, troubles>>
    PROVE  ExtIInv'
<1> USE DEF ExtIInv, Types, ExtReturn
<1>1. CallType'
  BY ExtVerifyAssumption DEF CallType, ExtIdle, ExtSteps, Someone
<1>2. ResultType'
  BY Zenon DEF ResultType, CallType, Control, ext_device
<1>3. /\ ext_call'.pc = "idle" /\ ext_call'.size = 0 /\ ext_call'.fd = "none"
      /\ ext_call'.pass = 1 /\ ext_call'.ok /\ ext_call'.n = 0
  BY Zenon DEF ExtIdle
<1>4. Control'
  BY <1>3 DEF Control
<1>5. Undisturbed'
  BY <1>3, Zenon DEF Undisturbed
<1> QED
  BY <1>1, <1>2, <1>4, <1>5, Zenon DEF ExtType, PortType, MediaType

\* Every step keeps ExtIInv.
LEMMA ExtStepIInv == ExtIInv /\ [ExtNext]_ext_vars => ExtIInv'
<1> SUFFICES ASSUME ExtIInv, [ExtNext]_ext_vars PROVE ExtIInv'
  OBVIOUS
<1> USE ExtSizeAssumption, ExtNoneAssumption DEF ExtIInv, Types, ext_device
<1>1. ASSUME NEW d \in ExtDevices, Plug(d) PROVE ExtIInv'
  <2>1. PortType' /\ Control'
    BY <1>1, Zenon DEF Plug, PortType, Control, Someone
  <2>2. Undisturbed'
    BY <1>1, Zenon DEF Plug, Control, Undisturbed, Passes, Clean
  <2> QED
    BY <1>1, <2>1, <2>2, Zenon DEF Plug, CallType, ExtType, ResultType, MediaType
<1>2. CASE ExtUnplug
  <2>1. PortType'
    BY <1>2, TroublesAssumption DEF ExtUnplug, PortType, Someone
  <2>2. CallType'
    <3>1. ext_call' = ext_call \/ ext_call' = [ext_call EXCEPT !.fd = "none", !.disturbed = TRUE]
      BY <1>2, Zenon DEF ExtUnplug
    <3> QED
      BY <3>1, Zenon DEF CallType, Someone
  <2>3. Control'
    BY <1>2, Zenon DEF ExtUnplug, CallType, Control
  <2>4. Undisturbed'
    BY <1>2, Zenon DEF ExtUnplug, CallType, Undisturbed
  <2> QED
    BY <1>2, <2>1, <2>2, <2>3, <2>4, Zenon DEF ExtUnplug, ExtType, ResultType, MediaType
<1>3. CASE ExtCall
  <2>1. CallType'
    <3>1. ext_call' = [pc |-> "detect", device |-> port, pass |-> 1, fd |-> "none", at |-> 0,
                   size |-> 0, n |-> 0, ok |-> TRUE, disturbed |-> FALSE]
      BY <1>3, Zenon DEF ExtCall, ExtIdle
    <3>2. port \in Someone /\ "none" \in Someone /\ 0 \in 0 .. EXT_SAMPLES
      BY ExtVerifyAssumption DEF PortType, Someone
    <3> QED
      BY <3>1, <3>2 DEF CallType, ExtSteps
  <2>2. Control'
    BY <1>3, ExtVerifyAssumption DEF ExtCall, PortType, Control, Someone, ExtIdle
  <2>3. Undisturbed'
    BY <1>3 DEF ExtCall, Undisturbed, ExtIdle
  <2> QED
    BY <1>3, <2>1, <2>2, <2>3, Zenon DEF ExtCall, ExtType, PortType, ResultType, MediaType
<1>4. CASE detect_external_device_type
  <2> USE <1>4 DEF detect_external_device_type, ExtGoto
  <2>1. CallType'
    BY Zenon DEF CallType, ExtSteps
  <2>2. ExtType' /\ ext'.LEVEL = ext.LEVEL
    BY ExtKindAssumption, Zenon DEF ExtType, PortType, Someone
  <2>3. Control'
    BY <2>2, Zenon DEF CallType, Control
  <2>4. Undisturbed'
    BY DEF CallType, Control, Undisturbed
  <2> QED
    BY <2>1, <2>2, <2>3, <2>4, Zenon DEF PortType, ResultType, MediaType
<1>5. CASE check_device_presence
  <2>1. CASE port = "none"
    BY <1>5, <2>1, ExtReturnKeepsIInv, Zenon DEF check_device_presence
  <2>2. CASE port # "none"
    <3> USE <1>5, <2>2 DEF check_device_presence, ExtGoto
    <3>1. CallType'
      BY DEF CallType, ExtSteps
    <3>2. Control'
      BY Zenon DEF CallType, Control
    <3>3. Undisturbed'
      BY DEF CallType, Control, Undisturbed
    <3> QED
      BY <3>1, <3>2, <3>3, Zenon DEF ExtType, PortType, ResultType, MediaType
  <2> QED
    BY <2>1, <2>2, Zenon
<1>6. ASSUME NEW c \in 0 .. 3, determine_external_security_level(c) PROVE ExtIInv'
  <2> USE <1>6 DEF determine_external_security_level, ExtGoto
  <2>1. CallType'
    BY Zenon DEF CallType, ExtSteps
  <2>2. ExtType' /\ ext'.LEVEL \in 1 .. 3
    BY DEF ExtType, Recommended
  <2>3. Control'
    BY <2>2 DEF CallType, Control
  <2>4. Undisturbed'
    BY DEF CallType, Control, Undisturbed
  <2> QED
    BY <2>1, <2>2, <2>3, <2>4, Zenon DEF PortType, ResultType, MediaType
<1>7. CASE ExtConfirm
  <2> USE <1>7 DEF ExtConfirm, ExtGoto
  <2>1. CallType'
    BY Zenon DEF CallType, ExtSteps
  <2>2. Control'
    BY Zenon DEF CallType, Control
  <2>3. Undisturbed'
    BY DEF CallType, Control, Undisturbed
  <2> QED
    BY <2>1, <2>2, <2>3, Zenon DEF ExtType, PortType, ResultType, MediaType
<1>8. CASE ExtDecline
  BY <1>8, ExtReturnKeepsIInv, Zenon DEF ExtDecline
<1>9. CASE OpenDevice
  <2> USE <1>9 DEF OpenDevice
  <2>1. CallType'
    BY Zenon DEF CallType, PortType, ExtSteps
  <2>2. Control'
    BY DEF CallType, PortType, Control, Someone
  <2>3. Undisturbed'
    BY DEF CallType, Control, Undisturbed, Clean
  <2> QED
    BY <2>1, <2>2, <2>3, Zenon DEF ExtType, PortType, ResultType, MediaType
<1>10. CASE WriteSector
  <2>1. ext_call.fd \in ExtDevices /\ ext_call.at \in 0 .. ExtSize[ext_call.fd] - 1
    BY <1>10 DEF WriteSector, SizeOf, CallType, Someone
  <2>2. Passes[ext_call.pass] \in Kinds /\ Passes[ext_call.pass] \notin Old
    <3>1. ext.LEVEL \in 1 .. 3 /\ (ext_call.pass > 1 => ext.LEVEL = 3) /\ ext_call.pass \in 1 .. 3
      BY <1>10, Zenon DEF WriteSector, Control, CallType
    <3>2. ext_call.pass \in 1 .. Len(Passes)
      <4>1. Len(Passes) = IF ext.LEVEL = 3 THEN 3 ELSE 1
        BY <3>1, PassesWrite, Zenon
      <4> QED
        BY <3>1, <4>1
    <3> QED
      BY <3>1, <3>2, PassesWrite, Zenon
  <2>3. CallType'
    BY <1>10 DEF WriteSector, CallType
  <2>4. MediaType'
    BY <1>10, <2>1, <2>2, Zenon DEF WriteSector, MediaType
  <2>5. Control'
    BY <1>10, <2>1 DEF WriteSector, CallType, Control
  <2>6. Undisturbed'
    <3> SUFFICES ASSUME ~ ext_call.disturbed PROVE Undisturbed'
      BY <1>10, Zenon DEF WriteSector, CallType, Undisturbed
    <3>1. /\ ext_call' = [ext_call EXCEPT !.at = @ + 1] /\ Passes' = Passes
          /\ ext_sectors' = [ext_sectors EXCEPT ![ext_call.fd][ext_call.at] = Passes[ext_call.pass]]
      BY <1>10, Zenon DEF WriteSector, Passes
    <3>2. /\ ext_call'.pc = "write" /\ ext_call'.device = ext_call.device /\ ext_call'.fd = ext_call.fd
          /\ ext_call'.pass = ext_call.pass /\ ext_call'.at = ext_call.at + 1
      BY <1>10, <3>1, Zenon DEF WriteSector, CallType
    <3>3. ext_call.fd = ext_call.device /\ port' = ext_call.device
      BY <1>10, Zenon DEF WriteSector, Undisturbed
    <3>4. /\ ext_sectors'[ext_call.device][ext_call.at] = Passes[ext_call.pass]
          /\ \A s \in 0 .. ExtSize[ext_call.device] - 1 :
                s # ext_call.at => ext_sectors'[ext_call.device][s] = ext_sectors[ext_call.device][s]
      BY <2>1, <3>1, <3>3, Zenon DEF MediaType
    <3>5. \A s \in 0 .. ext_call.at : ext_sectors'[ext_call.device][s] = Passes[ext_call.pass]
      BY <1>10, <2>1, <3>3, <3>4 DEF WriteSector, Undisturbed
    <3>6. ext_call.pass > 1 => \A s \in 0 .. ExtSize[ext_call.device] - 1 : ext_sectors'[ext_call.device][s] \notin Old
      BY <1>10, <2>2, <3>4, Zenon DEF WriteSector, Undisturbed, Clean
    <3> QED
      BY <2>1, <3>1, <3>2, <3>3, <3>5, <3>6 DEF Undisturbed, Clean
  <2> QED
    BY <1>10, <2>3, <2>4, <2>5, <2>6, Zenon DEF WriteSector, ExtType, PortType, ResultType
<1>11. CASE PassEnds
  <2>1. /\ ext.LEVEL \in 1 .. 3 /\ (ext_call.pass > 1 => ext.LEVEL = 3) /\ ext_call.pass \in 1 .. 3
        /\ Passes' = Passes /\ ext_call.ok
    BY <1>11, Zenon DEF PassEnds, Control, CallType, Passes
  <2>2. /\ Len(Passes) = (IF ext.LEVEL = 3 THEN 3 ELSE 1) /\ ext_call.pass \in 1 .. Len(Passes)
        /\ \A i \in 1 .. Len(Passes) : Passes[i] \notin Old
    <3>1. /\ Len(Passes) = IF ext.LEVEL = 3 THEN 3 ELSE 1
          /\ \A i \in 1 .. Len(Passes) : Passes[i] \notin Old
      BY <2>1, PassesWrite, Zenon
    <3> QED
      BY <2>1, <3>1
  <2> DEFINE next(cut) == [ext_call EXCEPT !.pc = IF ext_call.pass < Len(Passes) THEN "open"
                                                  ELSE IF ext.LEVEL = 1 THEN "finish" ELSE "verify",
                                           !.pass = IF @ < Len(Passes) THEN @ + 1 ELSE @,
                                           !.fd = "none", !.disturbed = cut]
             failed == [ext_call EXCEPT !.pc = "finish", !.ok = FALSE, !.fd = "none", !.disturbed = TRUE]
  <2>3. PICK cut \in BOOLEAN :
          /\ ~ cut => ~ ext_call.disturbed /\ ext_call.at >= SizeOf(ext_call.fd)
          /\ ext_call' = next(cut) \/ ext_call' = failed
    <3>1. (ext_call.disturbed \/ troubles' # troubles) \in BOOLEAN
      OBVIOUS
    <3>2. ext_call' = next(ext_call.disturbed \/ troubles' # troubles) \/ ext_call' = failed
      BY <1>11, Zenon DEF PassEnds
    <3>3. ~ (ext_call.disturbed \/ troubles' # troubles) => ext_call.at >= SizeOf(ext_call.fd)
      BY <1>11 DEF PassEnds, PortType
    <3> QED
      BY <3>1, <3>2, <3>3, Zenon
  <2>4. troubles' \in 0 .. TROUBLES /\ UNCHANGED <<port, ext, ext_result, ext_sectors>>
    BY <1>11, TroublesAssumption DEF PassEnds, PortType
  <2>5. CASE ext_call' = failed
    <3>1. CallType'
      BY <2>5, Zenon DEF CallType, ExtSteps, Someone
    <3>2. Control'
      BY <1>11, <2>4, <2>5, Zenon DEF PassEnds, CallType, Control
    <3>3. Undisturbed'
      BY <2>5, Zenon DEF CallType, Undisturbed
    <3> QED
      BY <2>4, <3>1, <3>2, <3>3, Zenon DEF ExtType, PortType, ResultType, MediaType
  <2>6. CASE ext_call' = next(cut)
    <3>1. /\ ext_call'.device = ext_call.device /\ ext_call'.fd = "none" /\ ext_call'.ok = ext_call.ok
          /\ ext_call'.n = ext_call.n
          /\ ext_call'.size = ext_call.size /\ ext_call'.disturbed = cut
      BY <2>6, Zenon DEF CallType
    <3>2. ext_call'.pc = IF ext_call.pass < Len(Passes) THEN "open" ELSE IF ext.LEVEL = 1 THEN "finish" ELSE "verify"
      BY <2>6, Zenon DEF CallType
    <3>3. ext_call'.pass = IF ext_call.pass < Len(Passes) THEN ext_call.pass + 1 ELSE ext_call.pass
      BY <2>6, Zenon DEF CallType
    <3>4. CallType'
      <4>1. PICK p \in ExtSteps, q \in 1 .. 3 :
              ext_call' = [ext_call EXCEPT !.pc = p, !.pass = q, !.fd = "none", !.disturbed = cut]
        <5>1. (IF ext_call.pass < Len(Passes) THEN "open"
               ELSE IF ext.LEVEL = 1 THEN "finish" ELSE "verify") \in ExtSteps
          BY Zenon DEF ExtSteps
        <5>2. (IF ext_call.pass < Len(Passes) THEN ext_call.pass + 1 ELSE ext_call.pass) \in 1 .. 3
          BY <2>1, <2>2
        <5> QED
          BY <2>6, <5>1, <5>2, Zenon
      <4> QED
        BY <4>1, Zenon DEF CallType, Someone
    <3>5. Control'
      BY <1>11, <2>1, <2>2, <2>4, <3>1, <3>2, <3>3 DEF PassEnds, Control
    <3>6. Undisturbed'
      <4> SUFFICES ASSUME ~ cut PROVE Undisturbed'
        BY <3>1, Zenon DEF Undisturbed
      <4>1. ext_call.fd = ext_call.device /\ port = ext_call.device /\ ext_call.device \in ExtDevices
        BY <1>11, <2>3, Zenon DEF PassEnds, Undisturbed, Control
      <4>2. \A s \in 0 .. ExtSize[ext_call.device] - 1 : ext_sectors[ext_call.device][s] = Passes[ext_call.pass]
        BY <1>11, <2>3, <4>1 DEF PassEnds, Undisturbed, SizeOf, CallType
      <4>3. \A s \in 0 .. ExtSize[ext_call.device] - 1 : ext_sectors[ext_call.device][s] \notin Old
        BY <2>1, <2>2, <4>2, PassesWrite, Zenon
      <4>4. ext_call'.pc \in {"verify", "finish"} => ext_call.pass = Len(Passes)
        BY <2>2, <3>2
      <4> QED
        BY <2>1, <2>4, <3>1, <3>2, <4>1, <4>2, <4>3, <4>4, Zenon DEF Undisturbed, Clean
    <3> QED
      BY <2>4, <3>4, <3>5, <3>6, Zenon DEF ExtType, PortType, ResultType, MediaType
  <2> QED
    BY <2>3, <2>5, <2>6, Zenon
<1>12. CASE GetSize
  <2>1. PICK size \in {SizeOf(port), 0} :
          ext_call' = [ext_call EXCEPT !.size = size, !.pc = IF size = 0 THEN "finish" ELSE "sample"]
    BY <1>12, Zenon DEF GetSize
  <2>2. size \in Nat /\ size \in {0} \cup {ExtSize[d] : d \in ExtDevices}
    BY DEF SizeOf, PortType, Someone
  <2>3. CallType'
    BY <2>1, <2>2, Zenon DEF CallType, ExtSteps
  <2>4. Control'
    <3>1. /\ ext_call'.device = ext_call.device /\ ext_call'.pass = ext_call.pass /\ ext_call'.size = size
          /\ ext_call'.fd = ext_call.fd /\ ext_call'.at = ext_call.at /\ ext_call'.ok = ext_call.ok
          /\ ext_call'.n = ext_call.n
          /\ ext_call'.pc \in {"finish", "sample"}
      BY <2>1, Zenon DEF CallType
    <3>2. ext' = ext /\ ext_call.pc = "verify" /\ 0 < EXT_SAMPLES
      BY <1>12, ExtVerifyAssumption DEF GetSize
    <3> QED
      BY <2>2, <3>1, <3>2, Zenon DEF Control
  <2>5. Undisturbed'
    <3> SUFFICES ASSUME ~ ext_call.disturbed PROVE Undisturbed'
      BY <2>1, Zenon DEF CallType, Undisturbed
    <3>1. /\ ext_call'.device = ext_call.device /\ ext_call'.pass = ext_call.pass /\ ext_call'.size = size
          /\ ext_call'.pc = IF size = 0 THEN "finish" ELSE "sample"
          /\ ext_call'.ok /\ Passes' = Passes /\ UNCHANGED <<port, ext_sectors>>
      BY <1>12, <2>1, Zenon DEF GetSize, CallType, Control, Passes
    <3>2. port = ext_call.device /\ ext_call.device \in ExtDevices /\ ext.LEVEL \in 1 .. 3
      BY <1>12, Zenon DEF GetSize, Undisturbed, Control
    <3>3. \A s \in 0 .. ExtSize[ext_call.device] - 1 : ext_sectors[ext_call.device][s] = Passes[Len(Passes)]
      BY <1>12, Zenon DEF GetSize, Undisturbed
    <3>4. Passes[Len(Passes)] \notin Old
      BY <3>2, PassesWrite, Zenon
    <3> QED
      BY <2>2, <3>1, <3>2, <3>3, <3>4, Zenon DEF Undisturbed, Clean, SizeOf
  <2> QED
    BY <1>12, <2>3, <2>4, <2>5, Zenon DEF GetSize, ExtType, PortType, ResultType, MediaType
<1>13. ASSUME NEW r \in 0 .. RANDOM_MAX, VerifySample(r) PROVE ExtIInv'
  <2> DEFINE kind == ReadSector(ext_sectors[port], SizeOf(port), RandomSector(r, ext_call.size, EXT_MARGIN))
             good == SampleGood(kind)
  <2>1. /\ ext_call' = [ext_call EXCEPT !.n = @ + 1, !.ok = good,
                      !.pc = IF ~ good \/ ext_call.n + 1 = EXT_SAMPLES THEN "finish" ELSE @]
        /\ ext_call.pc = "sample" /\ UNCHANGED <<port, ext, ext_result, ext_sectors, troubles>>
    BY <1>13, Zenon DEF VerifySample
  <2>2. good \in BOOLEAN
    BY Zenon DEF SampleGood, Grep
  <2>3. /\ ext.LEVEL \in 2 .. 3 /\ ext_call.device \in ExtDevices /\ ext_call.n < EXT_SAMPLES
        /\ Passes' = Passes
        /\ EXT_SAMPLES \in Nat
    BY <2>1, ExtVerifyAssumption, Zenon DEF Control, Passes
  <2>4. Passes[Len(Passes)] \notin Old
    <3>1. ext.LEVEL \in 1 .. 3
      BY <2>3
    <3> QED
      BY <3>1, PassesWrite, Zenon
  <2> HIDE DEF good
  <2>5. /\ ext_call'.device = ext_call.device /\ ext_call'.pass = ext_call.pass
        /\ ext_call'.size = ext_call.size
        /\ ext_call'.fd = ext_call.fd /\ ext_call'.at = ext_call.at /\ ext_call'.disturbed = ext_call.disturbed
        /\ ext_call'.n = ext_call.n + 1 /\ ext_call'.ok = good
        /\ ext_call'.pc = IF ~ good \/ ext_call.n + 1 = EXT_SAMPLES THEN "finish" ELSE "sample"
    BY <2>1, Zenon DEF CallType
  <2>6. CallType'
    <3>1. PICK p \in ExtSteps, m \in 0 .. EXT_SAMPLES : ext_call' = [ext_call EXCEPT !.n = m, !.ok = good, !.pc = p]
      <4>1. (IF ~ good \/ ext_call.n + 1 = EXT_SAMPLES THEN "finish" ELSE ext_call.pc) \in ExtSteps
        BY <2>1, Zenon DEF ExtSteps
      <4>2. ext_call.n + 1 \in 0 .. EXT_SAMPLES
        BY <2>3 DEF CallType
      <4> QED
        BY <2>1, <4>1, <4>2, Zenon
    <3> QED
      BY <2>2, <3>1, Zenon DEF CallType
  <2>7. Control'
    BY <2>1, <2>2, <2>3, <2>5 DEF CallType, Control
  <2>8. Undisturbed'
    <3> SUFFICES ASSUME ~ ext_call.disturbed PROVE Undisturbed'
      BY <2>5, Zenon DEF Undisturbed
    <3>1. /\ port = ext_call.device /\ ext_call.size = ExtSize[ext_call.device]
          /\ \A s \in 0 .. ExtSize[ext_call.device] - 1 : ext_sectors[ext_call.device][s] = Passes[Len(Passes)]
      BY <2>1, Zenon DEF Undisturbed
    <3>2. ExtSize[ext_call.device] > 2 * EXT_MARGIN => good
      <4> SUFFICES ASSUME ExtSize[ext_call.device] > 2 * EXT_MARGIN PROVE good
        OBVIOUS
      <4>1. RandomSector(r, ext_call.size, EXT_MARGIN) \in 0 .. ExtSize[ext_call.device] - 1
        <5>1. r \in Nat /\ ext_call.size \in Nat /\ ext_call.size > 2 * EXT_MARGIN
          BY <3>1, ExtVerifyAssumption DEF CallType
        <5> QED
          BY <3>1, <5>1, SampleIsInside, Zenon
      <4>2. kind = Passes[Len(Passes)]
        BY <2>3, <3>1, <4>1, SMTT(30) DEF ReadSector, SizeOf
      <4> QED
        BY <2>3, <4>2, LastPassIsFound, Zenon DEF good
    <3> QED
      BY <2>1, <2>3, <2>4, <2>5, <3>1, <3>2 DEF Undisturbed, Clean
  <2> QED
    BY <2>1, <2>6, <2>7, <2>8, Zenon DEF ExtType, PortType, ResultType, MediaType
<1>14. CASE ExtVerifyAborts
  BY <1>14, ExtReturnKeepsIInv, Zenon DEF ExtVerifyAborts
<1>15. CASE ExtFinish
  BY <1>15, ExtReturnKeepsIInv, Zenon DEF ExtFinish
<1>16. CASE UNCHANGED ext_vars
  BY <1>16, SMTT(30) DEF ext_vars, CallType, ExtType, PortType, ResultType, MediaType, Control, Undisturbed,
     Passes, Clean
<1> QED
  BY <1>1, <1>2, <1>3, <1>4, <1>5, <1>6, <1>7, <1>8, <1>9, <1>10, <1>11, <1>12, <1>13, <1>14, Zenon,
     <1>15, <1>16 DEF ExtNext, Wipe

\* ExtIInv holds throughout, whatever is pulled, exchanged or fails.
THEOREM ExtInvariance == ExtSpec => []ExtIInv
  BY ExtInitIInv, ExtStepIInv, PTL DEF ExtSpec

\* Globals and devices keep to their types and dd stays on the device it opened
\* (external-storage.sh:309), whatever stands behind the name by then.
THEOREM ExtTypeCorrect == ExtSpec => []ExtTypeOK
<1>1. ExtIInv => ExtTypeOK
  BY ExtSizeAssumption, ExtNoneAssumption, SMTT(30)
     DEF ExtIInv, Types, CallType, ExtType, PortType, ResultType, MediaType, Control, ExtTypeOK, ext_device,
     Someone, ExtSteps
<1> QED
  BY <1>1, ExtInvariance, PTL

\* GoodWipePasses, for any device of more than 2 * EXT_MARGIN sectors: the
\* verification looks for what the last pass of the level wrote.
THEOREM GoodWipesPass == ExtSpec => []GoodWipePasses
<1>1. ExtIInv => GoodWipePasses
  BY Zenon DEF ExtIInv, Undisturbed, GoodWipePasses, ext_device
<1> QED
  BY <1>1, ExtInvariance, PTL

-----------------------------------------------------------------------------
\* The contract: what it sees of the engine.
Erased == {d \in ExtDevices : \A s \in DOMAIN ext_sectors[d] : ext_sectors[d][s] \notin Old}
Reported(r) == IF r.is = "none" THEN "none"
               ELSE IF r = [is |-> "success", disturbed |-> FALSE] THEN "success" ELSE "failed"
Verdict == [d \in ExtDevices |-> Reported(ext_result[d])]

\* A call that ends is a step of the contract: success without a disturbance
\* comes after the last pass.
LEMMA ExtReturnImplements ==
    ASSUME ExtIInv, ext_call.pc # "idle", NEW how \in {"success", "failed", "aborted"}, ExtReturn(how),
           UNCHANGED ext_sectors, how = "success" => ext_call.pc = "finish"
    PROVE  ExtEngine!CNext
<1> DEFINE r0 == [is |-> how, disturbed |-> ext_call.disturbed]
<1>1. ext_call.device \in ExtDevices /\ ext_result' = [ext_result EXCEPT ![ext_call.device] = r0]
  BY Zenon DEF ExtIInv, Control, ExtReturn, ext_device
<1>2. Verdict' = [Verdict EXCEPT ![ext_call.device] = Reported(r0)]
  BY <1>1, Zenon DEF Verdict, ExtIInv, Types, ResultType
<1>3. Reported(r0) \in {"failed", "success"}
  BY Zenon DEF Reported
<1>4. Reported(r0) = "success" => ext_call.device \in Erased
  <2> SUFFICES ASSUME Reported(r0) = "success" PROVE ext_call.device \in Erased
    OBVIOUS
  <2>1. r0 = [is |-> "success", disturbed |-> FALSE]
    BY Zenon DEF Reported
  <2>2. how = "success" /\ ext_call.disturbed = FALSE
    BY <2>1, Zenon
  <2>3. Clean(ext_call.device)
    BY <2>2, Zenon DEF ExtIInv, Undisturbed, ext_device
  <2> QED
    BY <1>1, <2>3, Zenon DEF Clean, Erased, ExtIInv, Types, MediaType
<1>5. Erased' = Erased
  BY Zenon DEF Erased
<1>6. ExtEngine!Step(ext_call.device)
  BY <1>2, <1>3, <1>4, <1>5, Zenon DEF ExtEngine!Step, Erased, Verdict, Reported
<1> QED
  BY <1>1, <1>6, Zenon DEF ExtEngine!CNext, ExtEngine!Step

\* A sector that is written may be the last with old data, on whatever device
\* dd has open.
LEMMA WriteImplements ==
    ASSUME ExtIInv, WriteSector
    PROVE  ExtEngine!CNext
<1>1. ext_call.fd \in ExtDevices /\ ext_call.at \in 0 .. ExtSize[ext_call.fd] - 1
  BY ExtSizeAssumption, ExtNoneAssumption DEF WriteSector, SizeOf, ExtIInv, Types, CallType, Someone
<1>2. Passes[ext_call.pass] \notin Old
  <2>1. ext.LEVEL \in 1 .. 3 /\ (ext_call.pass > 1 => ext.LEVEL = 3) /\ ext_call.pass \in 1 .. 3
    BY Zenon DEF WriteSector, ExtIInv, Types, Control, CallType
  <2>2. Len(Passes) = IF ext.LEVEL = 3 THEN 3 ELSE 1
    BY <2>1, PassesWrite, Zenon
  <2>3. \A i \in 1 .. Len(Passes) : Passes[i] \notin Old
    BY <2>1, PassesWrite, Zenon
  <2>4. ext_call.pass \in 1 .. Len(Passes)
    <3>1. CASE ext.LEVEL = 3
      BY <2>1, <2>2, <3>1, Zenon
    <3>2. CASE ext.LEVEL # 3
      BY <2>1, <2>2, <3>2
    <3> QED
      BY <3>1, <3>2, Zenon
  <2> QED
    BY <2>3, <2>4, Zenon
<1>3. ext_sectors' = [ext_sectors EXCEPT ![ext_call.fd][ext_call.at] = Passes[ext_call.pass]] /\ ext_result' = ext_result
  BY Zenon DEF WriteSector
<1>4. \A d \in ExtDevices : DOMAIN ext_sectors'[d] = DOMAIN ext_sectors[d]
  BY <1>1, <1>3, Zenon DEF ExtIInv, Types, MediaType
<1>5. \A d \in ExtDevices \ {ext_call.fd} : ext_sectors'[d] = ext_sectors[d]
  BY <1>1, <1>3, Zenon DEF ExtIInv, Types, MediaType
<1>6. \A s \in DOMAIN ext_sectors[ext_call.fd] :
         ext_sectors'[ext_call.fd][s] = IF s = ext_call.at THEN Passes[ext_call.pass] ELSE ext_sectors[ext_call.fd][s]
  BY <1>1, <1>3, Zenon DEF ExtIInv, Types, MediaType
<1>7. Erased' \in {Erased, Erased \cup {ext_call.fd}}
  <2>1. \A d \in ExtDevices \ {ext_call.fd} : d \in Erased' <=> d \in Erased
    BY <1>4, <1>5, Zenon DEF Erased
  <2>2. ext_call.fd \in Erased => ext_call.fd \in Erased'
    BY <1>1, <1>2, <1>4, <1>6, Zenon DEF Erased
  <2>3. Erased \subseteq ExtDevices /\ Erased' \subseteq ExtDevices
    BY Zenon DEF Erased
  <2> QED
    BY <1>1, <2>1, <2>2, <2>3
<1>8. Verdict' = Verdict
  BY <1>3, Zenon DEF Verdict
<1>9. ExtEngine!Step(ext_call.fd)
  BY <1>7, <1>8, Zenon DEF ExtEngine!Step, Erased, Verdict, Reported
<1> QED
  BY <1>1, <1>9, Zenon DEF ExtEngine!CNext, ExtEngine!Step

\* Every other step is none of the contract's.
LEMMA ExtStepImplements == ExtIInv /\ [ExtNext]_ext_vars => [ExtEngine!CNext]_ExtEngine!cvars
<1> SUFFICES ASSUME ExtIInv, [ExtNext]_ext_vars PROVE [ExtEngine!CNext]_ExtEngine!cvars
  OBVIOUS
<1>1. CASE UNCHANGED <<ext_result, ext_sectors>>
  BY <1>1, Zenon DEF ExtEngine!cvars
<1>2. CASE check_device_presence
  BY <1>1, <1>2, ExtReturnImplements, Zenon DEF check_device_presence
<1>3. CASE ExtDecline
  BY <1>3, ExtReturnImplements, Zenon DEF ExtDecline
<1>4. CASE WriteSector
  BY <1>4, WriteImplements, Zenon
<1>5. CASE ExtVerifyAborts
  BY <1>5, ExtReturnImplements, Zenon DEF ExtVerifyAborts
<1>6. CASE ExtFinish
  BY <1>6, ExtReturnImplements, Zenon DEF ExtFinish
<1> QED
  BY <1>1, <1>2, <1>3, <1>4, <1>5, <1>6, Zenon
     DEF ExtNext, Wipe, ext_vars, Plug, ExtUnplug, ExtCall, detect_external_device_type,
         determine_external_security_level, ExtConfirm, OpenDevice, PassEnds, GetSize, VerifySample

\* ReportsOnlyErased, for any devices, sizes and faults: external-storage.sh
\* implements the contract of an erase engine.  Success of a call during which
\* no device was pulled and no write failed means that the device the call was
\* given has no old data left, and written data is never old again.
THEOREM EnginesReportOnlyErased == ExtSpec => ReportsOnlyErased
<1>1. ExtInit => ExtEngine!CInit
  BY DEF ExtInit, ExtEngine!CInit
<1> QED
  BY <1>1, ExtInvariance, ExtStepImplements, PTL DEF ExtSpec, ReportsOnlyErased, ExtEngine!Contract

-----------------------------------------------------------------------------
(***************************************************************************)
(* verification.sh                                                         *)
(***************************************************************************)
VerifySteps == {"idle", "init", "pattern", "entropy", "scan", "results", "returned"}
Calls == [pc : VerifySteps, device : VerifyDevices \cup {"none"}, method : Methods \cup {"none"},
          level : Levels \cup {"other", "none"}, n : Nat, failed : Nat, wrong : Nat, suspicious : Nat, passed : 0 .. 3,
          ok : BOOLEAN, answers : BOOLEAN, result : {"none", "passed", "failed", "aborted"}]
Testing == vf_call.pc \in {"pattern", "entropy", "scan"}

\* The variables are what the actions take them for.
VerifyShape ==
    /\ vf_call \in Calls
    /\ vf_call.pc # "idle" => vf_device \in VerifyDevices
    /\ Testing => vf_call.level \in Levels
    /\ TOTAL \in {0} \cup {VerifySize[d] : d \in VerifyDevices}
    /\ samples \subseteq VerifyDevices \X Kinds /\ leftover \subseteq samples
    /\ \A d \in VerifyDevices : vf_sectors[d] \in [0 .. VerifySize[d] - 1 -> Kinds]

\* The tests that were passed are among those that were made.
Passed ==
    /\ vf_call.pc \in {"init", "pattern"} => vf_call.passed = 0
    /\ vf_call.pc = "entropy" => vf_call.passed <= 1
    /\ vf_call.pc = "scan" => vf_call.passed <= 2

\* Fewer than 2% of the samples refute the wipe.
Few == vf_call.wrong * 100 < 2 * PATTERN_SAMPLES[vf_call.level]

\* A sample that refutes the wipe has failed, and the pattern test is only passed
\* with few of those.  Past its first sample no RANDOM % 0 can follow.
Founded ==
    /\ vf_call.pc = "init" => vf_call.n = 0 /\ vf_call.failed = 0 /\ vf_call.wrong = 0 /\ vf_call.ok
    /\ vf_call.pc = "pattern" =>
          /\ vf_call.ok /\ vf_call.n <= PATTERN_SAMPLES[vf_call.level]
          /\ vf_call.wrong <= vf_call.failed
          /\ vf_call.n > 0 => TOTAL # 2 * VERIFY_MARGIN
    /\ vf_call.pc = "entropy" => TOTAL # 2 * VERIFY_MARGIN
    /\ vf_call.pc \in {"entropy", "scan", "results"} /\ vf_call.level \in Levels /\ vf_call.ok => Few
    /\ VerdictIsFounded

VerifyIInv == VerifyShape /\ Passed /\ Founded /\ SamplesOfThisDevice

\* The step leaves a call where it is.
SameCall ==
    /\ vf_call'.pc = vf_call.pc /\ vf_call'.device = vf_call.device /\ vf_call'.method = vf_call.method
    /\ vf_call'.level = vf_call.level /\ vf_call'.passed = vf_call.passed /\ (vf_call'.ok <=> vf_call.ok)

-----------------------------------------------------------------------------
\* What the greps find in the hexdump of a sector: 55 in one of 0x55 only, 00 in
\* each that has a run of zeros, and digits in the last line of any, so that none
\* passes for zeros; nothing in that of a sector that dd could not read.
LEMMA HexdumpShows ==
    /\ \A kind \in Kinds \cup {"none"} : Grep("55", Echo(Hexdump(kind))) => kind = "p55"
    /\ \A kind \in {"zero", "oldz", "oldfs"} : Grep("00", Echo(Hexdump(kind)))
    /\ \A kind \in Kinds : HexDigitsBesides("00", Echo(Hexdump(kind)))
    /\ ~ Grep("00", Echo(Hexdump("none")))
<1> DEFINE Shown(kind) == Echo(Hexdump(kind))
<1>1. ASSUME NEW k, Hexdump(k) # << >> PROVE Shown(k) = Hexdump(k)
  BY <1>1, Zenon DEF Echo
<1>2. Shown("zero") = <<"00", "*", "offset">>
  <2>1. Hexdump("zero") = <<"00", "*", "offset">>
    BY Zenon DEF Hexdump
  <2>2. <<"00", "*", "offset">> # << >>
    OBVIOUS
  <2> QED
    BY <1>1, <2>1, <2>2, Zenon
<1>3. Shown("p55") = <<"55", "*", "offset">>
  <2>1. Hexdump("p55") = <<"55", "*", "offset">>
    BY Zenon DEF Hexdump
  <2>2. <<"55", "*", "offset">> # << >>
    OBVIOUS
  <2> QED
    BY <1>1, <2>1, <2>2, Zenon
<1>4. Shown("oldz") = <<"mixed", "00", "*", "offset">>
  <2>1. Hexdump("oldz") = <<"mixed", "00", "*", "offset">>
    BY Zenon DEF Hexdump
  <2>2. <<"mixed", "00", "*", "offset">> # << >>
    OBVIOUS
  <2> QED
    BY <1>1, <2>1, <2>2, Zenon
<1>5. Shown("oldfs") = <<"FAT", "00", "offset">>
  <2>1. Hexdump("oldfs") = <<"FAT", "00", "offset">>
    BY Zenon DEF Hexdump
  <2>2. <<"FAT", "00", "offset">> # << >>
    OBVIOUS
  <2> QED
    BY <1>1, <2>1, <2>2, Zenon
<1>6. Shown("rand") = <<"mixed", "offset">>
  <2>1. Hexdump("rand") = <<"mixed", "offset">>
    BY Zenon DEF Hexdump
  <2>2. <<"mixed", "offset">> # << >>
    OBVIOUS
  <2> QED
    BY <1>1, <2>1, <2>2, Zenon
<1>7. Shown("old") = <<"mixed", "offset">>
  <2>1. Hexdump("old") = <<"mixed", "offset">>
    BY Zenon DEF Hexdump
  <2>2. <<"mixed", "offset">> # << >>
    OBVIOUS
  <2> QED
    BY <1>1, <2>1, <2>2, Zenon
<1>8. Shown("none") = <<"">>
  BY Zenon DEF Hexdump, Echo
<1> HIDE DEF Shown
<1>9. ~ Grep("55", Shown("zero"))
  BY <1>2 DEF Grep
<1>10. ~ Grep("55", Shown("oldz"))
  BY <1>4 DEF Grep
<1>11. ~ Grep("55", Shown("oldfs"))
  BY <1>5 DEF Grep
<1>12. ~ Grep("55", Shown("rand"))
  BY <1>6 DEF Grep
<1>13. ~ Grep("55", Shown("old"))
  BY <1>7 DEF Grep
<1>14. ~ Grep("55", Shown("none")) /\ ~ Grep("00", Shown("none"))
  <2>1. \A line : \A k \in DOMAIN <<line>> : <<line>>[k] = line
    OBVIOUS
  <2> QED
    BY <1>8, <2>1, Zenon DEF Grep
<1>15. Grep("00", Shown("zero"))
  BY <1>2 DEF Grep
<1>16. Grep("00", Shown("oldz"))
  BY <1>4 DEF Grep
<1>17. Grep("00", Shown("oldfs"))
  BY <1>5 DEF Grep
<1>18. HexDigitsBesides("00", Shown("zero"))
  <2>1. 3 \in DOMAIN Shown("zero") /\ Shown("zero")[3] = "offset"
    BY <1>2
  <2> QED
    BY <2>1, Zenon DEF HexDigitsBesides
<1>19. HexDigitsBesides("00", Shown("p55"))
  <2>1. 3 \in DOMAIN Shown("p55") /\ Shown("p55")[3] = "offset"
    BY <1>3
  <2> QED
    BY <2>1, Zenon DEF HexDigitsBesides
<1>20. HexDigitsBesides("00", Shown("oldz"))
  <2>1. 4 \in DOMAIN Shown("oldz") /\ Shown("oldz")[4] = "offset"
    BY <1>4
  <2> QED
    BY <2>1, Zenon DEF HexDigitsBesides
<1>21. HexDigitsBesides("00", Shown("oldfs"))
  <2>1. 3 \in DOMAIN Shown("oldfs") /\ Shown("oldfs")[3] = "offset"
    BY <1>5
  <2> QED
    BY <2>1, Zenon DEF HexDigitsBesides
<1>22. HexDigitsBesides("00", Shown("rand"))
  <2>1. 2 \in DOMAIN Shown("rand") /\ Shown("rand")[2] = "offset"
    BY <1>6
  <2> QED
    BY <2>1, Zenon DEF HexDigitsBesides
<1>23. HexDigitsBesides("00", Shown("old"))
  <2>1. 2 \in DOMAIN Shown("old") /\ Shown("old")[2] = "offset"
    BY <1>7
  <2> QED
    BY <2>1, Zenon DEF HexDigitsBesides
<1> QED
  BY <1>9, <1>10, <1>11, <1>12, <1>13, <1>14, <1>15, <1>16, <1>17, <1>18, <1>19, <1>20, <1>21, <1>22, <1>23, Zenon DEF Kinds, Written, Old, Shown

\* A sample that refutes the wipe fails.
LEMMA RefutedFails ==
    ASSUME NEW kind \in Kinds \cup {"none"}, Refutes(kind)
    PROVE  ~ Matches(Expected, kind)
<1>1. CASE Expected = "zeros"
  <2>1. Matches(Expected, kind) = (Grep("00", Echo(Hexdump(kind))) /\ ~ HexDigitsBesides("00", Echo(Hexdump(kind))))
    BY <1>1, Zenon DEF Matches
  <2> QED
    BY <2>1, HexdumpShows, Zenon
<1>2. CASE vf_call.method = "0x55"
  <2>1. Expected = "0x55" /\ kind # "p55"
    BY <1>2, Zenon DEF Expected, Refutes
  <2>2. Matches(Expected, kind) = Grep("55", Echo(Hexdump(kind)))
    BY <2>1, Zenon DEF Matches
  <2> QED
    BY <2>1, <2>2, HexdumpShows, Zenon
<1>3. CASE vf_call.method = "random" /\ Expected = "random"
  <2>1. kind \in {"zero", "oldz", "oldfs"}
    BY <1>3, Zenon DEF Refutes
  <2>2. Matches(Expected, kind) = ~ Grep("00", Echo(Hexdump(kind)))
    BY <1>3, Zenon DEF Matches
  <2> QED
    BY <2>1, <2>2, HexdumpShows, Zenon
<1> QED
  BY <1>1, <1>2, <1>3, Zenon DEF Refutes, Expected

\* What a test reads is on the device, or is nothing.
LEMMA ReadsTheDevice ==
    ASSUME VerifyShape, vf_device \in VerifyDevices, NEW s \in Nat
    PROVE  Read(s) \in Kinds \cup {"none"}
<1>1. VerifySize[vf_device] \in Nat /\ vf_sectors[vf_device] \in [0 .. VerifySize[vf_device] - 1 -> Kinds]
  BY VerifySizeAssumption, Zenon DEF VerifyShape, Calls
<1>2. CASE Read(s) = "none"
  BY <1>2, Zenon
<1>3. CASE Read(s) # "none"
  <2>1. s \in 0 .. VerifySize[vf_device] - 1 /\ Read(s) = vf_sectors[vf_device][s]
    BY <1>1, <1>3 DEF Read, ReadSector
  <2> QED
    BY <1>1, <2>1, Zenon
<1> QED
  BY <1>2, <1>3, Zenon

\* A random sector is a sector: RANDOM % n + VERIFY_MARGIN is not negative, whatever
\* the sign of n.
LEMMA RandomSectorNat ==
    ASSUME VerifyShape, NEW r \in 0 .. RANDOM_MAX, TOTAL # 2 * VERIFY_MARGIN
    PROVE  RandomSector(r, TOTAL, VERIFY_MARGIN) \in Nat
<1>1. TOTAL \in Nat /\ VERIFY_MARGIN \in Nat /\ r \in Nat
  BY VerifySizeAssumption, MarginAssumption DEF VerifyShape, Calls
<1> DEFINE b == TOTAL - 2 * VERIFY_MARGIN
<1>2. b \in Int /\ b # 0
  BY <1>1
<1>3. Rem(r, b) \in Nat
  <2>1. CASE b > 0
    BY <1>1, <1>2, <2>1 DEF Rem
  <2>2. CASE b < 0
    <3> DEFINE c == -b
    <3>1. c \in Nat /\ c > 0
      BY <1>2, <2>2
    <3>2. Rem(r, b) = r % c
      BY <1>2, <2>2 DEF Rem
    <3> HIDE DEF c
    <3> QED
      BY <1>1, <3>1, <3>2
  <2> QED
    BY <1>2, <2>1, <2>2
<1> QED
  BY <1>1, <1>3 DEF RandomSector

\* The globals of a shell that has verified nothing yet satisfy VerifyIInv.
LEMMA VerifyInitIInv == VerifyInit => VerifyIInv
<1> SUFFICES ASSUME VerifyInit PROVE VerifyIInv
  OBVIOUS
<1> USE DEF VerifyInit, VerifyIdle
<1>1. \A d \in VerifyDevices : vf_sectors[d] \in [0 .. VerifySize[d] - 1 -> Kinds]
  BY ContentsAssumption, Zenon
<1>2. VerifyShape
  BY <1>1, SMTT(30) DEF VerifyShape, Calls, VerifySteps, Testing, vf_device
<1>3. Passed /\ Founded /\ SamplesOfThisDevice
  BY Zenon DEF Passed, Founded, VerdictIsFounded, SamplesOfThisDevice
<1> QED
  BY <1>2, <1>3, Zenon DEF VerifyIInv

\* A return with a founded verdict keeps VerifyIInv, the samples being gone by then.
LEMMA VerifyReturnKeepsIInv ==
    ASSUME VerifyIInv, NEW how \in {"passed", "failed", "aborted"}, VerifyReturn(how),
           vf_call.pc \notin {"idle", "entropy"}, UNCHANGED <<TOTAL, samples, leftover, vf_sectors>>,
           how = "passed" => Few,
           how = "aborted" => vf_call.level \notin Levels \/ TOTAL <= 2 * VERIFY_MARGIN
    PROVE  VerifyIInv'
<1> USE DEF VerifyIInv
<1>1. vf_call' = [vf_call EXCEPT !.pc = "returned", !.result = how]
  BY Zenon DEF VerifyReturn
<1>2. VerifyShape' /\ Passed'
  BY <1>1, Zenon DEF VerifyShape, Calls, Passed, VerifySteps, Testing, vf_device
<1>3. /\ vf_call'.pc = "returned" /\ vf_call'.result = how /\ vf_call'.wrong = vf_call.wrong
      /\ vf_call'.level = vf_call.level /\ vf_call'.device = vf_call.device
  BY <1>1, Zenon DEF VerifyShape, Calls
<1>4. Founded'
  BY <1>3, Zenon DEF Founded, VerdictIsFounded, Few
<1>5. SamplesOfThisDevice'
  BY Zenon DEF SamplesOfThisDevice
<1> QED
  BY <1>2, <1>4, <1>5, Zenon

\* The end of a test keeps VerifyIInv if few samples of a pattern test that was
\* passed refute the wipe, and an entropy test has deleted its samples.
LEMMA EndTestKeepsIInv ==
    ASSUME VerifyIInv, Testing, NEW ok \in BOOLEAN, EndTest(ok), UNCHANGED <<TOTAL, vf_sectors>>,
           vf_call.pc = "pattern" => TOTAL # 2 * VERIFY_MARGIN,
           vf_call.pc = "pattern" /\ ok => Few,
           IF vf_call.pc = "entropy" THEN samples' = {} /\ leftover' = {} ELSE UNCHANGED <<samples, leftover>>
    PROVE  VerifyIInv'
<1> USE DEF VerifyIInv
<1>1. PICK pc \in {"entropy", "scan", "results"}, passed \in {vf_call.passed, vf_call.passed + 1}, fine \in BOOLEAN :
        /\ vf_call' = [vf_call EXCEPT !.pc = pc, !.n = 0, !.passed = passed, !.ok = fine]
        /\ fine => vf_call.ok /\ ok
        /\ pc = "entropy" => vf_call.pc = "pattern"
        /\ pc = "scan" => vf_call.pc = "entropy"
  <2> DEFINE pc == IF vf_call.pc = "pattern" /\ vf_call.level # "basic" THEN "entropy"
                   ELSE IF vf_call.pc = "entropy" /\ vf_call.level # "standard" THEN "scan" ELSE "results"
             passed == IF ok THEN vf_call.passed + 1 ELSE vf_call.passed
             fine == vf_call.ok /\ ok
  <2>1. vf_call' = [vf_call EXCEPT !.pc = pc, !.n = 0, !.passed = passed, !.ok = fine]
    BY Zenon DEF EndTest
  <2>2. /\ pc \in {"entropy", "scan", "results"} /\ passed \in {vf_call.passed, vf_call.passed + 1}
        /\ pc = "entropy" => vf_call.pc = "pattern"
        /\ pc = "scan" => vf_call.pc = "entropy"
    OBVIOUS
  <2>3. fine \in BOOLEAN /\ (fine => vf_call.ok /\ ok)
    BY Zenon DEF VerifyShape, Calls
  <2> HIDE DEF pc, passed, fine
  <2> QED
    BY <2>1, <2>2, <2>3, Zenon
<1>2. passed \in 0 .. 3 /\ (pc = "entropy" => passed <= 1) /\ (pc = "scan" => passed <= 2)
  BY <1>1 DEF VerifyShape, Calls, Passed, Testing
<1>3. /\ vf_call'.pc = pc /\ vf_call'.passed = passed /\ vf_call'.wrong = vf_call.wrong
      /\ vf_call'.level = vf_call.level
      /\ vf_call'.device = vf_call.device /\ (vf_call'.ok = fine)
  BY <1>1, Zenon DEF VerifyShape, Calls
<1>4. VerifyShape'
  <2>1. vf_call' \in Calls
    BY <1>1, <1>2, Zenon DEF VerifyShape, Calls, VerifySteps
  <2>2. samples' \subseteq VerifyDevices \X Kinds /\ leftover' \subseteq samples'
    BY Zenon DEF VerifyShape, Calls
  <2> QED
    BY <1>3, <2>1, <2>2, Zenon DEF VerifyShape, Calls, Testing, vf_device
<1>5. Passed'
  BY <1>2, <1>3, Zenon DEF Passed
<1>6. Founded'
  <2>1. fine => Few
    BY <1>1, Zenon DEF Founded, VerifyShape, Calls, Testing
  <2>2. Few' = Few
    BY <1>3, Zenon DEF Few
  <2>3. pc = "entropy" => TOTAL' # 2 * VERIFY_MARGIN
    BY <1>1, Zenon
  <2>4. vf_call'.ok => fine
    BY <1>3, Zenon
  <2> QED
    BY <1>3, <2>1, <2>2, <2>3, <2>4, Zenon DEF Founded, VerdictIsFounded
<1>7. SamplesOfThisDevice'
  BY <1>1, <1>3, Zenon DEF SamplesOfThisDevice, Testing, vf_device
<1> QED
  BY <1>4, <1>5, <1>6, <1>7, Zenon

\* A turn of a loop, or a loss of the device, changes nothing but the counters
\* and whether the device answers.
LEMMA TurnKeepsIInv ==
    ASSUME VerifyIInv, Testing \/ vf_call.pc \in {"init", "results"}, vf_call' \in Calls,
           SameCall,
           UNCHANGED <<TOTAL, vf_sectors, leftover>>,
           samples' \subseteq VerifyDevices \X Kinds, samples \subseteq samples',
           \A x \in samples' \ samples : x[1] = vf_device /\ vf_call.pc = "entropy",
           vf_call.pc = "init" => vf_call'.n = vf_call.n /\ vf_call'.failed = vf_call.failed,
           vf_call.pc # "pattern" => vf_call'.wrong = vf_call.wrong,
           vf_call.pc = "pattern" =>
              /\ vf_call'.n <= PATTERN_SAMPLES[vf_call.level] /\ vf_call'.wrong <= vf_call'.failed
              /\ vf_call'.n > 0 => TOTAL # 2 * VERIFY_MARGIN
    PROVE  VerifyIInv'
<1> USE DEF VerifyIInv
<1>1. SameCall
  OBVIOUS
<1> USE DEF SameCall
<1>2. VerifyShape'
  <2>1. leftover' \subseteq samples'
    BY Zenon DEF VerifyShape
  <2> QED
    BY <1>1, <2>1, Zenon DEF VerifyShape, Testing, vf_device
<1>3. Passed'
  BY <1>1, Zenon DEF Passed
<1>4. Founded'
  <2>1. vf_call.pc # "pattern" => Few' = Few
    BY <1>1, Zenon DEF Few
  <2>2. vf_call.ok => vf_call'.ok
    BY <1>1, Zenon
  <2>3. vf_call'.ok => vf_call.ok
    BY <1>1, Zenon
  <2> QED
    BY <1>1, <2>1, <2>2, <2>3, Zenon DEF Founded, VerdictIsFounded, Testing
<1>5. SamplesOfThisDevice'
  BY <1>1, Zenon DEF SamplesOfThisDevice, vf_device
<1> QED
  BY <1>2, <1>3, <1>4, <1>5, Zenon

\* Every step keeps VerifyIInv.
LEMMA VerifyStepIInv == VerifyIInv /\ [VerifyNext]_vf_vars => VerifyIInv'
<1> SUFFICES ASSUME VerifyIInv, [VerifyNext]_vf_vars PROVE VerifyIInv'
  OBVIOUS
<1> USE DEF VerifyIInv
<1>1. CASE UNCHANGED vf_vars
  BY <1>1, SMTT(30) DEF vf_vars, VerifyShape, Calls, Passed, Founded, VerdictIsFounded, SamplesOfThisDevice,
     Few,
     Testing, vf_device
<1>2. ASSUME NEW d \in VerifyDevices, NEW m \in Methods, NEW l \in Levels \cup {"other"}, VerifyCall(d, m, l)
      PROVE  VerifyIInv'
  <2> USE <1>2 DEF VerifyCall
  <2>1. vf_call' = [pc |-> "init", device |-> d, method |-> m, level |-> l, n |-> 0, failed |-> 0, wrong |-> 0,
                 suspicious |-> 0, passed |-> 0, ok |-> TRUE, answers |-> TRUE, result |-> "none"]
    BY Zenon DEF VerifyIdle
  <2>2. vf_call.pc # "entropy" /\ UNCHANGED <<TOTAL, samples, leftover, vf_sectors>>
    OBVIOUS
  <2> HIDE <1>2 DEF VerifyCall
  <2>3. /\ vf_call'.pc = "init" /\ vf_call'.device = d /\ vf_call'.n = 0 /\ vf_call'.failed = 0
        /\ vf_call'.wrong = 0 /\ vf_call'.passed = 0
        /\ vf_call'.ok /\ vf_call' \in Calls
    BY <2>1 DEF Calls, VerifySteps
  <2>4. VerifyShape'
    BY <2>2, <2>3, Zenon DEF VerifyShape, Testing, vf_device
  <2>5. Passed' /\ Founded'
    BY <2>3, Zenon DEF Passed, Founded, VerdictIsFounded
  <2>6. SamplesOfThisDevice'
    BY <2>2, Zenon DEF SamplesOfThisDevice
  <2> QED
    BY <2>4, <2>5, <2>6, Zenon
<1>3. CASE initialize_verification_engine
  <2> USE <1>3 DEF initialize_verification_engine
  <2>1. CASE VerifyReturn("failed") /\ UNCHANGED TOTAL
    BY <2>1, VerifyReturnKeepsIInv, Zenon
  <2>2. CASE /\ TOTAL' = VerifySize[vf_device]
             /\ vf_call' = [vf_call EXCEPT !.pc = IF vf_call.level \in Levels THEN "pattern" ELSE "results"]
    <3>1. PICK pc \in {"pattern", "results"} : /\ vf_call' = [vf_call EXCEPT !.pc = pc]
                                               /\ pc = "pattern" <=> vf_call.level \in Levels
      BY <2>2, Zenon
    <3>2. /\ vf_call'.pc = pc /\ vf_call'.device = vf_call.device /\ vf_call'.level = vf_call.level
          /\ vf_call'.n = 0
          /\ vf_call'.failed = 0 /\ vf_call'.wrong = 0 /\ vf_call'.passed = vf_call.passed /\ vf_call'.ok
      BY <3>1, Zenon DEF VerifyShape, Calls, Founded
    <3>3. VerifyShape'
      <4>1. vf_call' \in Calls
        BY <3>1, Zenon DEF VerifyShape, Calls, VerifySteps
      <4> QED
        BY <2>2, <3>1, <3>2, <4>1, Zenon DEF VerifyShape, Calls, Testing, vf_device
    <3>4. Passed'
      BY <3>2, Zenon DEF Passed
    <3>5. Founded'
      <4>1. pc = "pattern" => 0 <= PATTERN_SAMPLES[vf_call.level]
        BY <3>1, SamplesAssumption
      <4> QED
        BY <3>1, <3>2, <4>1 DEF Founded, VerdictIsFounded
    <3>6. SamplesOfThisDevice'
      BY Zenon DEF SamplesOfThisDevice
    <3> QED
      BY <3>3, <3>4, <3>5, <3>6, Zenon
  <2> QED
    BY <2>1, <2>2, Zenon
<1>4. CASE PatternAborts
  BY <1>4, VerifyReturnKeepsIInv, MarginAssumption DEF PatternAborts
<1>5. ASSUME NEW r \in 0 .. RANDOM_MAX, PatternSample(r) PROVE VerifyIInv'
  <2> USE <1>5 DEF PatternSample
  <2> DEFINE kind == Read(RandomSector(r, TOTAL, VERIFY_MARGIN))
             failed == IF Matches(Expected, kind) THEN vf_call.failed ELSE vf_call.failed + 1
             wrong == IF Refutes(kind) THEN vf_call.wrong + 1 ELSE vf_call.wrong
  <2>1. kind \in Kinds \cup {"none"}
    BY RandomSectorNat, ReadsTheDevice, Zenon DEF VerifyShape, Calls
  <2>2. Refutes(kind) => ~ Matches(Expected, kind)
    BY <2>1, RefutedFails, Zenon
  <2>3. \/ failed = vf_call.failed /\ wrong = vf_call.wrong
        \/ failed = vf_call.failed + 1 /\ wrong \in {vf_call.wrong, vf_call.wrong + 1}
    BY <2>2, Zenon
  <2>4. vf_call' = [vf_call EXCEPT !.n = vf_call.n + 1, !.failed = failed, !.wrong = wrong]
    BY Zenon
  <2>0. /\ vf_call.pc = "pattern" /\ vf_call.n < PATTERN_SAMPLES[vf_call.level] /\ TOTAL # 2 * VERIFY_MARGIN
        /\ UNCHANGED <<TOTAL, samples, leftover, vf_sectors>>
    OBVIOUS
  <2> HIDE <1>5 DEF kind, failed, wrong, PatternSample
  <2> USE <2>0
  <2>6. vf_call.n \in Nat /\ vf_call.failed \in Nat /\ vf_call.wrong \in Nat
    BY Zenon DEF VerifyShape, Calls
  <2>7. /\ vf_call' \in Calls /\ vf_call'.n = vf_call.n + 1 /\ vf_call'.failed = failed
        /\ vf_call'.wrong = wrong /\ SameCall
    <3>1. failed \in Nat /\ wrong \in Nat /\ vf_call.n + 1 \in Nat
      BY <2>3, <2>6
    <3>2. vf_call' \in Calls
      BY <2>4, <3>1, Zenon DEF VerifyShape, Calls
    <3>3. vf_call'.n = vf_call.n + 1 /\ vf_call'.failed = failed /\ vf_call'.wrong = wrong
      BY <2>4, Zenon DEF VerifyShape, Calls
    <3>4. SameCall
      BY <2>4, Zenon DEF VerifyShape, Calls, SameCall
    <3> QED
      BY <3>2, <3>3, <3>4, Zenon
  <2>8. PATTERN_SAMPLES[vf_call.level] \in Nat
    BY SamplesAssumption, Zenon DEF VerifyShape, Calls, Testing
  <2>5. vf_call.wrong <= vf_call.failed
    BY Zenon DEF Founded
  <2>9. vf_call.n + 1 <= PATTERN_SAMPLES[vf_call.level] /\ wrong <= failed
    BY <2>0, <2>3, <2>5, <2>6, <2>8
  <2>10. samples' \subseteq VerifyDevices \X Kinds /\ samples \subseteq samples' /\ samples' \ samples = {}
    BY Zenon DEF VerifyShape
  <2>11. Testing
    BY Zenon DEF Testing
  <2> QED
    BY <2>7, <2>9, <2>10, <2>11, TurnKeepsIInv, Zenon
<1>6. CASE PatternResult
  <2> USE <1>6 DEF PatternResult
  <2> DEFINE N == PATTERN_SAMPLES[vf_call.level]
             good == (vf_call.failed * 100) \div N <= 1
  <2>1. N \in Nat /\ N > 0 /\ vf_call.n = N /\ vf_call.failed \in Nat /\ vf_call.wrong \in Nat
    BY SamplesAssumption DEF VerifyShape, Calls, Testing
  <2>2. EndTest(good) /\ good \in BOOLEAN
    OBVIOUS
  <2>3. vf_call.ok /\ vf_call.wrong <= vf_call.failed /\ TOTAL # 2 * VERIFY_MARGIN
    BY <2>1 DEF Founded
  <2>4. good => Few
    <3>1. ASSUME NEW k \in Nat, NEW m \in Nat, m > 0, (k * 100) \div m <= 1 PROVE k * 100 < 2 * m
      <4> DEFINE q == (k * 100) \div m
                 p == (k * 100) % m
      <4>1. k * 100 = m * q + p /\ q \in Nat /\ p \in 0 .. m - 1 /\ q <= 1
        BY <3>1
      <4> HIDE DEF q, p
      <4>2. m * q <= m
        <5>1. q = 0 \/ q = 1
          BY <4>1
        <5> QED
          BY <3>1, <5>1
      <4> QED
        BY <3>1, <4>1, <4>2
    <3>2. good => vf_call.failed * 100 < 2 * N
      BY <2>1, <3>1
    <3> HIDE DEF good
    <3> QED
      BY <2>1, <2>3, <3>2 DEF Few
  <2> HIDE DEF good
  <2> QED
    BY <2>2, <2>3, <2>4, EndTestKeepsIInv, Zenon DEF Testing
<1>7. ASSUME NEW r \in 0 .. RANDOM_MAX, EntropySample(r) PROVE VerifyIInv'
  <2> USE <1>7 DEF EntropySample
  <2> DEFINE kind == Read(RandomSector(r, TOTAL, VERIFY_MARGIN))
  <2>1. kind \in Kinds \cup {"none"} /\ vf_device \in VerifyDevices
    BY RandomSectorNat, ReadsTheDevice, Zenon DEF VerifyShape, Calls, Founded
  <2>2. samples' = IF kind = "none" THEN samples ELSE samples \cup {<<vf_device, kind>>}
    BY Zenon
  <2> HIDE DEF kind
  <2>3. samples' \subseteq VerifyDevices \X Kinds /\ samples \subseteq samples'
    BY <2>1, <2>2 DEF VerifyShape, Calls
  <2>4. \A x \in samples' \ samples : x[1] = vf_device
    BY <2>2
  <2>5. vf_call.n \in Nat /\ vf_call.failed \in Nat /\ vf_call.suspicious \in Nat /\ vf_call.answers \in BOOLEAN
    BY Zenon DEF VerifyShape, Calls
  <2>6. /\ vf_call' \in Calls
        /\ vf_call'.wrong = vf_call.wrong /\ SameCall
    <3>1. vf_call' = [vf_call EXCEPT !.n = vf_call.n + 1]
      BY Zenon
    <3> HIDE <1>7 DEF EntropySample
    <3>2. vf_call.n + 1 \in Nat
      BY <2>5
    <3> QED
      BY <3>1, <3>2, Zenon DEF VerifyShape, Calls, SameCall
  <2>7. Testing
    BY Zenon DEF Testing
  <2> QED
    BY <2>3, <2>4, <2>6, <2>7, TurnKeepsIInv, Zenon
<1>8. CASE EntropyResult
  <2>1. PICK score \in EntropyScores : EndTest(score # "moderate")
    BY <1>8, Zenon DEF EntropyResult
  <2>2. (score # "moderate") \in BOOLEAN
    OBVIOUS
  <2> QED
    BY <1>8, <2>1, <2>2, EndTestKeepsIInv, Zenon DEF EntropyResult, Testing
<1>9. CASE ScanAborts
  <2> USE <1>9 DEF ScanAborts
  <2> DEFINE q == (TOTAL * Percentage) \div 100
             p == (TOTAL * Percentage) % 100
  <2>1. Percentage \in {10, 50} /\ TOTAL \in Nat /\ VERIFY_MARGIN \in Nat /\ PROGRESS \in Nat
    BY VerifySizeAssumption, MarginAssumption DEF VerifyShape, Percentage
  <2>2. TOTAL * Percentage = 100 * q + p /\ q \in Nat /\ p \in 0 .. 99 /\ q = sectors_to_scan
    BY <2>1 DEF sectors_to_scan
  <2>3. TOTAL * 10 <= TOTAL * Percentage
    BY <2>1
  <2> HIDE DEF q, p
  <2>4. TOTAL <= 2 * VERIFY_MARGIN
    BY <2>1, <2>2, <2>3, MarginAssumption
  <2> QED
    BY <2>4, VerifyReturnKeepsIInv, Zenon
<1>10. CASE ScanSector
  <2> USE <1>10 DEF ScanSector
  <2>1. vf_call.n \in Nat /\ vf_call.failed \in Nat /\ vf_call.suspicious \in Nat /\ vf_call.answers \in BOOLEAN
    BY Zenon DEF VerifyShape, Calls
  <2>2. PICK suspicious \in {vf_call.suspicious, vf_call.suspicious + 1} :
           vf_call' = [vf_call EXCEPT !.n = vf_call.n + 1, !.suspicious = suspicious]
    BY Zenon
  <2>0. vf_call.pc = "scan" /\ UNCHANGED <<TOTAL, samples, leftover, vf_sectors>>
    OBVIOUS
  <2> HIDE <1>10 DEF ScanSector
  <2> USE <2>0
  <2>3. /\ vf_call' \in Calls
        /\ vf_call'.wrong = vf_call.wrong /\ SameCall
    <3>1. vf_call' \in Calls
      <4> DEFINE c == [vf_call EXCEPT !.n = vf_call.n + 1]
      <4>1. c \in Calls /\ vf_call' = [c EXCEPT !.suspicious = suspicious]
        BY <2>1, <2>2 DEF VerifyShape, Calls
      <4> HIDE DEF c
      <4>2. suspicious \in Nat
        BY <2>1, <2>2
      <4> QED
        BY <4>1, <4>2, Zenon DEF Calls
    <3>2. vf_call'.wrong = vf_call.wrong /\ SameCall
      BY <2>2, Zenon DEF VerifyShape, Calls, SameCall
    <3> QED
      BY <3>1, <3>2, Zenon
  <2>4. samples' \subseteq VerifyDevices \X Kinds /\ samples \subseteq samples' /\ samples' \ samples = {}
    BY Zenon DEF VerifyShape
  <2>5. Testing
    BY Zenon DEF Testing
  <2> QED
    BY <2>3, <2>4, <2>5, TurnKeepsIInv, Zenon
<1>11. CASE ScanResult
  <2> DEFINE good == vf_call.suspicious = 0 \/ (vf_call.suspicious * 100) \div vf_call.n <= 5
  <2>1. EndTest(good) /\ good \in BOOLEAN
    BY <1>11, Zenon DEF ScanResult
  <2> HIDE DEF good
  <2> QED
    BY <1>11, <2>1, EndTestKeepsIInv, Zenon DEF ScanResult, Testing
<1>12. CASE Results
  <2> USE <1>12 DEF Results
  <2>1. vf_call.level \in Levels => tests_completed # 0
    <3>1. vf_call.level = "basic" => tests_completed = 1
      BY Zenon DEF tests_completed, Levels
    <3>2. vf_call.level = "standard" => tests_completed = 2
      BY Zenon DEF tests_completed, Levels
    <3>3. vf_call.level \in {"thorough", "forensic"} => tests_completed = 3
      BY Zenon DEF tests_completed, Levels
    <3> QED
      BY <3>1, <3>2, <3>3 DEF Levels
  <2>2. vf_call.level \notin Levels => tests_completed = 0
    BY Zenon DEF tests_completed, Levels
  <2> QED
    BY <2>1, <2>2, VerifyReturnKeepsIInv, Zenon DEF Founded
<1>13. CASE generate_verification_report
  <2> USE <1>13 DEF generate_verification_report, VerifyIdle
  <2>1. VerifyShape'
    BY SMTT(30) DEF VerifyShape, Calls, VerifySteps, Testing, vf_device
  <2>2. Passed' /\ Founded' /\ SamplesOfThisDevice'
    BY Zenon DEF Passed, Founded, VerdictIsFounded, SamplesOfThisDevice
  <2> QED
    BY <2>1, <2>2, Zenon
<1>14. CASE VerifyUnplug
  <2> USE <1>14 DEF VerifyUnplug
  <2>1. vf_call.n \in Nat /\ vf_call.failed \in Nat /\ vf_call.suspicious \in Nat /\ vf_call.answers \in BOOLEAN
    BY Zenon DEF VerifyShape, Calls
  <2>2. PICK answers \in BOOLEAN : vf_call' = [vf_call EXCEPT !.answers = answers]
    BY Zenon
  <2>3. /\ vf_call' \in Calls /\ vf_call'.n = vf_call.n /\ vf_call'.failed = vf_call.failed
        /\ vf_call'.wrong = vf_call.wrong /\ SameCall
    BY <2>1, <2>2, Zenon DEF VerifyShape, Calls, SameCall
  <2>4. Testing \/ vf_call.pc \in {"init", "results"}
    BY Zenon DEF VerifyShape, Calls, VerifySteps, Testing
  <2>5. samples' \subseteq VerifyDevices \X Kinds /\ samples \subseteq samples' /\ samples' \ samples = {}
    BY Zenon DEF VerifyShape
  <2>6. vf_call.pc = "pattern" =>
           /\ vf_call.n <= PATTERN_SAMPLES[vf_call.level] /\ vf_call.wrong <= vf_call.failed
           /\ vf_call.n > 0 => TOTAL # 2 * VERIFY_MARGIN
    BY Zenon DEF Founded
  <2> QED
    BY <2>3, <2>4, <2>5, <2>6, TurnKeepsIInv, Zenon
<1>15. CASE VerifyInterrupt
  <2> USE <1>15 DEF VerifyInterrupt, VerifyIdle
  <2>1. VerifyShape'
    BY SMTT(30) DEF VerifyShape, Calls, VerifySteps, Testing, vf_device
  <2>2. Passed' /\ Founded' /\ SamplesOfThisDevice'
    BY Zenon DEF Passed, Founded, VerdictIsFounded, SamplesOfThisDevice
  <2> QED
    BY <2>1, <2>2, Zenon
<1> QED
  BY <1>1, <1>2, <1>3, <1>4, <1>5, <1>6, <1>7, <1>8, <1>9, <1>10, <1>11, <1>12, <1>13, <1>14, <1>15, Zenon
     DEF VerifyNext, Tests

\* VerifyIInv holds throughout, from device to device.
THEOREM VerifyInvariance == VerifySpec => []VerifyIInv
  BY VerifyInitIInv, VerifyStepIInv, PTL DEF VerifySpec

\* Counters, globals and samples of verification.sh keep to their types.
THEOREM VerifyTypeCorrect == VerifySpec => []VerifyTypeOK
<1>1. VerifyIInv => VerifyTypeOK
  BY Zenon DEF VerifyIInv, VerifyShape, Calls, VerifySteps, VerifyTypeOK, vf_device
<1> QED
  BY <1>1, VerifyInvariance, PTL

\* VerdictIsFounded, for any device, contents and number of samples: when
\* verification.sh passes, fewer than 2% of its samples refute the wipe, what dd
\* could not read counted against 0x55 although it is judged like data, and no division by zero abandons the suite but where the
\* device is too small or the level unknown.
THEOREM VerdictsAreFounded == VerifySpec => []VerdictIsFounded
<1>1. VerifyIInv => VerdictIsFounded
  BY Zenon DEF VerifyIInv, Founded
<1> QED
  BY <1>1, VerifyInvariance, PTL

\* SamplesOfThisDevice, for any devices: entropy-samples.bin, which every call
\* appends to, holds only samples of the device at hand and of calls that were
\* interrupted.
THEOREM SamplesAreTheDevices == VerifySpec => []SamplesOfThisDevice
<1>1. VerifyIInv => SamplesOfThisDevice
  BY Zenon DEF VerifyIInv
<1> QED
  BY <1>1, VerifyInvariance, PTL

-----------------------------------------------------------------------------
(***************************************************************************)
(* certificate-gen.sh and the shell that runs the engines before it        *)
(***************************************************************************)
Named == CertDevices \cup {"none"}
Exports == [SIZE : Named, TYPE : Named, HPA : Named]
Data == {NoData} \cup [device : CertDevices, from : Exports, signed : BOOLEAN]
SessionSteps == {"ca_key", "ca_crt", "key", "crt", "data", "sign", "embed", "document"}

\* The variables are what the actions take them for.
SessionShape ==
    /\ cert_call \in [pc : SessionSteps \cup {"idle"}, device : Named]
    /\ cert_call.pc # "idle" => cert_call.device \in CertDevices
    /\ exports \in Exports /\ issued \in Named
    /\ session \in [device : Named, step : {"plan", "wipe", "verify", "certify"}]
    /\ session.step # "plan" => session.device \in CertDevices
    /\ files \in [ca_key : Missing .. KEYS, ca_crt : (Missing .. KEYS) \ {0}, key : Missing .. KEYS,
                  crt : [key : (Missing .. KEYS) \ {0}, ca : (Missing .. KEYS) \ {0}], data : Data,
                  sig : [key : Missing .. KEYS, over : Data], html : Named, pdf : Named]

\* The keys and certificates a step of the call finds: what the steps before it made
KeyInv ==
    /\ files.ca_crt # Missing => files.ca_crt = files.ca_key
    /\ cert_call.pc = "crt" => files.key \in 1 .. KEYS
    /\ cert_call.pc = "ca_crt" => files.ca_key # Missing
    /\ cert_call.pc \in {"key", "crt", "data", "sign", "embed", "document"} => files.ca_crt # Missing
    /\ cert_call.pc \in {"data", "sign", "embed", "document"} => files.crt.key = files.key /\ files.crt.ca = files.ca_crt
    /\ cert_call.pc \in {"embed", "document"} => files.sig.key = files.key
    /\ issued # "none" => cert_call.pc = "idle" /\ files.sig.key = files.crt.key /\ files.crt.ca = files.ca_crt

\* What the engines have exported is of the device d
Of(d, e) == e.SIZE = d /\ e.TYPE = d /\ (SessionKind[d] = "hdd" => e.HPA = d)

\* The session is about one device, and so is the certificate at its end.
SessionInv ==
    /\ cert_call.pc # "idle" => session.step = "plan"
    /\ session.step # "plan" => exports.TYPE = session.device
    /\ session.step \in {"verify", "certify"} /\ SessionKind[session.device] = "hdd" => exports.HPA = session.device
    /\ session.step = "certify" => exports.SIZE = session.device
    /\ cert_call.pc # "idle" => Of(cert_call.device, exports)
    /\ cert_call.pc \in {"sign", "embed"} => files.data.device = cert_call.device /\ Of(cert_call.device, files.data.from)
    /\ cert_call.pc \in {"embed", "document"} => files.sig.over.device = cert_call.device
    /\ cert_call.pc = "document" =>
          files.data = NoData \/ (files.data.device = cert_call.device /\ Of(cert_call.device, files.data.from))

SessionIInv == SessionShape /\ KeyInv /\ SessionInv /\ CertificateIsTheDevices

-----------------------------------------------------------------------------
\* There always is a key that no file has: they have six at most.
LEMMA FreshIsAKey == Fresh \in 1 .. KEYS
<1> DEFINE used(k) == k \in {files.ca_key, files.ca_crt, files.key, files.crt.key, files.crt.ca, files.sig.key}
<1>1. \E k \in 1 .. KEYS : ~ used(k)
  <2>1. {1, 2, 3, 4, 5, 6, 7} \subseteq 1 .. KEYS
    BY KeysAssumption
  <2>2. \E k \in {1, 2, 3, 4, 5, 6, 7} : ~ used(k)
    OBVIOUS
  <2> QED
    BY <2>1, <2>2, Zenon
<1> QED
  BY <1>1, Zenon DEF Fresh

\* An empty CERT_DIR and a fresh shell satisfy SessionIInv.
LEMMA SessionInitIInv == SessionInit => SessionIInv
<1> SUFFICES ASSUME SessionInit PROVE SessionIInv
  OBVIOUS
<1> USE DEF SessionInit, CInit, CertIdle, NoSession, Missing
<1>1. SessionShape
  BY KeysAssumption, SMTT(30) DEF SessionShape, Named, Exports, Data, NoData, SessionSteps
<1>2. KeyInv
  BY Zenon DEF KeyInv
<1>3. SessionInv /\ CertificateIsTheDevices
  BY Zenon DEF SessionInv, CertificateIsTheDevices
<1> QED
  BY <1>1, <1>2, <1>3, Zenon DEF SessionIInv

\* The engines before the certificate leave its files alone.
LEMMA EnginesKeepIInv ==
    ASSUME SessionIInv, cert_call.pc = "idle", UNCHANGED <<cert_call, files, issued>>,
           (\E d \in CertDevices : SessionPlan(d)) \/ WipeHdd \/ WipeHddFails \/ WipeOther \/ Verify
    PROVE  SessionIInv'
<1> USE DEF SessionIInv
<1>1. KeyInv' /\ CertificateIsTheDevices'
  BY Zenon DEF KeyInv, CertificateIsTheDevices
<1>2. ASSUME NEW d \in CertDevices, SessionPlan(d) PROVE SessionIInv'
  BY <1>1, <1>2, Zenon DEF SessionPlan, SessionShape, SessionInv, Exports, Named
<1>3. CASE WipeHdd
  BY <1>1, <1>3, Zenon DEF WipeHdd, SessionShape, SessionInv, Exports, Named
<1>4. CASE WipeHddFails
  <2>1. exports' \in Exports
    BY <1>4, ZenonT(60) DEF WipeHddFails, SessionShape, Exports, Named
  <2>2. session' = NoSession
    BY <1>4, Zenon DEF WipeHddFails
  <2> QED
    BY <1>1, <2>1, <2>2, Zenon DEF NoSession, SessionShape, SessionInv, Named
<1>5. CASE WipeOther
  BY <1>1, <1>5 DEF WipeOther, NoSession, SessionShape, SessionInv, Named
<1>6. CASE Verify
  BY <1>1, <1>6 DEF Verify, NoSession, SessionShape, SessionInv, Exports, Named
<1> QED
  BY <1>2, <1>3, <1>4, <1>5, <1>6, Zenon

\* A call that fails leaves SessionIInv as it was, if it has touched nothing but keys
\* that are made anew.
LEMMA FailKeepsIInv ==
    ASSUME SessionIInv, cert_call.pc # "idle", Fail, UNCHANGED session,
           exports' \in {exports, [SIZE |-> "none", TYPE |-> "none", HPA |-> "none"]},
           \/ UNCHANGED files
           \/ cert_call.pc = "ca_key" /\ files.ca_key = Missing /\ files' = [files EXCEPT !.ca_key = 0]
           \/ cert_call.pc = "key" /\ files' = [files EXCEPT !.key = 0]
    PROVE  SessionIInv'
<1> USE DEF SessionIInv, Fail, CertIdle
<1>1. issued = "none" /\ issued' = "none" /\ cert_call'.pc = "idle" /\ session.step = "plan"
  BY Zenon DEF KeyInv, SessionInv
<1>2. SessionShape'
  <2>1. exports' \in Exports
    BY DEF SessionShape, Exports, Named
  <2>2. 0 \in Missing .. KEYS
    BY KeysAssumption DEF Missing
  <2> QED
    BY <1>1, <2>1, <2>2 DEF SessionShape, Named
<1>3. KeyInv'
  BY <1>1 DEF KeyInv, SessionShape
<1>4. SessionInv' /\ CertificateIsTheDevices'
  BY <1>1, Zenon DEF SessionInv, CertificateIsTheDevices
<1> QED
  BY <1>2, <1>3, <1>4, Zenon

\* Every step keeps SessionIInv.
LEMMA SessionStepIInv == SessionIInv /\ [SessionNext]_session_vars => SessionIInv'
<1> SUFFICES ASSUME SessionIInv, [SessionNext]_session_vars PROVE SessionIInv'
  OBVIOUS
<1> USE DEF SessionIInv
<1>1. CASE UNCHANGED session_vars
  BY <1>1, Zenon DEF session_vars, SessionShape, KeyInv, SessionInv, CertificateIsTheDevices, Of
<1>2. CASE cert_call.pc = "idle" /\ ((\E d \in CertDevices : SessionPlan(d)) \/ WipeHdd \/ WipeHddFails \/ WipeOther \/ Verify)
  <2>1. UNCHANGED <<cert_call, files, issued>>
    BY <1>2, Zenon DEF SessionPlan, WipeHdd, WipeHddFails, WipeOther, Verify
  <2> QED
    BY <1>2, <2>1, EnginesKeepIInv, Zenon
<1>3. CASE cert_call.pc = "idle" /\ Certify
  <2> USE <1>3 DEF Certify, GenerateCertificate, NoSession
  <2>1. SessionShape'
    BY Zenon DEF SessionShape, SessionSteps, Named
  <2>2. KeyInv'
    BY Zenon DEF KeyInv
  <2>3. SessionInv' /\ CertificateIsTheDevices'
    BY Zenon DEF SessionInv, CertificateIsTheDevices, Of, SessionShape
  <2> QED
    BY <2>1, <2>2, <2>3, Zenon
<1>4. CASE CaKey /\ UNCHANGED session
  <2> USE <1>4 DEF CaKey
  <2>1. CASE GenrsaFails("ca_key") /\ files.ca_key = Missing
    BY <2>1, FailKeepsIInv, Zenon DEF GenrsaFails
  <2>2. CASE CertGoto("ca_crt") /\ UNCHANGED issued
             /\ ((files.ca_key # Missing /\ files' = files)
                   \/ (files.ca_key = Missing /\ files' = [files EXCEPT !.ca_key = Fresh]))
    <3> USE <2>2 DEF CertGoto
    <3>1. SessionShape'
      BY FreshIsAKey, KeysAssumption DEF SessionShape, SessionSteps, Missing
    <3>2. KeyInv'
      BY FreshIsAKey, KeysAssumption DEF KeyInv, SessionShape, Missing
    <3>3. SessionInv' /\ CertificateIsTheDevices'
      BY Zenon DEF SessionInv, CertificateIsTheDevices, KeyInv, SessionShape, Of
    <3> QED
      BY <3>1, <3>2, <3>3, Zenon
  <2> QED
    BY <2>1, <2>2, Zenon
<1>5. CASE CaCrt /\ UNCHANGED session
  <2> USE <1>5 DEF CaCrt
  <2>1. CASE Fail /\ UNCHANGED files
    BY <2>1, FailKeepsIInv, Zenon
  <2>2. CASE CertGoto("key") /\ UNCHANGED issued
             /\ ((files' = files /\ files.ca_crt # Missing)
                   \/ (files.ca_crt = Missing /\ files.ca_key # 0 /\ files' = [files EXCEPT !.ca_crt = files.ca_key]))
    <3> USE <2>2 DEF CertGoto
    <3>1. SessionShape'
      BY DEF SessionShape, SessionSteps
    <3>2. KeyInv'
      BY DEF KeyInv, SessionShape
    <3>3. SessionInv' /\ CertificateIsTheDevices'
      BY Zenon DEF SessionInv, CertificateIsTheDevices, KeyInv, SessionShape, Of
    <3> QED
      BY <3>1, <3>2, <3>3, Zenon
  <2> QED
    BY <2>1, <2>2, Zenon
<1>6. CASE DeviceKey /\ UNCHANGED session
  <2> USE <1>6 DEF DeviceKey
  <2>1. CASE GenrsaFails("key")
    BY <2>1, FailKeepsIInv, Zenon DEF GenrsaFails
  <2>2. CASE files' = [files EXCEPT !.key = Fresh] /\ CertGoto("crt") /\ UNCHANGED issued
    <3> USE <2>2 DEF CertGoto
    <3>1. SessionShape'
      BY FreshIsAKey, KeysAssumption DEF SessionShape, SessionSteps, Missing
    <3>2. KeyInv'
      BY FreshIsAKey, Zenon DEF KeyInv, SessionShape
    <3>3. SessionInv' /\ CertificateIsTheDevices'
      BY Zenon DEF SessionInv, CertificateIsTheDevices, KeyInv, SessionShape, Of
    <3> QED
      BY <3>1, <3>2, <3>3, Zenon
  <2> QED
    BY <2>1, <2>2, Zenon
<1>7. CASE DeviceCrt /\ UNCHANGED session
  <2> USE <1>7 DEF DeviceCrt
  <2>1. CASE Fail /\ UNCHANGED files
    BY <2>1, FailKeepsIInv, Zenon
  <2>2. CASE /\ files.ca_crt = files.ca_key /\ CertGoto("data") /\ UNCHANGED issued
             /\ files' = [files EXCEPT !.crt = [key |-> files.key, ca |-> files.ca_key]]
    <3> USE <2>2 DEF CertGoto
    <3>1. SessionShape'
      BY KeysAssumption DEF SessionShape, SessionSteps, KeyInv, Missing
    <3>2. KeyInv'
      BY Zenon DEF KeyInv, SessionShape
    <3>3. SessionInv' /\ CertificateIsTheDevices'
      BY Zenon DEF SessionInv, CertificateIsTheDevices, KeyInv, SessionShape, Of
    <3> QED
      BY <3>1, <3>2, <3>3, Zenon
  <2> QED
    BY <2>1, <2>2, Zenon
<1>8. CASE create_certificate_data /\ UNCHANGED session
  <2> USE <1>8 DEF create_certificate_data, CertGoto
  <2>1. SessionShape'
    BY Zenon DEF SessionShape, SessionSteps, Data
  <2>2. KeyInv'
    BY Zenon DEF KeyInv, SessionShape
  <2>3. SessionInv' /\ CertificateIsTheDevices'
    BY Zenon DEF SessionInv, CertificateIsTheDevices, KeyInv, SessionShape, Of
  <2> QED
    BY <2>1, <2>2, <2>3, Zenon
<1>9. CASE Sign /\ UNCHANGED session
  <2> USE <1>9 DEF Sign
  <2>1. CASE Fail /\ UNCHANGED files
    BY <2>1, FailKeepsIInv, Zenon
  <2>2. CASE files' = [files EXCEPT !.sig = [key |-> files.key, over |-> files.data]] /\ CertGoto("embed") /\ UNCHANGED issued
    <3> USE <2>2 DEF CertGoto
    <3>1. SessionShape'
      BY Zenon DEF SessionShape, SessionSteps
    <3>2. KeyInv'
      BY Zenon DEF KeyInv, SessionShape
    <3>3. SessionInv' /\ CertificateIsTheDevices'
      BY Zenon DEF SessionInv, CertificateIsTheDevices, KeyInv, SessionShape, Of
    <3> QED
      BY <3>1, <3>2, <3>3, Zenon
  <2> QED
    BY <2>1, <2>2, Zenon
<1>10. CASE Embed /\ UNCHANGED session
  <2> USE <1>10 DEF Embed, CertGoto
  <2>1. files.data \in [device : CertDevices, from : Exports, signed : BOOLEAN]
    BY CertNoneAssumption DEF SessionShape, SessionInv, Data, NoData
  <2>2. SessionShape'
    <3>1. CASE files' = [files EXCEPT !.data.signed = TRUE]
      <4>1. [files.data EXCEPT !.signed = TRUE] \in Data
        BY <2>1, Zenon DEF Data
      <4>2. files' = [files EXCEPT !.data = [files.data EXCEPT !.signed = TRUE]]
        BY <3>1, Zenon
      <4> QED
        BY <4>1, <4>2, Zenon DEF SessionShape, SessionSteps
    <3>2. CASE files' = [files EXCEPT !.data = NoData]
      BY <3>2, Zenon DEF SessionShape, SessionSteps, Data
    <3> QED
      BY <3>1, <3>2, Zenon
  <2>3. KeyInv'
    BY DEF KeyInv, SessionShape
  <2>4. SessionInv' /\ CertificateIsTheDevices'
    BY <2>1 DEF SessionInv, CertificateIsTheDevices, KeyInv, SessionShape, Of
  <2> QED
    BY <2>2, <2>3, <2>4, Zenon
<1>11. CASE create_pdf_certificate /\ UNCHANGED session
  <2> USE <1>11 DEF create_pdf_certificate, CertIdle
  <2>1. files.data.device \in Named
    BY DEF SessionShape, Data, NoData, Named
  <2>2. SessionShape'
    <3> DEFINE h == files.data.device
    <3>1. h \in Named
      BY <2>1, Zenon
    <3> HIDE DEF h
    <3>2. PICK p \in {h, files.pdf} : files' = [files EXCEPT !.html = h, !.pdf = p]
      BY Zenon DEF SessionShape, h
    <3>3. p \in Named
      BY <3>1, Zenon DEF SessionShape
    <3>4. cert_call' \in [pc : SessionSteps \cup {"idle"}, device : Named] /\ cert_call'.pc = "idle" /\ issued' \in Named
      BY Zenon DEF SessionShape, Named
    <3>5. UNCHANGED <<exports, session>>
      OBVIOUS
    <3> HIDE DEF create_pdf_certificate
    <3> QED
      BY <3>1, <3>2, <3>3, <3>4, <3>5, Zenon DEF SessionShape
  <2>3. KeyInv'
    <3>1. \A f \in {"ca_key", "ca_crt", "key", "crt", "sig"} : files'[f] = files[f]
      BY Zenon DEF SessionShape
    <3>2. /\ files'.ca_key = files.ca_key /\ files'.ca_crt = files.ca_crt /\ files'.key = files.key
          /\ files'.crt = files.crt /\ files'.sig = files.sig /\ cert_call'.pc = "idle"
      BY <3>1, Zenon
    <3> QED
      BY <3>2, Zenon DEF KeyInv
  <2>4. SessionInv'
    BY Zenon DEF SessionInv
  <2>5. CertificateIsTheDevices'
    <3>1. /\ files'.data = files.data /\ files'.sig = files.sig /\ files'.html = files.data.device
          /\ issued' = cert_call.device
      BY Zenon DEF SessionShape
    <3>2. CASE files.data = NoData
      BY <3>1, <3>2 DEF CertificateIsTheDevices, SessionInv, NoData
    <3>3. CASE files.data # NoData
      BY <3>1, <3>3, Zenon DEF CertificateIsTheDevices, SessionInv, Of
    <3> QED
      BY <3>2, <3>3, Zenon
  <2> QED
    BY <2>2, <2>3, <2>4, <2>5, Zenon
<1>12. CASE CertInterrupt /\ UNCHANGED session
  BY <1>12, FailKeepsIInv, Zenon DEF CertInterrupt
<1> QED
  BY <1>1, <1>2, <1>3, <1>4, <1>5, <1>6, <1>7, <1>8, <1>9, <1>10, <1>11, <1>12, Zenon DEF SessionNext,
     Certificate

\* SessionIInv holds throughout, from device to device.
THEOREM SessionInvariance == SessionSpec => []SessionIInv
  BY SessionInitIInv, SessionStepIInv, PTL DEF SessionSpec

\* Files, exports and session keep to their types (certificate-gen.sh and the
\* globals of the other engines).
THEOREM SessionTypeCorrect == SessionSpec => []SessionTypeOK
<1>1. SessionShape => SessionTypeOK
  BY DEF SessionShape, SessionTypeOK, FilesOK, Exports, Named, Data, NoData
<1> QED
  BY <1>1, SessionInvariance, PTL DEF SessionIInv

\* ChainHolds, for any devices and faults: the CA certificate is the CA key's, and
\* an issued certificate leads from its signature to the CA, whatever failed
\* attempts left in CERT_DIR (certificate-gen.sh:79, :147).
THEOREM ChainsHold == SessionSpec => []ChainHolds
<1>1. KeyInv => ChainHolds
  BY Zenon DEF KeyInv, ChainHolds
<1> QED
  BY <1>1, SessionInvariance, PTL DEF SessionIInv

\* CertificateIsTheDevices, for any devices: what create_certificate_data takes
\* from the exported globals (certificate-gen.sh:204) is of the device certified.
THEOREM CertificatesAreTheDevices == SessionSpec => []CertificateIsTheDevices
  BY SessionInvariance, PTL DEF SessionIInv
=============================================================================
