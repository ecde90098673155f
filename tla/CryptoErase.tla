----------------------------- MODULE CryptoErase ----------------------------
(***************************************************************************)
(* crypto-erase.sh and the device detection of wipe-engine.sh: NVMe Format *)
(* and ATA Secure Erase of drive after drive in one shell, whose exported  *)
(* DETECTED_* variables outlive a call.  The drives, nvme, hdparm, lsblk   *)
(* and udevadm are external.                                               *)
(***************************************************************************)
EXTENDS Naturals

CONSTANTS CryptoDevices,
          CryptoKind,  \* what each device is: see CryptoKinds
          CryptoFaults

CryptoKinds == {"nvme", "emmc", "usb", "ssd", "hdd", "other"}
CryptoFaultKinds == {"lsblk", "udevadm", "read", "setpass", "erase", "disable", "interrupt"}

ASSUME CryptoKindAssumption == CryptoKind \in [CryptoDevices -> CryptoKinds]
ASSUME CryptoFaultsAssumption == CryptoFaults \subseteq CryptoFaultKinds
ASSUME CryptoNoneAssumption == "none" \notin CryptoDevices

VARIABLES crypto_call,  \* the running call: step, device, password_set
          method,    \* exported: DETERMINED_WIPE_METHOD; the device whose plan was confirmed
          detected,  \* exported: DETECTED_DEVICE_TYPE, _IS_NVME, _SUPPORTS_CRYPTO_ERASE
          crypto_result,  \* how the last call on each device ended
          security,  \* ATA security of each drive: "off", or who set the password
          erased,    \* devices whose keys or data are destroyed
          stuck      \* drives the script could not take its password off again

crypto_vars == <<crypto_call, method, detected, crypto_result, security, erased, stuck>>

CryptoIdle  == [pc |-> "idle", device |-> "none", password_set |-> FALSE]
Unset == [TYPE |-> "unset", IS_NVME |-> "unset", CRYPTO |-> FALSE]
NoMethod == [is |-> "unknown", planned |-> "none"]
AtaDrives == {d \in CryptoDevices : CryptoKind[d] \in {"ssd", "hdd"}}

\* A fresh shell; a drive may come with a password of its owner.
CryptoInit == /\ crypto_call = CryptoIdle /\ detected = Unset /\ method = NoMethod
              /\ crypto_result = [d \in CryptoDevices |-> "none"]
              /\ security \in {f \in [CryptoDevices -> {"off", "owner"}] :
                                 \A d \in CryptoDevices \ AtaDrives : f[d] = "off"}
              /\ erased = {} /\ stuck = {}

crypto_device == crypto_call.device
CryptoGoto(step) == crypto_call' = [crypto_call EXCEPT !.pc = step]
CryptoReturn(how) == crypto_call' = CryptoIdle /\ crypto_result' = [crypto_result EXCEPT ![crypto_device] = how]

\* The type found for a device: by its name, by udevadm for /dev/sd*, by the
\* rotation rate, which counts as 1 when lsblk fails.
TypesFound(d) ==
    LET rotation(k) == {k} \cup (IF "lsblk" \in CryptoFaults THEN {"hdd"} ELSE {})
    IN CASE CryptoKind[d] \in {"ssd", "hdd"} -> rotation(CryptoKind[d])
         [] CryptoKind[d] = "usb" -> {"usb"} \cup (IF "udevadm" \in CryptoFaults
                                                   THEN rotation("ssd") \cup rotation("hdd") ELSE {})
         [] CryptoKind[d] = "other" -> {"unknown"}
         [] OTHER -> {CryptoKind[d]}

\* Mutant: a type that is already known is not looked up again.
detect_device_type_once(d) ==
    IF detected.TYPE # "unset" THEN UNCHANGED detected ELSE
    \E t \in TypesFound(d), tool \in BOOLEAN :
      detected' = [TYPE |-> t, IS_NVME |-> IF t = "nvme" THEN "true" ELSE "false",
                   CRYPTO |-> t \in {"nvme", "ssd"} /\ tool]

\* Mutant: the erase is taken as supported by every device hdparm answers for.
detect_device_type_any(d) ==
    \E t \in TypesFound(d), tool \in BOOLEAN :
      detected' = [TYPE |-> t, IS_NVME |-> IF t = "nvme" THEN "true" ELSE "false",
                   CRYPTO |-> tool]

\* tool: the nvme command is there, or hdparm says the feature is supported.
detect_device_type(d) ==
    \E t \in TypesFound(d), tool \in BOOLEAN :
      detected' = [TYPE |-> t, IS_NVME |-> IF t = "nvme" THEN "true" ELSE "false",
                   CRYPTO |-> t \in {"nvme", "ssd"} /\ tool]

\* execute_hybrid_wipe_engine "$device": detect, determine_wipe_method, show
\* the plan; on WIPE NOW it only prints what it would do.
CryptoPlan(d, confirmed) ==
    /\ crypto_call.pc = "idle"
    /\ detect_device_type(d)
    /\ method' = [is |-> IF ~ detected'.CRYPTO THEN "overwrite"
                         ELSE IF detected'.IS_NVME = "true" \/ detected'.TYPE = "ssd"
                              THEN "crypto" ELSE "hybrid",
                  planned |-> IF confirmed THEN d ELSE "none"]
    /\ UNCHANGED <<crypto_call, crypto_result, security, erased, stuck>>

\* execute_ssd_cryptographic_erase "$device", which detects the type itself
\* only if nothing was detected yet in this shell.
CryptoCall(d) ==
    /\ crypto_call.pc = "idle"
    /\ IF detected.IS_NVME = "unset" THEN detect_device_type(d) ELSE UNCHANGED detected
    /\ crypto_call' = [pc |-> "choose", device |-> d, password_set |-> FALSE]
    /\ UNCHANGED <<method, crypto_result, security, erased, stuck>>

Choose ==
    /\ crypto_call.pc = "choose"
    /\ IF detected.IS_NVME = "true" THEN CryptoGoto("nvme") /\ UNCHANGED crypto_result
       ELSE IF detected.TYPE = "ssd" THEN CryptoGoto("ata") /\ UNCHANGED crypto_result
       ELSE CryptoReturn("not an SSD")
    /\ UNCHANGED <<method, detected, security, erased, stuck>>

\* execute_nvme_format up to the confirmation: id-ctrl and id-ns answer for an
\* NVMe device only.
NvmeInfo ==
    /\ crypto_call.pc = "nvme"
    /\ \/ CryptoKind[crypto_device] = "nvme" /\ CryptoGoto("nvme_format") /\ UNCHANGED crypto_result
       \/ /\ CryptoKind[crypto_device] # "nvme" \/ "read" \in CryptoFaults
          /\ CryptoReturn("failed")
    /\ UNCHANGED <<method, detected, security, erased, stuck>>

\* The operator does not type DESTROY KEYS, or SECURE ERASE.
Cancel == /\ crypto_call.pc \in {"nvme_format", "set_password"} /\ CryptoReturn("failed")
          /\ UNCHANGED <<method, detected, security, erased, stuck>>

\* Mutant: the status of nvme format is not looked at.
NvmeFormatAnyStatus ==
    /\ crypto_call.pc = "nvme_format"
    /\ erased' \in {erased, erased \cup {crypto_device}} /\ CryptoReturn("success")
    /\ UNCHANGED <<method, detected, security, stuck>>

\* nvme format -s 0, which the script takes for a cryptographic erase.
NvmeFormat ==
    /\ crypto_call.pc = "nvme_format"
    /\ \/ erased' = erased \cup {crypto_device} /\ CryptoReturn("success")
       \/ "erase" \in CryptoFaults /\ CryptoReturn("failed") /\ UNCHANGED erased
    /\ UNCHANGED <<method, detected, security, stuck>>

\* execute_ata_secure_erase up to the confirmation: hdparm -I answers for an
\* ATA drive, and the security feature may be missing.
AtaInfo ==
    /\ crypto_call.pc = "ata"
    /\ \/ crypto_device \in AtaDrives /\ CryptoGoto("set_password") /\ UNCHANGED crypto_result
       \/ /\ crypto_device \notin AtaDrives \/ "read" \in CryptoFaults
          /\ CryptoReturn("failed")
    /\ UNCHANGED <<method, detected, security, erased, stuck>>

\* Mutant: the password is set without a look at whether there is one.
AtaSetPasswordAlways ==
    /\ crypto_call.pc = "set_password"
    /\ security' = [security EXCEPT ![crypto_device] = "temporary"]
    /\ crypto_call' = [crypto_call EXCEPT !.pc = "ata_erase", !.password_set = TRUE]
    /\ UNCHANGED <<method, detected, crypto_result, erased, stuck>>

\* The temporary password, set on a drive that has none.
AtaSetPassword ==
    /\ crypto_call.pc = "set_password"
    /\ \/ /\ security[crypto_device] = "off"
          /\ security' = [security EXCEPT ![crypto_device] = "temporary"]
          /\ crypto_call' = [crypto_call EXCEPT !.pc = "ata_erase", !.password_set = TRUE] /\ UNCHANGED crypto_result
       \/ /\ security[crypto_device] = "off" /\ "setpass" \in CryptoFaults
          /\ CryptoReturn("failed") /\ UNCHANGED security
       \/ /\ security[crypto_device] # "off"
          /\ CryptoGoto("ata_erase") /\ UNCHANGED <<crypto_result, security>>
    /\ UNCHANGED <<method, detected, erased, stuck>>

\* --security-erase with the password just set, or with the empty one, which
\* a drive with a password of its owner may take or not; a drive that erases
\* itself drops its password.
AtaErase ==
    /\ crypto_call.pc = "ata_erase"
    /\ erased' = erased \cup {crypto_device} /\ security' = [security EXCEPT ![crypto_device] = "off"]
    /\ CryptoReturn("success")
    /\ UNCHANGED <<method, detected, stuck>>

\* Mutant: the password set for the erase is left on the drive.
AtaEraseFailsKeepsPassword ==
    /\ crypto_call.pc = "ata_erase"
    /\ ~ crypto_call.password_set \/ "erase" \in CryptoFaults
    /\ CryptoReturn("failed") /\ UNCHANGED <<method, detected, security, erased, stuck>>

\* The erase fails: --security-disable, whose failure is ignored.
AtaEraseFails ==
    /\ crypto_call.pc = "ata_erase"
    /\ ~ crypto_call.password_set \/ "erase" \in CryptoFaults
    /\ \/ /\ crypto_call.password_set /\ security' = [security EXCEPT ![crypto_device] = "off"]
          /\ UNCHANGED stuck
       \/ /\ crypto_call.password_set /\ "disable" \in CryptoFaults
          /\ stuck' = stuck \cup {crypto_device} /\ UNCHANGED security
       \/ ~ crypto_call.password_set /\ UNCHANGED <<security, stuck>>
    /\ CryptoReturn("failed")
    /\ UNCHANGED <<method, detected, erased>>

\* Ctrl-C or a power cut: no trap cleans up, and the next shell starts afresh.
CryptoInterrupt ==
    /\ "interrupt" \in CryptoFaults /\ crypto_call.pc # "idle"
    /\ stuck' = IF crypto_call.password_set THEN stuck \cup {crypto_device} ELSE stuck
    /\ detected' = Unset /\ method' = NoMethod /\ CryptoReturn("failed")
    /\ UNCHANGED <<security, erased>>

CryptoNext == \/ \E d \in CryptoDevices : CryptoCall(d) \/ \E confirmed \in BOOLEAN : CryptoPlan(d, confirmed)
              \/ Choose \/ Cancel \/ CryptoInterrupt
              \/ NvmeInfo \/ NvmeFormat
              \/ AtaInfo \/ AtaSetPassword \/ AtaErase \/ AtaEraseFails

CryptoSpec == CryptoInit /\ [][CryptoNext]_crypto_vars

-----------------------------------------------------------------------------
\* Steps, globals and drives keep to their types; determine_wipe_method never
\* gets to its hybrid method.
CryptoTypeOK ==
    /\ crypto_call.pc \in {"idle", "choose", "nvme", "nvme_format", "ata", "set_password", "ata_erase"}
    /\ crypto_call.device \in CryptoDevices \cup {"none"} /\ crypto_call.password_set \in BOOLEAN
    /\ method \in [is : {"unknown", "crypto", "overwrite"}, planned : CryptoDevices \cup {"none"}]
    /\ detected \in [TYPE : CryptoKinds \cup {"unknown", "unset"}, IS_NVME : {"true", "false", "unset"},
                     CRYPTO : BOOLEAN]
    /\ crypto_result \in [CryptoDevices -> {"none", "success", "failed", "not an SSD"}]
    /\ security \in [CryptoDevices -> {"off", "owner", "temporary"}]
    /\ erased \subseteq CryptoDevices /\ stuck \subseteq CryptoDevices

\* execute_ata_secure_erase leaves its temporary password on a drive only if
\* it was interrupted or --security-disable failed after the erase had; and
\* the password of a drive's owner is never replaced or lost without an erase.
PasswordsHandled ==
    /\ [](\A d \in CryptoDevices : security[d] = "temporary" => d = crypto_device \/ d \in stuck)
    /\ [][\A d \in CryptoDevices : security[d] = "owner" /\ security'[d] # "owner" => d \in erased']_crypto_vars

\* The erase engine as an implementation of the contract
CryptoEngine == INSTANCE EraseContract
    WITH Devices <- CryptoDevices, clean <- erased,
         verdict <- [d \in CryptoDevices |-> IF crypto_result[d] = "not an SSD" THEN "failed" ELSE crypto_result[d]]

\* What is reported of a device is true.  Success is reported only for a device
\* that was erased, and only once it was.  "Device is not an SSD - cryptographic
\* erase not applicable" (line 308) is said of no NVMe drive or SSD whose plan
\* was confirmed, except of an SSD that lsblk took for a rotating disk: the
\* detection results that are exported and reused are then those of this device.
VerdictIsTrue ==
    /\ CryptoEngine!Contract
    /\ [][/\ crypto_call.pc = "choose" /\ method.planned = crypto_device
          /\ crypto_call' = CryptoIdle /\ crypto_result'[crypto_device] = "not an SSD"
          => CryptoKind[crypto_device] \notin {"nvme", "ssd"} \/ detected.TYPE = "hdd"]_crypto_vars
=============================================================================
