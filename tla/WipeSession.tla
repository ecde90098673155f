---------------------------- MODULE WipeSession -----------------------------
(***************************************************************************)
(* One shell wiping device after device with the engines of                *)
(* /usr/lib/securewipe, in the order of their steps: plan, wipe, verify,   *)
(* certificate.  The engines are abstracted to the variables they export,  *)
(* which the certificate is filled from.                                   *)
(***************************************************************************)
EXTENDS CertificateGen

CONSTANT SessionKind  \* "hdd", "ssd" or "external": the engine of each device

ASSUME SessionKindAssumption == SessionKind \in [CertDevices -> {"hdd", "ssd", "external"}]

VARIABLE session   \* the device being worked on and the next step for it

session_vars == <<cert_call, exports, files, issued, session>>

NoSession == [device |-> "none", step |-> "plan"]

SessionInit == CInit /\ session = NoSession

\* execute_hybrid_wipe_engine detects the type of the device.
SessionPlan(d) ==
    /\ session.step = "plan"
    /\ session' = [device |-> d, step |-> "wipe"]
    /\ exports' = [exports EXCEPT !.TYPE = d]
    /\ UNCHANGED <<cert_call, files, issued>>

\* The HDD engine exports size and HPA on its way to the overwrite.
WipeHdd ==
    /\ session.step = "wipe" /\ SessionKind[session.device] = "hdd"
    /\ exports' = [exports EXCEPT !.SIZE = session.device, !.HPA = session.device]
    /\ session' = [session EXCEPT !.step = "verify"]
    /\ UNCHANGED <<cert_call, files, issued>>

\* It may fail before it has exported either; then the device is given up.
WipeHddFails ==
    /\ session.step = "wipe" /\ SessionKind[session.device] = "hdd"
    /\ exports' \in {exports, [exports EXCEPT !.SIZE = session.device],
                     [exports EXCEPT !.SIZE = session.device, !.HPA = session.device]}
    /\ session' = NoSession
    /\ UNCHANGED <<cert_call, files, issued>>

\* The SSD and the external engine export neither.
WipeOther ==
    /\ session.step = "wipe" /\ SessionKind[session.device] # "hdd"
    /\ session' \in {[session EXCEPT !.step = "verify"], NoSession}
    /\ UNCHANGED <<cert_call, exports, files, issued>>

\* Mutant: the verification takes the size that is already exported.
VerifyKnownSize ==
    /\ session.step = "verify"
    /\ exports' = IF exports.SIZE = "none" THEN [exports EXCEPT !.SIZE = session.device] ELSE exports
    /\ session' = [session EXCEPT !.step = "certify"]
    /\ UNCHANGED <<cert_call, files, issued>>

\* execute_comprehensive_verification starts with get_device_geometry.
Verify ==
    /\ session.step = "verify"
    /\ \/ /\ exports' = [exports EXCEPT !.SIZE = session.device]
          /\ session' = [session EXCEPT !.step = "certify"]
       \/ session' = NoSession /\ UNCHANGED exports
    /\ UNCHANGED <<cert_call, files, issued>>

Certify == /\ session.step = "certify" /\ GenerateCertificate(session.device)
           /\ session' = NoSession

SessionNext == \/ cert_call.pc = "idle" /\ \/ \E d \in CertDevices : SessionPlan(d)
                                           \/ WipeHdd \/ WipeHddFails \/ WipeOther \/ Verify \/ Certify
               \/ Certificate /\ UNCHANGED session

SessionSpec == SessionInit /\ [][SessionNext]_session_vars

-----------------------------------------------------------------------------
\* Files, exports and session keep to their types.
SessionTypeOK == /\ FilesOK
                 /\ \A v \in {"SIZE", "TYPE", "HPA"} : exports[v] \in CertDevices \cup {"none"}
                 /\ session.device \in CertDevices \cup {"none"}
                 /\ session.step \in {"plan", "wipe", "verify", "certify"}

\* A certificate that was issued is about one device: its data, signature and
\* page, whatever earlier calls left in CERT_DIR, and the exported size, type
\* and HPA the data was filled from, which the plan, wipe and verification of
\* each device overwrite.  When jq failed there is no data and the page is
\* blank; a device that is no hard disk may show the HPA of one wiped before.
CertificateIsTheDevices ==
    issued # "none" =>
        /\ files.sig.over.device = issued
        /\ files.data.device = files.html /\ files.html \in {issued, "none"}
        /\ files.data # NoData =>
              /\ files.data.from.SIZE = issued /\ files.data.from.TYPE = issued
              /\ SessionKind[issued] = "hdd" => files.data.from.HPA = issued
=============================================================================
