--------------------------- MODULE CertificateGen ---------------------------
(***************************************************************************)
(* certificate-gen.sh: the files a certificate of destruction is made of,  *)
(* all of them at fixed names in CERT_DIR and reused or overwritten by the *)
(* next certificate.  A file is what it holds; a key is its number, 0 an   *)
(* empty file openssl left behind, -1 no file.  openssl, jq and            *)
(* wkhtmltopdf are external.                                               *)
(***************************************************************************)
EXTENDS Integers

CONSTANTS CertDevices,
          KEYS,     \* bound: keys that can be told apart at one time
          CertFaults

CertFaultKinds == {"openssl", "jq", "pdf", "interrupt"}

ASSUME KeysAssumption == KEYS \in Nat /\ KEYS >= 7
ASSUME CertFaultsAssumption == CertFaults \subseteq CertFaultKinds
ASSUME CertNoneAssumption == "none" \notin CertDevices

VARIABLES cert_call,  \* the running call: its step and device
          exports,  \* the devices DEVICE_SIZE_GB, DETECTED_DEVICE_TYPE and
                    \* HPA_DETECTED are about
          files,    \* the contents of CERT_DIR
          issued    \* the device the last complete certificate was issued for

cvars == <<cert_call, exports, files, issued>>

CertIdle  == [pc |-> "idle", device |-> "none"]
Missing == -1
NoData  == [device |-> "none"]     \* no file, or an empty one

CInit == /\ cert_call = CertIdle /\ issued = "none"
         /\ exports = [SIZE |-> "none", TYPE |-> "none", HPA |-> "none"]
         /\ files = [ca_key |-> Missing, ca_crt |-> Missing, key |-> Missing,
                     crt |-> [key |-> Missing, ca |-> Missing], data |-> NoData,
                     sig |-> [key |-> Missing, over |-> NoData], html |-> "none", pdf |-> "none"]

CertGoto(step) == cert_call' = [cert_call EXCEPT !.pc = step]
Fail == cert_call' = CertIdle /\ UNCHANGED issued
Fresh == CHOOSE k \in 1 .. KEYS : k \notin {files.ca_key, files.ca_crt, files.key, files.crt.key,
                                            files.crt.ca, files.sig.key}

\* openssl genrsa -out fails: the file is untouched, or empty.
GenrsaFails(file) ==
    "openssl" \in CertFaults /\ Fail /\ files' \in {files, [files EXCEPT ![file] = 0]}

\* generate_tamper_proof_certificate "$device" ...
GenerateCertificate(d) ==
    /\ cert_call.pc = "idle" /\ cert_call' = [pc |-> "ca_key", device |-> d]
    /\ issued' = "none" /\ UNCHANGED <<exports, files>>

\* Mutant: a new CA key for every certificate.
CaKeyAlways ==
    /\ cert_call.pc = "ca_key"
    /\ CertGoto("ca_crt") /\ files' = [files EXCEPT !.ca_key = Fresh]
    /\ UNCHANGED <<exports, issued>>

\* initialize_certificate_authority makes what is not there yet.
CaKey ==
    /\ cert_call.pc = "ca_key"
    /\ \/ files.ca_key # Missing /\ CertGoto("ca_crt") /\ UNCHANGED <<files, issued>>
       \/ /\ files.ca_key = Missing /\ CertGoto("ca_crt") /\ UNCHANGED issued
          /\ files' = [files EXCEPT !.ca_key = Fresh]
       \/ files.ca_key = Missing /\ GenrsaFails("ca_key")
    /\ UNCHANGED exports

\* Mutant: the status of openssl req is not tested.
CaCrtAnyKey ==
    /\ cert_call.pc = "ca_crt" /\ CertGoto("key")
    /\ files' = [files EXCEPT !.ca_crt = IF @ = Missing THEN files.ca_key ELSE @]
    /\ UNCHANGED <<exports, issued>>

CaCrt ==
    /\ cert_call.pc = "ca_crt"
    /\ \/ files.ca_crt # Missing /\ CertGoto("key") /\ UNCHANGED <<files, issued>>
       \/ /\ files.ca_crt = Missing /\ files.ca_key # 0 /\ CertGoto("key") /\ UNCHANGED issued
          /\ files' = [files EXCEPT !.ca_crt = files.ca_key]
       \/ /\ files.ca_crt = Missing /\ (files.ca_key = 0 \/ "openssl" \in CertFaults)
          /\ Fail /\ UNCHANGED files
    /\ UNCHANGED exports

\* generate_device_certificate: a key for every certificate ...
DeviceKey ==
    /\ cert_call.pc = "key"
    /\ \/ files' = [files EXCEPT !.key = Fresh] /\ CertGoto("crt") /\ UNCHANGED issued
       \/ GenrsaFails("key")
    /\ UNCHANGED exports

\* Mutant: a device certificate that exists is kept.
DeviceCrtOnce ==
    /\ cert_call.pc = "crt" /\ CertGoto("data")
    /\ files' = IF files.crt.key # Missing THEN files
                ELSE [files EXCEPT !.crt = [key |-> files.key, ca |-> files.ca_key]]
    /\ UNCHANGED <<exports, issued>>

\* ... and its request, signed by the CA: openssl refuses a CA certificate
\* that is not the CA key's.
DeviceCrt ==
    /\ cert_call.pc = "crt"
    /\ \/ /\ files.ca_crt = files.ca_key /\ CertGoto("data") /\ UNCHANGED issued
          /\ files' = [files EXCEPT !.crt = [key |-> files.key, ca |-> files.ca_key]]
       \/ /\ files.ca_crt # files.ca_key \/ "openssl" \in CertFaults
          /\ Fail /\ UNCHANGED files
    /\ UNCHANGED exports

create_certificate_data ==
    /\ cert_call.pc = "data" /\ CertGoto("sign")
    /\ files' = [files EXCEPT !.data = [device |-> cert_call.device, from |-> exports, signed |-> FALSE]]
    /\ UNCHANGED <<exports, issued>>

\* generate_cryptographic_signature signs the data ...
Sign ==
    /\ cert_call.pc = "sign"
    /\ \/ /\ files' = [files EXCEPT !.sig = [key |-> files.key, over |-> files.data]]
          /\ CertGoto("embed") /\ UNCHANGED issued
       \/ "openssl" \in CertFaults /\ Fail /\ UNCHANGED files
    /\ UNCHANGED exports

\* ... and has jq put the signature into it; what jq printed replaces the data
\* also if that is nothing.
Embed ==
    /\ cert_call.pc = "embed" /\ CertGoto("document")
    /\ \/ files' = [files EXCEPT !.data.signed = TRUE]
       \/ "jq" \in CertFaults /\ files' = [files EXCEPT !.data = NoData]
    /\ UNCHANGED <<exports, issued>>

\* create_pdf_certificate: the page, then the PDF or a copy of the page.
create_pdf_certificate ==
    /\ cert_call.pc = "document"
    /\ \/ files' = [files EXCEPT !.html = files.data.device, !.pdf = files.data.device]
       \/ "pdf" \in CertFaults /\ files' = [files EXCEPT !.html = files.data.device]
    /\ cert_call' = CertIdle /\ issued' = cert_call.device
    /\ UNCHANGED exports

\* Ctrl-C: CERT_DIR stays as it is; the next shell has nothing exported.
CertInterrupt ==
    /\ "interrupt" \in CertFaults /\ cert_call.pc # "idle" /\ Fail
    /\ exports' = [SIZE |-> "none", TYPE |-> "none", HPA |-> "none"]
    /\ UNCHANGED files

Certificate == \/ CaKey \/ CaCrt \/ DeviceKey \/ DeviceCrt \/ create_certificate_data
               \/ Sign \/ Embed \/ create_pdf_certificate \/ CertInterrupt

-----------------------------------------------------------------------------
\* The files hold what they are meant to hold.
FilesOK ==
    /\ {files.ca_key, files.key, files.sig.key} \subseteq Missing .. KEYS
    /\ {files.ca_crt, files.crt.key, files.crt.ca} \subseteq (Missing .. KEYS) \ {0}
    /\ files.data.device \in CertDevices \cup {"none"}
    /\ {files.html, files.pdf} \subseteq CertDevices \cup {"none"}
    /\ cert_call.device \in CertDevices \cup {"none"} /\ issued \in CertDevices \cup {"none"}

\* Whatever is reused or replaced, the CA certificate in CERT_DIR is that of the
\* CA key beside it, and a certificate that was issued can be followed up: its
\* signature was made with the key the device certificate is for, and that was
\* signed by the CA.
ChainHolds ==
    /\ files.ca_crt # Missing => files.ca_crt = files.ca_key
    /\ issued # "none" => files.sig.key = files.crt.key /\ files.crt.ca = files.ca_crt

\* "Any modification will invalidate the signature" (line 373): the signature
\* is one of the data that is delivered with it.
SignatureIsOfTheData == issued # "none" => files.sig.over = files.data
=============================================================================
