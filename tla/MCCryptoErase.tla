---------------------------- MODULE MCCryptoErase ---------------------------
(* An NVMe drive, a SATA SSD, an eMMC chip and a USB drive. *)
EXTENDS CryptoErase

CONSTANTS n1, s1, e1, u1

MCDevices == {n1, s1, e1, u1}
MCKind == [d \in MCDevices |-> CASE d = n1 -> "nvme" [] d = s1 -> "ssd"
                                 [] d = e1 -> "emmc" [] d = u1 -> "usb"]
AllFaults == CryptoFaultKinds
=============================================================================
