---------------------------- MODULE MCWipeSession ---------------------------
(* Two hard disks and an SSD. *)
EXTENDS WipeSession

CONSTANTS ha, hb, sa

MCDevices == {ha, hb, sa}
MCKind == [d \in MCDevices |-> IF d = sa THEN "ssd" ELSE "hdd"]
AllFaults == CertFaultKinds
NoFaults == {}
=============================================================================
