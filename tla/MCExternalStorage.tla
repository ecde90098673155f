------------------------- MODULE MCExternalStorage --------------------------
(* A flash drive of three sectors, and a disk of 2 * EXT_MARGIN sectors. *)
EXTENDS ExternalStorage

CONSTANTS da, db

MCDevices == {da, db}
MCKind == [d \in MCDevices |-> IF d = da THEN "USB_FLASH" ELSE "USB_HDD"]
MCSize == [d \in MCDevices |-> IF d = da THEN 3 ELSE 2]
MCContent == [d \in MCDevices |-> IF d = da THEN "oldz" ELSE "old"]
AllFaults == ExtFaultKinds
Removal == {"unplug"}
=============================================================================
