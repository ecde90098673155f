--------------------------- MODULE MCHddOverwrite ---------------------------
(* Two drives of four sectors, any of which may be hidden by an HPA. *)
EXTENDS HddOverwrite

CONSTANTS da, db

MCDrives == {da, db}
AllFaults == HddFaultKinds
=============================================================================
