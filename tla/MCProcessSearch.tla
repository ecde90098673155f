--------------------------- MODULE MCProcessSearch ---------------------------
(***************************************************************************)
(* Processes, the first of which only reads the drive.                      *)
(***************************************************************************)
EXTENDS ProcessSearch

MCAccess == [p \in Procs |-> IF p = 1 THEN {"r"} ELSE {"r", "w"}]
=============================================================================
