---------------------------- MODULE MCMainDialog ----------------------------
(***************************************************************************)
(* MainDialog with two drives; either may be plugged in or out, in any     *)
(* phase of either of the operations asked for.                            *)
(***************************************************************************)
EXTENDS MainDialog
=============================================================================
