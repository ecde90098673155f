--------------------------- MODULE EraseContract ----------------------------
(***************************************************************************)
(* What an erase engine promises: it may touch a device at any time during *)
(* a call and may give up, but it reports success only for a device none   *)
(* of whose data is left, and what is gone does not come back.             *)
(***************************************************************************)
CONSTANT Devices

VARIABLES clean,    \* devices with no old data left
          verdict   \* what the last call on each device returned

cvars == <<clean, verdict>>

CInit == /\ clean \subseteq Devices
         /\ verdict = [d \in Devices |-> "none"]

\* Old data of a device is destroyed, a call on it returns, or both.
Step(d) == /\ clean' \in {clean, clean \cup {d}}
           /\ \/ UNCHANGED verdict
              \/ verdict' = [verdict EXCEPT ![d] = "failed"]
              \/ d \in clean' /\ verdict' = [verdict EXCEPT ![d] = "success"]

CNext == \E d \in Devices : Step(d)

Contract == CInit /\ [][CNext]_cvars
=============================================================================
