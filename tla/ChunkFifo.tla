------------------------------ MODULE ChunkFifo ------------------------------
(***************************************************************************)
(* What wimlib's chunk_compressor.h promises its one user: every chunk that *)
(* was handed over comes back once, in the order of submission, with a      *)
(* result that is its own data, compressed or as it was.  Destroying the    *)
(* compressor drops what has not come back.                                 *)
(***************************************************************************)
EXTENDS Naturals, Sequences

VARIABLES pending,   \* the chunks handed over that have not come back
          result     \* the chunk that came back last, until it is used

Init == pending = <<>> /\ result = <<>>

Hand == /\ Len(pending') = Len(pending) + 1
        /\ SubSeq(pending', 1, Len(pending)) = pending
        /\ result' = result
Return == pending # <<>> /\ result' = Head(pending) /\ pending' = Tail(pending)
Use == result' = <<>> /\ pending' = pending
Destroy == pending' = <<>> /\ result' = <<>>

Next == Hand \/ Return \/ Use \/ Destroy
Spec == Init /\ [][Next]_<<pending, result>>
=============================================================================
