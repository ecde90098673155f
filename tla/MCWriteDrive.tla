---------------------------- MODULE MCWriteDrive ----------------------------
(* Five sectors of two bytes in blocks of two sectors; images that end in a  *)
(* sector or not, that have shrunk or grown since they were scanned, and     *)
(* that are larger than the drive.  The check tests blocks of one sector,    *)
(* two at once, on drives that are sound, have one to three bad blocks, or   *)
(* wrap after two or three.                                                  *)
EXTENDS WriteDrive

Job(m, i, f, c) == [mode |-> m, image |-> i, file |-> f, check |-> c]
MCJobs == {Job("zero", 0, 0, FALSE), Job("fast", 0, 0, FALSE),
           Job("image", 7, 7, FALSE), Job("image", 8, 5, FALSE), Job("image", 6, 12, FALSE),
           Job("image", 12, 12, FALSE), Job("vhd", 4, 8, FALSE), Job("vhd", 4, 12, FALSE),
           Job("compressed", 0, 7, FALSE), Job("compressed", 0, 12, FALSE),
           Job("image", 9, 9, TRUE)}
MCPatterns == {<<1, 1>>, <<1, 3>>}
MCContents == {OLD, ZERO, FF}

BadAt(f) == [kind |-> [b \in Blocks |-> IF b \in DOMAIN f THEN f[b] ELSE "good"], size |-> last_block]
MCMedia == {Sound, BadAt([b \in {2, 3} |-> IF b = 2 THEN "rot" ELSE "rd"]), BadAt([b \in 0 .. 2 |-> "wr"])}
           \cup {BadAt([x \in {b} |-> k]) : b \in {1, 4}, k \in Kinds \ {"good"}}
           \cup {[Sound EXCEPT !.size = n] : n \in 2 .. 3}
=============================================================================
