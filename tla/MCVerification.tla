--------------------------- MODULE MCVerification ---------------------------
(* Devices of 2 * VERIFY_MARGIN sectors, of fewer and of more, holding one *)
(* kind of data or two.  The samples of the largest read sectors 5 and 6,  *)
(* which differ in Spotted.  A basic verification takes just enough        *)
(* samples for one failure to be below 2%, and two to be above.            *)
EXTENDS Verification

CONSTANTS da, db, dc

MCDevices == {da, db, dc}
MCSize == [d \in MCDevices |-> CASE d = da -> 12 [] d = db -> 10 [] d = dc -> 3]

All(n, kind) == [s \in 0 .. n - 1 |-> kind]
Spotted == [All(12, "p55") EXCEPT ![6] = "old"]
MCContents == {All(12, "zero"), All(12, "rand"), All(12, "oldfs"), Spotted,
               All(10, "old"), All(3, "p55")}

MCSamples == [l \in Levels |-> IF l = "basic" THEN 51 ELSE 2]
MCOne == [l \in Levels |-> 1]
AllFaults == VerifyFaultKinds
=============================================================================
