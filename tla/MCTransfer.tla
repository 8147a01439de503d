------------------------------ MODULE MCTransfer ------------------------------
(***************************************************************************)
(* The instance of Transfer that TLC checks: three documents of one        *)
(* product, whose bytes changed between the first and the two others, of   *)
(* which the last does not give its checksum.                              *)
(***************************************************************************)
EXTENDS Transfer

MCDocument == {"old", "new", "unannounced"}
MCProductOf == [d \in MCDocument |-> "p"]
MCBytesOf == [d \in MCDocument |-> IF d = "old" THEN "v1" ELSE "v2"]
MCBatch == {{"new"}, {"old", "unannounced"}}

\* What the archive holds at first: of destinations in the same state, either may be d1.
MCInit == Init /\ \A n \in Product : objects[n]["d2"] # Nothing => objects[n]["d1"] # Nothing
MCSpec == MCInit /\ [][Next]_vars

\* The stages are replicas; the properties checked under this symmetry are safety ones.
Replicas == Permutations(Stage)
=============================================================================
