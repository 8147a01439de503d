--------------------------- MODULE MCConfigRefresh ---------------------------
(***************************************************************************)
(* The instance of ConfigRefresh that TLC checks: one writer and the       *)
(* collector of one service, a file moved to another service and back, a   *)
(* content that the collector refuses.                                     *)
(***************************************************************************)
EXTENDS ConfigRefresh

MCContent == {"here", "user", "bad"}
MCDefines == [c \in MCContent \cup {"none"} |->
                  IF c = "here" THEN [n \in {"b"} |-> "d1"] ELSE [n \in {} |-> "d1"]]
MCUses == [c \in MCContent \cup {"none"} |-> IF c = "user" THEN {"b"} ELSE {}]
MCTags == {{"s1"}, {"s2"}}
=============================================================================
