---------------------------- MODULE MCConfigStore ----------------------------
(***************************************************************************)
(* The instance of ConfigStore that TLC checks: one backup, `b', that two  *)
(* contents define with different destinations and a third one uses; two   *)
(* services that a file is moved between.                                  *)
(***************************************************************************)
EXTENDS ConfigStore, TLC

CONSTANTS w1, w2

MCContent == {"here", "there", "user"}
MCDefines == [c \in MCContent \cup {"none"} |->
                  CASE c = "here" -> [n \in {"b"} |-> "d1"]
                    [] c = "there" -> [n \in {"b"} |-> "d2"]
                    [] OTHER -> [n \in {} |-> "d1"]]
MCUses == [c \in MCContent \cup {"none"} |-> IF c = "user" THEN {"b"} ELSE {}]
MCTags == {{"s1"}, {"s2"}}
Writers == Permutations({w1, w2})
=============================================================================
