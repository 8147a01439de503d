------------------------------ MODULE MCOperator ------------------------------
(***************************************************************************)
(* The instance of Operator that TLC checks: an interface that is there,   *)
(* twice, disabled or under another class, a copy that skips a file, a     *)
(* backup that lost or changed its definition; a custom request that is    *)
(* accepted, one that names credentials and a version, and one that is not.*)
(***************************************************************************)
EXTENDS Operator, TLC

Live == [enabled |-> 1, class |-> "odata", skipped |-> FALSE,
         backups |-> 1, version |-> 2, versions |-> {1, 2}]
MCConf == {Live, [Live EXCEPT !.enabled = 0, !.backups = 0, !.versions = {}],
           [Live EXCEPT !.enabled = 2, !.backups = 2, !.class = "jirax"],
           [Live EXCEPT !.skipped = TRUE, !.versions = {2}]}
MCKeys == {[slot |-> "short", custom |-> FALSE], [slot |-> "short", custom |-> TRUE],
           [slot |-> "long", custom |-> FALSE]}
MCCustom == {[acceptable |-> TRUE, credentials |-> FALSE, archive |-> 1],
             [acceptable |-> TRUE, credentials |-> TRUE, archive |-> None]}
=============================================================================
