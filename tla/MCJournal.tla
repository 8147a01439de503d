------------------------------ MODULE MCJournal ------------------------------
(***************************************************************************)
(* The instance of Journal that TLC checks.  Slow pages only add behaviours *)
(* and creation only matters to a first run, so of the eight modes the     *)
(* three that subsume them for each property are explored.                 *)
(***************************************************************************)
EXTENDS Journal

MCInit ==
    /\ Init
    /\ \/ mode = [replay |-> FALSE, existed |-> TRUE, slow |-> TRUE]
       \/ mode = [replay |-> TRUE, existed |-> TRUE, slow |-> TRUE]
       \/ mode = [replay |-> FALSE, existed |-> FALSE, slow |-> FALSE]

MCSpec == MCInit /\ [][Next]_vars /\ Fairness
=============================================================================
