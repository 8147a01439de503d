------------------------------ MODULE MCCollect ------------------------------
(***************************************************************************)
(* The instance of Collect that TLC checks: the products are given in the  *)
(* order of their dates, up to two of them with the same one.              *)
(***************************************************************************)
EXTENDS Collect

MCInit ==
    /\ Init
    /\ \A p, q \in Product : p < q => date[p] <= date[q]
    /\ \A p \in Product : date[p] <= 3

MCSpec == MCInit /\ [][Next]_vars /\ Fairness
=============================================================================
