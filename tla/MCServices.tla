----------------------------- MODULE MCServices -----------------------------
(***************************************************************************)
(* Services in one instance.  Sizes: two files, one with a sidecar, for    *)
(* two destinations; two interfaces, one of them HTTP, two retries, two    *)
(* threads; two configurations with a shared, an own and a backup entry;   *)
(* tokens of three and five ticks with answers up to two ticks late; two   *)
(* paths and the manifest's; one fault, two errors of a backup.            *)
(***************************************************************************)
EXTENDS Services, TLC

MCUses == <<[shared |-> "common", own |-> "first", backup |-> NoEntry],
            [shared |-> "common", own |-> NoEntry, backup |-> "store"]>>
MCContents ==
    [common |-> {"user" :> 1, "user" :> 2},
     first |-> {"user" :> 3, Absent},
     store |-> {"key" :> 1, "user" :> 1}]
FirstSource == [common |-> "user" :> 1, first |-> "user" :> 3, store |-> "key" :> 1]

\* What a service does not use starts in one way.
MCInit ==
    /\ ServicesInit
    /\ service # "backup" => gzip = FALSE
    /\ service # "credentials" => provider = "file" /\ source = FirstSource

MCSpec == MCInit /\ [][ServicesNext]_all /\ Fairness
=============================================================================
