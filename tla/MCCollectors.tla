----------------------------- MODULE MCCollectors -----------------------------
(***************************************************************************)
(* Collectors in one instance.  Sizes: two files in a chain of three       *)
(* directories, two buckets of two keys, pages of up to three products,    *)
(* two items that an API gives in pages of one; a clock of three or four   *)
(* dates, one or two faults.                                               *)
(***************************************************************************)
EXTENDS Collectors, TLC

CONSTANTS
    f1, f2, d1, d2, d3

MCParent == [d \in Directory |-> CASE d = d1 -> None [] d = d2 -> d1 [] d = d3 -> d2]
MCBad == {{f1}}
MCBroken == {{}, {<<1, 2>>}, {<<2, 1>>}}

Catalogue(patterns, handlers, members, raising) ==
    [patterns |-> patterns, handlers |-> handlers, members |-> members, bad |-> raising]
OneEach == [p \in Product |-> <<"c">>]
Both == [OneEach EXCEPT !["p"] = <<"c", "d">>]
Plain == [p \in Product |-> [c |-> {p}, d |-> {p}]]
Archives ==
    [Plain EXCEPT !["p"] = [c |-> {"x", "y"}, d |-> {"z"}], !["q"] = [c |-> {"x"}, d |-> {}]]
MCPage ==
    {Catalogue(<<<<"p", "q">>>>, h, m, b) :
        h \in {OneEach, Both}, m \in {Plain, Archives}, b \in {{}, {"q"}, {"y"}}}
    \cup {Catalogue(<<<<"p">>, <<"p", "q">>>>, OneEach, Plain, {}),
          Catalogue(<<<<"p", "q", "r">>>>, OneEach, Plain, {}),
          Catalogue(<<<<"p">>>>, Both, Archives, {})}

\* What a collector does not use starts in one way.
MCInit ==
    /\ CollectorsInit
    /\ collector # "listing" => kind = "ftp" /\ dir = [f \in File |-> d1]
    /\ collector # "s3" => broken = {}
    /\ collector # "catalogue" => page = Catalogue(<<<<"p", "q">>>>, OneEach, Plain, {})
    /\ collector # "query" => api = "jira"

MCSpec == MCInit /\ [][CollectorsNext]_all /\ Fairness
=============================================================================
