-------------------------------- MODULE Mirrors --------------------------------
(***************************************************************************)
(* What the archive is promised to be for those who ask for products and   *)
(* read its reports (docs of rawdata/transfer): a wish is open until it is *)
(* answered, lost or served with another one; and what the reports say is  *)
(* archived of a product only changes when a wish is answered, to the same *)
(* bytes in more destinations, to other bytes in all of them if the wish   *)
(* allows it, or to nothing.                                               *)
(***************************************************************************)
CONSTANTS
    Product,      \* product names
    Bytes,        \* contents of files
    Destination,  \* where a product is to be
    Origin,       \* who asks
    Choice        \* what they want of a product that is archived already

VARIABLES
    open,      \* <<origin, choice, product>>: wishes to be served
    answered,  \* <<origin, product>>: those that have ended
    lost,      \* origins that lost a wish, or its reports, to an error or a crash
    archived,  \* of each product, <<destination, bytes>> by its reports
    unknown    \* products whose reports may not tell what the destinations hold

vars == <<open, answered, lost, archived, unknown>>

Init ==
    /\ open = {} /\ answered = {} /\ lost = {} /\ unknown = {}
    /\ \E bytes \in [Product -> Bytes], in \in [Product -> SUBSET Destination] :
           archived = [n \in Product |-> in[n] \X {bytes[n]}]

Wishes(o, c, names) == {o} \X {c} \X names
Answered(o, names) == answered' = answered \cup ({o} \X names)

\* Some wishes of o may be no more, and it is known that they are lost.
Loses(o, wishes) ==
    /\ lost' = lost \cup {o}
    /\ open' \subseteq wishes /\ \A w \in wishes \ open' : w[1] = o

\* The reports do not tell of product n any more.
Doubt(n) ==
    /\ unknown' = unknown \cup {n} /\ archived' = [archived EXCEPT ![n] = {}]

Told == UNCHANGED <<archived, unknown>>

Ask(o, c, names) ==
    LET wishes == open \cup Wishes(o, c, names) IN
    /\ answered' = answered \ ({o} \X names)
    /\ (open' = wishes /\ UNCHANGED lost) \/ Loses(o, wishes)
    /\ Told

\* A part of a wish has no document.
Miss(o, c, names) ==
    /\ Answered(o, names)
    /\ open' \subseteq open /\ open \ open' \subseteq Wishes(o, c, names)
    /\ UNCHANGED lost /\ Told

Lose(o) ==
    /\ Loses(o, open) /\ UNCHANGED answered
    /\ Told \/ \E w \in open : w[1] = o /\ Doubt(w[3])

\* Two transfers of a product at once.
Clash(w) == Doubt(w[3]) /\ UNCHANGED <<open, answered, lost>>

\* The product of w was served with another wish, or will be.
Join(w) ==
    /\ open' = open \ {w}
    /\ \/ <<w[1], w[3]>> \in answered \/ w[1] \in lost
       \/ \E c \in Choice : <<w[1], c, w[3]>> \in open'
    /\ UNCHANGED <<answered, lost>> /\ Told

Allows(choice, old, new) ==
    choice = "force" \/ (choice = "replace_if_changed" /\ old # new)

\* More destinations, or the first ones, hold what the others hold.
Fill(n, bytes, some) ==
    /\ \A m \in archived[n] : m[2] = bytes
    /\ archived' = [archived EXCEPT ![n] = @ \cup (some \X {bytes})]

\* The product is written anew: where it could not be, it is not archived any more.
Replace(n, choice, bytes, some) ==
    /\ \A m \in archived[n] : Allows(choice, m[2], bytes)
    /\ archived' = [archived EXCEPT ![n] = some \X {bytes}]

\* The reports say that the product is nowhere.
Drop(n) == archived' = [archived EXCEPT ![n] = {}]

Report(w) ==
    /\ Answered(w[1], {w[3]})
    /\ \/ /\ open' \in {open, open \ {w}}
          /\ \/ UNCHANGED archived \/ Drop(w[3])
             \/ \E bytes \in Bytes, some \in SUBSET Destination :
                    Fill(w[3], bytes, some) \/ Replace(w[3], w[2], bytes, some)
          /\ UNCHANGED <<lost, unknown>>
       \/ Loses(w[1], open) /\ Doubt(w[3])

Next ==
    \/ \E o \in Origin, c \in Choice, names \in SUBSET Product :
           Ask(o, c, names) \/ Miss(o, c, names)
    \/ \E o \in Origin : Lose(o)
    \/ \E w \in open : Clash(w) \/ Join(w) \/ Report(w)

Spec == Init /\ [][Next]_vars
=============================================================================
