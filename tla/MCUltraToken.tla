---------------------------- MODULE MCUltraToken ----------------------------
(* Small instances of UltraToken for TLC. *)
EXTENDS UltraToken

CONSTANTS g1, g2, r1, o1, seller

MCUserOf == [q \in Requests |-> IF q \in Gets THEN Global ELSE seller]
\* the first GET and the seller's read belong to a synchronisation
MCTries == [q \in Requests |-> IF q \in {g1, r1} THEN 2 ELSE 1]

\* Global and seller requests have no state in common: either those move, or these.
MCNext ==
    /\ Next
    /\ ~ \E g \in Gets, q \in Reads \cup Orders : pc'[g] # "idle" /\ pc'[q] # "idle"
MCSpec == Init /\ [][MCNext]_vars /\ Fairness
=============================================================================
