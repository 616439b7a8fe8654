----------------------------- MODULE MCErpOrder -----------------------------
(* Small instances of ErpOrder for TLC. *)
EXTENDS ErpOrderSlot

CONSTANTS o1, o2, a1, a2, a3, p1, p2, s1, s2

\* a3 is about o2 when there are two opportunities; everything else about o1
MCOpportunityOf ==
    [r \in Requests |-> IF r = a3 /\ o2 \in Opportunities THEN o2 ELSE o1]

(* Two instances in one: every state is one of an instance. *)

\* the order flow, as where protocol tests are disabled
OnlyAttempts == \A p \in ProtocolTests : pc[p] = "idle"

\* the protocol tests of a won opportunity, beside one attempt
OnlyTests == stage[o1] # "aberta" /\ \A a \in {a2, a3} : pc[a] = "idle"

MCSpec == Init /\ [][Next /\ (OnlyAttempts \/ OnlyTests)']_vars
=============================================================================
