------------------------------ MODULE MCClients ------------------------------
(* Small instances of Clients for TLC. *)
EXTENDS Clients

CONSTANTS c1, c2, all, k1, k2, d1, d2, n1, n2, post, bare

P1 == [code |-> k1, doc |-> d1, name |-> n1]
P2 == [code |-> k2, doc |-> None, name |-> n2]
\* the global run has both partners, a seller's only the first
MCRowsOf == [s \in Syncs |-> IF s = all THEN <<P1, P2>> ELSE <<P1>>]

\* A POST of the first code with the second identity, before its document is
\* known, and one without code or document; a PUT that gives the client another
\* document.
MCBodyOf ==
    [u \in Posts \cup Puts |->
        CASE u = post -> [code |-> k1, doc |-> None, name |-> n2]
          [] u = bare -> [code |-> None, doc |-> None, name |-> n2]
          [] OTHER -> [code |-> k1, doc |-> d2, name |-> n1]]
MCTargetOf == [u \in Puts \cup Deletes |-> c1]
MCPairOf == [u \in Merges |-> [primary |-> c1, duplicate |-> c2]]

(* Two instances in one: every state is one of an instance. *)

OnlyPost == at[bare] = "idle"

\* the client without code or document, beside no PUT
OnlyBare == \A u \in Puts \cup {post} : at[u] = "idle"

MCNext == Next /\ (OnlyPost \/ OnlyBare)'
MCSpec == Init /\ [][MCNext]_vars /\ Fairness
=============================================================================
