------------------------------ MODULE MCWebhook ------------------------------
(* A small instance of Webhook for TLC. *)
EXTENDS Webhook

CONSTANTS h1, h2, p1, p2, a, b, x, st, c1, c2

\* a comes in both payloads, in either order with b; st is about b; x is of an
\* account that is not registered
MCContent == [p \in Payloads |-> IF p = p1 THEN <<a, b>> ELSE <<st, x, a>>]
MCConversationOf == [m \in Messages |-> c1]
MCSubjectOf == [s \in Statuses |-> b]
MCRankOf == [s \in Statuses |-> 3]
=============================================================================
