------------------------------- MODULE Inbox -------------------------------
(***************************************************************************)
(* What the reception of WhatsApp messages promises, whatever the provider  *)
(* repeats: a message enters its conversation once, and is counted there    *)
(* once.                                                                    *)
(***************************************************************************)
EXTENDS Naturals

CONSTANTS Messages, Conversations, ConversationOf

VARIABLES
    stored,   \* the messages kept
    unread    \* unread[c]: the count shown on the conversation c

Init == stored = {} /\ unread = [c \in Conversations |-> 0]

Arrive(m) ==
    /\ m \notin stored
    /\ stored' = stored \cup {m}
    /\ unread' = [unread EXCEPT ![ConversationOf[m]] = @ + 1]

Spec == Init /\ [][\E m \in Messages : Arrive(m)]_<<stored, unread>>
=============================================================================
