------------------------------ MODULE Webhook ------------------------------
(***************************************************************************)
(* The WhatsApp webhook (communicationIntegrationService.ts).  The provider *)
(* posts payloads of events until one post of each is acknowledged; posts   *)
(* repeat, overlap and end in any order.  A handler takes the events of its *)
(* payload one by one, each in a transaction of its own: the unique indexes *)
(* of the database (an insert waits for whoever holds its key) are all that *)
(* keeps two handlers apart.  What a transaction writes is seen at its      *)
(* commit; before it, only its locks are.                                   *)
(***************************************************************************)
EXTENDS Integers, Sequences, FiniteSets

CONSTANTS
    Handlers,        \* requests in progress
    Payloads,        \* what the provider has to deliver
    Content,         \* Content[p]: the events of the payload p, in order
    Messages,        \* messages, by their external id
    Statuses,        \* status events
    Conversations,
    ConversationOf,  \* the conversation of a message
    SubjectOf,       \* the message a status event is about
    RankOf,          \* the place of its status in statusOrder; -1 is FAILED
    Active,          \* the events of an account registered and enabled
    MaxFailures,     \* the bound on the transactions that fail
    MaxPurges        \* the bound on the events the retention deletes

\* a message event and its message have one key: message:<id>
Events == Messages \cup Statuses

ASSUME WebhookAssumption ==
    /\ Messages \cap Statuses = {}
    /\ IsFiniteSet(Messages)
    /\ Content \in [Payloads -> Seq(Events)]
    /\ ConversationOf \in [Messages -> Conversations]
    /\ SubjectOf \in [Statuses -> Messages]
    /\ RankOf \in [Statuses -> {-1, 2, 3, 4}]
    /\ Active \subseteq Events
    /\ MaxFailures \in Nat /\ MaxPurges \in Nat

VARIABLES
    at,            \* at[h]: where the handler h is
    payload,       \* payload[h]: what it was posted
    position,      \* position[h]: the event it is at
    read,          \* read[h]: the rank it read of the message
    recorded,      \* the rows of CommunicationWebhookEvent, all PROCESSED
    stored,        \* the rows of CommunicationMessage
    rank,          \* rank[m]: the status of m, by its place in statusOrder
    unread,        \* unread[c]: unreadCount of the conversation c
    timeline,      \* timeline[m]: the timeline events m has caused
    acknowledged,  \* the payloads answered with 200 or 202
    failures, purges

handling == <<at, payload, position, read>>
tables == <<recorded, stored, rank, unread, timeline>>
vars == <<handling, tables, acknowledged, failures, purges>>

NoRank == 9   \* no message read

EventOf(h) == Content[payload[h]][position[h]]

\* the stages of a transaction that has inserted its event
InTransaction == {"linking", "storing", "reading", "updating"}

\* a handler at an event of its payload is at a stage for it
Placed(h) ==
    /\ at[h] \notin {"idle", "resolving"} => position[h] <= Len(Content[payload[h]])
    /\ at[h] \in {"linking", "storing"} => EventOf(h) \in Messages
    /\ at[h] \in {"reading", "updating"} => EventOf(h) \in Statuses

WebhookTypeOK ==
    /\ at \in [Handlers -> InTransaction \cup {"idle", "resolving", "inserting"}]
    /\ payload \in [Handlers -> Payloads]
    /\ position \in [Handlers -> Nat \ {0}]
    /\ read \in [Handlers -> {-1, 0, 2, 3, 4, NoRank}]
    /\ recorded \subseteq Events /\ stored \subseteq Messages
    /\ rank \in [Messages -> {-1, 0, 2, 3, 4}]
    /\ unread \in [Conversations -> Nat] /\ timeline \in [Messages -> Nat]
    /\ acknowledged \subseteq Payloads
    /\ failures \in 0..MaxFailures /\ purges \in 0..MaxPurges
    /\ \A h \in Handlers : Placed(h)

Init ==
    /\ at = [h \in Handlers |-> "idle"]
    /\ payload \in [Handlers -> Payloads]
    /\ position = [h \in Handlers |-> 1]
    /\ read = [h \in Handlers |-> NoRank]
    /\ recorded = {} /\ stored = {} /\ acknowledged = {}
    /\ rank = [m \in Messages |-> 0]
    /\ unread = [c \in Conversations |-> 0]
    /\ timeline = [m \in Messages |-> 0]
    /\ failures = 0 /\ purges = 0

-----------------------------------------------------------------------------
Goto(h, from, to) == at[h] = from /\ at' = [at EXCEPT ![h] = to]

\* what the transaction of another handler has locked until it ends
KeyHeld(h) == \E g \in Handlers \ {h} : at[g] \in InTransaction /\ EventOf(g) = EventOf(h)
ConversationHeld(h) ==
    \E g \in Handlers \ {h} : /\ at[g] = "storing"
                              /\ ConversationOf[EventOf(g)] = ConversationOf[EventOf(h)]

FailureCounted == failures < MaxFailures /\ failures' = failures + 1

(* Defects the properties must tell from the code. *)

\* StageOf with every event taken for a message
StageOfMessage(h) == "linking"

\* Known without the unique index on messages
NeverKnown(h) == FALSE

\* InsertEvent in a transaction of its own
InsertAlone(h) ==
    /\ at[h] = "inserting" /\ ~KeyHeld(h)
    /\ IF EventOf(h) \in recorded
       THEN /\ at' = [at EXCEPT ![h] = "resolving"]
            /\ position' = [position EXCEPT ![h] = @ + 1] /\ UNCHANGED recorded
       ELSE /\ at' = [at EXCEPT ![h] = "linking"]
            /\ recorded' = recorded \cup {EventOf(h)} /\ UNCHANGED position
    /\ UNCHANGED <<payload, read, stored, rank, unread, timeline, acknowledged, failures, purges>>

\* InsertEvent with the violation of the index thrown like any other error
InsertOrThrow(h) ==
    /\ at[h] = "inserting" /\ ~KeyHeld(h)
    /\ at' = [at EXCEPT ![h] = IF EventOf(h) \in recorded THEN "idle"
                                ELSE IF EventOf(h) \in Statuses THEN "reading" ELSE "linking"]
    /\ UNCHANGED <<payload, position, read, tables, acknowledged, failures, purges>>

\* Fails with the error swallowed and the loop going on
FailsQuietly(h) ==
    /\ at[h] \in InTransaction \cup {"inserting"} /\ FailureCounted
    /\ at' = [at EXCEPT ![h] = "resolving"]
    /\ position' = [position EXCEPT ![h] = @ + 1]
    /\ UNCHANGED <<payload, read, tables, acknowledged, purges>>

\* Fails without a transaction around the statements
FailsHalfway(h) ==
    /\ Goto(h, "storing", "idle") /\ FailureCounted
    /\ unread' = [unread EXCEPT ![ConversationOf[EventOf(h)]] = @ + 1]
    /\ UNCHANGED <<payload, position, read, recorded, stored, rank, timeline, acknowledged, purges>>

-----------------------------------------------------------------------------
\* the provider posts p: a first time, again for want of an answer, or twice
Post(h, p) ==
    /\ Goto(h, "idle", "resolving")
    /\ payload' = [payload EXCEPT ![h] = p]
    /\ position' = [position EXCEPT ![h] = 1]
    /\ UNCHANGED <<read, tables, acknowledged, failures, purges>>

\* the next event of the payload, when its account is known and enabled
Resolve(h) ==
    /\ position[h] <= Len(Content[payload[h]])
    /\ IF EventOf(h) \in Active
       THEN Goto(h, "resolving", "inserting") /\ UNCHANGED position
       ELSE /\ at[h] = "resolving" /\ UNCHANGED at
            /\ position' = [position EXCEPT ![h] = @ + 1]
    /\ UNCHANGED <<payload, read, tables, acknowledged, failures, purges>>

\* no event left: 200, or 202 when there was none of a known, enabled account
Acknowledge(h) ==
    /\ position[h] > Len(Content[payload[h]])
    /\ Goto(h, "resolving", "idle")
    /\ acknowledged' = acknowledged \cup {payload[h]}
    /\ UNCHANGED <<payload, position, read, tables, failures, purges>>

StageOf(h) == IF EventOf(h) \in Statuses THEN "reading" ELSE "linking"

\* The row of the event.  A violation of its index is caught and the event
\* passed over as a duplicate.
InsertEvent(h) ==
    /\ at[h] = "inserting" /\ ~KeyHeld(h)
    /\ IF EventOf(h) \in recorded
       THEN /\ Goto(h, "inserting", "resolving")
            /\ position' = [position EXCEPT ![h] = @ + 1]
       ELSE Goto(h, "inserting", StageOf(h)) /\ UNCHANGED position
    /\ UNCHANGED <<payload, read, tables, acknowledged, failures, purges>>

\* the contact is looked up and the conversation created or updated
UpsertConversation(h) ==
    /\ Goto(h, "linking", "storing")
    /\ ~ConversationHeld(h)
    /\ UNCHANGED <<payload, position, read, tables, acknowledged, failures, purges>>

\* The commit, with the event now PROCESSED: the handler goes on, or it never
\* hears of it and answers 500.
Commit(h, stage) ==
    /\ recorded' = recorded \cup {EventOf(h)}
    /\ \/ /\ Goto(h, stage, "resolving") /\ UNCHANGED failures
          /\ position' = [position EXCEPT ![h] = @ + 1]
       \/ Goto(h, stage, "idle") /\ FailureCounted /\ UNCHANGED position
    /\ UNCHANGED <<payload, read, acknowledged, purges>>

\* the unique index on messages has this one
Known(h) == EventOf(h) \in stored

\* the message, the count of its conversation and, for a client that one
\* contact only matches, the event of its timeline
StoreMessage(h) ==
    /\ at[h] = "storing" /\ ~Known(h)
    /\ LET m == EventOf(h) IN
       /\ stored' = stored \cup {m}
       /\ rank' = [rank EXCEPT ![m] = 0]
       /\ unread' = [unread EXCEPT ![ConversationOf[m]] = @ + 1]
       /\ \E linked \in {0, 1} : timeline' = [timeline EXCEPT ![m] = @ + linked]
    /\ Commit(h, "storing")

\* The violation of the index on messages is caught, but has aborted the
\* transaction: the update of the event's row fails, and the post with it.
KnownMessage(h) ==
    /\ Goto(h, "storing", "idle")
    /\ Known(h)
    /\ UNCHANGED <<payload, position, read, tables, acknowledged, failures, purges>>

ReadStatus(h) ==
    /\ Goto(h, "reading", "updating")
    /\ LET m == SubjectOf[EventOf(h)] IN
       read' = [read EXCEPT ![h] = IF m \in stored THEN rank[m] ELSE NoRank]
    /\ UNCHANGED <<payload, position, tables, acknowledged, failures, purges>>

\* shouldAdvance, of a message found
ShouldAdvance(current, next) == current # NoRank /\ next > current

UpdateStatus(h) ==
    /\ at[h] = "updating"
    /\ LET e == EventOf(h) IN
       rank' = IF ShouldAdvance(read[h], RankOf[e])
               THEN [rank EXCEPT ![SubjectOf[e]] = RankOf[e]] ELSE rank
    /\ Commit(h, "updating")
    /\ UNCHANGED <<stored, unread, timeline>>

\* a statement fails, the five seconds run out or the process dies: all is
\* rolled back and the provider gets no 2xx
Fails(h) ==
    /\ at[h] # "idle" /\ FailureCounted
    /\ at' = [at EXCEPT ![h] = "idle"]
    /\ UNCHANGED <<payload, position, read, tables, acknowledged, purges>>

\* the operator deletes events older than the retention
Purge ==
    /\ purges < MaxPurges /\ purges' = purges + 1
    /\ \E e \in recorded : recorded' = recorded \ {e}
    /\ UNCHANGED <<handling, stored, rank, unread, timeline, acknowledged, failures>>

Apply(h) == UpsertConversation(h) \/ StoreMessage(h) \/ KnownMessage(h)
                \/ ReadStatus(h) \/ UpdateStatus(h)

Handle(h) == Resolve(h) \/ InsertEvent(h) \/ Apply(h) \/ Acknowledge(h)

Next ==
    \/ \E h \in Handlers : Handle(h) \/ Fails(h) \/ \E p \in Payloads : Post(h, p)
    \/ Purge

Spec == Init /\ [][Next]_vars

Redeliver(p) == p \notin acknowledged /\ \E h \in Handlers : Post(h, p)

FairSpec == /\ Spec
            /\ \A h \in Handlers : SF_vars(Handle(h))
            /\ \A p \in Payloads : SF_vars(Redeliver(p))

-----------------------------------------------------------------------------
(* Properties *)

\* However often its event comes, and though the row of the event may be gone,
\* a message counts once on its conversation and makes one timeline event at most.
CountedOnce ==
    /\ \A c \in Conversations :
          unread[c] = Cardinality({m \in stored : ConversationOf[m] = c})
    /\ \A m \in Messages : timeline[m] <= IF m \in stored THEN 1 ELSE 0

\* A message event recorded, which every later post passes over as a
\* duplicate, has left its message.
RecordedIsStored == recorded \cap Messages \subseteq stored

\* The provider hears 2xx of a payload, and forgets it, only when every message
\* of an enabled account in it is stored.
AcknowledgedIsStored ==
    \A p \in acknowledged : \A i \in 1..Len(Content[p]) :
        Content[p][i] \in Active \cap Messages => Content[p][i] \in stored

\* The handlers together do what Inbox promises.
Promised == INSTANCE Inbox
ImplementsInbox == Promised!Spec

\* With a provider that repeats what is not acknowledged, each payload is
\* acknowledged in the end, its messages stored by then, unless the retention
\* has deleted an event: the post that repeats it is answered 500 for ever, and
\* the messages behind it in the payload are lost.
EveryPostEnds == \A p \in Payloads : <>(p \in acknowledged \/ purges > 0)
=============================================================================
