---------------------------- MODULE WebhookProofs ----------------------------
(***************************************************************************)
(* For any number of handlers, payloads, failures and deletions by the     *)
(* retention: each message is stored and counted once, and the provider    *)
(* forgets a payload only when its messages are stored.                    *)
(***************************************************************************)
EXTENDS Webhook, FiniteSetTheorems, TLAPS

\* The event a handler is at is one of its payload.
LEMMA EventType ==
    ASSUME WebhookTypeOK, NEW h \in Handlers, position[h] <= Len(Content[payload[h]])
    PROVE  EventOf(h) \in Events
<1>1. payload[h] \in Payloads /\ position[h] \in Nat \ {0} /\ Content[payload[h]] \in Seq(Events)
  BY WebhookAssumption DEF WebhookTypeOK
<1> QED BY <1>1 DEF EventOf

\* A step of one handler leaves the place of another.
LEMMA OthersPlaced ==
    ASSUME WebhookTypeOK, NEW h \in Handlers, NEW g \in Handlers \ {h},
           at'[g] = at[g], payload'[g] = payload[g], position'[g] = position[g]
    PROVE  Placed(g)'
BY DEF WebhookTypeOK, Placed, EventOf

\* Every step of a handler is at one stage and leads to another.
LEMMA HandlerMoves ==
    ASSUME WebhookTypeOK, NEW h \in Handlers, NEW to, at' = [at EXCEPT ![h] = to],
           \A g \in Handlers \ {h} : position'[g] = position[g] /\ payload'[g] = payload[g],
           Placed(h)',
           to \in InTransaction \cup {"idle", "resolving", "inserting"}
    PROVE  /\ at' \in [Handlers -> InTransaction \cup {"idle", "resolving", "inserting"}]
           /\ \A g \in Handlers : Placed(g)'
<1>1. \A g \in Handlers \ {h} : at'[g] = at[g]
  BY DEF WebhookTypeOK
<1> QED BY <1>1, OthersPlaced DEF WebhookTypeOK

\* Every step keeps the types.
LEMMA WebhookTypeStep ==
    ASSUME WebhookTypeOK, [Next]_vars
    PROVE  WebhookTypeOK'
<1> USE WebhookAssumption
<1>0. \A h \in Handlers : /\ position[h] \in Nat \ {0} /\ position[h] + 1 \in Nat \ {0}
                          /\ payload[h] \in Payloads /\ Placed(h)
  BY DEF WebhookTypeOK
<1>1. CASE UNCHANGED vars
  BY <1>1 DEF WebhookTypeOK, Placed, vars, handling, tables, EventOf
<1>2. ASSUME NEW h \in Handlers, NEW p \in Payloads, Post(h, p) PROVE WebhookTypeOK'
  <2>1. at' = [at EXCEPT ![h] = "resolving"] /\ Placed(h)'
    BY <1>2 DEF Post, Goto, Placed, WebhookTypeOK
  <2>2. \A g \in Handlers : Placed(g)'
    BY <1>2, <2>1, HandlerMoves DEF Post, WebhookTypeOK
  <2> QED BY <1>2, <2>1, <2>2 DEF WebhookTypeOK, Post, tables, InTransaction
<1>3. ASSUME NEW h \in Handlers, Resolve(h) \/ Acknowledge(h) \/ KnownMessage(h) \/ Fails(h)
                                   \/ UpsertConversation(h)
      PROVE WebhookTypeOK'
  <2>1. PICK to \in {"idle", "resolving", "inserting", "storing"} : at' = [at EXCEPT ![h] = to]
    BY <1>3 DEF Resolve, Acknowledge, KnownMessage, Fails, UpsertConversation, Goto, WebhookTypeOK
  <2>2. Placed(h)'
    BY <1>0, <1>3, <2>1
       DEF Resolve, Acknowledge, KnownMessage, Fails, UpsertConversation, Goto, Placed, EventOf,
           WebhookTypeOK
  <2>3. \A g \in Handlers \ {h} : position'[g] = position[g] /\ payload'[g] = payload[g]
    BY <1>3 DEF Resolve, Acknowledge, KnownMessage, Fails, UpsertConversation, WebhookTypeOK
  <2>4. /\ at' \in [Handlers -> InTransaction \cup {"idle", "resolving", "inserting"}]
        /\ \A g \in Handlers : Placed(g)'
    BY <2>1, <2>2, <2>3, HandlerMoves DEF InTransaction
  <2>5. position' \in [Handlers -> Nat \ {0}] /\ payload' = payload /\ read' = read
    BY <1>0, <1>3 DEF Resolve, Acknowledge, KnownMessage, Fails, UpsertConversation, WebhookTypeOK
  <2> QED BY <1>0, <1>3, <2>4, <2>5
     DEF WebhookTypeOK, Resolve, Acknowledge, KnownMessage, Fails, FailureCounted,
         UpsertConversation, tables
<1>4. ASSUME NEW h \in Handlers, InsertEvent(h) PROVE WebhookTypeOK'
  <2>1. EventOf(h) \in Events
    BY <1>4, EventType DEF InsertEvent, WebhookTypeOK, Placed, InTransaction
  <2>2. PICK to \in {"resolving", "reading", "linking"} : at' = [at EXCEPT ![h] = to]
    BY <1>4 DEF InsertEvent, Goto, StageOf
  <2>3. Placed(h)'
    <3>1. CASE EventOf(h) \in recorded
      BY <1>4, <3>1 DEF InsertEvent, Goto, Placed, WebhookTypeOK
    <3>2. CASE EventOf(h) \notin recorded
      <4>1. at'[h] = StageOf(h) /\ EventOf(h)' = EventOf(h) /\ position[h] <= Len(Content[payload[h]])
        BY <1>0, <1>4, <3>2 DEF InsertEvent, Goto, Placed, WebhookTypeOK, EventOf
      <4>2. position'[h] = position[h] /\ payload'[h] = payload[h]
        BY <1>4, <3>2 DEF InsertEvent
      <4> QED BY <2>1, <4>1, <4>2 DEF StageOf, Placed, Events
    <3> QED BY <3>1, <3>2
  <2>4. \A g \in Handlers \ {h} : position'[g] = position[g] /\ payload'[g] = payload[g]
    BY <1>4 DEF InsertEvent, WebhookTypeOK
  <2>5. /\ at' \in [Handlers -> InTransaction \cup {"idle", "resolving", "inserting"}]
        /\ \A g \in Handlers : Placed(g)'
    BY <2>2, <2>3, <2>4, HandlerMoves DEF InTransaction
  <2> QED BY <1>0, <1>4, <2>5 DEF WebhookTypeOK, InsertEvent, tables
<1>5. ASSUME NEW h \in Handlers, ReadStatus(h) PROVE WebhookTypeOK'
  <2>1. at' = [at EXCEPT ![h] = "updating"] /\ Placed(h)'
    BY <1>0, <1>5 DEF ReadStatus, Goto, Placed, EventOf, WebhookTypeOK
  <2>2. /\ at' \in [Handlers -> InTransaction \cup {"idle", "resolving", "inserting"}]
        /\ \A g \in Handlers : Placed(g)'
    BY <1>5, <2>1, HandlerMoves DEF ReadStatus, InTransaction
  <2>3. SubjectOf[EventOf(h)] \in Messages
    BY <1>0, <1>5 DEF ReadStatus, Goto, Placed
  <2> QED BY <1>5, <2>2, <2>3 DEF WebhookTypeOK, ReadStatus, tables
<1>6. ASSUME NEW h \in Handlers, NEW stage, Commit(h, stage), stage \in {"storing", "updating"}
      PROVE  /\ at' \in [Handlers -> InTransaction \cup {"idle", "resolving", "inserting"}]
             /\ \A g \in Handlers : Placed(g)'
             /\ position' \in [Handlers -> Nat \ {0}] /\ recorded' \subseteq Events
             /\ failures' \in 0..MaxFailures
             /\ UNCHANGED <<payload, read, acknowledged, purges>>
  <2>1. PICK to \in {"idle", "resolving"} : at' = [at EXCEPT ![h] = to]
    BY <1>6 DEF Commit, Goto
  <2>2. Placed(h)'
    BY <2>1 DEF Placed, WebhookTypeOK
  <2>3. \A g \in Handlers \ {h} : position'[g] = position[g] /\ payload'[g] = payload[g]
    BY <1>6 DEF Commit, WebhookTypeOK
  <2>4. EventOf(h) \in Events
    BY <1>0, <1>6 DEF Commit, Goto, Placed, Events
  <2>5. /\ at' \in [Handlers -> InTransaction \cup {"idle", "resolving", "inserting"}]
        /\ \A g \in Handlers : Placed(g)'
    BY <2>1, <2>2, <2>3, HandlerMoves DEF InTransaction
  <2> QED BY <1>0, <1>6, <2>4, <2>5 DEF Commit, FailureCounted, WebhookTypeOK
<1>7. ASSUME NEW h \in Handlers, StoreMessage(h) PROVE WebhookTypeOK'
  <2>1. EventOf(h) \in Messages /\ ConversationOf[EventOf(h)] \in Conversations
    BY <1>0, <1>7 DEF StoreMessage, Placed
  <2>2. stored' \subseteq Messages /\ rank' \in [Messages -> {-1, 0, 2, 3, 4}]
    BY <1>7, <2>1 DEF WebhookTypeOK, StoreMessage
  <2>3. unread' \in [Conversations -> Nat] /\ timeline' \in [Messages -> Nat]
    BY <1>7, <2>1 DEF WebhookTypeOK, StoreMessage
  <2>4. Commit(h, "storing")
    BY <1>7 DEF StoreMessage
  <2> QED BY <1>6, <2>2, <2>3, <2>4 DEF WebhookTypeOK
<1>8. ASSUME NEW h \in Handlers, UpdateStatus(h) PROVE WebhookTypeOK'
  <2>1. EventOf(h) \in Statuses /\ SubjectOf[EventOf(h)] \in Messages
    BY <1>0, <1>8 DEF UpdateStatus, Placed
  <2>2. RankOf[EventOf(h)] \in {-1, 0, 2, 3, 4}
    BY <2>1
  <2>3. rank' \in [Messages -> {-1, 0, 2, 3, 4}]
    BY <1>8, <2>1, <2>2 DEF UpdateStatus, WebhookTypeOK
  <2> QED BY <1>6, <1>8, <2>3 DEF WebhookTypeOK, UpdateStatus
<1>9. ASSUME Purge PROVE WebhookTypeOK'
  BY <1>9 DEF WebhookTypeOK, Purge, handling, Placed, EventOf
<1> QED BY <1>1, <1>2, <1>3, <1>4, <1>5, <1>7, <1>8, <1>9 DEF Next, Handle, Apply

\* The tables and the handlers are always well typed.
THEOREM WebhookTypeCorrect == Spec => []WebhookTypeOK
<1>1. Init => WebhookTypeOK
  BY WebhookAssumption DEF Init, WebhookTypeOK, Placed
<1> QED BY <1>1, WebhookTypeStep, PTL DEF Spec

-----------------------------------------------------------------------------
\* the messages that h has passed in its payload are stored
Passed(h) ==
    \A i \in 1..Len(Content[payload[h]]) :
        i < position[h] /\ Content[payload[h]][i] \in Active \cap Messages
            => Content[payload[h]][i] \in stored

\* RecordedIsStored and AcknowledgedIsStored, with what a handler has passed over
StoredInv ==
    /\ RecordedIsStored /\ AcknowledgedIsStored
    /\ \A h \in Handlers : at[h] # "idle" => Passed(h)

\* What the handlers have passed stays behind them when none moves but h.
LEMMA OthersBehind ==
    ASSUME WebhookTypeOK, StoredInv, stored \subseteq stored', NEW h \in Handlers,
           at' = [at EXCEPT ![h] = at'[h]],
           \A g \in Handlers \ {h} : position'[g] = position[g] /\ payload'[g] = payload[g],
           at'[h] # "idle" => Passed(h)'
    PROVE  \A g \in Handlers : at'[g] # "idle" => Passed(g)'
<1> TAKE g \in Handlers
<1>1. CASE g = h
  BY <1>1
<1>2. CASE g # h
  <2>1. at'[g] = at[g] /\ position'[g] = position[g] /\ payload'[g] = payload[g]
    BY <1>2 DEF WebhookTypeOK
  <2>2. at[g] # "idle" => Passed(g)
    BY DEF StoredInv
  <2> QED BY <2>1, <2>2 DEF Passed
<1> QED BY <1>1, <1>2

\* Every step keeps the invariant.
LEMMA StoredStep ==
    ASSUME WebhookTypeOK, StoredInv, [Next]_vars
    PROVE  StoredInv'
<1> USE WebhookAssumption
<1>0. \A h \in Handlers : Placed(h) /\ position[h] \in Nat \ {0} /\ payload[h] \in Payloads
  BY DEF WebhookTypeOK
<1>1. CASE UNCHANGED vars
  BY <1>1 DEF StoredInv, RecordedIsStored, AcknowledgedIsStored, Passed, vars, handling, tables
<1>2. ASSUME NEW h \in Handlers, NEW p \in Payloads, Post(h, p) PROVE StoredInv'
  <2>1. /\ at' = [at EXCEPT ![h] = at'[h]] /\ stored' = stored
        /\ \A g \in Handlers \ {h} : position'[g] = position[g] /\ payload'[g] = payload[g]
        /\ position'[h] = 1
    BY <1>2 DEF Post, Goto, tables, WebhookTypeOK
  <2>2. Passed(h)'
    BY <2>1 DEF Passed
  <2>3. \A g \in Handlers : at'[g] # "idle" => Passed(g)'
    BY <2>1, <2>2, OthersBehind
  <2> QED BY <1>2, <2>3 DEF StoredInv, RecordedIsStored, AcknowledgedIsStored, Post, tables
<1>3. ASSUME NEW h \in Handlers, KnownMessage(h) \/ Fails(h) \/ UpsertConversation(h) \/ ReadStatus(h)
      PROVE StoredInv'
  <2>1. /\ at[h] # "idle" /\ at' = [at EXCEPT ![h] = at'[h]]
        /\ UNCHANGED <<payload, position, recorded, stored, acknowledged>>
    BY <1>3 DEF KnownMessage, Fails, UpsertConversation, ReadStatus, Goto, tables, WebhookTypeOK
  <2>2. at'[h] # "idle" => Passed(h)'
    <3>1. Passed(h)
      BY <2>1 DEF StoredInv
    <3> QED BY <2>1, <3>1 DEF Passed
  <2>3. \A g \in Handlers : at'[g] # "idle" => Passed(g)'
    BY <2>1, <2>2, OthersBehind
  <2> QED BY <2>1, <2>3 DEF StoredInv, RecordedIsStored, AcknowledgedIsStored
<1>4. ASSUME NEW h \in Handlers, Acknowledge(h) PROVE StoredInv'
  <2>1. /\ at[h] # "idle" /\ at' = [at EXCEPT ![h] = "idle"] /\ position[h] > Len(Content[payload[h]])
        /\ UNCHANGED <<payload, position, recorded, stored>>
        /\ acknowledged' = acknowledged \cup {payload[h]}
    BY <1>4 DEF Acknowledge, Goto, tables
  <2>2. \A g \in Handlers : at'[g] # "idle" => Passed(g)'
    <3>1. at'[h] = "idle"
      BY <2>1 DEF WebhookTypeOK
    <3> QED BY <2>1, <3>1, OthersBehind
  <2>3. \A i \in 1..Len(Content[payload[h]]) :
           Content[payload[h]][i] \in Active \cap Messages => Content[payload[h]][i] \in stored
    <3>1. Passed(h) /\ Len(Content[payload[h]]) \in Nat
      BY <1>0, <2>1 DEF StoredInv
    <3> QED BY <1>0, <2>1, <3>1 DEF Passed
  <2> QED BY <2>1, <2>2, <2>3 DEF StoredInv, RecordedIsStored, AcknowledgedIsStored
<1>5. ASSUME NEW h \in Handlers, Resolve(h) \/ InsertEvent(h) PROVE StoredInv'
  <2>1. /\ at[h] # "idle" /\ at' = [at EXCEPT ![h] = at'[h]]
        /\ UNCHANGED <<payload, recorded, stored, acknowledged>>
        /\ \/ position' = position
           \/ /\ position' = [position EXCEPT ![h] = @ + 1]
              /\ position[h] <= Len(Content[payload[h]])
              /\ EventOf(h) \notin Active \/ EventOf(h) \in recorded
    BY <1>0, <1>5 DEF Resolve, InsertEvent, Goto, tables, WebhookTypeOK, Placed
  <2>2. Passed(h)
    BY <2>1 DEF StoredInv
  <2>3. Passed(h)'
    <3>1. CASE position' = position
      BY <2>1, <2>2, <3>1 DEF Passed
    <3>2. CASE position' # position
      <4>1. EventOf(h) \in Active \cap Messages => EventOf(h) \in stored
        BY <2>1, <3>2 DEF StoredInv, RecordedIsStored
      <4>2. position'[h] = position[h] + 1 /\ payload'[h] = payload[h] /\ stored' = stored
        BY <2>1, <3>2 DEF WebhookTypeOK
      <4>3. ASSUME NEW i \in 1..Len(Content[payload[h]]), i < position[h] + 1,
                   Content[payload[h]][i] \in Active \cap Messages
            PROVE Content[payload[h]][i] \in stored
        <5>1. CASE i = position[h]
          BY <4>1, <4>3, <5>1 DEF EventOf
        <5>2. CASE i # position[h]
          <6>1. i < position[h]
            BY <1>0, <4>3, <5>2
          <6> QED BY <2>2, <4>3, <6>1 DEF Passed
        <5> QED BY <5>1, <5>2
      <4> QED BY <4>2, <4>3 DEF Passed
    <3> QED BY <3>1, <3>2
  <2>4. \A g \in Handlers \ {h} : position'[g] = position[g] /\ payload'[g] = payload[g]
    BY <2>1 DEF WebhookTypeOK
  <2>5. \A g \in Handlers : at'[g] # "idle" => Passed(g)'
    BY <2>1, <2>3, <2>4, OthersBehind
  <2> QED BY <2>1, <2>5 DEF StoredInv, RecordedIsStored, AcknowledgedIsStored
<1>6. ASSUME NEW h \in Handlers, StoreMessage(h) \/ UpdateStatus(h) PROVE StoredInv'
  <2>1. /\ at[h] \in {"storing", "updating"} /\ at' = [at EXCEPT ![h] = at'[h]]
        /\ recorded' = recorded \cup {EventOf(h)} /\ stored \subseteq stored'
        /\ EventOf(h) \in Messages => EventOf(h) \in stored'
        /\ UNCHANGED <<payload, acknowledged>>
        /\ \/ position' = position
           \/ position' = [position EXCEPT ![h] = @ + 1]
    BY <1>0, <1>6 DEF StoreMessage, UpdateStatus, Commit, Goto, WebhookTypeOK, Placed
  <2>2. Passed(h) /\ position[h] <= Len(Content[payload[h]])
    BY <1>0, <2>1 DEF StoredInv, Placed
  <2>3. Passed(h)'
    <3>1. CASE position' = position
      BY <2>1, <2>2, <3>1 DEF Passed
    <3>2. CASE position' # position
      <4>1. position'[h] = position[h] + 1 /\ payload'[h] = payload[h]
        BY <2>1, <3>2 DEF WebhookTypeOK
      <4>2. ASSUME NEW i \in 1..Len(Content[payload[h]]), i < position[h] + 1,
                   Content[payload[h]][i] \in Active \cap Messages
            PROVE Content[payload[h]][i] \in stored'
        <5>1. CASE i = position[h]
          BY <2>1, <4>2, <5>1 DEF EventOf
        <5>2. CASE i # position[h]
          <6>1. i < position[h]
            BY <1>0, <4>2, <5>2
          <6> QED BY <2>1, <2>2, <4>2, <6>1 DEF Passed
        <5> QED BY <5>1, <5>2
      <4> QED BY <4>1, <4>2 DEF Passed
    <3> QED BY <3>1, <3>2
  <2>4. \A g \in Handlers \ {h} : position'[g] = position[g] /\ payload'[g] = payload[g]
    BY <2>1 DEF WebhookTypeOK
  <2>5. \A g \in Handlers : at'[g] # "idle" => Passed(g)'
    BY <2>1, <2>3, <2>4, OthersBehind
  <2> QED BY <2>1, <2>5 DEF StoredInv, RecordedIsStored, AcknowledgedIsStored
<1>7. ASSUME Purge PROVE StoredInv'
  BY <1>7 DEF StoredInv, RecordedIsStored, AcknowledgedIsStored, Passed, Purge, handling
<1> QED BY <1>1, <1>2, <1>3, <1>4, <1>5, <1>6, <1>7 DEF Next, Handle, Apply

\* An event on record has left its message, for any payloads and failures.
THEOREM RecordedIsStoredCorrect == Spec => []RecordedIsStored
<1>1. Init => StoredInv
  BY DEF Init, StoredInv, RecordedIsStored, AcknowledgedIsStored
<1>2. StoredInv => RecordedIsStored
  BY DEF StoredInv
<1> QED BY <1>1, <1>2, WebhookTypeCorrect, StoredStep, PTL DEF Spec

\* The provider forgets no message of an enabled account that is not stored.
THEOREM NothingAcknowledgedIsLost == Spec => []AcknowledgedIsStored
<1>1. Init => StoredInv
  BY DEF Init, StoredInv, RecordedIsStored, AcknowledgedIsStored
<1>2. StoredInv => AcknowledgedIsStored
  BY DEF StoredInv
<1> QED BY <1>1, <1>2, WebhookTypeCorrect, StoredStep, PTL DEF Spec

-----------------------------------------------------------------------------
\* A message stored for the first time adds one to its conversation's count.
LEMMA CountStored ==
    ASSUME WebhookTypeOK, CountedOnce, NEW h \in Handlers, StoreMessage(h)
    PROVE  CountedOnce'
<1> USE WebhookAssumption
<1> DEFINE m == EventOf(h)
           Of(c) == {k \in stored : ConversationOf[k] = c}
<1>1. m \in Messages /\ m \notin stored /\ ConversationOf[m] \in Conversations
  <2>1. Placed(h) /\ at[h] = "storing"
    BY DEF WebhookTypeOK, StoreMessage
  <2> QED BY <2>1 DEF Placed, StoreMessage, Known
<1>2. stored' = stored \cup {m} /\ unread' = [unread EXCEPT ![ConversationOf[m]] = @ + 1]
  BY DEF StoreMessage
<1>3. ASSUME NEW c \in Conversations
      PROVE  unread'[c] = Cardinality({k \in stored' : ConversationOf[k] = c})
  <2>1. IsFiniteSet(Of(c)) /\ m \notin Of(c) /\ unread[c] = Cardinality(Of(c)) /\ unread[c] \in Nat
    <3>1. Of(c) \subseteq Messages
      BY DEF WebhookTypeOK
    <3> QED BY <1>1, <3>1, FS_Subset DEF CountedOnce, WebhookTypeOK
  <2>2. CASE c = ConversationOf[m]
    <3>1. {k \in stored' : ConversationOf[k] = c} = Of(c) \cup {m}
      BY <1>2, <2>2
    <3>2. Cardinality(Of(c) \cup {m}) = Cardinality(Of(c)) + 1
      BY <2>1, FS_AddElement
    <3>3. unread'[c] = unread[c] + 1
      BY <1>2, <2>2 DEF WebhookTypeOK
    <3> QED BY <2>1, <3>1, <3>2, <3>3
  <2>3. CASE c # ConversationOf[m]
    <3>1. {k \in stored' : ConversationOf[k] = c} = Of(c)
      BY <1>2, <2>3
    <3> QED BY <1>2, <2>1, <2>3, <3>1 DEF WebhookTypeOK
  <2> QED BY <2>2, <2>3
<1>4. ASSUME NEW k \in Messages PROVE timeline'[k] <= IF k \in stored' THEN 1 ELSE 0
  <2>1. PICK linked \in {0, 1} : timeline' = [timeline EXCEPT ![m] = @ + linked]
    BY DEF StoreMessage
  <2>2. timeline[k] \in Nat /\ timeline[m] \in Nat /\ timeline[m] <= 0
        /\ timeline[k] <= IF k \in stored THEN 1 ELSE 0
    BY <1>1 DEF WebhookTypeOK, CountedOnce
  <2>3. CASE k = m
    BY <1>1, <1>2, <2>1, <2>2, <2>3 DEF WebhookTypeOK
  <2>4. CASE k # m
    BY <1>2, <2>1, <2>2, <2>4 DEF WebhookTypeOK
  <2> QED BY <2>3, <2>4
<1> QED BY <1>3, <1>4 DEF CountedOnce

\* Every other step leaves the messages and their counts alone.
LEMMA OthersLeaveCounts ==
    ASSUME [Next]_vars, \A h \in Handlers : ~StoreMessage(h)
    PROVE  UNCHANGED <<stored, unread, timeline>>
BY DEF Next, vars, tables, Handle, Apply, Post, Resolve, Acknowledge, InsertEvent,
       UpsertConversation, KnownMessage, ReadStatus, UpdateStatus, Fails, Purge

\* However often it is posted, a message is counted once.
THEOREM CountedOnceCorrect == Spec => []CountedOnce
<1>1. Init => CountedOnce
  <2> SUFFICES ASSUME Init PROVE CountedOnce
    OBVIOUS
  <2>1. \A c \in Conversations : {k \in stored : ConversationOf[k] = c} = {}
    BY DEF Init
  <2> QED BY <2>1, FS_EmptySet DEF Init, CountedOnce
<1>2. WebhookTypeOK /\ CountedOnce /\ [Next]_vars => CountedOnce'
  <2> SUFFICES ASSUME WebhookTypeOK, CountedOnce, [Next]_vars PROVE CountedOnce'
    OBVIOUS
  <2>1. CASE \E h \in Handlers : StoreMessage(h)
    BY <2>1, CountStored
  <2>2. CASE \A h \in Handlers : ~StoreMessage(h)
    BY <2>2, OthersLeaveCounts DEF CountedOnce
  <2> QED BY <2>1, <2>2
<1> QED BY <1>1, <1>2, WebhookTypeCorrect, PTL DEF Spec

\* The handlers implement the inbox: each step of theirs is the arrival of one
\* message or changes nothing there.
THEOREM WebhookIsInbox == Spec => ImplementsInbox
<1>1. Init => Promised!Init
  BY DEF Init, Promised!Init
<1>2. WebhookTypeOK /\ [Next]_vars => [\E m \in Messages : Promised!Arrive(m)]_<<stored, unread>>
  <2> SUFFICES ASSUME WebhookTypeOK, [Next]_vars
               PROVE  [\E m \in Messages : Promised!Arrive(m)]_<<stored, unread>>
    OBVIOUS
  <2>1. ASSUME NEW h \in Handlers, StoreMessage(h) PROVE \E m \in Messages : Promised!Arrive(m)
    <3>1. Placed(h) /\ at[h] = "storing"
      BY <2>1 DEF WebhookTypeOK, StoreMessage
    <3>2. EventOf(h) \in Messages
      BY <3>1 DEF Placed
    <3>3. Promised!Arrive(EventOf(h))
      BY <2>1 DEF Promised!Arrive, StoreMessage, Known
    <3> QED BY <3>2, <3>3
  <2> QED BY <2>1, OthersLeaveCounts
<1> QED BY <1>1, <1>2, WebhookTypeCorrect, PTL DEF Spec, ImplementsInbox, Promised!Spec
=============================================================================
