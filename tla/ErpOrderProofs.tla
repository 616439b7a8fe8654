--------------------------- MODULE ErpOrderProofs ---------------------------
(***************************************************************************)
(* Proofs about ErpOrder, for any number of opportunities, requests and    *)
(* synchronisations: types; a cancelled order is one the ERP cancelled; a  *)
(* known order blocks later attempts, and a test later tests; requests go  *)
(* forward only.                                                           *)
(***************************************************************************)
EXTENDS ErpOrderSlot, TLAPS

\* What an update of a row, and of a loop's record, leaves them to be.
LEMMA SettleType ==
    ASSUME row \in [Requests -> Row], NEW r \in Requests,
           NEW status \in {"sent", "error"}, NEW text \in Failure \cup {"none"},
           Settle(r, status, text)
    PROVE  row' \in [Requests -> Row]
<1> DEFINE w == [row[r] EXCEPT !.status = status, !.text = text]
<1>1. w \in Row
  BY DEF Row
<1>2. row' = [row EXCEPT ![r] = w]
  BY DEF Settle
<1> HIDE DEF w
<1> QED BY <1>1, <1>2

Loop == [todo : SUBSET Requests, seen : [Requests -> OrderStatus],
         order : Requests \cup {None}, value : OrderStatus]

LEMMA ProcessedType ==
    ASSUME sync \in [Syncs -> Loop], NEW s \in Syncs, NEW r \in Requests, Processed(s, r)
    PROVE  sync' \in [Syncs -> Loop]
<1> DEFINE seen == [sync[s].seen EXCEPT ![r] = "null"]
           w == [todo |-> sync[s].todo \ {r}, seen |-> seen, order |-> None, value |-> "null"]
<1>1. sync[s] \in Loop
  OBVIOUS
<1>2. seen \in [Requests -> OrderStatus]
  BY <1>1 DEF Loop, OrderStatus
<1>3. sync' = [sync EXCEPT ![s] = w]
  BY DEF Processed
<1> HIDE DEF seen
<1>4. w \in Loop
  BY <1>1, <1>2 DEF Loop, OrderStatus
<1> HIDE DEF w
<1> QED BY <1>3, <1>4

\* A step of any kind keeps the types: the shapes of the records written to
\* ErpOrderSync and of the loops over it.
LEMMA TypeStep == TypeOK /\ [Next]_vars => TypeOK'
<1> SUFFICES ASSUME TypeOK, [Next]_vars PROVE TypeOK'
  OBVIOUS
<1> USE DEF TypeOK, Goto
<1>1. ASSUME NEW r \in Requests, Load(r) \/ Abandon(r)
      PROVE TypeOK'
  BY <1>1 DEF Load, Abandon
<1>2. ASSUME NEW r \in Requests, Persist(r)
      PROVE TypeOK'
  <2> DEFINE w == [status |-> "pending", text |-> "none", orderStatus |-> "null", createdAt |-> created + 1]
  <2>1. w \in Row
    BY DEF Row, OrderStatus
  <2>2. row' = [row EXCEPT ![r] = w]
    BY <1>2 DEF Persist
  <2> HIDE DEF w
  <2>3. row' \in [Requests -> Row]
    BY <2>1, <2>2
  <2> QED BY <1>2, <2>3 DEF Persist
<1>3. ASSUME NEW r \in Requests, PostOrder(r) \/ PostFails(r) \/ Answer(r)
      PROVE TypeOK'
  BY <1>3 DEF PostOrder, PostFails, Answer, Outcomes, Failure
<1>4. ASSUME NEW r \in Requests, RecordSent(r) \/ RecordFailure(r)
      PROVE TypeOK'
  <2>1. row' \in [Requests -> Row]
    BY <1>4, SettleType DEF RecordSent, RecordFailure
  <2> QED BY <1>4, <2>1 DEF RecordSent, RecordFailure
<1>5. ASSUME NEW r \in Requests, RecordSentFails(r) \/ RecordFailureFails(r) \/ Crash(r)
      PROVE TypeOK'
  BY <1>5 DEF RecordSentFails, RecordFailureFails, Crash
<1>6. ASSUME NEW r \in Requests, ErpHandles(r) \/ ErpCancels(r)
      PROVE TypeOK'
  BY <1>6 DEF ErpHandles, ErpCancels, Held
<1>7. ASSUME NEW a \in Attempts, OrderFlow(a)
      PROVE TypeOK'
  BY <1>7 DEF OrderFlow, CheckSent, CheckUncertain, Requests
<1>8. ASSUME NEW p \in ProtocolTests, CheckAttempts(p)
      PROVE TypeOK'
  BY <1>8 DEF CheckAttempts, Requests
<1>9. ASSUME NEW s \in Syncs, StatusSync(s)
      PROVE TypeOK'
  <2>0. sync \in [Syncs -> Loop]
    BY DEF Loop
  <2>1. ASSUME NEW scope, BeginSync(s, scope)
        PROVE TypeOK'
    <3> DEFINE orders == {r \in Requests : OpportunityOf[r] \in scope /\ row[r].status = "sent"}
               seen == [r \in Requests |-> IF r \in orders THEN row[r].orderStatus ELSE "null"]
               w == [todo |-> orders, seen |-> seen, order |-> None, value |-> "null"]
    <3>1. seen \in [Requests -> OrderStatus]
      BY DEF Row, OrderStatus
    <3>2. sync' = [sync EXCEPT ![s] = w]
      BY <2>1 DEF BeginSync
    <3> HIDE DEF seen
    <3>3. w \in Loop
      BY <3>1 DEF Loop, OrderStatus
    <3> HIDE DEF w
    <3>4. sync' \in [Syncs -> Loop]
      BY <2>0, <3>2, <3>3
    <3> QED BY <2>1, <3>4 DEF BeginSync, Loop
  <2>2. ASSUME NEW r \in Requests, NEW readable \in BOOLEAN, AskStatus(s, r, readable)
        PROVE TypeOK'
    <3> DEFINE w == [sync[s] EXCEPT !.order = r, !.value = StatusOf(s, r, readable)]
    <3>1. StatusOf(s, r, readable) \in OrderStatus
      BY <2>2 DEF AskStatus, StatusOf, OrderStatus, Held
    <3>2. sync' = [sync EXCEPT ![s] = w]
      BY <2>2 DEF AskStatus
    <3>3. w \in Loop
      BY <2>0, <3>1 DEF Loop
    <3> HIDE DEF w
    <3>4. sync' \in [Syncs -> Loop]
      BY <2>0, <3>2, <3>3
    <3> QED BY <2>2, <3>4 DEF AskStatus, Loop
  <2>3. ASSUME WriteStatus(s)
        PROVE TypeOK'
    <3> DEFINE q == sync[s].order
               w == [row[q] EXCEPT !.orderStatus = sync[s].value]
    <3>1. q \in Requests /\ sync[s].value \in OrderStatus
      BY <2>3 DEF WriteStatus
    <3> HIDE DEF q
    <3>2. w \in Row
      <4>1. row[q] \in Row
        BY <3>1
      <4> QED BY <3>1, <4>1 DEF Row
    <3>3. row' = [row EXCEPT ![q] = w] /\ Processed(s, q)
      BY <2>3 DEF WriteStatus, q
    <3>4. sync' \in [Syncs -> Loop]
      BY <2>0, <3>1, <3>3, ProcessedType
    <3> HIDE DEF w
    <3>5. row' \in [Requests -> Row]
      BY <3>1, <3>2, <3>3
    <3> QED BY <2>3, <3>4, <3>5 DEF WriteStatus, Loop
  <2>4. ASSUME NEW r \in Requests, SkipStatus(s, r)
        PROVE TypeOK'
    <3>1. sync' \in [Syncs -> Loop]
      BY <2>0, <2>4, ProcessedType DEF SkipStatus
    <3> QED BY <2>4, <3>1 DEF SkipStatus, Loop
  <2>5. ASSUME StopSync(s)
        PROVE TypeOK'
    <3>1. IdleSync \in Loop
      BY DEF IdleSync, Loop, OrderStatus
    <3>2. sync' \in [Syncs -> Loop]
      BY <2>0, <2>5, <3>1 DEF StopSync
    <3> QED BY <2>5, <3>2 DEF StopSync, Loop
  <2> QED BY <1>9, <2>1, <2>2, <2>3, <2>4, <2>5 DEF StatusSync, StatusLoop
<1>10. ASSUME NEW o \in Opportunities, ChangeStage(o)
       PROVE TypeOK'
  BY <1>10 DEF ChangeStage
<1>11. ASSUME NEW o \in Opportunities, DeleteOpportunity(o)
       PROVE TypeOK'
  <2>1. NoRow \in Row
    BY DEF NoRow, Row, OrderStatus
  <2> QED BY <1>11, <2>1 DEF DeleteOpportunity
<1>12. CASE UNCHANGED vars
  BY <1>12 DEF vars
<1> QED
  BY <1>1, <1>2, <1>3, <1>4, <1>5, <1>6, <1>7, <1>8, <1>9, <1>10, <1>11, <1>12 DEF Next, Handler

\* The rows of ErpOrderSync, the places of the handlers and the loops of the
\* synchronisations keep their shapes in every reachable state.
THEOREM TypeCorrect == Spec => []TypeOK
<1>1. Init => TypeOK
  BY RequestsAssumption DEF Init, TypeOK, Row, NoRow, IdleSync, OrderStatus, Failure, Held
<1>2. QED
  BY <1>1, TypeStep, PTL DEF Spec

-----------------------------------------------------------------------------
(* What the updates of the table and of the loops change, field by field. *)

LEMMA SettleEffect ==
    ASSUME row \in [Requests -> Row], NEW r \in Requests,
           NEW status \in {"sent", "error"}, NEW text \in Failure \cup {"none"},
           Settle(r, status, text)
    PROVE  /\ row[r].status # "none"
           /\ row'[r].status = status /\ row'[r].text = text
           /\ row'[r].orderStatus = row[r].orderStatus /\ row'[r].createdAt = row[r].createdAt
           /\ \A q \in Requests : q # r => row'[q] = row[q]
<1> DEFINE w == [row[r] EXCEPT !.status = status, !.text = text]
<1>0. row[r] \in Row
  OBVIOUS
<1>1. /\ w.status = status /\ w.text = text
      /\ w.orderStatus = row[r].orderStatus /\ w.createdAt = row[r].createdAt
  BY <1>0 DEF Row
<1>2. row' = [row EXCEPT ![r] = w] /\ row[r].status # "none"
  BY DEF Settle
<1> HIDE DEF w
<1> QED BY <1>1, <1>2

\* Writing an order status touches neither status, text nor age of any row.
LEMMA WriteEffect ==
    ASSUME row \in [Requests -> Row], sync \in [Syncs -> Loop], NEW s \in Syncs, WriteStatus(s),
           None \notin Requests
    PROVE  /\ sync[s].order \in Requests
           /\ row'[sync[s].order].orderStatus = sync[s].value
           /\ \A q \in Requests : q # sync[s].order => row'[q] = row[q]
           /\ \A q \in Requests : /\ row'[q].status = row[q].status /\ row'[q].text = row[q].text
                                  /\ row'[q].createdAt = row[q].createdAt
<1> DEFINE r == sync[s].order
           w == [row[r] EXCEPT !.orderStatus = sync[s].value]
<1>1. r \in Requests
  BY DEF WriteStatus, Loop
<1>2. row' = [row EXCEPT ![r] = w]
  BY DEF WriteStatus
<1> HIDE DEF r
<1>3. row[r] \in Row
  BY <1>1
<1>4. /\ w.orderStatus = sync[s].value /\ w.status = row[r].status
      /\ w.text = row[r].text /\ w.createdAt = row[r].createdAt
  BY <1>3 DEF Row
<1> HIDE DEF w
<1>5. /\ r \in Requests /\ row'[r].orderStatus = sync[s].value
      /\ \A q \in Requests : q # r => row'[q] = row[q]
      /\ \A q \in Requests : /\ row'[q].status = row[q].status /\ row'[q].text = row[q].text
                             /\ row'[q].createdAt = row[q].createdAt
  BY <1>1, <1>2, <1>4
<1> QED BY <1>5 DEF r

\* A loop that is done with an order forgets it and holds nothing new.
LEMMA ProcessedEffect ==
    ASSUME sync \in [Syncs -> Loop], NEW s \in Syncs, NEW r \in Requests, Processed(s, r)
    PROVE  /\ \A t \in Syncs : t # s => sync'[t] = sync[t]
           /\ sync'[s].order = None
           /\ \A q \in Requests : sync'[s].seen[q] \in {"null", sync[s].seen[q]}
<1> DEFINE seen == [sync[s].seen EXCEPT ![r] = "null"]
           w == [todo |-> sync[s].todo \ {r}, seen |-> seen, order |-> None, value |-> "null"]
<1>1. sync[s] \in Loop
  OBVIOUS
<1>2. \A q \in Requests : seen[q] \in {"null", sync[s].seen[q]}
  BY <1>1 DEF Loop
<1>3. sync' = [sync EXCEPT ![s] = w]
  BY DEF Processed
<1> HIDE DEF seen
<1>4. w.order = None /\ w.seen = seen
  OBVIOUS
<1> HIDE DEF w
<1> QED BY <1>2, <1>3, <1>4

-----------------------------------------------------------------------------
(* CancelledIsTrue: no written or held status outruns the ERP. *)

LEMMA StatusStep == TypeOK /\ StatusInv /\ [Next]_vars => StatusInv'
<1> SUFFICES ASSUME TypeOK, StatusInv, [Next]_vars PROVE StatusInv'
  OBVIOUS
<1>0. /\ pc \in [Requests -> {"idle", "loaded", "checked", "cleared", "reserved",
                              "posting", "answered", "done"}]
      /\ row \in [Requests -> Row] /\ outcome \in [Requests -> Failure \cup {"none", "ok"}]
      /\ erp \in [Requests -> Held \cup {"absent", "inflight", "refused"}]
      /\ sync \in [Syncs -> Loop] /\ None \notin Requests
      /\ Attempts \subseteq Requests /\ ProtocolTests \subseteq Requests
  BY RequestsAssumption DEF TypeOK, Loop, Requests
<1> USE DEF StatusInv, CancelledIsTrue
<1>1. ASSUME NEW r \in Requests,
             Load(r) \/ Abandon(r) \/ PostFails(r) \/ Answer(r) \/ RecordSentFails(r)
               \/ RecordFailureFails(r) \/ Crash(r) \/ CheckSent(r) \/ CheckUncertain(r) \/ CheckAttempts(r)
      PROVE StatusInv'
  <2>1. /\ UNCHANGED <<row, erp, sync>>
        /\ \A q \in Requests :
             pc'[q] \in {"idle", "loaded", "checked", "cleared", "reserved"}
               => pc[q] \in {"idle", "loaded", "checked", "cleared", "reserved"}
    BY <1>0, <1>1 DEF Load, Abandon, PostFails, Answer, RecordSentFails, RecordFailureFails,
                      Crash, CheckSent, CheckUncertain, CheckAttempts, Goto
  <2> QED BY <2>1
<1>2. ASSUME NEW r \in Requests, Persist(r)
      PROVE StatusInv'
  <2>1. \A q \in Requests : row'[q].orderStatus = row[q].orderStatus \/ row'[q].orderStatus = "null"
    BY <1>0, <1>2 DEF Persist
  <2>2. UNCHANGED <<erp, sync>> /\ pc[r] = "cleared" /\ pc' = [pc EXCEPT ![r] = "reserved"]
    BY <1>2 DEF Persist, Goto
  <2> QED BY <1>0, <2>1, <2>2
<1>3. ASSUME NEW r \in Requests, PostOrder(r)
      PROVE StatusInv'
  <2>1. /\ UNCHANGED <<row, sync>> /\ erp[r] = "absent" /\ erp' = [erp EXCEPT ![r] = "inflight"]
        /\ pc' = [pc EXCEPT ![r] = "posting"]
    BY <1>3 DEF PostOrder, Goto
  <2> QED BY <1>0, <2>1
<1>4. ASSUME NEW r \in Requests, RecordSent(r) \/ RecordFailure(r)
      PROVE StatusInv'
  <2>1. \A q \in Requests : row'[q].orderStatus = row[q].orderStatus
    BY <1>0, <1>4, SettleEffect DEF RecordSent, RecordFailure
  <2>2. UNCHANGED <<erp, sync>> /\ pc' = [pc EXCEPT ![r] = "done"]
    BY <1>4 DEF RecordSent, RecordFailure, Goto
  <2> QED BY <1>0, <2>1, <2>2
<1>5. ASSUME NEW r \in Requests, ErpHandles(r) \/ ErpCancels(r)
      PROVE StatusInv'
  <2>1. /\ UNCHANGED <<pc, row, sync>> /\ erp[r] \in {"inflight", "ativo"}
        /\ \A q \in Requests : q # r => erp'[q] = erp[q]
    BY <1>0, <1>5 DEF ErpHandles, ErpCancels
  <2> QED BY <2>1
<1>6. ASSUME NEW s \in Syncs, StatusSync(s)
      PROVE StatusInv'
  <2>0. ASSUME UNCHANGED <<pc, row, erp>>,
               \A t \in Syncs : t # s => sync'[t] = sync[t],
               \A r \in Requests :
                 /\ sync'[s].seen[r] = "cancelado" => erp[r] = "cancelado"
                 /\ sync'[s].order = r /\ sync'[s].value = "cancelado" => erp[r] = "cancelado"
        PROVE StatusInv'
    BY <2>0
  <2>1. ASSUME NEW scope, BeginSync(s, scope)
        PROVE StatusInv'
    <3> DEFINE orders == {r \in Requests : OpportunityOf[r] \in scope /\ row[r].status = "sent"}
               seen == [r \in Requests |-> IF r \in orders THEN row[r].orderStatus ELSE "null"]
               w == [todo |-> orders, seen |-> seen, order |-> None, value |-> "null"]
    <3>1. sync' = [sync EXCEPT ![s] = w] /\ UNCHANGED <<pc, row, erp>>
      BY <2>1 DEF BeginSync
    <3>2. \A r \in Requests : seen[r] = "cancelado" => erp[r] = "cancelado"
      OBVIOUS
    <3> HIDE DEF seen
    <3>3. w.seen = seen /\ w.order = None
      OBVIOUS
    <3> HIDE DEF w
    <3>4. sync'[s] = w /\ \A t \in Syncs : t # s => sync'[t] = sync[t]
      BY <1>0, <3>1
    <3> QED BY <1>0, <2>0, <3>1, <3>2, <3>3, <3>4
  <2>2. ASSUME NEW r \in Requests, NEW readable \in BOOLEAN, AskStatus(s, r, readable)
        PROVE StatusInv'
    <3> DEFINE w == [sync[s] EXCEPT !.order = r, !.value = StatusOf(s, r, readable)]
    <3>1. sync' = [sync EXCEPT ![s] = w] /\ UNCHANGED <<pc, row, erp>>
      BY <2>2 DEF AskStatus
    <3>2. StatusOf(s, r, readable) = "cancelado" => erp[r] = "cancelado"
      BY DEF StatusOf
    <3>3. w.seen = sync[s].seen /\ w.order = r /\ w.value = StatusOf(s, r, readable)
      <4>1. sync[s] \in Loop
        BY <1>0
      <4> QED BY <4>1 DEF Loop
    <3> HIDE DEF w
    <3>4. sync'[s] = w /\ \A t \in Syncs : t # s => sync'[t] = sync[t]
      BY <1>0, <3>1
    <3> QED BY <2>0, <3>1, <3>2, <3>3, <3>4
  <2>3. ASSUME NEW r \in Requests, Processed(s, r), UNCHANGED <<pc, erp>>
        PROVE  /\ \A t \in Syncs : t # s => sync'[t] = sync[t]
               /\ \A q \in Requests :
                 /\ sync'[s].seen[q] = "cancelado" => erp[q] = "cancelado"
                 /\ sync'[s].order = q /\ sync'[s].value = "cancelado" => erp[q] = "cancelado"
    BY <1>0, <2>3, ProcessedEffect
  <2>4. ASSUME WriteStatus(s)
        PROVE StatusInv'
    <3>1. /\ sync[s].order \in Requests /\ Processed(s, sync[s].order) /\ UNCHANGED <<pc, erp>>
          /\ row'[sync[s].order].orderStatus = sync[s].value
          /\ \A q \in Requests : q # sync[s].order => row'[q] = row[q]
      BY <1>0, <2>4, WriteEffect DEF WriteStatus
    <3> QED BY <2>3, <3>1
  <2>5. ASSUME NEW r \in Requests, SkipStatus(s, r)
        PROVE StatusInv'
    BY <2>0, <2>3, <2>5 DEF SkipStatus
  <2>6. ASSUME StopSync(s)
        PROVE StatusInv'
    <3>1. sync'[s] = IdleSync /\ \A t \in Syncs : t # s => sync'[t] = sync[t]
      BY <1>0, <2>6 DEF StopSync
    <3>2. /\ UNCHANGED <<pc, row, erp>>
          /\ \A r \in Requests : IdleSync.seen[r] = "null"
          /\ IdleSync.order = None
      BY <2>6 DEF StopSync, IdleSync
    <3> QED BY <1>0, <2>0, <3>1, <3>2
  <2> QED BY <1>6, <2>1, <2>2, <2>4, <2>5, <2>6 DEF StatusSync, StatusLoop
<1>7. ASSUME NEW o \in Opportunities, ChangeStage(o)
      PROVE StatusInv'
  BY <1>7 DEF ChangeStage
<1>8. ASSUME NEW o \in Opportunities, DeleteOpportunity(o)
      PROVE StatusInv'
  <2>1. \A q \in Requests : row'[q] = row[q] \/ row'[q].orderStatus = "null"
    BY <1>8 DEF DeleteOpportunity, NoRow
  <2> QED BY <1>8, <2>1 DEF DeleteOpportunity
<1>9. CASE UNCHANGED vars
  BY <1>9 DEF vars
<1> QED
  BY <1>0, <1>1, <1>2, <1>3, <1>4, <1>5, <1>6, <1>7, <1>8, <1>9 DEF Next, Handler, OrderFlow

\* Every cancelled status a synchronisation holds, however long ago it read it,
\* is that of an order the ERP has cancelled, and no order is in the ERP before
\* its request sends it.
THEOREM StatusCorrect == Spec => []StatusInv
<1>1. Init => StatusInv
  BY RequestsAssumption DEF Init, StatusInv, CancelledIsTrue, NoRow, IdleSync
<1> QED
  BY <1>1, StatusStep, TypeCorrect, PTL DEF Spec

\* An order the CRM shows as cancelled, which frees its opportunity for another
\* order, is cancelled in the ERP: whatever synchronisations overlap and
\* however old the status they write.
THEOREM CancelledOnlyIfCancelled == Spec => []CancelledIsTrue
<1>1. StatusInv => CancelledIsTrue
  BY DEF StatusInv
<1> QED
  BY <1>1, StatusCorrect, PTL

-----------------------------------------------------------------------------
(* What a step does to one request, one row and one opportunity. *)

\* A request that sends nothing yet: where it goes, and by which check.
LEMMA EarlyStep ==
    ASSUME TypeOK, [Next]_vars, NEW r \in Requests,
           pc[r] \in {"idle", "loaded", "checked", "cleared", "done"}
    PROVE  \/ pc'[r] \in {pc[r], "done"}
           \/ pc[r] = "idle" /\ pc'[r] = "loaded"
           \/ r \in Attempts /\ (CheckSent(r) \/ CheckUncertain(r))
           \/ r \in ProtocolTests /\ CheckAttempts(r)
           \/ Persist(r)
<1>0. /\ pc \in [Requests -> {"idle", "loaded", "checked", "cleared", "reserved",
                              "posting", "answered", "done"}]
      /\ Attempts \subseteq Requests /\ ProtocolTests \subseteq Requests
  BY DEF TypeOK, Requests
<1> USE <1>0 DEF Goto
<1>1. ASSUME NEW q \in Requests,
             \/ Load(q) \/ Abandon(q) \/ PostOrder(q) \/ PostFails(q) \/ Answer(q) \/ RecordSent(q)
             \/ RecordSentFails(q) \/ RecordFailure(q) \/ RecordFailureFails(q) \/ Crash(q)
             \/ ErpHandles(q) \/ ErpCancels(q)
      PROVE  pc'[r] \in {pc[r], "done"} \/ (pc[r] = "idle" /\ pc'[r] = "loaded")
  <2>1. CASE Load(q) \/ Abandon(q) \/ Crash(q)
    BY <2>1 DEF Load, Abandon, Crash
  <2>2. CASE PostOrder(q) \/ PostFails(q) \/ Answer(q)
    BY <2>2 DEF PostOrder, PostFails, Answer
  <2>3. CASE RecordSent(q) \/ RecordSentFails(q) \/ RecordFailure(q) \/ RecordFailureFails(q)
    BY <2>3 DEF RecordSent, RecordSentFails, RecordFailure, RecordFailureFails
  <2>4. CASE ErpHandles(q) \/ ErpCancels(q)
    BY <2>4 DEF ErpHandles, ErpCancels
  <2> QED BY <1>1, <2>1, <2>2, <2>3, <2>4
<1>2. ASSUME NEW q \in Requests, Persist(q), q # r PROVE pc'[r] = pc[r]
  BY <1>2 DEF Persist
<1>3. ASSUME NEW a \in Attempts, OrderFlow(a), a # r PROVE pc'[r] = pc[r]
  BY <1>3 DEF OrderFlow, CheckSent, CheckUncertain
<1>4. ASSUME NEW p \in ProtocolTests, CheckAttempts(p), p # r PROVE pc'[r] = pc[r]
  BY <1>4 DEF CheckAttempts
<1>5. ASSUME NEW s \in Syncs, StatusSync(s) PROVE pc'[r] = pc[r]
  BY <1>5 DEF StatusSync, StatusLoop, BeginSync, AskStatus, WriteStatus, SkipStatus, StopSync
<1>6. ASSUME NEW o \in Opportunities, ChangeStage(o) \/ DeleteOpportunity(o) PROVE pc'[r] = pc[r]
  BY <1>6 DEF ChangeStage, DeleteOpportunity
<1>7. CASE UNCHANGED vars
  BY <1>7 DEF vars
<1> QED BY <1>1, <1>2, <1>3, <1>4, <1>5, <1>6, <1>7 DEF Next, Handler, OrderFlow

\* A request that has ended stays so.
LEMMA DoneStep ==
    ASSUME TypeOK, [Next]_vars, NEW r \in Requests, pc[r] = "done"
    PROVE  pc'[r] = "done"
BY EarlyStep DEF CheckSent, CheckUncertain, CheckAttempts, Persist

\* The four writers of a row: its creation, its result, a status
\* synchronisation, and the deletion of its opportunity.
LEMMA RowStep ==
    ASSUME TypeOK, [Next]_vars, NEW r \in Requests
    PROVE  \/ row'[r] = row[r]
           \/ Persist(r)
           \/ /\ pc[r] = "answered" /\ pc'[r] = "done"
              /\ row[r].status # "none" /\ row'[r].status \in {"sent", "error"}
           \/ /\ row[r].status # "none" /\ row'[r].status = row[r].status
              /\ \E s \in Syncs : sync[s].order = r /\ row'[r].orderStatus = sync[s].value
           \/ row'[r] = NoRow /\ stage'[OpportunityOf[r]] = "excluida"
<1>0. /\ DOMAIN pc = Requests /\ DOMAIN row = Requests /\ DOMAIN stage = Opportunities
      /\ row \in [Requests -> Row] /\ sync \in [Syncs -> Loop] /\ None \notin Requests
  BY RequestsAssumption DEF TypeOK, Loop
<1>1. ASSUME NEW q \in Requests,
             \/ Load(q) \/ Abandon(q) \/ PostOrder(q) \/ PostFails(q) \/ Answer(q)
             \/ RecordSentFails(q) \/ RecordFailureFails(q) \/ Crash(q)
             \/ ErpHandles(q) \/ ErpCancels(q)
      PROVE  row' = row
  BY <1>1 DEF Load, Abandon, PostOrder, PostFails, Answer, RecordSentFails,
       RecordFailureFails, Crash, ErpHandles, ErpCancels
<1>2. ASSUME NEW q \in Requests, Persist(q), q # r PROVE row'[r] = row[r]
  BY <1>0, <1>2 DEF Persist
<1>3. ASSUME NEW q \in Requests, RecordSent(q) \/ RecordFailure(q)
      PROVE  \/ row'[r] = row[r]
             \/ /\ pc[r] = "answered" /\ pc'[r] = "done"
                /\ row[r].status # "none" /\ row'[r].status \in {"sent", "error"}
  <2>1. CASE q = r
    BY <1>0, <1>3, <2>1, SettleEffect DEF RecordSent, RecordFailure, Goto
  <2>2. CASE q # r
    BY <1>0, <1>3, <2>2, SettleEffect DEF RecordSent, RecordFailure
  <2> QED BY <2>1, <2>2
<1>4. ASSUME NEW a \in Attempts, OrderFlow(a) PROVE row' = row
  BY <1>4 DEF OrderFlow, CheckSent, CheckUncertain
<1>5. ASSUME NEW p \in ProtocolTests, CheckAttempts(p) PROVE row' = row
  BY <1>5 DEF CheckAttempts
<1>6. ASSUME NEW s \in Syncs, WriteStatus(s)
      PROVE  \/ row'[r] = row[r]
             \/ /\ row[r].status # "none" /\ row'[r].status = row[r].status
                /\ sync[s].order = r /\ row'[r].orderStatus = sync[s].value
  BY <1>0, <1>6, WriteEffect DEF WriteStatus
<1>7. ASSUME NEW s \in Syncs, StatusSync(s), ~WriteStatus(s) PROVE row' = row
  BY <1>7 DEF StatusSync, StatusLoop, BeginSync, AskStatus, SkipStatus, StopSync
<1>8. ASSUME NEW o \in Opportunities, ChangeStage(o) PROVE row' = row
  BY <1>8 DEF ChangeStage
<1>9. ASSUME NEW o \in Opportunities, DeleteOpportunity(o)
      PROVE  row'[r] = row[r] \/ (row'[r] = NoRow /\ stage'[OpportunityOf[r]] = "excluida")
  <2>1. row'[r] = IF OpportunityOf[r] = o THEN NoRow ELSE row[r]
    BY <1>9, Zenon DEF DeleteOpportunity
  <2>2. stage'[o] = "excluida"
    BY <1>0, <1>9 DEF DeleteOpportunity
  <2> QED BY <2>1, <2>2
<1>10. CASE UNCHANGED vars
  BY <1>10 DEF vars
<1> QED BY <1>1, <1>2, <1>3, <1>4, <1>5, <1>6, <1>7, <1>8, <1>9, <1>10 DEF Next, Handler

\* A deleted opportunity is not created again.
LEMMA StageStep ==
    ASSUME TypeOK, [Next]_vars, NEW o \in Opportunities, stage[o] = "excluida"
    PROVE  stage'[o] = "excluida"
<1>0. DOMAIN stage = Opportunities
  BY DEF TypeOK
<1>1. ASSUME NEW q \in Requests, Load(q) \/ Handler(q) \/ Crash(q) \/ ErpHandles(q) \/ ErpCancels(q)
      PROVE  UNCHANGED stage
  BY <1>1 DEF Load, Handler, Persist, Abandon, PostOrder, PostFails, Answer, RecordSent,
       RecordSentFails, RecordFailure, RecordFailureFails, Crash, ErpHandles, ErpCancels
<1>2. ASSUME NEW a \in Attempts, OrderFlow(a) PROVE UNCHANGED stage
  BY <1>2 DEF OrderFlow, CheckSent, CheckUncertain
<1>3. ASSUME NEW p \in ProtocolTests, CheckAttempts(p) PROVE UNCHANGED stage
  BY <1>3 DEF CheckAttempts
<1>4. ASSUME NEW s \in Syncs, StatusSync(s) PROVE UNCHANGED stage
  BY <1>4 DEF StatusSync, StatusLoop, BeginSync, AskStatus, WriteStatus, SkipStatus, StopSync
<1>5. ASSUME NEW q \in Opportunities, ChangeStage(q) \/ DeleteOpportunity(q)
      PROVE  stage'[o] = "excluida"
  BY <1>0, <1>5 DEF ChangeStage, DeleteOpportunity
<1>6. CASE UNCHANGED vars
  BY <1>6 DEF vars
<1> QED BY <1>1, <1>2, <1>3, <1>4, <1>5, <1>6 DEF Next

\* The ERP does not take a cancellation back.
LEMMA CancelledStep ==
    ASSUME TypeOK, StatusInv, [Next]_vars, NEW r \in Requests, erp[r] = "cancelado"
    PROVE  erp'[r] = "cancelado"
<1>0. DOMAIN erp = Requests /\ pc[r] # "reserved"
  BY DEF TypeOK, StatusInv
<1>1. ASSUME NEW q \in Requests, Load(q) \/ Handler(q) \/ Crash(q) \/ ErpHandles(q) \/ ErpCancels(q)
      PROVE  erp'[r] = "cancelado"
  BY <1>0, <1>1 DEF Load, Handler, Persist, Abandon, PostOrder, PostFails, Answer, RecordSent,
       RecordSentFails, RecordFailure, RecordFailureFails, Crash, ErpHandles, ErpCancels
<1>2. ASSUME NEW a \in Attempts, OrderFlow(a) PROVE UNCHANGED erp
  BY <1>2 DEF OrderFlow, CheckSent, CheckUncertain
<1>3. ASSUME NEW p \in ProtocolTests, CheckAttempts(p) PROVE UNCHANGED erp
  BY <1>3 DEF CheckAttempts
<1>4. ASSUME NEW s \in Syncs, StatusSync(s) PROVE UNCHANGED erp
  BY <1>4 DEF StatusSync, StatusLoop, BeginSync, AskStatus, WriteStatus, SkipStatus, StopSync
<1>5. ASSUME NEW q \in Opportunities, ChangeStage(q) \/ DeleteOpportunity(q) PROVE UNCHANGED erp
  BY <1>5 DEF ChangeStage, DeleteOpportunity
<1>6. CASE UNCHANGED vars
  BY <1>6 DEF vars
<1> QED BY <1>1, <1>2, <1>3, <1>4, <1>5, <1>6 DEF Next

-----------------------------------------------------------------------------
(* KnownOrderBlocksResend *)

\* A recorded result is that of a request that has ended; and a synchronisation
\* writes a status it has, never the null of a column not yet written.
KnownInv ==
    /\ \A r \in Requests : row[r].status \in {"sent", "error"} => pc[r] = "done"
    /\ \A s \in Syncs : sync[s].order # None => sync[s].value # "null"

LEMMA ResultStep ==
    ASSUME TypeOK, [Next]_vars, NEW r \in Requests,
           row[r].status \in {"sent", "error"} => pc[r] = "done",
           row'[r].status \in {"sent", "error"}
    PROVE  pc'[r] = "done"
<1>1. CASE row'[r].status = row[r].status
  BY <1>1, DoneStep
<1>2. CASE Persist(r)
  <2>1. row'[r].status = "pending"
    BY <1>2 DEF TypeOK, Persist
  <2> QED BY <2>1
<1>3. CASE row'[r] = NoRow
  BY <1>3 DEF NoRow
<1> QED BY <1>1, <1>2, <1>3, RowStep

LEMMA LoopValueStep ==
    ASSUME TypeOK, [Next]_vars, NEW t \in Syncs,
           sync[t].order # None => sync[t].value # "null",
           sync'[t].order # None
    PROVE  sync'[t].value # "null"
<1>0. sync \in [Syncs -> Loop] /\ DOMAIN sync = Syncs /\ None \notin Requests
      /\ erp \in [Requests -> Held \cup {"absent", "inflight", "refused"}]
  BY RequestsAssumption DEF TypeOK, Loop
<1>1. ASSUME NEW q \in Requests, Load(q) \/ Handler(q) \/ Crash(q) \/ ErpHandles(q) \/ ErpCancels(q)
      PROVE  UNCHANGED sync
  BY <1>1 DEF Load, Handler, Persist, Abandon, PostOrder, PostFails, Answer, RecordSent,
       RecordSentFails, RecordFailure, RecordFailureFails, Crash, ErpHandles, ErpCancels
<1>2. ASSUME NEW a \in Attempts, OrderFlow(a) PROVE UNCHANGED sync
  BY <1>2 DEF OrderFlow, CheckSent, CheckUncertain
<1>3. ASSUME NEW p \in ProtocolTests, CheckAttempts(p) PROVE UNCHANGED sync
  BY <1>3 DEF CheckAttempts
<1>4. ASSUME NEW s \in Syncs, StatusSync(s)
      PROVE  sync'[t] = sync[t] \/ sync'[t].order = None \/ sync'[t].value # "null"
  <2>1. ASSUME NEW scope, BeginSync(s, scope)
        PROVE  sync'[t] = sync[t] \/ sync'[t].order = None
    BY <1>0, <2>1 DEF BeginSync
  <2>2. ASSUME NEW r \in Requests, NEW readable \in BOOLEAN, AskStatus(s, r, readable)
        PROVE  sync'[t] = sync[t] \/ sync'[t].value # "null"
    <3> DEFINE w == [sync[s] EXCEPT !.order = r, !.value = StatusOf(s, r, readable)]
    <3>1. StatusOf(s, r, readable) # "null"
      BY <2>2 DEF AskStatus, StatusOf, Held
    <3>2. w.value = StatusOf(s, r, readable)
      <4>1. sync[s] \in Loop
        BY <1>0
      <4> QED BY <4>1 DEF Loop
    <3>3. sync' = [sync EXCEPT ![s] = w]
      BY <2>2 DEF AskStatus
    <3> HIDE DEF w
    <3> QED BY <1>0, <3>1, <3>2, <3>3
  <2>3. ASSUME NEW r \in Requests, Processed(s, r)
        PROVE  sync'[t] = sync[t] \/ sync'[t].order = None
    BY <1>0, <2>3, ProcessedEffect
  <2>4. CASE WriteStatus(s)
    <3>1. sync[s].order \in Requests /\ Processed(s, sync[s].order)
      BY <1>0, <2>4, WriteEffect DEF WriteStatus, TypeOK
    <3> QED BY <2>3, <3>1
  <2>5. CASE StopSync(s)
    BY <1>0, <2>5 DEF StopSync, IdleSync
  <2> QED BY <1>4, <2>1, <2>2, <2>3, <2>4, <2>5 DEF StatusSync, StatusLoop, SkipStatus
<1>5. ASSUME NEW o \in Opportunities, ChangeStage(o) \/ DeleteOpportunity(o) PROVE UNCHANGED sync
  BY <1>5 DEF ChangeStage, DeleteOpportunity
<1>6. CASE UNCHANGED vars
  BY <1>6 DEF vars
<1> QED BY <1>1, <1>2, <1>3, <1>4, <1>5, <1>6 DEF Next

\* A recorded result stays that of an ended request, and no synchronisation
\* ever writes a null over a status.
THEOREM KnownCorrect == Spec => []KnownInv
<1>1. Init => KnownInv
  BY DEF Init, KnownInv, NoRow, IdleSync
<1>2. TypeOK /\ KnownInv /\ [Next]_vars => KnownInv'
  BY ResultStep, LoopValueStep DEF KnownInv
<1> QED BY <1>1, <1>2, TypeCorrect, PTL DEF Spec

\* What holds of a known order a and an attempt b from the moment b has not yet
\* looked while a is known to be alive: the order is still known and b has not
\* passed, the ERP has cancelled it, or the opportunity is gone and with it the
\* row that b would have to create.
KnownKept(a, b) ==
    \/ erp[a] = "cancelado"
    \/ /\ row[a].status = "sent" /\ row[a].orderStatus = "ativo"
       /\ pc[b] \in {"idle", "loaded", "done"}
    \/ /\ stage[OpportunityOf[a]] = "excluida"
       /\ pc[b] \in {"idle", "loaded", "checked", "cleared", "done"}

\* While the opportunity is gone, a request that has not created its row never does.
LEMMA GoneStep ==
    ASSUME TypeOK, [Next]_vars, NEW r \in Requests,
           stage[OpportunityOf[r]] = "excluida",
           pc[r] \in {"idle", "loaded", "checked", "cleared", "done"}
    PROVE  /\ stage'[OpportunityOf[r]] = "excluida"
           /\ pc'[r] \in {"idle", "loaded", "checked", "cleared", "done"}
<1>1. OpportunityOf[r] \in Opportunities /\ r \in DOMAIN pc
  BY RequestsAssumption DEF TypeOK
<1>2. ~Persist(r)
  BY DEF Persist
<1>3. CheckSent(r) \/ CheckUncertain(r) \/ CheckAttempts(r)
        => pc'[r] \in {"checked", "cleared", "done"}
  BY <1>1 DEF CheckSent, CheckUncertain, CheckAttempts, Goto
<1> QED BY <1>1, <1>2, <1>3, EarlyStep, StageStep

\* The row of an order known to be alive: it stays known, is told cancelled by
\* an ERP that has cancelled it, or goes with its opportunity.
LEMMA KnownRowStep ==
    ASSUME TypeOK, StatusInv, KnownInv, StatusInv', [Next]_vars, NEW a \in Requests,
           row[a].status = "sent", row[a].orderStatus = "ativo"
    PROVE  \/ row'[a].status = "sent" /\ row'[a].orderStatus = "ativo"
           \/ erp'[a] = "cancelado"
           \/ stage'[OpportunityOf[a]] = "excluida"
<1>1. pc[a] = "done" /\ ~Persist(a)
  BY DEF KnownInv, Persist
<1>2. ASSUME NEW s \in Syncs, sync[s].order = a, row'[a].orderStatus = sync[s].value,
             row'[a].status = row[a].status
      PROVE  (row'[a].status = "sent" /\ row'[a].orderStatus = "ativo") \/ erp'[a] = "cancelado"
  <2>1. sync[s].value # "null" /\ sync[s].value \in OrderStatus
    BY <1>2, RequestsAssumption DEF KnownInv, TypeOK
  <2>2. sync[s].value = "cancelado" => erp'[a] = "cancelado"
    BY <1>2 DEF StatusInv, CancelledIsTrue
  <2> QED BY <1>2, <2>1, <2>2 DEF OrderStatus
<1> QED BY <1>1, <1>2, RowStep

LEMMA KnownKeptStep ==
    ASSUME TypeOK, StatusInv, KnownInv, StatusInv', [Next]_vars,
           NEW a \in Attempts, NEW b \in Attempts,
           a # b, OpportunityOf[a] = OpportunityOf[b], KnownKept(a, b)
    PROVE  KnownKept(a, b)'
<1>0. a \in Requests /\ b \in Requests /\ b \notin ProtocolTests /\ b \in DOMAIN pc
  BY RequestsAssumption DEF Requests, TypeOK
<1>1. CASE erp[a] = "cancelado"
  BY <1>0, <1>1, CancelledStep DEF KnownKept
<1>2. CASE stage[OpportunityOf[a]] = "excluida" /\ pc[b] \in {"idle", "loaded", "checked", "cleared", "done"}
  BY <1>0, <1>2, GoneStep DEF KnownKept
<1>3. CASE row[a].status = "sent" /\ row[a].orderStatus = "ativo" /\ pc[b] \in {"idle", "loaded", "done"}
  <2>1. a \in BlockingSent(OpportunityOf[b])
    BY <1>0, <1>3 DEF BlockingSent, RowsOf
  <2>2. CheckSent(b) => pc'[b] = "done"
    BY <1>0, <2>1 DEF CheckSent, Goto
  <2>3. pc'[b] \in {"idle", "loaded", "done"}
    BY <1>0, <1>3, <2>2, EarlyStep DEF CheckUncertain, Persist
  <2> QED BY <1>0, <1>3, <2>3, KnownRowStep DEF KnownKept
<1> QED BY <1>1, <1>2, <1>3 DEF KnownKept

\* Once the CRM knows an order to be alive, an attempt that has not begun its
\* check by then is sent only if the ERP has cancelled that order: whatever the
\* synchronisations write, and whatever becomes of the opportunity.
THEOREM KnownOrderCorrect == Spec => KnownOrderBlocksResend
<1>1. ASSUME NEW a \in Attempts, NEW b \in Attempts, a # b, OpportunityOf[a] = OpportunityOf[b]
      PROVE  Spec => []((row[a].status = "sent" /\ row[a].orderStatus = "ativo" /\ pc[b] \in {"idle", "loaded"})
                          => [](pc[b] \in {"reserved", "posting"} => erp[a] = "cancelado"))
  <2>1. row[a].status = "sent" /\ row[a].orderStatus = "ativo" /\ pc[b] \in {"idle", "loaded"}
          => KnownKept(a, b)
    BY DEF KnownKept
  <2>2. TypeOK /\ StatusInv /\ KnownInv /\ StatusInv' /\ [Next]_vars /\ KnownKept(a, b)
          => KnownKept(a, b)'
    BY <1>1, KnownKeptStep
  <2>3. KnownKept(a, b) => (pc[b] \in {"reserved", "posting"} => erp[a] = "cancelado")
    BY DEF KnownKept
  <2> QED BY <2>1, <2>2, <2>3, TypeCorrect, StatusCorrect, KnownCorrect, PTL DEF Spec
<1> QED BY <1>1 DEF KnownOrderBlocksResend

-----------------------------------------------------------------------------
(* LateProtocolTestIsRefused *)

\* What holds of a test q with a row and a test p from the moment p has not yet
\* looked: the row is there and p has not passed, or it went with the opportunity.
TestKept(p, q) ==
    \/ row[q].status # "none" /\ pc[p] \in {"idle", "loaded", "done"}
    \/ /\ stage[OpportunityOf[p]] = "excluida"
       /\ pc[p] \in {"idle", "loaded", "checked", "cleared", "done"}

\* A row is there until its opportunity goes.
LEMMA RowStays ==
    ASSUME TypeOK, [Next]_vars, NEW r \in Requests, row[r].status # "none"
    PROVE  row'[r].status # "none" \/ stage'[OpportunityOf[r]] = "excluida"
<1>1. Persist(r) => row'[r].status = "pending"
  BY DEF TypeOK, Persist
<1> QED BY <1>1, RowStep

LEMMA TestKeptStep ==
    ASSUME TypeOK, [Next]_vars, NEW p \in ProtocolTests, NEW q \in ProtocolTests,
           OpportunityOf[p] = OpportunityOf[q], TestKept(p, q)
    PROVE  TestKept(p, q)'
<1>0. p \in Requests /\ q \in Requests /\ p \notin Attempts /\ p \in DOMAIN pc
  BY RequestsAssumption DEF Requests, TypeOK
<1>1. CASE stage[OpportunityOf[p]] = "excluida" /\ pc[p] \in {"idle", "loaded", "checked", "cleared", "done"}
  BY <1>0, <1>1, GoneStep DEF TestKept
<1>2. CASE row[q].status # "none" /\ pc[p] \in {"idle", "loaded", "done"}
  <2>1. q \in RowsOf(OpportunityOf[p])
    BY <1>0, <1>2 DEF RowsOf
  <2>2. CheckAttempts(p) => pc'[p] = "done"
    BY <1>0, <2>1 DEF CheckAttempts, Goto
  <2>3. pc'[p] \in {"idle", "loaded", "done"}
    BY <1>0, <1>2, <2>2, EarlyStep DEF Persist
  <2> QED BY <1>0, <1>2, <2>3, RowStays DEF TestKept
<1> QED BY <1>1, <1>2 DEF TestKept

\* A protocol test that has not begun its check when another one of its
\* opportunity has its row sends nothing, ever, although it reads the rows
\* without a lock.
THEOREM LateProtocolTestCorrect == Spec => LateProtocolTestIsRefused
<1>1. ASSUME NEW p \in ProtocolTests, NEW q \in ProtocolTests, OpportunityOf[p] = OpportunityOf[q]
      PROVE  Spec => []((row[q].status # "none" /\ pc[p] \in {"idle", "loaded"})
                          => [](pc[p] \notin Underway))
  <2>1. row[q].status # "none" /\ pc[p] \in {"idle", "loaded"} => TestKept(p, q)
    BY DEF TestKept
  <2>2. TypeOK /\ [Next]_vars /\ TestKept(p, q) => TestKept(p, q)'
    BY <1>1, TestKeptStep
  <2>3. TestKept(p, q) => pc[p] \notin Underway
    BY DEF TestKept, Underway
  <2> QED BY <2>1, <2>2, <2>3, TypeCorrect, PTL DEF Spec
<1> QED BY <1>1 DEF LateProtocolTestIsRefused

-----------------------------------------------------------------------------
(* How long a request goes on. *)

\* The await a request is at, counted from the end, and what its record may
\* still cost it: a failed update is one more step.
Rank == [idle |-> 8, loaded |-> 7, checked |-> 6, cleared |-> 5, reserved |-> 4,
         posting |-> 3, answered |-> 1, done |-> 0]

Left(r) == Rank[pc[r]] + (IF outcome[r] = "ok" THEN 1 ELSE 0)

\* No request goes back, and none repeats a step: every move of a handler,
\* whatever fails in it, leaves it fewer.
EveryMoveIsProgress ==
    [][\A r \in Requests :
          pc'[r] # pc[r] \/ outcome'[r] # outcome[r] => Left(r)' < Left(r)]_vars

\* A step moves its own request only.
LEMMA MoveStep ==
    ASSUME TypeOK, [Next]_vars, NEW r \in Requests
    PROVE  \/ pc'[r] = pc[r] /\ outcome'[r] = outcome[r]
           \/ Load(r) \/ Handler(r) \/ Crash(r)
           \/ r \in Attempts /\ OrderFlow(r)
           \/ r \in ProtocolTests /\ CheckAttempts(r)
<1>0. /\ DOMAIN pc = Requests /\ DOMAIN outcome = Requests
      /\ Attempts \subseteq Requests /\ ProtocolTests \subseteq Requests
  BY DEF TypeOK, Requests
<1> USE <1>0 DEF Goto
<1>1. ASSUME NEW q \in Requests, q # r, Load(q) \/ Abandon(q) \/ Crash(q) \/ Persist(q)
      PROVE  pc'[r] = pc[r] /\ outcome'[r] = outcome[r]
  BY <1>1 DEF Load, Abandon, Crash, Persist
<1>2. ASSUME NEW q \in Requests, q # r, PostOrder(q) \/ PostFails(q) \/ Answer(q)
      PROVE  pc'[r] = pc[r] /\ outcome'[r] = outcome[r]
  BY <1>2 DEF PostOrder, PostFails, Answer
<1>3. ASSUME NEW q \in Requests, q # r,
             RecordSent(q) \/ RecordSentFails(q) \/ RecordFailure(q) \/ RecordFailureFails(q)
      PROVE  pc'[r] = pc[r] /\ outcome'[r] = outcome[r]
  BY <1>3 DEF RecordSent, RecordSentFails, RecordFailure, RecordFailureFails
<1>4. ASSUME NEW q \in Requests, ErpHandles(q) \/ ErpCancels(q)
      PROVE  pc'[r] = pc[r] /\ outcome'[r] = outcome[r]
  BY <1>4 DEF ErpHandles, ErpCancels
<1>5. ASSUME NEW q \in Requests, q # r, OrderFlow(q) \/ CheckAttempts(q)
      PROVE  pc'[r] = pc[r] /\ outcome'[r] = outcome[r]
  BY <1>5 DEF OrderFlow, CheckSent, CheckUncertain, CheckAttempts
<1>6. ASSUME NEW s \in Syncs, StatusSync(s)
      PROVE  pc'[r] = pc[r] /\ outcome'[r] = outcome[r]
  BY <1>6 DEF StatusSync, StatusLoop, BeginSync, AskStatus, WriteStatus, SkipStatus, StopSync
<1>7. ASSUME NEW o \in Opportunities, ChangeStage(o) \/ DeleteOpportunity(o)
      PROVE  pc'[r] = pc[r] /\ outcome'[r] = outcome[r]
  BY <1>7 DEF ChangeStage, DeleteOpportunity
<1>8. CASE UNCHANGED vars
  BY <1>8 DEF vars
<1> QED BY <1>1, <1>2, <1>3, <1>4, <1>5, <1>6, <1>7, <1>8 DEF Next, Handler

LEMMA LeftStep ==
    ASSUME TypeOK, [Next]_vars, NEW r \in Requests,
           pc'[r] # pc[r] \/ outcome'[r] # outcome[r]
    PROVE  Left(r)' < Left(r)
<1>0. /\ r \in DOMAIN pc /\ r \in DOMAIN outcome
      /\ outcome[r] = "ok" \/ outcome[r] # "ok"
      /\ pc[r] \in {"idle", "loaded", "checked", "cleared", "reserved", "posting", "answered", "done"}
  BY DEF TypeOK
<1> USE <1>0 DEF Goto, Left, Rank
<1>1. CASE Load(r)
  BY <1>1 DEF Load
<1>2. CASE Abandon(r)
  BY <1>2 DEF Abandon
<1>3. CASE Crash(r)
  BY <1>3 DEF Crash
<1>4. CASE OrderFlow(r)
  BY <1>4 DEF OrderFlow, CheckSent, CheckUncertain
<1>5. CASE CheckAttempts(r)
  BY <1>5 DEF CheckAttempts
<1>6. CASE Persist(r) \/ PostOrder(r)
  BY <1>6 DEF Persist, PostOrder
<1>7. CASE PostFails(r) \/ Answer(r)
  BY <1>7 DEF PostFails, Answer
<1>8. CASE RecordSent(r) \/ RecordSentFails(r)
  BY <1>8 DEF RecordSent, RecordSentFails, Failure
<1>9. CASE RecordFailure(r) \/ RecordFailureFails(r)
  BY <1>9 DEF RecordFailure, RecordFailureFails
<1> QED BY <1>1, <1>2, <1>3, <1>4, <1>5, <1>6, <1>7, <1>8, <1>9, MoveStep DEF Handler

\* Eight moves at most, and a request has ended: no failure of the ERP, of an
\* update or of a process makes a handler go round.  What a request needs to
\* take the next of them is the fairness of the runs.
THEOREM ProgressCorrect == Spec => EveryMoveIsProgress
<1>1. TypeOK /\ [Next]_vars =>
        \A r \in Requests : pc'[r] # pc[r] \/ outcome'[r] # outcome[r] => Left(r)' < Left(r)
  BY LeftStep
<1> QED BY <1>1, TypeCorrect, PTL DEF Spec, EveryMoveIsProgress
=============================================================================
