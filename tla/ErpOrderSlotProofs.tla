------------------------- MODULE ErpOrderSlotProofs -------------------------
(***************************************************************************)
(* Proofs about the order flow of ErpOrder where no protocol test is about *)
(* an opportunity that attempts are about: one submission at a time, no    *)
(* blind resend, OrderSlot implemented.  So it is wherever protocol tests  *)
(* are disabled, as they are unless ULTRAFV3_ORDER_PROTOCOL_TEST_ENABLED   *)
(* is set.  With one on the same opportunity none of the three holds.      *)
(***************************************************************************)
EXTENDS ErpOrderProofs

TestsApart == \A p \in ProtocolTests, a \in Attempts : OpportunityOf[p] # OpportunityOf[a]

LEMMA DisabledTestsApart ==
    ASSUME ProtocolTests = {}
    PROVE  TestsApart
BY DEF TestsApart

\* What of a row SubmissionInv reads.
SameRow(q) == /\ row'[q].status = row[q].status /\ row'[q].text = row[q].text
              /\ row'[q].createdAt = row[q].createdAt

Checking == {"checked", "cleared"}
Unsent == {"idle", "loaded"} \cup Checking

\* A step of r that leaves the rows alone and brings r no nearer to its POST
\* than it was keeps SubmissionInv.
LEMMA QuietStep ==
    ASSUME TypeOK, SubmissionInv, UNCHANGED <<stage, created>>,
           \A q \in Requests : SameRow(q),
           \A q \in Requests : /\ pc'[q] \in Unsent => pc[q] \in Unsent
                               /\ pc'[q] \in Checking => pc'[q] = pc[q]
                               /\ pc'[q] \in Underway => pc[q] \in Underway,
           Attempts \subseteq Requests
    PROVE  SubmissionInv'
BY DEF SubmissionInv, SameRow, Checking, Unsent, Uncertain, Underway

LEMMA SubmissionStep ==
    ASSUME TestsApart, TypeOK, SubmissionInv, [Next]_vars
    PROVE  SubmissionInv'
<1>0. /\ pc \in [Requests -> {"idle", "loaded", "checked", "cleared", "reserved",
                              "posting", "answered", "done"}]
      /\ row \in [Requests -> Row] /\ sync \in [Syncs -> Loop] /\ created \in Nat
      /\ outcome \in [Requests -> Failure \cup {"none", "ok"}]
      /\ None \notin Requests /\ Attempts \subseteq Requests
      /\ \A r \in Requests : row[r].createdAt \in Nat
      /\ \A r \in Requests : r \in Attempts \/ r \in ProtocolTests
      /\ \A p \in ProtocolTests : p \in Requests /\ p \notin Attempts
  BY RequestsAssumption DEF TypeOK, Loop, Requests, Row
<1>1. ASSUME NEW r \in Requests,
             Load(r) \/ Abandon(r) \/ PostOrder(r) \/ PostFails(r) \/ Answer(r) \/ RecordSentFails(r)
               \/ RecordFailureFails(r) \/ Crash(r)
      PROVE SubmissionInv'
  <2>1. /\ UNCHANGED <<stage, created, row>>
        /\ \/ UNCHANGED pc
           \/ pc' = [pc EXCEPT ![r] = "done"]
           \/ pc[r] = "idle" /\ pc' = [pc EXCEPT ![r] = "loaded"]
           \/ pc[r] = "reserved" /\ pc' = [pc EXCEPT ![r] = "posting"]
           \/ pc[r] \in {"reserved", "posting"} /\ pc' = [pc EXCEPT ![r] = "answered"]
    BY <1>1 DEF Load, Abandon, PostOrder, PostFails, Answer, RecordSentFails, RecordFailureFails,
                Crash, Goto
  <2>2. \A q \in Requests : /\ pc'[q] \in Unsent => pc[q] \in Unsent
                            /\ pc'[q] \in Checking => pc'[q] = pc[q]
                            /\ pc'[q] \in Underway => pc[q] \in Underway
    BY <1>0, <2>1 DEF Unsent, Checking, Underway
  <2> QED BY <1>0, <2>1, <2>2, QuietStep DEF SameRow
<1>2. ASSUME NEW r \in Attempts, CheckSent(r)
      PROVE SubmissionInv'
  <2>1. /\ UNCHANGED <<stage, created, row>> /\ pc[r] = "loaded" /\ LockFree(r)
        /\ pc' = [pc EXCEPT ![r] = "checked"] \/ pc' = [pc EXCEPT ![r] = "done"]
    BY <1>2 DEF CheckSent, Goto
  <2> QED BY <1>0, <2>1 DEF SubmissionInv, LockFree, Uncertain, Underway
<1>3. ASSUME NEW r \in Attempts, CheckUncertain(r)
      PROVE SubmissionInv'
  <2>1. /\ UNCHANGED <<stage, created, row>> /\ pc[r] = "checked"
        /\ \/ pc' = [pc EXCEPT ![r] = "done"]
           \/ /\ pc' = [pc EXCEPT ![r] = "cleared"]
              /\ \A q \in LatestUnsettled(OpportunityOf[r]) : ~Uncertain(q)
    BY <1>3 DEF CheckUncertain, Goto
  <2>2. ASSUME NEW a \in Attempts, a # r, OpportunityOf[a] = OpportunityOf[r], Uncertain(a)
        PROVE a \in LatestUnsettled(OpportunityOf[r])
    <3>1. row[a].status \in {"pending", "error"}
      BY <2>2 DEF Uncertain
    <3>2. \A q \in Requests : OpportunityOf[q] = OpportunityOf[a] /\ row[q].status # "none"
                                => row[q].createdAt <= row[a].createdAt
      BY <1>0, <2>2 DEF SubmissionInv, TestsApart
    <3> QED BY <1>0, <2>2, <3>1, <3>2 DEF LatestUnsettled, RowsOf
  <2>3. CASE pc' = [pc EXCEPT ![r] = "done"]
    BY <1>0, <2>1, <2>3 DEF SubmissionInv, Uncertain, Underway
  <2>4. CASE /\ pc' = [pc EXCEPT ![r] = "cleared"]
             /\ \A q \in LatestUnsettled(OpportunityOf[r]) : ~Uncertain(q)
    <3>1. \A a \in Attempts : a # r /\ OpportunityOf[a] = OpportunityOf[r] => ~Uncertain(a)
      BY <2>2, <2>4
    <3> QED BY <1>0, <2>1, <2>4, <3>1 DEF SubmissionInv, Uncertain, Underway
  <2> QED BY <2>1, <2>3, <2>4
<1>4. ASSUME NEW r \in Requests, Persist(r)
      PROVE SubmissionInv'
  <2> DEFINE w == [status |-> "pending", text |-> "none", orderStatus |-> "null", createdAt |-> created + 1]
  <2>1. w.status = "pending" /\ w.createdAt = created + 1
    OBVIOUS
  <2>2. /\ UNCHANGED stage /\ created' = created + 1 /\ pc[r] = "cleared"
        /\ row' = [row EXCEPT ![r] = w] /\ pc' = [pc EXCEPT ![r] = "reserved"]
        /\ stage[OpportunityOf[r]] # "excluida"
    BY <1>4 DEF Persist, Goto
  <2> HIDE DEF w
  <2>3. /\ row'[r].status = "pending" /\ row'[r].createdAt = created + 1
        /\ pc'[r] = "reserved"
        /\ \A q \in Requests : q # r => row'[q] = row[q] /\ pc'[q] = pc[q]
    BY <1>0, <2>1, <2>2
  <2>4. \A q \in Requests : row[q].status # "none" => row[q].createdAt < created + 1
    BY <1>0 DEF SubmissionInv
  <2>5. \A a \in Attempts : a # r /\ OpportunityOf[a] = OpportunityOf[r]
                              => ~Uncertain(a) /\ pc[a] \notin Checking
    BY <1>0, <2>2 DEF SubmissionInv, Checking, TestsApart
  <2>6. \A q \in Requests :
        /\ row'[q].status # "none" => stage'[OpportunityOf[q]] # "excluida" /\ row'[q].createdAt <= created'
        /\ pc'[q] \in {"idle", "loaded", "checked", "cleared"} => row'[q].status = "none"
        /\ pc'[q] \in Underway => row'[q].status = "pending" \/ stage'[OpportunityOf[q]] = "excluida"
    BY <1>0, <2>2, <2>3, <2>4 DEF SubmissionInv
  <2>7. ASSUME NEW a \in Attempts, NEW b \in Attempts, a # b, OpportunityOf[a] = OpportunityOf[b]
        PROVE /\ pc'[a] \in {"checked", "cleared"} => pc'[b] \notin {"checked", "cleared"}
              /\ Uncertain(a)' /\ row'[b].status # "none" => row'[b].createdAt < row'[a].createdAt
              /\ pc'[b] = "cleared" => ~Uncertain(a)'
    <3>1. CASE a = r
      BY <1>0, <2>3, <2>4, <2>5, <2>7, <3>1 DEF Checking
    <3>2. CASE a # r /\ b = r
      BY <1>0, <2>3, <2>5, <2>7, <3>2 DEF Uncertain
    <3>3. CASE a # r /\ b # r
      BY <1>0, <2>3, <2>7, <3>3 DEF SubmissionInv, Uncertain
    <3> QED BY <3>1, <3>2, <3>3
  <2> QED BY <2>6, <2>7 DEF SubmissionInv
<1>5. ASSUME NEW r \in Requests, RecordSent(r) \/ RecordFailure(r)
      PROVE SubmissionInv'
  <2>1. /\ UNCHANGED <<stage, created>> /\ pc[r] = "answered" /\ pc' = [pc EXCEPT ![r] = "done"]
        /\ row[r].status # "none" /\ row'[r].status \in {"sent", "error"}
        /\ row'[r].createdAt = row[r].createdAt
        /\ \A q \in Requests : q # r => row'[q] = row[q]
    BY <1>0, <1>5, SettleEffect DEF RecordSent, RecordFailure, Goto
  <2>2. Uncertain(r)
    BY <2>1 DEF SubmissionInv, Uncertain, Underway
  <2> QED BY <1>0, <2>1, <2>2 DEF SubmissionInv, Uncertain, Underway
<1>6. ASSUME NEW r \in Requests, ErpHandles(r) \/ ErpCancels(r)
      PROVE SubmissionInv'
  BY <1>0, <1>6, QuietStep DEF ErpHandles, ErpCancels, SameRow
<1>7. ASSUME NEW s \in Syncs, StatusSync(s)
      PROVE SubmissionInv'
  <2>1. UNCHANGED <<stage, created, pc>>
    BY <1>7 DEF StatusSync, StatusLoop, BeginSync, AskStatus, WriteStatus, SkipStatus, StopSync
  <2>2. (\A q \in Requests : SameRow(q))
    BY <1>0, <1>7, WriteEffect
       DEF SameRow, StatusSync, StatusLoop, BeginSync, AskStatus, SkipStatus, StopSync
  <2> QED BY <1>0, <2>1, <2>2, QuietStep
<1>8. ASSUME NEW o \in Opportunities, ChangeStage(o)
      PROVE SubmissionInv'
  <2>1. \A q \in Opportunities : stage'[q] = "excluida" <=> stage[q] = "excluida"
    BY <1>8 DEF ChangeStage, TypeOK
  <2>2. \A q \in Requests : OpportunityOf[q] \in Opportunities
    BY RequestsAssumption
  <2> QED BY <1>0, <1>8, <2>1, <2>2 DEF ChangeStage, SubmissionInv, Uncertain
<1>9. ASSUME NEW o \in Opportunities, DeleteOpportunity(o)
      PROVE SubmissionInv'
  <2>1. /\ UNCHANGED <<pc, created>> /\ stage' = [stage EXCEPT ![o] = "excluida"]
        /\ \A q \in Requests : IF OpportunityOf[q] = o THEN row'[q].status = "none" ELSE row'[q] = row[q]
    BY <1>9 DEF DeleteOpportunity, NoRow
  <2>2. \A q \in Requests : OpportunityOf[q] \in Opportunities
    BY RequestsAssumption
  <2> QED BY <1>0, <2>1, <2>2 DEF SubmissionInv, Uncertain, TypeOK
<1>10. CASE UNCHANGED vars
  BY <1>0, <1>10, QuietStep DEF vars, SameRow
<1>11. ASSUME NEW p \in ProtocolTests, CheckAttempts(p)
       PROVE SubmissionInv'
  <2>1. /\ UNCHANGED <<stage, created, row>> /\ pc[p] = "loaded"
        /\ pc' = [pc EXCEPT ![p] = "cleared"] \/ pc' = [pc EXCEPT ![p] = "done"]
    BY <1>11 DEF CheckAttempts, Goto
  <2> QED BY <1>0, <2>1 DEF SubmissionInv, Uncertain, Underway
<1> QED
  BY <1>0, <1>1, <1>2, <1>3, <1>4, <1>5, <1>6, <1>7, <1>8, <1>9, <1>10, <1>11
     DEF Next, Handler, OrderFlow

LEMMA SubmissionInit == Init => SubmissionInv
<1> SUFFICES ASSUME Init PROVE SubmissionInv
  OBVIOUS
<1>1. /\ pc = [r \in Requests |-> "idle"] /\ row = [r \in Requests |-> NoRow]
      /\ Attempts \subseteq Requests /\ NoRow.status = "none"
  BY DEF Init, NoRow, Requests
<1> QED BY <1>1 DEF SubmissionInv, Uncertain, Underway

\* A handler between reservation and record has its pending row, one at a time is
\* between its queries, an unknown result is the newest row of its opportunity,
\* and whoever passed the second query has seen none.
THEOREM SubmissionCorrect ==
    ASSUME TestsApart
    PROVE  Spec => []SubmissionInv
<1>1. TypeOK /\ SubmissionInv /\ [Next]_vars => SubmissionInv'
  BY SubmissionStep
<1> QED BY <1>1, SubmissionInit, TypeCorrect, PTL DEF Spec

\* No order leaves for an opportunity one of whose other attempts has an
\* unknown result.  Looking at the newest unsettled row only is enough, because
\* an unknown result is never followed by another row.
THEOREM NoBlindResendCorrect ==
    ASSUME TestsApart
    PROVE  Spec => []NoBlindResend
<1>1. TypeOK /\ SubmissionInv => NoBlindResend
  <2> SUFFICES ASSUME TypeOK, SubmissionInv,
                      NEW a \in Attempts, NEW b \in Attempts, a # b, OpportunityOf[a] = OpportunityOf[b],
                      pc[b] \in {"cleared", "reserved", "posting"}, Uncertain(a)
               PROVE  FALSE
    BY DEF NoBlindResend
  <2>1. a \in Requests /\ b \in Requests
    BY DEF Requests
  <2>2. row[a].createdAt \in Nat /\ row[b].createdAt \in Nat
    BY <2>1 DEF TypeOK, Row
  <2>3. row[a].status # "none"
    BY DEF Uncertain
  <2>4. row[b].status = "pending" /\ Uncertain(b)
    BY <2>1, <2>3 DEF SubmissionInv, Underway, Uncertain
  <2>5. row[b].createdAt < row[a].createdAt /\ row[a].createdAt < row[b].createdAt
    BY <2>3, <2>4 DEF SubmissionInv
  <2> QED BY <2>2, <2>5
<1> QED BY <1>1, SubmissionCorrect, TypeCorrect, PTL DEF Spec

\* A handler that reserves its order finds no other one of the opportunity
\* between reservation and record.
LEMMA ReservesAlone ==
    ASSUME TestsApart, TypeOK, SubmissionInv, NEW r \in Requests, Persist(r),
           NEW a \in Attempts, a # r, OpportunityOf[a] = OpportunityOf[r]
    PROVE  pc[a] \notin Underway /\ ~Uncertain(a)
<1>1. /\ a \in Requests /\ r \in Attempts
      /\ pc[r] = "cleared" /\ stage[OpportunityOf[r]] # "excluida"
  BY DEF Requests, Persist, TestsApart
<1>2. ~Uncertain(a)
  BY <1>1 DEF SubmissionInv
<1>3. pc[a] \notin Underway
  BY <1>1, <1>2 DEF SubmissionInv, Uncertain
<1> QED BY <1>2, <1>3

LEMMA OneSubmissionStep ==
    ASSUME TestsApart, TypeOK, SubmissionInv, OneSubmissionAtATime, [Next]_vars
    PROVE  OneSubmissionAtATime'
<1>0. /\ Attempts \subseteq Requests /\ ProtocolTests \subseteq Requests
      /\ pc \in [Requests -> {"idle", "loaded", "checked", "cleared", "reserved",
                              "posting", "answered", "done"}]
      /\ outcome \in [Requests -> Failure \cup {"none", "ok"}]
  BY DEF Requests, TypeOK
<1>1. ASSUME NEW r \in Requests, Persist(r)
      PROVE OneSubmissionAtATime'
  <2>1. pc' = [pc EXCEPT ![r] = "reserved"]
    BY <1>1 DEF Persist, Goto
  <2>2. \A a \in Attempts : a # r /\ OpportunityOf[a] = OpportunityOf[r] => pc[a] \notin Underway
    BY <1>1, ReservesAlone
  <2> QED BY <1>0, <2>1, <2>2 DEF OneSubmissionAtATime
<1>2. ASSUME \A q \in Requests : pc'[q] \in Underway => pc[q] \in Underway
      PROVE OneSubmissionAtATime'
  BY <1>0, <1>2 DEF OneSubmissionAtATime
<1>3. ASSUME NEW r \in Requests,
             Load(r) \/ (Handler(r) /\ ~Persist(r)) \/ Crash(r) \/ ErpHandles(r) \/ ErpCancels(r)
               \/ OrderFlow(r) \/ CheckAttempts(r)
      PROVE OneSubmissionAtATime'
  <2>1. \/ UNCHANGED pc
        \/ \E l \in {"loaded", "checked", "cleared", "done"} : pc' = [pc EXCEPT ![r] = l]
        \/ pc[r] \in Underway /\ \E l \in Underway : pc' = [pc EXCEPT ![r] = l]
    BY <1>3 DEF Handler, OrderFlow, Load, Abandon, PostOrder, PostFails, Answer, RecordSent,
                RecordSentFails, RecordFailure, RecordFailureFails, Crash, ErpHandles, ErpCancels,
                CheckSent, CheckUncertain, CheckAttempts, Goto, Underway
  <2> QED BY <1>0, <1>2, <2>1 DEF Underway
<1>4. ASSUME UNCHANGED pc
      PROVE OneSubmissionAtATime'
  BY <1>2, <1>4
<1>5. ASSUME NEW s \in Syncs, StatusSync(s)
      PROVE UNCHANGED pc
  BY <1>5 DEF StatusSync, StatusLoop, BeginSync, AskStatus, WriteStatus, SkipStatus, StopSync
<1>6. ASSUME NEW o \in Opportunities, ChangeStage(o) \/ DeleteOpportunity(o)
      PROVE UNCHANGED pc
  BY <1>6 DEF ChangeStage, DeleteOpportunity
<1> QED
  BY <1>0, <1>1, <1>3, <1>4, <1>5, <1>6 DEF Next, vars, Handler

\* Two requests of the order flow never have an order of the same opportunity
\* between reservation and recorded result: the advisory lock and the pending
\* row committed under it exclude it, for any number of API instances.
THEOREM OneSubmissionCorrect ==
    ASSUME TestsApart
    PROVE  Spec => []OneSubmissionAtATime
<1>1. Init => OneSubmissionAtATime
  BY DEF Init, OneSubmissionAtATime, Underway, Requests
<1>2. TypeOK /\ SubmissionInv /\ OneSubmissionAtATime /\ [Next]_vars => OneSubmissionAtATime'
  BY OneSubmissionStep
<1> QED BY <1>1, <1>2, SubmissionCorrect, TypeCorrect, PTL DEF Spec

-----------------------------------------------------------------------------
(* The order flow implements OrderSlot. *)

SameSlot(o) == SlotOf(o)' = SlotOf(o)

\* The slot of o depends on three things only.
LEMMA SlotKept ==
    ASSUME NEW o, stage'[o] = "excluida" <=> stage[o] = "excluida",
           \A a \in AttemptsOf(o) : /\ pc'[a] \in Underway <=> pc[a] \in Underway
                                    /\ Uncertain(a)' <=> Uncertain(a)
    PROVE  SameSlot(o)
BY DEF SlotOf, SameSlot, AttemptsOf

\* A step that changes the slot of one opportunity is a move of OrderSlot.
LEMMA SlotMove ==
    ASSUME NEW o \in Opportunities, NEW from, NEW to, SlotOf(o) \in from, SlotOf(o)' = to,
           \A q \in Opportunities : q # o => SameSlot(q)
    PROVE  Slot!Move(o, from, to)
<1>1. slots' = [slots EXCEPT ![o] = to]
  BY DEF slots, SameSlot
<1>2. slots[o] \in from
  BY DEF slots
<1> QED BY <1>1, <1>2 DEF Slot!Move

LEMMA SlotsKept ==
    ASSUME \A o \in Opportunities : SameSlot(o)
    PROVE  UNCHANGED slots
BY DEF slots, SameSlot

\* A handler that is past its reservation is alone, and its slot is busy.
LEMMA BusySlot ==
    ASSUME TestsApart, TypeOK, SubmissionInv, OneSubmissionAtATime,
           NEW r \in Attempts, pc[r] \in Underway, stage[OpportunityOf[r]] # "excluida"
    PROVE  /\ SlotOf(OpportunityOf[r]) = "busy"
           /\ \A a \in AttemptsOf(OpportunityOf[r]) \ {r} : pc[a] \notin Underway /\ ~Uncertain(a)
<1>1. Attempts \subseteq Requests /\ r \in AttemptsOf(OpportunityOf[r])
  BY DEF Requests, AttemptsOf
<1>2. SlotOf(OpportunityOf[r]) = "busy"
  BY <1>1 DEF SlotOf
<1>3. ASSUME NEW a \in AttemptsOf(OpportunityOf[r]) \ {r}
      PROVE pc[a] \notin Underway /\ ~Uncertain(a)
  <2>1. a \in Attempts /\ a # r /\ OpportunityOf[a] = OpportunityOf[r]
    BY <1>3 DEF AttemptsOf
  <2>2. pc[a] \notin Underway
    BY <1>1, <2>1 DEF OneSubmissionAtATime
  <2>3. row[r].status = "pending"
    BY <1>1 DEF SubmissionInv
  <2>4. row[a].createdAt \in Nat /\ row[r].createdAt \in Nat
    BY <1>1, <2>1 DEF TypeOK, Row
  <2>5. ~Uncertain(a)
    BY <1>1, <2>1, <2>3, <2>4 DEF SubmissionInv, Uncertain
  <2> QED BY <2>2, <2>5
<1> QED BY <1>2, <1>3

\* A protocol test moves no attempt, and writes none of their rows.
LEMMA TestLeavesAttempts ==
    ASSUME TypeOK, NEW p \in ProtocolTests,
           Load(p) \/ Handler(p) \/ Crash(p) \/ ErpHandles(p) \/ ErpCancels(p) \/ CheckAttempts(p)
    PROVE  UNCHANGED stage /\ \A a \in Attempts : pc'[a] = pc[a] /\ row'[a] = row[a]
<1>0. /\ p \in Requests /\ p \notin Attempts /\ Attempts \subseteq Requests
      /\ pc \in [Requests -> {"idle", "loaded", "checked", "cleared", "reserved",
                              "posting", "answered", "done"}]
      /\ row \in [Requests -> Row] /\ outcome \in [Requests -> Failure \cup {"none", "ok"}]
  BY RequestsAssumption DEF TypeOK, Requests
<1>1. UNCHANGED stage /\ \A a \in Attempts : pc'[a] = pc[a]
  BY <1>0 DEF Handler, Load, Abandon, Persist, PostOrder, PostFails, Answer, RecordSent, RecordSentFails,
         RecordFailure, RecordFailureFails, Crash, ErpHandles, ErpCancels, CheckAttempts, Goto
<1>2. CASE Persist(p)
  BY <1>0, <1>1, <1>2 DEF Persist
<1>3. CASE RecordSent(p) \/ RecordFailure(p)
  BY <1>0, <1>1, <1>3, SettleEffect DEF RecordSent, RecordFailure
<1> QED
  BY <1>1, <1>2, <1>3 DEF Handler, Load, Abandon, PostOrder, PostFails, Answer, RecordSentFails,
     RecordFailureFails, Crash, ErpHandles, ErpCancels, CheckAttempts

LEMMA SlotStep ==
    ASSUME TestsApart, TypeOK, SubmissionInv, OneSubmissionAtATime, [Next]_vars
    PROVE  [Slot!Next]_slots
<1>0. /\ pc \in [Requests -> {"idle", "loaded", "checked", "cleared", "reserved",
                              "posting", "answered", "done"}]
      /\ row \in [Requests -> Row] /\ sync \in [Syncs -> Loop]
      /\ outcome \in [Requests -> Failure \cup {"none", "ok"}]
      /\ None \notin Requests /\ Attempts \subseteq Requests
      /\ \A p \in ProtocolTests : p \in Requests /\ p \notin Attempts
      /\ \A o \in Opportunities : AttemptsOf(o) \subseteq Requests
      /\ \A r \in Requests : OpportunityOf[r] \in Opportunities
  BY RequestsAssumption DEF TypeOK, Loop, Requests, AttemptsOf
<1>1. ASSUME NEW r \in Attempts,
             Load(r) \/ Abandon(r) \/ PostOrder(r) \/ PostFails(r) \/ Answer(r) \/ RecordSentFails(r)
               \/ CheckSent(r) \/ CheckUncertain(r) \/ ErpHandles(r) \/ ErpCancels(r)
      PROVE UNCHANGED slots
  <2>1. /\ UNCHANGED <<stage, row>>
        /\ \/ UNCHANGED pc
           \/ pc[r] \notin Underway
                /\ \E l \in {"loaded", "checked", "cleared", "done"} : pc' = [pc EXCEPT ![r] = l]
           \/ pc[r] \in Underway /\ \E l \in Underway : pc' = [pc EXCEPT ![r] = l]
    BY <1>1 DEF Load, Abandon, PostOrder, PostFails, Answer, RecordSentFails, CheckSent,
                CheckUncertain, ErpHandles, ErpCancels, Goto, Underway
  <2>2. \A q \in Requests : pc'[q] \in Underway <=> pc[q] \in Underway
    BY <1>0, <2>1 DEF Underway
  <2>3. \A q \in Requests : Uncertain(q)' <=> Uncertain(q)
    BY <2>1 DEF Uncertain
  <2> QED BY <1>0, <2>1, <2>2, <2>3, SlotKept, SlotsKept
<1>2. ASSUME NEW r \in Attempts, pc' = [pc EXCEPT ![r] = pc'[r]],
             UNCHANGED stage, \A q \in Requests : q # r => row'[q] = row[q]
      PROVE /\ \A q \in Requests : q # r => pc'[q] = pc[q] /\ (Uncertain(q)' <=> Uncertain(q))
            /\ \A o \in Opportunities : o # OpportunityOf[r] => SameSlot(o)
  <2>1. \A q \in Requests : q # r => pc'[q] = pc[q] /\ (Uncertain(q)' <=> Uncertain(q))
    BY <1>0, <1>2 DEF Uncertain
  <2>2. \A o \in Opportunities : o # OpportunityOf[r] => r \notin AttemptsOf(o)
    BY DEF AttemptsOf
  <2> QED BY <1>0, <1>2, <2>1, <2>2, SlotKept
<1>3. ASSUME NEW r \in Attempts, Persist(r)
      PROVE Slot!Claim(OpportunityOf[r])
  <2> DEFINE w == [status |-> "pending", text |-> "none", orderStatus |-> "null", createdAt |-> created + 1]
  <2>1. /\ UNCHANGED stage /\ pc[r] = "cleared" /\ pc' = [pc EXCEPT ![r] = "reserved"]
        /\ row' = [row EXCEPT ![r] = w] /\ stage[OpportunityOf[r]] # "excluida"
    BY <1>3 DEF Persist, Goto
  <2> HIDE DEF w
  <2>2. \A o \in Opportunities : o # OpportunityOf[r] => SameSlot(o)
    BY <1>0, <1>2, <2>1
  <2>3. ~Uncertain(r) /\ pc[r] \notin Underway
    BY <1>0, <2>1 DEF SubmissionInv, Uncertain, Underway
  <2>4. \A a \in AttemptsOf(OpportunityOf[r]) : pc[a] \notin Underway /\ ~Uncertain(a)
    BY <1>0, <1>3, <2>3, ReservesAlone DEF AttemptsOf
  <2>5. SlotOf(OpportunityOf[r]) = "free"
    BY <2>1, <2>4 DEF SlotOf
  <2>6. pc'[r] \in Underway /\ r \in AttemptsOf(OpportunityOf[r])
    BY <1>0, <2>1 DEF Underway, AttemptsOf
  <2>7. SlotOf(OpportunityOf[r])' = "busy"
    BY <2>1, <2>6 DEF SlotOf, AttemptsOf
  <2> QED BY <1>0, <2>2, <2>5, <2>7, SlotMove DEF Slot!Claim
<1>4. ASSUME NEW r \in Attempts, RecordSent(r) \/ RecordFailure(r)
      PROVE Slot!Settle(OpportunityOf[r]) \/ Slot!Lose(OpportunityOf[r])
  <2>1. /\ UNCHANGED stage /\ pc[r] = "answered" /\ pc' = [pc EXCEPT ![r] = "done"]
        /\ row[r].status # "none" /\ \A q \in Requests : q # r => row'[q] = row[q]
    BY <1>0, <1>4, SettleEffect DEF RecordSent, RecordFailure, Goto
  <2>2. \A o \in Opportunities : o # OpportunityOf[r] => SameSlot(o)
    BY <1>0, <1>2, <2>1
  <2>3. stage[OpportunityOf[r]] # "excluida" /\ pc[r] \in Underway
    BY <1>0, <2>1 DEF SubmissionInv, Underway
  <2>4. SlotOf(OpportunityOf[r]) = "busy"
    BY <2>3, BusySlot
  <2>5. \A a \in AttemptsOf(OpportunityOf[r]) : pc'[a] \notin Underway
    BY <1>0, <1>2, <2>1, <2>3, BusySlot DEF Underway, AttemptsOf
  <2>6. SlotOf(OpportunityOf[r])' \in {"free", "closed"}
    BY <2>1, <2>3, <2>5 DEF SlotOf, AttemptsOf
  <2> QED BY <1>0, <2>2, <2>4, <2>6, SlotMove DEF Slot!Settle, Slot!Lose
<1>5. ASSUME NEW r \in Attempts, RecordFailureFails(r) \/ Crash(r)
      PROVE UNCHANGED slots \/ Slot!Lose(OpportunityOf[r])
  <2>1. UNCHANGED <<stage, row>> /\ pc' = [pc EXCEPT ![r] = "done"]
    BY <1>5 DEF RecordFailureFails, Crash, Goto
  <2>2. \A o \in Opportunities : o # OpportunityOf[r] => SameSlot(o)
    BY <1>0, <1>2, <2>1
  <2>3. CASE stage[OpportunityOf[r]] = "excluida"
    BY <1>0, <2>1, <2>2, <2>3, SlotsKept DEF SameSlot, SlotOf
  <2>4. CASE pc[r] \notin Underway
    <3>1. \A q \in Requests : (pc'[q] \in Underway <=> pc[q] \in Underway) /\ (Uncertain(q)' <=> Uncertain(q))
      BY <1>0, <2>1, <2>4 DEF Underway, Uncertain
    <3> QED BY <1>0, <2>1, <3>1, SlotKept, SlotsKept
  <2>5. CASE pc[r] \in Underway /\ stage[OpportunityOf[r]] # "excluida"
    <3>1. SlotOf(OpportunityOf[r]) = "busy"
      BY <2>5, BusySlot
    <3>2. \A a \in AttemptsOf(OpportunityOf[r]) : pc'[a] \notin Underway
      BY <1>0, <1>2, <2>1, <2>5, BusySlot DEF Underway, AttemptsOf
    <3>3. Uncertain(r)' /\ r \in AttemptsOf(OpportunityOf[r])
      BY <1>0, <2>1, <2>5 DEF SubmissionInv, Uncertain, AttemptsOf
    <3>4. SlotOf(OpportunityOf[r])' = "closed"
      BY <2>1, <2>5, <3>2, <3>3 DEF SlotOf, AttemptsOf
    <3> QED BY <1>0, <2>2, <3>1, <3>4, SlotMove DEF Slot!Lose
  <2> QED BY <2>3, <2>4, <2>5
<1>6. ASSUME NEW s \in Syncs, StatusSync(s)
      PROVE UNCHANGED slots
  <2>1. UNCHANGED <<stage, pc>>
    BY <1>6 DEF StatusSync, StatusLoop, BeginSync, AskStatus, WriteStatus, SkipStatus, StopSync
  <2>2. \A q \in Requests : Uncertain(q)' <=> Uncertain(q)
    BY <1>0, <1>6, WriteEffect
       DEF Uncertain, StatusSync, StatusLoop, BeginSync, AskStatus, SkipStatus, StopSync
  <2> QED BY <1>0, <2>1, <2>2, SlotKept, SlotsKept
<1>7. ASSUME NEW o \in Opportunities, ChangeStage(o)
      PROVE UNCHANGED slots
  <2>1. \A q \in Opportunities : stage'[q] = "excluida" <=> stage[q] = "excluida"
    BY <1>7 DEF ChangeStage, TypeOK
  <2>2. UNCHANGED <<pc, row>>
    BY <1>7 DEF ChangeStage
  <2> QED BY <2>1, <2>2, SlotKept, SlotsKept DEF Uncertain
<1>8. ASSUME NEW o \in Opportunities, DeleteOpportunity(o)
      PROVE Slot!Delete(o)
  <2>1. /\ UNCHANGED pc /\ stage' = [stage EXCEPT ![o] = "excluida"] /\ stage[o] # "excluida"
        /\ \A q \in Requests : OpportunityOf[q] # o => row'[q] = row[q]
    BY <1>8 DEF DeleteOpportunity
  <2>2. \A q \in Opportunities : q # o => stage'[q] = stage[q]
    BY <2>1 DEF TypeOK
  <2>3. ASSUME NEW q \in Opportunities, q # o
        PROVE SameSlot(q)
    <3>1. \A a \in AttemptsOf(q) : Uncertain(a)' <=> Uncertain(a)
      BY <1>0, <2>1, <2>3 DEF AttemptsOf, Uncertain
    <3> QED BY <2>1, <2>2, <2>3, <3>1, SlotKept
  <2>4. SlotOf(o) \in {"free", "busy", "closed"} /\ SlotOf(o)' = "gone"
    BY <2>1 DEF SlotOf, TypeOK
  <2> QED BY <2>3, <2>4, SlotMove DEF Slot!Delete
<1>9. CASE UNCHANGED vars
  BY <1>9, SlotKept, SlotsKept DEF vars, Uncertain
<1>10. ASSUME NEW p \in ProtocolTests,
              Load(p) \/ Handler(p) \/ Crash(p) \/ ErpHandles(p) \/ ErpCancels(p) \/ CheckAttempts(p)
       PROVE UNCHANGED slots
  <2>1. UNCHANGED stage /\ \A a \in Attempts : pc'[a] = pc[a] /\ row'[a] = row[a]
    BY <1>10, TestLeavesAttempts
  <2>2. \A a \in Attempts : Uncertain(a)' <=> Uncertain(a)
    BY <2>1 DEF Uncertain
  <2> QED BY <2>1, <2>2, SlotKept, SlotsKept DEF AttemptsOf
<1> QED
  BY <1>0, <1>1, <1>3, <1>4, <1>5, <1>6, <1>7, <1>8, <1>9, <1>10
     DEF Next, Handler, OrderFlow, Slot!Next, Requests

\* Every behaviour of the order flow is one of the abstract slots: an
\* opportunity is claimed by one submission at a time, and never again once the
\* result of one is unknown.
THEOREM SlotImplemented ==
    ASSUME TestsApart
    PROVE  Spec => ImplementsSlot
<1>1. Init => Slot!Init
  <2> SUFFICES ASSUME Init PROVE \A o \in Opportunities : SlotOf(o) = "free"
    BY DEF Slot!Init, slots
  <2>1. \A a \in Attempts : a \in Requests /\ pc[a] \notin Underway /\ ~Uncertain(a)
    BY DEF Init, Requests, Underway, Uncertain, NoRow
  <2> QED BY <2>1 DEF Init, SlotOf, AttemptsOf
<1>2. TypeOK /\ SubmissionInv /\ OneSubmissionAtATime /\ [Next]_vars => [Slot!Next]_slots
  BY SlotStep
<1> QED
  BY <1>1, <1>2, TypeCorrect, SubmissionCorrect, OneSubmissionCorrect, PTL
     DEF Spec, ImplementsSlot, Slot!Spec
=============================================================================
