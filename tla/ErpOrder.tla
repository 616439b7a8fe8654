------------------------------ MODULE ErpOrder ------------------------------
(***************************************************************************)
(* Submission of a won opportunity as an order of the UltraFV3 ERP:        *)
(* createErpOrderFromOpportunity, runUltraFv3OrderProtocolTest and         *)
(* syncErpOrderStatuses of apps/api/src/services/erpOrderService.ts, with  *)
(* the routes that call them and the table ErpOrderSync they share.        *)
(*                                                                         *)
(* A request is one HTTP call; each await of its handler ends a step, so   *)
(* the requests of every API instance interleave there.  A request writes  *)
(* at most one row of ErpOrderSync, so the table is indexed by request.    *)
(***************************************************************************)
EXTENDS Naturals

CONSTANTS
    Opportunities,   \* the opportunities the requests are about
    Attempts,        \* POST /opportunities/:id/erp/orders requests
    ProtocolTests,   \* POST /erp-orders/protocol-test requests (none unless enabled)
    Syncs,           \* the callers of syncErpOrderStatuses
    FullSyncs,       \* those that run it for every opportunity: scheduler, sync jobs
    OpportunityOf,   \* the :id each request carries
    HonestErp,       \* TRUE: only a refused order is answered by a definite error
    None             \* no row

Requests == Attempts \cup ProtocolTests

ASSUME RequestsAssumption ==
    /\ Attempts \cap ProtocolTests = {}
    /\ OpportunityOf \in [Requests -> Opportunities]
    /\ FullSyncs \subseteq Syncs
    /\ HonestErp \in BOOLEAN
    /\ None \notin Requests

VARIABLES
    stage,    \* stage[o]: "ganho", "aberta" (any other stage) or "excluida" (row deleted)
    pc,       \* pc[r]: the await the handler of r is at
    outcome,  \* outcome[r]: what the handler holds between the answer and its record
    row,      \* row[r]: the ErpOrderSync row r created
    created,  \* how many rows were created: the clock behind createdAt
    erp,      \* erp[r]: the order sent with r's PEDIDO_ID_IMPORTACAO, in the ERP
    sync      \* sync[s]: the loop of a status synchronisation

vars == <<stage, pc, outcome, row, created, erp, sync>>

\* orderStatus: "ativo" stands for pendente, faturado, parcial and entregue,
\* which the code never tells apart; "null" is a column not yet written.
OrderStatus == {"null", "ativo", "cancelado"}
Held == {"ativo", "cancelado"}          \* the ERP has the order
Failure == {"definite", "uncertain"}    \* whether the recorded text reads as a timeout

Row == [status : {"none", "pending", "sent", "error"},
        text : Failure \cup {"none"},
        orderStatus : OrderStatus,
        createdAt : Nat]

NoRow == [status |-> "none", text |-> "none", orderStatus |-> "null", createdAt |-> 0]

IdleSync == [todo |-> {}, seen |-> [r \in Requests |-> "null"], order |-> None, value |-> "null"]

TypeOK ==
    /\ stage \in [Opportunities -> {"ganho", "aberta", "excluida"}]
    /\ pc \in [Requests -> {"idle", "loaded", "checked", "cleared", "reserved",
                            "posting", "answered", "done"}]
    /\ outcome \in [Requests -> Failure \cup {"none", "ok"}]
    /\ row \in [Requests -> Row]
    /\ created \in Nat
    /\ erp \in [Requests -> Held \cup {"absent", "inflight", "refused"}]
    /\ sync \in [Syncs -> [todo : SUBSET Requests,
                           seen : [Requests -> OrderStatus],
                           order : Requests \cup {None},
                           value : OrderStatus]]

Init ==
    /\ stage \in [Opportunities -> {"ganho", "aberta"}]
    /\ pc = [r \in Requests |-> "idle"]
    /\ outcome = [r \in Requests |-> "none"]
    /\ row = [r \in Requests |-> NoRow]
    /\ created = 0
    /\ erp = [r \in Requests |-> "absent"]
    /\ sync = [s \in Syncs |-> IdleSync]

-----------------------------------------------------------------------------
(* The table, as the handlers read it. *)

RowsOf(o) == {r \in Requests : OpportunityOf[r] = o /\ row[r].status # "none"}

\* isUncertainErpOrderFailure
Uncertain(r) ==
    \/ row[r].status = "pending"
    \/ row[r].status = "error" /\ row[r].text = "uncertain"

Goto(r, label) == pc' = [pc EXCEPT ![r] = label]

-----------------------------------------------------------------------------
(* Defects the properties must tell from the code: each stands in for the  *)
(* definition its comment names.                                           *)

\* LockFree without the advisory lock, with one let go after the first query
\* (pg_advisory_lock and an early unlock), and with one never let go.
NoLock(a) == TRUE

LockFirstQueryOnly(a) ==
    \A b \in Attempts \ {a} : OpportunityOf[b] = OpportunityOf[a] => pc[b] # "checked"

LeakedLock(a) ==
    \A b \in Attempts \ {a} : OpportunityOf[b] = OpportunityOf[a] => pc[b] \in {"idle", "loaded"}

\* LatestUnsettled with orderBy createdAt asc.
OldestUnsettled(o) ==
    {r \in RowsOf(o) :
        /\ row[r].status \in {"pending", "error"}
        /\ \A q \in RowsOf(o) : row[q].status \in {"pending", "error"}
                                    => row[r].createdAt <= row[q].createdAt}

\* CheckUncertain that lets every attempt pass.
CheckNothing(a) ==
    /\ pc[a] = "checked"
    /\ Goto(a, "cleared")
    /\ UNCHANGED <<stage, outcome, row, created, erp, sync>>

\* CheckAttempts that looks at orders and unknown results only.
CheckOrders(p) ==
    /\ pc[p] = "loaded"
    /\ Goto(p, IF \E r \in RowsOf(OpportunityOf[p]) : row[r].status = "sent" \/ Uncertain(r)
               THEN "done" ELSE "cleared")
    /\ UNCHANGED <<stage, outcome, row, created, erp, sync>>

\* Settle with its two values swapped.
SettleSwapped(r, status, text) ==
    /\ row[r].status # "none"
    /\ row' = [row EXCEPT ![r] = [@ EXCEPT !.status = text, !.text = status]]

\* StatusOf that forgets the known status, and one that takes an answer it
\* cannot read for a cancellation.
StatusOrNull(s, r, readable) == IF readable THEN erp[r] ELSE "null"

StatusOrCancelled(s, r, readable) == IF readable THEN erp[r] ELSE "cancelado"


-----------------------------------------------------------------------------
(* The queries of the checks, and the updates. *)

\* where: status sent, NOT { orderStatus: cancelado }.  The column is nullable and
\* SQL leaves out the rows whose comparison with a null is unknown.
BlockingSent(o) ==
    {r \in RowsOf(o) : row[r].status = "sent" /\ row[r].orderStatus \notin {"null", "cancelado"}}

\* findFirst over pending and error rows, newest first
LatestUnsettled(o) ==
    {r \in RowsOf(o) :
        /\ row[r].status \in {"pending", "error"}
        /\ \A q \in RowsOf(o) : row[q].status \in {"pending", "error"}
                                    => row[q].createdAt <= row[r].createdAt}

\* pg_advisory_xact_lock of the opportunity is free for a
LockFree(a) ==
    \A b \in Attempts \ {a} : OpportunityOf[b] = OpportunityOf[a] => pc[b] \notin {"checked", "cleared"}

\* erpOrderSync.update of status and syncErrors
Settle(r, status, text) ==
    /\ row[r].status # "none"
    /\ row' = [row EXCEPT ![r] = [@ EXCEPT !.status = status, !.text = text]]

-----------------------------------------------------------------------------
(* Both routes: the opportunity is loaded once and judged from that copy. *)

Load(r) ==
    /\ pc[r] = "idle"
    /\ \/ stage[OpportunityOf[r]] = "ganho" /\ Goto(r, "loaded")
       \/ Goto(r, "done")      \* 404, another stage, or an input the validations refuse
    /\ UNCHANGED <<stage, outcome, row, created, erp, sync>>

\* Login, /salesmen, payload validation, simulateOnly, or a transaction that
\* fails (the opportunity is gone, no order number): nothing was written.
Abandon(r) ==
    /\ pc[r] \in {"loaded", "checked", "cleared"}
    /\ Goto(r, "done")
    /\ UNCHANGED <<stage, outcome, row, created, erp, sync>>

\* The order transaction takes its lock and looks for a sent order: 409 if any.
CheckSent(a) ==
    /\ pc[a] = "loaded"
    /\ LockFree(a)
    /\ Goto(a, IF BlockingSent(OpportunityOf[a]) # {} THEN "done" ELSE "checked")
    /\ UNCHANGED <<stage, outcome, row, created, erp, sync>>

\* Its second query: 409 if the newest unsettled row has an unknown result.
CheckUncertain(a) ==
    /\ pc[a] = "checked"
    /\ Goto(a, IF \E r \in LatestUnsettled(OpportunityOf[a]) : Uncertain(r) THEN "done" ELSE "cleared")
    /\ UNCHANGED <<stage, outcome, row, created, erp, sync>>

\* The protocol test reads every row, with neither lock nor transaction.
CheckAttempts(p) ==
    /\ pc[p] = "loaded"
    /\ Goto(p, IF \E r \in RowsOf(OpportunityOf[p]) :
                     row[r].status = "sent" \/ Uncertain(r) \/ r \in ProtocolTests
               THEN "done" ELSE "cleared")
    /\ UNCHANGED <<stage, outcome, row, created, erp, sync>>

\* create the row as pending (the commit of the order transaction frees the lock)
Persist(r) ==
    /\ pc[r] = "cleared"
    /\ stage[OpportunityOf[r]] # "excluida"
    /\ created' = created + 1
    /\ row' = [row EXCEPT ![r] = [status |-> "pending", text |-> "none",
                                  orderStatus |-> "null", createdAt |-> created + 1]]
    /\ Goto(r, "reserved")
    /\ UNCHANGED <<stage, outcome, erp, sync>>

PostOrder(r) ==
    /\ pc[r] = "reserved"
    /\ erp' = [erp EXCEPT ![r] = "inflight"]
    /\ Goto(r, "posting")
    /\ UNCHANGED <<stage, outcome, row, created, sync>>

\* The token expired and logging in again failed before the POST left.
PostFails(r) ==
    /\ pc[r] = "reserved"
    /\ \E f \in Failure : outcome' = [outcome EXCEPT ![r] = f]
    /\ Goto(r, "answered")
    /\ UNCHANGED <<stage, row, created, erp, sync>>

\* What the handler may make of the POST.  The order flow looks for an error
\* in a 200 answer, the protocol test does not.
Outcomes(r) ==
    {"uncertain"}
        \cup (IF HonestErp => erp[r] = "refused" THEN {"definite"} ELSE {})
        \cup (IF erp[r] \in Held \/ (r \in ProtocolTests /\ erp[r] = "refused") THEN {"ok"} ELSE {})

Answer(r) ==
    /\ pc[r] = "posting"
    /\ \E v \in Outcomes(r) : outcome' = [outcome EXCEPT ![r] = v]
    /\ Goto(r, "answered")
    /\ UNCHANGED <<stage, row, created, erp, sync>>

RecordSent(r) ==
    /\ pc[r] = "answered" /\ outcome[r] = "ok"
    /\ Settle(r, "sent", "none")
    /\ outcome' = [outcome EXCEPT ![r] = "none"]
    /\ Goto(r, "done")
    /\ UNCHANGED <<stage, created, erp, sync>>

\* The update throws inside the try: its own error becomes the failure.
RecordSentFails(r) ==
    /\ pc[r] = "answered" /\ outcome[r] = "ok"
    /\ \E f \in Failure : outcome' = [outcome EXCEPT ![r] = f]
    /\ UNCHANGED <<stage, pc, row, created, erp, sync>>

RecordFailure(r) ==
    /\ pc[r] = "answered" /\ outcome[r] \in Failure
    /\ Settle(r, "error", outcome[r])
    /\ outcome' = [outcome EXCEPT ![r] = "none"]
    /\ Goto(r, "done")
    /\ UNCHANGED <<stage, created, erp, sync>>

\* The second update fails as well: logged only, the row stays pending.
RecordFailureFails(r) ==
    /\ pc[r] = "answered" /\ outcome[r] \in Failure
    /\ outcome' = [outcome EXCEPT ![r] = "none"]
    /\ Goto(r, "done")
    /\ UNCHANGED <<stage, row, created, erp, sync>>

\* The API process of r dies; an open transaction is rolled back.
Crash(r) ==
    /\ pc[r] \notin {"idle", "done"}
    /\ outcome' = [outcome EXCEPT ![r] = "none"]
    /\ Goto(r, "done")
    /\ UNCHANGED <<stage, row, created, erp, sync>>

-----------------------------------------------------------------------------
(* syncErpOrderStatuses: the scheduler and two routes run it, one loop each. *)

\* the list of sent orders is read once, with the orderStatus each has then
BeginSync(s, scope) ==
    /\ sync[s].todo = {}
    /\ LET orders == {r \in Requests : OpportunityOf[r] \in scope /\ row[r].status = "sent"}
           seen == [r \in Requests |-> IF r \in orders THEN row[r].orderStatus ELSE "null"]
       IN  sync' = [sync EXCEPT ![s] = [todo |-> orders, seen |-> seen,
                                        order |-> None, value |-> "null"]]
    /\ UNCHANGED <<stage, pc, outcome, row, created, erp>>

\* normalizeOrderStatus of the answer, else the status read with the list, else pendente
StatusOf(s, r, readable) ==
    IF readable THEN erp[r]
    ELSE IF sync[s].seen[r] # "null" THEN sync[s].seen[r]
    ELSE "ativo"

AskStatus(s, r, readable) ==
    /\ sync[s].order = None /\ r \in sync[s].todo
    /\ readable => erp[r] \in Held
    /\ sync' = [sync EXCEPT ![s] = [@ EXCEPT !.order = r, !.value = StatusOf(s, r, readable)]]
    /\ UNCHANGED <<stage, pc, outcome, row, created, erp>>

\* the loop goes on with the orders left
Processed(s, r) ==
    sync' = [sync EXCEPT ![s] = [todo |-> @.todo \ {r}, seen |-> [@.seen EXCEPT ![r] = "null"],
                                 order |-> None, value |-> "null"]]

WriteStatus(s) ==
    LET r == sync[s].order
    IN  /\ r # None /\ row[r].status # "none"
        /\ row' = [row EXCEPT ![r] = [@ EXCEPT !.orderStatus = sync[s].value]]
        /\ Processed(s, r)
        /\ UNCHANGED <<stage, pc, outcome, created, erp>>

\* The ERP or the update fails for one order: only syncErrors is written.
SkipStatus(s, r) ==
    /\ r \in sync[s].todo /\ sync[s].order \in {None, r}
    /\ row[r].status # "none"
    /\ Processed(s, r)
    /\ UNCHANGED <<stage, pc, outcome, row, created, erp>>

\* A deleted row makes the error update throw too, or the process dies.
StopSync(s) ==
    /\ sync[s].todo # {}
    /\ sync' = [sync EXCEPT ![s] = IdleSync]
    /\ UNCHANGED <<stage, pc, outcome, row, created, erp>>

-----------------------------------------------------------------------------
(* Users of the CRM, and the ERP. *)

\* PUT /opportunities/:id
ChangeStage(o) ==
    /\ stage[o] # "excluida"
    /\ \E v \in {"ganho", "aberta"} \ {stage[o]} : stage' = [stage EXCEPT ![o] = v]
    /\ UNCHANGED <<pc, outcome, row, created, erp, sync>>

\* DELETE /opportunities/:id, which cascades to ErpOrderSync
DeleteOpportunity(o) ==
    /\ stage[o] # "excluida"
    /\ stage' = [stage EXCEPT ![o] = "excluida"]
    /\ row' = [r \in Requests |-> IF OpportunityOf[r] = o THEN NoRow ELSE row[r]]
    /\ UNCHANGED <<pc, outcome, created, erp, sync>>

\* The ERP handles a POST, perhaps long after the API stopped waiting for it.
ErpHandles(r) ==
    /\ erp[r] = "inflight"
    /\ \E v \in {"ativo", "refused"} : erp' = [erp EXCEPT ![r] = v]
    /\ UNCHANGED <<stage, pc, outcome, row, created, sync>>

ErpCancels(r) ==
    /\ erp[r] = "ativo"
    /\ erp' = [erp EXCEPT ![r] = "cancelado"]
    /\ UNCHANGED <<stage, pc, outcome, row, created, sync>>

-----------------------------------------------------------------------------
OrderFlow(a) == CheckSent(a) \/ CheckUncertain(a)

\* the steps a handler takes on its own once it has loaded the opportunity
Handler(r) ==
    \/ Persist(r) \/ Abandon(r)
    \/ PostOrder(r) \/ PostFails(r) \/ Answer(r)
    \/ RecordSent(r) \/ RecordSentFails(r) \/ RecordFailure(r) \/ RecordFailureFails(r)

StatusLoop(s) ==
    \/ \E r \in Requests : SkipStatus(s, r) \/ \E readable \in BOOLEAN : AskStatus(s, r, readable)
    \/ WriteStatus(s)
    \/ StopSync(s)

\* every sent order, or (POST /opportunities/:id/erp/orders/status) those of one opportunity
Scopes(s) == IF s \in FullSyncs THEN {Opportunities} ELSE {{o} : o \in Opportunities}

StatusSync(s) ==
    \/ \E scope \in Scopes(s) : BeginSync(s, scope)
    \/ StatusLoop(s)

Next ==
    \/ \E r \in Requests : Load(r) \/ Handler(r) \/ Crash(r) \/ ErpHandles(r) \/ ErpCancels(r)
    \/ \E a \in Attempts : OrderFlow(a)
    \/ \E p \in ProtocolTests : CheckAttempts(p)
    \/ \E s \in Syncs : StatusSync(s)
    \/ \E o \in Opportunities : ChangeStage(o) \/ DeleteOpportunity(o)

Spec == Init /\ [][Next]_vars

\* What a handler does when nothing it calls keeps failing: no validation
\* refuses, and the transaction fails only where the opportunity is gone.
Progress(r) ==
    \/ r \in Attempts /\ OrderFlow(r)
    \/ r \in ProtocolTests /\ CheckAttempts(r)
    \/ Persist(r)
    \/ stage[OpportunityOf[r]] = "excluida" /\ pc[r] = "cleared" /\ Abandon(r)
    \/ PostOrder(r) \/ PostFails(r) \/ Answer(r)
    \/ RecordSent(r) \/ RecordSentFails(r) \/ RecordFailure(r) \/ RecordFailureFails(r)

\* A handler once started runs on (every await has a timeout, but a request that
\* waits for the lock is not helped by one); the scheduler repeats its
\* synchronisation, users call theirs at will; of what is tried again and again,
\* neither the ERP's answer nor the write of a cancellation fails for ever.
Fairness ==
    /\ \A r \in Requests : WF_vars(Progress(r))
    /\ \A s \in FullSyncs :
         /\ WF_vars(BeginSync(s, Opportunities))
         /\ WF_vars(StatusLoop(s))
         /\ \A r \in Requests :
              /\ SF_vars(AskStatus(s, r, TRUE))
              /\ SF_vars(sync[s].order = r /\ sync[s].value = "cancelado" /\ WriteStatus(s))

FairSpec == Spec /\ Fairness
-----------------------------------------------------------------------------
(* Properties *)

Underway == {"reserved", "posting", "answered"}

\* Two requests of the order flow never have an order of the same opportunity
\* between reservation and recorded result, whatever API instances run them.
OneSubmissionAtATime ==
    \A a, b \in Attempts :
        (a # b /\ OpportunityOf[a] = OpportunityOf[b] /\ pc[a] \in Underway)
            => pc[b] \notin Underway

\* No order leaves (or is about to leave) for an opportunity one of whose other
\* attempts has an unknown result: it timed out, its process died, or its
\* result could not be recorded.
NoBlindResend ==
    \A a, b \in Attempts :
        (a # b /\ OpportunityOf[a] = OpportunityOf[b] /\ pc[b] \in {"cleared", "reserved", "posting"})
            => ~Uncertain(a)

\* An order the CRM shows as cancelled is cancelled in the ERP, although a
\* synchronisation may write a status it read long before: the cancelled order
\* is the one that lets the opportunity be sent again.
CancelledIsTrue ==
    \A r \in Requests : row[r].orderStatus = "cancelado" => erp[r] = "cancelado"

\* Once the CRM knows that an order is alive in the ERP, an attempt that has
\* not begun its check by then is sent only if the ERP did cancel that order.
KnownOrderBlocksResend ==
    \A a, b \in Attempts :
        a # b /\ OpportunityOf[a] = OpportunityOf[b] =>
            []((row[a].status = "sent" /\ row[a].orderStatus = "ativo" /\ pc[b] \in {"idle", "loaded"})
                 => [](pc[b] \in {"reserved", "posting"} => erp[a] = "cancelado"))

\* A protocol test that has not begun its check when another one of the
\* opportunity has its row never sends an order.
LateProtocolTestIsRefused ==
    \A p, q \in ProtocolTests :
        p # q /\ OpportunityOf[p] = OpportunityOf[q] =>
            []((row[q].status # "none" /\ pc[p] \in {"idle", "loaded"})
                 => [](pc[p] \notin Underway))

\* Every request that passed the first validations ends: whoever dies or fails,
\* nobody waits for ever for the advisory lock.
EveryRequestEnds == \A r \in Requests : pc[r] = "loaded" ~> pc[r] = "done"


-----------------------------------------------------------------------------
(* Why they hold: what every step of the handlers keeps. *)

\* Without protocol tests, the table alone tells who may submit: a handler
\* between reservation and record has a pending row, the lock lets one handler
\* look at a time, an unknown result is the newest row of its opportunity (so
\* that looking at the newest is enough), and who has looked has seen none.
SubmissionInv ==
    /\ \A r \in Requests :
        /\ row[r].status # "none" => stage[OpportunityOf[r]] # "excluida" /\ row[r].createdAt <= created
        /\ pc[r] \in {"idle", "loaded", "checked", "cleared"} => row[r].status = "none"
        /\ pc[r] \in Underway => row[r].status = "pending" \/ stage[OpportunityOf[r]] = "excluida"
    /\ \A a, b \in Attempts : a # b /\ OpportunityOf[a] = OpportunityOf[b] =>
        /\ pc[a] \in {"checked", "cleared"} => pc[b] \notin {"checked", "cleared"}
        /\ Uncertain(a) /\ row[b].status # "none" => row[b].createdAt < row[a].createdAt
        /\ pc[b] = "cleared" => ~Uncertain(a)

\* A cancelled status, wherever a synchronisation holds it, was read from a
\* cancelled order; and no order is in the ERP before its POST.
StatusInv ==
    /\ \A r \in Requests :
        /\ pc[r] \in {"idle", "loaded", "checked", "cleared", "reserved"} => erp[r] = "absent"
        /\ \A s \in Syncs :
            /\ sync[s].seen[r] = "cancelado" => erp[r] = "cancelado"
            /\ sync[s].order = r /\ sync[s].value = "cancelado" => erp[r] = "cancelado"
    /\ CancelledIsTrue

-----------------------------------------------------------------------------
(* What messages of the code say of the program, and the program does not do. *)

\* "Oportunidade ja possui pedido ERP enviado com sucesso. Reenvio bloqueado":
\* no attempt passes this check while another's order is sent and not cancelled.
SentOrderBlocksResend ==
    [][\A a, b \in Attempts :
          (a # b /\ OpportunityOf[a] = OpportunityOf[b] /\ pc[b] = "loaded" /\ pc'[b] = "checked")
              => ~(row[a].status = "sent" /\ row[a].orderStatus # "cancelado")]_vars
=============================================================================
