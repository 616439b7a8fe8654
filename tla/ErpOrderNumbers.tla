--------------------------- MODULE ErpOrderNumbers ---------------------------
(***************************************************************************)
(* The number of an order, NUM_PEDIDO: the PostgreSQL sequence that        *)
(* reserveNextErpOrderNumber draws it from inside the order transaction,   *)
(* and ensureErpOrderNumberSequence, which creates the sequence and aligns *)
(* it with the numbers already in ErpOrderSync: before an API instance     *)
(* serves (its bootstrap on a disposable database, the same block in a     *)
(* migration in production), or as a command (erp:ensure-order-sequence)   *)
(* while instances serve.  A sequence is outside transactions: what        *)
(* nextval and setval do is seen at once and never rolled back.            *)
(***************************************************************************)
EXTENDS Integers

CONSTANTS
    Instances,       \* the API instances
    Tools,           \* runs of the command
    Requests,        \* order requests that come to reserve a number
    InstanceOf,      \* the instance that handles each
    Old,             \* rows that had a number of this range before the first set-up
    OldNumber,       \* that number
    First, Last      \* MINVALUE and MAXVALUE: 900001 and 999999999999999

Setups == Instances \cup Tools
Orders == Requests \cup Old
Numbers == First .. Last

ASSUME NumbersAssumption ==
    /\ First \in Nat \ {0} /\ Last \in Nat /\ First <= Last
    /\ Instances \cap Tools = {} /\ Requests \cap Old = {}
    /\ InstanceOf \in [Requests -> Instances]
    /\ OldNumber \in [Old -> Numbers]

VARIABLES
    sequence,    \* "absent", "creating" (by a transaction not committed) or "ready"; last_value; is_called
    phase,       \* phase[s]: where the set-up of s is; "serving" afterwards for an instance
    highest,     \* highest[s]: max_reserved as s read it, First - 1 for null
    effective,   \* effective[s]: current_effective_last_value as s read it
    pc,          \* pc[r]: "idle", "drawn" (number taken), "done"
    number,      \* number[x]: the number of an order, 0 if none; it stays although its row goes
    there        \* there[x]: a committed row of ErpOrderSync holds the number

vars == <<sequence, phase, highest, effective, pc, number, there>>

InTransaction == {"creating", "aligning", "counted", "read", "set"}

TypeOK ==
    /\ sequence \in [state : {"absent", "creating", "ready"}, last : Numbers, called : BOOLEAN]
    /\ phase \in [Setups -> InTransaction \cup {"idle", "serving"}]
    /\ highest \in [Setups -> Numbers \cup {First - 1}]
    /\ effective \in [Setups -> Numbers \cup {First - 1}]
    /\ pc \in [Requests -> {"idle", "drawn", "done"}]
    /\ number \in [Orders -> Numbers \cup {0}]
    /\ there \in [Orders -> BOOLEAN]

\* The sequence is new, or was created by a set-up before the rows of Old came
\* to the table (a restored backup), and so may be behind them.
Init ==
    /\ sequence \in {[state |-> q, last |-> First, called |-> FALSE] : q \in {"absent", "ready"}}
    /\ phase = [s \in Setups |-> "idle"]
    /\ highest = [s \in Setups |-> First - 1]
    /\ effective = [s \in Setups |-> First - 1]
    /\ pc = [r \in Requests |-> "idle"]
    /\ number = [x \in Orders |-> IF x \in Old THEN OldNumber[x] ELSE 0]
    /\ there = [x \in Orders |-> x \in Old]

-----------------------------------------------------------------------------
\* the last number drawn: last_value, or the one before it while not is_called
EffectiveLast == IF sequence.called THEN sequence.last ELSE sequence.last - 1

\* m is MAX("numPedido") over the rows in range, First - 1 if there are none
IsHighest(m) ==
    /\ \A x \in Orders : there[x] => number[x] <= m
    /\ m = First - 1 \/ \E x \in Orders : there[x] /\ number[x] = m

Greater(a, b) == IF a >= b THEN a ELSE b

-----------------------------------------------------------------------------
(* Defects the properties must tell from the code. *)

\* DesiredLast without the argument that is the sequence's own
DesiredFromRows(s) == highest[s]

\* SetLast with setval(..., false): the next nextval returns the value itself
SetUncalled(v) == sequence' = [sequence EXCEPT !.last = v, !.called = FALSE]

\* NextFree that ignores MAXVALUE
NextBeyond == TRUE

-----------------------------------------------------------------------------
(* ensureErpOrderNumberSequence: one transaction under one advisory lock. *)

SetupLockFree(s) == \A t \in Setups \ {s} : phase[t] \notin InTransaction

At(s, label) == phase' = [phase EXCEPT ![s] = label]

BeginSetup(s) ==
    /\ phase[s] = "idle"
    /\ SetupLockFree(s)
    /\ At(s, IF sequence.state = "ready" THEN "aligning" ELSE "creating")
    /\ UNCHANGED <<sequence, highest, effective, pc, number, there>>

\* CREATE SEQUENCE; other sessions see it when the transaction commits
CreateSequence(s) ==
    /\ phase[s] = "creating"
    /\ sequence' = [state |-> "creating", last |-> First, called |-> FALSE]
    /\ At(s, "aligning")
    /\ UNCHANGED <<highest, effective, pc, number, there>>

ReadHighest(s) ==
    /\ phase[s] = "aligning"
    /\ \E m \in Numbers \cup {First - 1} : IsHighest(m) /\ highest' = [highest EXCEPT ![s] = m]
    /\ At(s, "counted")
    /\ UNCHANGED <<sequence, effective, pc, number, there>>

ReadSequence(s) ==
    /\ phase[s] = "counted"
    /\ effective' = [effective EXCEPT ![s] = EffectiveLast]
    /\ At(s, "read")
    /\ UNCHANGED <<sequence, highest, pc, number, there>>

\* GREATEST(900000, COALESCE(max_reserved, 900000), current_effective_last_value)
DesiredLast(s) == Greater(First - 1, Greater(highest[s], effective[s]))

SetLast(v) == sequence' = [sequence EXCEPT !.last = v, !.called = TRUE]

SetValue(s) ==
    /\ phase[s] = "read"
    /\ IF DesiredLast(s) >= First THEN SetLast(DesiredLast(s)) ELSE UNCHANGED sequence
    /\ At(s, "set")
    /\ UNCHANGED <<highest, effective, pc, number, there>>

\* the commit; an instance goes on to open its port, the command ends
CommitSetup(s) ==
    /\ phase[s] = "set"
    /\ sequence' = [sequence EXCEPT !.state = "ready"]
    /\ At(s, IF s \in Instances THEN "serving" ELSE "idle")
    /\ UNCHANGED <<highest, effective, pc, number, there>>

\* The set-up fails, or the process of s dies: what it created is rolled back,
\* what it set is not; the transactions of its requests are rolled back too.
Stop(s) ==
    /\ phase[s] # "idle"
    /\ At(s, "idle")
    /\ sequence' = IF phase[s] \in InTransaction /\ sequence.state = "creating"
                   THEN [sequence EXCEPT !.state = "absent"] ELSE sequence
    /\ pc' = [r \in Requests |-> IF InstanceOf[r] = s /\ pc[r] = "drawn" THEN "done" ELSE pc[r]]
    /\ UNCHANGED <<highest, effective, number, there>>

-----------------------------------------------------------------------------
(* reserveNextErpOrderNumber in the transaction of an order. *)

NextFree == EffectiveLast < Last

\* nextval
Draw(r) ==
    /\ pc[r] = "idle" /\ phase[InstanceOf[r]] = "serving"
    /\ sequence.state = "ready" /\ NextFree
    /\ sequence' = [sequence EXCEPT !.last = EffectiveLast + 1, !.called = TRUE]
    /\ number' = [number EXCEPT ![r] = EffectiveLast + 1]
    /\ pc' = [pc EXCEPT ![r] = "drawn"]
    /\ UNCHANGED <<phase, highest, effective, there>>

\* the sequence is not there, or is at its end
Refuse(r) ==
    /\ pc[r] = "idle" /\ phase[InstanceOf[r]] = "serving"
    /\ sequence.state # "ready" \/ ~NextFree
    /\ pc' = [pc EXCEPT ![r] = "done"]
    /\ UNCHANGED <<sequence, phase, highest, effective, number, there>>

\* The order transaction commits its row, or rolls back: the number is lost.
CommitOrder(r) ==
    /\ pc[r] = "drawn"
    /\ pc' = [pc EXCEPT ![r] = "done"]
    /\ \E committed \in BOOLEAN : there' = [there EXCEPT ![r] = committed]
    /\ UNCHANGED <<sequence, phase, highest, effective, number>>

\* The opportunity is deleted and its rows with it; the ERP keeps the number.
DeleteRow(x) ==
    /\ there[x]
    /\ there' = [there EXCEPT ![x] = FALSE]
    /\ UNCHANGED <<sequence, phase, highest, effective, pc, number>>

-----------------------------------------------------------------------------
Setup(s) ==
    \/ BeginSetup(s) \/ CreateSequence(s) \/ ReadHighest(s) \/ ReadSequence(s)
    \/ SetValue(s) \/ CommitSetup(s) \/ Stop(s)

Reserve(r) == Draw(r) \/ Refuse(r) \/ CommitOrder(r)

Next ==
    \/ \E s \in Setups : Setup(s)
    \/ \E r \in Requests : Reserve(r)
    \/ \E x \in Orders : DeleteRow(x)

Spec == Init /\ [][Next]_vars

-----------------------------------------------------------------------------
(* Properties *)

\* No number is drawn twice, not after a restart, a rolled back transaction or a
\* deleted row (whose order the ERP keeps); nor one that a row of the table has.
UniqueNumbers ==
    \A r \in Requests, x \in Orders :
        (r # x /\ number[r] # 0 /\ (x \in Requests \/ there[x])) => number[r] # number[x]

\* "nunca deve reduzir sequence ja avancada": no step lowers the last number drawn.
NeverRewinds ==
    [][sequence.state = "ready" /\ sequence'.state = "ready"
          => (IF sequence'.called THEN sequence'.last ELSE sequence'.last - 1) >= EffectiveLast]_vars

\* With one set-up, which is over while its instance serves: nothing is drawn
\* during it, what it read stays true until it writes, every number drawn is
\* behind the sequence, and while the instance serves so is every row.
NumbersInv ==
    /\ \A r \in Requests :
        /\ pc[r] = "drawn" => number[r] # 0 /\ phase[InstanceOf[r]] = "serving"
        /\ pc[r] = "idle" => number[r] = 0
        /\ there[r] => number[r] # 0 /\ pc[r] = "done"
        /\ number[r] # 0 => sequence.state = "ready" /\ number[r] <= EffectiveLast
    /\ \A s \in Setups :
        /\ phase[s] \in {"idle", "creating", "serving"} => sequence.state # "creating"
        /\ phase[s] = "creating" => sequence.state = "absent"
        /\ phase[s] \in {"aligning", "counted", "read", "set", "serving"} => sequence.state # "absent"
        /\ phase[s] \in {"counted", "read"} => \A x \in Orders : there[x] => number[x] <= highest[s]
        /\ phase[s] = "read" => effective[s] = EffectiveLast
        /\ phase[s] \in {"set", "serving"} => \A x \in Orders : there[x] => number[x] <= EffectiveLast
    /\ UniqueNumbers
=============================================================================
