----------------------------- MODULE OrderSlot -----------------------------
(***************************************************************************)
(* What the order flow promises about one opportunity: its slot is claimed *)
(* by one submission at a time, and a submission whose result is unknown   *)
(* closes the slot for good, until someone looks at the ERP by hand        *)
(* (erpOrderService.ts, the two checks of the order transaction).          *)
(***************************************************************************)
CONSTANT Opportunities

VARIABLE slot     \* slot[o]: "free", "busy", "closed" or "gone" (deleted)

Init == slot = [o \in Opportunities |-> "free"]

Move(o, from, to) == slot[o] \in from /\ slot' = [slot EXCEPT ![o] = to]

Claim(o) == Move(o, {"free"}, "busy")
Settle(o) == Move(o, {"busy"}, "free")      \* sent, or a definite refusal
Lose(o) == Move(o, {"busy"}, "closed")      \* timeout, crash, result not recorded
Delete(o) == Move(o, {"free", "busy", "closed"}, "gone")

Next == \E o \in Opportunities : Claim(o) \/ Settle(o) \/ Lose(o) \/ Delete(o)

Spec == Init /\ [][Next]_slot
=============================================================================
