---------------------------- MODULE ErpOrderSlot ----------------------------
(***************************************************************************)
(* The order flow implements OrderSlot: the slot of an opportunity, read   *)
(* off the rows of its attempts and where their handlers are.              *)
(***************************************************************************)
EXTENDS ErpOrder

AttemptsOf(o) == {a \in Attempts : OpportunityOf[a] = o}

SlotOf(o) ==
    IF stage[o] = "excluida" THEN "gone"
    ELSE IF \E a \in AttemptsOf(o) : pc[a] \in Underway THEN "busy"
    ELSE IF \E a \in AttemptsOf(o) : Uncertain(a) THEN "closed"
    ELSE "free"

slots == [o \in Opportunities |-> SlotOf(o)]

Slot == INSTANCE OrderSlot WITH slot <- slots

\* Every behaviour of the order flow is one of the abstract slots: a claim only
\* of a free slot, and none ever again once a result is unknown.
ImplementsSlot == Slot!Spec
=============================================================================
