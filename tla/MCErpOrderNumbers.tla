-------------------------- MODULE MCErpOrderNumbers --------------------------
(* Small instances of ErpOrderNumbers for TLC. *)
EXTENDS ErpOrderNumbers

CONSTANTS i1, i2, t1, r1, r2, r3, r4, x1

\* r4 comes to the second instance when there is one
MCInstanceOf == [r \in Requests |-> IF r = r4 /\ i2 \in Instances THEN i2 ELSE i1]

MCOldNumber == [x \in Old |-> 2]
=============================================================================
