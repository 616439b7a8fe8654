------------------------------- MODULE Lease -------------------------------
(***************************************************************************)
(* What the lock of the ERP synchronisations promises (OPERACAO.md,        *)
(* "Interpretacao do lock ERP"): a run works on its scope under a lease of *)
(* limited time that it never renews, and another one begins there only    *)
(* when the leases of all that still work have run out.                    *)
(***************************************************************************)
EXTENDS Naturals

CONSTANTS Runs, ScopeOf, Ttl

VARIABLES
    limit,    \* limit[r]: when the lease of r runs out, 0 while r does not work
    clock

vars == <<limit, clock>>

Init == limit = [r \in Runs |-> 0] /\ clock = 0

Begin(r) ==
    /\ limit[r] = 0
    /\ \A q \in Runs : ScopeOf[q] = ScopeOf[r] => limit[q] = 0 \/ limit[q] < clock
    /\ \E t \in 1 .. clock + Ttl : limit' = [limit EXCEPT ![r] = t]
    /\ UNCHANGED clock

End(r) ==
    /\ limit[r] # 0
    /\ limit' = [limit EXCEPT ![r] = 0]
    /\ UNCHANGED clock

Tick ==
    /\ clock' \in Nat /\ clock' > clock
    /\ UNCHANGED limit

Next == Tick \/ \E r \in Runs : Begin(r) \/ End(r)

Spec == Init /\ [][Next]_vars
=============================================================================
