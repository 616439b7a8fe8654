--------------------------- MODULE MCErpScheduler ---------------------------
(* Small instances of ErpScheduler for TLC. *)
EXTENDS ErpScheduler

CONSTANTS tick, now, b1, b2, on, off, m1, r1, r2, r3, r4, s1, s2

\* tick steps through r1, r2, now through r3, r4; m1 competes for the first scope
MCStepRun == [e \in Executions |-> [i \in 1..LastStep |-> IF e = tick THEN <<r1, r2>>[i] ELSE <<r3, r4>>[i]]]
MCScopeOf == [r \in Runs |-> IF r \in {r2, r4} THEN s2 ELSE s1]

(* Three instances in one: every state is one of an instance. *)

\* the calls that start and stop the interval, with two boots and an execution
\* of the panel, but no run
OnlyCalls == clock = 0 /\ exec[tick] = "idle" /\ \A r \in Runs : pc[r] = "idle"

\* both steps of both executions and a boot
OnlySteps == clock = 0 /\ pc[m1] = "idle" /\ \A c \in {on, off, b2} : call[c] = "idle"

\* The first steps, the job that competes with them, and time.  The process
\* lives: a run that dies with it leaves the lock as one that is slow does.  Only
\* statements of the job fail.
OnlyLocks ==
    /\ \A r \in {r2, r4} : pc[r] = "idle"
    /\ stored = "on" /\ call[b1] # "dead" /\ \A c \in {on, off, b2, now} : call[c] = "idle"

MCNext ==
    /\ SchedNext
    /\ \/ OnlyCalls' \/ OnlySteps'
       \/ OnlyLocks' /\ (failures' # failures => pc'[m1] # pc[m1])
MCSpec == SchedInit /\ [][MCNext]_schedVars
=============================================================================
