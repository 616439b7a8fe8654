------------------------------ MODULE SyncLock ------------------------------
(***************************************************************************)
(* The synchronisations with the ERP (ultraFv3SyncService.ts): runSync,    *)
(* one run of a catalogue, and startUltraFv3FullSyncJob, the job of all of *)
(* them.  A run takes the row of its scope in ErpSyncLock, keeps a row in  *)
(* ErpSyncRun, works, and deletes its lock row in a finally.  The row has  *)
(* a time limit that is never renewed; a row past it is taken over.        *)
(* Every await ends a step, and runs of all API instances interleave.      *)
(***************************************************************************)
EXTENDS Naturals

CONSTANTS
    Runs,         \* calls of runSync and of the full job, each with its correlation id
    Jobs,         \* those of the full job
    Scopes,       \* the scopes of locks: one of a catalogue, of a seller, "syncAll"
    ScopeOf,      \* the lock scope of each run
    Ttl,          \* ERP_SYNC_LOCK_TTL_MS
    MaxClock,     \* the bound on the time
    NoRun         \* no run

ASSUME SyncLockAssumption ==
    /\ Jobs \subseteq Runs /\ ScopeOf \in [Runs -> Scopes]
    /\ Ttl \in Nat \ {0} /\ MaxClock \in Nat /\ NoRun \notin Runs

NoLock == [run |-> NoRun, until |-> 0]

VARIABLES
    lock,     \* lock[s]: the row of scope s in ErpSyncLock
    pc,       \* pc[r]: where the handler of r is
    asked,    \* asked[r]: "now", read when r begins to acquire the lock
    row,      \* row[r]: the status of its row in ErpSyncRun, "none" without one
    clock     \* the time, one for all API instances

vars == <<lock, pc, asked, row, clock>>

\* from the lock acquired to the lock released
Working == {"locked", "announcing", "running", "succeeded", "saved", "failed", "releasing"}

TypeOK ==
    /\ lock \in [Scopes -> [run : Runs \cup {NoRun}, until : Nat]]
    /\ pc \in [Runs -> Working \cup {"idle", "creating", "taking", "refused", "done", "aborted", "dead"}]
    /\ asked \in [Runs -> Nat]
    /\ row \in [Runs -> {"none", "running", "success", "error", "skipped"}]
    /\ clock \in Nat

Init ==
    /\ lock = [s \in Scopes |-> NoLock]
    /\ pc = [r \in Runs |-> "idle"]
    /\ asked = [r \in Runs |-> 0]
    /\ row = [r \in Runs |-> "none"]
    /\ clock = 0

-----------------------------------------------------------------------------
LockOf(r) == lock[ScopeOf[r]]

(* Defects the properties must tell from the code. *)

\* Free with an upsert for the create
AlwaysFree(r) == TRUE

\* Takeable with lte for lt, and without a look at the limit
TakeableAtLimit(r) == LockOf(r) # NoLock /\ (LockOf(r).until <= asked[r] \/ LockOf(r).run = r)
TakeableAny(r) == LockOf(r) # NoLock

\* TakeLock with its two strings swapped
TakeSwapped(r) ==
    lock' = [lock EXCEPT ![ScopeOf[r]] = [run |-> ScopeOf[r], until |-> asked[r] + Ttl]]

\* DropLock by scope alone
DropAnyLock(r) == lock' = [lock EXCEPT ![ScopeOf[r]] = NoLock]

-----------------------------------------------------------------------------
Free(r) == LockOf(r) = NoLock

\* the where of the takeover: lockedUntil < now, or one's own row
Takeable(r) == ~Free(r) /\ (LockOf(r).until < asked[r] \/ LockOf(r).run = r)

TakeLock(r) == lock' = [lock EXCEPT ![ScopeOf[r]] = [run |-> r, until |-> asked[r] + Ttl]]

\* deleteMany: the row of this scope, if it is of this run
DropLock(r) == lock' = [lock EXCEPT ![ScopeOf[r]] = IF @.run = r THEN NoLock ELSE @]

Goto(r, from, to) == pc[r] = from /\ pc' = [pc EXCEPT ![r] = to]

SetRow(r, status) == row' = [row EXCEPT ![r] = status]

-----------------------------------------------------------------------------
(* acquireSyncLock *)

Ask(r) ==
    /\ Goto(r, "idle", "creating")
    /\ asked' = [asked EXCEPT ![r] = clock]
    /\ UNCHANGED <<lock, row, clock>>

CreateLock(r) ==
    /\ Free(r)
    /\ Goto(r, "creating", "locked")
    /\ TakeLock(r)
    /\ UNCHANGED <<asked, row, clock>>

\* P2002: the scope has a row
LockExists(r) ==
    /\ ~Free(r)
    /\ Goto(r, "creating", "taking")
    /\ UNCHANGED <<lock, asked, row, clock>>

TakeOver(r) ==
    /\ Takeable(r)
    /\ Goto(r, "taking", "locked")
    /\ TakeLock(r)
    /\ UNCHANGED <<asked, row, clock>>

\* Nothing to update: the row is another one's and not expired, or gone by now.
\* What findUnique then reads goes into a message.
Refused(r) ==
    /\ ~Takeable(r)
    /\ Goto(r, "taking", "refused")
    /\ UNCHANGED <<lock, asked, row, clock>>

\* another error of the database
AskFails(r) ==
    /\ Goto(r, "creating", "aborted") \/ Goto(r, "taking", "aborted")
    /\ UNCHANGED <<lock, asked, row, clock>>

-----------------------------------------------------------------------------
(* The run.  The job has no row for a refusal, and no status to write. *)

RecordSkip(r) ==
    /\ Goto(r, "refused", "done")
    /\ \/ r \notin Jobs /\ SetRow(r, "skipped")
       \/ UNCHANGED row
    /\ UNCHANGED <<lock, asked, clock>>

CreateRun(r) ==
    /\ Goto(r, "locked", IF r \in Jobs THEN "running" ELSE "announcing")
    /\ SetRow(r, "running")
    /\ UNCHANGED <<lock, asked, clock>>

\* writeSyncStatus: a map in AppConfig that nothing reads; it matters by throwing
Announce(r) ==
    /\ Goto(r, "announcing", "running")
    /\ UNCHANGED <<lock, asked, row, clock>>

\* The creation of the row, or the status, throws: both are before the try.
BeginFails(r) ==
    /\ Goto(r, "locked", "aborted") \/ Goto(r, "announcing", "aborted")
    /\ UNCHANGED <<lock, asked, row, clock>>

Work(r) ==
    /\ Goto(r, "running", "succeeded") \/ Goto(r, "running", "failed")
    /\ UNCHANGED <<lock, asked, row, clock>>

SaveSuccess(r) ==
    /\ Goto(r, "succeeded", IF r \in Jobs THEN "releasing" ELSE "saved")
    /\ SetRow(r, "success")
    /\ UNCHANGED <<lock, asked, clock>>

WriteStatus(r) ==
    /\ Goto(r, "saved", "releasing")
    /\ UNCHANGED <<lock, asked, row, clock>>

\* Inside the try: the catch takes over, even when success has been recorded.
SaveFails(r) ==
    /\ Goto(r, "succeeded", "failed") \/ Goto(r, "saved", "failed")
    /\ UNCHANGED <<lock, asked, row, clock>>

\* The catch; whether or not its update throws, the finally follows.
RecordError(r) ==
    /\ Goto(r, "failed", "releasing")
    /\ SetRow(r, "error") \/ UNCHANGED row
    /\ UNCHANGED <<lock, asked, clock>>

Release(r) ==
    /\ Goto(r, "releasing", "done")
    /\ DropLock(r)
    /\ UNCHANGED <<asked, row, clock>>

\* only logged
ReleaseFails(r) ==
    /\ Goto(r, "releasing", "done")
    /\ UNCHANGED <<lock, asked, row, clock>>

\* the API process dies
Crash(r) ==
    /\ pc[r] \in Working \cup {"creating", "taking", "refused"}
    /\ pc' = [pc EXCEPT ![r] = "dead"]
    /\ UNCHANGED <<lock, asked, row, clock>>

Tick ==
    /\ clock < MaxClock
    /\ clock' = clock + 1
    /\ UNCHANGED <<lock, pc, asked, row>>

-----------------------------------------------------------------------------
Acquire(r) == Ask(r) \/ CreateLock(r) \/ LockExists(r) \/ TakeOver(r) \/ Refused(r) \/ AskFails(r)

Run(r) ==
    \/ RecordSkip(r) \/ CreateRun(r) \/ Announce(r) \/ BeginFails(r)
    \/ Work(r) \/ SaveSuccess(r) \/ WriteStatus(r) \/ SaveFails(r) \/ RecordError(r)
    \/ Release(r) \/ ReleaseFails(r)

Next == Tick \/ \E r \in Runs : Acquire(r) \/ Run(r) \/ Crash(r)

Spec == Init /\ [][Next]_vars

-----------------------------------------------------------------------------
(* Properties *)

LimitOf(r) == asked[r] + Ttl

\* A run that works has the lock row, up to its own limit, or its limit is over:
\* nobody takes or deletes the row of a run in time.
LeaseInv ==
    \A r \in Runs :
        /\ asked[r] <= clock
        /\ pc[r] \in Working =>
              LockOf(r) = [run |-> r, until |-> LimitOf(r)] \/ LimitOf(r) < clock
        /\ LockOf(r).run = r => LockOf(r).until = LimitOf(r)
        /\ pc[r] \in {"idle", "creating", "taking", "refused"} => LockOf(r).run # r

\* No two runs of a scope work at the same time while both are in time.
NoOverlapInTime ==
    \A q, r \in Runs :
        (q # r /\ ScopeOf[q] = ScopeOf[r] /\ pc[q] \in Working /\ pc[r] \in Working)
            => LimitOf(q) < clock \/ LimitOf(r) < clock

\* A row is deleted by its own run only, and changes hands only when it has expired.
LockChangesHands ==
    [][\A s \in Scopes :
          (lock[s] # NoLock /\ lock'[s] # lock[s]) =>
              \/ lock'[s] = NoLock /\ pc[lock[s].run] = "releasing"
              \/ lock'[s] # NoLock /\ lock[s].until < clock]_vars

limits == [r \in Runs |-> IF pc[r] \in Working THEN LimitOf(r) ELSE 0]

Leases == INSTANCE Lease WITH limit <- limits

\* The lock implements the lease.
ImplementsLease == Leases!Spec
=============================================================================
