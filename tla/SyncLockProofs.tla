--------------------------- MODULE SyncLockProofs ---------------------------
(***************************************************************************)
(* For any number of runs and scopes and any time limit: the lock of the   *)
(* synchronisations is a lease.  A run in time keeps its lock row, two     *)
(* runs of one scope are never both in time, and a row is only deleted by  *)
(* its own run or taken over past its limit.                               *)
(***************************************************************************)
EXTENDS SyncLock, TLAPS

\* Every step keeps the types.
LEMMA TypeStep ==
    ASSUME TypeOK, [Next]_vars
    PROVE  TypeOK'
<1> USE SyncLockAssumption
<1>0. ASSUME NEW r \in Runs PROVE ScopeOf[r] \in Scopes /\ asked[r] + Ttl \in Nat
  BY DEF TypeOK
<1>1. CASE UNCHANGED vars
  BY <1>1 DEF TypeOK, vars
<1>2. CASE Tick
  BY <1>2 DEF TypeOK, Tick
<1>3. ASSUME NEW r \in Runs, CreateLock(r) \/ TakeOver(r) PROVE TypeOK'
  <2>1. lock' \in [Scopes -> [run : Runs \cup {NoRun}, until : Nat]]
    BY <1>0, <1>3 DEF TypeOK, CreateLock, TakeOver, TakeLock
  <2>2. pc' \in [Runs -> Working \cup {"idle", "creating", "taking", "refused", "done", "aborted", "dead"}]
    BY <1>3 DEF TypeOK, CreateLock, TakeOver, Goto, Working
  <2> QED BY <1>3, <2>1, <2>2 DEF TypeOK, CreateLock, TakeOver
<1>4. ASSUME NEW r \in Runs, Ask(r) \/ LockExists(r) \/ Refused(r) \/ AskFails(r) \/ Crash(r) PROVE TypeOK'
  BY <1>4 DEF TypeOK, Ask, LockExists, Refused, AskFails, Crash, Goto, Working
<1>5. ASSUME NEW r \in Runs, RecordSkip(r) \/ CreateRun(r) \/ Announce(r) \/ BeginFails(r) \/ Work(r)
      PROVE TypeOK'
  BY <1>5 DEF TypeOK, RecordSkip, CreateRun, Announce, BeginFails, Work, Goto, SetRow, Working
<1>6. ASSUME NEW r \in Runs,
             SaveSuccess(r) \/ WriteStatus(r) \/ SaveFails(r) \/ RecordError(r) \/ ReleaseFails(r)
      PROVE TypeOK'
  BY <1>6 DEF TypeOK, SaveSuccess, WriteStatus, SaveFails, RecordError, ReleaseFails, Goto, SetRow, Working
<1>7. ASSUME NEW r \in Runs, Release(r) PROVE TypeOK'
  BY <1>0, <1>7 DEF TypeOK, Release, DropLock, NoLock, Goto
<1> QED BY <1>1, <1>2, <1>3, <1>4, <1>5, <1>6, <1>7 DEF Next, Acquire, Run

\* Locks, runs and their rows are always well typed.
THEOREM SyncLockTypeCorrect == Spec => []TypeOK
<1>1. Init => TypeOK
  BY SyncLockAssumption DEF Init, TypeOK, NoLock
<1> QED BY <1>1, TypeStep, PTL DEF Spec

-----------------------------------------------------------------------------
\* What a step does to the locks, in five cases.

\* r moves, and neither locks nor times change
Quiet(r) ==
    /\ UNCHANGED <<lock, asked, clock>>
    /\ \E l \in Working \cup {"taking", "refused", "done", "aborted", "dead"} :
          /\ pc' = [pc EXCEPT ![r] = l]
          /\ l \in Working => pc[r] \in Working
          /\ l \in {"taking", "refused"} => pc[r] \in {"creating", "taking"}

\* r takes the lock, free or expired or its own
Takes(r) ==
    /\ pc[r] \in {"creating", "taking"} /\ pc' = [pc EXCEPT ![r] = "locked"]
    /\ Free(r) \/ Takeable(r)
    /\ TakeLock(r)
    /\ UNCHANGED <<asked, clock>>

\* Every step is one of the five.
LEMMA StepCases ==
    ASSUME [Next]_vars
    PROVE  \/ UNCHANGED <<lock, pc, asked, clock>>
           \/ Tick
           \/ \E r \in Runs : Ask(r) \/ Takes(r) \/ Quiet(r) \/ Release(r)
<1>1. ASSUME NEW r \in Runs, CreateLock(r) \/ TakeOver(r) PROVE Takes(r)
  BY <1>1 DEF CreateLock, TakeOver, Takes, Goto
<1>2. ASSUME NEW r \in Runs, LockExists(r) \/ Refused(r) \/ AskFails(r) \/ Crash(r) PROVE Quiet(r)
  BY <1>2 DEF LockExists, Refused, AskFails, Crash, Quiet, Goto, Working
<1>3. ASSUME NEW r \in Runs, RecordSkip(r) \/ CreateRun(r) \/ Announce(r) \/ BeginFails(r) \/ Work(r)
      PROVE Quiet(r)
  BY <1>3 DEF RecordSkip, CreateRun, Announce, BeginFails, Work, Quiet, Goto, Working
<1>4. ASSUME NEW r \in Runs,
             SaveSuccess(r) \/ WriteStatus(r) \/ SaveFails(r) \/ RecordError(r) \/ ReleaseFails(r)
      PROVE Quiet(r)
  BY <1>4 DEF SaveSuccess, WriteStatus, SaveFails, RecordError, ReleaseFails, Quiet, Goto, Working
<1> QED BY <1>1, <1>2, <1>3, <1>4 DEF Next, Acquire, Run, vars

\* A run that works and is in time has the lock of its scope.
LEMMA HasLock ==
    ASSUME LeaseInv, TypeOK, NEW r \in Runs, pc[r] \in Working, ~(LimitOf(r) < clock)
    PROVE  LockOf(r) = [run |-> r, until |-> LimitOf(r)] /\ LockOf(r) # NoLock
BY SyncLockAssumption DEF LeaseInv, NoLock

\* When r takes the lock, every other run that works there is past its limit.
LEMMA OthersExpired ==
    ASSUME TypeOK, LeaseInv, NEW r \in Runs, Takes(r),
           NEW q \in Runs, q # r, ScopeOf[q] = ScopeOf[r], pc[q] \in Working
    PROVE  LimitOf(q) < clock
<1>1. asked[r] \in Nat /\ asked[q] \in Nat /\ clock \in Nat /\ Ttl \in Nat /\ asked[r] <= clock
  BY SyncLockAssumption DEF TypeOK, LeaseInv
<1>2. LockOf(q) = LockOf(r)
  BY DEF LockOf
<1> SUFFICES ASSUME ~(LimitOf(q) < clock) PROVE FALSE
  OBVIOUS
<1>3. LockOf(r) = [run |-> q, until |-> LimitOf(q)] /\ LockOf(r) # NoLock
  BY <1>2, HasLock
<1>4. LimitOf(q) < asked[r]
  BY <1>3 DEF Takes, Free, Takeable
<1> QED BY <1>1, <1>4 DEF LimitOf

\* Every step keeps the invariant.
LEMMA LeaseStep ==
    ASSUME TypeOK, LeaseInv, [Next]_vars
    PROVE  LeaseInv'
<1> USE SyncLockAssumption
<1>0. /\ Ttl \in Nat \ {0} /\ clock \in Nat /\ asked \in [Runs -> Nat]
      /\ lock \in [Scopes -> [run : Runs \cup {NoRun}, until : Nat]]
      /\ \A r \in Runs : ScopeOf[r] \in Scopes /\ r \in DOMAIN pc
      /\ NoRun \notin Runs
  BY DEF TypeOK
<1>1. CASE UNCHANGED <<lock, pc, asked, clock>>
  BY <1>1 DEF LeaseInv, LockOf, LimitOf
<1>2. CASE Tick
  BY <1>0, <1>2 DEF Tick, LeaseInv, LockOf, LimitOf
<1>3. ASSUME NEW r \in Runs, Ask(r) PROVE LeaseInv'
  <2>1. /\ lock' = lock /\ clock' = clock /\ pc[r] = "idle" /\ pc'[r] = "creating" /\ asked'[r] = clock
        /\ \A q \in Runs \ {r} : pc'[q] = pc[q] /\ asked'[q] = asked[q]
    BY <1>0, <1>3 DEF Ask, Goto
  <2>2. \A q \in Runs : LockOf(q)' = LockOf(q)
    BY <2>1 DEF LockOf
  <2>3. LockOf(r).run # r /\ "creating" \notin Working
    BY <2>1 DEF LeaseInv, Working
  <2> QED BY <1>0, <2>1, <2>2, <2>3 DEF LeaseInv, LimitOf
<1>4. ASSUME NEW r \in Runs, Quiet(r) PROVE LeaseInv'
  <2> SUFFICES ASSUME NEW q \in Runs
               PROVE /\ asked'[q] <= clock'
                     /\ pc'[q] \in Working =>
                           LockOf(q)' = [run |-> q, until |-> LimitOf(q)'] \/ LimitOf(q)' < clock'
                     /\ LockOf(q)'.run = q => LockOf(q)'.until = LimitOf(q)'
                     /\ pc'[q] \in {"idle", "creating", "taking", "refused"} => LockOf(q)'.run # q
    BY DEF LeaseInv
  <2>1. LockOf(q)' = LockOf(q) /\ LimitOf(q)' = LimitOf(q) /\ asked'[q] = asked[q] /\ clock' = clock
    BY <1>4 DEF Quiet, LockOf, LimitOf
  <2>2. pc'[q] \in Working => pc[q] \in Working
    BY <1>0, <1>4 DEF Quiet
  <2>3. pc'[q] \in {"idle", "creating", "taking", "refused"} => pc[q] \in {"idle", "creating", "taking", "refused"}
    BY <1>0, <1>4 DEF Quiet, Working
  <2> QED BY <2>1, <2>2, <2>3 DEF LeaseInv
<1>5. ASSUME NEW r \in Runs, Takes(r) PROVE LeaseInv'
  <2>1. /\ LockOf(r)' = [run |-> r, until |-> LimitOf(r)] /\ UNCHANGED <<asked, clock>>
        /\ pc'[r] = "locked" /\ \A q \in Runs \ {r} : pc'[q] = pc[q]
    BY <1>0, <1>5 DEF Takes, TakeLock, LockOf, LimitOf
  <2>2. ASSUME NEW q \in Runs, q # r
        PROVE \/ ScopeOf[q] = ScopeOf[r] /\ LockOf(q)' = [run |-> r, until |-> LimitOf(r)]
              \/ ScopeOf[q] # ScopeOf[r] /\ LockOf(q)' = LockOf(q)
    BY <1>0, <1>5, <2>1 DEF Takes, TakeLock, LockOf
  <2>3. ASSUME NEW q \in Runs, q # r, ScopeOf[q] = ScopeOf[r], pc[q] \in Working
        PROVE LimitOf(q) < clock
    BY <1>5, <2>3, OthersExpired
  <2>4. LimitOf(r)' = LimitOf(r) /\ \A q \in Runs : LimitOf(q)' = LimitOf(q)
    BY <2>1 DEF LimitOf
  <2>5. "locked" \notin {"idle", "creating", "taking", "refused"}
    OBVIOUS
  <2>6. ASSUME NEW q \in Runs
        PROVE /\ asked'[q] <= clock'
              /\ pc'[q] \in Working =>
                    LockOf(q)' = [run |-> q, until |-> LimitOf(q)'] \/ LimitOf(q)' < clock'
              /\ LockOf(q)'.run = q => LockOf(q)'.until = LimitOf(q)'
              /\ pc'[q] \in {"idle", "creating", "taking", "refused"} => LockOf(q)'.run # q
    <3>1. CASE q = r
      BY <2>1, <2>4, <2>5, <3>1 DEF LeaseInv
    <3>2. CASE q # r
      BY <2>1, <2>2, <2>3, <2>4, <3>2 DEF LeaseInv
    <3> QED BY <3>1, <3>2
  <2> QED BY <2>6 DEF LeaseInv
<1>6. ASSUME NEW r \in Runs, Release(r) PROVE LeaseInv'
  <2>1. /\ UNCHANGED <<asked, clock>> /\ pc'[r] = "done" /\ \A q \in Runs \ {r} : pc'[q] = pc[q]
        /\ pc[r] = "releasing"
    BY <1>0, <1>6 DEF Release, Goto
  <2>2. ASSUME NEW q \in Runs
        PROVE \/ LockOf(q)' = LockOf(q) /\ LockOf(q).run # r
              \/ LockOf(q)' = LockOf(q) /\ ScopeOf[q] # ScopeOf[r]
              \/ LockOf(q)' = NoLock /\ LockOf(q).run = r
    <3>1. lock' = [lock EXCEPT ![ScopeOf[r]] = IF lock[ScopeOf[r]].run = r THEN NoLock ELSE lock[ScopeOf[r]]]
      BY <1>6 DEF Release, DropLock
    <3>2. CASE ScopeOf[q] = ScopeOf[r]
      BY <1>0, <3>1, <3>2 DEF LockOf
    <3>3. CASE ScopeOf[q] # ScopeOf[r]
      BY <1>0, <3>1, <3>3 DEF LockOf
    <3> QED BY <3>2, <3>3
  <2>3. \A q \in Runs : LimitOf(q)' = LimitOf(q) /\ NoLock.run # q /\ NoLock.run = NoRun
    BY <1>0, <2>1 DEF LimitOf, NoLock
  <2>4. ASSUME NEW q \in Runs
        PROVE /\ asked'[q] <= clock'
              /\ pc'[q] \in Working =>
                    LockOf(q)' = [run |-> q, until |-> LimitOf(q)'] \/ LimitOf(q)' < clock'
              /\ LockOf(q)'.run = q => LockOf(q)'.until = LimitOf(q)'
              /\ pc'[q] \in {"idle", "creating", "taking", "refused"} => LockOf(q)'.run # q
    <3>1. CASE q = r
      BY <2>1, <2>2, <2>3, <3>1 DEF LeaseInv, Working
    <3>2. CASE q # r
      BY <2>1, <2>2, <2>3, <3>2 DEF LeaseInv
    <3> QED BY <3>1, <3>2
  <2> QED BY <2>4 DEF LeaseInv
<1> QED BY <1>1, <1>2, <1>3, <1>4, <1>5, <1>6, StepCases

\* A run in time is never without its lock row, whatever other runs do.
THEOREM LeaseCorrect == Spec => []LeaseInv
<1>1. Init => LeaseInv
  <2> SUFFICES ASSUME Init PROVE LeaseInv
    OBVIOUS
  <2>1. ASSUME NEW r \in Runs
        PROVE pc[r] \notin Working /\ asked[r] <= clock /\ LockOf(r).run # r
    <3>1. LockOf(r) = NoLock
      BY SyncLockAssumption DEF Init, LockOf
    <3>2. asked[r] = 0 /\ clock = 0 /\ pc[r] = "idle"
      BY DEF Init
    <3> QED BY <3>1, <3>2, SyncLockAssumption DEF NoLock, Working
  <2> QED BY <2>1 DEF LeaseInv
<1> QED BY <1>1, LeaseStep, SyncLockTypeCorrect, PTL DEF Spec

\* Two runs of a scope that both work are never both in time.
THEOREM NoOverlapCorrect == Spec => []NoOverlapInTime
<1>1. TypeOK /\ LeaseInv => NoOverlapInTime
  <2> SUFFICES ASSUME TypeOK, LeaseInv, NEW q \in Runs, NEW r \in Runs,
                      q # r, ScopeOf[q] = ScopeOf[r], pc[q] \in Working, pc[r] \in Working,
                      ~(LimitOf(q) < clock), ~(LimitOf(r) < clock)
               PROVE FALSE
    BY DEF NoOverlapInTime
  <2>1. LockOf(q) = [run |-> q, until |-> LimitOf(q)] /\ LockOf(r) = [run |-> r, until |-> LimitOf(r)]
    BY HasLock
  <2>2. LockOf(q) = LockOf(r)
    BY DEF LockOf
  <2> QED BY <2>1, <2>2
<1> QED BY <1>1, LeaseCorrect, SyncLockTypeCorrect, PTL

\* A lock row is deleted by its own run only, and changes hands only past its limit.
THEOREM ChangesHandsCorrect == Spec => LockChangesHands
<1> DEFINE Change(s) == (lock[s] # NoLock /\ lock'[s] # lock[s]) =>
                           \/ lock'[s] = NoLock /\ pc[lock[s].run] = "releasing"
                           \/ lock'[s] # NoLock /\ lock[s].until < clock
<1>1. TypeOK /\ LeaseInv /\ [Next]_vars => \A s \in Scopes : Change(s)
  <2> SUFFICES ASSUME TypeOK, LeaseInv, [Next]_vars, NEW s \in Scopes,
                      lock[s] # NoLock, lock'[s] # lock[s]
               PROVE \/ lock'[s] = NoLock /\ pc[lock[s].run] = "releasing"
                     \/ lock'[s] # NoLock /\ lock[s].until < clock
    OBVIOUS
  <2>0. lock \in [Scopes -> [run : Runs \cup {NoRun}, until : Nat]] /\ NoRun \notin Runs
    BY SyncLockAssumption DEF TypeOK
  <2>1. PICK r \in Runs : Takes(r) \/ Release(r)
    BY StepCases DEF Tick, Ask, Quiet
  <2>2. CASE Takes(r)
    <3>1. s = ScopeOf[r] /\ lock'[s] = [run |-> r, until |-> asked[r] + Ttl]
      BY <2>0, <2>2 DEF Takes, TakeLock
    <3>2. lock'[s] # NoLock
      BY <2>0, <3>1 DEF NoLock
    <3>3. Takeable(r) /\ lock[s].run # r
      BY <2>2, <3>1 DEF Takes, Free, LockOf, LeaseInv
    <3>4. lock[s].until < asked[r] /\ asked[r] <= clock
      BY <3>1, <3>3 DEF Takeable, LockOf, LeaseInv
    <3>5. lock[s].until \in Nat /\ asked[r] \in Nat /\ clock \in Nat
      BY <2>0 DEF TypeOK
    <3> QED BY <3>2, <3>4, <3>5
  <2>3. CASE Release(r)
    <3>1. lock' = [lock EXCEPT ![ScopeOf[r]] = IF lock[ScopeOf[r]].run = r THEN NoLock ELSE lock[ScopeOf[r]]]
      BY <2>3 DEF Release, DropLock
    <3>2. s = ScopeOf[r] /\ lock[s].run = r /\ lock'[s] = NoLock
      BY <2>0, <3>1
    <3> QED BY <2>3, <3>2 DEF Release, Goto
  <2> QED BY <2>1, <2>2, <2>3
<1>2. (\A s \in Scopes : Change(s)) <=>
      (\A s \in Scopes :
          (lock[s] # NoLock /\ lock'[s] # lock[s]) =>
              \/ lock'[s] = NoLock /\ pc[lock[s].run] = "releasing"
              \/ lock'[s] # NoLock /\ lock[s].until < clock)
  OBVIOUS
<1> QED BY <1>1, <1>2, LeaseCorrect, SyncLockTypeCorrect, PTL DEF Spec, LockChangesHands

-----------------------------------------------------------------------------
\* A run whose state of work does not change keeps its lease.
LEMMA LimitsKept ==
    ASSUME UNCHANGED asked, \A q \in Runs : pc'[q] \in Working <=> pc[q] \in Working
    PROVE  limits' = limits
BY DEF limits, LimitOf

\* A step of one run changes its lease only.
LEMMA LimitsMove ==
    ASSUME NEW r \in Runs, UNCHANGED asked, \A q \in Runs \ {r} : pc'[q] = pc[q],
           NEW v, v = IF pc'[r] \in Working THEN LimitOf(r) ELSE 0
    PROVE  limits' = [limits EXCEPT ![r] = v]
<1>1. DOMAIN limits = Runs /\ DOMAIN limits' = Runs
  BY DEF limits
<1>2. limits'[r] = v /\ \A q \in Runs \ {r} : limits'[q] = limits[q]
  BY DEF limits, LimitOf
<1>3. limits' = [q \in Runs |-> limits'[q]]
  BY DEF limits
<1>4. [limits EXCEPT ![r] = v] = [q \in Runs |-> IF q = r THEN v ELSE limits[q]]
  BY <1>1
<1> QED BY <1>2, <1>3, <1>4

\* Every step of the lock is a step of the lease, or a stutter.
LEMMA ImplementsStep ==
    ASSUME TypeOK, LeaseInv, [Next]_vars
    PROVE  [Leases!Next]_(Leases!vars)
<1> USE SyncLockAssumption
<1>0. /\ Ttl \in Nat \ {0} /\ clock \in Nat /\ asked \in [Runs -> Nat]
      /\ \A q \in Runs : q \in DOMAIN pc
      /\ \A q \in Runs : LimitOf(q) \in Nat /\ LimitOf(q) # 0
  BY DEF TypeOK, LimitOf
<1>1. CASE UNCHANGED <<lock, pc, asked, clock>>
  BY <1>1, LimitsKept DEF Leases!vars
<1>2. CASE Tick
  <2>1. limits' = limits
    BY <1>2, LimitsKept DEF Tick
  <2> QED BY <1>0, <1>2, <2>1 DEF Tick, Leases!Next, Leases!Tick
<1>3. ASSUME NEW r \in Runs, Ask(r) PROVE UNCHANGED Leases!vars
  <2>1. \A q \in Runs : (pc'[q] \in Working <=> pc[q] \in Working)
                     /\ (pc[q] \in Working => asked'[q] = asked[q])
    BY <1>0, <1>3 DEF Ask, Goto, Working
  <2> QED BY <1>3, <2>1 DEF Ask, limits, LimitOf, Leases!vars
<1>4. ASSUME NEW r \in Runs, Takes(r) PROVE Leases!Begin(r)
  <2>1. /\ pc[r] \notin Working /\ pc'[r] \in Working /\ UNCHANGED <<asked, clock>>
        /\ \A q \in Runs \ {r} : pc'[q] = pc[q]
    BY <1>0, <1>4 DEF Takes, Working
  <2>2. limits[r] = 0 /\ limits' = [limits EXCEPT ![r] = LimitOf(r)]
    BY <2>1, LimitsMove DEF limits
  <2>3. LimitOf(r) \in 1 .. clock + Ttl
    BY <1>0 DEF LimitOf, LeaseInv
  <2>4. \A q \in Runs : ScopeOf[q] = ScopeOf[r] => limits[q] = 0 \/ limits[q] < clock
    BY <1>4, <2>1, OthersExpired DEF limits
  <2> QED BY <2>1, <2>2, <2>3, <2>4 DEF Leases!Begin
<1>5. ASSUME NEW r \in Runs, Quiet(r) \/ Release(r)
      PROVE UNCHANGED Leases!vars \/ Leases!End(r)
  <2>1. /\ UNCHANGED <<asked, clock>> /\ \A q \in Runs \ {r} : pc'[q] = pc[q]
        /\ pc'[r] \in Working => pc[r] \in Working
    BY <1>0, <1>5 DEF Quiet, Release, Goto, Working
  <2>2. CASE pc[r] \in Working <=> pc'[r] \in Working
    BY <2>1, <2>2, LimitsKept DEF Leases!vars
  <2>3. CASE pc[r] \in Working /\ pc'[r] \notin Working
    <3>1. limits[r] # 0 /\ limits' = [limits EXCEPT ![r] = 0]
      BY <1>0, <2>1, <2>3, LimitsMove DEF limits
    <3> QED BY <2>1, <3>1 DEF Leases!End
  <2> QED BY <2>1, <2>2, <2>3
<1> QED BY <1>1, <1>2, <1>3, <1>4, <1>5, StepCases DEF Leases!Next

\* The lock implements the lease: a run begins to work on a scope only when all
\* that still work on it are past their limits.
THEOREM LeaseImplemented == Spec => ImplementsLease
<1>1. Init => Leases!Init
  BY DEF Init, Leases!Init, limits, Working
<1> QED
  BY <1>1, ImplementsStep, LeaseCorrect, SyncLockTypeCorrect, PTL
     DEF Spec, ImplementsLease, Leases!Spec
=============================================================================
