------------------------- MODULE ErpSchedulerProofs -------------------------
(***************************************************************************)
(* For any number of executions, steps, calls and other runs: the steps of *)
(* the scheduler use the lock as any other run does, so what SyncLockProofs *)
(* proves of the lock holds with the scheduler; the process has the one    *)
(* interval it can stop; one execution at a time is under way when the     *)
(* configuration needs no query; and what the row of an execution says of  *)
(* its steps, all of them or those before a conflict, is so.               *)
(***************************************************************************)
EXTENDS ErpScheduler, SyncLockProofs

\* The calls that start and stop the interval, and what they leave alone.
CallStep(c) == EnableOrDisable(c) \/ Save(c) \/ Starting(c) \/ CallFails(c)

LEMMA CallStepLeaves ==
    ASSUME NEW c \in Calls, CallStep(c)
    PROVE  UNCHANGED <<vars, work>>
BY DEF CallStep, EnableOrDisable, Save, Starting, Boot, LoadConfig, ApplyConfig, Configured, CallFails

\* Executions leave the switch and the interval alone.
LEMMA ExecuteLeaves ==
    ASSUME NEW e \in Executions, Execute(e)
    PROVE  UNCHANGED switches
BY DEF Execute, Begin, Claimed, NotNow, CreateOverall, CreateOverallFails,
       StepMoves, StepCannotBegin, StepEnds, Finish, FinishFails, RecordFailure

\* A call moves from one of its states to another.
LEMMA CallMoves ==
    ASSUME NEW c \in Calls, CallStep(c), call \in [Calls -> CallStates], stored \in {"on", "off"}
    PROVE  \E l \in CallStates : call' = [call EXCEPT ![c] = l]
<1>1. CASE EnableOrDisable(c)
  BY <1>1 DEF EnableOrDisable, CallGoto, CallStates
<1>2. CASE Save(c)
  BY <1>2 DEF Save, CallGoto, CallStates
<1>3. CASE Starting(c)
  BY <1>3 DEF Starting, Boot, LoadConfig, ApplyConfig, Configured, CallGoto, CallStates
<1>4. CASE CallFails(c)
  BY <1>4 DEF CallFails, CallGoto, CallStates
<1> QED BY <1>1, <1>2, <1>3, <1>4 DEF CallStep

\* The calls keep the types and the one interval.
LEMMA CallsKeepTypes ==
    ASSUME SchedTypeOK, NoLostInterval, NEW c \in Calls, CallStep(c)
    PROVE  SchedTypeOK' /\ NoLostInterval'
<1> USE SchedulerAssumption DEF SchedTypeOK, NoLostInterval
<1>1. failures' \in 0..MaxFailures
  BY DEF CallStep, EnableOrDisable, Save, Starting, Boot, LoadConfig, ApplyConfig, Configured, CallFails, Fails
<1>2. UNCHANGED work
  BY CallStepLeaves
<1>3. call' \in [Calls -> CallStates]
  <2>1. PICK l \in CallStates : call' = [call EXCEPT ![c] = l]
    BY CallMoves
  <2> QED BY <2>1
<1>4. /\ persistedAutomaticSyncEnabled' \in {"on", "off"}
      /\ automaticSchedulerInitialized' \in BOOLEAN
      /\ stored' \in {"on", "off"}
  <2>1. CASE EnableOrDisable(c) \/ Save(c)
    BY <2>1 DEF EnableOrDisable, Save
  <2>2. CASE Starting(c)
    BY <2>2 DEF Starting, Boot, LoadConfig, ApplyConfig, Configured
  <2>3. CASE CallFails(c)
    BY <2>3 DEF CallFails
  <2> QED BY <2>1, <2>2, <2>3 DEF CallStep
<1>5. UNCHANGED <<automaticTimer, intervals>> \/ ClearTimer \/ Schedule
  BY DEF CallStep, EnableOrDisable, Save, Starting, Boot, LoadConfig, ApplyConfig, Configured, CallFails, Decide
<1>6. automaticTimer' \in {0, 1} /\ intervals' \in Nat /\ NoLostInterval'
  BY <1>5 DEF ClearTimer, Schedule
<1> QED BY <1>1, <1>2, <1>3, <1>4, <1>6 DEF work

\* Executions keep the types.
LEMMA ExecutionsKeepTypes ==
    ASSUME SchedTypeOK, NoLostInterval, NEW e \in Executions, Execute(e)
    PROVE  SchedTypeOK' /\ NoLostInterval'
<1> USE SchedulerAssumption DEF SchedTypeOK, NoLostInterval
<1>1. UNCHANGED switches
  BY ExecuteLeaves
<1>2. exec' \in [Executions -> Underway \cup {"idle", "configuring", "done", "aborted", "dead"}]
  BY DEF Execute, Begin, Claimed, NotNow, CreateOverall, CreateOverallFails, StepMoves,
         StepCannotBegin, StepEnds, Finish, FinishFails, RecordFailure, ExecGoto, Underway
<1>3. failures' \in 0..MaxFailures
  BY DEF Execute, Begin, Claimed, NotNow, CreateOverall, CreateOverallFails, StepMoves,
         StepCannotBegin, StepEnds, Finish, FinishFails, RecordFailure, Fails
<1>4. step' \in [Executions -> 1..LastStep]
  BY DEF Execute, Begin, Claimed, NotNow, CreateOverall, CreateOverallFails, StepMoves,
         StepCannotBegin, StepEnds, Finish, FinishFails, RecordFailure
<1>5. threw' \in [Executions -> Thrown]
  <2>1. CASE StepMoves(e)
    <3>1. StepThrows(e) \subseteq Thrown
      BY DEF StepThrows, Thrown
    <3> QED BY <2>1, <3>1 DEF StepMoves
  <2> QED BY <2>1 DEF Execute, Begin, Claimed, NotNow, CreateOverall, CreateOverallFails,
         StepCannotBegin, StepEnds, Finish, FinishFails, RecordFailure, Thrown
<1>6. /\ overall' \in [Executions -> {"none", "running", "success", "skipped", "error"}]
      /\ skipped' \subseteq Executions
      /\ automaticSyncRunning' \in BOOLEAN
  BY DEF Execute, Begin, Claimed, NotNow, CreateOverall, CreateOverallFails, StepMoves,
         StepCannotBegin, StepEnds, Finish, FinishFails, RecordFailure, Claim
<1> QED BY <1>1, <1>2, <1>3, <1>4, <1>5, <1>6 DEF switches

\* Every step keeps the types and the one interval.
LEMMA SchedTypeStep ==
    ASSUME SchedTypeOK, NoLostInterval, [SchedNext]_schedVars
    PROVE  SchedTypeOK' /\ NoLostInterval'
<1> USE SchedulerAssumption
<1>1. CASE UNCHANGED schedVars
  BY <1>1 DEF schedVars, switches, work, SchedTypeOK, NoLostInterval
<1>2. CASE ProcessDies
  <2>1. call' \in [Calls -> {"idle", "dead"}]
    BY <1>2 DEF ProcessDies
  <2>2. exec' \in [Executions -> {"idle", "done", "dead"}]
    BY <1>2 DEF ProcessDies
  <2> QED BY <1>2, <2>1, <2>2 DEF ProcessDies, SchedTypeOK, CallStates, NoLostInterval
<1>3. CASE OtherRuns
  BY <1>3 DEF OtherRuns, switches, work, Fails, SchedTypeOK, NoLostInterval
<1> QED BY <1>1, <1>2, <1>3, CallsKeepTypes, ExecutionsKeepTypes DEF SchedNext, CallStep

LEMMA SchedTypeInit ==
    ASSUME SchedInit
    PROVE  SchedTypeOK /\ NoLostInterval
<1>1. /\ automaticTimer = 0 /\ intervals = 0 /\ failures = 0
      /\ automaticSyncRunning \in BOOLEAN /\ automaticSchedulerInitialized \in BOOLEAN
      /\ persistedAutomaticSyncEnabled \in {"on", "off"} /\ stored \in {"on", "off"}
  BY DEF SchedInit
<1>2. /\ call \in [Calls -> CallStates]
      /\ exec \in [Executions -> Underway \cup {"idle", "configuring", "done", "aborted", "dead"}]
      /\ step \in [Executions -> 1..LastStep]
      /\ threw \in [Executions -> Thrown]
      /\ overall \in [Executions -> {"none", "running", "success", "skipped", "error"}]
      /\ skipped \subseteq Executions
  BY SchedulerAssumption DEF SchedInit, CallStates, Thrown
<1> QED BY <1>1, <1>2, SchedulerAssumption DEF SchedTypeOK, NoLostInterval

\* The scheduler is well typed, whatever calls and executions overlap.
THEOREM SchedulerTypeCorrect == SchedSpec => []SchedTypeOK
<1> QED BY SchedTypeInit, SchedTypeStep, PTL DEF SchedSpec

\* A process has one interval, and can stop it, whatever calls overlap.
THEOREM NoLostIntervalCorrect == SchedSpec => []NoLostInterval
<1> QED BY SchedTypeInit, SchedTypeStep, PTL DEF SchedSpec

-----------------------------------------------------------------------------
\* A step of the scheduler moves one run of the lock, or none.
LEMMA LockStep ==
    ASSUME SchedTypeOK, [SchedNext]_schedVars
    PROVE  [Next]_vars
<1> USE SchedulerAssumption
<1>1. CASE UNCHANGED schedVars
  BY <1>1 DEF schedVars
<1>2. ASSUME NEW c \in Calls, CallStep(c) PROVE UNCHANGED vars
  BY <1>2, CallStepLeaves
<1>3. ASSUME NEW e \in Executions, StepMoves(e) PROVE Next
  <2>1. StepOf(e) \in Runs
    BY DEF StepOf, SchedTypeOK
  <2> QED BY <1>3, <2>1 DEF StepMoves, Next
<1>4. ASSUME NEW e \in Executions, Execute(e) PROVE Next \/ UNCHANGED vars
  BY <1>3, <1>4 DEF Execute, Begin, Claimed, NotNow, CreateOverall, CreateOverallFails,
       StepCannotBegin, StepEnds, Finish, FinishFails, RecordFailure
<1>5. CASE ProcessDies
  BY <1>5 DEF ProcessDies, DieAlone
<1>6. CASE OtherRuns
  BY <1>6 DEF OtherRuns, Next
<1> QED BY <1>1, <1>2, <1>4, <1>5, <1>6 DEF SchedNext, CallStep

\* The scheduler's steps are runs of the lock like any other.
THEOREM SchedulerUsesTheLock == SchedSpec => UsesTheLock
<1>1. SchedInit => Init
  BY DEF SchedInit
<1> QED BY <1>1, LockStep, SchedulerTypeCorrect, PTL DEF SchedSpec, UsesTheLock, Spec

\* With the scheduler among them, no two runs of a scope work in time at once.
THEOREM SchedulerNeverOverlaps == SchedSpec => []NoOverlapInTime
BY SchedulerUsesTheLock, NoOverlapCorrect, PTL DEF UsesTheLock

-----------------------------------------------------------------------------
\* An execution keeps the flag up from its claim to its end, and nobody else
\* claims it in between.
LEMMA OneExecutionStep ==
    ASSUME ~SellerReference, SchedTypeOK, OneExecutionAtATime, [SchedNext]_schedVars,
           \A e \in Executions : exec[e] # "configuring"
    PROVE  /\ OneExecutionAtATime'
           /\ \A e \in Executions : exec'[e] # "configuring"
<1> USE DEF OneExecutionAtATime
<1>0. DOMAIN exec = Executions
  BY DEF SchedTypeOK
<1>1. CASE UNCHANGED work
  BY <1>1 DEF work
<1>2. CASE ProcessDies
  BY <1>0, <1>2 DEF ProcessDies, Underway
<1>3. ASSUME NEW e \in Executions, Begin(e) \/ Claimed(e) \/ NotNow(e)
      PROVE  OneExecutionAtATime' /\ \A d \in Executions : exec'[d] # "configuring"
  BY <1>0, <1>3 DEF Begin, Claimed, NotNow, ExecGoto, Claim, Underway
<1>4. ASSUME NEW e \in Executions,
             \/ CreateOverall(e) \/ CreateOverallFails(e) \/ StepMoves(e) \/ StepCannotBegin(e)
             \/ StepEnds(e) \/ Finish(e) \/ FinishFails(e) \/ RecordFailure(e)
      PROVE  OneExecutionAtATime' /\ \A d \in Executions : exec'[d] # "configuring"
  BY <1>0, <1>4 DEF CreateOverall, CreateOverallFails, StepMoves, StepCannotBegin, StepEnds,
       Finish, FinishFails, RecordFailure, ExecGoto, Underway
<1>5. ASSUME NEW c \in Calls, CallStep(c) PROVE UNCHANGED work
  BY <1>5, CallStepLeaves
<1> QED BY <1>1, <1>2, <1>3, <1>4, <1>5 DEF SchedNext, CallStep, Execute, OtherRuns, schedVars

\* With the credentials of the environment, where no query stands between the
\* flag read and the flag set, one execution at a time is under way.
THEOREM OneExecutionCorrect ==
    ASSUME ~SellerReference
    PROVE  SchedSpec => []OneExecutionAtATime
<1> DEFINE NoneLooksItUp == \A e \in Executions : exec[e] # "configuring"
<1>1. SchedInit => OneExecutionAtATime /\ NoneLooksItUp
  BY DEF SchedInit, OneExecutionAtATime, Underway
<1>2. SchedTypeOK /\ OneExecutionAtATime /\ NoneLooksItUp /\ [SchedNext]_schedVars
        => OneExecutionAtATime' /\ NoneLooksItUp'
  BY OneExecutionStep
<1> QED BY <1>1, <1>2, SchedulerTypeCorrect, PTL DEF SchedSpec

-----------------------------------------------------------------------------
(* What the row of an execution says of its steps. *)

\* Where the steps of e are.  Those before its step are recorded as successful,
\* those after it have not begun.  Nothing to throw: its run is not given up, and
\* is successful by the time it releases its lock.  A refusal: its run is over
\* and recorded as skipped.  A conflict of the ERP's: its run failed at its work,
\* and is recorded so by the time it releases its lock.  An execution that has
\* stopped at a conflict has seen its run end.
StepsOf(e) ==
    /\ \A i \in 1..LastStep : i < step[e] =>
          pc[StepRun[e][i]] = "done" /\ row[StepRun[e][i]] = "success"
    /\ \A i \in 1..LastStep : i > step[e] => pc[StepRun[e][i]] = "idle"
    /\ exec[e] \in {"idle", "configuring", "creating"} =>
          step[e] = 1 /\ pc[StepOf(e)] = "idle" /\ threw[e] = "nothing"
    /\ exec[e] = "stepping" /\ threw[e] = "nothing" =>
          /\ pc[StepOf(e)] \notin {"aborted", "dead", "failed"}
          /\ pc[StepOf(e)] \in {"saved", "releasing", "done"} => row[StepOf(e)] = "success"
    /\ threw[e] = "locked" => pc[StepOf(e)] = "done" /\ row[StepOf(e)] = "skipped"
    /\ threw[e] = "conflict" =>
          /\ pc[StepOf(e)] \in {"failed", "releasing", "done"}
          /\ pc[StepOf(e)] # "failed" => row[StepOf(e)] = "error"
    /\ exec[e] \in {"failing", "done"} /\ IsLock(e) => pc[StepOf(e)] = "done"
    /\ exec[e] = "recording" => step[e] = LastStep /\ threw[e] = "nothing"
    /\ overall[e] \in {"success", "skipped", "error"} => exec[e] = "done"
    /\ overall[e] = "success" => step[e] = LastStep
    /\ overall[e] = "skipped" => IsLock(e)

StepsInv == \A e \in Executions : StepsOf(e)

\* The runs of the steps are runs of a catalogue, each of one step.
LEMMA StepRunsDiffer ==
    ASSUME NEW e \in Executions, NEW i \in 1..LastStep
    PROVE  /\ StepRun[e][i] \in Runs \ Jobs
           /\ StepRun[e][i] \in StepRuns
           /\ \A f \in Executions : \A j \in 1..LastStep :
                 StepRun[e][i] = StepRun[f][j] => e = f /\ i = j
BY SchedulerAssumption DEF StepRuns

\* A move of a run moves no other, and writes no other row.
LEMMA RunLeavesOthers ==
    ASSUME NEW r \in Runs, Acquire(r) \/ Run(r) \/ Crash(r), TypeOK,
           NEW q \in Runs, q # r
    PROVE  pc'[q] = pc[q] /\ row'[q] = row[q]
<1> USE DEF TypeOK, Goto, SetRow
<1>1. CASE Acquire(r) \/ Crash(r)
  BY <1>1 DEF Acquire, Ask, CreateLock, LockExists, TakeOver, Refused, AskFails, Crash
<1>2. CASE Run(r)
  BY <1>2 DEF Run, RecordSkip, CreateRun, Announce, BeginFails, Work, SaveSuccess,
              WriteStatus, SaveFails, RecordError, Release, ReleaseFails
<1> QED BY <1>1, <1>2

\* e is as it was, and so are the runs of its steps.
Untouched(e) ==
    /\ exec'[e] = exec[e] /\ step'[e] = step[e] /\ threw'[e] = threw[e] /\ overall'[e] = overall[e]
    /\ \A i \in 1..LastStep :
          pc'[StepRun[e][i]] = pc[StepRun[e][i]] /\ row'[StepRun[e][i]] = row[StepRun[e][i]]

LEMMA UntouchedKeeps ==
    ASSUME SchedTypeOK, NEW e \in Executions, StepsOf(e), Untouched(e)
    PROVE  StepsOf(e)'
<1>1. step[e] \in 1..LastStep
  BY DEF SchedTypeOK
<1>2. StepOf(e)' = StepOf(e) /\ pc'[StepOf(e)] = pc[StepOf(e)] /\ row'[StepOf(e)] = row[StepOf(e)]
  BY <1>1 DEF StepOf, Untouched
<1> QED BY <1>1, <1>2 DEF StepsOf, Untouched, IsLock

\* An execution touches no other.
LEMMA ExecutionLeavesOthers ==
    ASSUME TypeOK, SchedTypeOK, NEW e \in Executions, Execute(e), NEW f \in Executions, f # e
    PROVE  Untouched(f)
<1>1. /\ exec'[f] = exec[f] /\ step'[f] = step[f] /\ threw'[f] = threw[f] /\ overall'[f] = overall[f]
  BY DEF SchedTypeOK, Execute, Begin, Claimed, NotNow, CreateOverall, CreateOverallFails, StepMoves,
         StepCannotBegin, StepEnds, Finish, FinishFails, RecordFailure, ExecGoto
<1>2. CASE UNCHANGED vars
  BY <1>1, <1>2 DEF vars, Untouched
<1>3. CASE StepMoves(e)
  <2>1. step[e] \in 1..LastStep
    BY DEF SchedTypeOK
  <2>2. ASSUME NEW i \in 1..LastStep
        PROVE  pc'[StepRun[f][i]] = pc[StepRun[f][i]] /\ row'[StepRun[f][i]] = row[StepRun[f][i]]
    <3>1. StepOf(e) \in Runs /\ StepRun[f][i] \in Runs /\ StepRun[f][i] # StepOf(e)
      BY <2>1, StepRunsDiffer DEF StepOf
    <3> QED BY <1>3, <3>1, RunLeavesOthers DEF StepMoves
  <2> QED BY <1>1, <2>2 DEF Untouched
<1> QED BY <1>2, <1>3 DEF Execute, Begin, Claimed, NotNow, CreateOverall, CreateOverallFails,
       StepCannotBegin, StepEnds, Finish, FinishFails, RecordFailure

\* What a move of the run of a step leaves it at, with what it makes it throw:
\* nothing, a refusal, a conflict.
LEMMA StepMoveEnds ==
    ASSUME TypeOK, SchedTypeOK, NEW e \in Executions, StepsOf(e), StepMoves(e)
    PROVE  LET r == StepOf(e) IN
           /\ pc[r] # "done"
           /\ threw'[e] = "locked" => pc'[r] = "done" /\ row'[r] = "skipped"
           /\ threw'[e] = "nothing" =>
                 /\ pc'[r] \notin {"aborted", "dead", "failed"}
                 /\ pc'[r] \in {"saved", "releasing", "done"} => row'[r] = "success"
           /\ threw'[e] = "conflict" =>
                 /\ pc'[r] \in {"failed", "releasing", "done"}
                 /\ pc'[r] # "failed" => row'[r] = "error"
<1> DEFINE r == StepOf(e)
<1>1. step[e] \in 1..LastStep /\ threw[e] \in Thrown /\ e \in DOMAIN threw
  BY DEF SchedTypeOK
<1>2. r \in Runs \ Jobs
  BY <1>1, StepRunsDiffer DEF StepOf
<1>3. threw'[e] \in StepThrows(e) /\ (Acquire(r) \/ Run(r)) /\ pc[r] # "done" /\ exec[e] = "stepping"
  BY <1>1 DEF StepMoves, StepOver
<1>4. threw[e] # "locked"
  BY <1>3 DEF StepsOf
<1>5. /\ threw[e] = "nothing" =>
            /\ pc[r] \notin {"aborted", "dead", "failed"}
            /\ pc[r] \in {"saved", "releasing", "done"} => row[r] = "success"
      /\ threw[e] = "conflict" =>
            /\ pc[r] \in {"failed", "releasing", "done"}
            /\ pc[r] # "failed" => row[r] = "error"
  BY <1>3 DEF StepsOf
<1> HIDE DEF r
<1>6. pc \in [Runs -> Working \cup {"idle", "creating", "taking", "refused", "done", "aborted", "dead"}]
      /\ DOMAIN row = Runs
  BY DEF TypeOK
<1>7. StepThrows(e) =
        IF pc[r] = "refused" THEN {"error"} \cup (IF row'[r] = "skipped" THEN {"locked"} ELSE {})
        ELSE IF pc[r] = "failed" THEN {"error"} \cup (IF row'[r] = "error" THEN {threw[e]} ELSE {})
        ELSE IF pc'[r] = "failed" THEN {"error"} \cup (IF pc[r] = "running" THEN {"conflict"} ELSE {})
        ELSE IF pc'[r] = "aborted" THEN {"error"} ELSE {threw[e]}
  BY DEF StepThrows, r
<1>8. /\ pc[r] = "refused" => pc'[r] = "done"
      /\ pc[r] = "failed" => pc'[r] = "releasing"
      /\ pc[r] = "releasing" => pc'[r] = "done" /\ row'[r] = row[r]
      /\ pc[r] \notin {"refused", "failed"} =>
           /\ pc'[r] # "dead"
           /\ pc'[r] \in {"saved", "releasing", "done"} =>
                 row'[r] = "success" \/ (pc[r] \in {"saved", "releasing"} /\ row'[r] = row[r])
  <2>1. CASE Acquire(r)
    BY <1>2, <1>6, <2>1 DEF Acquire, Ask, CreateLock, LockExists, TakeOver, Refused, AskFails, Goto
  <2>2. CASE Run(r)
    BY <1>2, <1>6, <2>2 DEF Run, RecordSkip, CreateRun, Announce, BeginFails, Work, SaveSuccess,
           WriteStatus, SaveFails, RecordError, Release, ReleaseFails, Goto, SetRow
  <2> QED BY <1>3, <2>1, <2>2
<1>9. threw[e] \in {"nothing", "conflict", "error"}
  BY <1>1, <1>4 DEF Thrown
<1>10. threw'[e] = "locked" => pc'[r] = "done" /\ row'[r] = "skipped"
  BY <1>3, <1>7, <1>8, <1>9
<1>11. threw'[e] = "nothing" =>
          /\ pc'[r] \notin {"aborted", "dead", "failed"}
          /\ pc'[r] \in {"saved", "releasing", "done"} => row'[r] = "success"
  BY <1>3, <1>5, <1>7, <1>8, <1>9
<1>12. threw'[e] = "conflict" =>
          /\ pc'[r] \in {"failed", "releasing", "done"}
          /\ pc'[r] # "failed" => row'[r] = "error"
  BY <1>3, <1>5, <1>7, <1>8, <1>9
<1> QED BY <1>3, <1>10, <1>11, <1>12 DEF r

\* The step of an execution moves its run.
LEMMA StepMovesKeeps ==
    ASSUME TypeOK, SchedTypeOK, NEW e \in Executions, StepsOf(e), StepMoves(e)
    PROVE  StepsOf(e)'
<1>1. step[e] \in 1..LastStep /\ LastStep \in Nat
  BY SchedulerAssumption DEF SchedTypeOK
<1>2. /\ exec'[e] = "stepping" /\ exec[e] = "stepping"
      /\ step'[e] = step[e] /\ overall'[e] = overall[e] /\ StepOf(e)' = StepOf(e)
  BY DEF StepMoves, StepOf
<1>3. ASSUME NEW i \in 1..LastStep, i # step[e]
      PROVE  pc'[StepRun[e][i]] = pc[StepRun[e][i]] /\ row'[StepRun[e][i]] = row[StepRun[e][i]]
  <2>1. StepOf(e) \in Runs /\ StepRun[e][i] \in Runs /\ StepRun[e][i] # StepOf(e)
    BY <1>1, <1>3, StepRunsDiffer DEF StepOf
  <2> QED BY <2>1, RunLeavesOthers DEF StepMoves
<1>4. /\ threw'[e] = "locked" => pc'[StepOf(e)] = "done" /\ row'[StepOf(e)] = "skipped"
      /\ threw'[e] = "nothing" =>
            /\ pc'[StepOf(e)] \notin {"aborted", "dead", "failed"}
            /\ pc'[StepOf(e)] \in {"saved", "releasing", "done"} => row'[StepOf(e)] = "success"
      /\ threw'[e] = "conflict" =>
            /\ pc'[StepOf(e)] \in {"failed", "releasing", "done"}
            /\ pc'[StepOf(e)] # "failed" => row'[StepOf(e)] = "error"
  BY StepMoveEnds
<1>5. \A i \in 1..LastStep : i < step[e] \/ i > step[e] => i # step[e]
  BY <1>1
<1>6. overall[e] \notin {"success", "skipped", "error"}
  BY <1>2 DEF StepsOf
<1> QED BY <1>1, <1>2, <1>3, <1>4, <1>5, <1>6 DEF StepsOf

\* The step of an execution is over.
LEMMA StepEndsKeeps ==
    ASSUME TypeOK, SchedTypeOK, NEW e \in Executions, StepsOf(e), StepEnds(e)
    PROVE  StepsOf(e)'
<1>1. step[e] \in 1..LastStep /\ LastStep \in Nat /\ threw[e] \in Thrown
      /\ e \in DOMAIN step /\ e \in DOMAIN threw /\ e \in DOMAIN exec
  BY SchedulerAssumption DEF SchedTypeOK
<1>2. UNCHANGED <<pc, row, overall>> /\ StepOver(e) /\ exec[e] = "stepping"
  BY DEF StepEnds, ExecGoto, vars
<1>3. overall[e] \notin {"success", "skipped", "error"}
  BY <1>2 DEF StepsOf
<1>4. CASE threw[e] = "nothing" /\ step[e] < LastStep
  <2>1. pc[StepOf(e)] = "done" /\ row[StepOf(e)] = "success"
    BY <1>2, <1>4 DEF StepsOf, StepOver
  <2>2. exec'[e] = "stepping" /\ step'[e] = step[e] + 1 /\ threw'[e] = "nothing"
    BY <1>1, <1>4 DEF StepEnds, ExecGoto
  <2>3. step[e] + 1 \in 1..LastStep /\ step[e] + 1 > step[e]
    BY <1>1, <1>4
  <2>4. StepOf(e)' = StepRun[e][step[e] + 1] /\ pc[StepRun[e][step[e] + 1]] = "idle"
    BY <2>2, <2>3 DEF StepOf, StepsOf
  <2>5. \A i \in 1..LastStep : i < step[e] + 1 =>
          pc[StepRun[e][i]] = "done" /\ row[StepRun[e][i]] = "success"
    BY <1>1, <2>1 DEF StepsOf, StepOf
  <2>6. \A i \in 1..LastStep : i > step[e] + 1 => pc[StepRun[e][i]] = "idle"
    BY <1>1 DEF StepsOf
  <2> QED BY <1>2, <1>3, <2>2, <2>4, <2>5, <2>6 DEF StepsOf
<1>5. CASE step[e] = LastStep
  <2>1. exec'[e] = "recording" /\ step'[e] = step[e] /\ threw'[e] = "nothing"
    BY <1>1, <1>5 DEF StepEnds, ExecGoto, Tolerated
  <2> QED BY <1>2, <1>3, <1>5, <2>1 DEF StepsOf
<1>6. CASE threw[e] # "nothing" /\ step[e] < LastStep
  <2>1. exec'[e] = "failing" /\ step'[e] = step[e] /\ threw'[e] = threw[e]
    BY <1>1, <1>6 DEF StepEnds, ExecGoto, Tolerated
  <2>2. StepOf(e)' = StepOf(e)
    BY <2>1 DEF StepOf
  <2>3. IsLock(e) => pc[StepOf(e)] = "done"
    BY <1>2 DEF StepsOf, StepOver, IsLock
  <2> QED BY <1>2, <1>3, <2>1, <2>2, <2>3 DEF StepsOf, IsLock
<1> QED BY <1>1, <1>4, <1>5, <1>6

\* What else an execution does moves no run.
LEMMA OtherwiseKeeps ==
    ASSUME SchedTypeOK, NEW e \in Executions, StepsOf(e), Execute(e), ~StepMoves(e), ~StepEnds(e)
    PROVE  StepsOf(e)'
<1>1. /\ e \in DOMAIN exec /\ e \in DOMAIN threw /\ e \in DOMAIN overall
      /\ threw[e] \in Thrown
      /\ overall[e] \in {"none", "running", "success", "skipped", "error"}
  BY DEF SchedTypeOK
<1>2. UNCHANGED <<pc, row, step>>
  BY DEF Execute, Begin, Claimed, NotNow, CreateOverall, CreateOverallFails,
         StepCannotBegin, Finish, FinishFails, RecordFailure, vars
<1>3. StepOf(e)' = StepOf(e)
  BY <1>2 DEF StepOf
<1>4. exec[e] # "done" => overall[e] \in {"none", "running"}
  BY <1>1 DEF StepsOf
<1>5. CASE Begin(e) \/ Claimed(e) \/ NotNow(e) \/ CreateOverall(e) \/ CreateOverallFails(e)
  BY <1>1, <1>2, <1>3, <1>4, <1>5 DEF StepsOf, IsLock, Begin, Claimed, NotNow, CreateOverall,
     CreateOverallFails, ExecGoto
<1>6. CASE StepCannotBegin(e)
  BY <1>1, <1>2, <1>3, <1>4, <1>6 DEF StepsOf, IsLock, StepCannotBegin
<1>7. CASE Finish(e) \/ FinishFails(e)
  BY <1>1, <1>2, <1>3, <1>4, <1>7 DEF StepsOf, IsLock, Finish, FinishFails, ExecGoto
<1>8. CASE RecordFailure(e)
  BY <1>1, <1>2, <1>3, <1>4, <1>8 DEF StepsOf, IsLock, RecordFailure, ExecGoto
<1> QED BY <1>5, <1>6, <1>7, <1>8 DEF Execute

\* The death of the process stops the executions where they are.
LEMMA DeathKeeps ==
    ASSUME SchedTypeOK, NEW e \in Executions, StepsOf(e), ProcessDies
    PROVE  StepsOf(e)'
<1>1. /\ UNCHANGED <<pc, row, step, threw, overall>>
      /\ exec'[e] = IF exec[e] \in {"idle", "done"} THEN exec[e] ELSE "dead"
  BY DEF ProcessDies, DieAlone, vars
<1>2. StepOf(e)' = StepOf(e)
  BY <1>1 DEF StepOf
<1> QED BY <1>1, <1>2 DEF StepsOf, IsLock

\* Other runs are runs of no step.
LEMMA OtherRunsLeave ==
    ASSUME TypeOK, NEW e \in Executions, OtherRuns
    PROVE  Untouched(e)
<1>1. UNCHANGED <<exec, step, threw, overall>>
  BY DEF OtherRuns, work
<1>2. CASE Tick
  BY <1>1, <1>2 DEF Tick, Untouched
<1>3. ASSUME NEW r \in Runs \ StepRuns, Acquire(r) \/ Run(r) \/ Crash(r)
      PROVE  Untouched(e)
  <2>1. ASSUME NEW i \in 1..LastStep
        PROVE  pc'[StepRun[e][i]] = pc[StepRun[e][i]] /\ row'[StepRun[e][i]] = row[StepRun[e][i]]
    <3>1. StepRun[e][i] \in Runs /\ StepRun[e][i] # r
      BY <1>3, StepRunsDiffer
    <3> QED BY <1>3, <3>1, RunLeavesOthers
  <2> QED BY <1>1, <2>1 DEF Untouched
<1> QED BY <1>2, <1>3 DEF OtherRuns

\* Every step keeps what the executions say of their steps.
LEMMA StepsStep ==
    ASSUME TypeOK, SchedTypeOK, StepsInv, [SchedNext]_schedVars
    PROVE  StepsInv'
<1> SUFFICES ASSUME NEW e \in Executions PROVE StepsOf(e)'
  BY DEF StepsInv
<1>0. StepsOf(e)
  BY DEF StepsInv
<1>1. CASE UNCHANGED schedVars
  <2>1. Untouched(e)
    BY <1>1 DEF schedVars, vars, work, Untouched
  <2> QED BY <1>0, <2>1, UntouchedKeeps
<1>2. ASSUME NEW c \in Calls, CallStep(c) PROVE StepsOf(e)'
  <2>1. Untouched(e)
    BY <1>2, CallStepLeaves DEF vars, work, Untouched
  <2> QED BY <1>0, <2>1, UntouchedKeeps
<1>3. ASSUME NEW f \in Executions, Execute(f), f # e PROVE StepsOf(e)'
  BY <1>0, <1>3, ExecutionLeavesOthers, UntouchedKeeps
<1>4. CASE Execute(e)
  BY <1>0, <1>4, StepMovesKeeps, StepEndsKeeps, OtherwiseKeeps
<1>5. CASE ProcessDies
  BY <1>0, <1>5, DeathKeeps
<1>6. CASE OtherRuns
  BY <1>0, <1>6, OtherRunsLeave, UntouchedKeeps
<1> QED BY <1>1, <1>2, <1>3, <1>4, <1>5, <1>6 DEF SchedNext, CallStep

LEMMA StepsInitially ==
    ASSUME SchedInit
    PROVE  StepsInv
<1> SUFFICES ASSUME NEW e \in Executions PROVE StepsOf(e)
  BY DEF StepsInv
<1>1. /\ step[e] = 1 /\ exec[e] = "idle" /\ threw[e] = "nothing" /\ overall[e] = "none"
      /\ \A i \in 1..LastStep : pc[StepRun[e][i]] = "idle"
  BY StepRunsDiffer DEF SchedInit, Init
<1>2. 1 \in 1..LastStep /\ \A i \in 1..LastStep : ~(i < 1)
  BY SchedulerAssumption
<1> QED BY <1>1, <1>2 DEF StepsOf, StepOf

\* The executions always say so of their steps: what the next two theorems rest on.
THEOREM StepsCorrect == SchedSpec => []StepsInv
<1>1. SchedSpec => []TypeOK
  BY SchedulerUsesTheLock, SyncLockTypeCorrect, PTL DEF UsesTheLock
<1> QED BY <1>1, StepsInitially, StepsStep, SchedulerTypeCorrect, PTL DEF SchedSpec

\* An execution recorded as successful has a successful run of every step but
\* the last, whatever the other runs, the other executions and the deaths of
\* the process did in between.
THEOREM SuccessCorrect == SchedSpec => []SuccessIsComplete
<1>1. ASSUME StepsInv PROVE SuccessIsComplete
  <2> SUFFICES ASSUME NEW e \in Executions, overall[e] = "success", NEW i \in 1..(LastStep - 1)
               PROVE  row[StepRun[e][i]] = "success"
    BY DEF SuccessIsComplete
  <2>1. step[e] = LastStep /\ i \in 1..LastStep /\ i < LastStep
    BY <1>1, SchedulerAssumption DEF StepsInv, StepsOf
  <2> QED BY <1>1, <2>1 DEF StepsInv, StepsOf
<1> QED BY <1>1, StepsCorrect, PTL

\* An execution recorded as skipped stopped at a step that was refused its lock,
\* or that failed at its work: those before it succeeded, none after it began.
THEOREM SkippedCorrect == SchedSpec => []SkippedStopped
<1>1. ASSUME SchedTypeOK, StepsInv PROVE SkippedStopped
  <2> SUFFICES ASSUME NEW e \in Executions, overall[e] = "skipped"
               PROVE  /\ row[StepOf(e)] \in {"skipped", "error"}
                      /\ \A i \in 1..(step[e] - 1) : row[StepRun[e][i]] = "success"
                      /\ \A i \in (step[e] + 1)..LastStep : pc[StepRun[e][i]] = "idle"
    BY DEF SkippedStopped
  <2>1. StepsOf(e) /\ step[e] \in 1..LastStep /\ LastStep \in Nat
    BY <1>1, SchedulerAssumption DEF StepsInv, SchedTypeOK
  <2>2. row[StepOf(e)] \in {"skipped", "error"}
    <3>1. exec[e] = "done" /\ IsLock(e)
      BY <2>1 DEF StepsOf
    <3> QED BY <2>1, <3>1 DEF StepsOf, IsLock
  <2>3. \A i \in 1..(step[e] - 1) : i \in 1..LastStep /\ i < step[e]
    BY <2>1
  <2>4. \A i \in (step[e] + 1)..LastStep : i \in 1..LastStep /\ i > step[e]
    BY <2>1
  <2> QED BY <2>1, <2>2, <2>3, <2>4 DEF StepsOf
<1> QED BY <1>1, SchedulerTypeCorrect, StepsCorrect, PTL

-----------------------------------------------------------------------------
\* The lock stays the lease it is with the scheduler among its runs: a row is
\* deleted by its own run or taken over past its limit, and nothing else.
THEOREM SchedulerKeepsLeases ==
    SchedSpec => []LeaseInv /\ LockChangesHands /\ ImplementsLease
BY SchedulerUsesTheLock, LeaseCorrect, ChangesHandsCorrect, LeaseImplemented, PTL DEF UsesTheLock
=============================================================================
