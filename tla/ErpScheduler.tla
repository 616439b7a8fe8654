---------------------------- MODULE ErpScheduler ----------------------------
(***************************************************************************)
(* The automatic synchronisation with the ERP (erpSyncScheduler.ts), inside *)
(* one API process: an interval that starts an execution when its hour has  *)
(* come, "run now" from the panel, and the calls that start and stop the    *)
(* interval.  An execution takes the catalogues one by one; each of its     *)
(* steps is a run of SyncLock, which other runs (manual ones, those of other *)
(* instances) compete with.  The scheduler's own state is module variables, *)
(* lost with the process, and its row in ErpSyncRun, which is not.          *)
(***************************************************************************)
EXTENDS SyncLock

CONSTANTS
    Executions,       \* calls of executeAutomaticErpSync
    RunNows,          \* those of the panel's button; the others are the interval's
    Boots,            \* startErpSyncScheduler of a process that starts
    Enables,          \* setErpAutomaticSyncEnabled(true)
    Disables,         \* setErpAutomaticSyncEnabled(false)
    LastStep,         \* the number of AUTOMATIC_SYNC_STEPS; the last is orderStatus
    StepRun,          \* StepRun[e][i]: the run of step i of execution e
    SellerReference,  \* whether the configuration is looked up in the database
    MaxFailures       \* the bound on the statements and synchronisations that fail

Starts == Boots \cup Enables \cup RunNows
Calls == Starts \cup Disables
StepRuns == {StepRun[e][i] : e \in Executions, i \in 1..LastStep}

ASSUME SchedulerAssumption ==
    /\ RunNows \subseteq Executions
    /\ Boots \cap (Enables \cup Disables \cup Executions) = {}
    /\ LastStep \in Nat \ {0}
    /\ StepRun \in [Executions -> [1..LastStep -> Runs \ Jobs]]
    /\ \A e, f \in Executions : \A i, j \in 1..LastStep :
          StepRun[e][i] = StepRun[f][j] => e = f /\ i = j
    /\ SellerReference \in BOOLEAN /\ MaxFailures \in Nat

VARIABLES
    automaticTimer,                  \* 1 when the process holds an interval, else 0
    intervals,                       \* how many intervals fire
    automaticSyncRunning,            \* the flag of an execution under way
    persistedAutomaticSyncEnabled,   \* the switch, "on" or "off", as the process knows it
    automaticSchedulerInitialized,
    stored,                          \* the switch in AppConfig
    call,                            \* call[c]: where the call c is
    exec,                            \* exec[e]: where the execution e is
    step,                            \* step[e]: its step
    threw,                           \* threw[e]: what that step throws, or is about to
    overall,                         \* overall[e]: the status of its row in ErpSyncRun
    skipped,                         \* the executions told that another one is under way
    failures                         \* how many things have failed

switches == <<automaticTimer, intervals, persistedAutomaticSyncEnabled,
              automaticSchedulerInitialized, stored, call>>
work == <<exec, step, threw, overall, skipped, automaticSyncRunning>>
schedVars == <<vars, switches, work, failures>>

\* from the flag set to the flag cleared
Underway == {"creating", "stepping", "recording", "failing"}

\* "locked" and "conflict" have the status 409: of the lock that is held, of the ERP
Thrown == {"nothing", "locked", "conflict", "error"}

\* "on" and "off": a start that has loaded so
CallStates == {"idle", "saving", "loading", "on", "off", "configuring", "done", "failed", "dead"}

SchedTypeOK ==
    /\ automaticTimer \in {0, 1} /\ intervals \in Nat
    /\ automaticSyncRunning \in BOOLEAN /\ automaticSchedulerInitialized \in BOOLEAN
    /\ persistedAutomaticSyncEnabled \in {"on", "off"} /\ stored \in {"on", "off"}
    /\ call \in [Calls -> CallStates]
    /\ exec \in [Executions -> Underway \cup {"idle", "configuring", "done", "aborted", "dead"}]
    /\ step \in [Executions -> 1..LastStep]
    /\ threw \in [Executions -> Thrown]
    /\ overall \in [Executions -> {"none", "running", "success", "skipped", "error"}]
    /\ skipped \subseteq Executions /\ failures \in 0..MaxFailures

SchedInit ==
    /\ Init
    /\ automaticTimer = 0 /\ intervals = 0
    /\ automaticSyncRunning = FALSE /\ automaticSchedulerInitialized = FALSE
    /\ persistedAutomaticSyncEnabled = "off" /\ stored \in {"on", "off"}
    /\ call = [c \in Calls |-> "idle"]
    /\ exec = [e \in Executions |-> "idle"]
    /\ step = [e \in Executions |-> 1]
    /\ threw = [e \in Executions |-> "nothing"]
    /\ overall = [e \in Executions |-> "none"]
    /\ skipped = {} /\ failures = 0

-----------------------------------------------------------------------------
CallGoto(c, from, to) == call[c] = from /\ call' = [call EXCEPT ![c] = to]
ExecGoto(e, from, to) == exec[e] = from /\ exec' = [exec EXCEPT ![e] = to]

StepOf(e) == StepRun[e][step[e]]

\* one of the failures there are
Fails == failures < MaxFailures /\ failures' = failures + 1

\* between the bootstrap's call and the death of the process
ProcessUp == \E b \in Boots : call[b] \notin {"idle", "dead"}

(* Defects the properties must tell from the code. *)

\* Schedule without a look at the interval there is
ScheduleAgain == automaticTimer' = 1 /\ intervals' = intervals + 1

\* ClearTimer without a look at the interval there is
ClearAnyTimer == automaticTimer' = 0 /\ intervals' = intervals - 1

\* Tolerated with every step as tolerant as orderStatus
AllTolerated(e) == TRUE

\* StepThrows with any end of a step a refusal
AnyRefusal(e) ==
    LET r == StepRun[e][step[e]] IN
    IF pc[r] = "refused" \/ pc'[r] \in {"failed", "aborted"} THEN {"locked"} ELSE {threw[e]}

-----------------------------------------------------------------------------
(* The switch.  A request of the panel writes it, then starts or stops. *)

EnableOrDisable(c) ==
    /\ c \in Enables \cup Disables
    /\ ProcessUp
    /\ CallGoto(c, "idle", "saving")
    /\ persistedAutomaticSyncEnabled' = IF c \in Enables THEN "on" ELSE "off"
    /\ UNCHANGED <<vars, work, automaticTimer, intervals, automaticSchedulerInitialized, stored, failures>>

ClearTimer == automaticTimer' = 0 /\ intervals' = intervals - automaticTimer

Save(c) ==
    /\ CallGoto(c, "saving", IF c \in Enables THEN "loading" ELSE "done")
    /\ stored' = IF c \in Enables THEN "on" ELSE "off"
    /\ IF c \in Disables THEN ClearTimer ELSE UNCHANGED <<automaticTimer, intervals>>
    /\ UNCHANGED <<vars, work, persistedAutomaticSyncEnabled, automaticSchedulerInitialized, failures>>

\* startErpSyncScheduler, called by the bootstrap once, or by a "run now" before it
Boot(c) ==
    /\ \/ c \in Boots /\ ~ProcessUp
       \/ c \in RunNows /\ ProcessUp /\ exec[c] = "idle" /\ ~automaticSchedulerInitialized
    /\ CallGoto(c, "idle", "loading")
    /\ UNCHANGED <<vars, work, automaticTimer, intervals, persistedAutomaticSyncEnabled,
                   automaticSchedulerInitialized, stored, failures>>

\* the row is read; what it says counts when the call goes on
LoadConfig(c) ==
    /\ CallGoto(c, "loading", stored)
    /\ UNCHANGED <<vars, work, automaticTimer, intervals, persistedAutomaticSyncEnabled,
                   automaticSchedulerInitialized, stored, failures>>

\* one interval at a time, whichever call gets here first
Schedule == automaticTimer' = 1 /\ intervals' = intervals + (1 - automaticTimer)

Decide(enabled) == IF enabled = "on" THEN Schedule ELSE UNCHANGED <<automaticTimer, intervals>>

\* What was loaded is the switch from now on; it decides at once, unless the
\* configuration has to be looked up first.
ApplyConfig(c) ==
    /\ call[c] \in {"on", "off"}
    /\ call' = [call EXCEPT ![c] = IF SellerReference THEN "configuring" ELSE "done"]
    /\ automaticSchedulerInitialized' = TRUE
    /\ persistedAutomaticSyncEnabled' = call[c]
    /\ IF SellerReference THEN UNCHANGED <<automaticTimer, intervals>> ELSE Decide(call[c])
    /\ UNCHANGED <<vars, work, stored, failures>>

\* the switch as it is by then, whoever set it
Configured(c) ==
    /\ CallGoto(c, "configuring", "done")
    /\ Decide(persistedAutomaticSyncEnabled)
    /\ UNCHANGED <<vars, work, persistedAutomaticSyncEnabled, automaticSchedulerInitialized, stored, failures>>

\* A statement of the call throws: it is answered with an error, or, in the
\* bootstrap, logged, and not tried again.
CallFails(c) ==
    /\ Fails
    /\ \E at \in {"saving", "loading", "configuring"} : CallGoto(c, at, "failed")
    /\ UNCHANGED <<vars, work, automaticTimer, intervals, persistedAutomaticSyncEnabled,
                   automaticSchedulerInitialized, stored>>

-----------------------------------------------------------------------------
(* An execution.  What it skips outside the window, or without a
   configuration, changes nothing but the labels of the panel. *)

\* from the flag to the first await, the creation of the row
Claim == automaticSyncRunning' = TRUE

\* The interval fires, or the panel asks; the flag is read, and, when the
\* configuration is known without a query, set before anything else runs.
Begin(e) ==
    /\ IF e \in RunNows
       THEN ProcessUp /\ (call[e] = "done" \/ (call[e] = "idle" /\ automaticSchedulerInitialized))
       ELSE intervals > 0
    /\ \/ /\ ~automaticSyncRunning
          /\ ExecGoto(e, "idle", IF SellerReference THEN "configuring" ELSE "creating")
          /\ IF SellerReference THEN UNCHANGED automaticSyncRunning ELSE Claim
          /\ UNCHANGED skipped
       \/ /\ automaticSyncRunning
          /\ ExecGoto(e, "idle", "done")
          /\ skipped' = skipped \cup {e}
          /\ UNCHANGED automaticSyncRunning
    /\ UNCHANGED <<vars, switches, step, threw, overall, failures>>

\* the configuration has been read; the flag is not looked at again
Claimed(e) ==
    /\ ExecGoto(e, "configuring", "creating") /\ Claim
    /\ UNCHANGED <<vars, switches, step, threw, overall, skipped, failures>>

\* outside the window; or no configuration, or the query throws
NotNow(e) ==
    /\ ExecGoto(e, "configuring", "done")
    /\ UNCHANGED <<vars, switches, step, threw, overall, skipped, automaticSyncRunning, failures>>

CreateOverall(e) ==
    /\ ExecGoto(e, "creating", "stepping")
    /\ overall' = [overall EXCEPT ![e] = "running"]
    /\ UNCHANGED <<vars, switches, step, threw, skipped, automaticSyncRunning, failures>>

\* before the try: nothing clears the flag
CreateOverallFails(e) ==
    /\ Fails /\ ExecGoto(e, "creating", "aborted")
    /\ UNCHANGED <<vars, switches, step, threw, overall, skipped, automaticSyncRunning>>

\* What a move of the step's run makes it throw: the refusal, once it is recorded
\* (failIfLocked); the error of its work, which has the status the ERP answered
\* with; an error of the database, the catch's own included, which has none.
StepThrows(e) ==
    LET r == StepOf(e) IN
    IF pc[r] = "refused" THEN {"error"} \cup (IF row'[r] = "skipped" THEN {"locked"} ELSE {})
    ELSE IF pc[r] = "failed" THEN {"error"} \cup (IF row'[r] = "error" THEN {threw[e]} ELSE {})
    ELSE IF pc'[r] = "failed" THEN {"error"} \cup (IF pc[r] = "running" THEN {"conflict"} ELSE {})
    ELSE IF pc'[r] = "aborted" THEN {"error"} ELSE {threw[e]}

\* a move of a run that is a failure of its own
StatementFails(r) ==
    \/ pc'[r] \in {"aborted", "failed"}
    \/ pc[r] \in {"refused", "failed"} /\ UNCHANGED row
    \/ pc[r] = "releasing" /\ LockOf(r).run = r /\ UNCHANGED lock

StepOver(e) == pc[StepOf(e)] \in {"done", "aborted"} \/ (pc[StepOf(e)] = "idle" /\ threw[e] = "error")

StepMoves(e) ==
    /\ exec[e] = "stepping" /\ ~StepOver(e)
    /\ Acquire(StepOf(e)) \/ Run(StepOf(e))
    /\ IF StatementFails(StepOf(e)) THEN Fails ELSE UNCHANGED failures
    /\ \E error \in StepThrows(e) : threw' = [threw EXCEPT ![e] = error]
    /\ UNCHANGED <<switches, exec, step, overall, skipped, automaticSyncRunning>>

\* no credentials: it throws before it asks for its lock
StepCannotBegin(e) ==
    /\ Fails /\ exec[e] = "stepping" /\ pc[StepOf(e)] = "idle"
    /\ threw' = [threw EXCEPT ![e] = "error"]
    /\ UNCHANGED <<vars, switches, exec, step, overall, skipped, automaticSyncRunning>>

\* whatever orderStatus throws is a warning
Tolerated(e) == step[e] = LastStep

StepEnds(e) ==
    /\ StepOver(e)
    /\ IF threw[e] = "nothing" \/ Tolerated(e)
       THEN /\ ExecGoto(e, "stepping", IF step[e] = LastStep THEN "recording" ELSE "stepping")
            /\ step' = [step EXCEPT ![e] = IF @ = LastStep THEN @ ELSE @ + 1]
            /\ threw' = [threw EXCEPT ![e] = "nothing"]
       ELSE /\ ExecGoto(e, "stepping", "failing")
            /\ UNCHANGED <<step, threw>>
    /\ UNCHANGED <<vars, switches, overall, skipped, automaticSyncRunning, failures>>

\* The update of the row, and the finally, which clears the flag whoever set it.
Finish(e) ==
    /\ ExecGoto(e, "recording", "done")
    /\ overall' = [overall EXCEPT ![e] = "success"]
    /\ automaticSyncRunning' = FALSE
    /\ UNCHANGED <<vars, switches, step, threw, skipped, failures>>

FinishFails(e) ==
    /\ Fails /\ ExecGoto(e, "recording", "failing")
    /\ threw' = [threw EXCEPT ![e] = "error"]
    /\ UNCHANGED <<vars, switches, step, overall, skipped, automaticSyncRunning>>

\* any error of status 409 is taken for a lock that is held
IsLock(e) == threw[e] \in {"locked", "conflict"}

RecordFailure(e) ==
    /\ ExecGoto(e, "failing", "done")
    /\ \/ /\ overall' = [overall EXCEPT ![e] = IF IsLock(e) THEN "skipped" ELSE "error"]
          /\ UNCHANGED failures
       \/ UNCHANGED overall /\ Fails
    /\ automaticSyncRunning' = FALSE
    /\ UNCHANGED <<vars, switches, step, threw, skipped>>

-----------------------------------------------------------------------------
\* What its runs were doing stops where it is; the database keeps its rows.
DieAlone == UNCHANGED vars

ProcessDies ==
    /\ ProcessUp
    /\ call' = [c \in Calls |-> IF call[c] = "idle" THEN "idle" ELSE "dead"]
    /\ exec' = [e \in Executions |-> IF exec[e] = "idle" THEN "idle" ELSE
                                      IF exec[e] = "done" THEN "done" ELSE "dead"]
    /\ automaticTimer' = 0 /\ intervals' = 0 /\ automaticSyncRunning' = FALSE
    /\ persistedAutomaticSyncEnabled' = "off" /\ automaticSchedulerInitialized' = FALSE
    /\ DieAlone
    /\ UNCHANGED <<stored, step, threw, overall, skipped, failures>>

\* manual runs, and those of other instances
OtherRuns ==
    /\ \/ Tick /\ UNCHANGED failures
       \/ \E r \in Runs \ StepRuns :
             \/ (Acquire(r) \/ Run(r)) /\ IF StatementFails(r) THEN Fails ELSE UNCHANGED failures
             \/ Crash(r) /\ UNCHANGED failures
    /\ UNCHANGED <<switches, work>>

Starting(c) == Boot(c) \/ LoadConfig(c) \/ ApplyConfig(c) \/ Configured(c)

Execute(e) ==
    \/ Begin(e) \/ Claimed(e) \/ NotNow(e) \/ CreateOverall(e) \/ CreateOverallFails(e)
    \/ StepMoves(e) \/ StepCannotBegin(e) \/ StepEnds(e)
    \/ Finish(e) \/ FinishFails(e) \/ RecordFailure(e)

SchedNext ==
    \/ \E c \in Calls : EnableOrDisable(c) \/ Save(c) \/ Starting(c) \/ CallFails(c)
    \/ \E e \in Executions : Execute(e)
    \/ ProcessDies \/ OtherRuns

SchedSpec == SchedInit /\ [][SchedNext]_schedVars

-----------------------------------------------------------------------------
(* Properties *)

\* However the calls that start and stop it overlap, the process has one
\* interval, the one it can stop: no execution comes from one it has lost.
NoLostInterval == intervals = automaticTimer

\* An execution recorded as successful ran each catalogue but orderStatus, and
\* each of those runs is recorded as successful, whatever the other runs of
\* the same scopes did in between.
SuccessIsComplete ==
    \A e \in Executions : overall[e] = "success" =>
        \A i \in 1..(LastStep - 1) : row[StepRun[e][i]] = "success"

\* One recorded as skipped stopped at a step that was refused its lock, or that
\* failed at its work: those before it succeeded, and it began none after.
SkippedStopped ==
    \A e \in Executions : overall[e] = "skipped" =>
        /\ row[StepOf(e)] \in {"skipped", "error"}
        /\ \A i \in 1..(step[e] - 1) : row[StepRun[e][i]] = "success"
        /\ \A i \in (step[e] + 1)..LastStep : pc[StepRun[e][i]] = "idle"

\* The steps use the lock as any other run does.
UsesTheLock == Spec

-----------------------------------------------------------------------------
(* What the repository says of the program, and the program does not do. *)

\* "Ignorada porque a execucao automatica anterior ainda esta em andamento":
\* a call is told so only while another execution is under way.
SkippedWhileUnderway ==
    [][\A e \in Executions :
          e \in skipped' \ skipped => \E f \in Executions : exec[f] \in Underway]_schedVars

\* "A flag automaticSyncRunning impede execucao paralela": no two executions of
\* a process are under way at once, and the flag is up as long as one is.
OneExecutionAtATime ==
    \A e, f \in Executions :
        exec[e] \in Underway => automaticSyncRunning /\ (exec[f] \in Underway => e = f)
=============================================================================
