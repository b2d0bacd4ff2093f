-------------------------------- MODULE Pool --------------------------------
(***************************************************************************)
(* The executor pool of cronplusd (internal/executor/pool.go).             *)
(*                                                                         *)
(* A trigger is handed to Dispatch, which spawns a goroutine that runs     *)
(* execute: gate, concurrency slot, run number, registration, attempts,    *)
(* release.  A goroutine's steps are cut where it gives up Pool.mu, calls  *)
(* the store or waits, so that every interleaving of goroutines, of Kill   *)
(* and of KillAll that the mutex allows is a behaviour.                    *)
(*                                                                         *)
(* Run is the set of execute goroutines; each is used once, so its size    *)
(* bounds the number of dispatches.  Killer is the set of goroutines that  *)
(* call Kill or KillAll from outside: control connections, the scheduler   *)
(* loop, the signal handler.                                               *)
(***************************************************************************)
EXTENDS Integers, FiniteSets

CONSTANTS Task, Run, Killer, NoRun,
          TaskOf,         \* the task a goroutine was dispatched for
          MaxTotal,       \* settings maxConcurrentTasks, as given to NewPool
          Fields          \* the task definitions tasks.conf may hold

ASSUME RunAssumption ==
    /\ IsFiniteSet(Run)
    /\ NoRun \notin Run
    /\ Run \cap Killer = {}
    /\ TaskOf \in [Run -> Task]

\* The fields of model.Task that execute reads and never writes.
Field == [maxConcurrent : Int, killPrevious : BOOLEAN, maxRetries : Int, maxRuns : Int]

ASSUME FieldAssumption == MaxTotal \in Int /\ Fields \subseteq [Task -> Field]

VARIABLES
    running,        \* Pool.running: the registered run of a task, or NoRun
    taskRunCount,   \* Pool.taskRunCount
    pc,             \* where each goroutine stands in execute
    runSeq,         \* RunSeq of the copy of the task a goroutine was given
    attempt,        \* attempts begun
    result,         \* outcome of the last attempt
    cancelled,      \* runs whose context has been cancelled
    victim,         \* the run a caller of Kill has unregistered, not cancelled
    todo,           \* the task ids KillAll still has to kill
    doomed,         \* history: the runs that were registered when KillAll began
    fields,         \* tasks.conf: the definition of each task, never edited here
    conf,           \* tasks.conf: run_seq and enabled of each task
    known           \* the scheduler's cached copy of conf

execVars == <<pc, runSeq, attempt, result>>
killVars == <<victim, todo, doomed>>
confVars == <<conf, known, fields>>
vars == <<running, taskRunCount, execVars, cancelled, killVars, confVars>>

-----------------------------------------------------------------------------
(* The fields as the code reads them: zero and negative values fall back.  *)

TotalLimit == IF MaxTotal <= 0 THEN 50 ELSE MaxTotal
Limit(t) == IF fields[t].maxConcurrent <= 0 THEN 1 ELSE fields[t].maxConcurrent
Retries(t) == IF fields[t].maxRetries < 0 THEN 0 ELSE fields[t].maxRetries

\* Places between taking a concurrency slot and giving it back.
Numbering == {"number", "disable", "register"}
Attempting == {"check", "launch", "wait", "reap", "log", "backoff", "release"}
Owning == Numbering \cup Attempting

\* An attempt succeeds, fails with an exit code of the command, or ends with
\* exit code -1: timed out, stopped, killed by a signal or never started.
Outcome == {"success", "fail", "final"}

Owners(t) == {r \in Run : TaskOf[r] = t /\ pc[r] \in Owning}
Admitted(t) == {r \in Run : TaskOf[r] = t /\ pc[r] \in Owning \cup {"done"}}
Registered == {t \in Task : running[t] # NoRun}

Conf == [seq : Nat, enabled : BOOLEAN]

Init ==
    /\ running = [t \in Task |-> NoRun]
    /\ taskRunCount = [t \in Task |-> 0]
    /\ pc = [r \in Run |-> "idle"]
    /\ runSeq = [r \in Run |-> 0]
    /\ attempt = [r \in Run |-> 0]
    /\ result = [r \in Run |-> "none"]
    /\ cancelled = {}
    /\ victim = [a \in Run \cup Killer |-> NoRun]
    /\ todo = [k \in Killer |-> {}]
    /\ doomed = [k \in Killer |-> {}]
    /\ fields \in Fields
    /\ conf = [t \in Task |-> [seq |-> 0, enabled |-> TRUE]]
    /\ known = conf

Goto(r, place) == pc' = [pc EXCEPT ![r] = place]

-----------------------------------------------------------------------------
(* Seeded faults: variants of the definitions below with a plausible mistake,
   to show that the properties notice it. *)

\* Kill goes on although no run of the task is registered.
CancelMissing(a) ==
    /\ cancelled' = cancelled \cup {victim[a]}
    /\ victim' = [victim EXCEPT ![a] = NoRun]

\* Kill forgets to cancel the context.
CancelNothing(a) ==
    /\ UNCHANGED cancelled
    /\ victim' = [victim EXCEPT ![a] = NoRun]

\* The limit is compared with > instead of >=.
AdmitOneMore(r) ==
    LET t == TaskOf[r] IN
    \/ /\ taskRunCount[t] > Limit(t)
       /\ Goto(r, "skipped")
       /\ UNCHANGED taskRunCount
    \/ /\ taskRunCount[t] <= Limit(t)
       /\ taskRunCount' = [taskRunCount EXCEPT ![t] = @ + 1]
       /\ Goto(r, "number")

\* The run number is taken when the trigger arrives, before the gate.
DispatchNumbered(r) ==
    LET t == TaskOf[r] IN
    /\ pc[r] = "idle"
    /\ known[t].enabled
    /\ Cardinality(Registered) < TotalLimit
    /\ Goto(r, "gate")
    /\ runSeq' = [runSeq EXCEPT ![r] = known[t].seq]
    /\ conf' = [conf EXCEPT ![t].seq = known[t].seq + 1]
    /\ UNCHANGED <<running, taskRunCount, attempt, result, cancelled, killVars, known, fields>>

\* Unregistering the previous run returns its slot at once.
KillRunningReturnsSlot(r) ==
    LET t == TaskOf[r] IN
    /\ pc[r] = "kill"
    /\ victim' = [victim EXCEPT ![r] = running[t]]
    /\ running' = [running EXCEPT ![t] = NoRun]
    /\ taskRunCount' = [taskRunCount EXCEPT ![t] = IF @ > 0 THEN @ - 1 ELSE @]
    /\ Goto(r, "cancel")
    /\ UNCHANGED <<runSeq, attempt, result, cancelled, todo, doomed, confVars>>

\* The attempt starts without looking at the context.
CheckNothing(r) ==
    /\ pc[r] = "check"
    /\ attempt' = [attempt EXCEPT ![r] = @ + 1]
    /\ Goto(r, "launch")
    /\ UNCHANGED <<running, taskRunCount, runSeq, result, cancelled, killVars, confVars>>

\* A timed-out attempt is retried like a failed one.
LogRetriesTimeouts(r) ==
    /\ pc[r] = "log"
    /\ Goto(r, IF /\ result[r] # "success"
                  /\ r \notin cancelled
                  /\ attempt[r] <= Retries(TaskOf[r])
               THEN "backoff" ELSE "release")
    /\ UNCHANGED <<running, taskRunCount, runSeq, attempt, result, cancelled, killVars, confVars>>

-----------------------------------------------------------------------------
(* Triggers *)

\* The scheduler refreshes its copy of the task file (scheduler.loadTasks).
LoadTasks ==
    /\ known' = conf
    /\ UNCHANGED <<running, taskRunCount, execVars, cancelled, killVars, conf, fields>>

\* Dispatch reads len(running) under the read lock and then spawns execute
\* with a copy of the cached task; at the limit the trigger is dropped.  The
\* scheduler dispatches tasks that its cached copy shows as enabled.
Dispatch(r) ==
    LET t == TaskOf[r] IN
    /\ pc[r] = "idle"
    /\ known[t].enabled
    /\ Cardinality(Registered) < TotalLimit
    /\ Goto(r, "gate")
    /\ runSeq' = [runSeq EXCEPT ![r] = known[t].seq]
    /\ UNCHANGED <<running, taskRunCount, attempt, result, cancelled, killVars, confVars>>

-----------------------------------------------------------------------------
(* execute: admission *)

\* Take a concurrency slot, or give up (under Pool.mu).
Admit(r) ==
    LET t == TaskOf[r] IN
    \/ /\ taskRunCount[t] >= Limit(t)
       /\ Goto(r, "skipped")
       /\ UNCHANGED taskRunCount
    \/ /\ taskRunCount[t] < Limit(t)
       /\ taskRunCount' = [taskRunCount EXCEPT ![t] = @ + 1]
       /\ Goto(r, "number")

Gate(r) ==
    LET t == TaskOf[r] IN
    /\ pc[r] = "gate"
    /\ \/ running[t] = NoRun /\ Admit(r)
       \/ /\ running[t] # NoRun
          /\ Goto(r, IF fields[t].killPrevious THEN "kill" ELSE "skipped")
          /\ UNCHANGED taskRunCount
    /\ UNCHANGED <<running, runSeq, attempt, result, cancelled, killVars, confVars>>

\* The locked half of Kill: the caller a unregisters the run of task t ...
Unregister(a, t) ==
    /\ victim' = [victim EXCEPT ![a] = running[t]]
    /\ running' = [running EXCEPT ![t] = NoRun]

\* ... and, the lock released, cancels its context.
CancelVictim(a) ==
    /\ cancelled' = cancelled \cup ({victim[a]} \ {NoRun})
    /\ victim' = [victim EXCEPT ![a] = NoRun]

KillRunning(r) ==
    /\ pc[r] = "kill"
    /\ Unregister(r, TaskOf[r])
    /\ Goto(r, "cancel")
    /\ UNCHANGED <<taskRunCount, runSeq, attempt, result, cancelled, todo, doomed, confVars>>

CancelRunning(r) ==
    /\ pc[r] = "cancel"
    /\ CancelVictim(r)
    /\ Goto(r, "regate")
    /\ UNCHANGED <<running, taskRunCount, runSeq, attempt, result, todo, doomed, confVars>>

Regate(r) ==
    /\ pc[r] = "regate"
    /\ Admit(r)
    /\ UNCHANGED <<running, runSeq, attempt, result, cancelled, killVars, confVars>>

-----------------------------------------------------------------------------
(* execute: the run number, max_runs and the registration *)

\* The copy's sequence number is incremented and written to tasks.conf; a
\* failed write is logged and the run goes on.
Number(r) ==
    LET t == TaskOf[r]
        n == runSeq[r] + 1
    IN
    /\ pc[r] = "number"
    /\ runSeq' = [runSeq EXCEPT ![r] = n]
    /\ conf' \in {conf, [conf EXCEPT ![t].seq = n]}
    /\ Goto(r, IF fields[t].maxRuns > 0 /\ n >= fields[t].maxRuns THEN "disable" ELSE "register")
    /\ UNCHANGED <<running, taskRunCount, attempt, result, cancelled, killVars, known, fields>>

Disable(r) ==
    /\ pc[r] = "disable"
    /\ conf' \in {conf, [conf EXCEPT ![TaskOf[r]].enabled = FALSE]}
    /\ Goto(r, "register")
    /\ UNCHANGED <<running, taskRunCount, runSeq, attempt, result, cancelled, killVars, known, fields>>

Register(r) ==
    /\ pc[r] = "register"
    /\ running' = [running EXCEPT ![TaskOf[r]] = r]
    /\ Goto(r, "check")
    /\ UNCHANGED <<taskRunCount, runSeq, attempt, result, cancelled, killVars, confVars>>

-----------------------------------------------------------------------------
(* execute: the attempts.  RunCommand is cut at its context check, at the  *)
(* start of the process, at the end of its output and at its return; its   *)
(* inside is module RunCommand.                                            *)

Check(r) ==
    /\ pc[r] = "check"
    /\ attempt' = [attempt EXCEPT ![r] = @ + 1]
    /\ \/ r \notin cancelled /\ Goto(r, "launch") /\ UNCHANGED result
       \/ r \in cancelled /\ Goto(r, "log") /\ result' = [result EXCEPT ![r] = "final"]
    /\ UNCHANGED <<running, taskRunCount, runSeq, cancelled, killVars, confVars>>

Launch(r) ==
    /\ pc[r] = "launch"
    /\ \/ Goto(r, "wait") /\ UNCHANGED result
       \/ Goto(r, "log") /\ result' = [result EXCEPT ![r] = "final"]
    /\ UNCHANGED <<running, taskRunCount, runSeq, attempt, cancelled, killVars, confVars>>

\* The command has closed its output: RunCommand goes on to cmd.Wait, where
\* neither the timeout nor the context is looked at any more.
OutputEnds(r) ==
    /\ pc[r] = "wait"
    /\ Goto(r, "reap")
    /\ UNCHANGED <<running, taskRunCount, runSeq, attempt, result, cancelled, killVars, confVars>>

\* The timeout or a stop came first: the process group is killed and reaped.
Abort(r) ==
    /\ pc[r] = "wait"
    /\ result' = [result EXCEPT ![r] = "final"]
    /\ Goto(r, "log")
    /\ UNCHANGED <<running, taskRunCount, runSeq, attempt, cancelled, killVars, confVars>>

\* The process has exited and was reaped.
Finish(r) ==
    /\ pc[r] = "reap"
    /\ \E o \in Outcome : result' = [result EXCEPT ![r] = o]
    /\ Goto(r, "log")
    /\ UNCHANGED <<running, taskRunCount, runSeq, attempt, cancelled, killVars, confVars>>

\* Write the log entry, then return or wait for the next attempt.
Log(r) ==
    /\ pc[r] = "log"
    /\ Goto(r, IF /\ result[r] = "fail"
                  /\ r \notin cancelled
                  /\ attempt[r] <= Retries(TaskOf[r])
               THEN "backoff" ELSE "release")
    /\ UNCHANGED <<running, taskRunCount, runSeq, attempt, result, cancelled, killVars, confVars>>

\* The select between the context and the retry timer.
Backoff(r) ==
    /\ pc[r] = "backoff"
    /\ \/ Goto(r, "check")
       \/ r \in cancelled /\ Goto(r, "release")
    /\ UNCHANGED <<running, taskRunCount, runSeq, attempt, result, cancelled, killVars, confVars>>

\* The deferred function: unregister this very run and return the slot.
Release(r) ==
    LET t == TaskOf[r] IN
    /\ pc[r] = "release"
    /\ running' = [running EXCEPT ![t] = IF @ = r THEN NoRun ELSE @]
    /\ taskRunCount' = [taskRunCount EXCEPT ![t] = IF @ > 0 THEN @ - 1 ELSE @]
    /\ Goto(r, "done")
    /\ UNCHANGED <<runSeq, attempt, result, cancelled, killVars, confVars>>

-----------------------------------------------------------------------------
(* Kill and KillAll called from outside *)

Free(k) == victim[k] = NoRun /\ todo[k] = {}

Kill(k, t) ==
    /\ Free(k)
    /\ running[t] # NoRun
    /\ Unregister(k, t)
    /\ UNCHANGED <<taskRunCount, execVars, cancelled, todo, doomed, confVars>>

KillAll(k) ==
    /\ Free(k)
    /\ todo' = [todo EXCEPT ![k] = Registered]
    /\ doomed' = [doomed EXCEPT ![k] = {running[t] : t \in Registered}]
    /\ UNCHANGED <<running, taskRunCount, execVars, cancelled, victim, confVars>>

KillAllNext(k) ==
    /\ victim[k] = NoRun
    /\ \E t \in todo[k] :
          /\ todo' = [todo EXCEPT ![k] = @ \ {t}]
          /\ Unregister(k, t)
    /\ UNCHANGED <<taskRunCount, execVars, cancelled, doomed, confVars>>

KillCancel(k) ==
    /\ victim[k] # NoRun
    /\ CancelVictim(k)
    /\ UNCHANGED <<running, taskRunCount, execVars, todo, doomed, confVars>>

-----------------------------------------------------------------------------
Admission(r) ==
    Gate(r) \/ KillRunning(r) \/ CancelRunning(r) \/ Regate(r)

Execute(r) ==
    \/ Number(r) \/ Disable(r) \/ Register(r) \/ Check(r) \/ Launch(r)
    \/ Log(r) \/ Backoff(r) \/ Release(r)

Command(r) == OutputEnds(r) \/ Abort(r) \/ Finish(r)

Killing(k) ==
    \/ \E t \in Task : Kill(k, t)
    \/ KillAll(k) \/ KillAllNext(k) \/ KillCancel(k)

Next ==
    \/ LoadTasks
    \/ \E r \in Run : Dispatch(r) \/ Admission(r) \/ Execute(r) \/ Command(r)
    \/ \E k \in Killer : Killing(k)

\* A spawned goroutine and a Kill in progress keep being scheduled.  A process
\* may run for ever; while RunCommand still reads its output, a cancelled context
\* makes it kill the process group.  Once the output has ended nothing ends the
\* wait but the process itself.  Nothing forces a trigger or a kill to happen.
Fairness ==
    /\ \A r \in Run : /\ WF_vars(Admission(r) \/ Execute(r))
                      /\ WF_vars(r \in cancelled /\ (Abort(r) \/ OutputEnds(r)))
    /\ \A k \in Killer : WF_vars(KillAllNext(k) \/ KillCancel(k))

Spec == Init /\ [][Next]_vars

FairSpec == Spec /\ Fairness

-----------------------------------------------------------------------------
(* Properties *)

\* Every variable has its type (state of pool.go:26-32, 134-293).
TypeOK ==
    /\ running \in [Task -> Run \cup {NoRun}]
    /\ taskRunCount \in [Task -> Nat]
    /\ pc \in [Run -> Owning \cup {"idle", "gate", "kill", "cancel", "regate", "skipped", "done"}]
    /\ runSeq \in [Run -> Nat]
    /\ attempt \in [Run -> Nat]
    /\ result \in [Run -> Outcome \cup {"none"}]
    /\ cancelled \subseteq Run
    /\ victim \in [Run \cup Killer -> Run \cup {NoRun}]
    /\ todo \in [Killer -> SUBSET Task]
    /\ doomed \in [Killer -> SUBSET Run]
    /\ conf \in [Task -> Conf]
    /\ known \in [Task -> Conf]
    /\ fields \in Fields

BeingKilled(r) == \E a \in Run \cup Killer : victim[a] = r

\* A slot taken at the gate is returned exactly once, however the run ends and
\* whoever unregisters it meanwhile: the counter is the number of runs that own
\* a slot (pool.go:155-164, 205-207; Kill leaves the counter alone).
SlotsExact == \A t \in Task : taskRunCount[t] = Cardinality(Owners(t))

\* No task ever has more runs between gate and release than max_concurrent,
\* killed ones that still wind down included (pool.go:155-163).
ConcurrencyBound == \A t \in Task : Cardinality(Owners(t)) <= Limit(t)

\* Pool.running never names a run that has ended, was skipped or has not
\* registered: ps and a stop request always act on a live run of that task
\* (pool.go:195-204).
RegisteredIsLive ==
    \A t \in Task : running[t] # NoRun =>
        TaskOf[running[t]] = t /\ pc[running[t]] \in Attempting

\* With one slot per task, no run leaves the pool again once it has registered:
\* it is registered, or a Kill has it in hand, or it is cancelled.  So from its
\* registration on ps shows every run that was not stopped and a stop reaches it
\* (pool.go:68-88, 195-204).  Between its slot and its registration (163-196) a
\* run is on no list, and a stop misses it.
NoUntrackedRun ==
    \A r \in Run : Limit(TaskOf[r]) = 1 /\ pc[r] \in Attempting =>
        running[TaskOf[r]] = r \/ BeingKilled(r) \/ r \in cancelled

\* KillAll works on a snapshot of ids while runs end, start and are killed by
\* others; once it is through with an id, the run that was registered under it
\* at the snapshot was stopped or has ended (pool.go:90-103).  With more than
\* one slot a run may be hidden by a later registration and escape.
Stopped(r) == r \in cancelled \/ BeingKilled(r) \/ pc[r] = "done"
KillAllReachesSingle ==
    \A k \in Killer : \A r \in doomed[k] :
        Limit(TaskOf[r]) = 1 /\ TaskOf[r] \notin todo[k] => Stopped(r)

\* So a stop of one task, and one of all, reaches every registered run with a
\* slot of its own (pool.go:66-103).
StopReaches == NoUntrackedRun /\ KillAllReachesSingle

\* A skipped trigger consumes no run of max_runs, and the pool disables a task
\* only once max_runs runs were admitted, whatever stale copy of the task a
\* trigger carried (pool.go:137-140, 171-184).
RunsAccounted ==
    \A t \in Task :
        /\ conf[t].seq <= Cardinality(Admitted(t))
        /\ ~conf[t].enabled => fields[t].maxRuns > 0 /\ Cardinality(Admitted(t)) >= fields[t].maxRuns

\* A run makes at most 1 + max_retries attempts, and begins another one only
\* after an exit code of the command: never after a success, a timeout or a
\* stop (pool.go:243, 270-291).
RetryDiscipline ==
    \A r \in Run :
        /\ attempt[r] <= 1 + Retries(TaskOf[r])
        /\ attempt[r] > 1 /\ pc[r] \in {"launch", "wait", "reap"} => result[r] = "fail"

\* Once a run's context is cancelled it starts no process any more, unless it
\* was already past RunCommand's context check: a stop that lands in the retry
\* wait and loses the select is still honoured (pool.go:274-291, run.go:27-29).
NoProcessAfterStop ==
    [][\A r \in Run : r \in cancelled /\ pc[r] # "launch" => pc'[r] \notin {"launch", "wait"}
                                                          \/ pc'[r] = pc[r]]_vars

\* A run that was unregistered by Kill ends and gives its slot back, wherever in
\* execute the kill finds it and even when its process would run for ever.  The
\* one exception is a command that closed its output and never exits: the kill
\* does not reach it (pool.go:68-88, 199-209, 274-291; run.go:114-139).
KilledRunEnds ==
    \A r \in Run : BeingKilled(r) ~> (pc[r] = "done" \/ [](pc[r] = "reap"))

=============================================================================
