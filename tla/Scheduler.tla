------------------------------ MODULE Scheduler ------------------------------
(***************************************************************************)
(* The scheduling loop of cronplusd (internal/scheduler/scheduler.go) with *)
(* the state it persists (internal/store/state.go).                        *)
(*                                                                         *)
(* One pass of the loop: loadTasks (Stat, ListTasks, keep), truncate the   *)
(* clock, collect the candidates, fire the @reboot tasks once, fire the    *)
(* candidates that are due, sleep.  Beside it run Wakeup (a reload from    *)
(* the control socket or SIGHUP), the flush timer, the goroutines of       *)
(* delayed @reboot tasks, the pool, the users that edit tasks.conf, and    *)
(* the clock.  The daemon may crash and be restarted, the machine reboot.  *)
(*                                                                         *)
(* A schedule is the set of seconds it matches (module CronNext computes   *)
(* them); the pool is the little the scheduler sees of it: a task is off,  *)
(* dispatched but not registered yet, or registered (module Pool).         *)
(***************************************************************************)
EXTENDS Integers, FiniteSets

CONSTANTS Task,
          Reboot,         \* the tasks with schedule @reboot
          Delayed,        \* those of them with a reboot_delay
          KillPrevious,   \* the tasks with kill_previous
          Occurs,         \* [Task -> SUBSET Nat]: the seconds a schedule matches
          Until,          \* the sets of tasks tasks.conf may hold, each with the last
                          \* second of the behaviours that start with it (a bound)
          MaxTime, MaxEdits, MaxWakeups, \* bounds of the instance
          MaxFaults       \* bound: crashes and looks that find no file

Time == 1..MaxTime
Cron == Task \ Reboot

ASSUME ScheduleAssumption ==
    /\ MaxTime \in Nat \ {0} /\ {MaxEdits, MaxWakeups, MaxFaults} \subseteq Nat
    /\ Reboot \subseteq Task /\ Delayed \subseteq Reboot
    /\ KillPrevious \subseteq Task /\ DOMAIN Until \subseteq SUBSET Task
    /\ \A all \in DOMAIN Until : Until[all] \in Time
    /\ Occurs \in [Task -> SUBSET Time]
    /\ \A t \in Reboot : Occurs[t] = {}

VARIABLES
    now,         \* the clock, in seconds
    conf,        \* tasks.conf: its tasks, the enabled ones, its modification time
    cached,      \* Scheduler.cachedTasks; version 0 is nil
    lastMtime,   \* Scheduler.lastMtime
    pc,          \* where the loop stands; "down" when no daemon runs
    stat, tasks, passNow, cands,   \* locals of a pass
    lastRun,     \* Scheduler.taskLastRun; 0 is the zero time
    mem, saved,  \* task_last_run of the store in memory and in state.json
    rebootFired, marker, waiting,  \* @reboot: flag, /run/cronplus, delayed goroutines
    pool,        \* what IsRunning would say of each task, and what is still starting
    misses, wakeups, crashes,
    hist         \* history, read by the properties only

confVars == <<conf, cached, lastMtime>>
passVars == <<stat, tasks, passNow, cands>>
runVars == <<lastRun, mem, saved>>
bootVars == <<rebootFired, marker, waiting>>
bounds == <<misses, wakeups, crashes>>
vars == <<now, confVars, pc, passVars, runVars, bootVars, pool, bounds, hist>>

Nil == [ver |-> 0, all |-> {}, on |-> {}]
NoTimes == [t \in Task |-> 0]

\* The history: how often each occurrence was fired, those that must not fire
\* again, those skipped because the task ran, the occurrence from which the
\* chain of a task is unbroken, and how often an @reboot task fired since the
\* machine booted.
NoHistory == [fired |-> [t \in Task |-> [o \in Time |-> 0]],
              final |-> [t \in Task |-> {}],
              skipped |-> [t \in Task |-> {}],
              since |-> NoTimes,
              boots |-> NoTimes]

Init ==
    /\ now = 1
    /\ \E all \in DOMAIN Until : conf = [ver |-> 1, all |-> all, on |-> all]
    /\ cached = Nil /\ lastMtime = 0
    /\ pc = "down"
    /\ stat = 0 /\ tasks = Nil /\ passNow = 0 /\ cands = NoTimes
    /\ lastRun = NoTimes /\ mem = NoTimes /\ saved = NoTimes
    /\ rebootFired = FALSE /\ marker = FALSE /\ waiting = {}
    /\ pool = [t \in Task |-> "off"]
    /\ misses = 0 /\ wakeups = 0 /\ crashes = 0
    /\ hist = NoHistory

Up == pc # "down"

\* Compiled.NextFromAnchor: the first occurrence after a time, 0 if there is none.
NextAfter(t, time) ==
    LET later == {o \in Occurs[t] : o > time}
    IN  IF later = {} THEN 0 ELSE CHOOSE o \in later : \A p \in later : o <= p

-----------------------------------------------------------------------------
(* Seeded faults: variants of the definitions below with a plausible mistake,
   to show that the properties notice it. *)

\* The persisted last-run times are not restored.
StartForgetting ==
    /\ pc = "down"
    /\ pc' = "load"
    /\ lastRun' = NoTimes /\ mem' = saved
    /\ rebootFired' = marker /\ marker' = TRUE /\ waiting' = {}
    /\ cached' = Nil /\ lastMtime' = 0
    /\ stat' = 0 /\ tasks' = Nil /\ passNow' = 0 /\ cands' = NoTimes
    /\ UNCHANGED <<now, conf, saved, pool, bounds, hist>>

\* The boot marker is not consulted.
StartUnmarked ==
    /\ pc = "down"
    /\ pc' = "load"
    /\ lastRun' = saved /\ mem' = saved
    /\ rebootFired' = FALSE /\ marker' = TRUE /\ waiting' = {}
    /\ cached' = Nil /\ lastMtime' = 0
    /\ stat' = 0 /\ tasks' = Nil /\ passNow' = 0 /\ cands' = NoTimes
    /\ UNCHANGED <<now, conf, saved, pool, bounds, hist>>

\* The modification time is taken after the file was read.
StampLate ==
    /\ pc = "stamp"
    /\ lastMtime' = conf.ver
    /\ pc' = "reuse"
    /\ UNCHANGED <<now, conf, cached, passVars, runVars, bootVars, pool, bounds, hist>>

\* Only the first @reboot task of the file is fired.
BootFirstOnly ==
    LET all == IF rebootFired THEN {} ELSE Reboot \cap tasks.on
        due == IF all = {} THEN {} ELSE {CHOOSE t \in all : TRUE}
        fire == due \ Delayed
    IN
    /\ pc = "boot"
    /\ rebootFired' = (rebootFired \/ due # {})
    /\ waiting' = waiting \cup (due \cap Delayed)
    /\ pool' = [t \in Task |-> IF t \in fire THEN "spawned" ELSE pool[t]]
    /\ mem' = [t \in Task |-> IF t \in fire THEN now ELSE mem[t]]
    /\ hist' = [hist EXCEPT !.boots = [t \in Task |-> IF t \in fire THEN @[t] + 1 ELSE @[t]]]
    /\ pc' = "fire"
    /\ UNCHANGED <<now, confVars, passVars, lastRun, saved, marker, bounds>>

\* A task without a delay gets a goroutine too.
BootAllDelayed ==
    LET due == IF rebootFired THEN {} ELSE Reboot \cap tasks.on IN
    /\ pc = "boot"
    /\ rebootFired' = (rebootFired \/ due # {})
    /\ waiting' = waiting \cup due
    /\ pc' = "fire"
    /\ UNCHANGED <<now, confVars, passVars, runVars, marker, pool, bounds, hist>>

\* The time of the pass is recorded instead of the occurrence.
FirePassTime(t) ==
    LET o == cands[t] IN
    /\ pc = "fire"
    /\ o \in 1..passNow
    /\ cands' = [cands EXCEPT ![t] = 0]
    /\ lastRun' = [lastRun EXCEPT ![t] = passNow]
    /\ pool' = [pool EXCEPT ![t] = "spawned"]
    /\ mem' = [mem EXCEPT ![t] = o]
    /\ hist' = [hist EXCEPT !.fired[t][o] = @ + 1, !.final[t] = @ \cup {o},
                            !.since[t] = IF @ = 0 THEN o ELSE @]
    /\ UNCHANGED <<now, confVars, pc, stat, tasks, passNow, saved, bootVars, bounds>>

-----------------------------------------------------------------------------
(* The daemon comes and goes *)

\* main and New: the state file is read, the boot marker tested and created.
Start ==
    /\ pc = "down"
    /\ pc' = "load"
    /\ lastRun' = saved /\ mem' = saved
    /\ rebootFired' = marker /\ marker' = TRUE /\ waiting' = {}
    /\ cached' = Nil /\ lastMtime' = 0
    /\ stat' = 0 /\ tasks' = Nil /\ passNow' = 0 /\ cands' = NoTimes
    /\ UNCHANGED <<now, conf, saved, pool, bounds, hist>>

\* The process dies, or exits, at any moment; an unflushed state is lost and
\* the chain of each task continues from what state.json says.
Crash ==
    /\ Up /\ misses + crashes < MaxFaults
    /\ crashes' = crashes + 1
    /\ pc' = "down"
    /\ pool' = [t \in Task |-> "off"]
    /\ waiting' = {}
    /\ hist' = [hist EXCEPT !.since = saved,
                            !.final = [t \in Task |-> {o \in @[t] : o <= saved[t]}]]
    /\ UNCHANGED <<now, confVars, passVars, runVars, rebootFired, marker, misses, wakeups>>

\* The machine boots: /run is empty again.
BootMachine ==
    /\ pc = "down" /\ marker
    /\ marker' = FALSE
    /\ hist' = [hist EXCEPT !.boots = NoTimes]
    /\ UNCHANGED <<now, confVars, pc, passVars, runVars, rebootFired, waiting, pool, bounds>>

-----------------------------------------------------------------------------
(* loadTasks *)

Look(mtime) ==
    /\ pc = "load"
    /\ stat' = mtime
    /\ pc' = IF mtime # lastMtime \/ cached = Nil THEN "read" ELSE "reuse"
    /\ UNCHANGED <<now, confVars, tasks, passNow, cands, runVars, bootVars, pool, wakeups, crashes, hist>>

Stat == Look(conf.ver) /\ UNCHANGED misses

\* A file that is missing, or cannot be looked at, counts as one of time 0.
StatFails == Look(0) /\ misses + crashes < MaxFaults /\ misses' = misses + 1

\* An empty list ends the pass.
Begin(list) ==
    /\ tasks' = list
    /\ pc' = IF list.on = {} THEN "sleep" ELSE "clock"

\* The cached copy, which a reload may have dropped meanwhile.
Reuse ==
    /\ pc = "reuse"
    /\ Begin(cached)
    /\ UNCHANGED <<now, confVars, stat, passNow, cands, runVars, bootVars, pool, bounds, hist>>

Read ==
    /\ pc = "read"
    /\ tasks' = conf
    /\ pc' = "keep"
    /\ UNCHANGED <<now, confVars, stat, passNow, cands, runVars, bootVars, pool, bounds, hist>>

\* The file is missing still: no tasks.
ReadNothing ==
    /\ pc = "read" /\ stat = 0
    /\ tasks' = [conf EXCEPT !.on = {}]
    /\ pc' = "keep"
    /\ UNCHANGED <<now, confVars, stat, passNow, cands, runVars, bootVars, pool, bounds, hist>>

\* A file that cannot be read or parsed: the cached copy serves, unless the file
\* could not be looked at either.
ReadFails ==
    /\ pc = "read"
    /\ Begin(IF stat = 0 THEN Nil ELSE cached)
    /\ UNCHANGED <<now, confVars, stat, passNow, cands, runVars, bootVars, pool, bounds, hist>>

\* The copy is stored, then the time of the Stat, and the copy is taken again;
\* a reload holds no lock against any of the three.
Keep ==
    /\ pc = "keep"
    /\ cached' = tasks
    /\ pc' = "stamp"
    /\ UNCHANGED <<now, conf, lastMtime, passVars, runVars, bootVars, pool, bounds, hist>>

Stamp ==
    /\ pc = "stamp"
    /\ lastMtime' = stat
    /\ pc' = "reuse"
    /\ UNCHANGED <<now, conf, cached, passVars, runVars, bootVars, pool, bounds, hist>>

-----------------------------------------------------------------------------
(* The pass *)

Clock ==
    /\ pc = "clock"
    /\ passNow' = now
    /\ pc' = "scan"
    /\ UNCHANGED <<now, confVars, stat, tasks, cands, runVars, bootVars, pool, bounds, hist>>

\* Collect the candidates.  A running task is passed over, or killed if it has
\* kill_previous.
Scan ==
    LET busy == {t \in Cron \cap tasks.on : pool[t] = "on"}
        base(t) == IF lastRun[t] = 0 THEN passNow - 1 ELSE lastRun[t]
    IN
    /\ pc = "scan"
    /\ pool' = [t \in Task |-> IF t \in busy \cap KillPrevious THEN "off" ELSE pool[t]]
    /\ cands' = [t \in Task |->
                    IF t \in Cron \cap tasks.on /\ t \notin busy \ KillPrevious
                    THEN NextAfter(t, base(t)) ELSE 0]
    /\ pc' = "boot"
    /\ UNCHANGED <<now, confVars, stat, tasks, passNow, runVars, bootVars, bounds, hist>>

\* fireRebootTask for every @reboot task of the copy, once per daemon.
Boot ==
    LET due == IF rebootFired THEN {} ELSE Reboot \cap tasks.on
        fire == due \ Delayed
    IN
    /\ pc = "boot"
    /\ rebootFired' = (rebootFired \/ due # {})
    /\ waiting' = waiting \cup (due \cap Delayed)
    /\ pool' = [t \in Task |-> IF t \in fire THEN "spawned" ELSE pool[t]]
    /\ mem' = [t \in Task |-> IF t \in fire THEN now ELSE mem[t]]
    /\ hist' = [hist EXCEPT !.boots = [t \in Task |-> IF t \in fire THEN @[t] + 1 ELSE @[t]]]
    /\ pc' = "fire"
    /\ UNCHANGED <<now, confVars, passVars, lastRun, saved, marker, bounds>>

\* The goroutine of a delayed @reboot task.
BootDelayOver(t) ==
    /\ Up /\ t \in waiting
    /\ waiting' = waiting \ {t}
    /\ pool' = [pool EXCEPT ![t] = "spawned"]
    /\ mem' = [mem EXCEPT ![t] = now]
    /\ hist' = [hist EXCEPT !.boots[t] = @ + 1]
    /\ UNCHANGED <<now, confVars, pc, passVars, lastRun, saved, rebootFired, marker, bounds>>

Due == {t \in Task : cands[t] \in 1..passNow}

\* One candidate that is due, the earliest first: its occurrence is recorded,
\* then it is dispatched unless the task has come to run meanwhile.
Fire(t) ==
    LET o == cands[t]
        skip == pool[t] = "on" /\ t \notin KillPrevious
    IN
    /\ pc = "fire"
    /\ t \in Due /\ \A u \in Due : o <= cands[u]
    /\ cands' = [cands EXCEPT ![t] = 0]
    /\ lastRun' = [lastRun EXCEPT ![t] = o]
    /\ IF skip
       THEN /\ UNCHANGED <<pool, mem>>
            /\ hist' = [hist EXCEPT !.skipped[t] = @ \cup {o}, !.final[t] = @ \cup {o},
                                    !.since[t] = IF @ = 0 THEN o ELSE @]
       ELSE /\ pool' = [pool EXCEPT ![t] = "spawned"]
            /\ mem' = [mem EXCEPT ![t] = o]
            /\ hist' = [hist EXCEPT !.fired[t][o] = @ + 1, !.final[t] = @ \cup {o},
                                    !.since[t] = IF @ = 0 THEN o ELSE @]
    /\ UNCHANGED <<now, confVars, pc, stat, tasks, passNow, saved, bootVars, bounds>>

EndPass ==
    /\ pc = "fire" /\ Due = {}
    /\ pc' = "sleep"
    /\ UNCHANGED <<now, confVars, passVars, runVars, bootVars, pool, bounds, hist>>

\* driftSleep returns and the loop starts over.
Sleep ==
    /\ pc = "sleep"
    /\ pc' = "load"
    /\ UNCHANGED <<now, confVars, passVars, runVars, bootVars, pool, bounds, hist>>

-----------------------------------------------------------------------------
(* Beside the loop *)

\* The last-run times are forgotten: an occurrence of the second of the pass
\* may fire again.  It takes one step, although it locks only the last-run times:
\* whatever falls between its first two writes, a copy that is nil is read anew.
Wakeup ==
    /\ Up /\ wakeups < MaxWakeups
    /\ wakeups' = wakeups + 1
    /\ lastMtime' = 0 /\ cached' = Nil
    /\ lastRun' = NoTimes
    /\ hist' = [hist EXCEPT !.since = NoTimes,
                            !.final = [t \in Task |-> {o \in @[t] : o < passNow}]]
    /\ UNCHANGED <<now, conf, pc, passVars, mem, saved, bootVars, pool, misses, crashes>>

FlushState ==
    /\ Up
    /\ saved' = mem
    /\ UNCHANGED <<now, confVars, pc, passVars, lastRun, mem, bootVars, pool, bounds, hist>>

\* The pool: a dispatched run registers or is skipped; a run ends or is stopped.
PoolStep(t) ==
    /\ \/ pool[t] = "spawned" /\ pool' = [pool EXCEPT ![t] = "on"]
       \/ pool[t] # "off" /\ pool' = [pool EXCEPT ![t] = "off"]
    /\ UNCHANGED <<now, confVars, pc, passVars, runVars, bootVars, bounds, hist>>

\* A user enables or disables a task (CLI or WebUI, an atomic rename).
Edit ==
    /\ conf.ver <= MaxEdits
    /\ \E t \in conf.all : conf' = [conf EXCEPT !.ver = @ + 1,
                                               !.on = (@ \ {t}) \cup ({t} \ @)]
    /\ UNCHANGED <<now, cached, lastMtime, pc, passVars, runVars, bootVars, pool, bounds, hist>>

Tick ==
    /\ now < Until[conf.all]
    /\ now' = now + 1
    /\ UNCHANGED <<confVars, pc, passVars, runVars, bootVars, pool, bounds, hist>>

-----------------------------------------------------------------------------
Loop ==
    \/ Stat \/ StatFails \/ Reuse \/ Read \/ ReadNothing \/ ReadFails \/ Keep \/ Stamp
    \/ Clock \/ Scan \/ Boot \/ EndPass \/ Sleep
    \/ \E t \in Task : Fire(t)

Next ==
    \/ Start \/ Loop \/ Crash \/ BootMachine
    \/ Wakeup \/ FlushState \/ Edit \/ Tick
    \/ \E t \in Task : BootDelayOver(t) \/ PoolStep(t)

\* systemd restarts the daemon (Restart=on-failure), its loop keeps running,
\* tasks.conf can be read time and again, and time passes.  Nothing forces a
\* run to end, an edit or a reload.
Fairness ==
    /\ WF_vars(Start) /\ WF_vars(Loop) /\ SF_vars(Read) /\ WF_vars(Tick)
    /\ \A t \in Task : WF_vars(BootDelayOver(t))

Spec == Init /\ [][Next]_vars
FairSpec == Spec /\ Fairness

-----------------------------------------------------------------------------
(* Properties *)

ConfVersion == [ver : 0..MaxEdits + 1, all : SUBSET Task, on : SUBSET Task]

\* Every variable has its type.
TypeOK ==
    /\ now \in Time /\ passNow \in 0..MaxTime
    /\ {conf, cached, tasks} \subseteq ConfVersion
    /\ {stat, lastMtime} \subseteq 0..MaxEdits + 1
    /\ pc \in {"down", "load", "reuse", "read", "keep", "stamp", "clock", "scan", "boot", "fire", "sleep"}
    /\ {cands, lastRun, mem, saved} \subseteq [Task -> 0..MaxTime]
    /\ rebootFired \in BOOLEAN /\ marker \in BOOLEAN /\ waiting \subseteq Delayed
    /\ pool \in [Task -> {"off", "spawned", "on"}]

\* A pass never works from a copy of tasks.conf older than the file was when
\* the pass looked at it, however edits and reloads interleave with loadTasks:
\* a task disabled before the pass is not fired by it.  The exceptions are a file
\* that could not be read, when lastMtime differs, and one that could not be
\* looked at, when stat is 0 (scheduler.go:322-356).
PassIsFresh ==
    pc \in {"clock", "scan", "boot", "fire"} /\ lastMtime = stat => tasks.ver >= stat

\* The cache never claims a modification time newer than its content, or an
\* edit would be missed for ever (scheduler.go:339-355).
CacheNotAhead == cached # Nil => cached.ver >= lastMtime

\* An occurrence that fired does not fire again.  Only a reload in that very
\* second or a crash before the state was flushed lifts the mark
\* (scheduler.go:240-242, 106-119, state.go:43-79).
NoRefire ==
    [][\A t \in Task : \A o \in hist.final[t] :
            hist'.fired[t][o] = hist.fired[t][o]]_vars

\* No task fires before its time.
NeverEarly ==
    [][\A t \in Task, o \in Time :
            hist'.fired[t][o] # hist.fired[t][o] => o \in Occurs[t] /\ o <= now]_vars

\* From the first occurrence a task handled, none is lost: occurrences that
\* pass while the task runs, the loop is late or the daemon is down are fired
\* afterwards, one per pass, or skipped because the task had just come to run
\* (scheduler.go:189-211, 240-250, 72-81).
NoneLost ==
    \A t \in Task : \A o \in Occurs[t] :
        Up /\ hist.since[t] > 0 /\ hist.since[t] <= o /\ o <= lastRun[t]
            => hist.fired[t][o] > 0 \/ o \in hist.skipped[t]

\* An @reboot task fires at most once per boot of the machine, however often
\* the daemon restarts or reloads (scheduler.go:66, 214-221, state.go:83-92).
BootOnce == \A t \in Reboot : hist.boots[t] <= 1

\* Once edits and crashes stop, the loop works from the current file.
EventuallyFresh == <>[](pc \in {"clock", "scan", "boot", "fire"} => tasks = conf)

\* Every @reboot task enabled at boot fires, not only the first of the file,
\* unless the daemon crashes or the file is edited first (scheduler.go:181-221,
\* 381-411).
AllBootTasksFire ==
    \A t \in Reboot : [](t \in conf.on => <>(hist.boots[t] > 0 \/ crashes > 0 \/ conf.ver > 1))

\* So the loop keeps up with the file and with the boot (scheduler.go:126-320).
LoopKeepsUp == EventuallyFresh /\ AllBootTasksFire

-----------------------------------------------------------------------------
(* A claim of the documentation that the code does not keep *)

\* README.md:170, "Kill previous instance on new trigger": the scheduler kills
\* a running task only when one of its occurrences is due.
KillOnlyOnTrigger ==
    [][\A t \in Task : pc = "scan" /\ pc' # "scan" /\ pool[t] = "on" /\ pool'[t] = "off"
            => cands'[t] <= passNow]_vars

=============================================================================
