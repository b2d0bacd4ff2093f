# A verification project for cockpit-cronplus

cronplus is a cron replacement with a resolution of one second: a daemon (`cronplusd`) that
schedules and runs tasks, a CLI (`cronplus`) that runs tasks by hand, works on the log files and
talks to the daemon over a Unix socket, and a Cockpit web page that edits `tasks.conf` and calls
the CLI. This directory holds TLA+ models of its core logic, the TLC runs that check them, and
TLAPS proofs about them. Paths below are relative to `src/`; Go files are below `cronplus/`,
`app.js`, `cron.js`, `utils.js` and `time.js` are in `cockpit-cronplus/static/js/`.

## 1. Inventory

| Part | State it keeps | Operations | Talks to |
| --- | --- | --- | --- |
| Executor pool, `internal/executor/pool.go` | `running`, `taskRunCount`, one goroutine per run | `Dispatch`, `execute`, `Kill`, `KillAll`, `IsRunning`, `Running` | called by the scheduler, control connections and the signal goroutine; writes run numbers and log entries through the store |
| Command execution, `internal/executor/run.go` | one process group, a pipe, a timer, a reader goroutine | `RunCommand` | called by the pool and by `cronplus run` |
| Output buffers, `internal/executor/stream.go` | head, ring buffer and total of a run's output | `Write`, `String`, `Total` | `RunCommand` |
| Command preparation, `internal/executor/executor.go`, `output.go` | none | decoding, environment, run ids, durations | pool, CLI |
| Scheduler, `internal/scheduler/scheduler.go` | cached tasks, last-run times, `rebootFired` | loop, `loadTasks`, `fireRebootTask`, `Wakeup`, `Stop` | store, cron evaluation, pool |
| Cron evaluation, `internal/scheduler/cron.go` | none (a compiled schedule) | `Compile`, `Next`, `NextFromAnchor` | scheduler |
| Daemon state, `internal/store/state.go` | `state.json`, its copy in memory, `/run/cronplus` | `SetTaskLastRun`, `FlushState`, `RebootDetected` | scheduler, daemon |
| Task file, `internal/store/task.go`, `store.go` | `tasks.conf` | list, create, update, delete, toggle, run numbers; `atomicWrite` | daemon, CLI; the page writes the same file |
| Task logs, `internal/store/log.go` | `task_N.json` and its segments | append, rotate, list, clean up, prune, clear, migrate | pool, CLI |
| Settings, `internal/store/settings.go` | `settings.json` | read | all |
| Control socket, `internal/control/control.go` | a socket | `Serve`, `Do` | daemon, CLI |
| Daemon, `cmd/cronplusd/main.go` | lock file, flush timer, its own log | start, signals, shutdown, rotation | everything above |
| CLI, `cmd/cronplus/main.go` | none | start, stop, ps, run, reload, export, import, logs, prune, cleanup, settings | store, socket, systemd |
| Page: run dialog, `app.js` 1147-1401, 2044-2060 | the run and its process, a writer for its output, a ticker, the controls | run, stop, input, close; output and end of the process | `cronplus run`, one process per run |
| Page: task list, `app.js`, `utils.js` | a copy of `tasks.conf`, what is drawn of it, a dialog with an index, the raw editor | load, refresh, toggle, add, edit, delete, import, raw save | `cat`, `tee`, `cronplus stop`, `cronplus clear-logs` |
| Page: logs and clean-up, `app.js` | a copy of the log entries, filters, the clean-up dialog, one confirmation | load, filter, count, confirm, delete | `cronplus logs`, `prune`, `clear-logs` |
| Page: predictions, `cron.js`, `time.js` | none | a second cron search | the task list |
| Page: languages, theme, settings, `i18n.js`, `theme.js`, `app.js` | a choice in `settings.json` and `localStorage` | load, switch | files |

What is hard here: goroutines of the pool meet `Kill` in the middle of `execute`; a reload runs
beside the loop without a lock; the daemon, the CLI and the page are processes that share files
without locking them; the daemon may crash between firing a task and recording it; a command may
ignore signals, leave its process group or close its output; occurrences pass while a task runs
or the daemon is down; calendars wrap. On the page every command is a process whose answer is a
callback: it comes when the list was replaced, the dialog closed or another run started, and
answers overtake each other.

What makes each part correct:

- *Pool*: the slot counter is exact, a task has no more runs than `max_concurrent`, no run is out
  of reach of a stop, nothing is retried after a stop, and only admitted runs count for `max_runs`.
- *RunCommand*: it returns, leaves no process of the group behind, and reports a stopped run as stopped.
- *Scheduler*: it works from the current file, loses no occurrence, repeats none that it has
  recorded, and fires each `@reboot` task once per boot.
- *Cron evaluation*: the result is the first selected time after the given one.
- *Predictions*: what the page shows is what the daemon does.
- *Task logs*: an acknowledged entry stays until retention, prune, clear or the rotation of a full set
  of segments removes it; entries keep their order.
- *Run dialog*: it shows the output and the state of its own run; at most one run is in it, and a run
  it gave up was told to stop.
- *Task list*: a form lands on the task it was opened for (it may not, see `TaskPageEdit`), ids are unique, only a confirmed task's
  history is cleared, and in the end the page shows what the file holds.
- *Logs and clean-up*: what is deleted is what the user was asked about; what is on the screen is current.
- *Daemon* (not modelled): one instance; a shutdown leaves no run behind and records what was fired.

## 2. Modules

| Module | Models | Instance | Proofs |
| --- | --- | --- | --- |
| `Pool` | pool.go; `loadTasks` and `UpdateTaskRunSeq` as the pool sees them | `MCPool` | `PoolProofs` |
| `RunCommand` | run.go with the processes of one command | `MCRunCommand` | `RunCommandProofs` |
| `Scheduler` | scheduler.go, state.go; crash, restart, reboot, edits, clock | `MCScheduler` | `SchedulerProofs` |
| `CronNext` | cron.go on a calendar that is a parameter; which schedules validate.go lets through | `MCCronNext` | `CronProofs` |
| `CronPage` | cron.js on the same calendar, then the daemon (extends `CronNext`) | `MCCronPage` | `CronProofs` |
| `TaskLog` | log.go for one task, its processes, one system call per step | `MCTaskLog` | `TaskLogProofs` |
| `RunSlot` | what the run dialog promises: the abstract specification | - | `RunDialogProofs` |
| `RunDialog` | the run dialog with its processes, callbacks and timers; implements `RunSlot` | itself | `RunDialogProofs` |
| `TaskPage` | the task list beside the other writers of `tasks.conf` | `MCTaskPage` | `TaskPageProofs` |
| `LogPage` | the log list, the clean-up dialog, the confirmations | `MCLogPage` | `LogPageProofs` |

The interfaces between them: `Pool` takes from `RunCommand` its three outcomes (success, an exit
code to be retried, a final one) and that it returns after a cancelled context; `Scheduler` takes
from `Pool` that a dispatched run registers or is skipped and may end, and from `CronNext` that
`NextAfter` is the first occurrence after a time. `RunDialog` takes from `cmd/cronplus` that the
process sends pieces of output and ends, and from `RunCommand` that one that is told to stop ends unless its task has closed
its output; `TaskPage` takes from `task.go` that the daemon and the CLI read the file and rename a new one into its place; `LogPage` takes from `TaskLog` that
a listing reads what is there and that a deletion removes what matches.

Each module has a section *Seeded faults*: variants of its definitions with a plausible mistake
(a dropped guard, a missing reset, a swapped order). They take no part in `Next`; replacing the
definition by its variant makes one of the properties fail, which shows that the property depends
on that piece of code. `PROJECT.json` pairs them.

### Pool

A goroutine of `execute` is a member of `Run`, used once. Its steps are cut where it gives up
`Pool.mu`, calls the store or waits: `Gate` (155-164), `KillRunning`, `CancelRunning` and `Regate`
(150-164, the gate's own `Kill` in its two critical sections), `Number`, `Disable`, `Register`,
`Check`, `Launch`, then the end of the command, `Log`, `Backoff`, `Release`. A command ends in one of two ways, as in
run.go: `Abort` (114-133: a stop or the timeout kills the group and reaps it) while its output is open, or `OutputEnds`
(107-112) and then `Finish` (138-139), which waits for the process and looks at no stop. `Kill` (66-88) unregisters under the mutex and
cancels after it, so a caller holds a *victim* in between. `KillAll` takes a snapshot of the ids and
kills them one by one. `conf` is `tasks.conf`, `known` the scheduler's cached copy: a trigger carries
`known`, so run numbers come from a copy that may be old. `fields` are the fields `execute` only
reads, zero and negative values included.

Not modelled: `Running` (read-only) and the text of log entries. `Kill` with no run registered changes nothing and is not a step.

### RunCommand

`pc` is where the function stands; `reader` is the copying goroutine and `readDone` its channel of
one place. `live`, `group`, `holds` say which processes run, are in the group that is signalled and
have the pipe open. Processes fork, close their output, leave the group and exit as they like. SIGTERM
ends any subset of the group, SIGKILL all of it. `TeeFails` is the write error of a manual run's
standard output (`io.Copy` ends, 88-95).

### Scheduler

`loadTasks` is split at the system calls and field accesses a reload can fall between: `Stat` or `StatFails`
(a file that is missing or cannot be looked at), `Read`, `ReadNothing` (it is missing still) or `ReadFails`, `Keep` (the copy), `Stamp`
(its time), `Reuse` (the copy is taken again; `Begin`). Then come `Clock`, `Scan` (the candidates), `Boot`, `Fire` (one candidate),
`EndPass` and `Sleep`. `Wakeup`, `FlushState`, `BootDelayOver`, `PoolStep`, `Edit`, `Tick`, `Crash` and
`BootMachine` run beside them. `Scan` and `Wakeup` are one step each: what `Scan` reads of the pool
changes only towards an entry of `cands` that `Fire` looks at again, and of `Wakeup`'s
assignments the one that counts for the loop is `cachedTasks = nil`, after which it reads anew. Each write to `tasks.conf` gets a new
modification time. That the file disappears between `Stat` and `Read` is left out.
`hist` is history for the properties and never read by an action.

### CronNext

`current` walks as in `nextRunTime`, one action per `continue`. A field is `*` or the set of values
`Expand` computes from its parts; `ValidField` says which fields pass `ValidateSchedule`. The parts are a set: of a list
with a range `stepInterval` takes the step of the last part, which is a choice here. `Interval` and `Candidate` are the anchor's arithmetic. The calendar
is a parameter: MC uses two seconds to the minute, two minutes to the hour, three hours to the day,
three days to the week, months of two and one days with a leap day every fourth year. All the
wraps, both day rules and the lookahead happen in it within a few days. `Again` is a caller that
searches from the time it was given. `Wall` is the clock of a zone with one change; `TimesOf` is
`time.Date`, which for a time the clock shows twice or never picks one of two (its documentation
does not say which).

### CronPage

The page's own reading of a field (`matchField`, `parseFieldValues`, which differ for a `*` in a list; `NoValues`, a field without
values, which ends the search only where the search asks for the next value: not for a day or a weekday), its search
(`nextRunTimeAfter`, one step per `continue`, with its own lookahead and limit) and its anchored predictions
(`getNextRunTimesFromBase`: multiples of the interval while they match, else the plain search), for `Count` runs
from a moment on. Then the daemon of `CronNext` starts at that moment and finds one run after the other; the properties compare the two.

### TaskLog

The files are a function from 0 (live) and 1.. (segments) to lines. Append reads the size, rotates
by removing the oldest and renaming the others one at a time, opens, writes; `fd` follows a renamed
or removed file. Clean up, prune and clear read all files and then remove and rewrite them. A process
may die between any two calls and a write may be torn. `Junk` is a line two entries share after that. `Second` is the
time of an entry in seconds, which several share: retention by age (`Young`) goes by it and may drop every entry, and a prune that keeps
n sorts by it and, the sort being stable, keeps the older ones of a second (`Pruned`).

Two histories judge the files. `expected` is what was acknowledged and not taken by retention, prune, clear or a rotation. So that what a
rotation takes is not defined away, `lost` collects what it dropped although the set of segments was not full.

### RunDialog and RunSlot

A run is a number, and so is its object `activeRun`; `process` is what became of its `cronplus run`. `Emit`, `OutputEnds` (its task
has closed its output, so that `cmdRun` sits in `cmd.Wait`) and `Exit` are the process, `Deliver` and `Settle` the callbacks (`stream`, `then`, `catch`), which come at any time later; `Flush` and the ticker are timers.
`finishRun` is one definition with the guard `Superseded` of the code. Each run writes through a writer of its own, and
`attached` is the writer whose node is in the document. The text is a sequence of pieces that `Trim` shortens to `OUTPUT_MAX_CHARS`.

`RunSlot` is the promise in four variables: a slot that is closed, ready or running, the run in it, the live runs and
those told to stop. `RunDialog!Slot` is the refinement mapping; `ImplementsSlot` says that every behaviour of the dialog is one of `RunSlot`.

### TaskPage

`tasks` is the page's copy, `rows` what is drawn, whose buttons carry indexes. A task has a `uid`, which the program
does not have, to tell a new task from an earlier one with its id; one written by hand may have no id, 0. Every wait is a place
between two actions: a refresh is `AutoRefresh` or `ClickRefresh`, `RefreshRead` or `RefreshFails`, `RefreshTasks`, `RefreshEnds`;
`deleteTask` is `DeleteTask`, `DeleteConfirmed`, `StopReturns`, the end of its write, `Cleared`; the raw editor is `EditorRead`,
`EditorShown`, `SaveRaw`, the end of its write, `RawRead`, `RawTasks`. `busy` stands for the guards of `autoRefresh` that are not a dialog of
this module: a user who moves or has an input in focus, an unfolded log entry, another dialog; to become so is a step of the user, to rest again is free (`Stir`).
What the user makes of a text in the raw editor is as it was, its first task cut out, doubled or without its id (`Edits`); the editor does not look at ids, and
`doubled` remembers that an id was written twice.

A save is a process: `TeeOpens` empties the file (`file` is "empty"), `TeeWrites` fills it; two that are open at
once may mix ("torn" is not JSON), and one whose file was renamed away writes into nothing. The others are `WriterReads` and
`WriterRenames`: the daemon's `CountRun`, the CLI's `CreateTasks` (an import, which takes an empty file for no tasks), and an
administrator who takes a task out by hand. A second page in another browser is not modelled; what it does to this one a hand edit does as well.

### LogPage

Entries are numbered in the order they are written. `loads` are the `cronplus logs` processes, `counts` the dry runs, `ops` the
deletions under way, each with its arguments; they answer in any order. `confirmDialog` cancels the question that is on the
screen, as in the code. `cleanup` is the dialog: what it selects and what its number was counted for. `Drawn` is the filter.
A load knows what it is for: a view and an operation draw the list when it comes, a refresh later, and the end of a run
(`LoadAfterRun`) never, which `undrawn` remembers until the next drawing. Entries, listing and pruning are those of
`writeRunLog`, `ListLogsPerTask` and `Prune`, here on a set of entries.

## 3. Runs

| Run | States | What it shows |
| --- | --- | --- |
| `pool` | 3.5 million | three goroutines of a task and a killer: slots, stops, run numbers, retries |
| `runcmd` | 57 thousand | a leader and two children against the timeout, a stop and a failing tee |
| `scheduler` | 833 thousand | an edit, a reload and either a crash or a missing `tasks.conf` in any place, with a task due every second or with two `@reboot` tasks |
| `cron` | 635 thousand | 1728 schedules, without an anchor or with one of two: the page predicts, then the daemon is followed through three years |
| `tasklog` | 288 thousand | daemon and CLI on the files of one task |
| `dialog` | 270 thousand | two runs, stopped, closed over and ended in any order; implements `RunSlot` |
| `page` | 917 thousand | two clicks of a user, refreshes, saves, a deletion, an import and the raw editor against one write of the daemon, the CLI or a hand; the page ends up showing the file |
| `logpage` | 1.7 million | two deletions, lists and dry runs that answer in any order |

and those that show the code to break a statement of its comments or documents; each is a finding in `PROJECT.json`:

| Run | Statement | What happens |
| --- | --- | --- |
| `runcmd_eof` | `Kill` terminates the process group | a command that closes its output is waited for without timeout and without looking at a stop |
| `cron_anchor` | "at `11:00`, `14:00`, `17:00`, etc." and "the candidate is checked against the other fields" | the candidate is held against the step field as well, and the search decides |
| `scheduler_kill_previous` | "Kill previous instance on new trigger" | the scan kills the running instance in the next pass, due or not |
| `page_delete` | "Resolve the task again by id rather than trusting the index captured before the await" | the index is captured before the wait for `cronplus stop`; a list that is replaced meanwhile loses another task |

Configurations to run by hand (`tlc -config C.cfg M`). The first one passes: `PoolLive` of `MCPool` (45 thousand states) checks
`KilledRunEnds`, that a killed run ends and frees its slot although its process would run for ever, unless its command has closed its
output. The others are violated:

| Configuration, module | Property | What happens |
| --- | --- | --- |
| `CronNextLeap`, `MCCronNext` | `NeverMeansNever` | the search looks two years ahead; a task for 29 February finds no next run |
| `CronNextDst`, `MCCronNext` | `ResultIsLater` | in the hour the clock shows twice the result may lie an hour back |
| `CronPageLeap`, `MCCronPage` | `PredictedNotLost` | the page looks four years ahead and shows a run the daemon gave up on (cron.js:158, "Equivalent to Go backend's NextRunTime function") |
| `CronPageStar`, `MCCronPage` | `PredictedNotLost` | a day that is a list of `*` beside a restricted weekday: the page goes by the weekday, the daemon never runs it |
| `CronPageAnchor`, `MCCronPage` | `AnchoredCome` | an anchored prediction is not what the daemon does (README.md:149), see section 5 |
| `TaskLogGap`, `MCTaskLog` | `RotationKeepsHistory` | after a crash between two renames the next rotation drops the highest segment although a name below it is free (README.md:223, "rotation bounds the size of a single file without losing history") |
| `TaskLogTwice`, `MCTaskLog` | `RotationKeepsHistory` | two processes find the file full and both rotate: the second drops a segment of a set that is not full |
| `TaskLogRace`, `MCTaskLog` | `OnlySelectedDeleted` | an entry the daemon appends between the read and the rewrite of a prune is deleted (prune_test.go:15, "Pruning must delete exactly the selected entries") |
| `TaskLogPrune`, `MCTaskLog` | `KeepsNewest` | with N matches or fewer a prune that keeps N deletes all of them (log.go:628, "the newest N matching entries of each task survive") |
| `RunDialogHeader`, `RunDialog` | `HeaderIsOwn` | the end of an abandoned run writes the header of the dialog that followed it (app.js:1354) |
| `TaskPageEdit`, `MCTaskPage` | `EditLands` | a refresh under way when the dialog opens replaces the list behind it, and the save overwrites another task (app.js:2772, "Track user interaction to suppress auto-refresh") |
| `TaskPageCount`, `MCTaskPage` | `PartialUpdate` | the daemon's write of a run number undoes another writer's change (task.go:126) |
| `LogPageRun`, `MCLogPage` | `NewEntryShows` | the load at the end of a run is not drawn on the log tab (app.js:1358, "we only refresh the list so the new entry shows up") |
| `LogPagePreview`, `MCLogPage` | `PreviewIsCurrent` | a dry run of the same mode but another task or age fills in the number (app.js:2300) |

Several properties are conjunctions of named parts that a run checks together: `StopReaches` of `Pool` (every way a
run can be stopped), `LoopKeepsUp` of `Scheduler`, `ResultIsRight` of `CronNext`, `PredictionsRight` of `CronPage`,
`ShowsOwnRun` and `ControlsOwnRun` of `RunDialog`, `AsksAndKeepsToIt` and `ScreenIsCurrent` of `LogPage`. The parts have
comments of their own.

**Bounds.** Three goroutines are the fewest in which a run is replaced while the one before it winds
down and a third passes the gate; one killer is enough to interleave with the kills of `execute`
itself. Two children are enough for one to leave the group and one to fork late. Three seconds,
one edit, one reload and one crash put each of them into each gap of a pass; the properties relate
one task's occurrences, so one cron task is enough, and two `@reboot` tasks because the flag is
shared. Six entries with two lines to a file and two segments overflow the segments; two
entries share a second, so that age and order of time fall apart. A crash and a look that finds no `tasks.conf` share
one bound (`MaxFaults`): each meets the edit and the reload, but not the other. In `cron`
an interval of three years crosses each boundary including the leap day, and five predictions wrap the day.
In `dialog` two runs are enough for one to end in the other's dialog, three pieces of output overflow a text of two. In `page`
two clicks of the user (a deletion and an edit, an edit and a save, an import, a raw save), two saves at once, four tasks ever and one
write of another process meet at each wait; one deletion and one raw save wait at once. In `logpage` two operations, two lists, one dry run,
one entry and three clicks are enough for an answer to find another dialog, another filter or another question.
`Until` (Scheduler) keeps behaviours with only `@reboot` tasks to the first second: nothing in them depends on the clock.
`Untainted` (MCTaskLog) stops a behaviour once two processes have rewritten or rotated the
files at the same time, or one died within a rewrite: no promise of the log survives that, as
`TaskLogRace` and `TaskLogTwice` show, which have no such constraint. Symmetry is used in `pool` and `logpage` only, whose properties are invariants
or single steps and never leads-to formulas.

**Deadlock** is checked in `pool`, `runcmd` and `scheduler` where the configuration does not turn it
off. It is off in `tasklog`, whose operations are used up with the entries, in `cron`, where a
search that found nothing has no successor, and on the page (`dialog`, `page`, `logpage`), where a user may stop clicking.

**Fairness.**

- *Pool*: a goroutine that can move does (Go's scheduler). A process may run for ever; only while its output is open and it
  is cancelled is it assumed to leave `RunCommand`'s select, by being killed or by closing its output (`Abort` or `OutputEnds`). After that nothing makes it
  end, since `cmd.Wait` looks at no stop (`runcmd_eof`): `KilledRunEnds` allows a run to wait there for ever.
- *RunCommand*: weak fairness of its own steps and of the reader. None for the processes.
- *Scheduler*: the loop, the clock and the delayed goroutines run; systemd restarts a crashed daemon
  (`Restart=on-failure` in cronplus.service); reading `tasks.conf` succeeds if tried time and again
  (strong fairness, as an editor may keep it unreadable for a while).
- *RunDialog*: callbacks of the page come; a process that was told to stop ends (`cronplus run` handles SIGTERM,
  stops the command and exits) or has its task close its output, after which `cmdRun` waits as above and need not end: `StopEnds` allows the dialog
  to stay "stopping" over such a run. Nothing makes another process end.
- *TaskPage*: timers fire, callbacks come, the processes it starts end, and a refresh succeeds if tried time
  and again (strong fairness of `RefreshRead`, and of `RawRead` after a raw save). Of the other writers the daemon and the CLI
  finish what they began; a hand edit may take for ever. The timer's refresh is fair only where its guards let it pass: the user owes nothing, so
  `EventuallyFresh` speaks of one who stays on the list with no form open and in the end does nothing else that keeps the page
  from refreshing (`busy`). A user who leaves the search box in focus or a log entry unfolded, even on the other tab, has a page that never refreshes.
- `CronNext`, `CronPage`, `TaskLog` and `LogPage` state no liveness.

## 4. Proofs

`PoolProofs` proves, for every set of tasks, every finite set of goroutines, every set of killers and
every value of the fields:

- `TypeCorrect`, and `SlotsAreExact` and `ConcurrencyIsBounded` from `SlotInv`: the counter is the
  number of goroutines between gate and release and at most the limit. The limit has to be part of the
  invariant because the gate compares the counter and not the set.
- `RegisteredRunsAreLive`, `NoRunIsUntracked` and `KillAllIsComplete`, together `StopReachesRuns`. `NoUntrackedRun` is not inductive:
  that a registration overwrites nobody's entry depends on the slots (with one slot the only
  other owner is on its way out), and that a `Kill` in progress reaches its victim depends on who holds
  it. The invariant therefore adds `HandsFree` (where a goroutine can hold a victim) to
  `RegisteredIsLive` and `NoUntrackedRun`, on top of `SlotInv`. `DoomInv` adds what `KillAll` still has to do.
- `RetriesAreDisciplined` from `AttemptInv`, which says at each place of a run what its attempts and the result of the last one allow;
  and `NothingStartsAfterStop`.
- `RunsAreAccounted` from `CountInv`: a goroutine counts on from the number of a copy that may be stale, which was reached by runs
  admitted before its own, so the number it writes never exceeds the number of admitted runs.

`RunCommandProofs` proves for every set of children `CommandTypeCorrect`, `NothingIsLeft` and `StopsAreFinal`.
`RunInv` adds to the two properties that `stop` is set from the moment the signals are sent
(`StopInv`) and that the group is empty from SIGKILL on and stays so, because only a live member
forks into it (`GroupInv`).

`SchedulerProofs` proves, for every set of tasks and schedules and any number of edits, reloads and crashes:

- `SchedulerTypeCorrect`, and `NextIsFirst`: `NextAfter` is the first occurrence after a time (by the well-foundedness of `<`).
- `PassesAreFresh` from `FreshInv`: what the pass will work from is fixed between `Stat` and `Read`, so the invariant
  speaks of `stat` from the moment it is taken, of the copy before it is stored (`Keep`) and before its time is (`Stamp`), and of the cache
  (`CacheNotAhead`), from which `Reuse` starts. It says nothing of a pass whose look at the file failed.
- `BootsOnce` from `BootInv`: the marker exists while a daemon runs, and before the flag is set nothing waits and nothing has fired.
- `NothingRefires` from `MarkInv`: what is final lies at or before the last run, or before the second of the pass while
  there is none, and so before every candidate. Its step is `FinalStays`.
- `NothingIsLost` from `ChainInv`: no occurrence lies between the last run and the candidate, and what memory or
  `state.json` records as the last run was fired, so a chain that a crash moves back to the file starts with a fired occurrence.

`RunDialogProofs` proves for any number of runs, pieces and echoes:

- `DialogTypeCorrect` and `ControlsAreOwn`. `DialogInv` adds that a run in `runningProc` is also the active one, so that the late end
  of another is superseded, and that the ticker is its own.
- `DialogIsSlot`, the refinement: the initial state is one of `RunSlot` and each step maps to a step or a stutter; and
  `SlotHolds`, the promise of `RunSlot` carried over to the dialog: whatever runs untold is the run in the slot.
- `OutputIsTheRuns` and `StoppedIsNoSuccess` from `OutputInv`, which adds what each process still has to deliver, and that a result in
  the header is that of a run that is over. `OwnTrimmed` says what `Trim` leaves of a run's text.

`TaskPageProofs` proves for any number of tasks, deletions, writes and clicks:

- `TaskPageTypeCorrect` and `ClearingIsConfirmed`. The end of a write moves the operation it was made for; `WaitInv`
  says that this one still waits and for no other write, `DeleteInv` follows the id of a deletion from the click on, `RawsInv` what the raw
  editor's loads and saves hold.
- `IdsStayUnique` from `ListInv`, which follows every copy of the list, on the page, in the raw editor, in a process or in a file: each may replace any
  other at any time, so all have distinct ids (0 aside) as long as the user has not doubled one, which `FlagsGrow` says is never forgotten.

`LogPageProofs` proves for every set of tasks and operations:

- `LogPageTypeCorrect`, with exactly one process for whatever waits for a list (`LoadInv`): its end ends what waits for it.
- `DeletionsAreConfirmed`. `AskInv` follows an operation from the arguments it takes before it asks to what it deletes.
- `ScreenKeepsUp` from `DrawnInv`: the processes that list for the view tell whether it is still to be drawn, and `undrawn` whether the
  end of a run has replaced the copy without drawing it.

`CronProofs` proves for every calendar (any units, months, leap years, and any bounds that leave room for the searches), every schedule
that `ValidateSchedule` lets through, every anchor and every start, as long as the clock is not changed (`SteadyClock`: one offset):

- `SearchTypes`, `SearchSkipsNothing`, `SearchResultIsRight` and `SearchAnchorDecides` from `CInv`. The search is about times and its skips
  about fields, so the proof starts with the calendar: day numbers keep the order of the dates (`DayNumberOrder`, from the
  cardinalities of the sets of earlier dates), hence a time of a day shows its date (`ClockAt`) and the first of a later month lies behind
  it (`LaterMonth`). A *jump* goes forward, over times that the schedule does not pick: `MonthJump`, `DayJump`, and `LaterJump` and
  `WrapJump` for the three smaller fields, one proof for all of them in the radix of the field. That the limit on iterations
  is out of reach needs a measure: each jump lowers the `Rank` of the time (0 to 5) or goes to a later day, so `SearchInv` bounds
  the iterations by six to a day since the start, and `TwoYearsIs` the days by those of four calendar years.
- `PredictionsAreTheRuns`. The page's fields and tests come to the daemon's (`PageReads`, `PageMatches`), so its skips are the same jumps
  as long as the fields it skips by have values (`Fed`); a day field without any is no obstacle to the page, and such a schedule (`HalfDead`) is the exception where
  the daemon finds nothing. Otherwise what the page shows then lies beyond the daemon's two years (`PredictionsWait`).
  `PInv` says of which times the runs so far are all: of the selected ones (`SelectedAreRuns`), or of those of the grid as long as there was no
  search (`RunsAreGrid`); `FoundInv` adds that a daemon without an anchor finds the next selected time and with one the candidate if it
  matches. `PageImplementsSearch` carries the theorems about the daemon over to `PageSpec`.

With a clock change these do not hold: `CronNextDst` violates `ResultIsLater`.

`TaskLogProofs` proves for any number of processes, entries, segments, crashes and torn writes `TypeCorrect`, `LogStaysIntact`,
`ListingsAreInOrder` and `LiveFileWithinBudget`. (`LogIntact` says of rotations that they drop nothing but the oldest segment of a full set
*before the first crash*: `TaskLogGap` and `TaskLogTwice` are what happens otherwise.) `Types` holds always. `Safe` holds until the behaviour is tainted (two processes have
rewritten or rotated the files at the same time, or one died within a rewrite), which is also the condition in the properties. Its
parts: the files are in order from the oldest segment to the live file (`FilesOrdered`); what a process has read is in order and older
than what it has still to read (`InOrder`), and complete if it holds the files alone (`Complete`); what it is about to write again
is the history (`Taken`); a rotation moves each file to a free name (`Hole`); the room in the live file suffices for all who looked
(`Budget`). The step from there to `LogIntact` is `OneRising`: two sequences in order with the same entries are the same one, so the
content of the files is the history. `GapsInv` is the part about `lost`: before a crash the segments are numbered without a gap, but for the name
a rotation has just freed, so one that removes a segment finds all names below it taken. The content is a recursive function over the files; `Counting` and `Iterate` (sets of numbers
closed under the successor, from the well-foundedness of `<`) are what the proofs use in place of an induction theorem.

The assumptions are those named in the modules: `RunAssumption` and `FieldAssumption` (Pool), `ProcessAssumption`
(RunCommand), `ScheduleAssumption` (Scheduler: schedules are sets of seconds, those of `@reboot` tasks empty),
`LogAssumption` (TaskLog: the limits are numbers, a file has room for an entry, every entry has a time), `BoundsAssumption` (RunDialog, TaskPage),
`DeletesAssumption` and `InitialAssumption` (TaskPage: the first list has distinct ids), `ConstantsAssumption` (LogPage: the names
of those that wait are distinct), and for the calendar `CalendarAssumption`, `ScheduleAssumption` (validated schedules), `HorizonAssumption` and
`PageHorizonAssumption` (the calendar goes on for some years after the last start; the real one has no end), `IterationAssumption` (six iterations a
day for four years and a day are below the limit: about 9 thousand against 527 thousand in the code) and `PageAssumption`.

Only model-checked: the leads-to properties `KilledRunEnds`, `NothingHangs`, `LoopKeepsUp`, `StopEnds` and `EventuallyFresh` (liveness and
ENABLED are out of the prover's reach). Every other property of a passing run is a theorem.

## 5. Observations

Behaviour met while modelling that no property claims or denies, unless a configuration of section 3 is named.

Daemon and pool:

- *Ceiling on running tasks* (README.md:267): `Dispatch` compares the number of registered runs and starts
  a goroutine that registers later, so tasks due in the same second all pass.
- `max_concurrent` above 1 without `kill_previous` never overlaps (README.md:169): the scheduler skips a task that is running.
- With `kill_previous` and one slot the trigger that killed is lost when the old run has not returned its
  slot yet: `Kill` frees the registration at once and the slot only when the process is gone.
- With two slots `Kill` and `KillAll` reach the last registered run only.
- SIGKILL follows SIGTERM after half a second; README.md:71 and 73 say five.
- A command of another user runs under `su`, which may start a session of its own: the group that is killed then does not hold it (run.go:34).
- A `tasks.conf` that is missing when the daemon looks, back when it reads and missing from then on goes on to be run: 0 is then the time
  that was stored (scheduler.go:326).
- An `@reboot` task added hours after the boot fires at once when no other existed (scheduler.go:214).
  All of them are lost for this boot when the daemon dies between `RebootDetected` and their firing or
  during their `reboot_delay`.
- `task_last_run` is kept by id: a task created with the id of a deleted one starts from that one's last run (state.go:59).
- A shutdown cancels the runs and exits; their goroutines may not have signalled the process groups yet
  and their log entries are lost (cmd/cronplusd/main.go:129-143).
- A manual run asks the daemon whether the task runs and starts afterwards: the two can still overlap
  (cmd/cronplus/main.go:340-350).

Schedules:

- The clock change (`CronNextDst`) can also make a search spin in the hour the clock skips until the limit on iterations ends it,
  and a daily task of that hour then has no next run until a reload forgets its last one.
- `*` as one part of a list passes validation and stands for nothing: `*,*` never runs. On the page `matchField` lets it match everything,
  so `PredictionsRight` leaves such schedules out where there is an anchor (`NoBareStar`).
- A schedule with such a field never runs, also when it is one of the two day fields and the other one selects days, where
  crontab would go by the other (`HalfDead`, cron.go:79), and so does the page (`CronPageStar`).
- The page's anchored predictions differ from the daemon's (`CronPageAnchor`): it falls back to the plain search at the first multiple that
  does not match, combines the two day fields with OR where its grid uses AND, takes another stepped field for the interval when there
  are several and only knows `*/N`; when the fallback finds nothing, `getNextRunTimesFromBase` throws. The task list's own next
  run (app.js:782) leaves the anchor out altogether.
- The page looks 4 x 365 days ahead, the daemon two years (`CronPageLeap`); the page uses the browser's time zone, the daemon the server's.
- `*/0` typed into the form makes `parseFieldValues` loop.

Logs:

- A crash within `writeTaskLogLocked` loses the history of a task, also while an old array is migrated; an
  array that cannot be parsed stops all logging of its task (log.go:421).
- `created_at` is local time and parsed as UTC when entries are dropped by age (log.go:521).

Page:

- A read of `tasks.conf` while `tee` has emptied it counts as an empty list, and the next save of the page writes that over the file.
  Two open `tee`s mix, and a rename by the daemon makes an open one write into nothing.
- A save of the page writes its whole copy and so undoes run numbers, an automatic disable and CLI changes since its last load.
- An import of the CLI that falls into the moment in which the page's `tee` has emptied the file finds no tasks and leaves the imported ones
  alone (store.go:107).
- The raw editor saves any JSON: tasks that share an id are told apart by nothing, and `deleteTask`, `stop` and the daemon's count take the first.
- A deletion of a task without an id uses the index of the click (app.js:1470-1473).
- After a refresh under another tab the rows drawn are those of the earlier copy, with its indexes.
- `cronplus stop` returns before the log entry of the stopped run is written: the `clear-logs` that follows a deletion may miss it.
- A list of logs that was asked for before a deletion and answers after it brings the deleted entries back on the screen until the next load.
- The daemon log's "Next:" entries without repetitions keep the oldest, where app.js:373 says the latest.
- `i18n.load` stores the detected language as if it had been chosen (README.md:93), and with two loads in flight keeps
  one language's texts under the other's name. `Theme.init` runs after `loadSettings` and undoes the theme it applied (app.js:152); the theme
  button and the settings dialog save `settings.json` without regard to each other.

## 6. Not modelled, and what is left

- *Settings, languages, theme*: one record with defaults, and presentation. The values that matter (slots, lines per file, segments) are constants.
- *Output buffers, command preparation, the syntax part of validation*: sequential code on strings without state that is shared.
- *Control socket, daemon start and shutdown*: `ps`, `stop` and `reload` are operations of `Pool` and `Scheduler`; the lock, the order of the
  shutdown and the replacement of a stale socket are not modelled.
- *Page*: drawing, search and paging; the export; the clean-up by count; the output of one log entry; a write of the page that fails; wording.
- *Task file*: `UpdateTask`, `ToggleTaskEnabled` and the import of the CLI, whose reads and renames are those of the writers of `TaskPage`.

Next in the plan: the search across a clock change (what still holds of it, and for which schedules);
`Daemon` (lock, socket, shutdown against runs in progress, manual runs beside scheduled ones); `Output` (the truncating
writer against "the first and the last n bytes"); `PoolSpec`, an abstract pool (a task is off, starting or
running) that `Pool` implements and `Scheduler` uses.
