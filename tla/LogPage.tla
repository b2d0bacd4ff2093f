-------------------------------- MODULE LogPage --------------------------------
(***************************************************************************)
(* The log list of the web page (app.js), its clean-up dialog and the       *)
(* confirmations.                                                          *)
(*                                                                         *)
(* The page asks `cronplus logs` for the entries and draws those that its   *)
(* filter lets through; a clean-up counts with `cronplus prune --dry-run`,  *)
(* asks the user, deletes with `cronplus prune` or `cronplus clear-logs`    *)
(* and loads the list again.  Each of these is a process of its own whose   *)
(* end is a callback, so that answers may come in any order and into a page *)
(* that has changed.                                                       *)
(*                                                                         *)
(* Entries are numbered as they are written, which also serves as the time. *)
(* The clean-up by status or user is that by task, and the filters by       *)
(* status, user, trigger and date are that by task.  The clean-up that      *)
(* keeps the newest entries, the pages of the list and the output of an     *)
(* entry, which is fetched into a box of its own, are left out.             *)
(***************************************************************************)
EXTENDS Integers, Sequences, FiniteSets, SequencesExt

CONSTANTS
    TaskIds,
    NoTask,       \* the empty value of a <select>
    Ops,          \* bound: operations under way that ask the user
    NoOp,
    PerTask,      \* LOG_FETCH_PER_TASK
    Days,         \* values of the clean-up by age
    DefaultDays,
    MaxEntries,   \* bound: entries ever written
    MaxLoads,     \* bound: processes that list entries at once
    MaxCounts,    \* bound: dry runs for the preview at once
    Clicks        \* bound: steps of the user, the tabs aside

ASSUME ConstantsAssumption ==
    /\ NoTask \notin TaskIds /\ NoOp \notin Ops
    /\ Ops \cap TaskIds = {} /\ {"view", "run", "refresh"} \cap (Ops \cup TaskIds) = {}
    /\ Days \subseteq Nat /\ DefaultDays \in Days
    /\ {PerTask, MaxEntries, MaxLoads, MaxCounts, Clicks} \subseteq Nat

VARIABLES
    store, written,     \* the entries in the files; how many there ever were
    logs, list,         \* the page's copy, and what it has drawn of it
    tab, logFilterTaskId,
    undrawn,            \* a run's end replaced the copy, and it was not drawn since
    refresh,            \* autoRefresh or btnRefresh: where it is
    loads,              \* the processes that list entries
    cleanup,            \* the dialog; `count` is what its number was counted for
    previewDue,         \* the timer of openCleanupModal
    counts,             \* the dry runs for the preview
    ops, confirmState,  \* deleteTask and execCleanup; the one that is asking
    clicks

storeVars == <<store, written>>
listVars == <<logs, list, tab, logFilterTaskId, undrawn>>
previewVars == <<previewDue, counts>>
opVars == <<ops, confirmState>>
vars == <<storeVars, listVars, refresh, loads, cleanup, previewVars, opVars, clicks>>

Entry == [task : TaskIds, no : 1..MaxEntries]
Idle == [at |-> "idle"]
Unknown == [mode |-> "unknown"]   \* an ellipsis or a question mark

\* cronplus logs --all --per-task n
Recent(entries) ==
    {e \in entries : Cardinality({f \in entries : f.task = e.task /\ f.no > e.no}) < PerTask}

\* renderLogs: what the filter lets through.
Drawn(entries, task) == {e \in entries : task = NoTask \/ e.task = task}

\* What the clean-up dialog selects, and the arguments made of it: the age is
\* turned into a time at once.
Selection(form) ==
    IF form.mode = "age" THEN [mode |-> "age", value |-> form.days]
    ELSE IF form.mode = "task" THEN [mode |-> "task", value |-> form.task]
    ELSE [mode |-> "all"]

Complete(selection) == selection.mode = "task" => selection.value # NoTask

buildPruneArgs(selection) ==
    IF selection.mode = "age" THEN [mode |-> "age", before |-> written + 1 - selection.value] ELSE selection

\* cronplus prune and cronplus clear-logs
Selected(args) ==
    IF args.mode = "age" THEN {e \in store : e.no < args.before}
    ELSE IF args.mode = "all" THEN store
    ELSE {e \in store : e.task = args.value}

Init ==
    /\ store = {} /\ written = 0
    /\ logs = {} /\ list = {} /\ undrawn = FALSE
    /\ tab = "tasks" /\ logFilterTaskId = NoTask
    /\ refresh = "idle" /\ loads = <<>>
    /\ cleanup = [open |-> FALSE, mode |-> "age", days |-> DefaultDays, task |-> NoTask, count |-> Unknown]
    /\ previewDue = FALSE /\ counts = <<>>
    /\ ops = [o \in Ops |-> Idle] /\ confirmState = NoOp
    /\ clicks = 0

Spawn(for) ==
    /\ Len(loads) < MaxLoads
    /\ loads' = Append(loads, [for |-> for, read |-> FALSE])

renderLogs == list' = Drawn(logs', logFilterTaskId') /\ undrawn' = FALSE

\* The overlay of a dialog covers what is below it.
Uncovered == confirmState = NoOp /\ ~cleanup.open
Click == confirmState = NoOp /\ clicks < Clicks /\ clicks' = clicks + 1
OnPage == Click /\ ~cleanup.open
OnCleanup == Click /\ cleanup.open

-----------------------------------------------------------------------------
(* Seeded faults: variants of the definitions below with a plausible mistake, *)
(* to show that the properties notice it.                                     *)

\* The selection is read from the dialog again after the confirmation.
DeletesAgain(o) ==
    /\ ops[o].at = "running"
    /\ store' = store \ Selected(buildPruneArgs(Selection(cleanup)))
    /\ ops' = [ops EXCEPT ![o].at = "returned", ![o].deleted = {buildPruneArgs(Selection(cleanup))}]
    /\ UNCHANGED <<written, listVars, refresh, loads, cleanup, previewVars, confirmState, clicks>>

\* An answer is shown whatever was selected since.
PreviewReturnsAlways(i) ==
    /\ i \in DOMAIN counts
    /\ cleanup' = [cleanup EXCEPT !.count = counts[i]]
    /\ counts' = RemoveAt(counts, i)
    /\ UNCHANGED <<storeVars, listVars, refresh, loads, previewDue, opVars, clicks>>

\* The timer refreshes although a refresh is under way.
AutoRefreshAgain ==
    /\ ~cleanup.open
    /\ refresh' = "auto" /\ Spawn("refresh")
    /\ UNCHANGED <<storeVars, listVars, cleanup, previewVars, opVars, clicks>>

-----------------------------------------------------------------------------
(* The list *)

\* A run ends.
WriteEntry(t) ==
    /\ written < MaxEntries
    /\ store' = store \cup {[task |-> t, no |-> written + 1]}
    /\ written' = written + 1
    /\ UNCHANGED <<listVars, refresh, loads, cleanup, previewVars, opVars, clicks>>

\* autoRefresh.  What else holds it back (another dialog, the user's moves, an
\* entry that is unfolded) may last for any time.
AutoRefresh ==
    /\ refresh = "idle" /\ ~cleanup.open
    /\ refresh' = "auto" /\ Spawn("refresh")
    /\ UNCHANGED <<storeVars, listVars, cleanup, previewVars, opVars, clicks>>

\* btnRefresh
ClickRefresh ==
    /\ OnPage /\ refresh = "idle"
    /\ refresh' = "manual" /\ Spawn("refresh")
    /\ UNCHANGED <<storeVars, listVars, cleanup, previewVars, opVars>>

\* The list is loaded, and the running tasks as well: what is on display is drawn.
RefreshEnds ==
    /\ refresh \in {"auto loaded", "manual loaded"}
    /\ refresh' = "idle" /\ UNCHANGED <<logs, tab, logFilterTaskId>>
    /\ IF tab = "logs" \/ refresh = "manual loaded" THEN renderLogs ELSE UNCHANGED <<list, undrawn>>
    /\ UNCHANGED <<storeVars, loads, cleanup, previewVars, opVars, clicks>>

\* A click on the tab.
SelectTab(name) ==
    /\ Uncovered /\ name # tab
    /\ tab' = name
    /\ IF name = "logs" THEN Spawn("view") ELSE UNCHANGED loads
    /\ UNCHANGED <<storeVars, logs, list, logFilterTaskId, undrawn, refresh, cleanup, previewVars, opVars, clicks>>

\* stopTask loads the list again.
LoadView ==
    /\ Spawn("view")
    /\ UNCHANGED <<storeVars, listVars, refresh, cleanup, previewVars, opVars, clicks>>

\* So does finishRun, which then draws the tasks.
LoadAfterRun ==
    /\ Spawn("run")
    /\ UNCHANGED <<storeVars, listVars, refresh, cleanup, previewVars, opVars, clicks>>

showTaskLogs(t) ==
    /\ OnPage /\ tab = "tasks"
    /\ tab' = "logs" /\ logFilterTaskId' = t /\ UNCHANGED logs
    /\ renderLogs /\ Spawn(t)
    /\ UNCHANGED <<storeVars, refresh, cleanup, previewVars, opVars>>

\* logFilterTask and btnClearFilters
SetFilter(t) ==
    /\ OnPage /\ tab = "logs" /\ t # logFilterTaskId
    /\ logFilterTaskId' = t /\ UNCHANGED <<logs, tab>>
    /\ renderLogs
    /\ UNCHANGED <<storeVars, refresh, loads, cleanup, previewVars, opVars>>

LoadReads(i) ==
    /\ i \in DOMAIN loads /\ ~loads[i].read
    /\ loads' = [loads EXCEPT ![i] =
                    [for |-> @.for, read |-> TRUE,
                     entries |-> IF @.for \in TaskIds THEN Drawn(store, @.for) ELSE Recent(store)]]
    /\ UNCHANGED <<storeVars, listVars, refresh, cleanup, previewVars, opVars, clicks>>

\* The callback.  When the command fails, loadLogs empties the copy and
\* loadTaskLogs keeps it; both go on as if it had not.  A refresh draws later,
\* the end of a run not at all.
LoadReturns(i) ==
    /\ i \in DOMAIN loads /\ loads[i].read
    /\ UNCHANGED <<storeVars, tab, logFilterTaskId, previewVars, confirmState, clicks>>
    /\ LET load == loads[i] IN
       /\ \/ logs' = IF load.for \in TaskIds
                     THEN {e \in logs : e.task # load.for} \cup load.entries ELSE load.entries
          \/ logs' = IF load.for \in TaskIds THEN logs ELSE {}
       /\ loads' = RemoveAt(loads, i)
       /\ refresh' = IF load.for # "refresh" THEN refresh
                     ELSE IF refresh = "auto" THEN "auto loaded" ELSE "manual loaded"
       /\ IF load.for \in {"refresh", "run"}
          THEN undrawn' = (undrawn \/ load.for = "run") /\ UNCHANGED list
          ELSE renderLogs
       /\ IF load.for \in Ops
          THEN ops' = [ops EXCEPT ![load.for] = Idle] /\ cleanup' = [cleanup EXCEPT !.open = FALSE]
          ELSE UNCHANGED <<ops, cleanup>>

-----------------------------------------------------------------------------
(* The clean-up dialog *)

\* previewCleanup: only "everything" and a selection that lacks its value are
\* answered at once.
previewCleanup(form) ==
    LET selection == Selection(form) IN
    IF selection.mode = "all" \/ ~Complete(selection)
    THEN cleanup' = [form EXCEPT !.count = selection] /\ UNCHANGED counts
    ELSE /\ cleanup' = [form EXCEPT !.count = Unknown]
         /\ Len(counts) < MaxCounts
         /\ counts' = Append(counts, selection)

openCleanupModal ==
    /\ OnPage /\ tab = "logs"
    /\ cleanup' = [cleanup EXCEPT !.open = TRUE, !.mode = "age", !.days = DefaultDays, !.task = NoTask]
    /\ previewDue' = TRUE
    /\ UNCHANGED <<storeVars, listVars, refresh, loads, counts, opVars>>

PreviewTimer ==
    /\ previewDue
    /\ previewDue' = FALSE
    /\ previewCleanup(cleanup)
    /\ UNCHANGED <<storeVars, listVars, refresh, loads, opVars, clicks>>

ChangeMode(mode) ==
    /\ OnCleanup /\ mode # cleanup.mode
    /\ previewCleanup([cleanup EXCEPT !.mode = mode])
    /\ UNCHANGED <<storeVars, listVars, refresh, loads, previewDue, opVars>>

ChangeDays(days) ==
    /\ OnCleanup /\ cleanup.mode = "age" /\ days # cleanup.days
    /\ previewCleanup([cleanup EXCEPT !.days = days])
    /\ UNCHANGED <<storeVars, listVars, refresh, loads, previewDue, opVars>>

ChangeTask(t) ==
    /\ OnCleanup /\ cleanup.mode = "task" /\ t # cleanup.task
    /\ previewCleanup([cleanup EXCEPT !.task = t])
    /\ UNCHANGED <<storeVars, listVars, refresh, loads, previewDue, opVars>>

closeCleanupModal ==
    /\ OnCleanup
    /\ cleanup' = [cleanup EXCEPT !.open = FALSE]
    /\ UNCHANGED <<storeVars, listVars, refresh, loads, previewVars, opVars>>

\* An answer for another mode is dropped; a failure shows a question mark.
PreviewReturns(i) ==
    /\ i \in DOMAIN counts
    /\ \/ cleanup.mode = counts[i].mode /\ cleanup' = [cleanup EXCEPT !.count = counts[i]]
       \/ cleanup.mode = counts[i].mode /\ cleanup' = [cleanup EXCEPT !.count = Unknown]
       \/ cleanup.mode # counts[i].mode /\ UNCHANGED cleanup
    /\ counts' = RemoveAt(counts, i)
    /\ UNCHANGED <<storeVars, listVars, refresh, loads, previewDue, opVars, clicks>>

-----------------------------------------------------------------------------
(* Operations that ask *)

\* An operation: what it is to delete, whether the user confirmed it, and what
\* it has deleted.
Op(what, args) == [at |-> "counting", what |-> what, args |-> args, sure |-> FALSE, deleted |-> {}]

\* confirmDialog: one that is open counts as cancelled.
confirmDialog(o, op) ==
    /\ confirmState' = o
    /\ ops' = [p \in Ops |-> IF p = o THEN [op EXCEPT !.at = "confirm"]
                             ELSE IF p = confirmState THEN Idle ELSE ops[p]]

\* deleteTask
DeleteTask(o, t) ==
    /\ OnPage /\ tab = "tasks" /\ ops[o] = Idle
    /\ confirmDialog(o, Op("delete", [mode |-> "task", value |-> t]))
    /\ UNCHANGED <<storeVars, listVars, refresh, loads, cleanup, previewVars>>

\* execCleanup
ExecCleanup(o) ==
    /\ OnCleanup /\ ops[o] = Idle /\ Complete(Selection(cleanup))
    /\ LET op == Op("cleanup", buildPruneArgs(Selection(cleanup))) IN
       IF op.args.mode = "all" THEN confirmDialog(o, op)
       ELSE ops' = [ops EXCEPT ![o] = op] /\ UNCHANGED confirmState
    /\ UNCHANGED <<storeVars, listVars, refresh, loads, cleanup, previewVars>>

\* The dry run has ended: nothing to delete.
CountsNothing(o) ==
    /\ ops[o].at = "counting" /\ Selected(ops[o].args) = {}
    /\ ops' = [ops EXCEPT ![o] = Idle]
    /\ UNCHANGED <<storeVars, listVars, refresh, loads, cleanup, previewVars, confirmState, clicks>>

\* It has counted some entries, or failed.
Counted(o) ==
    /\ ops[o].at = "counting"
    /\ confirmDialog(o, ops[o])
    /\ UNCHANGED <<storeVars, listVars, refresh, loads, cleanup, previewVars, clicks>>

ConfirmOk ==
    /\ confirmState # NoOp
    /\ ops' = [ops EXCEPT ![confirmState].at = "running", ![confirmState].sure = TRUE]
    /\ confirmState' = NoOp
    /\ UNCHANGED <<storeVars, listVars, refresh, loads, cleanup, previewVars, clicks>>

ConfirmCancel ==
    /\ confirmState # NoOp
    /\ ops' = [ops EXCEPT ![confirmState] = Idle]
    /\ confirmState' = NoOp
    /\ UNCHANGED <<storeVars, listVars, refresh, loads, cleanup, previewVars, clicks>>

Deletes(o) ==
    /\ ops[o].at = "running"
    /\ store' = store \ Selected(ops[o].args)
    /\ ops' = [ops EXCEPT ![o].at = "returned", ![o].deleted = {ops[o].args}]
    /\ UNCHANGED <<written, listVars, refresh, loads, cleanup, previewVars, confirmState, clicks>>

\* A message; the deletion of a task goes on.
DeleteFails(o) ==
    /\ ops[o].at = "running"
    /\ ops' = [ops EXCEPT ![o] = IF @.what = "delete" THEN [@ EXCEPT !.at = "returned"] ELSE Idle]
    /\ UNCHANGED <<storeVars, listVars, refresh, loads, cleanup, previewVars, confirmState, clicks>>

\* The history of a deleted task leaves the copy, and the filter for it goes.
TaskDeleted(o) ==
    /\ ops[o].at = "returned" /\ ops[o].what = "delete"
    /\ LET t == ops[o].args.value IN
       /\ logs' = {e \in logs : e.task # t}
       /\ logFilterTaskId' = IF logFilterTaskId = t THEN NoTask ELSE logFilterTaskId
       /\ renderLogs
    /\ ops' = [ops EXCEPT ![o] = Idle]
    /\ UNCHANGED <<storeVars, tab, refresh, loads, cleanup, previewVars, confirmState, clicks>>

\* After everything was deleted the copy is emptied, else it is loaded again.
CleanedAll(o) ==
    /\ ops[o].at = "returned" /\ ops[o].what = "cleanup" /\ ops[o].args.mode = "all"
    /\ logs' = {} /\ UNCHANGED logFilterTaskId /\ renderLogs
    /\ cleanup' = [cleanup EXCEPT !.open = FALSE]
    /\ ops' = [ops EXCEPT ![o] = Idle]
    /\ UNCHANGED <<storeVars, tab, refresh, loads, previewVars, confirmState, clicks>>

Pruned(o) ==
    /\ ops[o].at = "returned" /\ ops[o].what = "cleanup" /\ ops[o].args.mode # "all"
    /\ Spawn(o)
    /\ ops' = [ops EXCEPT ![o].at = "loading"]
    /\ UNCHANGED <<storeVars, listVars, refresh, cleanup, previewVars, confirmState, clicks>>

-----------------------------------------------------------------------------
User ==
    \/ ClickRefresh \/ \E name \in {"tasks", "logs"} : SelectTab(name)
    \/ \E t \in TaskIds : showTaskLogs(t) \/ \E o \in Ops : DeleteTask(o, t)
    \/ \E t \in TaskIds \cup {NoTask} : SetFilter(t) \/ ChangeTask(t)
    \/ openCleanupModal \/ closeCleanupModal
    \/ \E mode \in {"age", "task", "all"} : ChangeMode(mode)
    \/ \E days \in Days : ChangeDays(days)
    \/ \E o \in Ops : ExecCleanup(o)
    \/ ConfirmOk \/ ConfirmCancel

Next ==
    \/ User
    \/ \E t \in TaskIds : WriteEntry(t)
    \/ AutoRefresh \/ RefreshEnds \/ LoadView \/ LoadAfterRun \/ PreviewTimer
    \/ \E i \in 1..MaxLoads : LoadReads(i) \/ LoadReturns(i)
    \/ \E i \in 1..MaxCounts : PreviewReturns(i)
    \/ \E o \in Ops :
          \/ CountsNothing(o) \/ Counted(o)
          \/ Deletes(o) \/ DeleteFails(o)
          \/ TaskDeleted(o) \/ CleanedAll(o) \/ Pruned(o)

Spec == Init /\ [][Next]_vars

-----------------------------------------------------------------------------
(* Properties *)

LoadsFor(for) == {i \in DOMAIN loads : loads[i].for = for}

\* Every variable has its type; a refresh, or an operation, that waits for the
\* list has one process that lists it.
TypeOK ==
    /\ written \in 0..MaxEntries
    /\ store \cup logs \cup list \subseteq Entry
    /\ tab \in {"tasks", "logs"} /\ logFilterTaskId \in TaskIds \cup {NoTask}
    /\ refresh \in {"idle", "auto", "manual", "auto loaded", "manual loaded"}
    /\ cleanup.open \in BOOLEAN /\ cleanup.mode \in {"age", "task", "all"}
    /\ cleanup.days \in Days /\ cleanup.task \in TaskIds \cup {NoTask}
    /\ previewDue \in BOOLEAN /\ undrawn \in BOOLEAN
    /\ \A o \in Ops : ops[o].at \in {"idle", "counting", "confirm", "running", "returned", "loading"}
    /\ confirmState \in Ops \cup {NoOp}
    /\ Cardinality(LoadsFor("refresh")) = IF refresh \in {"auto", "manual"} THEN 1 ELSE 0
    /\ \A o \in Ops : Cardinality(LoadsFor(o)) = IF ops[o].at = "loading" THEN 1 ELSE 0

\* What waits for an answer of the user is what asks on the screen: none waits
\* behind another for ever (app.js:2085-2086, 2139-2150).
WaitingIsAsking == \A o \in Ops : ops[o].at = "confirm" <=> confirmState = o

\* Only what was selected when the user asked for the deletion, and then
\* confirmed, is deleted, whatever the dialog shows by then
\* (app.js:2307-2354, 1465-1501).
DeletedConfirmed ==
    \A o \in Ops : ops[o].at \in {"returned", "loading"} => ops[o].sure /\ ops[o].deleted \subseteq {ops[o].args}

\* Every deletion was confirmed on the screen, and for what it deletes.
AsksAndKeepsToIt == WaitingIsAsking /\ DeletedConfirmed

\* The number of the preview was not counted for another mode, once the timer of
\* the opening has fired (app.js:2278-2305).
PreviewOfMode ==
    cleanup.open /\ ~previewDue => cleanup.count.mode \in {"unknown", cleanup.mode}

\* On its tab the list is what the filter lets through of the page's copy, unless
\* it is about to be drawn or the end of a run has replaced the copy, which waits
\* for the next drawing (app.js:507-528, 885-1047, 1400, 1418-1436, 2383-2416).
ListIsDrawn ==
    tab = "logs" /\ LoadsFor("view") = {} /\ refresh \in {"idle", "auto", "manual"} /\ ~undrawn =>
        list = Drawn(logs, logFilterTaskId)

\* The log view and the clean-up dialog show what the page knows.
ScreenIsCurrent == PreviewOfMode /\ ListIsDrawn

-----------------------------------------------------------------------------
(* Claims of comments that the code does not keep *)

\* Once nothing is on its way, the entries of the page's copy are in the list that
\* is on display: app.js:1358, "we only refresh the list so the new entry shows up."
NewEntryShows ==
    tab = "logs" /\ loads = <<>> /\ refresh = "idle" => Drawn(logs, logFilterTaskId) \subseteq list

\* The number of the preview was counted for what the dialog selects:
\* app.js:2300, "Ignore a stale answer: the user may have switched mode while the
\* dry run was in flight."
PreviewIsCurrent ==
    cleanup.open /\ ~previewDue => cleanup.count \in {Unknown, Selection(cleanup)}

=============================================================================
