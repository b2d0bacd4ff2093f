------------------------------- MODULE TaskPage -------------------------------
(***************************************************************************)
(* The task list of the web page (app.js, utils.js) beside the other        *)
(* writers of tasks.conf.                                                   *)
(*                                                                         *)
(* The page holds a copy of the list (`tasks`) and what it has drawn of it  *)
(* (`rows`, whose buttons carry indexes into the copy).  It reads the file  *)
(* with cat, and an unreadable one as an empty list; it writes the whole    *)
(* copy with tee, which first empties the file.  Each is a process of its   *)
(* own whose end is a callback, so the copy may be replaced between any two *)
(* steps of an operation.  The daemon, the command line and an              *)
(* administrator read the file and rename a new one into its place, so that *)
(* a tee that had the old one open writes into nothing.                     *)
(*                                                                         *)
(* The search and the pages of the list, which only select what is drawn,   *)
(* are left out, and so is the reload that a save asks of the daemon.       *)
(***************************************************************************)
EXTENDS Integers, Sequences, FiniteSets, SequencesExt

CONSTANTS
    Deletes,        \* bound: deletions under way at once
    Raws,           \* bound: loads and saves of the raw editor under way at once
    MaxSaves,       \* bound: writes of the page under way at once
    InitialTasks,   \* the list at the start
    MaxUid,         \* bound: tasks ever made
    Clicks,         \* bound: steps of the user
    Writes          \* bound: changes of the file by the other writers

Writers == {"daemon", "cli", "admin"}

ASSUME BoundsAssumption ==
    {MaxSaves, MaxUid, Clicks, Writes} \subseteq Nat

\* The first tasks: their ids tell them apart.
ASSUME InitialAssumption ==
    /\ InitialTasks \in Seq([id : 1..MaxUid, uid : 1..MaxUid, on : BOOLEAN, seq : Nat])
    /\ \A i, j \in DOMAIN InitialTasks :
          /\ InitialTasks[i].uid = InitialTasks[i].id
          /\ InitialTasks[i].id = InitialTasks[j].id => i = j

\* A write is for a deletion, for the raw editor or for neither.
ASSUME DeletesAssumption == Deletes \cap Raws = {} /\ "page" \notin Deletes \cup Raws

VARIABLES
    conf, file,      \* tasks.conf, unless it is "empty" or "torn" (not JSON)
    tasks, rows,
    refreshing, refresh, \* autoRefresh or btnRefresh: where it is, what it read
    tab, busy,       \* on display; other reasons not to refresh
    form,            \* the dialog of a task: its index, what it was opened with
    deletes,         \* of each: where it is, what it holds
    saves,           \* the processes that write for the page
    editor, raws,    \* the text of the raw editor; its loads and saves
    writer,          \* the others: what each has read
    lastUid, clicks, writes,
    confirmed, cleared, \* ids confirmed for deletion; of the histories cleared
    doubled          \* the user wrote an id twice in the raw editor

fileVars == <<conf, file>>
pageVars == <<tasks, rows>>
refreshVars == <<refreshing, refresh>>
deskVars == <<tab, busy>>
rawVars == <<editor, raws>>
bounds == <<lastUid, clicks, writes>>
history == <<confirmed, cleared, doubled>>
vars == <<fileVars, pageVars, refreshVars, deskVars, form, deletes, saves, rawVars, writer, bounds, history>>

\* A task: its uid tells it from an earlier one with its id; one written by hand
\* may have no id, 0.
Task(id, uid) == [id |-> id, uid |-> uid, on |-> TRUE, seq |-> 0]
Idle == [at |-> "idle"]
NoForm == [index |-> -1]

Ids(list) == {list[i].id : i \in DOMAIN list}
NextIdByCount(list) == Len(list) + 1   \* a seeded fault, see below
NextId(list) == 1 + Max({0} \cup Ids(list))
IndexOf(list, id) == CHOOSE i \in DOMAIN list : list[i].id = id /\ \A j \in 1..i - 1 : list[j].id # id
Without(list, i) == IF i \in DOMAIN list THEN RemoveAt(list, i) ELSE list

\* shellReadJson: what cannot be parsed is an empty list.
Readable == IF file = "whole" THEN conf ELSE <<>>

NoText == [list |-> <<>>, ok |-> FALSE]
Unique(list) == \A i, j \in DOMAIN list : list[i].id = list[j].id /\ list[i].id # 0 => i = j

Init ==
    /\ conf = InitialTasks /\ file = "whole"
    /\ tasks = InitialTasks /\ rows = InitialTasks
    /\ refreshing = FALSE /\ refresh = Idle
    /\ tab = "tasks" /\ busy = FALSE /\ form = NoForm
    /\ deletes = [d \in Deletes |-> Idle] /\ saves = <<>>
    /\ editor = NoText /\ raws = [r \in Raws |-> Idle]
    /\ writer = [w \in Writers |-> Idle]
    /\ lastUid = NextId(InitialTasks) - 1 /\ clicks = 0 /\ writes = 0
    /\ confirmed = {} /\ cleared = {} /\ doubled = FALSE

Asking == \E d \in Deletes : deletes[d].at = "confirm"
Modal == form # NoForm \/ Asking

Click == clicks < Clicks /\ clicks' = clicks + 1 /\ UNCHANGED <<lastUid, writes>>
OnList == Click /\ tab = "tasks" /\ ~Modal

\* A process that writes the list, for the operation that waits for it, if any.
Spawn(list, for) ==
    /\ Len(saves) < MaxSaves
    /\ saves' = Append(saves, [opened |-> FALSE, list |-> list, for |-> for, lost |-> FALSE, mixed |-> FALSE])

\* tasks = list; saveTasks(); renderTasks()
Change(list) ==
    /\ tasks' = list /\ rows' = list
    /\ Spawn(list, "page")
    /\ UNCHANGED <<fileVars, refreshVars, deskVars, deletes, rawVars, writer, history>>

-----------------------------------------------------------------------------
(* Seeded faults: variants of the definitions below with a plausible mistake, *)
(* to show that the properties notice it.                                     *)

\* The button does not take the flag.
ClickRefreshUnlocked ==
    /\ Click /\ ~Modal /\ ~refreshing
    /\ refresh' = [at |-> "asked", manual |-> TRUE]
    /\ UNCHANGED <<fileVars, pageVars, refreshing, deskVars, form, deletes, saves, rawVars, writer, history>>

\* A refresh that fails leaves `refreshing` set.
RefreshFailsLocked ==
    /\ refresh.at = "asked"
    /\ refresh' = Idle
    /\ UNCHANGED <<fileVars, pageVars, refreshing, deskVars, form, deletes, saves, rawVars, writer, bounds, history>>

\* After the wait the id is taken from the list by index again.
StopReturnsByIndex(d) ==
    /\ deletes[d].at = "stopping" /\ deletes[d].index \in DOMAIN tasks
    /\ tasks' = Without(tasks, deletes[d].index)
    /\ Spawn(tasks', d)
    /\ deletes' = [deletes EXCEPT ![d].at = "saving", ![d].id = tasks[deletes[d].index].id]
    /\ UNCHANGED <<fileVars, rows, refreshVars, deskVars, form, rawVars, writer, bounds, history>>

-----------------------------------------------------------------------------
(* Reading the list: autoRefresh, btnRefresh *)

\* The user moves, scrolls or has an input in focus, an entry of the log is
\* unfolded or another dialog open; and rests again.
Stir ==
    /\ busy' = ~busy
    /\ \/ busy /\ UNCHANGED bounds
       \/ ~busy /\ Click
    /\ UNCHANGED <<fileVars, pageVars, refreshVars, tab, form, deletes, saves, rawVars, writer, history>>

AutoRefresh ==
    /\ ~refreshing /\ form = NoForm /\ ~busy
    /\ refreshing' = TRUE /\ refresh' = [at |-> "asked", manual |-> FALSE]
    /\ UNCHANGED <<fileVars, pageVars, deskVars, form, deletes, saves, rawVars, writer, bounds, history>>

ClickRefresh ==
    /\ Click /\ ~Modal /\ ~refreshing
    /\ refreshing' = TRUE /\ refresh' = [at |-> "asked", manual |-> TRUE]
    /\ UNCHANGED <<fileVars, pageVars, deskVars, form, deletes, saves, rawVars, writer, history>>

RefreshRead ==
    /\ refresh.at = "asked"
    /\ refresh' = [at |-> "read", manual |-> refresh.manual, list |-> Readable]
    /\ UNCHANGED <<fileVars, pageVars, refreshing, deskVars, form, deletes, saves, rawVars, writer, bounds, history>>

\* loadTasks shows a message and keeps the copy.
RefreshFails ==
    /\ refresh.at = "asked"
    /\ refresh' = [at |-> "loaded", manual |-> refresh.manual]
    /\ UNCHANGED <<fileVars, pageVars, refreshing, deskVars, form, deletes, saves, rawVars, writer, bounds, history>>

\* loadTasks is done; the logs and the running tasks are still to come.
RefreshTasks ==
    /\ refresh.at = "read"
    /\ tasks' = refresh.list
    /\ refresh' = [at |-> "loaded", manual |-> refresh.manual]
    /\ UNCHANGED <<fileVars, rows, refreshing, deskVars, form, deletes, saves, rawVars, writer, bounds, history>>

\* The list is drawn only if its tab is on display, or after the button.
RefreshEnds ==
    /\ refresh.at = "loaded"
    /\ rows' = IF tab = "tasks" \/ refresh.manual THEN tasks ELSE rows
    /\ refreshing' = FALSE /\ refresh' = Idle
    /\ UNCHANGED <<fileVars, tasks, deskVars, form, deletes, saves, rawVars, writer, bounds, history>>

\* selectTab draws nothing; loadRawEditor reads the text anew.
SelectTab ==
    /\ Click /\ ~Modal
    /\ tab' \in {"tasks", "editor"}
    /\ IF tab' = "editor"
       THEN \E r \in Raws : raws[r] = Idle /\ raws' = [raws EXCEPT ![r] = [at |-> "loading"]]
       ELSE tab # "tasks" /\ UNCHANGED raws
    /\ UNCHANGED <<fileVars, pageVars, refreshVars, busy, form, deletes, saves, editor, writer, history>>

\* stopTask, finishRun and the search draw the list again.
Redraw ==
    /\ rows # tasks /\ Click /\ ~Modal
    /\ rows' = tasks
    /\ UNCHANGED <<fileVars, tasks, refreshVars, deskVars, form, deletes, saves, rawVars, writer, history>>

-----------------------------------------------------------------------------
(* The buttons of row i *)

\* A task that is switched on again starts its count anew.
ToggleTask(i) ==
    /\ OnList /\ i \in DOMAIN rows /\ i \in DOMAIN tasks
    /\ Change([tasks EXCEPT ![i].on = ~@, ![i].seq = IF tasks[i].on THEN @ ELSE 0])
    /\ UNCHANGED form

EditTask(i) ==
    /\ OnList /\ i \in DOMAIN rows /\ i \in DOMAIN tasks
    /\ form' = [index |-> i, task |-> tasks[i]]
    /\ UNCHANGED <<fileVars, pageVars, refreshVars, deskVars, deletes, saves, rawVars, writer, history>>

\* confirmDialog cancels the one that is open, which a click cannot reach.
DeleteTask(d, i) ==
    /\ OnList /\ i \in DOMAIN rows /\ i \in DOMAIN tasks
    /\ deletes[d] = Idle
    /\ deletes' = [deletes EXCEPT ![d] = [at |-> "confirm", id |-> tasks[i].id, index |-> i]]
    /\ UNCHANGED <<fileVars, pageVars, refreshVars, deskVars, form, saves, rawVars, writer, history>>

-----------------------------------------------------------------------------
(* deleteTask, after the click *)

DeleteCancelled(d) ==
    /\ deletes[d].at = "confirm"
    /\ deletes' = [deletes EXCEPT ![d] = Idle]
    /\ UNCHANGED <<fileVars, pageVars, refreshVars, deskVars, form, saves, rawVars, writer, bounds, history>>

\* The task is looked up again, unless it has no id; the page may believe that
\* it runs.
DeleteConfirmed(d) ==
    /\ deletes[d].at = "confirm"
    /\ confirmed' = confirmed \cup {deletes[d].id}
    /\ LET id == deletes[d].id IN
       IF id # 0 /\ id \notin Ids(tasks)
       THEN deletes' = [deletes EXCEPT ![d] = Idle] /\ UNCHANGED <<tasks, saves>>
       ELSE LET i == IF id = 0 THEN deletes[d].index ELSE IndexOf(tasks, id) IN
            \/ /\ id # 0
               /\ deletes' = [deletes EXCEPT ![d] = [at |-> "stopping", id |-> id, index |-> i]]
               /\ UNCHANGED <<tasks, saves>>
            \/ /\ deletes' = [deletes EXCEPT ![d] = [at |-> "saving", id |-> id, index |-> i]]
               /\ tasks' = Without(tasks, i) /\ Spawn(tasks', d)
    /\ UNCHANGED <<fileVars, rows, refreshVars, deskVars, form, rawVars, writer, bounds, cleared, doubled>>

\* `cronplus stop` has returned.
StopReturns(d) ==
    /\ deletes[d].at = "stopping"
    /\ tasks' = Without(tasks, deletes[d].index)
    /\ Spawn(tasks', d)
    /\ deletes' = [deletes EXCEPT ![d].at = "saving"]
    /\ UNCHANGED <<fileVars, rows, refreshVars, deskVars, form, rawVars, writer, bounds, history>>

\* `cronplus clear-logs` has returned, which a task without an id does not need.
Cleared(d) ==
    /\ deletes[d].at = "clearing"
    /\ cleared' = cleared \cup ({deletes[d].id} \ {0})
    /\ deletes' = [deletes EXCEPT ![d] = Idle]
    /\ rows' = tasks
    /\ UNCHANGED <<fileVars, tasks, refreshVars, deskVars, form, saves, rawVars, writer, bounds, confirmed, doubled>>

-----------------------------------------------------------------------------
(* The dialog of a task, the import *)

AddNewTask ==
    /\ OnList
    /\ form' = [index |-> 0]
    /\ UNCHANGED <<fileVars, pageVars, refreshVars, deskVars, deletes, saves, rawVars, writer, history>>

CloseForm ==
    /\ form # NoForm
    /\ form' = NoForm
    /\ UNCHANGED <<fileVars, pageVars, refreshVars, deskVars, deletes, saves, rawVars, writer, bounds, history>>

\* saveTask: the index is one of the list as it is now; beyond its end the
\* handler throws, and the dialog stays.
SaveEdit ==
    /\ form.index \in DOMAIN tasks
    /\ Change([tasks EXCEPT ![form.index] = [form.task EXCEPT !.id = tasks[form.index].id]])
    /\ form' = NoForm
    /\ UNCHANGED bounds

SaveNew ==
    /\ form.index = 0 /\ lastUid < MaxUid
    /\ Change(Append(tasks, Task(NextId(tasks), lastUid + 1)))
    /\ form' = NoForm /\ lastUid' = lastUid + 1
    /\ UNCHANGED <<clicks, writes>>

\* importConfig, of two tasks: one id after the other.
Import ==
    /\ clicks + 2 <= Clicks /\ ~Modal /\ lastUid + 2 <= MaxUid
    /\ LET one == Append(tasks, Task(NextId(tasks), lastUid + 1)) IN
       Change(Append(one, Task(NextId(one), lastUid + 2)))
    /\ lastUid' = lastUid + 2 /\ clicks' = clicks + 2
    /\ UNCHANGED <<form, writes>>

-----------------------------------------------------------------------------
(* The raw editor *)

\* cat: of a file that is emptied or torn, and of a read that fails, no JSON.
EditorRead(r) ==
    /\ raws[r].at = "loading"
    /\ \E text \in {NoText, IF file = "whole" THEN [list |-> conf, ok |-> TRUE] ELSE NoText} :
           raws' = [raws EXCEPT ![r] = [at |-> "loaded", text |-> text]]
    /\ UNCHANGED <<fileVars, pageVars, refreshVars, deskVars, form, deletes, saves, editor, writer, bounds, history>>

EditorShown(r) ==
    /\ raws[r].at = "loaded"
    /\ editor' = raws[r].text
    /\ raws' = [raws EXCEPT ![r] = Idle]
    /\ UNCHANGED <<fileVars, pageVars, refreshVars, deskVars, form, deletes, saves, writer, bounds, history>>

\* What the user makes of a text: it stays, or its first task is cut out, copied
\* to its end or left without an id.
Edits(list) ==
    {list} \cup IF list = <<>> THEN {}
               ELSE {RemoveAt(list, 1), Append(list, list[1]), [list EXCEPT ![1].id = 0]}

\* saveRawEditor: a text that is not JSON is refused; ids are not looked at.
SaveRaw ==
    /\ Click /\ ~Modal /\ tab = "editor" /\ editor.ok
    /\ \E r \in Raws, list \in Edits(editor.list) :
          /\ raws[r] = Idle /\ raws' = [raws EXCEPT ![r] = [at |-> "saving"]]
          /\ Spawn(list, r)
          /\ editor' = [list |-> list, ok |-> TRUE]
          /\ doubled' = (doubled \/ ~Unique(list))
    /\ UNCHANGED <<fileVars, pageVars, refreshVars, deskVars, form, deletes, writer, confirmed, cleared>>

RawRead(r) ==
    /\ raws[r].at = "asked"
    /\ raws' = [raws EXCEPT ![r] = [at |-> "read", list |-> Readable]]
    /\ UNCHANGED <<fileVars, pageVars, refreshVars, deskVars, form, deletes, saves, editor, writer, bounds, history>>

RawTasks(r) ==
    /\ raws[r].at = "read"
    /\ tasks' = raws[r].list /\ rows' = raws[r].list
    /\ raws' = [raws EXCEPT ![r] = Idle]
    /\ UNCHANGED <<fileVars, refreshVars, deskVars, form, deletes, saves, editor, writer, bounds, history>>

\* loadTasks keeps the copy, which is drawn.
RawFails(r) ==
    /\ raws[r].at = "asked"
    /\ rows' = tasks
    /\ raws' = [raws EXCEPT ![r] = Idle]
    /\ UNCHANGED <<fileVars, tasks, refreshVars, deskVars, form, deletes, saves, editor, writer, bounds, history>>

-----------------------------------------------------------------------------
(* printf | tee: the file is emptied, then written *)

TeeOpens(s) ==
    /\ s \in DOMAIN saves /\ ~saves[s].opened
    /\ file' = "empty"
    /\ saves' = [saves EXCEPT ![s].opened = TRUE]
    /\ UNCHANGED <<conf, pageVars, refreshVars, deskVars, form, deletes, rawVars, writer, bounds, history>>

\* A file that another tee has written since is overwritten from its start: the
\* end of the longer one stays.
TeeWrites(s) ==
    /\ s \in DOMAIN saves /\ saves[s].opened
    /\ IF saves[s].lost THEN UNCHANGED fileVars
       ELSE conf' = saves[s].list /\ file' \in {"whole"} \cup IF saves[s].mixed THEN {"torn"} ELSE {}
    /\ saves' = RemoveAt([t \in DOMAIN saves |->
                              [saves[t] EXCEPT !.mixed = @ \/ (saves[t].opened /\ ~saves[s].lost)]], s)
    /\ deletes' = [d \in Deletes |-> IF saves[s].for = d THEN [deletes[d] EXCEPT !.at = "clearing"] ELSE deletes[d]]
    /\ raws' = [r \in Raws |-> IF saves[s].for = r THEN [at |-> "asked"] ELSE raws[r]]
    /\ UNCHANGED <<pageVars, refreshVars, deskVars, form, editor, writer, bounds, history>>

-----------------------------------------------------------------------------
(* The other writers: they read the file, then rename a new one into place *)

\* UpdateTaskRunSeq, of the first task with the id
CountRun ==
    /\ writer["daemon"] = Idle /\ file = "whole"
    /\ \E id \in Ids(conf) :
           writer' = [writer EXCEPT !["daemon"] = [at |-> "read", list |-> [conf EXCEPT ![IndexOf(conf, id)].seq = @ + 1]]]
    /\ UNCHANGED lastUid

\* CreateTasks, of an import of one task: an empty file counts as no tasks, a torn
\* one is refused.
CreateTasks ==
    /\ writer["cli"] = Idle /\ file # "torn" /\ lastUid < MaxUid
    /\ writer' = [writer EXCEPT !["cli"] =
                     [at |-> "read", list |-> Append(Readable, Task(NextId(Readable), lastUid + 1))]]
    /\ lastUid' = lastUid + 1

\* A task taken out of the file by hand.
RemoveTask ==
    /\ writer["admin"] = Idle /\ file = "whole"
    /\ \E i \in DOMAIN conf :
           writer' = [writer EXCEPT !["admin"] = [at |-> "read", list |-> RemoveAt(conf, i)]]
    /\ UNCHANGED lastUid

WriterReads(w) ==
    /\ writes < Writes /\ writes' = writes + 1
    /\ CASE w = "daemon" -> CountRun [] w = "cli" -> CreateTasks [] w = "admin" -> RemoveTask
    /\ UNCHANGED <<fileVars, pageVars, refreshVars, deskVars, form, deletes, saves, rawVars, clicks, history>>

WriterRenames(w) ==
    /\ writer[w] # Idle
    /\ conf' = writer[w].list /\ file' = "whole"
    /\ saves' = [s \in DOMAIN saves |-> [saves[s] EXCEPT !.lost = @ \/ saves[s].opened]]
    /\ writer' = [writer EXCEPT ![w] = Idle]
    /\ UNCHANGED <<pageVars, refreshVars, deskVars, form, deletes, rawVars, bounds, history>>

-----------------------------------------------------------------------------
Page ==
    \/ RefreshRead \/ RefreshFails \/ RefreshTasks \/ RefreshEnds
    \/ \E r \in Raws : EditorRead(r) \/ EditorShown(r) \/ RawRead(r) \/ RawTasks(r) \/ RawFails(r)
    \/ \E d \in Deletes : StopReturns(d) \/ Cleared(d)

User ==
    \/ Stir \/ ClickRefresh \/ SelectTab \/ Redraw
    \/ \E i \in 1..MaxUid : ToggleTask(i) \/ EditTask(i) \/ \E d \in Deletes : DeleteTask(d, i)
    \/ \E d \in Deletes : DeleteCancelled(d) \/ DeleteConfirmed(d)
    \/ AddNewTask \/ CloseForm \/ SaveEdit \/ SaveNew \/ Import \/ SaveRaw

Next ==
    \/ AutoRefresh \/ Page \/ User
    \/ \E s \in 1..MaxSaves : TeeOpens(s) \/ TeeWrites(s)
    \/ \E w \in Writers : WriterReads(w) \/ WriterRenames(w)

\* Timers and callbacks come, processes end and a read succeeds in the end;
\* the user owes nothing.
Fairness ==
    /\ WF_vars(AutoRefresh)
    /\ SF_vars(RefreshRead) /\ WF_vars(RefreshTasks) /\ WF_vars(RefreshEnds)
    /\ \A r \in Raws : SF_vars(RawRead(r)) /\ WF_vars(RawTasks(r))
    /\ \A d \in Deletes : WF_vars(StopReturns(d)) /\ WF_vars(Cleared(d))
    /\ \A s \in 1..MaxSaves : WF_vars(TeeOpens(s)) /\ WF_vars(TeeWrites(s))
    /\ \A w \in {"daemon", "cli"} : WF_vars(WriterRenames(w))

Spec == Init /\ [][Next]_vars
FairSpec == Spec /\ Fairness

-----------------------------------------------------------------------------
(* Properties *)

IsTask(t) == t.id \in 0..MaxUid /\ t.uid \in 1..MaxUid /\ t.on \in BOOLEAN /\ t.seq \in Nat

\* Every variable has its type.
TypeOK ==
    /\ \A list \in {conf, tasks, rows} : \A i \in DOMAIN list : IsTask(list[i])
    /\ file \in {"whole", "empty", "torn"} /\ busy \in BOOLEAN /\ doubled \in BOOLEAN
    /\ refreshing \in BOOLEAN
    /\ refresh.at \in {"idle", "asked", "read", "loaded"} /\ (refreshing <=> refresh # Idle)
    /\ tab \in {"tasks", "editor"}
    /\ form.index \in -1..MaxUid
    /\ \A d \in Deletes : deletes[d].at \in {"idle", "confirm", "stopping", "saving", "clearing"}
    /\ Len(saves) <= MaxSaves
    /\ \A i \in DOMAIN editor.list : IsTask(editor.list[i])
    /\ \A r \in Raws : raws[r].at \in {"idle", "loading", "loaded", "saving", "asked", "read"}
    /\ \A w \in Writers : writer[w].at \in {"idle", "read"}
    /\ confirmed \subseteq 0..MaxUid /\ cleared \subseteq 1..MaxUid

\* No two tasks have the same id, in the file or on the page, whoever wrote the
\* list last from which copy, as long as the user has not written an id twice in
\* the raw editor, which does not look (app.js:1670-1672, 1901-1906, 1957-1977;
\* task.go:178-195).
IdsUnique == ~doubled => Unique(conf) /\ Unique(tasks)

\* Only the history of a task that the user confirmed is cleared, although the
\* list may change at each of the waits before it (app.js:1467-1478, 1498-1504).
ClearsConfirmed == cleared \subseteq confirmed

\* In the end the page holds and shows what the file holds, while its list is
\* on display, no dialog stays open and nothing else keeps the page from
\* refreshing (app.js:507-528).
EventuallyFresh ==
    <>[](tab = "tasks" /\ form = NoForm /\ ~busy) => <>[](tasks = Readable /\ rows = tasks)

-----------------------------------------------------------------------------
(* Claims of comments that the code does not keep *)

\* The deletion takes the confirmed task out of the list and no other:
\* app.js:1468, "Resolve the task again by id rather than trusting the index
\* captured before the await, which could now name a neighbour."
DeletesConfirmed ==
    [][\A d \in Deletes :
        deletes[d].at \in {"confirm", "stopping"} /\ deletes'[d].at = "saving" =>
            Ids(tasks) \ Ids(tasks') \subseteq {deletes[d].id}]_vars

\* The list is not refreshed behind the dialog of a task, so what is saved from
\* it goes to the task it was opened for: app.js:2772, "Track user interaction to
\* suppress auto-refresh".
EditLands ==
    [][form # NoForm /\ form.index > 0 /\ form' = NoForm /\ tasks' # tasks
        => tasks[form.index].uid = form.task.uid]_vars

\* The daemon's write of a run number changes nothing else: task.go:126,
\* "updates just the run_seq field of a task (atomic partial update)".
PartialUpdate ==
    [][writer["daemon"] # Idle /\ writer'["daemon"] = Idle => Ids(conf') = Ids(conf)]_vars

=============================================================================
