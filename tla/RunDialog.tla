------------------------------ MODULE RunDialog ------------------------------
(***************************************************************************)
(* The dialog of the web page in which a task is run by hand (app.js).      *)
(*                                                                         *)
(* Each run is a `cronplus run` process of its own.  Its output, its end    *)
(* and the timers are callbacks that may come when the dialog was closed,   *)
(* opened for another task or has started another run; the page tells them  *)
(* apart by the object of the run (activeRun) and by the writer each run    *)
(* appends to.  Runs and their objects are numbered in the order they are   *)
(* started; pendingRunTask is set exactly while the dialog is open.         *)
(***************************************************************************)
EXTENDS Integers, Sequences, FiniteSets

CONSTANTS
    MaxRuns,    \* bound: runs started
    MaxChunks,  \* bound: pieces of output of a run
    MaxEchoes,  \* bound: lines sent to the input of a run
    MaxShown    \* OUTPUT_MAX_CHARS, in pieces

ASSUME BoundsAssumption == {MaxRuns, MaxChunks, MaxEchoes, MaxShown} \subseteq Nat

Runs == 1..MaxRuns
None == 0        \* null; as a writer, that of the preview of the command
NoWriter == -1

VARIABLES
    open,              \* the dialog is displayed
    activeRun, runningProc,
    runDurationTimer, timers,  \* the variable, and the intervals that tick
    process,   \* of each run: its state, pieces sent and received, result
    stopped, named,    \* of each run's object: stopped, runID is known
    outputWriter,
    attached,          \* the writer whose node is in the document
    shown, buffer,     \* its text, and what waits for the flush timer
    header,            \* outputStatus: its state, whose it is, the id in it
    button, stdinBar,
    started,           \* number of runs started
    mine,              \* the run started last since the dialog was opened
    echoes

writerVars == <<outputWriter, attached, shown, buffer>>
viewVars == <<header, button, stdinBar>>
runVars == <<activeRun, runningProc, runDurationTimer, timers>>
vars == <<open, runVars, process, stopped, named, writerVars, viewVars,
          started, mine, echoes>>

Init ==
    /\ open = FALSE
    /\ activeRun = None /\ runningProc = None
    /\ runDurationTimer = None /\ timers = {}
    /\ process = [r \in Runs |-> [state |-> "new", sent |-> 0, got |-> 0, ok |-> FALSE, told |-> FALSE]]
    /\ stopped = {} /\ named = {}
    /\ outputWriter = NoWriter /\ attached = NoWriter
    /\ shown = <<>> /\ buffer = <<>>
    /\ header = [state |-> "preview", of |-> None, id |-> None]
    /\ button = "run" /\ stdinBar = FALSE
    /\ started = 0 /\ mine = None /\ echoes = 0

-----------------------------------------------------------------------------
(* Seeded faults: variants of the definitions below with a plausible mistake, *)
(* to show that the properties notice it.                                     *)

\* Output goes to whichever writer is in the document.
appendAnywhere(writer, piece) == buffer' = Append(buffer, piece)

\* Every end of a run is taken for the end of the current one.
SupersededNever(r) == FALSE

\* The process is asked to end, but its run is not marked as stopped.
terminateUnmarked ==
    process' = [process EXCEPT ![runningProc].told = TRUE] /\ UNCHANGED stopped

\* The run is marked as stopped, but its process is not asked to end.
terminateUnsent == stopped' = stopped \cup {activeRun} /\ UNCHANGED process

\* The text is never shortened.
TrimNever(s) == s

-----------------------------------------------------------------------------
(* The writer: pieces of output, <<run, number>>, go to a buffer that a timer *)
(* empties.  What is appended to a writer that was replaced is not seen.      *)

Echo(r) == <<r, 0>>
TrimMark == <<None, 0>>

Trim(s) ==
    IF Len(s) > MaxShown THEN <<TrimMark>> \o SubSeq(s, Len(s) - MaxShown + 1, Len(s)) ELSE s

Flushed == Trim(shown \o buffer)

append(writer, piece) ==
    buffer' = IF attached = writer THEN Append(buffer, piece) ELSE buffer

flush == shown' = Flushed /\ buffer' = <<>>

resetOutputWriter(writer) ==
    /\ outputWriter' = writer /\ attached' = writer
    /\ shown' = <<>> /\ buffer' = <<>>

clearDurationTimer == runDurationTimer' = None /\ timers' = timers \ {runDurationTimer}

\* close('terminate'), after activeRun.stopped = true
terminate ==
    /\ stopped' = stopped \cup ({activeRun} \ {None})
    /\ process' = [process EXCEPT ![runningProc].told = TRUE]

IdOf(r) == IF r \in named THEN r ELSE None

\* finishRun, for a run that ended or could not be spawned
Superseded(r) == activeRun # None /\ activeRun # r

finishRun(r, success) ==
    IF Superseded(r) THEN UNCHANGED <<runVars, viewVars>>
    ELSE /\ clearDurationTimer
         /\ runningProc' = None /\ activeRun' = None
         /\ header' = [state |-> IF success THEN "success" ELSE "error", of |-> r, id |-> IdOf(r)]
         /\ button' = "run" /\ stdinBar' = FALSE

-----------------------------------------------------------------------------
(* One more seeded fault *)

\* The dialog is closed and its run left alone.
CloseLeaving ==
    /\ open
    /\ IF runningProc # None
       THEN stopped' = stopped \cup {activeRun} /\ runningProc' = None
       ELSE UNCHANGED <<stopped, runningProc>>
    /\ clearDurationTimer
    /\ flush /\ outputWriter' = NoWriter
    /\ stdinBar' = FALSE /\ open' = FALSE
    /\ UNCHANGED <<activeRun, attached, process, named, header, button, started, mine, echoes>>

-----------------------------------------------------------------------------
(* The user *)

\* runTask, showOutputModal
OpenDialog ==
    /\ ~open
    /\ open' = TRUE
    /\ resetOutputWriter(None)
    /\ header' = [state |-> "preview", of |-> None, id |-> None]
    /\ button' = "run" /\ stdinBar' = FALSE
    /\ runningProc' = None /\ activeRun' = None
    /\ mine' = None
    /\ UNCHANGED <<runDurationTimer, timers, process, stopped, named, started, echoes>>

\* startRunOutput
Start ==
    /\ open /\ runningProc = None /\ started < MaxRuns
    /\ LET r == started + 1 IN
       /\ resetOutputWriter(r)
       /\ activeRun' = r /\ runningProc' = r
       /\ header' = [state |-> "running", of |-> r, id |-> None]
       /\ button' = "stop" /\ stdinBar' = TRUE
       /\ runDurationTimer' = r /\ timers' = timers \cup {r}
       /\ process' = [process EXCEPT ![r].state = "running"]
       /\ started' = r /\ mine' = r
    /\ UNCHANGED <<open, stopped, named, echoes>>

\* startRunOutput, when the process cannot be spawned
StartFails ==
    /\ open /\ runningProc = None /\ started < MaxRuns
    /\ LET r == started + 1 IN
       /\ resetOutputWriter(r)
       /\ activeRun' = None
       /\ header' = [state |-> "error", of |-> r, id |-> None]
       /\ button' = "run" /\ stdinBar' = FALSE
       /\ process' = [process EXCEPT ![r].state = "settled"]
       /\ started' = r /\ mine' = r
    /\ runDurationTimer' = None
    /\ UNCHANGED <<open, runningProc, timers, stopped, named, echoes>>

\* stopRunOutput
Stop ==
    /\ open /\ runningProc # None
    /\ terminate
    /\ header' = [state |-> "stopping", of |-> activeRun, id |-> IdOf(activeRun)]
    /\ UNCHANGED <<open, runVars, named, writerVars, button, stdinBar, started, mine, echoes>>

\* sendStdin
SendStdin ==
    /\ open /\ runningProc # None /\ echoes < MaxEchoes
    /\ shown' = Trim(shown \o Append(buffer, Echo(runningProc))) /\ buffer' = <<>>
    /\ echoes' = echoes + 1
    /\ UNCHANGED <<open, runVars, process, stopped, named, outputWriter, attached, viewVars, started, mine>>

\* closeOutputModal
Close ==
    /\ open
    /\ IF runningProc # None THEN terminate ELSE UNCHANGED <<process, stopped>>
    /\ runningProc' = None
    /\ clearDurationTimer
    /\ flush /\ outputWriter' = NoWriter
    /\ stdinBar' = FALSE /\ open' = FALSE
    /\ UNCHANGED <<activeRun, attached, named, header, button, started, mine, echoes>>

-----------------------------------------------------------------------------
(* Callbacks *)

\* The flush timer, or btnCopyOutput, which flushes before it copies.
Flush ==
    /\ buffer # <<>>
    /\ flush
    /\ UNCHANGED <<open, runVars, process, stopped, named, outputWriter, attached,
                   viewVars, started, mine, echoes>>

\* The callback of proc.stream; the first piece holds the run's id, which goes
\* to the header if that has a place for it.
Deliver(r) ==
    /\ process[r].got < process[r].sent
    /\ process' = [process EXCEPT ![r].got = @ + 1]
    /\ append(r, <<r, process[r].got + 1>>)
    /\ named' = named \cup {r}
    /\ header' = IF r \notin named /\ header.state # "preview" THEN [header EXCEPT !.id = r] ELSE header
    /\ UNCHANGED <<open, runVars, stopped, outputWriter, attached, shown, button, stdinBar,
                   started, mine, echoes>>

\* settle, when all the output has come
Settle(r) ==
    /\ process[r].state = "exited" /\ process[r].got = process[r].sent
    /\ process' = [process EXCEPT ![r].state = "settled"]
    /\ IF attached = r THEN flush ELSE UNCHANGED <<shown, buffer>>
    /\ finishRun(r, process[r].ok /\ r \notin stopped)
    /\ UNCHANGED <<open, stopped, named, outputWriter, attached, started, mine, echoes>>

-----------------------------------------------------------------------------
(* The process of a run: `cronplus run`, which prints what the task prints.  *)

Alive(r) == process[r].state \in {"running", "reaping"}

Emit(r) ==
    /\ Alive(r) /\ process[r].sent < MaxChunks
    /\ process' = [process EXCEPT ![r].sent = @ + 1]
    /\ UNCHANGED <<open, runVars, stopped, named, writerVars, viewVars, started, mine, echoes>>

\* The task has closed its output: RunCommand waits for it to exit and no longer
\* looks at the context that a signal cancels.
OutputEnds(r) ==
    /\ process[r].state = "running"
    /\ process' = [process EXCEPT ![r].state = "reaping"]
    /\ UNCHANGED <<open, runVars, stopped, named, writerVars, viewVars, started, mine, echoes>>

\* cmdRun returns: the run was refused, was stopped, or has ended.
Exit(r) ==
    /\ Alive(r)
    /\ \E ok \in BOOLEAN : process' = [process EXCEPT ![r].state = "exited", ![r].ok = ok]
    /\ UNCHANGED <<open, runVars, stopped, named, writerVars, viewVars, started, mine, echoes>>

Next ==
    \/ OpenDialog \/ Start \/ StartFails \/ Stop \/ SendStdin \/ Close \/ Flush
    \/ \E r \in Runs : Deliver(r) \/ Settle(r) \/ Emit(r) \/ OutputEnds(r) \/ Exit(r)

\* The callbacks run.  `cronplus run` traps SIGTERM and, as long as it reads the
\* task's output, kills the task's process group and returns; a task that has
\* closed its output ends when it likes.
Fairness ==
    \A r \in Runs :
        /\ WF_vars(Deliver(r)) /\ WF_vars(Settle(r))
        /\ WF_vars(process[r].told /\ process[r].state = "running" /\ (Exit(r) \/ OutputEnds(r)))

Spec == Init /\ [][Next]_vars
FairSpec == Spec /\ Fairness

-----------------------------------------------------------------------------
(* Properties *)

Process == [state : {"new", "running", "reaping", "exited", "settled"},
            sent : 0..MaxChunks, got : 0..MaxChunks, ok : BOOLEAN, told : BOOLEAN]

ControlType ==
    /\ open \in BOOLEAN /\ stdinBar \in BOOLEAN /\ button \in {"run", "stop"}
    /\ {activeRun, runningProc, runDurationTimer, mine} \subseteq Runs \cup {None}
    /\ timers \cup stopped \cup named \subseteq Runs
    /\ {outputWriter, attached} \subseteq Runs \cup {None, NoWriter}
    /\ header \in [state : {"preview", "running", "stopping", "success", "error"},
                   of : Runs \cup {None}, id : Runs \cup {None}]
    /\ started \in 0..MaxRuns /\ echoes \in 0..MaxEchoes

\* Every variable has its type, and the text on display its length.
TypeOK ==
    /\ ControlType /\ process \in [Runs -> Process]
    /\ {shown, buffer} \subseteq Seq((Runs \cup {None}) \X Nat)
    /\ Len(shown) <= MaxShown + 1

\* A text that holds the run r and no other: its pieces, of which `got` were
\* received, in order and up to the last, except what was trimmed at the front.
OwnText(text, r, got) ==
    LET pieces == {i \in DOMAIN text : text[i][2] > 0} IN
    /\ \A i \in pieces : text[i][1] = r /\ text[i][2] <= got
    /\ \A i, j \in pieces : i < j => text[i][2] < text[j][2]
    /\ \A n \in 1..got :
          \/ \E i \in pieces : text[i][2] = n
          \/ text # <<>> /\ text[1] = TrimMark /\ \A i \in pieces : n < text[i][2]

\* The dialog shows the output of the run it was cleared for and of no other,
\* whatever comes late from another one (app.js:1188-1232, 1242-1244).
OutputIsOwn ==
    attached \in Runs => OwnText(shown \o buffer, attached, process[attached].got)

\* When the header gives the result of a run, its last output is on the screen
\* (app.js:1308-1312).
TailShown ==
    header.state \in {"success", "error"} /\ header.of = attached => buffer = <<>>

\* While the run started last in this dialog goes on, the stop button, the
\* input bar and the object that is marked when it stops are its own, whatever
\* earlier runs do (app.js:1360-1372, 2450-2456).
CurrentReachable ==
    open /\ mine # None /\ process[mine].state \in {"running", "reaping", "exited"} =>
        /\ runningProc = mine /\ activeRun = mine
        /\ button = "stop" /\ stdinBar

\* A run that the dialog no longer holds was told to end (app.js:2044-2051).
NoneAbandoned ==
    \A r \in Runs : Alive(r) /\ r # runningProc => process[r].told

\* What the dialog shows is the output of its run, to the end.
ShowsOwnRun == OutputIsOwn /\ TailShown

\* A run that the user stopped is never shown as a success (app.js:1316-1319).
StoppedNotSuccess ==
    header.state = "success" => ~process[header.of].told

\* One interval at most, that of the run under way (app.js:1265-1268, 1369).
OneTicker == timers = {runningProc} \ {None}

\* The controls of the dialog are those of its run, and no other is left without
\* them (app.js:1234-1401, 2044-2060).
ControlsOwnRun == CurrentReachable /\ NoneAbandoned /\ OneTicker

\* A run that was told to stop gives the dialog back, if that is still open, or
\* its task has closed its output and never exits (app.js:1340-1352, 1369-1397).
Reaping(r) == r # None /\ process[r].state = "reaping"

StopEnds ==
    open /\ header.state = "stopping" ~> ~open \/ button = "run" \/ []Reaping(runningProc)

\* The dialog implements RunSlot.
Slot == INSTANCE RunSlot WITH
    slot <- IF ~open THEN "closed" ELSE IF runningProc = None THEN "ready" ELSE "running",
    current <- runningProc,
    live <- {r \in Runs : process[r].state \in {"running", "reaping", "exited"}},
    told <- {r \in Runs : process[r].told}

\* See RunSlot: one run at most, freed by its own end only, none left untold.
ImplementsSlot == Slot!Spec

-----------------------------------------------------------------------------
(* A claim of a comment that the code does not keep *)

\* A run that was abandoned leaves the header of what came after it alone:
\* app.js:1354, "must not touch the UI state of the current run".
HeaderIsOwn ==
    open /\ mine # None =>
        header.of \in {None, mine} /\ header.id \in {None, mine}

=============================================================================
