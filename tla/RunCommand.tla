----------------------------- MODULE RunCommand -----------------------------
(***************************************************************************)
(* One execution of a command: RunCommand (internal/executor/run.go), which *)
(* the pool calls for every attempt of a scheduled run and the CLI for a    *)
(* manual one.                                                              *)
(*                                                                         *)
(* Its goroutine starts the process, waits for the end of the output, the   *)
(* timeout or a cancelled context, kills the process group in the last two  *)
(* cases, and reaps the process.  A second goroutine copies the output and  *)
(* reports the end of it through a channel with one place.  Around them the *)
(* command forks, closes its output, leaves the process group, handles or   *)
(* ignores SIGTERM and exits as it likes.                                   *)
(*                                                                         *)
(* The output itself is data (module Stream); here only who can still write *)
(* to the pipe matters, since the end of file depends on it.                *)
(***************************************************************************)
EXTENDS FiniteSets

CONSTANTS Leader,    \* the process of cmd.Start: bash or su
          Child,     \* what it may fork, directly or not
          Tee        \* a manual run: the output is printed as well

ASSUME ProcessAssumption == Leader \notin Child /\ Tee \in BOOLEAN

Process == {Leader} \cup Child

VARIABLES
    pc,         \* where RunCommand stands
    ctxDone,    \* the context is cancelled
    timer,      \* "none" without a timeout; "off", "armed", "fired"
    stop,       \* stopReason: "", "timeout", "cancelled"
    result,     \* "none", "success", "fail" (to be retried) or "final" (exit -1)
    writeEnd,   \* RunCommand still has the write end of the pipe
    reader,     \* the copying goroutine: "none", "copying", "sending", "gone"
    readDone,   \* the channel holds a message
    live, unborn,   \* processes
    group,      \* those of the leader's process group
    holds,      \* those with the output pipe open
    exit,       \* how the leader ended: "none", "ok", "fail", "signal"
    signalled   \* history: processes that ran when RunCommand signalled them

runVars == <<ctxDone, timer>>
readVars == <<writeEnd, reader, readDone>>
procVars == <<live, unborn, group, holds, exit>>
vars == <<pc, runVars, stop, result, readVars, procVars, signalled>>

Init ==
    /\ pc = "enter"
    /\ ctxDone = FALSE /\ timer \in {"none", "off"}
    /\ stop = "" /\ result = "none"
    /\ writeEnd = FALSE /\ reader = "none" /\ readDone = FALSE
    /\ live = {} /\ unborn = Child /\ group = {} /\ holds = {}
    /\ exit = "none" /\ signalled = {}

\* The processes of a set end.
Ended(dead) ==
    /\ live' = live \ dead
    /\ holds' = holds \ dead

-----------------------------------------------------------------------------
(* Seeded faults: variants of the definitions below with a plausible mistake,
   to show that the properties notice it. *)

\* An early return leaves the named results unset.
RefuseUnset ==
    /\ pc = "enter"
    /\ pc' = "done"
    /\ UNCHANGED <<result, runVars, stop, readVars, procVars, signalled>>

\* The exit status of the leader counts even after a stop.
OutcomeOfLeader ==
    IF exit = "ok" THEN "success" ELSE IF exit = "fail" THEN "fail" ELSE "final"

\* The leader is signalled instead of its group.
KillLeader ==
    /\ pc = "kill"
    /\ signalled' = signalled \cup (live \cap {Leader})
    /\ Ended({Leader})
    /\ exit' = IF Leader \in live THEN "signal" ELSE exit
    /\ pc' = "drain"
    /\ UNCHANGED <<runVars, stop, result, readVars, unborn, group>>

\* RunCommand keeps its copy of the write end.
ListenHolding ==
    /\ pc = "started"
    /\ reader' = "copying"
    /\ timer' = IF timer = "off" THEN "armed" ELSE timer
    /\ pc' = "select"
    /\ UNCHANGED <<writeEnd, ctxDone, stop, result, readDone, procVars, signalled>>

-----------------------------------------------------------------------------
(* RunCommand *)

\* What is returned: a stop and a death by a signal are never retried.
Outcome ==
    IF stop # "" THEN "final"
    ELSE IF exit = "ok" THEN "success"
    ELSE IF exit = "fail" THEN "fail" ELSE "final"

\* The context is cancelled already, or the pipe or the process cannot be
\* created: no process runs.
Refuse ==
    /\ pc = "enter"
    /\ pc' = "done"
    /\ result' = "final"
    /\ UNCHANGED <<runVars, stop, readVars, procVars, signalled>>

Start ==
    /\ pc = "enter" /\ ~ctxDone
    /\ live' = {Leader} /\ group' = {Leader} /\ holds' = {Leader}
    /\ writeEnd' = TRUE
    /\ pc' = "started"
    /\ UNCHANGED <<runVars, stop, result, reader, readDone, unborn, exit, signalled>>

\* The write end is dropped, the reader started and the timer armed.
Listen ==
    /\ pc = "started"
    /\ writeEnd' = FALSE
    /\ reader' = "copying"
    /\ timer' = IF timer = "off" THEN "armed" ELSE timer
    /\ pc' = "select"
    /\ UNCHANGED <<ctxDone, stop, result, readDone, procVars, signalled>>

\* The select picks one of the events that are ready.
SelectOutputEnd ==
    /\ pc = "select" /\ readDone
    /\ readDone' = FALSE
    /\ timer' = IF timer = "armed" THEN "off" ELSE timer
    /\ pc' = "wait"
    /\ UNCHANGED <<ctxDone, stop, result, writeEnd, reader, procVars, signalled>>

SelectStop(why) ==
    /\ pc = "select"
    /\ IF why = "timeout" THEN timer = "fired" ELSE ctxDone
    /\ stop' = why
    /\ pc' = "term"
    /\ UNCHANGED <<runVars, result, readVars, procVars, signalled>>

\* SIGTERM to the group: some processes end at once, the others handle it,
\* later or never.
Term ==
    /\ pc = "term"
    /\ signalled' = signalled \cup (live \cap group)
    /\ \E dead \in SUBSET (live \cap group) :
           /\ Ended(dead)
           /\ exit' = IF Leader \in dead THEN "signal" ELSE exit
    /\ pc' = "kill"
    /\ UNCHANGED <<runVars, stop, result, readVars, unborn, group>>

\* SIGKILL to the group, half a second later.
Kill ==
    /\ pc = "kill"
    /\ signalled' = signalled \cup (live \cap group)
    /\ Ended(live \cap group)
    /\ exit' = IF Leader \in live THEN "signal" ELSE exit
    /\ pc' = "drain"
    /\ UNCHANGED <<runVars, stop, result, readVars, unborn, group>>

\* waitReader: the end of the output, or three seconds.
Drain ==
    /\ pc = "drain"
    /\ readDone' \in {FALSE, readDone}
    /\ pc' = "wait"
    /\ UNCHANGED <<runVars, stop, result, writeEnd, reader, procVars, signalled>>

\* cmd.Wait, then the result.
Wait ==
    /\ pc = "wait" /\ Leader \notin live
    /\ result' = Outcome
    /\ pc' = "done"
    /\ UNCHANGED <<runVars, stop, readVars, procVars, signalled>>

-----------------------------------------------------------------------------
(* The reader *)

\* The end of the file, or the pipe was closed when RunCommand returned, or
\* what a manual run prints to cannot be written.
CopyEnds ==
    /\ reader = "copying"
    /\ reader' = "sending"
    /\ UNCHANGED <<pc, runVars, stop, result, writeEnd, readDone, procVars, signalled>>

OutputOver == pc = "done" \/ (holds = {} /\ ~writeEnd)

CopyOutput == OutputOver /\ CopyEnds

TeeFails == Tee /\ CopyEnds

Send ==
    /\ reader = "sending" /\ ~readDone
    /\ readDone' = TRUE
    /\ reader' = "gone"
    /\ UNCHANGED <<pc, runVars, stop, result, writeEnd, procVars, signalled>>

-----------------------------------------------------------------------------
(* Processes and the outside *)

Fork(p, c) ==
    /\ p \in live /\ c \in unborn
    /\ unborn' = unborn \ {c}
    /\ live' = live \cup {c}
    /\ group' = IF p \in group THEN group \cup {c} ELSE group
    /\ holds' = IF p \in holds THEN holds \cup {c} ELSE holds
    /\ UNCHANGED <<pc, runVars, stop, result, readVars, exit, signalled>>

CloseOutput(p) ==
    /\ p \in holds
    /\ holds' = holds \ {p}
    /\ UNCHANGED <<pc, runVars, stop, result, readVars, live, unborn, group, exit, signalled>>

\* setsid: as su does for the command of another user.
LeaveGroup(c) ==
    /\ c \in live \cap group
    /\ group' = group \ {c}
    /\ UNCHANGED <<pc, runVars, stop, result, readVars, live, unborn, holds, exit, signalled>>

Exit(p) ==
    /\ p \in live
    /\ Ended({p})
    /\ IF p = Leader THEN exit' \in {"ok", "fail", "signal"} ELSE UNCHANGED exit
    /\ UNCHANGED <<pc, runVars, stop, result, readVars, unborn, group, signalled>>

TimerFires ==
    /\ timer = "armed"
    /\ timer' = "fired"
    /\ UNCHANGED <<pc, ctxDone, stop, result, readVars, procVars, signalled>>

Cancel ==
    /\ ~ctxDone
    /\ ctxDone' = TRUE
    /\ UNCHANGED <<pc, timer, stop, result, readVars, procVars, signalled>>

-----------------------------------------------------------------------------
Command ==
    \/ Refuse \/ Start \/ Listen \/ SelectOutputEnd
    \/ \E why \in {"timeout", "cancelled"} : SelectStop(why)
    \/ Term \/ Kill \/ Drain \/ Wait

Outside ==
    \/ \E p \in Process : CloseOutput(p) \/ Exit(p) \/ \E c \in Child : Fork(p, c)
    \/ \E c \in Child : LeaveGroup(c)
    \/ TimerFires \/ Cancel

Next == Command \/ CopyOutput \/ TeeFails \/ Send \/ Outside

\* RunCommand and its reader are scheduled; no process needs to end.
Fairness == WF_vars(Command) /\ WF_vars(CopyOutput) /\ WF_vars(Send)

Spec == Init /\ [][Next]_vars
FairSpec == Spec /\ Fairness

-----------------------------------------------------------------------------
(* Properties *)

ControlType ==
    /\ pc \in {"enter", "started", "select", "term", "kill", "drain", "wait", "done"}
    /\ ctxDone \in BOOLEAN /\ timer \in {"none", "off", "armed", "fired"}
    /\ stop \in {"", "timeout", "cancelled"}
    /\ result \in {"none", "success", "fail", "final"}
    /\ pc = "done" <=> result # "none"
    /\ writeEnd \in BOOLEAN /\ readDone \in BOOLEAN
    /\ reader \in {"none", "copying", "sending", "gone"}

ProcessType ==
    /\ live \subseteq Process /\ unborn \subseteq Child \ live
    /\ group \subseteq Process /\ holds \subseteq live
    /\ exit \in {"none", "ok", "fail", "signal"} /\ signalled \subseteq Process

\* Every variable has its type; a result exists when RunCommand has returned,
\* and only a live process has the pipe open.
TypeOK == ControlType /\ ProcessType

\* A run whose processes were signalled is never reported as a success nor as
\* a failure the pool would retry, whatever the command made of the signal: it
\* may have trapped SIGTERM and exited with 0 (run.go:141-168, pool.go:271-277).
StopIsFinal == pc = "done" /\ signalled # {} => result = "final"

\* After a stop nothing of the command is left, except what left its process
\* group: also children the leader did not wait for, and those forked between
\* the two signals (run.go:108-112).
NothingLeft == pc = "done" /\ stop # "" => live \cap group = {}

\* Once RunCommand has noticed the stop it returns, although a process that
\* left the group keeps the output open (run.go:101-106, 139).
NoticedStopReturns == stop # "" ~> pc = "done"

\* Once a command and all its children have ended, RunCommand returns.
EndedCommandReturns == pc # "enter" /\ live = {} ~> pc = "done"

\* The copying goroutine outlives RunCommand when the output stays open after
\* a stop, but it ends as well (run.go:87-97, 63).
ReaderEnds == pc = "done" ~> reader \in {"none", "gone"}

\* So no call hangs and no goroutine leaks once the stop was noticed or the
\* command is over (run.go:63-174).
NothingHangs == NoticedStopReturns /\ EndedCommandReturns /\ ReaderEnds

-----------------------------------------------------------------------------
(* A claim of a comment that the code does not keep *)

\* pool.go:66, "Kill terminates a running task's process group": a cancelled
\* context ends the run.
CancelEndsRun == ctxDone ~> pc = "done"

=============================================================================
