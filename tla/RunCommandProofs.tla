-------------------------- MODULE RunCommandProofs --------------------------
(***************************************************************************)
(* What module RunCommand promises for every set of processes: the types,   *)
(* StopIsFinal and NothingLeft.  The liveness properties stay with TLC.     *)
(*                                                                         *)
(* Neither safety property is inductive.  RunInv adds where stopReason may  *)
(* be set, that nothing is signalled before it is, and, for the group that  *)
(* SIGKILL emptied, that a process that does not exist yet is in no group:  *)
(* otherwise a fork could refill it.                                        *)
(***************************************************************************)
EXTENDS RunCommand, TLAPS

\* stopReason is set by the select, and only a stop signals processes.
StopInv ==
    /\ pc \in {"enter", "started", "select"} => stop = ""
    /\ pc \in {"term", "kill", "drain"} => stop # ""
    /\ stop = "" => signalled = {}

\* SIGKILL emptied the group.
GroupInv ==
    /\ group \cap unborn = {}
    /\ pc \in {"drain", "wait", "done"} /\ stop # "" => live \cap group = {}

RunInv == TypeOK /\ StopInv /\ GroupInv

-----------------------------------------------------------------------------

LEMMA InitType == Init => TypeOK
BY DEF Init, TypeOK, ControlType, ProcessType, Process

\* RunCommand, its reader, the timer and the context touch the control state.
LEMMA StepControl == ControlType /\ [Next]_vars => ControlType'
<1> SUFFICES ASSUME ControlType, [Next]_vars PROVE ControlType'
  OBVIOUS
<1>1. CASE Command
  <2> USE DEF ControlType, runVars, readVars
  <2>1. CASE Refuse \/ Start \/ Listen
    BY <2>1 DEF Refuse, Start, Listen
  <2>2. CASE SelectOutputEnd
    BY <2>2 DEF SelectOutputEnd
  <2>3. ASSUME NEW why \in {"timeout", "cancelled"}, SelectStop(why) PROVE ControlType'
    BY <2>3 DEF SelectStop
  <2>4. CASE Term \/ Kill
    BY <2>4 DEF Term, Kill
  <2>5. CASE Drain
    BY <2>5 DEF Drain
  <2>6. CASE Wait
    BY <2>6 DEF Wait, Outcome
  <2> QED
    BY <1>1, <2>1, <2>2, <2>3, <2>4, <2>5, <2>6 DEF Command
<1>2. CASE CopyOutput \/ TeeFails \/ Send \/ TimerFires \/ Cancel
  BY <1>2 DEF CopyOutput, TeeFails, CopyEnds, Send, TimerFires, Cancel, ControlType,
              runVars, readVars
<1>3. ASSUME UNCHANGED <<pc, runVars, stop, result, readVars>> PROVE ControlType'
  <2>1. /\ pc' = pc /\ ctxDone' = ctxDone /\ timer' = timer /\ stop' = stop
        /\ result' = result /\ writeEnd' = writeEnd /\ reader' = reader /\ readDone' = readDone
    BY <1>3 DEF runVars, readVars
  <2> QED
    BY <2>1, Zenon DEF ControlType
<1>4. ASSUME NEW p \in Process, NEW c \in Child, Fork(p, c) PROVE ControlType'
  BY <1>3, <1>4 DEF Fork
<1>5. ASSUME NEW p \in Process, CloseOutput(p) \/ Exit(p) PROVE ControlType'
  BY <1>3, <1>5 DEF CloseOutput, Exit
<1>6. ASSUME NEW c \in Child, LeaveGroup(c) PROVE ControlType'
  BY <1>3, <1>6 DEF LeaveGroup
<1>7. CASE UNCHANGED vars
  BY <1>3, <1>7 DEF vars
<1> QED
  BY <1>1, <1>2, <1>4, <1>5, <1>6, <1>7 DEF Next, Outside

\* The signals and the outside touch the processes.
LEMMA StepProcess == ProcessType /\ [Next]_vars => ProcessType'
<1> USE DEF ProcessType, Process
<1> SUFFICES ASSUME ProcessType, [Next]_vars PROVE ProcessType'
  OBVIOUS
<1>1. CASE Command
  <2>1. CASE Refuse \/ Listen \/ SelectOutputEnd \/ Drain \/ Wait
    BY <2>1 DEF Refuse, Listen, SelectOutputEnd, Drain, Wait, procVars
  <2>2. CASE Start
    BY <2>2, ProcessAssumption DEF Start
  <2>3. ASSUME NEW why \in {"timeout", "cancelled"}, SelectStop(why) PROVE ProcessType'
    BY <2>3 DEF SelectStop, procVars
  <2>4. CASE Term
    BY <2>4 DEF Term, Ended
  <2>5. CASE Kill
    BY <2>5 DEF Kill, Ended
  <2> QED
    BY <1>1, <2>1, <2>2, <2>3, <2>4, <2>5 DEF Command
<1>2. CASE CopyOutput \/ TeeFails \/ Send \/ TimerFires \/ Cancel \/ UNCHANGED vars
  BY <1>2 DEF CopyOutput, TeeFails, CopyEnds, Send, TimerFires, Cancel, vars, procVars
<1>3. ASSUME NEW p \in Process, CloseOutput(p) PROVE ProcessType'
  BY <1>3 DEF CloseOutput
<1>4. ASSUME NEW p \in Process, Exit(p) PROVE ProcessType'
  BY <1>4 DEF Exit, Ended
<1>5. ASSUME NEW p \in Process, NEW c \in Child, Fork(p, c) PROVE ProcessType'
  BY <1>5 DEF Fork
<1>6. ASSUME NEW c \in Child, LeaveGroup(c) PROVE ProcessType'
  BY <1>6 DEF LeaveGroup
<1> QED
  BY <1>1, <1>2, <1>3, <1>4, <1>5, <1>6 DEF Next, Outside

LEMMA StepType == TypeOK /\ [Next]_vars => TypeOK'
BY StepControl, StepProcess DEF TypeOK

\* The steps of RunCommand keep stop and signals in order; nobody else touches them.
LEMMA StepStop == TypeOK /\ StopInv /\ [Next]_vars => StopInv'
<1> USE DEF StopInv
<1> SUFFICES ASSUME TypeOK, StopInv, [Next]_vars PROVE StopInv'
  OBVIOUS
<1>1. CASE Command
  <2>1. CASE Refuse \/ Start \/ Listen \/ SelectOutputEnd \/ Drain \/ Wait
    BY <1>1, <2>1 DEF Refuse, Start, Listen, SelectOutputEnd, Drain, Wait
  <2>2. ASSUME NEW why \in {"timeout", "cancelled"}, SelectStop(why) PROVE StopInv'
    BY <2>2 DEF SelectStop
  <2>3. CASE Term \/ Kill
    BY <2>3 DEF Term, Kill
  <2> QED
    BY <1>1, <2>1, <2>2, <2>3 DEF Command
<1>2. CASE UNCHANGED <<pc, stop, signalled>>
  BY <1>2
<1>3. CASE CopyOutput \/ TeeFails \/ Send \/ Outside \/ UNCHANGED vars
  <2>1. UNCHANGED <<pc, stop, signalled>>
    BY <1>3 DEF CopyOutput, TeeFails, CopyEnds, Send, Outside, CloseOutput, Exit, Fork,
                LeaveGroup, TimerFires, Cancel, vars
  <2> QED
    BY <1>2, <2>1
<1> QED
  BY <1>1, <1>3 DEF Next

\* Processes join the group by a fork of a live member, so it stays empty.
LEMMA StepGroup == TypeOK /\ StopInv /\ GroupInv /\ [Next]_vars => GroupInv'
<1> USE DEF GroupInv
<1> SUFFICES ASSUME TypeOK, StopInv, GroupInv, [Next]_vars PROVE GroupInv'
  OBVIOUS
<1>1. CASE Command
  <2>1. CASE Refuse
    BY <2>1 DEF Refuse, StopInv, procVars
  <2>2. CASE Start
    BY <2>2, ProcessAssumption DEF Start, TypeOK, ProcessType
  <2>3. CASE Listen \/ SelectOutputEnd
    BY <2>3 DEF Listen, SelectOutputEnd, StopInv, procVars
  <2>4. ASSUME NEW why \in {"timeout", "cancelled"}, SelectStop(why) PROVE GroupInv'
    BY <2>4 DEF SelectStop, procVars
  <2>5. CASE Term
    BY <2>5 DEF Term
  <2>6. CASE Kill
    BY <2>6 DEF Kill, Ended
  <2>7. CASE Drain \/ Wait
    BY <2>7 DEF Drain, Wait, procVars
  <2> QED
    BY <1>1, <2>1, <2>2, <2>3, <2>4, <2>5, <2>6, <2>7 DEF Command
<1>2. CASE CopyOutput \/ TeeFails \/ Send \/ TimerFires \/ Cancel \/ UNCHANGED vars
  <2>1. UNCHANGED <<pc, stop, procVars>>
    BY <1>2 DEF CopyOutput, TeeFails, CopyEnds, Send, TimerFires, Cancel, vars
  <2> QED
    BY <2>1 DEF procVars
<1>3. ASSUME NEW p \in Process, CloseOutput(p) PROVE GroupInv'
  BY <1>3 DEF CloseOutput
<1>4. ASSUME NEW p \in Process, Exit(p) PROVE GroupInv'
  BY <1>4 DEF Exit, Ended
<1>5. ASSUME NEW p \in Process, NEW c \in Child, Fork(p, c) PROVE GroupInv'
  BY <1>5 DEF Fork
<1>6. ASSUME NEW c \in Child, LeaveGroup(c) PROVE GroupInv'
  BY <1>6 DEF LeaveGroup
<1> QED
  BY <1>1, <1>2, <1>3, <1>4, <1>5, <1>6 DEF Next, Outside

\* The inductive invariant.
THEOREM RunInvariant == Spec => []RunInv
<1>1. Init => RunInv
  BY InitType DEF Init, RunInv, StopInv, GroupInv
<1>2. RunInv /\ [Next]_vars => RunInv'
  BY StepType, StepStop, StepGroup DEF RunInv
<1> QED
  BY <1>1, <1>2, PTL DEF Spec

\* Every variable has its type in every reachable state (run.go:25-174).
THEOREM CommandTypeCorrect == Spec => []TypeOK
BY RunInvariant, PTL DEF RunInv

\* For any number of processes and whatever they make of a signal: after a stop
\* nothing of the command is left in its process group (run.go:108-112).
THEOREM NothingIsLeft == Spec => []NothingLeft
<1>1. RunInv => NothingLeft
  BY DEF RunInv, GroupInv, NothingLeft
<1> QED
  BY <1>1, RunInvariant, PTL

\* A result is only given by Refuse, before anything was signalled, and by
\* Wait: a signalled run is final (run.go:141-168).
THEOREM StopsAreFinal == Spec => []StopIsFinal
<1> DEFINE J == pc = "done" /\ stop # "" => result = "final"
<1>1. Init => J
  BY DEF Init
<1>2. RunInv /\ J /\ [Next]_vars => J'
  <2> SUFFICES ASSUME RunInv, J, [Next]_vars PROVE J'
    OBVIOUS
  <2>1. CASE Refuse \/ Wait
    BY <2>1 DEF Refuse, Wait, Outcome
  <2>2. CASE pc' # "done"
    BY <2>2
  <2>3. CASE UNCHANGED <<pc, stop, result>>
    BY <2>3
  <2>4. CASE Command
    <3>1. CASE Start \/ Listen \/ SelectOutputEnd \/ Term \/ Kill \/ Drain
      BY <3>1 DEF Start, Listen, SelectOutputEnd, Term, Kill, Drain
    <3>2. ASSUME NEW why \in {"timeout", "cancelled"}, SelectStop(why) PROVE J'
      BY <3>2 DEF SelectStop
    <3> QED
      BY <2>1, <2>4, <3>1, <3>2 DEF Command
  <2>5. CASE CopyOutput \/ TeeFails \/ Send \/ Outside \/ UNCHANGED vars
    <3>1. UNCHANGED <<pc, stop, result>>
      BY <2>5 DEF CopyOutput, TeeFails, CopyEnds, Send, Outside, CloseOutput, Exit, Fork,
                  LeaveGroup, TimerFires, Cancel, vars
    <3> QED
      BY <2>3, <3>1
  <2> QED
    BY <2>4, <2>5 DEF Next
<1>3. RunInv /\ J => StopIsFinal
  BY DEF RunInv, StopInv, StopIsFinal
<1> QED
  BY <1>1, <1>2, <1>3, RunInvariant, PTL DEF Spec

=============================================================================
