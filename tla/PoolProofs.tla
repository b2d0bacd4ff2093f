----------------------------- MODULE PoolProofs -----------------------------
(***************************************************************************)
(* What holds of the pool for every set of tasks, every finite set of      *)
(* goroutines and killers, and every value of the tasks' fields.           *)
(***************************************************************************)
EXTENDS Pool, FiniteSetTheorems, TLAPS

USE DEF Owning, Numbering, Attempting, Outcome

Places == Owning \cup {"idle", "gate", "kill", "cancel", "regate", "skipped", "done"}

-----------------------------------------------------------------------------
(* Type correctness *)

LEMMA InitType == Init => TypeOK
  BY RunAssumption DEF Init, TypeOK, Conf

LEMMA LimitType == ASSUME TypeOK, NEW t \in Task PROVE Limit(t) \in Nat \ {0}
  BY FieldAssumption DEF Limit, TypeOK, Field

\* One step per action; an action of the pool touches a few components each.
LEMMA StepType == TypeOK /\ [Next]_vars => TypeOK'
<1> SUFFICES ASSUME TypeOK, [Next]_vars PROVE TypeOK'
  OBVIOUS
<1> USE RunAssumption
<1>1. CASE LoadTasks
  BY <1>1 DEF LoadTasks, TypeOK, execVars, killVars
<1>2. ASSUME NEW r \in Run, Dispatch(r) PROVE TypeOK'
  BY <1>2 DEF Dispatch, Goto, TypeOK, Conf, killVars, confVars
<1>3. ASSUME NEW r \in Run, Admission(r) PROVE TypeOK'
  <2>1. ASSUME Gate(r) PROVE TypeOK'
    BY <2>1 DEF Gate, Admit, Goto, TypeOK, killVars, confVars
  <2>2. ASSUME KillRunning(r) PROVE TypeOK'
    BY <2>2 DEF KillRunning, Unregister, Goto, TypeOK, confVars
  <2>3. ASSUME CancelRunning(r) PROVE TypeOK'
    BY <2>3 DEF CancelRunning, CancelVictim, Goto, TypeOK, confVars
  <2>4. ASSUME Regate(r) PROVE TypeOK'
    BY <2>4 DEF Regate, Admit, Goto, TypeOK, killVars, confVars
  <2> QED
    BY <1>3, <2>1, <2>2, <2>3, <2>4 DEF Admission
<1>4. ASSUME NEW r \in Run, Execute(r) PROVE TypeOK'
  <2>1. ASSUME Number(r) PROVE TypeOK'
    <3> DEFINE t == TaskOf[r]
               n == runSeq[r] + 1
    <3>1. t \in Task /\ n \in Nat
      BY DEF TypeOK
    <3>2. conf' \in [Task -> Conf]
      <4>1. CASE conf' = conf
        BY <4>1 DEF TypeOK
      <4>2. CASE conf' = [conf EXCEPT ![t].seq = n]
        BY <4>2, <3>1 DEF TypeOK, Conf
      <4> QED
        BY <2>1, <4>1, <4>2 DEF Number
    <3>3. /\ pc' \in [Run -> Places]
          /\ runSeq' \in [Run -> Nat]
      BY <2>1, <3>1 DEF Number, Goto, TypeOK, Places
    <3> QED
      <4>1. UNCHANGED <<running, taskRunCount, attempt, result, cancelled, victim, todo, doomed, known, fields>>
        BY <2>1 DEF Number, killVars
      <4> QED
        BY <4>1, <3>2, <3>3 DEF TypeOK, Places
  <2>2. ASSUME Disable(r) PROVE TypeOK'
    <3>1. conf' \in [Task -> Conf]
      <4>1. CASE conf' = conf
        BY <4>1 DEF TypeOK
      <4>2. CASE conf' = [conf EXCEPT ![TaskOf[r]].enabled = FALSE]
        BY <4>2 DEF TypeOK, Conf
      <4> QED
        BY <2>2, <4>1, <4>2 DEF Disable
    <3>2. /\ pc' \in [Run -> Places]
          /\ UNCHANGED <<running, taskRunCount, runSeq, attempt, result, cancelled, victim, todo, doomed, known, fields>>
      BY <2>2 DEF Disable, Goto, TypeOK, Places, killVars
    <3> QED
      BY <3>1, <3>2 DEF TypeOK, Places
  <2>3. ASSUME Register(r) PROVE TypeOK'
    BY <2>3 DEF Register, Goto, TypeOK, killVars, confVars
  <2>4. ASSUME Check(r) PROVE TypeOK'
    BY <2>4 DEF Check, Goto, TypeOK, killVars, confVars
  <2>5. ASSUME Launch(r) PROVE TypeOK'
    BY <2>5 DEF Launch, Goto, TypeOK, killVars, confVars
  <2>6. ASSUME Log(r) PROVE TypeOK'
    BY <2>6 DEF Log, Goto, TypeOK, killVars, confVars
  <2>7. ASSUME Backoff(r) PROVE TypeOK'
    BY <2>7 DEF Backoff, Goto, TypeOK, killVars, confVars
  <2>8. ASSUME Release(r) PROVE TypeOK'
    BY <2>8 DEF Release, Goto, TypeOK, killVars, confVars
  <2> QED
    BY <1>4, <2>1, <2>2, <2>3, <2>4, <2>5, <2>6, <2>7, <2>8 DEF Execute
<1>5. ASSUME NEW r \in Run, Command(r) PROVE TypeOK'
  BY <1>5 DEF Command, OutputEnds, Abort, Finish, Goto, TypeOK, killVars, confVars
<1>6. ASSUME NEW k \in Killer, Killing(k) PROVE TypeOK'
  <2>1. ASSUME NEW t \in Task, Kill(k, t) PROVE TypeOK'
    BY <2>1 DEF Kill, Unregister, TypeOK, execVars, confVars
  <2>2. ASSUME KillAll(k) PROVE TypeOK'
    BY <2>2 DEF KillAll, Registered, TypeOK, execVars, confVars
  <2>3. ASSUME KillAllNext(k) PROVE TypeOK'
    BY <2>3 DEF KillAllNext, Unregister, TypeOK, execVars, confVars
  <2>4. ASSUME KillCancel(k) PROVE TypeOK'
    BY <2>4 DEF KillCancel, CancelVictim, TypeOK, execVars, confVars
  <2> QED
    BY <1>6, <2>1, <2>2, <2>3, <2>4 DEF Killing
<1>7. CASE UNCHANGED vars
  BY <1>7 DEF vars, execVars, killVars, confVars, TypeOK
<1> QED
  BY <1>1, <1>2, <1>3, <1>4, <1>5, <1>6, <1>7 DEF Next

\* Every variable of the pool keeps its type.
THEOREM TypeCorrect == Spec => []TypeOK
  BY InitType, StepType, PTL DEF Spec

-----------------------------------------------------------------------------
(* Concurrency slots.  The counter moves only where a goroutine enters or    *)
(* leaves the places that own a slot; everything else keeps both.            *)

SlotInv ==
    \A t \in Task :
        /\ taskRunCount[t] = Cardinality(Owners(t))
        /\ taskRunCount[t] <= Limit(t)

LEMMA OwnersFinite ==
    ASSUME NEW t \in Task
    PROVE  IsFiniteSet(Owners(t)) /\ Cardinality(Owners(t)) \in Nat
<1>1. Owners(t) \in SUBSET Run
  BY DEF Owners
<1> QED
  BY <1>1, RunAssumption, FS_Subset, FS_CardinalityType

\* Nothing edits the fields of a task, so its limits stay.
LEMMA FieldsStay == [Next]_vars => UNCHANGED fields
  BY DEF Next, vars, confVars, LoadTasks, Dispatch, Admission, Gate, KillRunning,
         CancelRunning, Regate, Execute, Number, Disable, Register, Check, Launch, Log,
         Backoff, Release, Command, OutputEnds, Abort, Finish, Killing, Kill, KillAll, KillAllNext, KillCancel

LEMMA LimitStays == ASSUME UNCHANGED fields, NEW t \in Task PROVE Limit(t)' = Limit(t)
  BY DEF Limit

\* A move that neither enters nor leaves the owning places.
LEMMA KeepSlots ==
    ASSUME TypeOK, SlotInv, NEW r \in Run, NEW p \in Places,
           pc[r] \in Owning <=> p \in Owning, Goto(r, p),
           UNCHANGED <<taskRunCount, fields>>
    PROVE  SlotInv'
<1>1. ASSUME NEW t \in Task PROVE Owners(t)' = Owners(t)
  BY DEF Owners, Goto, TypeOK
<1> QED
  BY <1>1, LimitStays DEF SlotInv

LEMMA AdmitSlots ==
    ASSUME TypeOK, SlotInv, NEW r \in Run, pc[r] \notin Owning, Admit(r), UNCHANGED fields
    PROVE  SlotInv'
<1> DEFINE t == TaskOf[r]
<1>0. t \in Task
  BY RunAssumption
<1>1. CASE Goto(r, "skipped") /\ UNCHANGED taskRunCount
  BY <1>1, KeepSlots DEF Places
<1>2. CASE /\ taskRunCount[t] < Limit(t)
           /\ taskRunCount' = [taskRunCount EXCEPT ![t] = @ + 1]
           /\ Goto(r, "number")
  <2>1. Owners(t)' = Owners(t) \cup {r} /\ r \notin Owners(t)
    BY <1>0, <1>2 DEF Owners, Goto, TypeOK
  <2>2. \A u \in Task \ {t} : Owners(u)' = Owners(u)
    BY <1>0, <1>2 DEF Owners, Goto, TypeOK
  <2>3. Cardinality(Owners(t)') = Cardinality(Owners(t)) + 1
    BY <1>0, <2>1, OwnersFinite, FS_AddElement
  <2>4. taskRunCount'[t] = taskRunCount[t] + 1
        /\ \A u \in Task \ {t} : taskRunCount'[u] = taskRunCount[u]
    BY <1>0, <1>2 DEF TypeOK
  <2>5. taskRunCount[t] \in Nat /\ Limit(t) \in Nat
    BY <1>0, LimitType DEF TypeOK
  <2>6. taskRunCount'[t] = Cardinality(Owners(t)') /\ taskRunCount'[t] <= Limit(t)
    BY <1>0, <1>2, <2>3, <2>4, <2>5 DEF SlotInv
  <2> QED
    BY <2>2, <2>4, <2>6, LimitStays DEF SlotInv
<1> QED
  BY <1>1, <1>2 DEF Admit

\* The owner that leaves was counted, so the guard of the decrement holds.
LEMMA ReleaseSlots ==
    ASSUME TypeOK, SlotInv, NEW r \in Run, Release(r), UNCHANGED fields
    PROVE  SlotInv'
<1> DEFINE t == TaskOf[r]
<1>0. t \in Task
  BY RunAssumption
<1>1. Owners(t)' = Owners(t) \ {r} /\ r \in Owners(t)
  BY <1>0 DEF Release, Owners, Goto, TypeOK
<1>2. \A u \in Task \ {t} : Owners(u)' = Owners(u)
  BY <1>0 DEF Release, Owners, Goto, TypeOK
<1>3. Cardinality(Owners(t)') = Cardinality(Owners(t)) - 1
  BY <1>0, <1>1, OwnersFinite, FS_RemoveElement
<1>4. Cardinality(Owners(t)) > 0
  BY <1>0, <1>1, OwnersFinite, FS_EmptySet
<1>5. taskRunCount'[t] = taskRunCount[t] - 1
      /\ \A u \in Task \ {t} : taskRunCount'[u] = taskRunCount[u]
  BY <1>0, <1>4 DEF Release, TypeOK, SlotInv
<1>6. taskRunCount[t] \in Nat /\ Limit(t) \in Nat
  BY <1>0, LimitType DEF TypeOK
<1>7. taskRunCount'[t] = Cardinality(Owners(t)') /\ taskRunCount'[t] <= Limit(t)
  BY <1>0, <1>3, <1>5, <1>6 DEF SlotInv
<1> QED
  BY <1>2, <1>5, <1>7, LimitStays DEF SlotInv

LEMMA InitSlots == Init => SlotInv
<1> SUFFICES ASSUME Init, NEW t \in Task
             PROVE  taskRunCount[t] = Cardinality(Owners(t)) /\ taskRunCount[t] <= Limit(t)
  BY DEF SlotInv
<1>1. Owners(t) = {}
  BY DEF Init, Owners
<1> QED
  BY <1>1, FS_EmptySet, LimitType, InitType DEF Init

LEMMA StepSlots == TypeOK /\ SlotInv /\ [Next]_vars => SlotInv'
<1> SUFFICES ASSUME TypeOK, SlotInv, [Next]_vars PROVE SlotInv'
  OBVIOUS
<1> USE DEF Places
<1>fields. UNCHANGED fields
  BY FieldsStay
<1> USE <1>fields
<1>0. ASSUME UNCHANGED <<taskRunCount, pc>> PROVE SlotInv'
  BY <1>0, LimitStays DEF SlotInv, Owners
<1>1. ASSUME NEW r \in Run, Dispatch(r) PROVE SlotInv'
  BY <1>1, KeepSlots DEF Dispatch
<1>2. ASSUME NEW r \in Run, Admission(r) PROVE SlotInv'
  <2>1. CASE Gate(r)
    <3>1. CASE Admit(r)
      BY <2>1, <3>1, AdmitSlots DEF Gate
    <3>2. CASE Goto(r, IF fields[TaskOf[r]].killPrevious THEN "kill" ELSE "skipped")
               /\ UNCHANGED taskRunCount
      BY <2>1, <3>2, KeepSlots DEF Gate
    <3> QED
      BY <2>1, <3>1, <3>2 DEF Gate
  <2>2. CASE KillRunning(r)
    BY <2>2, KeepSlots DEF KillRunning
  <2>3. CASE CancelRunning(r)
    BY <2>3, KeepSlots DEF CancelRunning
  <2>4. CASE Regate(r)
    BY <2>4, AdmitSlots DEF Regate
  <2> QED
    BY <1>2, <2>1, <2>2, <2>3, <2>4 DEF Admission
<1>3. ASSUME NEW r \in Run, Execute(r) PROVE SlotInv'
  <2>1. CASE Number(r)
    <3>1. CASE Goto(r, "disable")
      BY <2>1, <3>1, KeepSlots DEF Number
    <3>2. CASE Goto(r, "register")
      BY <2>1, <3>2, KeepSlots DEF Number
    <3> QED
      BY <2>1, <3>1, <3>2 DEF Number
  <2>2. CASE Disable(r)
    BY <2>2, KeepSlots DEF Disable
  <2>3. CASE Register(r)
    BY <2>3, KeepSlots DEF Register
  <2>4. CASE Check(r)
    BY <2>4, KeepSlots DEF Check
  <2>5. CASE Launch(r)
    BY <2>5, KeepSlots DEF Launch
  <2>6. CASE Log(r)
    <3>1. CASE Goto(r, "backoff")
      BY <2>6, <3>1, KeepSlots DEF Log
    <3>2. CASE Goto(r, "release")
      BY <2>6, <3>2, KeepSlots DEF Log
    <3> QED
      BY <2>6, <3>1, <3>2 DEF Log
  <2>7. CASE Backoff(r)
    BY <2>7, KeepSlots DEF Backoff
  <2>8. CASE Release(r)
    BY <2>8, ReleaseSlots
  <2> QED
    BY <1>3, <2>1, <2>2, <2>3, <2>4, <2>5, <2>6, <2>7, <2>8 DEF Execute
<1>4. ASSUME NEW r \in Run, Command(r) PROVE SlotInv'
  BY <1>4, KeepSlots DEF Command, OutputEnds, Abort, Finish
<1>5. ASSUME NEW k \in Killer, Killing(k) PROVE SlotInv'
  BY <1>0, <1>5 DEF Killing, Kill, KillAll, KillAllNext, KillCancel, execVars
<1>6. CASE LoadTasks
  BY <1>0, <1>6 DEF LoadTasks, execVars
<1>7. CASE UNCHANGED vars
  BY <1>0, <1>7 DEF vars, execVars
<1> QED
  BY <1>1, <1>2, <1>3, <1>4, <1>5, <1>6, <1>7 DEF Next

\* The counter is exact: every slot taken at the gate is returned once.
THEOREM SlotsAreExact == Spec => []SlotsExact
<1>1. Init => TypeOK /\ SlotInv
  BY InitType, InitSlots
<1>2. TypeOK /\ SlotInv /\ [Next]_vars => (TypeOK /\ SlotInv)'
  BY StepType, StepSlots
<1>3. SlotInv => SlotsExact
  BY DEF SlotInv, SlotsExact
<1> QED
  BY <1>1, <1>2, <1>3, PTL DEF Spec

\* No task ever has more than max_concurrent runs between gate and release.
THEOREM ConcurrencyIsBounded == Spec => []ConcurrencyBound
<1>1. Init => TypeOK /\ SlotInv
  BY InitType, InitSlots
<1>2. TypeOK /\ SlotInv /\ [Next]_vars => (TypeOK /\ SlotInv)'
  BY StepType, StepSlots
<1>3. SlotInv => ConcurrencyBound
  BY DEF SlotInv, ConcurrencyBound
<1> QED
  BY <1>1, <1>2, <1>3, PTL DEF Spec

-----------------------------------------------------------------------------
(* Registration.  A run past its registration is either in Pool.running, in  *)
(* the hands of a Kill, or cancelled; the last two are never undone.         *)

Halted(r) == r \in cancelled \/ BeingKilled(r)

HandsFree == \A r \in Run : pc[r] # "cancel" => victim[r] = NoRun

TrackInv ==
    /\ HandsFree
    /\ RegisteredIsLive
    /\ NoUntrackedRun

\* A victim is only overwritten once it has been cancelled.
LEMMA HaltedIsStable ==
    ASSUME TypeOK, HandsFree, [Next]_vars, NEW r \in Run, Halted(r)
    PROVE  Halted(r)'
<1> USE RunAssumption
<1>1. ASSUME UNCHANGED victim, cancelled \subseteq cancelled' PROVE Halted(r)'
  BY <1>1 DEF Halted, BeingKilled
<1>2. ASSUME NEW a \in Run \cup Killer, CancelVictim(a) PROVE Halted(r)'
  <2>1. CASE r \in cancelled \/ victim[a] = r
    BY <1>2, <2>1 DEF CancelVictim, Halted
  <2>2. CASE \E b \in Run \cup Killer : b # a /\ victim[b] = r
    <3>1. PICK b \in Run \cup Killer : b # a /\ victim[b] = r
      BY <2>2
    <3>2. victim'[b] = r
      BY <1>2, <3>1 DEF CancelVictim, TypeOK
    <3> QED
      BY <3>2 DEF Halted, BeingKilled
  <2> QED
    BY <2>1, <2>2 DEF Halted, BeingKilled
<1>3. ASSUME NEW a \in Run \cup Killer, NEW t \in Task, victim[a] = NoRun,
             Unregister(a, t), UNCHANGED cancelled
      PROVE  Halted(r)'
  <2>1. CASE r \in cancelled
    BY <1>3, <2>1 DEF Halted
  <2>2. CASE BeingKilled(r)
    <3>1. PICK b \in Run \cup Killer : victim[b] = r
      BY <2>2 DEF BeingKilled
    <3>2. b # a
      BY <1>3, <3>1
    <3>3. victim'[b] = r
      BY <1>3, <3>1, <3>2 DEF Unregister, TypeOK
    <3> QED
      BY <3>3 DEF Halted, BeingKilled
  <2> QED
    BY <2>1, <2>2 DEF Halted
<1>4. ASSUME NEW q \in Run, Admission(q) PROVE Halted(r)'
  <2>1. CASE Gate(q) \/ Regate(q)
    BY <1>1, <2>1 DEF Gate, Regate, killVars
  <2>2. CASE KillRunning(q)
    <3>1. victim[q] = NoRun /\ TaskOf[q] \in Task
      BY <2>2 DEF KillRunning, HandsFree
    <3> QED
      BY <1>3, <2>2, <3>1 DEF KillRunning
  <2>3. CASE CancelRunning(q)
    BY <1>2, <2>3 DEF CancelRunning
  <2> QED
    BY <1>4, <2>1, <2>2, <2>3 DEF Admission
<1>5. ASSUME NEW k \in Killer, Killing(k) PROVE Halted(r)'
  <2>1. CASE \E t \in Task : Kill(k, t)
    BY <1>3, <2>1 DEF Kill, Free
  <2>2. CASE KillAll(k)
    BY <1>1, <2>2 DEF KillAll
  <2>3. CASE KillAllNext(k)
    <3>1. PICK t \in todo[k] : Unregister(k, t)
      BY <2>3 DEF KillAllNext
    <3>2. t \in Task
      BY <3>1 DEF TypeOK
    <3> QED
      BY <1>3, <2>3, <3>1, <3>2 DEF KillAllNext
  <2>4. CASE KillCancel(k)
    BY <1>2, <2>4 DEF KillCancel
  <2> QED
    BY <1>5, <2>1, <2>2, <2>3, <2>4 DEF Killing
<1>6. ASSUME NEW q \in Run, Execute(q) \/ Command(q) \/ Dispatch(q) PROVE Halted(r)'
  <2>1. UNCHANGED <<victim, cancelled>>
    BY <1>6 DEF Execute, Number, Disable, Register, Check, Launch, Log, Backoff,
                Release, Command, OutputEnds, Abort, Finish, Dispatch, killVars
  <2> QED
    BY <1>1, <2>1
<1>7. CASE LoadTasks \/ UNCHANGED vars
  BY <1>1, <1>7 DEF LoadTasks, vars, killVars
<1> QED
  BY <1>4, <1>5, <1>6, <1>7 DEF Next

LEMMA SingleOwner ==
    ASSUME SlotInv, NEW q \in Run, NEW r \in Run, TaskOf[q] = TaskOf[r],
           Limit(TaskOf[r]) = 1, pc[q] \in Owning, pc[r] \in Owning
    PROVE  q = r
<1> DEFINE S == Owners(TaskOf[r])
<1>0. TaskOf[r] \in Task
  BY RunAssumption
<1>1. q \in S /\ r \in S /\ IsFiniteSet(S) /\ Cardinality(S) \in Nat
  BY <1>0, OwnersFinite DEF Owners
<1>2. Cardinality(S) <= 1
  BY <1>0 DEF SlotInv
<1>3. IsFiniteSet(S \ {r}) /\ Cardinality(S \ {r}) = Cardinality(S) - 1
  BY <1>1, FS_RemoveElement
<1>4. Cardinality(S \ {r}) \in Nat
  BY <1>3, FS_CardinalityType
<1>5. Cardinality(S \ {r}) = 0
  BY <1>1, <1>2, <1>3, <1>4
<1>6. S \ {r} = {}
  BY <1>3, <1>5, FS_EmptySet
<1> QED
  BY <1>1, <1>6

LEMMA StepHandsFree == TypeOK /\ HandsFree /\ [Next]_vars => HandsFree'
<1> SUFFICES ASSUME TypeOK, HandsFree, [Next]_vars PROVE HandsFree'
  OBVIOUS
<1> USE RunAssumption
<1>1. ASSUME NEW q \in Run, Admission(q) PROVE HandsFree'
  BY <1>1 DEF Admission, Gate, KillRunning, CancelRunning, Regate, Admit, Goto,
              Unregister, CancelVictim, killVars, TypeOK, HandsFree
<1>2. ASSUME NEW q \in Run, Execute(q) \/ Command(q) \/ Dispatch(q) PROVE HandsFree'
  BY <1>2 DEF Execute, Number, Disable, Register, Check, Launch, Log, Backoff,
              Release, Command, OutputEnds, Abort, Finish, Dispatch, killVars, Goto, TypeOK, HandsFree
<1>3. ASSUME NEW k \in Killer, Killing(k) PROVE HandsFree'
  BY <1>3 DEF Killing, Kill, KillAll, KillAllNext, KillCancel, Unregister,
              CancelVictim, execVars, TypeOK, HandsFree
<1>4. CASE LoadTasks \/ UNCHANGED vars
  BY <1>4 DEF LoadTasks, vars, killVars, execVars, HandsFree
<1> QED
  BY <1>1, <1>2, <1>3, <1>4 DEF Next

LEMMA StepRegistered == TypeOK /\ RegisteredIsLive /\ [Next]_vars => RegisteredIsLive'
<1> SUFFICES ASSUME TypeOK, RegisteredIsLive, [Next]_vars, NEW t \in Task,
                    running'[t] # NoRun
             PROVE  TaskOf[running'[t]] = t /\ pc'[running'[t]] \in Attempting
  BY DEF RegisteredIsLive
<1> DEFINE r == running'[t]
           Goal == TaskOf[r] = t /\ pc'[r] \in Attempting
<1> USE RunAssumption
<1>1. ASSUME NEW q \in Run, NEW p \in Places, pc[q] \in Attempting => p \in Attempting,
             Goto(q, p), running'[t] = running[t]
      PROVE  Goal
  BY <1>1 DEF Goto, TypeOK, RegisteredIsLive
<1>2. ASSUME UNCHANGED pc, running'[t] = running[t] PROVE Goal
  BY <1>2 DEF RegisteredIsLive
<1>3. ASSUME NEW a \in Run \cup Killer, NEW u \in Task, Unregister(a, u)
      PROVE  running'[t] = running[t]
  BY <1>3 DEF Unregister, TypeOK
<1>4. ASSUME NEW q \in Run, Admission(q) PROVE Goal
  <2>1. CASE Gate(q) \/ Regate(q)
    BY <1>1, <2>1 DEF Gate, Regate, Admit, Places
  <2>2. CASE KillRunning(q)
    BY <1>1, <1>3, <2>2 DEF KillRunning, Places
  <2>3. CASE CancelRunning(q)
    BY <1>1, <2>3 DEF CancelRunning, Places
  <2> QED
    BY <1>4, <2>1, <2>2, <2>3 DEF Admission
<1>5. ASSUME NEW q \in Run, Execute(q) PROVE Goal
  <2>1. CASE Number(q) \/ Disable(q)
    BY <1>1, <2>1 DEF Number, Disable, Places
  <2>2. CASE Register(q)
    BY <2>2 DEF Register, Goto, TypeOK, RegisteredIsLive
  <2>3. CASE Check(q) \/ Launch(q) \/ Log(q) \/ Backoff(q)
    BY <1>1, <2>3 DEF Check, Launch, Log, Backoff, Places
  <2>4. CASE Release(q)
    <3>1. running[t] = r /\ r # q
      BY <2>4 DEF Release, TypeOK, RegisteredIsLive
    <3> QED
      BY <2>4, <3>1 DEF Release, Goto, TypeOK, RegisteredIsLive
  <2> QED
    BY <1>5, <2>1, <2>2, <2>3, <2>4 DEF Execute
<1>6. ASSUME NEW q \in Run, Command(q) \/ Dispatch(q) PROVE Goal
  BY <1>1, <1>6 DEF Command, OutputEnds, Abort, Finish, Dispatch, Places
<1>7. ASSUME NEW k \in Killer, Killing(k) PROVE Goal
  <2>1. UNCHANGED pc /\ running'[t] = running[t]
    BY <1>3, <1>7 DEF Killing, Kill, KillAll, KillAllNext, KillCancel, execVars, TypeOK
  <2> QED
    BY <1>2, <2>1
<1>8. CASE LoadTasks \/ UNCHANGED vars
  BY <1>2, <1>8 DEF LoadTasks, vars, execVars
<1> QED
  BY <1>4, <1>5, <1>6, <1>7, <1>8 DEF Next

\* A run that is past its registration and not halted is the registered one,
\* because with a single slot no other run of the task can register.
LEMMA StepTracked ==
    TypeOK /\ SlotInv /\ HandsFree /\ RegisteredIsLive /\ NoUntrackedRun /\ [Next]_vars
        => NoUntrackedRun'
<1> SUFFICES ASSUME TypeOK, SlotInv, HandsFree, RegisteredIsLive, NoUntrackedRun, [Next]_vars,
                    NEW r \in Run, Limit(TaskOf[r]) = 1, pc'[r] \in Attempting
             PROVE  running'[TaskOf[r]] = r \/ Halted(r)'
  BY RunAssumption, FieldsStay, LimitStays DEF NoUntrackedRun, Halted, BeingKilled
<1> DEFINE t == TaskOf[r]
           Goal == running'[t] = r \/ Halted(r)'
<1> USE RunAssumption
<1>0. t \in Task
  OBVIOUS
<1>1. CASE Halted(r)
  BY <1>1, HaltedIsStable
<1>2. CASE pc[r] \in Attempting /\ running[t] = r
  <2>1. ASSUME running'[t] = running[t] PROVE Goal
    BY <1>2, <2>1
  <2>2. ASSUME NEW a \in Run \cup Killer, NEW u \in Task, Unregister(a, u) PROVE Goal
    <3>1. CASE u = t
      <4>1. victim'[a] = r
        BY <1>2, <2>2, <3>1 DEF Unregister, TypeOK
      <4> QED
        BY <4>1 DEF Halted, BeingKilled
    <3>2. CASE u # t
      BY <1>0, <2>1, <2>2, <3>2 DEF Unregister, TypeOK
    <3> QED
      BY <3>1, <3>2
  <2>3. ASSUME NEW q \in Run, Admission(q) PROVE Goal
    BY <2>1, <2>2, <2>3 DEF Admission, Gate, KillRunning, CancelRunning, Regate
  <2>4. ASSUME NEW q \in Run, Execute(q) PROVE Goal
    <3>1. CASE Register(q)
      <4>1. TaskOf[q] # t
        <5>1. pc[q] \in Owning /\ pc[r] \in Owning /\ q # r
          BY <1>2, <3>1 DEF Register
        <5> QED
          BY <5>1, SingleOwner
      <4> QED
        BY <1>0, <2>1, <3>1, <4>1 DEF Register, TypeOK
    <3>2. CASE Release(q)
      <4>1. q # r
        BY <3>2 DEF Release, Goto, TypeOK
      <4> QED
        BY <1>2, <3>2, <4>1 DEF Release, TypeOK
    <3>3. CASE ~Register(q) /\ ~Release(q)
      BY <2>1, <2>4, <3>3 DEF Execute, Number, Disable, Check, Launch, Log, Backoff
    <3> QED
      BY <3>1, <3>2, <3>3
  <2>5. ASSUME NEW q \in Run, Command(q) \/ Dispatch(q) PROVE Goal
    BY <2>1, <2>5 DEF Command, OutputEnds, Abort, Finish, Dispatch
  <2>6. ASSUME NEW k \in Killer, Killing(k) PROVE Goal
    BY <2>1, <2>2, <2>6 DEF Killing, Kill, KillAll, KillAllNext, KillCancel, TypeOK
  <2>7. CASE LoadTasks \/ UNCHANGED vars
    BY <2>1, <2>7 DEF LoadTasks, vars
  <2> QED
    BY <2>3, <2>4, <2>5, <2>6, <2>7 DEF Next
<1>3. CASE pc[r] \notin Attempting
  <2>1. ASSUME NEW q \in Run, NEW p \in Places,
               Goto(q, p), p \notin Attempting \/ pc[q] \in Attempting
        PROVE  FALSE
    BY <1>3, <2>1 DEF Goto, TypeOK
  <2>2. pc' # pc
    BY <1>3
  <2>3. ASSUME NEW q \in Run, Register(q) PROVE Goal
    <3>1. q = r
      BY <1>3, <2>3 DEF Register, Goto, TypeOK
    <3> QED
      BY <1>0, <2>3, <3>1 DEF Register, TypeOK
  <2>4. ASSUME NEW q \in Run, Admission(q) PROVE FALSE
    BY <2>1, <2>4 DEF Admission, Gate, KillRunning, CancelRunning, Regate, Admit, Places
  <2>5. ASSUME NEW q \in Run, Execute(q) PROVE Goal
    BY <2>1, <2>3, <2>5 DEF Execute, Number, Disable, Check, Launch, Log, Backoff, Release, Places
  <2>6. ASSUME NEW q \in Run, Command(q) \/ Dispatch(q) PROVE FALSE
    BY <2>1, <2>6 DEF Command, OutputEnds, Abort, Finish, Dispatch, Places
  <2>7. ASSUME NEW k \in Killer, Killing(k) PROVE FALSE
    BY <2>2, <2>7 DEF Killing, Kill, KillAll, KillAllNext, KillCancel, execVars
  <2>8. CASE LoadTasks \/ UNCHANGED vars
    BY <2>2, <2>8 DEF LoadTasks, vars, execVars
  <2> QED
    BY <2>4, <2>5, <2>6, <2>7, <2>8 DEF Next
<1> QED
  BY <1>1, <1>2, <1>3 DEF NoUntrackedRun, Halted

PoolInv == TypeOK /\ SlotInv /\ TrackInv

LEMMA InitPool == Init => PoolInv
<1>1. Init => TrackInv
  BY RunAssumption DEF Init, TrackInv, HandsFree, RegisteredIsLive, NoUntrackedRun
<1> QED
  BY <1>1, InitType, InitSlots DEF PoolInv

LEMMA StepPool == PoolInv /\ [Next]_vars => PoolInv'
  BY StepType, StepSlots, StepHandsFree, StepRegistered, StepTracked DEF PoolInv, TrackInv

\* ps and stop requests always act on a live run of the task they name.
THEOREM RegisteredRunsAreLive == Spec => []RegisteredIsLive
<1>1. PoolInv => RegisteredIsLive
  BY DEF PoolInv, TrackInv
<1> QED
  BY <1>1, InitPool, StepPool, PTL DEF Spec

\* With one slot per task, no run past its registration escapes the pool.
THEOREM NoRunIsUntracked == Spec => []NoUntrackedRun
<1>1. PoolInv => NoUntrackedRun
  BY DEF PoolInv, TrackInv
<1> QED
  BY <1>1, InitPool, StepPool, PTL DEF Spec

-----------------------------------------------------------------------------
(* KillAll.  A run of the snapshot whose task id is still to do is either     *)
(* the registered run, or halted, or over (NoUntrackedRun), so that the Kill  *)
(* of its id cannot miss it.                                                  *)

DoomInv ==
    \A k \in Killer : \A r \in doomed[k] :
        /\ pc[r] \in Attempting \cup {"done"}
        /\ Limit(TaskOf[r]) = 1 /\ TaskOf[r] \notin todo[k] => Stopped(r)

\* A run past its registration attempts until it is done.
LEMMA AttemptingIsStable ==
    ASSUME TypeOK, [Next]_vars, NEW r \in Run, pc[r] \in Attempting \cup {"done"}
    PROVE  pc'[r] \in Attempting \cup {"done"} /\ (pc[r] = "done" => pc'[r] = "done")
<1> DEFINE Goal == pc'[r] \in Attempting \cup {"done"} /\ (pc[r] = "done" => pc'[r] = "done")
<1>1. ASSUME NEW q \in Run, NEW p, Goto(q, p),
             q = r => p \in Attempting \cup {"done"} /\ pc[q] # "done"
      PROVE  Goal
  BY <1>1 DEF Goto, TypeOK
<1>2. ASSUME NEW q \in Run, Admission(q) PROVE Goal
  BY <1>1, <1>2 DEF Admission, Gate, KillRunning, CancelRunning, Regate, Admit
<1>3. ASSUME NEW q \in Run, Execute(q) PROVE Goal
  BY <1>1, <1>3 DEF Execute, Number, Disable, Register, Check, Launch, Log, Backoff, Release
<1>4. ASSUME NEW q \in Run, Command(q) \/ Dispatch(q) PROVE Goal
  BY <1>1, <1>4 DEF Command, OutputEnds, Abort, Finish, Dispatch
<1>5. ASSUME UNCHANGED pc PROVE Goal
  BY <1>5
<1>6. ASSUME NEW k \in Killer, Killing(k) PROVE Goal
  BY <1>5, <1>6 DEF Killing, Kill, KillAll, KillAllNext, KillCancel, execVars
<1>7. CASE LoadTasks \/ UNCHANGED vars
  BY <1>5, <1>7 DEF LoadTasks, vars, execVars
<1> QED
  BY <1>2, <1>3, <1>4, <1>6, <1>7 DEF Next

LEMMA StoppedIsStable ==
    ASSUME TypeOK, HandsFree, [Next]_vars, NEW r \in Run, Stopped(r)
    PROVE  Stopped(r)'
  BY HaltedIsStable, AttemptingIsStable DEF Stopped, Halted

LEMMA StepDoom == PoolInv /\ DoomInv /\ [Next]_vars => DoomInv'
<1> SUFFICES ASSUME PoolInv, DoomInv, [Next]_vars PROVE DoomInv'
  OBVIOUS
<1>a. ASSUME NEW k \in Killer, NEW r \in doomed'[k] PROVE Limit(TaskOf[r])' = Limit(TaskOf[r])
  <2>1. r \in Run
    BY <1>a, StepType DEF PoolInv, TypeOK
  <2> QED
    BY <2>1, RunAssumption, FieldsStay, LimitStays
<1> SUFFICES ASSUME NEW k \in Killer, NEW r \in doomed'[k]
             PROVE  /\ pc'[r] \in Attempting \cup {"done"}
                    /\ Limit(TaskOf[r]) = 1 /\ TaskOf[r] \notin todo'[k] => Stopped(r)'
  BY <1>a DEF DoomInv
<1> DEFINE Goal == /\ pc'[r] \in Attempting \cup {"done"}
                   /\ Limit(TaskOf[r]) = 1 /\ TaskOf[r] \notin todo'[k] => Stopped(r)'
<1> USE RunAssumption
<1>0. TypeOK /\ HandsFree /\ RegisteredIsLive /\ NoUntrackedRun
  BY DEF PoolInv, TrackInv
<1>1. ASSUME r \in doomed[k], TaskOf[r] \in todo[k] => TaskOf[r] \in todo'[k] PROVE Goal
  <2>1. r \in Run
    BY <1>0, <1>1 DEF TypeOK
  <2> QED
    BY <1>0, <1>1, <2>1, AttemptingIsStable, StoppedIsStable DEF DoomInv
<1>2. CASE KillAll(k)
  <2>1. PICK u \in Task : running[u] = r /\ u \in todo'[k] /\ r # NoRun
    BY <1>0, <1>2 DEF KillAll, Registered, TypeOK
  <2>2. TaskOf[r] = u /\ pc[r] \in Attempting /\ pc' = pc
    BY <1>0, <1>2, <2>1 DEF RegisteredIsLive, KillAll, execVars
  <2> QED
    BY <2>1, <2>2
<1>3. CASE KillAllNext(k)
  <2>1. PICK u \in todo[k] : todo' = [todo EXCEPT ![k] = @ \ {u}] /\ Unregister(k, u)
    BY <1>3 DEF KillAllNext
  <2>2. r \in doomed[k] /\ r \in Run /\ u \in Task /\ pc' = pc /\ cancelled' = cancelled
    BY <1>0, <1>3, <2>1 DEF KillAllNext, execVars, TypeOK
  <2>3. CASE TaskOf[r] # u \/ pc[r] = "done" \/ Halted(r) \/ Limit(TaskOf[r]) # 1
    <3>1. CASE TaskOf[r] # u
      BY <1>0, <1>1, <2>1, <2>2, <3>1 DEF TypeOK
    <3>2. CASE pc[r] = "done" \/ Halted(r)
      BY <1>0, <2>2, <3>2, StoppedIsStable, AttemptingIsStable DEF Stopped, Halted, DoomInv
    <3>3. CASE Limit(TaskOf[r]) # 1
      BY <2>2, <3>3 DEF DoomInv
    <3> QED
      BY <2>3, <3>1, <3>2, <3>3
  <2>4. CASE TaskOf[r] = u /\ pc[r] # "done" /\ ~Halted(r) /\ Limit(TaskOf[r]) = 1
    <3>1. pc[r] \in Attempting
      BY <2>2, <2>4 DEF DoomInv
    <3>2. running[u] = r
      BY <1>0, <2>2, <2>4, <3>1 DEF NoUntrackedRun, Halted
    <3>3. victim'[k] = r
      BY <1>0, <2>1, <3>2 DEF Unregister, TypeOK
    <3> QED
      BY <2>2, <3>1, <3>3 DEF Stopped, BeingKilled
  <2> QED
    BY <2>3, <2>4
<1>4. ASSUME NEW m \in Killer, Killing(m), ~KillAll(k), ~KillAllNext(k) PROVE Goal
  BY <1>0, <1>1, <1>4 DEF Killing, Kill, KillAll, KillAllNext, KillCancel, TypeOK
<1>5. ASSUME NEW q \in Run, Admission(q) \/ Execute(q) \/ Command(q) \/ Dispatch(q) PROVE Goal
  <2>1. UNCHANGED <<doomed, todo>>
    BY <1>5 DEF Admission, Gate, KillRunning, CancelRunning, Regate, Execute, Number, Disable,
                Register, Check, Launch, Log, Backoff, Release, Command, OutputEnds, Abort, Finish, Dispatch, killVars
  <2> QED
    BY <1>1, <2>1
<1>6. CASE LoadTasks \/ UNCHANGED vars
  BY <1>1, <1>6 DEF LoadTasks, vars, killVars
<1> QED
  BY <1>2, <1>3, <1>4, <1>5, <1>6 DEF Next

\* For tasks with a single slot, KillAll reaches every run of its snapshot,
\* whatever ends, starts or is killed by others meanwhile.
THEOREM KillAllIsComplete == Spec => []KillAllReachesSingle
<1>1. Init => DoomInv
  BY DEF Init, DoomInv
<1>2. PoolInv /\ DoomInv => KillAllReachesSingle
  BY DEF DoomInv, KillAllReachesSingle
<1> QED
  BY <1>1, <1>2, InitPool, StepPool, StepDoom, PTL DEF Spec

\* With a single slot per task no run escapes a stop, of one task or of all.
THEOREM StopReachesRuns == Spec => []StopReaches
<1>1. NoUntrackedRun /\ KillAllReachesSingle => StopReaches
  BY DEF StopReaches
<1> QED
  BY <1>1, NoRunIsUntracked, KillAllIsComplete, PTL

-----------------------------------------------------------------------------
(* The attempts of a run.  What a run may still do follows from its place,    *)
(* its attempts so far and the result of the last one.                        *)

AttemptOf(r) ==
    /\ attempt[r] <= 1 + Retries(TaskOf[r])
    /\ pc[r] \notin Attempting \cup {"done"} => attempt[r] = 0
    /\ pc[r] \in {"check", "backoff"} => attempt[r] <= Retries(TaskOf[r])
    /\ pc[r] = "backoff" => result[r] = "fail"
    /\ pc[r] = "check" /\ attempt[r] > 0 => result[r] = "fail"
    /\ pc[r] \in {"launch", "wait", "reap"} /\ attempt[r] > 1 => result[r] = "fail"

AttemptInv == \A r \in Run : AttemptOf(r)

LEMMA RetriesType == ASSUME TypeOK, NEW t \in Task PROVE Retries(t) \in Nat
  BY FieldAssumption DEF Retries, TypeOK, Field

LEMMA RetriesStay == ASSUME UNCHANGED fields, NEW t \in Task PROVE Retries(t)' = Retries(t)
  BY DEF Retries

\* A goroutine decides on the attempts of its own run alone.
LEMMA OthersAttempts ==
    ASSUME TypeOK, NEW r \in Run, AttemptOf(r), UNCHANGED fields,
           attempt'[r] = attempt[r], result'[r] = result[r], pc'[r] = pc[r]
    PROVE  AttemptOf(r)'
  BY RunAssumption, RetriesStay DEF AttemptOf

LEMMA StepAttempts == TypeOK /\ AttemptInv /\ [Next]_vars => AttemptInv'
<1> SUFFICES ASSUME TypeOK, AttemptInv, [Next]_vars, NEW r \in Run PROVE AttemptOf(r)'
  BY DEF AttemptInv
<1> DEFINE n == Retries(TaskOf[r])
<1>0. AttemptOf(r) /\ TaskOf[r] \in Task /\ UNCHANGED fields
  BY FieldsStay, RunAssumption DEF AttemptInv
<1>1. n \in Nat /\ n' = n /\ attempt[r] \in Nat
  BY <1>0, RetriesType, RetriesStay, RunAssumption DEF TypeOK
<1>2. ASSUME UNCHANGED <<attempt, result, pc>> PROVE AttemptOf(r)'
  BY <1>0, <1>2, OthersAttempts
<1>3. ASSUME NEW q \in Run, q # r, Dispatch(q) \/ Admission(q) \/ Execute(q) \/ Command(q)
      PROVE  AttemptOf(r)'
  <2>1. attempt'[r] = attempt[r] /\ result'[r] = result[r] /\ pc'[r] = pc[r]
    BY <1>3 DEF Dispatch, Admission, Gate, Admit, KillRunning, CancelRunning, Regate, Execute,
                Number, Disable, Register, Check, Launch, Log, Backoff, Release, Command, OutputEnds, Abort, Finish, Goto, TypeOK
  <2> QED
    BY <1>0, <2>1, OthersAttempts
<1> USE DEF AttemptOf, Goto, TypeOK, Owning, Numbering, Attempting
<1>4. CASE Dispatch(r)
  BY <1>0, <1>1, <1>4 DEF Dispatch
<1>5. CASE Admission(r)
  BY <1>0, <1>1, <1>5 DEF Admission, Gate, Admit, KillRunning, CancelRunning, Regate
<1>6. CASE Number(r) \/ Disable(r) \/ Register(r)
  BY <1>0, <1>1, <1>6 DEF Number, Disable, Register
<1>7. CASE Check(r)
  BY <1>0, <1>1, <1>7 DEF Check
<1>8. CASE Launch(r) \/ Command(r)
  BY <1>0, <1>1, <1>8 DEF Launch, Command, OutputEnds, Abort, Finish
<1>9. CASE Log(r)
  BY <1>0, <1>1, <1>9 DEF Log
<1>10. CASE Backoff(r) \/ Release(r)
  BY <1>0, <1>1, <1>10 DEF Backoff, Release
<1>11. ASSUME NEW k \in Killer, Killing(k) PROVE AttemptOf(r)'
  BY <1>2, <1>11 DEF Killing, Kill, KillAll, KillAllNext, KillCancel, execVars
<1>12. CASE LoadTasks \/ UNCHANGED vars
  BY <1>2, <1>12 DEF LoadTasks, vars, execVars
<1> QED
  BY <1>3, <1>4, <1>5, <1>6, <1>7, <1>8, <1>9, <1>10, <1>11, <1>12 DEF Next, Execute

\* A run makes at most 1 + max_retries attempts, and a second one only after an
\* exit code of the command, for every number of retries.
THEOREM RetriesAreDisciplined == Spec => []RetryDiscipline
<1>1. ASSUME Init PROVE TypeOK /\ AttemptInv
  <2>1. TypeOK
    BY <1>1, InitType
  <2>2. \A t \in Task : Retries(t) \in Nat
    BY <2>1, RetriesType
  <2> QED
    BY <1>1, <2>1, <2>2, RunAssumption DEF Init, AttemptInv, AttemptOf, Attempting
<1>2. TypeOK /\ AttemptInv /\ [Next]_vars => (TypeOK /\ AttemptInv)'
  BY StepType, StepAttempts
<1>3. AttemptInv => RetryDiscipline
  BY DEF AttemptInv, AttemptOf, RetryDiscipline
<1> QED
  BY <1>1, <1>2, <1>3, PTL DEF Spec

\* A run whose context is cancelled starts no process, unless it was past the
\* context check already.
THEOREM NothingStartsAfterStop == Spec => NoProcessAfterStop
<1>1. TypeOK /\ [Next]_vars => \A r \in Run : r \in cancelled /\ pc[r] # "launch" =>
                                     pc'[r] \notin {"launch", "wait"} \/ pc'[r] = pc[r]
  <2> SUFFICES ASSUME TypeOK, [Next]_vars, NEW r \in Run, r \in cancelled, pc[r] # "launch"
               PROVE  pc'[r] \notin {"launch", "wait"} \/ pc'[r] = pc[r]
    OBVIOUS
  <2>1. ASSUME NEW q \in Run, NEW p, Goto(q, p), q = r => p \notin {"launch", "wait"}
        PROVE  pc'[r] \notin {"launch", "wait"} \/ pc'[r] = pc[r]
    BY <2>1 DEF Goto, TypeOK
  <2>2. ASSUME NEW q \in Run, Dispatch(q) \/ Admission(q) \/ Command(q)
        PROVE  pc'[r] \notin {"launch", "wait"} \/ pc'[r] = pc[r]
    BY <2>1, <2>2 DEF Dispatch, Admission, Gate, KillRunning, CancelRunning, Regate, Admit, Command, OutputEnds, Abort, Finish
  <2>3. ASSUME NEW q \in Run, Execute(q)
        PROVE  pc'[r] \notin {"launch", "wait"} \/ pc'[r] = pc[r]
    BY <2>1, <2>3 DEF Execute, Number, Disable, Register, Check, Launch, Log, Backoff, Release
  <2>4. ASSUME NEW k \in Killer, Killing(k) PROVE UNCHANGED pc
    BY <2>4 DEF Killing, Kill, KillAll, KillAllNext, KillCancel, execVars
  <2>5. CASE LoadTasks \/ UNCHANGED vars
    BY <2>5 DEF LoadTasks, vars, execVars
  <2> QED
    BY <2>2, <2>3, <2>4, <2>5 DEF Next
<1> QED
  BY <1>1, TypeCorrect, PTL DEF Spec, NoProcessAfterStop

-----------------------------------------------------------------------------
(* The run numbers.  A goroutine counts on from the number of a stale copy,   *)
(* which was reached by runs admitted before its own: so the number it writes *)
(* is never larger than the number of admitted runs, its own included.        *)

NumberFits(t, n) == n <= Cardinality(Admitted(t))
UsedUp(t) == fields[t].maxRuns > 0 /\ Cardinality(Admitted(t)) >= fields[t].maxRuns

ConfCounted(t) ==
    /\ NumberFits(t, conf[t].seq) /\ NumberFits(t, known[t].seq)
    /\ ~conf[t].enabled => UsedUp(t)

RunCounted(r) ==
    /\ pc[r] \in {"gate", "kill", "cancel", "regate", "number"} =>
          runSeq[r] <= Cardinality(Admitted(TaskOf[r]) \ {r})
    /\ pc[r] = "disable" => UsedUp(TaskOf[r])

CountInv == (\A t \in Task : ConfCounted(t)) /\ \A r \in Run : RunCounted(r)

LEMMA AdmittedFinite ==
    ASSUME NEW t \in Task
    PROVE  IsFiniteSet(Admitted(t)) /\ Cardinality(Admitted(t)) \in Nat
<1>1. Admitted(t) \in SUBSET Run
  BY DEF Admitted
<1> QED
  BY <1>1, RunAssumption, FS_Subset, FS_CardinalityType

\* An admitted run stays one.
LEMMA AdmittedGrows ==
    ASSUME TypeOK, [Next]_vars, NEW t \in Task
    PROVE  Admitted(t) \subseteq Admitted(t)'
<1> SUFFICES ASSUME NEW r \in Run, pc[r] \in Owning \cup {"done"}
             PROVE  pc'[r] \in Owning \cup {"done"}
  BY DEF Admitted
<1> USE DEF Owning, Numbering, Attempting
<1>1. ASSUME NEW q \in Run, NEW p, Goto(q, p), q = r => p \in Owning \cup {"done"}
      PROVE  pc'[r] \in Owning \cup {"done"}
  BY <1>1 DEF Goto, TypeOK
<1>2. ASSUME NEW q \in Run, Dispatch(q) \/ Admission(q) \/ Command(q)
      PROVE  pc'[r] \in Owning \cup {"done"}
  BY <1>1, <1>2 DEF Dispatch, Admission, Gate, KillRunning, CancelRunning, Regate, Admit, Command, OutputEnds, Abort, Finish
<1>3. ASSUME NEW q \in Run, Execute(q) PROVE pc'[r] \in Owning \cup {"done"}
  BY <1>1, <1>3 DEF Execute, Number, Disable, Register, Check, Launch, Log, Backoff, Release
<1>4. ASSUME NEW k \in Killer, Killing(k) PROVE UNCHANGED pc
  BY <1>4 DEF Killing, Kill, KillAll, KillAllNext, KillCancel, execVars
<1>5. CASE LoadTasks \/ UNCHANGED vars
  BY <1>5 DEF LoadTasks, vars, execVars
<1> QED
  BY <1>2, <1>3, <1>4, <1>5 DEF Next

LEMMA CountGrows ==
    ASSUME TypeOK, [Next]_vars, NEW t \in Task, NEW S
    PROVE  /\ Cardinality(Admitted(t) \ S) \in Nat /\ Cardinality(Admitted(t) \ S)' \in Nat
           /\ Cardinality(Admitted(t) \ S) <= Cardinality(Admitted(t)' \ S)
<1>1. IsFiniteSet(Admitted(t)) /\ Admitted(t)' \in SUBSET Run /\ IsFiniteSet(Admitted(t)')
  <2>1. Admitted(t)' \in SUBSET Run
    BY DEF Admitted
  <2> QED
    BY <2>1, AdmittedFinite, RunAssumption, FS_Subset
<1> QED
  BY <1>1, AdmittedGrows, FS_Subset, FS_CardinalityType

\* What the goroutine r may do to its number and its place.
LEMMA OwnCount ==
    ASSUME TypeOK, CountInv, [Next]_vars, NEW r \in Run
    PROVE  RunCounted(r)'
<1> DEFINE t == TaskOf[r]
           before == Cardinality(Admitted(t) \ {r})
           after == Cardinality(Admitted(t) \ {r})'
           waiting == {"gate", "kill", "cancel", "regate", "number"}
<1>0. t \in Task /\ RunCounted(r) /\ ConfCounted(t) /\ TypeOK' /\ UNCHANGED fields
  BY RunAssumption, StepType, FieldsStay DEF CountInv
<1>1. before \in Nat /\ after \in Nat /\ before <= after
  BY <1>0, CountGrows
<1>2. UsedUp(t) => UsedUp(t)'
  <2>1. /\ Cardinality(Admitted(t) \ {}) \in Nat /\ Cardinality(Admitted(t) \ {})' \in Nat
        /\ Cardinality(Admitted(t) \ {}) <= Cardinality(Admitted(t)' \ {})
    BY <1>0, CountGrows
  <2>2. fields[t].maxRuns \in Int
    BY <1>0, FieldAssumption DEF TypeOK, Field
  <2>3. Admitted(t) \ {} = Admitted(t) /\ Admitted(t)' \ {} = Admitted(t)'
    OBVIOUS
  <2> QED
    BY <1>0, <2>1, <2>2, <2>3 DEF UsedUp
<1>3. runSeq[r] \in Nat /\ runSeq'[r] \in Nat
  BY <1>0 DEF TypeOK
<1> HIDE DEF before, after
<1>4. ASSUME pc'[r] = pc[r] \/ (pc[r] \in waiting /\ pc'[r] \in waiting) \/ pc'[r] \notin waiting \cup {"disable"},
             runSeq'[r] = runSeq[r] \/ pc'[r] \notin waiting
      PROVE  RunCounted(r)'
  BY <1>0, <1>1, <1>2, <1>3, <1>4 DEF RunCounted, before, after
<1>5. ASSUME NEW q \in Run, q # r, Dispatch(q) \/ Admission(q) \/ Execute(q) \/ Command(q)
      PROVE  RunCounted(r)'
  <2>1. runSeq'[r] = runSeq[r] /\ pc'[r] = pc[r]
    BY <1>5 DEF Dispatch, Admission, Gate, Admit, KillRunning, CancelRunning, Regate, Execute,
                Number, Disable, Register, Check, Launch, Log, Backoff, Release, Command, OutputEnds, Abort, Finish, Goto, TypeOK
  <2> QED
    BY <1>4, <2>1
<1>6. CASE Dispatch(r)
  <2>1. pc[r] = "idle" /\ pc'[r] = "gate" /\ runSeq'[r] = known[t].seq
    BY <1>6 DEF Dispatch, Goto, TypeOK
  <2>2. r \notin Admitted(t)
    BY <2>1 DEF Admitted, Owning, Numbering, Attempting
  <2>3. before = Cardinality(Admitted(t)) /\ known[t].seq <= before /\ known[t].seq \in Nat
    BY <1>0, <2>2 DEF before, ConfCounted, NumberFits, TypeOK, Conf
  <2> QED
    BY <1>1, <2>1, <2>3 DEF RunCounted, before, after
<1>7. CASE Admission(r)
  <2>1. /\ runSeq' = runSeq /\ pc[r] \in waiting /\ pc'[r] \in waiting \cup {"skipped"}
    BY <1>7 DEF Admission, Gate, Admit, KillRunning, CancelRunning, Regate, Goto, TypeOK
  <2> QED
    BY <1>4, <2>1
<1>8. CASE Number(r)
  <2>1. /\ pc[r] = "number" /\ pc'[r] \in {"disable", "register"}
        /\ pc'[r] = "disable" => fields[t].maxRuns > 0 /\ runSeq[r] + 1 >= fields[t].maxRuns
    BY <1>8 DEF Number, Goto, TypeOK
  <2>2. r \in Admitted(t) /\ IsFiniteSet(Admitted(t))
    BY <1>0, <2>1, AdmittedFinite DEF Admitted, Owning, Numbering
  <2>3. Cardinality(Admitted(t)) = before + 1
    <3>1. Cardinality(Admitted(t) \ {r}) = Cardinality(Admitted(t)) - 1
      BY <2>2, FS_RemoveElement
    <3>2. Cardinality(Admitted(t)) \in Nat
      BY <1>0, AdmittedFinite
    <3> QED
      BY <3>1, <3>2 DEF before
  <2>4. runSeq[r] <= before
    BY <1>0, <2>1 DEF RunCounted, before
  <2>5. fields[t].maxRuns \in Int
    BY <1>0, FieldAssumption DEF TypeOK, Field
  <2>6. pc'[r] = "disable" => UsedUp(t)
    BY <1>1, <1>3, <2>1, <2>3, <2>4, <2>5 DEF UsedUp
  <2> QED
    BY <1>0, <1>2, <2>1, <2>6 DEF RunCounted
<1>9. CASE Disable(r) \/ Register(r) \/ Check(r) \/ Launch(r) \/ Log(r) \/ Backoff(r) \/ Release(r) \/ Command(r)
  <2>1. pc'[r] \notin waiting \cup {"disable"}
    BY <1>9 DEF Disable, Register, Check, Launch, Log, Backoff, Release, Command, OutputEnds, Abort, Finish, Goto, TypeOK
  <2> QED
    BY <1>4, <2>1
<1>10. ASSUME NEW k \in Killer, Killing(k) PROVE UNCHANGED <<runSeq, pc>>
  BY <1>10 DEF Killing, Kill, KillAll, KillAllNext, KillCancel, execVars
<1>11. CASE LoadTasks \/ UNCHANGED vars
  BY <1>4, <1>11 DEF LoadTasks, vars, execVars
<1> QED
  BY <1>4, <1>5, <1>6, <1>7, <1>8, <1>9, <1>10, <1>11 DEF Next, Execute

\* A number is written by a run that was admitted after the number it counts
\* on from was reached; a task is disabled by one that has reached max_runs.
LEMMA ConfCount ==
    ASSUME TypeOK, CountInv, [Next]_vars, NEW t \in Task
    PROVE  ConfCounted(t)'
<1> DEFINE before == Cardinality(Admitted(t))
           after == Cardinality(Admitted(t))'
<1>0. ConfCounted(t) /\ TypeOK' /\ UNCHANGED fields
  BY StepType, FieldsStay DEF CountInv
<1>1. before \in Nat /\ after \in Nat /\ before <= after
  <2>1. /\ Cardinality(Admitted(t) \ {}) \in Nat /\ Cardinality(Admitted(t) \ {})' \in Nat
        /\ Cardinality(Admitted(t) \ {}) <= Cardinality(Admitted(t)' \ {})
    BY CountGrows
  <2>2. Admitted(t) \ {} = Admitted(t) /\ Admitted(t)' \ {} = Admitted(t)'
    OBVIOUS
  <2> QED
    BY <2>1, <2>2
<1>2. UsedUp(t) => UsedUp(t)'
  <2>1. fields[t].maxRuns \in Int
    BY <1>0, FieldAssumption DEF TypeOK, Field
  <2> QED
    BY <1>0, <1>1, <2>1 DEF UsedUp
<1>3. ASSUME NEW n \in Nat, n <= before PROVE NumberFits(t, n)'
  BY <1>1, <1>3 DEF NumberFits
<1>4. conf[t].seq \in Nat /\ known[t].seq \in Nat
  BY <1>0 DEF TypeOK, Conf
<1>5. conf[t].seq <= before /\ known[t].seq <= before /\ (~conf[t].enabled => UsedUp(t))
  BY <1>0 DEF ConfCounted, NumberFits
<1>6. NumberFits(t, conf[t].seq)' <=> conf'[t].seq <= after
  BY DEF NumberFits
<1>7. NumberFits(t, known[t].seq)' <=> known'[t].seq <= after
  BY DEF NumberFits
<1> HIDE DEF before, after
<1>8. ASSUME conf'[t] = conf[t], known'[t] \in {known[t], conf[t]} PROVE ConfCounted(t)'
  BY <1>1, <1>2, <1>4, <1>5, <1>6, <1>7, <1>8 DEF ConfCounted
<1>9. ASSUME NEW r \in Run, Number(r) PROVE ConfCounted(t)'
  <2>0. known' = known /\ pc[r] = "number" /\ TaskOf[r] \in Task
    BY <1>9, RunAssumption DEF Number
  <2>1. CASE conf' = conf \/ t # TaskOf[r]
    <3>1. conf'[t] = conf[t]
      BY <1>9, <2>1 DEF Number, TypeOK
    <3> QED
      BY <1>8, <2>0, <3>1
  <2>2. CASE conf' = [conf EXCEPT ![t].seq = runSeq[r] + 1] /\ t = TaskOf[r]
    <3>1. conf'[t].seq = runSeq[r] + 1 /\ conf'[t].enabled = conf[t].enabled
      BY <2>2 DEF TypeOK, Conf
    <3>2. runSeq[r] <= Cardinality(Admitted(t) \ {r})
      BY <2>0, <2>2 DEF CountInv, RunCounted
    <3>3. r \in Admitted(t) /\ IsFiniteSet(Admitted(t))
      BY <2>0, <2>2, AdmittedFinite DEF Admitted, Owning, Numbering
    <3>4. Cardinality(Admitted(t) \ {r}) = before - 1
      BY <3>3, FS_RemoveElement DEF before
    <3>5. runSeq[r] + 1 \in Nat /\ runSeq[r] + 1 <= before
      BY <1>1, <3>2, <3>4 DEF TypeOK
    <3> QED
      BY <1>1, <1>2, <1>4, <1>5, <1>6, <1>7, <2>0, <3>1, <3>5 DEF ConfCounted
  <2> QED
    BY <1>9, <2>1, <2>2 DEF Number
<1>10. ASSUME NEW r \in Run, Disable(r) PROVE ConfCounted(t)'
  <2>0. known' = known /\ pc[r] = "disable" /\ TaskOf[r] \in Task
    BY <1>10, RunAssumption DEF Disable
  <2>1. CASE conf' = conf \/ t # TaskOf[r]
    <3>1. conf'[t] = conf[t]
      BY <1>10, <2>1 DEF Disable, TypeOK
    <3> QED
      BY <1>8, <2>0, <3>1
  <2>2. CASE conf' = [conf EXCEPT ![t].enabled = FALSE] /\ t = TaskOf[r]
    <3>1. conf'[t].seq = conf[t].seq
      BY <2>2 DEF TypeOK, Conf
    <3>2. UsedUp(t)
      BY <2>0, <2>2 DEF CountInv, RunCounted
    <3> QED
      BY <1>1, <1>2, <1>4, <1>5, <1>6, <1>7, <2>0, <3>1, <3>2 DEF ConfCounted
  <2> QED
    BY <1>10, <2>1, <2>2 DEF Disable
<1>11. ASSUME NEW r \in Run,
              \/ Dispatch(r) \/ Admission(r) \/ Command(r) \/ Register(r) \/ Check(r)
              \/ Launch(r) \/ Log(r) \/ Backoff(r) \/ Release(r)
       PROVE  ConfCounted(t)'
  <2>1. UNCHANGED <<conf, known>>
    BY <1>11 DEF Dispatch, Admission, Gate, KillRunning, CancelRunning, Regate, Command, OutputEnds, Abort, Finish,
                 Register, Check, Launch, Log, Backoff, Release, confVars
  <2> QED
    BY <1>8, <2>1
<1>12. ASSUME NEW k \in Killer, Killing(k) PROVE ConfCounted(t)'
  BY <1>8, <1>12 DEF Killing, Kill, KillAll, KillAllNext, KillCancel, confVars
<1>13. CASE LoadTasks \/ UNCHANGED vars
  BY <1>8, <1>13 DEF LoadTasks, vars, confVars
<1> QED
  BY <1>9, <1>10, <1>11, <1>12, <1>13 DEF Next, Execute

\* Whatever stale copy a trigger carries, the run number never runs ahead of the
\* admitted runs, and a task is disabled only once max_runs runs were admitted.
THEOREM RunsAreAccounted == Spec => []RunsAccounted
<1>1. ASSUME Init PROVE TypeOK /\ CountInv
  <2>1. \A t \in Task : Cardinality(Admitted(t)) \in Nat
    BY AdmittedFinite
  <2> QED
    BY <1>1, <2>1, InitType DEF Init, CountInv, ConfCounted, RunCounted, NumberFits
<1>2. TypeOK /\ CountInv /\ [Next]_vars => (TypeOK /\ CountInv)'
  BY StepType, OwnCount, ConfCount DEF CountInv
<1>3. CountInv => RunsAccounted
  BY DEF CountInv, ConfCounted, NumberFits, UsedUp, RunsAccounted
<1> QED
  BY <1>1, <1>2, <1>3, PTL DEF Spec

=============================================================================
