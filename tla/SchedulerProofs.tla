--------------------------- MODULE SchedulerProofs ---------------------------
(***************************************************************************)
(* What the scheduling loop promises for every set of tasks, every schedule *)
(* and any number of edits, reloads, crashes and boots: its types, that a   *)
(* pass works from a fresh copy of tasks.conf (PassIsFresh), that an        *)
(* @reboot task fires once per boot (BootOnce), that nothing recorded fires *)
(* again (NoRefire) and that no occurrence is lost (NoneLost).              *)
(***************************************************************************)
EXTENDS Scheduler, WellFoundedInduction, TLAPS

-----------------------------------------------------------------------------
Less == OpToRel(<, Nat)

LEMMA LessWellFounded == IsWellFoundedOn(Less, Nat)
BY NatLessThanWellFounded DEF Less

LEMMA Seconds == \A o \in Time : o \in Nat /\ o > 0
BY DEF Time

LEMMA NotBefore ==
    ASSUME NEW m \in Nat, NEW n \in Nat, <<m, n>> \notin Less
    PROVE  n <= m
BY SMT DEF Less, OpToRel

\* A schedule that has a later occurrence has a next one, and none lies before.
LEMMA NextIsFirst ==
    ASSUME NEW t \in Task, NEW time \in Int
    PROVE  /\ NextAfter(t, time) \in 0..MaxTime
           /\ NextAfter(t, time) # 0 =>
                 /\ NextAfter(t, time) \in Occurs[t] /\ NextAfter(t, time) > time
                 /\ \A o \in Occurs[t] : o > time => NextAfter(t, time) <= o
<1> DEFINE later == {o \in Occurs[t] : o > time}
<1>1. later \subseteq 1..MaxTime /\ MaxTime \in Nat
  BY ScheduleAssumption DEF Time
<1>2. CASE later = {}
  BY <1>1, <1>2 DEF NextAfter
<1>3. CASE later # {}
  <2>1. PICK first \in later : \A o \in later : <<o, first>> \notin Less
    <3>1. later \subseteq Nat
      BY <1>1
    <3> HIDE DEF later
    <3> QED
      BY <1>3, <3>1, LessWellFounded, WFMin
  <2>2. ASSUME NEW o \in later PROVE first <= o
    <3>1. o \in Nat /\ first \in Nat /\ <<o, first>> \notin Less
      BY <1>1, <2>1
    <3> QED
      BY <3>1, NotBefore
  <2>3. NextAfter(t, time) \in later /\ \A o \in later : NextAfter(t, time) <= o
    BY <1>3, <2>2 DEF NextAfter
  <2> QED
    BY <1>1, <2>3
<1> QED
  BY <1>2, <1>3

-----------------------------------------------------------------------------
(* Types *)

History == [fired : [Task -> [Time -> Nat]], final : [Task -> SUBSET Time],
            skipped : [Task -> SUBSET Time], since : [Task -> 0..MaxTime], boots : [Task -> Nat]]

TypeInv ==
    /\ TypeOK
    /\ hist \in History
    /\ conf.all \in DOMAIN Until

LEMMA InitType == Init => TypeInv
<1> SUFFICES ASSUME Init PROVE TypeInv
  OBVIOUS
<1> USE ScheduleAssumption
<1>1. conf \in ConfVersion /\ Nil \in ConfVersion /\ conf.all \in DOMAIN Until
  BY DEF Init, ConfVersion, Nil
<1>2. NoTimes \in [Task -> 0..MaxTime] /\ 1 \in Time
  BY DEF NoTimes, Time
<1>3. NoHistory \in History
  BY <1>2 DEF NoHistory, History
<1>4. now \in Time /\ passNow \in 0..MaxTime /\ {conf, cached, tasks} \subseteq ConfVersion
      /\ {stat, lastMtime} \subseteq 0..MaxEdits + 1
  BY <1>1, <1>2 DEF Init
<1>5. {cands, lastRun, mem, saved} \subseteq [Task -> 0..MaxTime]
      /\ pool \in [Task -> {"off", "spawned", "on"}] /\ waiting \subseteq Delayed
  BY <1>2 DEF Init
<1>6. hist \in History /\ conf.all \in DOMAIN Until
  BY <1>1, <1>3 DEF Init
<1>7. /\ pc \in {"down", "load", "reuse", "read", "keep", "stamp", "clock", "scan", "boot", "fire", "sleep"}
      /\ rebootFired \in BOOLEAN /\ marker \in BOOLEAN
  BY DEF Init
<1> QED
  BY <1>4, <1>5, <1>6, <1>7 DEF TypeInv, TypeOK

\* What the history becomes when a task is fired or skipped at o.
LEMMA FireHistory ==
    ASSUME TypeInv, NEW t \in Task, Fire(t)
    PROVE  LET o == cands[t] IN
           /\ o \in Time /\ o <= passNow
           /\ hist' \in History
           /\ hist'.since = [hist.since EXCEPT ![t] = IF @ = 0 THEN o ELSE @]
           /\ hist'.final = [hist.final EXCEPT ![t] = @ \cup {o}]
           /\ hist'.boots = hist.boots
           /\ \/ /\ hist'.fired = hist.fired /\ UNCHANGED mem
                 /\ hist'.skipped = [hist.skipped EXCEPT ![t] = @ \cup {o}]
              \/ /\ hist'.fired = [hist.fired EXCEPT ![t] = [hist.fired[t] EXCEPT ![o] = hist.fired[t][o] + 1]]
                 /\ mem' = [mem EXCEPT ![t] = o]
                 /\ hist'.skipped = hist.skipped
<1> DEFINE o == cands[t]
           sinceNew == [hist.since EXCEPT ![t] = IF @ = 0 THEN o ELSE @]
           finalNew == [hist.final EXCEPT ![t] = @ \cup {o}]
           skippedNew == [hist.skipped EXCEPT ![t] = @ \cup {o}]
           firedNew == [hist.fired EXCEPT ![t] = [hist.fired[t] EXCEPT ![o] = hist.fired[t][o] + 1]]
<1>1. o \in Time /\ o <= passNow
  BY ScheduleAssumption DEF Fire, Due, TypeInv, TypeOK, Time
<1>2. /\ hist.since \in [Task -> 0..MaxTime] /\ hist.final \in [Task -> SUBSET Time]
      /\ hist.skipped \in [Task -> SUBSET Time] /\ hist.fired \in [Task -> [Time -> Nat]]
      /\ hist.boots \in [Task -> Nat]
  BY DEF TypeInv, History
<1>3. /\ sinceNew \in [Task -> 0..MaxTime] /\ finalNew \in [Task -> SUBSET Time]
      /\ skippedNew \in [Task -> SUBSET Time]
  BY <1>1, <1>2 DEF Time
<1>4. firedNew \in [Task -> [Time -> Nat]]
  <2>1. hist.fired[t] \in [Time -> Nat]
    BY <1>2
  <2>2. [hist.fired[t] EXCEPT ![o] = hist.fired[t][o] + 1] \in [Time -> Nat]
    BY <1>1, <2>1
  <2> QED
    BY <1>2, <2>2
<1>5. hist = [fired |-> hist.fired, final |-> hist.final, skipped |-> hist.skipped,
              since |-> hist.since, boots |-> hist.boots]
  BY DEF TypeInv, History
<1>6. CASE ~(pool[t] = "on" /\ t \notin KillPrevious)
  <2> DEFINE one == [hist EXCEPT !.fired = firedNew]
             two == [one EXCEPT !.final = finalNew]
  <2>1. hist' = [two EXCEPT !.since = sinceNew] /\ mem' = [mem EXCEPT ![t] = o]
    BY <1>5, <1>6 DEF Fire
  <2> HIDE DEF sinceNew, finalNew, skippedNew, firedNew
  <2>2. one = [fired |-> firedNew, final |-> hist.final, skipped |-> hist.skipped,
               since |-> hist.since, boots |-> hist.boots]
    BY <1>5
  <2> HIDE DEF one
  <2>3. two = [fired |-> firedNew, final |-> finalNew, skipped |-> hist.skipped,
               since |-> hist.since, boots |-> hist.boots]
    BY <2>2
  <2> HIDE DEF two
  <2>4. hist' = [fired |-> firedNew, final |-> finalNew, skipped |-> hist.skipped,
                 since |-> sinceNew, boots |-> hist.boots]
    BY <2>1, <2>3
  <2>5. hist' \in History
    BY <1>2, <1>3, <1>4, <2>4 DEF History
  <2>6. /\ hist'.since = sinceNew /\ hist'.final = finalNew /\ hist'.boots = hist.boots
        /\ hist'.fired = firedNew /\ hist'.skipped = hist.skipped
    BY <2>4
  <2> QED
    BY <1>1, <2>1, <2>5, <2>6 DEF sinceNew, finalNew, firedNew
<1>7. CASE pool[t] = "on" /\ t \notin KillPrevious
  <2> DEFINE one == [hist EXCEPT !.skipped = skippedNew]
             two == [one EXCEPT !.final = finalNew]
  <2>1. hist' = [two EXCEPT !.since = sinceNew] /\ UNCHANGED mem
    BY <1>5, <1>7 DEF Fire
  <2> HIDE DEF sinceNew, finalNew, skippedNew, firedNew
  <2>2. one = [fired |-> hist.fired, final |-> hist.final, skipped |-> skippedNew,
               since |-> hist.since, boots |-> hist.boots]
    BY <1>5
  <2> HIDE DEF one
  <2>3. two = [fired |-> hist.fired, final |-> finalNew, skipped |-> skippedNew,
               since |-> hist.since, boots |-> hist.boots]
    BY <2>2
  <2> HIDE DEF two
  <2>4. hist' = [fired |-> hist.fired, final |-> finalNew, skipped |-> skippedNew,
                 since |-> sinceNew, boots |-> hist.boots]
    BY <2>1, <2>3
  <2>5. hist' \in History
    BY <1>2, <1>3, <2>4 DEF History
  <2>6. /\ hist'.since = sinceNew /\ hist'.final = finalNew /\ hist'.boots = hist.boots
        /\ hist'.fired = hist.fired /\ hist'.skipped = skippedNew
    BY <2>4
  <2> QED
    BY <1>1, <2>1, <2>5, <2>6 DEF sinceNew, finalNew, skippedNew
<1> QED
  BY <1>6, <1>7

\* What the other steps that write history make of it.
LEMMA MarksHistory ==
    ASSUME TypeInv, NEW since \in [Task -> 0..MaxTime], NEW final \in [Task -> SUBSET Time],
           hist' = [[hist EXCEPT !.since = since] EXCEPT !.final = final]
    PROVE  /\ hist' \in History /\ hist'.since = since /\ hist'.final = final
           /\ hist'.fired = hist.fired /\ hist'.skipped = hist.skipped /\ hist'.boots = hist.boots
<1>1. hist = [fired |-> hist.fired, final |-> hist.final, skipped |-> hist.skipped,
              since |-> hist.since, boots |-> hist.boots]
  BY DEF TypeInv, History
<1>2. hist' = [fired |-> hist.fired, final |-> final, skipped |-> hist.skipped,
               since |-> since, boots |-> hist.boots]
  BY <1>1
<1>3. /\ hist.skipped \in [Task -> SUBSET Time] /\ hist.fired \in [Task -> [Time -> Nat]]
      /\ hist.boots \in [Task -> Nat]
  BY DEF TypeInv, History
<1> QED
  BY <1>2, <1>3 DEF History

LEMMA BootsHistory ==
    ASSUME TypeInv, NEW boots \in [Task -> Nat], hist' = [hist EXCEPT !.boots = boots]
    PROVE  /\ hist' \in History /\ hist'.boots = boots
           /\ hist'.since = hist.since /\ hist'.final = hist.final
           /\ hist'.fired = hist.fired /\ hist'.skipped = hist.skipped
<1>1. hist = [fired |-> hist.fired, final |-> hist.final, skipped |-> hist.skipped,
              since |-> hist.since, boots |-> hist.boots]
  BY DEF TypeInv, History
<1>2. hist' = [fired |-> hist.fired, final |-> hist.final, skipped |-> hist.skipped,
               since |-> hist.since, boots |-> boots]
  BY <1>1
<1>3. /\ hist.since \in [Task -> 0..MaxTime] /\ hist.final \in [Task -> SUBSET Time]
      /\ hist.skipped \in [Task -> SUBSET Time] /\ hist.fired \in [Task -> [Time -> Nat]]
  BY DEF TypeInv, History
<1> QED
  BY <1>2, <1>3 DEF History

LEMMA CrashHistory ==
    ASSUME TypeInv, Crash
    PROVE  /\ hist' \in History /\ hist'.since = saved
           /\ hist'.final = [t \in Task |-> {o \in hist.final[t] : o <= saved[t]}]
           /\ hist'.fired = hist.fired /\ hist'.skipped = hist.skipped /\ hist'.boots = hist.boots
<1> DEFINE final == [t \in Task |-> {o \in hist.final[t] : o <= saved[t]}]
<1>1. final \in [Task -> SUBSET Time] /\ saved \in [Task -> 0..MaxTime]
  BY DEF TypeInv, TypeOK, History
<1>2. hist' = [[hist EXCEPT !.since = saved] EXCEPT !.final = final]
  BY DEF Crash, TypeInv, History
<1> HIDE DEF final
<1> QED
  BY <1>1, <1>2, MarksHistory DEF final

LEMMA WakeupHistory ==
    ASSUME TypeInv, Wakeup
    PROVE  /\ hist' \in History /\ hist'.since = NoTimes
           /\ hist'.final = [t \in Task |-> {o \in hist.final[t] : o < passNow}]
           /\ hist'.fired = hist.fired /\ hist'.skipped = hist.skipped /\ hist'.boots = hist.boots
<1> DEFINE final == [t \in Task |-> {o \in hist.final[t] : o < passNow}]
<1>1. final \in [Task -> SUBSET Time] /\ NoTimes \in [Task -> 0..MaxTime]
  BY ScheduleAssumption DEF TypeInv, History, NoTimes
<1>2. hist' = [[hist EXCEPT !.since = NoTimes] EXCEPT !.final = final]
  BY DEF Wakeup, TypeInv, History
<1> HIDE DEF final
<1> QED
  BY <1>1, <1>2, MarksHistory DEF final

Booting == IF rebootFired THEN {} ELSE Reboot \cap tasks.on

LEMMA BootHistory ==
    ASSUME TypeInv, Boot \/ BootMachine \/ \E t \in Task : BootDelayOver(t)
    PROVE  /\ hist' \in History
           /\ Boot => hist'.boots = [t \in Task |-> IF t \in Booting \ Delayed THEN hist.boots[t] + 1 ELSE hist.boots[t]]
           /\ BootMachine => hist'.boots = NoTimes
           /\ \A t \in Task : BootDelayOver(t) => hist'.boots = [hist.boots EXCEPT ![t] = hist.boots[t] + 1]
           /\ hist'.since = hist.since /\ hist'.final = hist.final
           /\ hist'.fired = hist.fired /\ hist'.skipped = hist.skipped
<1>1. hist.boots \in [Task -> Nat]
  BY DEF TypeInv, History
<1>2. PICK boots \in [Task -> Nat] : hist' = [hist EXCEPT !.boots = boots]
  <2>1. CASE Boot
    <3> DEFINE boots == [t \in Task |-> IF t \in Booting \ Delayed THEN hist.boots[t] + 1 ELSE hist.boots[t]]
    <3>1. boots \in [Task -> Nat]
      BY <1>1
    <3>2. hist' = [hist EXCEPT !.boots = boots]
      BY <2>1 DEF Boot, Booting
    <3> QED
      BY <3>1, <3>2
  <2>2. CASE BootMachine
    <3>1. NoTimes \in [Task -> Nat]
      BY DEF NoTimes
    <3> QED
      BY <2>2, <3>1 DEF BootMachine
  <2>3. ASSUME NEW t \in Task, BootDelayOver(t)
        PROVE  \E boots \in [Task -> Nat] : hist' = [hist EXCEPT !.boots = boots]
    <3> DEFINE boots == [hist.boots EXCEPT ![t] = hist.boots[t] + 1]
    <3>1. boots \in [Task -> Nat]
      BY <1>1
    <3>2. hist' = [hist EXCEPT !.boots = boots]
      BY <2>3 DEF BootDelayOver
    <3> QED
      BY <3>1, <3>2
  <2> QED
    BY <2>1, <2>2, <2>3
<1>3. /\ hist' \in History /\ hist'.boots = boots
      /\ hist'.since = hist.since /\ hist'.final = hist.final
      /\ hist'.fired = hist.fired /\ hist'.skipped = hist.skipped
  BY <1>2, BootsHistory
<1>4. hist = [fired |-> hist.fired, final |-> hist.final, skipped |-> hist.skipped,
              since |-> hist.since, boots |-> hist.boots]
  BY DEF TypeInv, History
<1>5. Boot => hist'.boots = [t \in Task |-> IF t \in Booting \ Delayed THEN hist.boots[t] + 1 ELSE hist.boots[t]]
  BY <1>4 DEF Boot, Booting
<1>6. BootMachine => hist'.boots = NoTimes
  BY <1>4 DEF BootMachine
<1>7. \A t \in Task : BootDelayOver(t) => hist'.boots = [hist.boots EXCEPT ![t] = hist.boots[t] + 1]
  BY <1>4 DEF BootDelayOver
<1> QED
  BY <1>3, <1>5, <1>6, <1>7

\* All others leave it alone.
LEMMA NoHistoryStep ==
    ASSUME [Next]_vars,
           ~(Crash \/ Wakeup \/ Boot \/ BootMachine \/ \E t \in Task : BootDelayOver(t) \/ Fire(t))
    PROVE  UNCHANGED hist
BY DEF Next, Loop, vars, Start, FlushState, Edit, Tick, PoolStep, Look, Stat, StatFails, Reuse,
       Read, ReadNothing, ReadFails, Keep, Stamp, Clock, Scan, EndPass, Sleep

LEMMA HistoryType == TypeInv /\ [Next]_vars => hist' \in History
<1> SUFFICES ASSUME TypeInv, [Next]_vars PROVE hist' \in History
  OBVIOUS
<1>1. UNCHANGED hist => hist' \in History
  BY DEF TypeInv
<1> QED
  BY <1>1, CrashHistory, WakeupHistory, BootHistory, FireHistory, NoHistoryStep

\* The other variables.
LEMMA StepType == TypeInv /\ [Next]_vars => TypeInv'
<1> SUFFICES ASSUME TypeInv, [Next]_vars PROVE TypeInv'
  OBVIOUS
<1> USE DEF TypeInv, TypeOK
<1>1. hist' \in History
  BY HistoryType
<1>2. now' \in Time /\ passNow' \in 0..MaxTime /\ conf'.all \in DOMAIN Until /\ conf' \in ConfVersion
  <2>1. CASE Tick
    BY <2>1, ScheduleAssumption DEF Tick, passVars, confVars, Time
  <2>2. CASE Edit
    <3>1. PICK t \in conf.all : conf' = [conf EXCEPT !.ver = @ + 1, !.on = (@ \ {t}) \cup ({t} \ @)]
      BY <2>2 DEF Edit
    <3> DEFINE on == (conf.on \ {t}) \cup ({t} \ conf.on)
    <3>2. t \in Task /\ on \subseteq Task /\ conf.ver + 1 \in 0..MaxEdits + 1
      BY <2>2, ScheduleAssumption DEF Edit, ConfVersion
    <3>3. conf = [ver |-> conf.ver, all |-> conf.all, on |-> conf.on]
      BY DEF ConfVersion
    <3>4. conf' = [[conf EXCEPT !.ver = conf.ver + 1] EXCEPT !.on = on]
      BY <3>1, <3>3
    <3> HIDE DEF on
    <3>5. conf' = [ver |-> conf.ver + 1, all |-> conf.all, on |-> on]
      BY <3>3, <3>4
    <3> QED
      BY <2>2, <3>2, <3>5 DEF Edit, passVars, ConfVersion
  <2>3. CASE ~(Tick \/ Edit)
    <3>1. UNCHANGED <<now, conf>>
      BY <2>3 DEF Next, Loop, vars, confVars, Start, Crash, BootMachine, Wakeup, FlushState, BootDelayOver,
             PoolStep, Look, Stat, StatFails, Reuse, Read, ReadNothing, ReadFails, Keep, Stamp, Clock, Scan, Boot,
             EndPass, Sleep, Fire
    <3>2. passNow' \in {passNow, 0, now}
      BY <2>3 DEF Next, Loop, vars, passVars, Start, Crash, BootMachine, Wakeup, FlushState, BootDelayOver,
             PoolStep, Look, Stat, StatFails, Reuse, Read, ReadNothing, ReadFails, Keep, Stamp, Clock, Scan, Boot,
             EndPass, Sleep, Fire
    <3> QED
      BY <3>1, <3>2, ScheduleAssumption DEF Time
  <2> QED
    BY <2>1, <2>2, <2>3
<1>3. {cached', tasks'} \subseteq ConfVersion /\ {stat', lastMtime'} \subseteq 0..MaxEdits + 1
  <2>1. Nil \in ConfVersion /\ 0 \in 0..MaxEdits + 1
    BY ScheduleAssumption DEF Nil, ConfVersion
  <2> DEFINE nothing == [conf EXCEPT !.on = {}]
  <2>2. conf.ver \in 0..MaxEdits + 1 /\ nothing \in ConfVersion
    BY DEF ConfVersion
  <2>3. cached' \in {cached, Nil, tasks} /\ tasks' \in {tasks, Nil, cached, conf, nothing}
        /\ stat' \in {stat, 0, conf.ver} /\ lastMtime' \in {lastMtime, 0, stat}
    BY DEF Next, Loop, vars, confVars, passVars, Begin, Start, Crash, BootMachine, Wakeup, FlushState,
           BootDelayOver, PoolStep, Look, Stat, StatFails, Reuse, Read, ReadNothing,
           ReadFails, Keep, Stamp, Clock, Scan, Boot, EndPass, Sleep,
           Fire, Edit, Tick
  <2> HIDE DEF nothing
  <2> QED
    BY <2>1, <2>2, <2>3
<1>4. pc' \in {"down", "load", "reuse", "read", "keep", "stamp", "clock", "scan", "boot", "fire", "sleep"}
      /\ rebootFired' \in BOOLEAN /\ marker' \in BOOLEAN
  BY ZenonT(40) DEF Next, Loop, vars, bootVars, Begin, Start, Crash, BootMachine, Wakeup, FlushState,
         BootDelayOver, PoolStep, Look, Stat, StatFails, Reuse, Read, ReadNothing,
           ReadFails, Keep, Stamp, Clock, Scan, Boot, EndPass, Sleep,
         Fire, Edit, Tick
<1>5. waiting' \subseteq Delayed
  BY DEF Next, Loop, vars, bootVars, Start, Crash, BootMachine, Wakeup, FlushState,
         BootDelayOver, PoolStep, Look, Stat, StatFails, Reuse, Read, ReadNothing,
           ReadFails, Keep, Stamp, Clock, Scan, Boot, EndPass, Sleep,
         Fire, Edit, Tick
<1>6. {cands', lastRun', mem', saved'} \subseteq [Task -> 0..MaxTime]
  <2>1. NoTimes \in [Task -> 0..MaxTime] /\ now \in 0..MaxTime
    BY ScheduleAssumption DEF NoTimes, Time
  <2>2. CASE Scan
    <3>1. \A t \in Task : passNow - 1 \in Int /\ lastRun[t] \in Int
      BY <2>2
    <3>2. \A t \in Task : NextAfter(t, IF lastRun[t] = 0 THEN passNow - 1 ELSE lastRun[t]) \in 0..MaxTime
      BY <3>1, NextIsFirst
    <3>3. cands' \in [Task -> 0..MaxTime]
      BY <2>1, <2>2, <3>2, ScheduleAssumption DEF Scan
    <3> QED
      BY <2>2, <3>3 DEF Scan, runVars
  <2>3. ASSUME NEW t \in Task, Fire(t) PROVE {cands', lastRun', mem', saved'} \subseteq [Task -> 0..MaxTime]
    <3>1. cands[t] \in 0..MaxTime /\ 0 \in 0..MaxTime
      BY ScheduleAssumption
    <3>2. mem' = mem \/ mem' = [mem EXCEPT ![t] = cands[t]]
      BY <2>3 DEF Fire
    <3> QED
      BY <2>3, <3>1, <3>2 DEF Fire
  <2>4. CASE Boot \/ \E t \in Task : BootDelayOver(t)
    BY <2>1, <2>4 DEF Boot, BootDelayOver, passVars
  <2>5. CASE ~Scan /\ ~(\E t \in Task : Fire(t)) /\ ~Boot /\ ~(\E t \in Task : BootDelayOver(t))
    <3>1. cands' \in {cands, NoTimes} /\ lastRun' \in {lastRun, NoTimes, saved} /\ mem' \in {mem, saved}
          /\ saved' \in {saved, mem}
      BY <2>5 DEF Next, Loop, vars, passVars, runVars, Start, Crash, BootMachine, Wakeup, FlushState,
             PoolStep, Look, Stat, StatFails, Reuse, Read, ReadNothing, ReadFails, Keep, Stamp, Clock, EndPass, Sleep, Edit, Tick
    <3> QED
      BY <2>1, <3>1
  <2> QED
    BY <2>2, <2>3, <2>4, <2>5
<1>7. pool' \in [Task -> {"off", "spawned", "on"}]
  BY DEF Next, Loop, vars, Start, Crash, BootMachine, Wakeup, FlushState,
         BootDelayOver, PoolStep, Look, Stat, StatFails, Reuse, Read, ReadNothing,
           ReadFails, Keep, Stamp, Clock, Scan, Boot, EndPass, Sleep,
         Fire, Edit, Tick
<1> QED
  BY <1>1, <1>2, <1>3, <1>4, <1>5, <1>6, <1>7

\* The loop's variables keep their types, whatever happens beside it.
THEOREM SchedulerTypeCorrect == Spec => []TypeOK
<1>1. TypeInv => TypeOK
  BY DEF TypeInv
<1> QED
  BY <1>1, InitType, StepType, PTL DEF Spec

-----------------------------------------------------------------------------
(* The copy of tasks.conf *)

FreshInv ==
    /\ stat <= conf.ver /\ lastMtime <= conf.ver
    /\ CacheNotAhead
    /\ pc = "keep" => tasks.ver >= stat /\ tasks.ver >= lastMtime
    /\ pc = "stamp" => cached = Nil \/ cached.ver >= stat
    /\ PassIsFresh

LEMMA StepFresh == TypeInv /\ FreshInv /\ [Next]_vars => FreshInv'
<1> SUFFICES ASSUME TypeInv, FreshInv, [Next]_vars PROVE FreshInv'
  OBVIOUS
<1> USE DEF FreshInv, CacheNotAhead, PassIsFresh
<1>0. /\ conf.ver \in Nat /\ cached.ver \in Nat /\ tasks.ver \in Nat /\ stat \in Nat /\ lastMtime \in Nat
      /\ Nil.ver = 0 /\ Nil.on = {}
  BY ScheduleAssumption DEF TypeInv, TypeOK, ConfVersion, Nil
<1>1. CASE Stat \/ StatFails
  BY <1>0, <1>1 DEF Look, Stat, StatFails, confVars
<1>2. CASE Reuse \/ ReadFails
  <2>1. pc' = "sleep" \/ (pc' = "clock" /\ cached # Nil)
    BY <1>0, <1>2 DEF Reuse, ReadFails, Begin
  <2> QED
    BY <1>0, <1>2, <2>1 DEF Reuse, ReadFails, Begin, confVars
<1>3. CASE Read \/ ReadNothing
  <2>1. tasks'.ver = conf.ver
    BY <1>3 DEF Read, ReadNothing, TypeInv, TypeOK, ConfVersion
  <2> QED
    BY <1>0, <1>3, <2>1 DEF Read, ReadNothing, confVars
<1>4. CASE Keep \/ Stamp
  BY <1>0, <1>4 DEF Keep, Stamp, passVars
<1>5. CASE Edit
  <2>1. conf'.ver = conf.ver + 1
    BY <1>5 DEF Edit, TypeInv, TypeOK, ConfVersion
  <2> QED
    BY <1>0, <1>5, <2>1 DEF Edit, passVars
<1>6. CASE Wakeup
  BY <1>0, <1>6 DEF Wakeup, passVars
<1>7. CASE Start
  BY <1>0, <1>7 DEF Start
<1>8. CASE Crash \/ Sleep \/ EndPass \/ Boot \/ Scan \/ Clock \/ \E t \in Task : Fire(t)
  BY <1>0, <1>8 DEF Crash, Sleep, EndPass, Boot, Scan, Clock, Fire, confVars, passVars
<1>9. CASE UNCHANGED <<confVars, pc, stat, tasks>>
  BY <1>9 DEF confVars
<1> QED
  BY <1>1, <1>2, <1>3, <1>4, <1>5, <1>6, <1>7, <1>8, <1>9 DEF Next, Loop, vars, passVars, BootMachine, FlushState,
     Tick, BootDelayOver, PoolStep

\* However edits and reloads fall between the system calls of loadTasks, a pass
\* works from a copy at least as new as the file was when it looked, unless the
\* file could not be looked at or read (scheduler.go:322-356).
THEOREM PassesAreFresh == Spec => []PassIsFresh
<1>1. Init => FreshInv
  BY DEF Init, FreshInv, CacheNotAhead, PassIsFresh
<1>2. FreshInv => PassIsFresh
  BY DEF FreshInv
<1> QED
  BY <1>1, <1>2, InitType, StepType, StepFresh, PTL DEF Spec

-----------------------------------------------------------------------------
(* @reboot tasks *)

BootInv ==
    /\ Up => marker
    /\ ~Up => waiting = {}
    /\ ~marker \/ (Up /\ ~rebootFired) => waiting = {} /\ \A t \in Reboot : hist.boots[t] = 0
    /\ \A t \in Reboot : hist.boots[t] <= 1 /\ (t \in waiting => hist.boots[t] = 0)

LEMMA StepBoot == TypeInv /\ BootInv /\ [Next]_vars => BootInv'
<1> SUFFICES ASSUME TypeInv, BootInv, [Next]_vars PROVE BootInv'
  OBVIOUS
<1> USE DEF BootInv, Up
<1>0. /\ waiting \subseteq Delayed /\ Delayed \subseteq Reboot /\ Reboot \subseteq Task
      /\ hist.boots \in [Task -> Nat] /\ rebootFired \in BOOLEAN
  BY ScheduleAssumption DEF TypeInv, TypeOK, History
<1>1. CASE Boot
  <2>1. /\ hist'.boots = [t \in Task |-> IF t \in Booting \ Delayed THEN hist.boots[t] + 1 ELSE hist.boots[t]]
        /\ waiting' = waiting \cup (Booting \cap Delayed) /\ UNCHANGED marker /\ pc = "boot" /\ pc' = "fire"
        /\ rebootFired' = (rebootFired \/ Booting # {})
    BY <1>1, BootHistory DEF Boot, Booting
  <2>2. CASE Booting = {}
    BY <1>0, <2>1, <2>2
  <2>3. CASE Booting # {}
    <3>1. ~rebootFired /\ waiting = {} /\ (\A t \in Reboot : hist.boots[t] = 0) /\ rebootFired' /\ marker'
      BY <2>1, <2>3 DEF Booting
    <3> QED
      BY <1>0, <2>1, <3>1
  <2> QED
    BY <2>2, <2>3
<1>2. ASSUME NEW t \in Task, BootDelayOver(t) PROVE BootInv'
  <2>1. hist'.boots = [hist.boots EXCEPT ![t] = hist.boots[t] + 1] /\ t \in waiting /\ t \in Reboot
    BY <1>0, <1>2, BootHistory DEF BootDelayOver
  <2> QED
    BY <1>0, <1>2, <2>1 DEF BootDelayOver
<1>3. CASE BootMachine
  BY <1>0, <1>3, BootHistory DEF BootMachine, NoTimes
<1>4. CASE Crash
  BY <1>4, CrashHistory DEF Crash
<1>5. CASE Wakeup
  BY <1>5, WakeupHistory DEF Wakeup, bootVars
<1>6. ASSUME NEW t \in Task, Fire(t) PROVE BootInv'
  BY <1>6, FireHistory DEF Fire, bootVars
<1>7. CASE Start
  BY <1>7 DEF Start
<1>8. CASE ~(Crash \/ Wakeup \/ Boot \/ BootMachine \/ Start \/ \E t \in Task : BootDelayOver(t) \/ Fire(t))
  <2>1. UNCHANGED hist
    BY <1>8, NoHistoryStep
  <2>2. UNCHANGED <<rebootFired, marker, waiting>> /\ (pc' = "down" <=> pc = "down")
    BY <1>8 DEF Next, Loop, vars, bootVars, FlushState, Edit, Tick, PoolStep, Look, Stat, StatFails, Reuse, Read, ReadNothing, ReadFails,
                Keep, Stamp, Begin, Clock, Scan, EndPass, Sleep
  <2> QED
    BY <2>1, <2>2
<1> QED
  BY <1>1, <1>2, <1>3, <1>4, <1>5, <1>6, <1>7, <1>8

\* An @reboot task fires once per boot of the machine, however often the daemon
\* dies or reloads in between (scheduler.go:66, 214-221, state.go:83-92).
THEOREM BootsOnce == Spec => []BootOnce
<1>1. Init => BootInv
  BY ScheduleAssumption DEF Init, BootInv, Up, NoHistory, NoTimes
<1>2. BootInv => BootOnce
  BY DEF BootInv, BootOnce
<1> QED
  BY <1>1, <1>2, InitType, StepType, StepBoot, PTL DEF Spec

-----------------------------------------------------------------------------
(* Nothing recorded fires again *)

\* What is final lies before the next candidate: not after the last run, if
\* there is one, and else before the second of the pass.
MarkInv ==
    /\ passNow <= now
    /\ ~Up => \A t \in Task : \A o \in hist.final[t] : o <= saved[t]
    /\ Up => \A t \in Task : \A o \in hist.final[t] :
                IF lastRun[t] # 0 THEN o <= lastRun[t] ELSE o < passNow
    /\ pc \in {"boot", "fire"} =>
          \A t \in Task : cands[t] # 0 => \A o \in hist.final[t] : o < cands[t]

LEMMA StepMark == TypeInv /\ MarkInv /\ [Next]_vars => MarkInv'
<1> SUFFICES ASSUME TypeInv, MarkInv, [Next]_vars PROVE MarkInv'
  OBVIOUS
<1> USE DEF MarkInv, Up
<1>0. /\ now \in Nat /\ passNow \in Nat
      /\ \A t \in Task : lastRun[t] \in Nat /\ saved[t] \in Nat /\ cands[t] \in Nat
      /\ \A t \in Task : \A o \in hist.final[t] : o \in Nat /\ o > 0
  <2>1. \A o \in Time : o \in Nat /\ o > 0
    BY Seconds
  <2>2. /\ {now, passNow} \subseteq 0..MaxTime /\ hist.final \in [Task -> SUBSET Time]
        /\ lastRun \in [Task -> 0..MaxTime] /\ saved \in [Task -> 0..MaxTime] /\ cands \in [Task -> 0..MaxTime]
    BY ScheduleAssumption DEF TypeInv, TypeOK, History, Time
  <2> QED
    BY <2>1, <2>2, ScheduleAssumption
<1>1. CASE Scan
  <2>1. UNCHANGED <<hist, now, passNow, lastRun>> /\ pc = "scan" /\ pc' = "boot"
    BY <1>1 DEF Scan, runVars
  <2>2. ASSUME NEW t \in Task, cands'[t] # 0, NEW o \in hist.final[t] PROVE o < cands'[t]
    <3> DEFINE base == IF lastRun[t] = 0 THEN passNow - 1 ELSE lastRun[t]
    <3>1. cands'[t] = NextAfter(t, base) /\ base \in Int
      BY <1>0, <1>1, <2>2 DEF Scan
    <3>2. cands'[t] > base /\ cands'[t] \in Nat
      BY <2>2, <3>1, NextIsFirst, ScheduleAssumption
    <3>3. o <= base
      BY <1>0, <2>1, <2>2
    <3> QED
      BY <1>0, <2>2, <3>1, <3>2, <3>3
  <2> QED
    BY <2>1, <2>2
<1>2. ASSUME NEW t \in Task, Fire(t) PROVE MarkInv'
  <2>1. /\ cands[t] \in Time /\ cands[t] <= passNow
        /\ hist'.final = [hist.final EXCEPT ![t] = @ \cup {cands[t]}]
        /\ cands' = [cands EXCEPT ![t] = 0] /\ lastRun' = [lastRun EXCEPT ![t] = cands[t]]
        /\ UNCHANGED <<now, passNow, pc>> /\ pc = "fire"
    BY <1>2, FireHistory DEF Fire
  <2>2. cands \in [Task -> 0..MaxTime] /\ lastRun \in [Task -> 0..MaxTime] /\ hist.final \in [Task -> SUBSET Time]
    BY DEF TypeInv, TypeOK, History
  <2>3. \A u \in Task : /\ hist'.final[u] = IF u = t THEN hist.final[t] \cup {cands[t]} ELSE hist.final[u]
                        /\ cands'[u] = IF u = t THEN 0 ELSE cands[u]
                        /\ lastRun'[u] = IF u = t THEN cands[t] ELSE lastRun[u]
    BY <2>1, <2>2
  <2>4. cands[t] # 0 /\ \A o \in hist.final[t] : o < cands[t]
    <3>1. cands[t] # 0
      BY <2>1, Seconds
    <3> QED
      BY <2>1, <3>1
  <2>5. ASSUME NEW u \in Task, NEW o \in hist'.final[u]
        PROVE  lastRun'[u] # 0 => o <= lastRun'[u]
    BY <1>0, <2>1, <2>3, <2>4, <2>5
  <2>6. ASSUME NEW u \in Task, NEW o \in hist'.final[u], lastRun'[u] = 0
        PROVE  o < passNow'
    BY <1>0, <2>1, <2>3, <2>4, <2>6
  <2>7. ASSUME NEW u \in Task, NEW o \in hist'.final[u], cands'[u] # 0
        PROVE  o < cands'[u]
    BY <1>0, <2>1, <2>3, <2>7
  <2> QED
    BY <1>0, <2>1, <2>5, <2>6, <2>7
<1>3. CASE Crash
  BY <1>0, <1>3, CrashHistory DEF Crash, passVars, runVars
<1>4. CASE Wakeup
  <2>1. /\ hist'.final = [t \in Task |-> {o \in hist.final[t] : o < passNow}]
        /\ UNCHANGED <<now, passNow, pc, cands, saved>> /\ lastRun' = NoTimes /\ pc # "down"
    BY <1>4, WakeupHistory DEF Wakeup, passVars
  <2> QED
    BY <2>1 DEF NoTimes
<1>5. CASE Start
  BY <1>0, <1>5 DEF Start, NoTimes
<1>6. CASE Clock
  BY <1>0, <1>6 DEF Clock, runVars
<1>7. CASE Tick
  BY <1>0, <1>7 DEF Tick, passVars, runVars
<1>8. CASE FlushState
  BY <1>8 DEF FlushState, passVars
<1>9. CASE Boot \/ BootMachine \/ \E t \in Task : BootDelayOver(t)
  <2>1. hist'.final = hist.final
    BY <1>9, BootHistory
  <2> QED
    BY <1>9, <2>1 DEF Boot, BootMachine, BootDelayOver, passVars, runVars
<1>10. CASE ~(\/ Crash \/ Wakeup \/ Boot \/ BootMachine \/ Start \/ Scan \/ Clock \/ Tick \/ FlushState
              \/ \E t \in Task : BootDelayOver(t) \/ Fire(t))
  <2>1. UNCHANGED hist
    BY <1>10, NoHistoryStep
  <2>2. /\ UNCHANGED <<now, passNow, cands, lastRun, saved>>
        /\ pc' = pc \/ (pc # "down" /\ pc' \notin {"down", "boot", "fire"})
    BY <1>10 DEF Next, Loop, vars, passVars, runVars, Edit, PoolStep, Look, Stat, StatFails, Reuse, Read, ReadNothing, ReadFails,
                Keep, Stamp, Begin, EndPass, Sleep
  <2> QED
    BY <2>1, <2>2
<1> QED
  BY <1>1, <1>2, <1>3, <1>4, <1>5, <1>6, <1>7, <1>8, <1>9, <1>10

\* No step fires an occurrence that is final.
LEMMA FinalStays ==
    ASSUME TypeInv, MarkInv, [Next]_vars, NEW t \in Task, NEW o \in hist.final[t]
    PROVE  hist'.fired[t][o] = hist.fired[t][o]
<1>1. ASSUME NEW u \in Task, Fire(u) PROVE hist'.fired[t][o] = hist.fired[t][o]
  <2>1. pc = "fire" /\ cands[u] \in Time /\ hist.fired \in [Task -> [Time -> Nat]]
        /\ hist.final \in [Task -> SUBSET Time]
    BY <1>1, FireHistory DEF Fire, TypeInv, History
  <2>2. u = t => o # cands[u]
    <3>1. cands[u] # 0 /\ cands[u] \in Nat
      BY <2>1, Seconds
    <3> QED
      BY <2>1, <3>1 DEF MarkInv
  <2>3. \/ hist'.fired = hist.fired
        \/ hist'.fired = [hist.fired EXCEPT ![u] = [hist.fired[u] EXCEPT ![cands[u]] = hist.fired[u][cands[u]] + 1]]
    BY <1>1, FireHistory
  <2>4. hist.fired[u] \in [Time -> Nat] /\ o \in Time
    BY <2>1
  <2> QED
    BY <2>1, <2>2, <2>3, <2>4
<1>2. CASE ~(\E u \in Task : Fire(u))
  <2>1. hist'.fired = hist.fired
    BY <1>2, NoHistoryStep, CrashHistory, WakeupHistory, BootHistory
  <2> QED
    BY <2>1
<1> QED
  BY <1>1, <1>2

\* An occurrence that fired does not fire again, but for a reload in its second
\* and a crash before it was flushed (scheduler.go:106-119, 240-242,
\* state.go:43-79).
THEOREM NothingRefires == Spec => NoRefire
<1>1. Init => MarkInv
  BY DEF Init, MarkInv, Up, NoHistory, NoTimes
<1>2. TypeInv /\ MarkInv /\ [Next]_vars =>
         [\A t \in Task : \A o \in hist.final[t] : hist'.fired[t][o] = hist.fired[t][o]]_vars
  BY FinalStays
<1> QED
  BY <1>1, <1>2, InitType, StepType, StepMark, PTL DEF Spec, NoRefire

-----------------------------------------------------------------------------
(* No occurrence is lost *)

Recorded(time) == \A t \in Task : time[t] \in Occurs[t] => hist.fired[t][time[t]] > 0

ChainInv ==
    /\ Recorded(mem) /\ Recorded(saved)
    /\ ~Up => hist.since = saved
    /\ Up => \A t \in Task : hist.since[t] = 0 <=> lastRun[t] = 0
    /\ pc \in {"boot", "fire"} =>
          \A t \in Task : cands[t] # 0 /\ lastRun[t] # 0 =>
              \A o \in Occurs[t] : o > lastRun[t] => cands[t] <= o
    /\ NoneLost

\* The chain does not look at the rest.
LEMMA ChainStays ==
    ASSUME ChainInv, UNCHANGED <<mem, saved, cands, lastRun>>,
           pc' = pc \/ (pc # "down" /\ pc' \notin {"down", "boot", "fire"}) \/ (pc = "boot" /\ pc' = "fire"),
           hist'.since = hist.since, hist'.fired = hist.fired, hist'.skipped = hist.skipped
    PROVE  ChainInv'
BY DEF ChainInv, Recorded, NoneLost, Up

LEMMA StepChain == TypeInv /\ ChainInv /\ [Next]_vars => ChainInv'
<1> SUFFICES ASSUME TypeInv, ChainInv, [Next]_vars PROVE ChainInv'
  OBVIOUS
<1>0. /\ \A o \in Time : o \in Nat /\ o > 0
      /\ \A t \in Task : \A o \in Occurs[t] : o \in Time /\ o \in Nat /\ o > 0
      /\ cands \in [Task -> 0..MaxTime] /\ lastRun \in [Task -> 0..MaxTime]
      /\ mem \in [Task -> 0..MaxTime] /\ saved \in [Task -> 0..MaxTime]
      /\ \A t \in Task : lastRun[t] \in Nat /\ saved[t] \in Nat /\ cands[t] \in Nat
  <2>1. \A o \in Time : o \in Nat /\ o > 0
    BY Seconds
  <2>2. \A t \in Task : \A o \in Occurs[t] : o \in Time
    BY ScheduleAssumption
  <2>3. /\ cands \in [Task -> 0..MaxTime] /\ lastRun \in [Task -> 0..MaxTime]
        /\ mem \in [Task -> 0..MaxTime] /\ saved \in [Task -> 0..MaxTime]
    BY DEF TypeInv, TypeOK
  <2> QED
    BY <2>1, <2>2, <2>3, ScheduleAssumption
<1>1. CASE Scan
  <2>1. UNCHANGED <<hist, mem, saved, lastRun>> /\ pc = "scan" /\ pc' = "boot"
    BY <1>1 DEF Scan, runVars
  <2>2. ASSUME NEW t \in Task, cands'[t] # 0, lastRun[t] # 0, NEW o \in Occurs[t], o > lastRun[t]
        PROVE  cands'[t] <= o
    <3>1. cands'[t] = NextAfter(t, lastRun[t]) /\ lastRun[t] \in Int
      BY <1>0, <1>1, <2>2 DEF Scan
    <3> QED
      BY <2>2, <3>1, NextIsFirst
  <2> QED
    BY <2>1, <2>2 DEF ChainInv, Recorded, NoneLost, Up
<1>2. ASSUME NEW t \in Task, Fire(t) PROVE ChainInv'
  <2> DEFINE at == cands[t]
  <2>1. /\ at \in Time /\ pc = "fire" /\ UNCHANGED <<pc, saved>>
        /\ cands' = [cands EXCEPT ![t] = 0] /\ lastRun' = [lastRun EXCEPT ![t] = at]
        /\ hist'.since = [hist.since EXCEPT ![t] = IF hist.since[t] = 0 THEN at ELSE hist.since[t]]
    BY <1>2, FireHistory DEF Fire
  <2>2. \/ /\ hist'.fired = hist.fired /\ UNCHANGED mem
           /\ hist'.skipped = [hist.skipped EXCEPT ![t] = hist.skipped[t] \cup {at}]
        \/ /\ hist'.fired = [hist.fired EXCEPT ![t] = [hist.fired[t] EXCEPT ![at] = hist.fired[t][at] + 1]]
           /\ mem' = [mem EXCEPT ![t] = at]
           /\ hist'.skipped = hist.skipped
    BY <1>2, FireHistory
  <2>3. /\ hist.since \in [Task -> 0..MaxTime] /\ hist.skipped \in [Task -> SUBSET Time]
        /\ hist.fired \in [Task -> [Time -> Nat]] /\ hist.fired[t] \in [Time -> Nat]
    BY DEF TypeInv, History
  <2> HIDE DEF at
  <2>4. ASSUME NEW u \in Task, NEW o \in Time, hist.fired[u][o] > 0 PROVE hist'.fired[u][o] > 0
    <3>1. hist.fired[u] \in [Time -> Nat] /\ hist.fired[u][o] \in Nat
      BY <2>3
    <3>2. CASE hist'.fired = hist.fired
      BY <2>4, <3>2
    <3>3. CASE hist'.fired = [hist.fired EXCEPT ![t] = [hist.fired[t] EXCEPT ![at] = hist.fired[t][at] + 1]]
      <4>1. hist'.fired[u] = IF u = t THEN [hist.fired[t] EXCEPT ![at] = hist.fired[t][at] + 1] ELSE hist.fired[u]
        BY <2>3, <3>3
      <4>2. hist'.fired[u][o] = IF u = t /\ o = at THEN hist.fired[u][o] + 1 ELSE hist.fired[u][o]
        BY <2>3, <4>1
      <4> QED
        BY <2>4, <3>1, <4>2
    <3> QED
      BY <2>2, <3>2, <3>3
  <2>5. \A u \in Task, o \in Time : o \in hist.skipped[u] => o \in hist'.skipped[u]
    BY <2>2, <2>3
  <2>6. hist'.fired[t][at] > 0 \/ (at \in hist'.skipped[t] /\ UNCHANGED mem)
    BY <2>1, <2>2, <2>3
  <2>7. /\ lastRun'[t] = at /\ cands'[t] = 0
        /\ hist'.since[t] = IF hist.since[t] = 0 THEN at ELSE hist.since[t]
        /\ \A u \in Task : u # t => cands'[u] = cands[u] /\ lastRun'[u] = lastRun[u] /\ hist'.since[u] = hist.since[u]
    BY <1>0, <2>1, <2>3
  <2>8. Recorded(saved)'
    BY <1>0, <2>1, <2>4 DEF ChainInv, Recorded
  <2>9. Recorded(mem)'
    <3>1. CASE UNCHANGED mem
      BY <1>0, <2>4, <3>1 DEF ChainInv, Recorded
    <3>2. CASE mem' = [mem EXCEPT ![t] = at] /\ hist'.fired[t][at] > 0
      <4>1. \A u \in Task : mem'[u] = IF u = t THEN at ELSE mem[u]
        BY <1>0, <3>2
      <4> QED
        BY <1>0, <2>4, <3>2, <4>1 DEF ChainInv, Recorded
    <3>3. UNCHANGED mem \/ (mem' = [mem EXCEPT ![t] = at] /\ hist'.fired[t][at] > 0)
      BY <2>1, <2>2, <2>3
    <3> QED
      BY <2>2, <3>1, <3>2, <3>3
  <2>10. \A u \in Task : hist'.since[u] = 0 <=> lastRun'[u] = 0
    BY <1>0, <2>1, <2>7 DEF ChainInv, Up
  <2>11. ASSUME NEW u \in Task, cands'[u] # 0, lastRun'[u] # 0, NEW o \in Occurs[u], o > lastRun'[u]
         PROVE  cands'[u] <= o
    BY <2>1, <2>7, <2>11 DEF ChainInv
  <2>12. ASSUME NEW u \in Task, NEW o \in Occurs[u], hist'.since[u] > 0, hist'.since[u] <= o, o <= lastRun'[u]
         PROVE  hist'.fired[u][o] > 0 \/ o \in hist'.skipped[u]
    <3>1. CASE u # t
      <4>1. hist.fired[u][o] > 0 \/ o \in hist.skipped[u]
        BY <2>1, <2>7, <2>12, <3>1 DEF ChainInv, NoneLost, Up
      <4> QED
        BY <1>0, <2>4, <2>5, <4>1
    <3>2. CASE u = t /\ o = at
      BY <2>6, <3>2
    <3>3. CASE u = t /\ o # at /\ hist.since[t] = 0
      BY <1>0, <2>1, <2>7, <2>12, <3>3
    <3>4. CASE u = t /\ o # at /\ hist.since[t] # 0
      <4>1. lastRun[t] # 0 /\ o < at /\ o \in Nat /\ at \in Nat /\ at # 0
        BY <1>0, <2>1, <2>7, <2>12, <3>4 DEF ChainInv, Up
      <4>2. o <= lastRun[t]
        <5>1. o > lastRun[t] => at <= o
          BY <1>0, <2>1, <3>4, <4>1 DEF ChainInv, at
        <5> QED
          BY <1>0, <4>1, <5>1
      <4>3. hist.fired[t][o] > 0 \/ o \in hist.skipped[t]
        BY <2>1, <2>7, <2>12, <3>4, <4>2 DEF ChainInv, NoneLost, Up
      <4> QED
        BY <1>0, <2>4, <2>5, <3>4, <4>3
    <3> QED
      BY <3>1, <3>2, <3>3, <3>4
  <2> QED
    BY <2>1, <2>8, <2>9, <2>10, <2>11, <2>12 DEF ChainInv, NoneLost, Up
<1>3. CASE Crash
  <2>1. /\ hist'.since = saved /\ hist'.fired = hist.fired
        /\ UNCHANGED <<mem, saved>> /\ pc' = "down"
    BY <1>3, CrashHistory DEF Crash, runVars
  <2> QED
    BY <2>1 DEF ChainInv, Recorded, NoneLost, Up
<1>4. CASE Wakeup
  <2>1. /\ hist'.since = NoTimes /\ hist'.fired = hist.fired /\ hist'.skipped = hist.skipped
        /\ UNCHANGED <<pc, mem, saved>> /\ lastRun' = NoTimes /\ pc # "down"
    BY <1>4, WakeupHistory DEF Wakeup, Up
  <2> QED
    BY <2>1 DEF ChainInv, Recorded, NoneLost, Up, NoTimes
<1>5. CASE Start
  <2>1. /\ UNCHANGED <<hist, saved>> /\ lastRun' = saved /\ mem' = saved /\ pc = "down" /\ pc' = "load"
        /\ hist.since = saved
    BY <1>5 DEF Start, ChainInv, Up
  <2>2. ASSUME NEW t \in Task, NEW o \in Occurs[t], saved[t] <= o, o <= saved[t] PROVE hist.fired[t][o] > 0
    <3>1. o = saved[t]
      BY <1>0, <2>2
    <3> QED
      BY <3>1 DEF ChainInv, Recorded
  <2> QED
    BY <2>1, <2>2 DEF ChainInv, Recorded, NoneLost, Up
<1>6. CASE FlushState
  BY <1>6 DEF FlushState, passVars, ChainInv, Recorded, NoneLost, Up
<1>7. CASE Boot \/ \E t \in Task : BootDelayOver(t)
  <2>1. hist'.since = hist.since /\ hist'.fired = hist.fired /\ hist'.skipped = hist.skipped
    BY <1>7, BootHistory
  <2>2. \A t \in Task : mem'[t] = mem[t] \/ Occurs[t] = {}
    <3>1. CASE Boot
      BY <1>0, <3>1, ScheduleAssumption DEF Boot
    <3>2. ASSUME NEW u \in Task, BootDelayOver(u) PROVE \A t \in Task : mem'[t] = mem[t] \/ Occurs[t] = {}
      <4>1. u \in Reboot
        BY <3>2, ScheduleAssumption DEF BootDelayOver, TypeInv, TypeOK
      <4> QED
        BY <1>0, <3>2, <4>1, ScheduleAssumption DEF BootDelayOver
    <3> QED
      BY <1>7, <3>1, <3>2
  <2>3. UNCHANGED <<saved, cands, lastRun>> /\ (pc' = pc \/ (pc = "boot" /\ pc' = "fire"))
    BY <1>7 DEF Boot, BootDelayOver, passVars
  <2> QED
    BY <2>1, <2>2, <2>3 DEF ChainInv, Recorded, NoneLost, Up
<1>8. CASE BootMachine
  <2>1. hist'.since = hist.since /\ hist'.fired = hist.fired /\ hist'.skipped = hist.skipped
    BY <1>8, BootHistory
  <2> QED
    BY <1>8, <2>1, ChainStays DEF BootMachine, passVars, runVars
<1>9. CASE ~(\/ Crash \/ Wakeup \/ Boot \/ BootMachine \/ Start \/ Scan \/ FlushState
             \/ \E t \in Task : BootDelayOver(t) \/ Fire(t))
  <2>1. UNCHANGED hist
    BY <1>9, NoHistoryStep
  <2>2. /\ UNCHANGED <<mem, saved, cands, lastRun>>
        /\ pc' = pc \/ (pc # "down" /\ pc' \notin {"down", "boot", "fire"})
    BY <1>9 DEF Next, Loop, vars, passVars, runVars, Edit, Tick, PoolStep, Look, Stat, StatFails, Reuse, Read, ReadNothing, ReadFails,
                Keep, Stamp, Begin, Clock, EndPass, Sleep
  <2> QED
    BY <2>1, <2>2, ChainStays
<1> QED
  BY <1>1, <1>2, <1>3, <1>4, <1>5, <1>6, <1>7, <1>8, <1>9

\* From the first occurrence a task handled on, every one up to its last run
\* was fired or skipped, through late passes, reloads and crashes
\* (scheduler.go:72-81, 189-211, 240-250).
THEOREM NothingIsLost == Spec => []NoneLost
<1>1. Init => ChainInv
  BY ScheduleAssumption DEF Init, ChainInv, Recorded, NoneLost, Up, NoHistory, NoTimes, Time
<1>2. ChainInv => NoneLost
  BY DEF ChainInv
<1> QED
  BY <1>1, <1>2, InitType, StepType, StepChain, PTL DEF Spec

=============================================================================
