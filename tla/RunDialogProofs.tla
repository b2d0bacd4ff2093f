--------------------------- MODULE RunDialogProofs ---------------------------
(***************************************************************************)
(* What the run dialog promises for any number of runs, of pieces of output *)
(* and of lines of input: its types, that its controls are those of its run *)
(* (ControlsOwnRun), that it implements RunSlot and so keeps its promise,   *)
(* that it shows the output of its own run (ShowsOwnRun) and no stopped run *)
(* as a success.                                                            *)
(*                                                                         *)
(* None of them is inductive.  DialogInv adds that a run in runningProc is  *)
(* also the activeRun, so the late end of another one is superseded; that   *)
(* the ticker is that of runningProc; and that a run not yet started is new *)
(* and was told nothing.  OutputInv adds what each process still has to     *)
(* deliver, and that a result in the header is that of a run that is over.  *)
(***************************************************************************)
EXTENDS RunDialog, SequenceTheorems, TLAPS

Live(r) == process[r].state \in {"running", "reaping", "exited"}

DialogInv ==
    /\ runningProc # None => open /\ activeRun = runningProc /\ Live(runningProc)
    /\ runDurationTimer = runningProc
    /\ timers = {runningProc} \ {None}
    /\ \A r \in Runs : r > started <=> process[r].state = "new"
    /\ \A r \in Runs : process[r].told => process[r].state # "new"
    /\ \A r \in Runs : Live(r) /\ r # runningProc => process[r].told
    /\ CurrentReachable

-----------------------------------------------------------------------------
(* Types *)

Piece == (Runs \cup {None}) \X Nat

\* Trimming bounds the length and keeps pieces pieces.
LEMMA TrimType ==
    ASSUME NEW s \in Seq(Piece)
    PROVE  Trim(s) \in Seq(Piece) /\ Len(Trim(s)) <= MaxShown + 1
<1> USE BoundsAssumption
<1>1. CASE Len(s) <= MaxShown
  BY <1>1 DEF Trim
<1>2. CASE Len(s) > MaxShown
  <2> DEFINE last == SubSeq(s, Len(s) - MaxShown + 1, Len(s))
  <2>1. MaxShown \in Nat /\ Len(s) \in Nat /\ <<TrimMark>> \in Seq(Piece)
    BY DEF TrimMark, Piece, None
  <2>2. last \in Seq(Piece) /\ Len(last) = MaxShown
    BY <1>2, <2>1, SubSeqProperties
  <2>3. <<TrimMark>> \o last \in Seq(Piece) /\ Len(<<TrimMark>> \o last) = 1 + MaxShown
    BY <2>1, <2>2, ConcatProperties
  <2> QED
    BY <1>2, <2>1, <2>3 DEF Trim
<1> QED
  BY <1>1, <1>2

LEMMA InitType == Init => TypeOK
<1> SUFFICES ASSUME Init PROVE TypeOK
  OBVIOUS
<1> USE BoundsAssumption
<1>1. ControlType
  <2>1. header \in [state : {"preview", "running", "stopping", "success", "error"},
                    of : Runs \cup {None}, id : Runs \cup {None}]
    BY DEF Init
  <2>2. started \in 0..MaxRuns /\ echoes \in 0..MaxEchoes
    BY DEF Init
  <2> QED
    BY <2>1, <2>2 DEF Init, ControlType
<1>2. process \in [Runs -> Process]
  BY DEF Init, Process
<1>3. shown \in Seq(Piece) /\ buffer \in Seq(Piece) /\ Len(shown) = 0
  BY DEF Init
<1> QED
  BY <1>1, <1>2, <1>3 DEF TypeOK, Piece

\* finishRun touches the page only.
LEMMA FinishType ==
    ASSUME ControlType, NEW r \in Runs, NEW ok \in BOOLEAN, finishRun(r, ok)
    PROVE  /\ {activeRun', runningProc', runDurationTimer'} \subseteq Runs \cup {None}
           /\ timers' \subseteq Runs
           /\ header' \in [state : {"preview", "running", "stopping", "success", "error"},
                           of : Runs \cup {None}, id : Runs \cup {None}]
           /\ button' \in {"run", "stop"} /\ stdinBar' \in BOOLEAN
<1>1. CASE Superseded(r)
  BY <1>1 DEF finishRun, ControlType, runVars, viewVars
<1>2. CASE ~Superseded(r)
  <2>1. IdOf(r) \in Runs \cup {None}
    BY DEF IdOf
  <2>2. header' = [state |-> IF ok THEN "success" ELSE "error", of |-> r, id |-> IdOf(r)]
    BY <1>2 DEF finishRun
  <2>3. header' \in [state : {"preview", "running", "stopping", "success", "error"},
                     of : Runs \cup {None}, id : Runs \cup {None}]
    BY <2>1, <2>2
  <2> QED
    BY <1>2, <2>3 DEF finishRun, ControlType, clearDurationTimer
<1> QED
  BY <1>1, <1>2

\* The two ways on from a running process: its output ends, or it does.
Ending(r) == OutputEnds(r) \/ Exit(r)

LEMMA EndingStep ==
    ASSUME process \in [Runs -> Process], NEW r \in Runs, Ending(r)
    PROVE  \E st \in {"reaping", "exited"}, ok \in BOOLEAN :
              process' = [process EXCEPT ![r] = [process[r] EXCEPT !.state = st, !.ok = ok]]
<1>1. CASE OutputEnds(r)
  <2>1. process[r].ok \in BOOLEAN
    BY DEF Process
  <2>2. process' = [process EXCEPT ![r] = [process[r] EXCEPT !.state = "reaping", !.ok = process[r].ok]]
    <3>1. [process[r] EXCEPT !.state = "reaping"]
             = [process[r] EXCEPT !.state = "reaping", !.ok = process[r].ok]
      BY DEF Process
    <3> QED
      BY <1>1, <3>1 DEF OutputEnds
  <2> QED
    BY <2>1, <2>2
<1>2. CASE Exit(r)
  <2>1. PICK ok \in BOOLEAN : process' = [process EXCEPT ![r].state = "exited", ![r].ok = ok]
    BY <1>2 DEF Exit
  <2>2. process' = [process EXCEPT ![r] = [process[r] EXCEPT !.state = "exited", !.ok = ok]]
    BY <2>1
  <2> QED
    BY <2>2
<1> QED
  BY <1>1, <1>2 DEF Ending

\* A process that was counted up or changed its state is still one.
LEMMA StepProcess == ControlType /\ process \in [Runs -> Process] /\ [Next]_vars => process' \in [Runs -> Process]
<1> SUFFICES ASSUME ControlType, process \in [Runs -> Process], [Next]_vars
             PROVE  process' \in [Runs -> Process]
  OBVIOUS
<1> USE BoundsAssumption DEF Process
<1>1. CASE Start \/ StartFails
  <2>1. started + 1 \in Runs
    BY <1>1 DEF Start, StartFails, ControlType, Runs
  <2> QED
    BY <1>1, <2>1 DEF Start, StartFails
<1>2. CASE Stop \/ Close
  <2>1. CASE runningProc = None
    BY <1>2, <2>1 DEF Stop, Close
  <2>2. CASE runningProc \in Runs
    BY <1>2, <2>2 DEF Stop, Close, terminate
  <2> QED
    BY <2>1, <2>2 DEF ControlType
<1>3. ASSUME NEW r \in Runs, Deliver(r) PROVE process' \in [Runs -> Process]
  <2>1. process[r] \in Process /\ process[r].got + 1 \in 0..MaxChunks
    BY <1>3 DEF Deliver
  <2> QED
    BY <1>3, <2>1 DEF Deliver
<1>4. ASSUME NEW r \in Runs, Settle(r) PROVE process' \in [Runs -> Process]
  BY <1>4 DEF Settle
<1>5. ASSUME NEW r \in Runs, Emit(r) PROVE process' \in [Runs -> Process]
  <2>1. process[r] \in Process /\ process[r].sent + 1 \in 0..MaxChunks
    BY <1>5 DEF Emit, Alive
  <2> QED
    BY <1>5, <2>1 DEF Emit, Alive
<1>6. ASSUME NEW r \in Runs, Ending(r) PROVE process' \in [Runs -> Process]
  <2>2. PICK st \in {"reaping", "exited"}, ok \in BOOLEAN :
           process' = [process EXCEPT ![r] = [process[r] EXCEPT !.state = st, !.ok = ok]]
    BY <1>6, EndingStep
  <2>3. [process[r] EXCEPT !.state = st, !.ok = ok] \in Process
    OBVIOUS
  <2> QED
    BY <2>2, <2>3
<1>7. CASE OpenDialog \/ SendStdin \/ Flush \/ UNCHANGED vars
  BY <1>7 DEF OpenDialog, SendStdin, Flush, vars
<1> QED
  BY <1>1, <1>2, <1>3, <1>4, <1>5, <1>6, <1>7 DEF Next, Ending

LEMMA StepControl == ControlType /\ [Next]_vars => ControlType'
<1> SUFFICES ASSUME ControlType, [Next]_vars PROVE ControlType'
  OBVIOUS
<1> USE BoundsAssumption DEF Runs, None, NoWriter
<1>1. CASE OpenDialog
  BY <1>1 DEF OpenDialog, ControlType, resetOutputWriter
<1>2. CASE Start
  BY <1>2 DEF Start, ControlType, resetOutputWriter
<1>3. CASE StartFails
  <2>1. started + 1 \in Runs /\ started + 1 \in 0..MaxRuns
    BY <1>3 DEF StartFails, ControlType
  <2> HIDE DEF Runs, None
  <2>2. header' \in [state : {"preview", "running", "stopping", "success", "error"},
                     of : Runs \cup {None}, id : Runs \cup {None}]
    BY <1>3, <2>1 DEF StartFails
  <2> QED
    BY <1>3, <2>1, <2>2 DEF StartFails, ControlType, resetOutputWriter
<1>4. CASE Stop
  BY <1>4 DEF Stop, ControlType, terminate, IdOf, runVars, writerVars
<1>5. CASE SendStdin
  BY <1>5 DEF SendStdin, ControlType, runVars, viewVars
<1>6. CASE Close
  <2>1. stopped' \subseteq Runs
    BY <1>6 DEF Close, ControlType, terminate
  <2>2. timers' \subseteq Runs /\ runDurationTimer' = None
    BY <1>6 DEF Close, ControlType, clearDurationTimer
  <2> QED
    BY <1>6, <2>1, <2>2 DEF Close, ControlType
<1>7. CASE Flush
  BY <1>7 DEF Flush, ControlType, flush, runVars, viewVars
<1>8. ASSUME NEW r \in Runs, Deliver(r) PROVE ControlType'
  BY <1>8 DEF Deliver, ControlType, append, runVars
<1>9. ASSUME NEW r \in Runs, Settle(r) PROVE ControlType'
  <2>1. (process[r].ok /\ r \notin stopped) \in BOOLEAN
    OBVIOUS
  <2>2. finishRun(r, process[r].ok /\ r \notin stopped)
    BY <1>9 DEF Settle
  <2> HIDE DEF Runs
  <2>3. /\ {activeRun', runningProc', runDurationTimer'} \subseteq Runs \cup {None}
        /\ timers' \subseteq Runs
        /\ header' \in [state : {"preview", "running", "stopping", "success", "error"},
                        of : Runs \cup {None}, id : Runs \cup {None}]
        /\ button' \in {"run", "stop"} /\ stdinBar' \in BOOLEAN
    BY <2>1, <2>2, FinishType
  <2>4. UNCHANGED <<open, stopped, named, outputWriter, attached, started, mine, echoes>>
    BY <1>9 DEF Settle
  <2> QED
    BY <2>3, <2>4 DEF ControlType
<1>10. ASSUME NEW r \in Runs, Emit(r) PROVE ControlType'
  BY <1>10 DEF Emit, Alive, ControlType, runVars, viewVars, writerVars
<1>11. ASSUME NEW r \in Runs, Ending(r) PROVE ControlType'
  BY <1>11 DEF Ending, OutputEnds, Exit, Alive, ControlType, runVars, viewVars, writerVars
<1>12. CASE UNCHANGED vars
  BY <1>12 DEF vars, ControlType, runVars, viewVars, writerVars
<1> QED
  BY <1>1, <1>2, <1>3, <1>4, <1>5, <1>6, <1>7, <1>8, <1>9, <1>10, <1>11, <1>12 DEF Next, Ending

\* What is shown and what waits are pieces; what is shown was trimmed last.
LEMMA StepText ==
    TypeOK /\ [Next]_vars => /\ {shown', buffer'} \subseteq Seq(Piece)
                             /\ Len(shown') <= MaxShown + 1
<1> SUFFICES ASSUME TypeOK, [Next]_vars
             PROVE  shown' \in Seq(Piece) /\ buffer' \in Seq(Piece) /\ Len(shown') <= MaxShown + 1
  OBVIOUS
<1> DEFINE Goal == shown' \in Seq(Piece) /\ buffer' \in Seq(Piece) /\ Len(shown') <= MaxShown + 1
<1>0. /\ shown \in Seq(Piece) /\ buffer \in Seq(Piece) /\ Len(shown) <= MaxShown + 1
      /\ MaxShown \in Nat /\ <<>> \in Seq(Piece) /\ Len(<<>>) = 0
  BY BoundsAssumption DEF TypeOK, Piece
<1>1. ASSUME UNCHANGED <<shown, buffer>> PROVE Goal
  BY <1>0, <1>1
<1>2. ASSUME flush PROVE Goal
  <2>1. shown \o buffer \in Seq(Piece)
    BY <1>0, ConcatProperties
  <2> QED
    BY <1>0, <1>2, <2>1, TrimType DEF flush, Flushed
<1>3. ASSUME NEW w, resetOutputWriter(w) PROVE Goal
  BY <1>0, <1>3 DEF resetOutputWriter
<1>4. CASE SendStdin
  <2>1. Echo(runningProc) \in Piece
    BY DEF Echo, Piece, TypeOK, ControlType
  <2>2. Append(buffer, Echo(runningProc)) \in Seq(Piece)
    BY <1>0, <2>1, AppendProperties
  <2>3. shown \o Append(buffer, Echo(runningProc)) \in Seq(Piece)
    BY <1>0, <2>2, ConcatProperties
  <2> QED
    BY <1>0, <1>4, <2>3, TrimType DEF SendStdin
<1>5. ASSUME NEW r \in Runs, Deliver(r) PROVE Goal
  <2>1. process[r].got + 1 \in Nat
    BY BoundsAssumption DEF TypeOK, Process
  <2>2. <<r, process[r].got + 1>> \in Piece
    BY <2>1 DEF Piece
  <2>3. Append(buffer, <<r, process[r].got + 1>>) \in Seq(Piece)
    BY <1>0, <2>2, AppendProperties
  <2> QED
    BY <1>0, <1>5, <2>3 DEF Deliver, append
<1>6. ASSUME NEW r \in Runs, Settle(r) PROVE Goal
  BY <1>1, <1>2, <1>6 DEF Settle
<1>7. CASE OpenDialog \/ Start \/ StartFails
  BY <1>3, <1>7 DEF OpenDialog, Start, StartFails
<1>8. CASE Close \/ Flush
  BY <1>2, <1>8 DEF Close, Flush
<1>9. CASE Stop \/ UNCHANGED vars
  BY <1>1, <1>9 DEF Stop, vars, writerVars
<1>10. ASSUME NEW r \in Runs, Emit(r) \/ Ending(r) PROVE Goal
  BY <1>1, <1>10 DEF Ending, Emit, OutputEnds, Exit, Alive, writerVars
<1> QED
  BY <1>4, <1>5, <1>6, <1>7, <1>8, <1>9, <1>10 DEF Next, Ending

\* The state of the dialog keeps its type for any number of runs and pieces.
THEOREM DialogTypeCorrect == Spec => []TypeOK
<1>1. TypeOK /\ [Next]_vars => TypeOK'
  BY StepControl, StepProcess, StepText DEF TypeOK, Piece
<1> QED
  BY <1>1, InitType, PTL DEF Spec

-----------------------------------------------------------------------------
(* The run in the dialog *)

LEMMA InitDialog == Init => DialogInv
BY BoundsAssumption DEF Init, DialogInv, Live, CurrentReachable, Runs, None

\* The end of a run that the dialog does not hold leaves the one it holds alone.
LEMMA LateEnd ==
    ASSUME DialogInv, NEW r \in Runs, NEW ok, finishRun(r, ok)
    PROVE  \/ /\ runningProc # r /\ runningProc # None
              /\ UNCHANGED <<runVars, viewVars>>
           \/ /\ runningProc \in {r, None}
              /\ runningProc' = None /\ runDurationTimer' = None /\ timers' = {}
           \/ runningProc = None /\ UNCHANGED <<runVars, viewVars>>
<1>1. CASE Superseded(r)
  BY <1>1 DEF finishRun, Superseded, DialogInv
<1>2. CASE ~Superseded(r)
  BY <1>2 DEF finishRun, Superseded, DialogInv, clearDurationTimer
<1> QED
  BY <1>1, <1>2

LEMMA StepDialog == TypeOK /\ DialogInv /\ [Next]_vars => DialogInv'
<1> SUFFICES ASSUME TypeOK, DialogInv, [Next]_vars PROVE DialogInv'
  OBVIOUS
<1>0. /\ process \in [Runs -> Process] /\ runningProc \in Runs \cup {None}
      /\ started \in 0..MaxRuns /\ None \notin Runs /\ MaxRuns \in Nat
      /\ mine \in Runs \cup {None}
  BY BoundsAssumption DEF TypeOK, ControlType, Runs, None
<1> USE DEF DialogInv, CurrentReachable, Live, Process
<1>1. CASE OpenDialog
  BY <1>0, <1>1 DEF OpenDialog
<1>2. CASE Start
  <2>1. started + 1 \in Runs /\ \A r \in Runs : r > started + 1 <=> r > started /\ r # started + 1
    BY <1>0, <1>2 DEF Start, Runs
  <2> QED
    BY <1>0, <1>2, <2>1 DEF Start
<1>3. CASE StartFails
  <2>1. started + 1 \in Runs /\ \A r \in Runs : r > started + 1 <=> r > started /\ r # started + 1
    BY <1>0, <1>3 DEF StartFails, Runs
  <2> QED
    BY <1>0, <1>3, <2>1 DEF StartFails
<1>4. CASE Stop
  BY <1>0, <1>4 DEF Stop, terminate, runVars
<1>5. CASE Close
  BY <1>0, <1>5 DEF Close, terminate, clearDurationTimer
<1>6. CASE SendStdin \/ Flush \/ UNCHANGED vars
  BY <1>6 DEF SendStdin, Flush, vars, runVars, viewVars
<1>7. ASSUME NEW r \in Runs, Deliver(r) PROVE DialogInv'
  BY <1>0, <1>7 DEF Deliver, runVars
<1>8. ASSUME NEW r \in Runs, Settle(r) PROVE DialogInv'
  <2>1. finishRun(r, process[r].ok /\ r \notin stopped)
    BY <1>8 DEF Settle
  <2>2. \/ /\ runningProc # r /\ runningProc # None
           /\ UNCHANGED <<runVars, viewVars>>
        \/ /\ runningProc \in {r, None}
           /\ runningProc' = None /\ runDurationTimer' = None /\ timers' = {}
        \/ runningProc = None /\ UNCHANGED <<runVars, viewVars>>
    BY <2>1, LateEnd
  <2>3. /\ process' = [process EXCEPT ![r].state = "settled"]
        /\ UNCHANGED <<open, started, mine>>
    BY <1>8 DEF Settle
  <2>4. process[r].state = "exited"
    BY <1>8 DEF Settle
  <2> QED
    BY <1>0, <2>2, <2>3, <2>4 DEF runVars, viewVars
<1>9. ASSUME NEW r \in Runs, Emit(r) PROVE DialogInv'
  BY <1>0, <1>9 DEF Emit, Alive, runVars, viewVars
<1>10. ASSUME NEW r \in Runs, Ending(r) PROVE DialogInv'
  <2>2. PICK st \in {"reaping", "exited"}, ok \in BOOLEAN :
           process' = [process EXCEPT ![r] = [process[r] EXCEPT !.state = st, !.ok = ok]]
    BY <1>0, <1>10, EndingStep
  <2>3. /\ UNCHANGED <<open, runVars, viewVars, started, mine>>
        /\ process[r].state \in {"running", "reaping"}
    BY <1>10 DEF Ending, OutputEnds, Exit, Alive
  <2>4. CASE st = "reaping"
    BY <1>0, <2>2, <2>3, <2>4 DEF runVars, viewVars
  <2>5. CASE st = "exited"
    BY <1>0, <2>2, <2>3, <2>5 DEF runVars, viewVars
  <2> QED
    BY <2>2, <2>4, <2>5
<1> QED
  BY <1>1, <1>2, <1>3, <1>4, <1>5, <1>6, <1>7, <1>8, <1>9, <1>10 DEF Next, Ending

\* The stop button, the input bar and the ticker are those of the run under way,
\* and a run that lost them was told to end, for any number of runs.
THEOREM ControlsAreOwn == Spec => []ControlsOwnRun
<1>1. TypeOK /\ DialogInv => ControlsOwnRun
  BY DEF DialogInv, Live, Alive, ControlsOwnRun, NoneAbandoned, OneTicker
<1> QED
  BY <1>1, InitDialog, StepDialog, DialogTypeCorrect, PTL DEF Spec

-----------------------------------------------------------------------------
(* The dialog implements RunSlot *)

slotNow == IF ~open THEN "closed" ELSE IF runningProc = None THEN "ready" ELSE "running"
liveNow == {r \in Runs : Live(r)}
toldNow == {r \in Runs : process[r].told}

LEMMA InitSlot == Init => Slot!Init
BY DEF Init, Slot!Init, Slot!Nobody, None

LEMMA StepSlot == TypeOK /\ DialogInv /\ [Next]_vars => [Slot!Next]_Slot!vars
<1> SUFFICES ASSUME TypeOK, DialogInv, [Next]_vars PROVE [Slot!Next]_Slot!vars
  OBVIOUS
<1>0. /\ process \in [Runs -> Process] /\ runningProc \in Runs \cup {None}
      /\ started \in 0..MaxRuns /\ None \notin Runs /\ MaxRuns \in Nat
  BY BoundsAssumption DEF TypeOK, ControlType, Runs, None
<1>n. Slot!Nobody = None
  BY DEF Slot!Nobody, None
<1>v. ASSUME slotNow' = slotNow, runningProc' = runningProc, liveNow' = liveNow, toldNow' = toldNow
      PROVE  UNCHANGED Slot!vars
  BY <1>v DEF Slot!vars, slotNow, liveNow, toldNow, Live
<1> USE DEF DialogInv, Live, Process
<1>1. CASE OpenDialog
  <2>1. Slot!Open
    BY <1>0, <1>1 DEF OpenDialog, Slot!Open
  <2> QED
    BY <2>1 DEF Slot!Next
<1>2. CASE Start
  <2>1. started + 1 \in Runs /\ started + 1 > started
    BY <1>0, <1>2 DEF Start, Runs
  <2>2. PICK r \in Runs : r = started + 1
    BY <2>1
  <2>3. Slot!Start(r)
    BY <1>0, <1>2, <2>1, <2>2 DEF Start, Slot!Start
  <2> QED
    BY <2>3 DEF Slot!Next
<1>3. CASE StartFails
  <2>1. started + 1 \in Runs /\ started + 1 > started
    BY <1>0, <1>3 DEF StartFails, Runs
  <2>2. slotNow' = slotNow /\ runningProc' = runningProc /\ liveNow' = liveNow /\ toldNow' = toldNow
    BY <1>0, <1>3, <2>1 DEF StartFails, slotNow, liveNow, toldNow
  <2> QED
    BY <2>2, <1>v
<1>4. CASE Stop
  <2>1. Slot!Stop
    BY <1>0, <1>4 DEF Stop, terminate, runVars, Slot!Stop
  <2> QED
    BY <2>1 DEF Slot!Next
<1>5. CASE Close
  <2>1. Slot!Close
    BY <1>0, <1>5, <1>n DEF Close, terminate, Slot!Close
  <2> QED
    BY <2>1 DEF Slot!Next
<1>6. CASE SendStdin \/ Flush \/ UNCHANGED vars
  <2>1. slotNow' = slotNow /\ runningProc' = runningProc /\ liveNow' = liveNow /\ toldNow' = toldNow
    BY <1>6 DEF SendStdin, Flush, vars, runVars, slotNow, liveNow, toldNow
  <2> QED
    BY <2>1, <1>v
<1>7. ASSUME NEW r \in Runs, Deliver(r) \/ Emit(r) PROVE [Slot!Next]_Slot!vars
  <2>1. slotNow' = slotNow /\ runningProc' = runningProc /\ liveNow' = liveNow /\ toldNow' = toldNow
    BY <1>0, <1>7 DEF Deliver, Emit, runVars, slotNow, liveNow, toldNow
  <2> QED
    BY <2>1, <1>v
<1>8. ASSUME NEW r \in Runs, Settle(r) PROVE [Slot!Next]_Slot!vars
  <2>1. finishRun(r, process[r].ok /\ r \notin stopped)
    BY <1>8 DEF Settle
  <2>2. \/ /\ runningProc # r /\ runningProc # None
           /\ UNCHANGED <<runVars, viewVars>>
        \/ /\ runningProc \in {r, None}
           /\ runningProc' = None /\ runDurationTimer' = None /\ timers' = {}
        \/ runningProc = None /\ UNCHANGED <<runVars, viewVars>>
    BY <2>1, LateEnd
  <2>3. /\ process' = [process EXCEPT ![r].state = "settled"] /\ process[r].state = "exited"
        /\ open' = open
    BY <1>8 DEF Settle
  <2>4. r \in liveNow /\ liveNow' = liveNow \ {r} /\ toldNow' = toldNow
    BY <1>0, <2>3 DEF liveNow, toldNow
  <2>5. IF r = runningProc THEN slotNow' = "ready" /\ runningProc' = None
        ELSE slotNow' = slotNow /\ runningProc' = runningProc
    BY <1>0, <2>2, <2>3 DEF slotNow, runVars
  <2>6. Slot!End(r)
    BY <2>4, <2>5, <1>n DEF Slot!End, liveNow, toldNow, slotNow
  <2> QED
    BY <2>6 DEF Slot!Next
<1>9. ASSUME NEW r \in Runs, Ending(r) PROVE [Slot!Next]_Slot!vars
  <2>2. PICK st \in {"reaping", "exited"}, ok \in BOOLEAN :
           process' = [process EXCEPT ![r] = [process[r] EXCEPT !.state = st, !.ok = ok]]
    BY <1>0, <1>9, EndingStep
  <2>3. slotNow' = slotNow /\ runningProc' = runningProc /\ liveNow' = liveNow /\ toldNow' = toldNow
    <3>1. /\ UNCHANGED <<open, runVars>> /\ process[r].state \in {"running", "reaping"}
      BY <1>9 DEF Ending, OutputEnds, Exit, Alive
    <3>2. \A q \in Runs : (Live(q)' <=> Live(q)) /\ process'[q].told = process[q].told
      BY <1>0, <2>2, <3>1
    <3> QED
      BY <3>1, <3>2 DEF runVars, slotNow, liveNow, toldNow
  <2> QED
    BY <2>3, <1>v
<1> QED
  BY <1>1, <1>2, <1>3, <1>4, <1>5, <1>6, <1>7, <1>8, <1>9 DEF Next, Ending

\* The run dialog is a RunSlot: each of its steps is a step of the slot or none
\* that shows there, for any number of runs.
THEOREM DialogIsSlot == Spec => ImplementsSlot
<1> QED
  BY InitSlot, StepSlot, InitDialog, StepDialog, DialogTypeCorrect, PTL DEF Spec, ImplementsSlot, Slot!Spec

LEMMA SlotStepHolds ==
    ASSUME Slot!HeldOrTold, [Slot!Next]_Slot!vars
    PROVE  Slot!HeldOrTold'
<1> USE DEF Slot!HeldOrTold
<1>1. CASE Slot!Open
  BY <1>1 DEF Slot!Open
<1>2. CASE Slot!Stop
  BY <1>2 DEF Slot!Stop
<1>3. CASE Slot!Close
  BY <1>3 DEF Slot!Close
<1>4. ASSUME NEW r \in Runs, Slot!Start(r) PROVE Slot!HeldOrTold'
  BY <1>4 DEF Slot!Start, Slot!Nobody, Runs
<1>5. ASSUME NEW r \in Runs, Slot!End(r) PROVE Slot!HeldOrTold'
  BY <1>5 DEF Slot!End
<1>6. CASE UNCHANGED Slot!vars
  BY <1>6 DEF Slot!vars
<1> QED
  BY <1>1, <1>2, <1>3, <1>4, <1>5, <1>6 DEF Slot!Next

\* What RunSlot promises holds of the dialog: a run is told to stop when the slot
\* is closed over it, and leaves the slot otherwise only by its own end, so what
\* runs untold is in the slot (app.js:1361-1401, 2044-2060).
THEOREM SlotHolds == Spec => []Slot!HeldOrTold
<1>1. Slot!Init => Slot!HeldOrTold
  BY DEF Slot!Init, Slot!HeldOrTold, Slot!Nobody
<1> QED
  BY <1>1, SlotStepHolds, DialogIsSlot, PTL DEF ImplementsSlot, Slot!Spec

-----------------------------------------------------------------------------
(* The output on display.  The text is that of the run in the document: late  *)
(* pieces of another run go to a writer that is not attached.                 *)

Received(r) == process[r].got
Finished == {"success", "error"}

\* A finished run has nothing left to deliver, and a new one has nothing yet.
ProcessInv ==
    \A r \in Runs :
        /\ process[r].state = "new" => Received(r) = 0 /\ process[r].sent = 0
        /\ process[r].state = "settled" => Received(r) = process[r].sent
        /\ process[r].told => r \in stopped

\* The header gives the result of a run that is over, and not of a stopped one
\* as a success.
HeaderInv ==
    /\ header.state \in Finished => header.of \in Runs /\ process[header.of].state = "settled"
    /\ StoppedNotSuccess

OutputInv == ProcessInv /\ HeaderInv /\ ShowsOwnRun

\* Trimming takes pieces from the front alone, and leaves its mark there.
LEMMA OwnTrimmed ==
    ASSUME NEW text \in Seq(Piece), NEW r \in Runs, NEW got \in Nat, OwnText(text, r, got)
    PROVE  OwnText(Trim(text), r, got)
<1> DEFINE left == Len(text) - MaxShown
<1>0. MaxShown \in Nat /\ Len(text) \in Nat /\ left \in Int
  BY BoundsAssumption
<1>1. CASE Len(text) <= MaxShown
  BY <1>0, <1>1 DEF Trim
<1>2. CASE Len(text) > MaxShown
  <2> DEFINE last == SubSeq(text, left + 1, Len(text))
             new == <<TrimMark>> \o last
  <2>0. left \in Nat /\ left >= 1
    BY <1>0, <1>2
  <2>1. last \in Seq(Piece) /\ Len(last) = MaxShown /\ \A i \in 1..MaxShown : last[i] = text[left + i]
    BY <1>0, <2>0, SubSeqProperties
  <2>2. <<TrimMark>> \in Seq(Piece) /\ Len(<<TrimMark>>) = 1
    BY DEF TrimMark, Piece, None
  <2>3. /\ new \in Seq(Piece) /\ Len(new) = MaxShown + 1
        /\ new[1] = TrimMark
        /\ \A i \in 2..MaxShown + 1 : new[i] = last[i - 1]
    <3> HIDE DEF last
    <3> QED
      BY <1>0, <2>1, <2>2, ConcatProperties
  <2>4. \A i \in 2..MaxShown + 1 : new[i] = text[left + i - 1] /\ left + i - 1 \in 1..Len(text)
    BY <1>0, <2>0, <2>1, <2>3
  <2>5. TrimMark[2] = 0
    BY DEF TrimMark
  <2>6. Trim(text) = new
    BY <1>2 DEF Trim
  <2> HIDE DEF new, last
  <2> DEFINE pieces == {i \in DOMAIN new : new[i][2] > 0}
             before == {i \in DOMAIN text : text[i][2] > 0}
  <2>7. DOMAIN new = 1..MaxShown + 1 /\ DOMAIN text = 1..Len(text)
    BY <2>3, LenProperties
  <2>8. \A i \in pieces : i \in 2..MaxShown + 1 /\ left + i - 1 \in before /\ new[i] = text[left + i - 1]
    BY <1>0, <2>3, <2>4, <2>5, <2>7, SMTT(30)
  <2>9. \A i \in pieces : new[i][1] = r /\ new[i][2] <= got
    BY <2>8 DEF OwnText
  <2>10. \A i, j \in pieces : i < j => new[i][2] < new[j][2]
    <3> SUFFICES ASSUME NEW i \in pieces, NEW j \in pieces, i < j PROVE new[i][2] < new[j][2]
      OBVIOUS
    <3>1. left + i - 1 \in before /\ left + j - 1 \in before /\ left + i - 1 < left + j - 1
      BY <1>0, <2>8
    <3>2. text[left + i - 1][2] < text[left + j - 1][2]
      BY <3>1 DEF OwnText
    <3> QED
      BY <2>8, <3>2
  <2>11. ASSUME NEW n \in 1..got, ~ \E i \in pieces : new[i][2] = n
         PROVE  \A i \in pieces : n < new[i][2]
    <3> SUFFICES ASSUME NEW i \in pieces PROVE n < new[i][2]
      OBVIOUS
    <3>1. CASE \E j \in before : text[j][2] = n
      <4>1. PICK j \in before : text[j][2] = n
        BY <3>1
      <4>2. CASE j <= left
        <5>1. left + i - 1 \in before /\ j < left + i - 1 /\ new[i] = text[left + i - 1]
          BY <1>0, <2>7, <2>8, <4>2
        <5>2. text[j][2] < text[left + i - 1][2]
          BY <4>1, <5>1 DEF OwnText
        <5> QED
          BY <4>1, <5>1, <5>2
      <4>3. CASE j > left
        <5>1. j - left + 1 \in 2..MaxShown + 1 /\ left + (j - left + 1) - 1 = j
          BY <1>0, <2>7, <4>3
        <5>2. new[j - left + 1] = text[j]
          BY <2>4, <5>1
        <5>3. j - left + 1 \in pieces
          BY <2>7, <5>1, <5>2, <4>1
        <5> QED
          BY <2>11, <4>1, <5>2, <5>3
      <4> QED
        BY <1>0, <2>7, <4>2, <4>3
    <3>2. CASE ~ \E j \in before : text[j][2] = n
      BY <2>8, <3>2 DEF OwnText
    <3> QED
      BY <3>1, <3>2
  <2>12. new # <<>>
    BY <1>0, <2>3
  <2> QED
    BY <2>3, <2>6, <2>9, <2>10, <2>11, <2>12 DEF OwnText
<1> QED
  BY <1>0, <1>1, <1>2

\* A line that was sent to the run is shown with its output.
LEMMA OwnEchoed ==
    ASSUME NEW text \in Seq(Piece), NEW r, NEW got \in Nat, OwnText(text, r, got), NEW q \in Runs
    PROVE  OwnText(Append(text, Echo(q)), r, got)
<1> DEFINE new == Append(text, Echo(q))
<1>1. Echo(q) \in Piece /\ Echo(q)[2] = 0
  BY DEF Echo, Piece
<1>2. /\ DOMAIN text = 1..Len(text) /\ DOMAIN new = 1..Len(text) + 1 /\ Len(text) \in Nat
      /\ \A i \in 1..Len(text) : new[i] = text[i]
      /\ new[Len(text) + 1] = Echo(q) /\ new # <<>>
  BY <1>1, AppendProperties, LenProperties
<1> HIDE DEF new
<1>3. {i \in DOMAIN new : new[i][2] > 0} = {i \in DOMAIN text : text[i][2] > 0}
  BY <1>1, <1>2
<1>4. text # <<>> => new[1] = text[1]
  BY <1>2, EmptySeq
<1>5. OwnText(new, r, got)
  BY <1>2, <1>3, <1>4 DEF OwnText
<1> QED
  BY <1>5 DEF new

\* The next piece of the run is appended.
LEMMA OwnAppended ==
    ASSUME NEW text \in Seq(Piece), NEW r \in Runs, NEW got \in Nat, OwnText(text, r, got)
    PROVE  OwnText(Append(text, <<r, got + 1>>), r, got + 1)
<1> DEFINE new == Append(text, <<r, got + 1>>)
           end == Len(text) + 1
           before == {i \in DOMAIN text : text[i][2] > 0}
           pieces == {i \in DOMAIN new : new[i][2] > 0}
<1>1. <<r, got + 1>> \in Piece
  BY DEF Piece
<1>2. /\ DOMAIN text = 1..Len(text) /\ DOMAIN new = 1..Len(text) + 1 /\ Len(text) \in Nat
      /\ \A i \in 1..Len(text) : new[i] = text[i]
      /\ new[end] = <<r, got + 1>> /\ new # <<>>
  BY <1>1, AppendProperties, LenProperties
<1>3. text # <<>> => new[1] = text[1]
  BY <1>2, EmptySeq
<1> HIDE DEF new
<1>4. /\ pieces = before \cup {end} /\ end \notin before
      /\ \A i \in before : i < end /\ new[i] = text[i] /\ text[i] \in Piece
  BY <1>2, ElementOfSeq
<1>5. \A i \in before : text[i][1] = r /\ text[i][2] <= got /\ text[i][2] \in Nat
  BY <1>4 DEF OwnText, Piece
<1> HIDE DEF before, pieces, end
<1>6. \A i \in pieces : new[i][1] = r /\ new[i][2] <= got + 1
  BY <1>2, <1>4, <1>5
<1>7. \A i, j \in pieces : i < j => new[i][2] < new[j][2]
  <2> SUFFICES ASSUME NEW i \in pieces, NEW j \in pieces, i < j PROVE new[i][2] < new[j][2]
    OBVIOUS
  <2>1. CASE j \in before
    <3>1. i \in before
      BY <1>2, <1>4, <2>1 DEF before, end
    <3> QED
      BY <1>4, <2>1, <3>1 DEF OwnText, before
  <2>2. CASE j = end
    <3>1. i \in before
      BY <1>2, <1>4, <2>2 DEF end
    <3> QED
      BY <1>2, <1>4, <1>5, <2>2, <3>1
  <2> QED
    BY <1>4, <2>1, <2>2
<1>8. ASSUME NEW n \in 1..got + 1
      PROVE  \/ \E i \in pieces : new[i][2] = n
             \/ new # <<>> /\ new[1] = TrimMark /\ \A i \in pieces : n < new[i][2]
  <2>1. CASE n = got + 1
    BY <1>2, <1>4, <2>1
  <2>2. CASE n \in 1..got
    <3>1. CASE \E i \in before : text[i][2] = n
      BY <1>4, <3>1
    <3>2. CASE text # <<>> /\ text[1] = TrimMark /\ \A i \in before : n < text[i][2]
      BY <1>2, <1>3, <1>4, <2>2, <3>2
    <3> QED
      BY <2>2, <3>1, <3>2 DEF OwnText, before
  <2> QED
    BY <2>1, <2>2
<1>9. OwnText(new, r, got + 1)
  BY <1>6, <1>7, <1>8 DEF OwnText, pieces
<1> QED
  BY <1>9 DEF new

LEMMA TextType == ASSUME TypeOK PROVE shown \in Seq(Piece) /\ buffer \in Seq(Piece) /\ shown \o buffer \in Seq(Piece)
  BY ConcatProperties DEF TypeOK, Piece

\* Pushing the buffer into the document changes what is shown by a trim at most.
LEMMA FlushOwn ==
    ASSUME TypeOK, OutputIsOwn, flush, attached' = attached,
           attached \in Runs => process'[attached].got = process[attached].got
    PROVE  OutputIsOwn'
<1> SUFFICES ASSUME attached \in Runs
             PROVE  OwnText(shown' \o buffer', attached, process[attached].got)
  BY DEF OutputIsOwn
<1>1. shown \o buffer \in Seq(Piece) /\ process[attached].got \in Nat
  BY TextType, BoundsAssumption DEF TypeOK, Process
<1>2. OwnText(Trim(shown \o buffer), attached, process[attached].got)
  BY <1>1, OwnTrimmed DEF OutputIsOwn
<1>3. shown' \o buffer' = Trim(shown \o buffer)
  BY <1>1, TrimType, ConcatEmptySeq DEF flush, Flushed
<1> QED
  BY <1>2, <1>3

LEMMA StepProcesses ==
    TypeOK /\ DialogInv /\ ProcessInv /\ [Next]_vars => ProcessInv'
<1> SUFFICES ASSUME TypeOK, DialogInv, ProcessInv, [Next]_vars PROVE ProcessInv'
  OBVIOUS
<1>0. /\ process \in [Runs -> Process] /\ runningProc \in Runs \cup {None}
      /\ started \in 0..MaxRuns /\ None \notin Runs /\ MaxRuns \in Nat /\ MaxChunks \in Nat
  BY BoundsAssumption DEF TypeOK, ControlType, Runs, None
<1> USE DEF ProcessInv, Received, Process
<1>1. CASE Start \/ StartFails
  <2>1. started + 1 \in Runs /\ started + 1 > started
    BY <1>0, <1>1 DEF Start, StartFails, Runs
  <2>2. process[started + 1].state = "new"
    BY <2>1 DEF DialogInv
  <2>3. /\ \E state : state # "new" /\ process' = [process EXCEPT ![started + 1].state = state]
        /\ stopped' = stopped
    BY <1>1 DEF Start, StartFails
  <2> QED
    BY <1>0, <2>1, <2>2, <2>3
<1>2. CASE Stop \/ (Close /\ runningProc # None)
  <2>1. terminate /\ runningProc \in Runs /\ activeRun = runningProc
    BY <1>0, <1>2 DEF Stop, Close, DialogInv
  <2> QED
    BY <1>0, <2>1 DEF terminate
<1>3. CASE OpenDialog \/ (Close /\ runningProc = None) \/ SendStdin \/ Flush \/ UNCHANGED vars
  BY <1>3 DEF OpenDialog, Close, SendStdin, Flush, vars
<1>4. ASSUME NEW r \in Runs, Deliver(r) PROVE ProcessInv'
  BY <1>0, <1>4 DEF Deliver
<1>5. ASSUME NEW r \in Runs, Settle(r) PROVE ProcessInv'
  BY <1>0, <1>5 DEF Settle
<1>6. ASSUME NEW r \in Runs, Emit(r) PROVE ProcessInv'
  BY <1>0, <1>6 DEF Emit, Alive
<1>7. ASSUME NEW r \in Runs, Ending(r) PROVE ProcessInv'
  <2>2. PICK st \in {"reaping", "exited"}, ok \in BOOLEAN :
           process' = [process EXCEPT ![r] = [process[r] EXCEPT !.state = st, !.ok = ok]]
    BY <1>0, <1>7, EndingStep
  <2> QED
    BY <1>0, <1>7, <2>2 DEF Ending, OutputEnds, Exit, Alive
<1> QED
  BY <1>1, <1>2, <1>3, <1>4, <1>5, <1>6, <1>7 DEF Next, Ending

LEMMA StepHeader ==
    TypeOK /\ DialogInv /\ ProcessInv /\ HeaderInv /\ [Next]_vars => HeaderInv'
<1> SUFFICES ASSUME TypeOK, DialogInv, ProcessInv, HeaderInv, [Next]_vars PROVE HeaderInv'
  OBVIOUS
<1>0. /\ process \in [Runs -> Process] /\ runningProc \in Runs \cup {None}
      /\ started \in 0..MaxRuns /\ None \notin Runs /\ MaxRuns \in Nat
      /\ header \in [state : {"preview", "running", "stopping", "success", "error"},
                     of : Runs \cup {None}, id : Runs \cup {None}]
  BY BoundsAssumption DEF TypeOK, ControlType, Runs, None
<1> USE DEF HeaderInv, StoppedNotSuccess, Finished, Process
<1>1. CASE Start
  BY <1>0, <1>1 DEF Start
<1>2. CASE StartFails
  <2>1. started + 1 \in Runs
    BY <1>0, <1>2 DEF StartFails, Runs
  <2> QED
    BY <1>0, <1>2, <2>1 DEF StartFails
<1>3. CASE OpenDialog \/ Stop
  BY <1>3 DEF OpenDialog, Stop
<1>4. CASE Close
  BY <1>0, <1>4 DEF Close, terminate, DialogInv, Live
<1>5. CASE SendStdin \/ Flush \/ UNCHANGED vars
  BY <1>5 DEF SendStdin, Flush, vars, viewVars
<1>6. ASSUME NEW r \in Runs, Deliver(r) PROVE HeaderInv'
  BY <1>0, <1>6 DEF Deliver
<1>7. ASSUME NEW r \in Runs, Settle(r) PROVE HeaderInv'
  <2>1. /\ finishRun(r, process[r].ok /\ r \notin stopped)
        /\ process[r].state = "exited" /\ process' = [process EXCEPT ![r].state = "settled"]
    BY <1>7 DEF Settle
  <2>2. CASE header' = header
    BY <1>0, <2>1, <2>2
  <2>3. CASE header' = [state |-> IF process[r].ok /\ r \notin stopped THEN "success" ELSE "error",
                        of |-> r, id |-> IdOf(r)]
    BY <1>0, <2>1, <2>3 DEF ProcessInv
  <2> QED
    BY <2>1, <2>2, <2>3 DEF finishRun, viewVars
<1>8. ASSUME NEW r \in Runs, Emit(r) \/ Ending(r) PROVE HeaderInv'
  <2>1. /\ UNCHANGED header /\ process[r].state \in {"running", "reaping"}
        /\ \A q \in Runs : /\ process'[q].told = process[q].told
                           /\ q # r => process'[q] = process[q]
    BY <1>0, <1>8 DEF Ending, Emit, OutputEnds, Exit, Alive, viewVars
  <2> QED
    BY <1>0, <2>1
<1> QED
  BY <1>1, <1>2, <1>3, <1>4, <1>5, <1>6, <1>7, <1>8 DEF Next, Ending

\* A writer that was just put into the document has nothing to show.
LEMMA FreshOwn ==
    ASSUME NEW w, resetOutputWriter(w), w \in Runs => process'[w].got = 0
    PROVE  OutputIsOwn'
<1>1. shown' \o buffer' = <<>>
  BY DEF resetOutputWriter
<1>2. OwnText(<<>>, w, 0)
  BY DEF OwnText
<1> QED
  BY <1>1, <1>2 DEF OutputIsOwn, resetOutputWriter

LEMMA StepOutput ==
    TypeOK /\ DialogInv /\ ProcessInv /\ OutputIsOwn /\ [Next]_vars => OutputIsOwn'
<1> SUFFICES ASSUME TypeOK, DialogInv, ProcessInv, OutputIsOwn, [Next]_vars PROVE OutputIsOwn'
  OBVIOUS
<1>0. /\ process \in [Runs -> Process] /\ runningProc \in Runs \cup {None}
      /\ started \in 0..MaxRuns /\ None \notin Runs /\ NoWriter \notin Runs /\ MaxRuns \in Nat
      /\ attached \in Runs \cup {None, NoWriter}
      /\ MaxChunks \in Nat
  BY BoundsAssumption DEF TypeOK, ControlType, Runs, None, NoWriter
<1>1. CASE OpenDialog
  BY <1>0, <1>1, FreshOwn DEF OpenDialog
<1>2. CASE Start \/ StartFails
  <2>1. started + 1 \in Runs /\ started + 1 > started
    BY <1>0, <1>2 DEF Start, StartFails, Runs
  <2>2. process[started + 1].got = 0
    BY <2>1 DEF DialogInv, ProcessInv, Received
  <2>3. process'[started + 1].got = 0 /\ resetOutputWriter(started + 1)
    BY <1>0, <1>2, <2>1, <2>2 DEF Start, StartFails, Process
  <2> QED
    BY <2>3, FreshOwn
<1>3. ASSUME UNCHANGED <<shown, buffer, attached>>,
             attached \in Runs => process'[attached].got = process[attached].got
      PROVE  OutputIsOwn'
  BY <1>3 DEF OutputIsOwn
<1>4. CASE Stop
  BY <1>0, <1>3, <1>4 DEF Stop, terminate, writerVars, Process
<1>5. CASE Close
  <2>1. attached \in Runs => process'[attached].got = process[attached].got
    BY <1>0, <1>5 DEF Close, terminate, Process
  <2> QED
    BY <1>5, <2>1, FlushOwn DEF Close
<1>6. CASE Flush
  BY <1>6, FlushOwn DEF Flush
<1>7. CASE SendStdin
  <2>1. runningProc \in Runs /\ Echo(runningProc) \in Piece
    BY <1>0, <1>7 DEF SendStdin, Echo, Piece
  <2>2. shown \o Append(buffer, Echo(runningProc)) = Append(shown \o buffer, Echo(runningProc))
    BY <2>1, TextType
  <2>3. Append(shown \o buffer, Echo(runningProc)) \in Seq(Piece)
    BY <2>1, TextType, AppendProperties
  <2>4. shown' \o buffer' = Trim(Append(shown \o buffer, Echo(runningProc)))
    BY <1>7, <2>2, <2>3, TrimType, ConcatEmptySeq DEF SendStdin
  <2>5. ASSUME attached \in Runs
        PROVE  OwnText(Trim(Append(shown \o buffer, Echo(runningProc))), attached, process[attached].got)
    <3>1. process[attached].got \in Nat
      BY <1>0, <2>5 DEF Process
    <3>2. OwnText(Append(shown \o buffer, Echo(runningProc)), attached, process[attached].got)
      BY <2>1, <2>5, <3>1, TextType, OwnEchoed DEF OutputIsOwn
    <3> QED
      BY <2>3, <2>5, <3>1, <3>2, OwnTrimmed
  <2> QED
    BY <1>7, <2>4, <2>5 DEF SendStdin, OutputIsOwn
<1>8. ASSUME NEW r \in Runs, Deliver(r) PROVE OutputIsOwn'
  <2>1. process'[r].got = process[r].got + 1 /\ \A q \in Runs : q # r => process'[q] = process[q]
    BY <1>0, <1>8 DEF Deliver, Process
  <2>2. CASE attached # r
    BY <1>3, <1>8, <2>1, <2>2 DEF Deliver, append
  <2>3. CASE attached = r
    <3>1. process[r].got \in Nat /\ <<r, process[r].got + 1>> \in Piece
      BY <1>0 DEF Process, Piece
    <3>2. shown' \o buffer' = Append(shown \o buffer, <<r, process[r].got + 1>>)
      BY <1>8, <2>3, <3>1, TextType DEF Deliver, append
    <3>3. OwnText(Append(shown \o buffer, <<r, process[r].got + 1>>), r, process[r].got + 1)
      BY <2>3, <3>1, TextType, OwnAppended DEF OutputIsOwn
    <3> QED
      BY <1>8, <2>1, <2>3, <3>2, <3>3 DEF Deliver, OutputIsOwn
  <2> QED
    BY <2>2, <2>3
<1>9. ASSUME NEW r \in Runs, Settle(r) PROVE OutputIsOwn'
  <2>1. attached \in Runs => process'[attached].got = process[attached].got
    BY <1>0, <1>9 DEF Settle, Process
  <2>2. attached' = attached /\ (flush \/ UNCHANGED <<shown, buffer>>)
    BY <1>9 DEF Settle
  <2> QED
    BY <1>3, <2>1, <2>2, FlushOwn
<1>10. ASSUME NEW r \in Runs, Emit(r) PROVE OutputIsOwn'
  BY <1>0, <1>3, <1>10 DEF Emit, Alive, writerVars, Process
<1>11. ASSUME NEW r \in Runs, Ending(r) PROVE OutputIsOwn'
  <2>2. PICK st \in {"reaping", "exited"}, ok \in BOOLEAN :
           process' = [process EXCEPT ![r] = [process[r] EXCEPT !.state = st, !.ok = ok]]
    BY <1>0, <1>11, EndingStep
  <2> QED
    BY <1>0, <1>3, <1>11, <2>2 DEF Ending, OutputEnds, Exit, Alive, writerVars, Process
<1>12. CASE UNCHANGED vars
  BY <1>3, <1>12 DEF vars, writerVars
<1> QED
  BY <1>1, <1>2, <1>4, <1>5, <1>6, <1>7, <1>8, <1>9, <1>10, <1>11, <1>12 DEF Next, Ending

\* The last output of a run is pushed into the document before its result is
\* shown, and none of it can come later.
LEMMA StepTail ==
    TypeOK /\ DialogInv /\ ProcessInv /\ HeaderInv /\ TailShown /\ [Next]_vars => TailShown'
<1> SUFFICES ASSUME TypeOK, DialogInv, ProcessInv, HeaderInv, TailShown, [Next]_vars PROVE TailShown'
  OBVIOUS
<1>1. ASSUME buffer' = <<>> PROVE TailShown'
  BY <1>1 DEF TailShown
<1>2. ASSUME UNCHANGED <<buffer, attached>>,
             header' = header \/ header'.state \notin Finished \/ header'.of # attached
      PROVE  TailShown'
  BY <1>2 DEF TailShown, Finished
<1>3. CASE OpenDialog \/ Start \/ StartFails \/ Close \/ SendStdin \/ Flush
  BY <1>1, <1>3 DEF OpenDialog, Start, StartFails, Close, SendStdin, Flush, flush, resetOutputWriter
<1>4. CASE Stop
  BY <1>2, <1>4 DEF Stop, writerVars, Finished
<1>5. ASSUME NEW r \in Runs, Deliver(r) PROVE TailShown'
  <2>0. header' = [header EXCEPT !.id = r] \/ header' = header
    BY <1>5 DEF Deliver
  <2>1. header'.state = header.state /\ header'.of = header.of
    BY <2>0 DEF TypeOK, ControlType
  <2>2. CASE attached # r
    BY <1>5, <2>1, <2>2 DEF Deliver, append, TailShown
  <2>3. CASE attached = r
    <3>1. process[r].state # "settled"
      BY <1>5, BoundsAssumption DEF Deliver, ProcessInv, Received, TypeOK, Process
    <3>2. ~(header.state \in Finished /\ header.of = r)
      BY <3>1 DEF HeaderInv
    <3> QED
      BY <1>5, <2>1, <2>3, <3>2 DEF Deliver, TailShown, Finished
  <2> QED
    BY <2>2, <2>3
<1>6. ASSUME NEW r \in Runs, Settle(r) PROVE TailShown'
  <2>1. CASE attached = r
    BY <1>1, <1>6, <2>1 DEF Settle, flush
  <2>2. CASE attached # r
    BY <1>2, <1>6, <2>2 DEF Settle, finishRun, viewVars
  <2> QED
    BY <2>1, <2>2
<1>7. ASSUME NEW r \in Runs, Emit(r) \/ Ending(r) PROVE TailShown'
  BY <1>2, <1>7 DEF Ending, Emit, OutputEnds, Exit, Alive, writerVars, viewVars
<1>8. CASE UNCHANGED vars
  BY <1>2, <1>8 DEF vars, writerVars, viewVars
<1> QED
  BY <1>3, <1>4, <1>5, <1>6, <1>7, <1>8 DEF Next, Ending

LEMMA OutputHolds == Spec => [](OutputInv)
<1>1. Init => OutputInv
  <2> SUFFICES ASSUME Init PROVE OutputInv
    OBVIOUS
  <2>1. ProcessInv /\ HeaderInv
    BY DEF Init, ProcessInv, HeaderInv, Received, Finished, StoppedNotSuccess
  <2>2. OutputIsOwn /\ TailShown
    BY DEF Init, OutputIsOwn, TailShown, Runs, NoWriter
  <2> QED
    BY <2>1, <2>2 DEF OutputInv, ShowsOwnRun
<1>2. TypeOK /\ DialogInv /\ OutputInv /\ [Next]_vars => OutputInv'
  BY StepProcesses, StepHeader, StepOutput, StepTail DEF OutputInv, ShowsOwnRun
<1> QED
  BY <1>1, <1>2, InitDialog, StepDialog, DialogTypeCorrect, PTL DEF Spec

\* The dialog shows the output of its own run, whole but for what was trimmed at
\* the front, and to the end once the result is shown.
THEOREM OutputIsTheRuns == Spec => []ShowsOwnRun
<1>1. OutputInv => ShowsOwnRun
  BY DEF OutputInv
<1> QED
  BY <1>1, OutputHolds, PTL

\* A run that was stopped never ends as a success in the header.
THEOREM StoppedIsNoSuccess == Spec => []StoppedNotSuccess
<1>1. OutputInv => StoppedNotSuccess
  BY DEF OutputInv, HeaderInv
<1> QED
  BY <1>1, OutputHolds, PTL

=============================================================================
