---------------------------- MODULE LogPageProofs ----------------------------
(***************************************************************************)
(* For every set of tasks and of operations, however many entries, lists   *)
(* and dry runs: every deletion of the log view was confirmed, and for      *)
(* what it deletes; each wait for the list has one process that ends it;    *)
(* what the view and the dialog show is what the page knows.                *)
(*                                                                         *)
(* The invariant follows an operation from its arguments, which it takes    *)
(* before it asks, to its deletion: it has deleted nothing before the       *)
(* command runs, and the command runs only after the confirmation.  A list  *)
(* that comes back ends the operation that waits for it, so there must be   *)
(* no other that waits for an operation, which may be asking by then: the   *)
(* processes are counted by what they list for (NoneFor, OneFor).  The same *)
(* count tells when the log view is still to be drawn.                      *)
(***************************************************************************)
EXTENDS LogPage, SequencesExt, SequenceTheorems, FiniteSetTheorems, TLAPS

\* What is left of a sequence without one of its elements.
LEMMA RemovalKeeps ==
    ASSUME NEW S, NEW s \in Seq(S), NEW i \in 1..Len(s)
    PROVE  /\ RemoveAt(s, i) \in Seq(S)
           /\ Len(RemoveAt(s, i)) = Len(s) - 1
           /\ \A j \in 1..Len(s) - 1 : RemoveAt(s, i)[j] = IF j < i THEN s[j] ELSE s[j + 1]
<1> DEFINE front == SubSeq(s, 1, i - 1)
           back == SubSeq(s, i + 1, Len(s))
<1>1. Len(s) \in Nat /\ i \in Nat /\ 1 <= i /\ i <= Len(s)
  BY LenProperties
<1>2. front \in Seq(S) /\ Len(front) = i - 1 /\ \A j \in 1..i - 1 : front[j] = s[j]
  BY <1>1, SubSeqProperties
<1>3. back \in Seq(S) /\ Len(back) = Len(s) - i /\ \A j \in 1..Len(s) - i : back[j] = s[i + j]
  BY <1>1, SubSeqProperties
<1>4. RemoveAt(s, i) = front \o back
  BY DEF RemoveAt
<1> HIDE DEF front, back
<1>5. /\ front \o back \in Seq(S)
      /\ Len(front \o back) = Len(s) - 1
      /\ \A j \in 1..Len(s) - 1 : (front \o back)[j] = IF j <= i - 1 THEN front[j] ELSE back[j - (i - 1)]
  <2>1. front \in Seq(S) /\ back \in Seq(S)
    BY <1>2, <1>3
  <2>2. /\ front \o back \in Seq(S)
        /\ Len(front \o back) = Len(front) + Len(back)
        /\ \A j \in 1..Len(front) + Len(back) :
              (front \o back)[j] = IF j <= Len(front) THEN front[j] ELSE back[j - Len(front)]
    BY <2>1, ConcatProperties
  <2>3. Len(front) = i - 1 /\ Len(front) + Len(back) = Len(s) - 1
    BY <1>1, <1>2, <1>3
  <2> QED
    BY <2>2, <2>3
<1>6. ASSUME NEW j \in 1..Len(s) - 1
      PROVE  RemoveAt(s, i)[j] = IF j < i THEN s[j] ELSE s[j + 1]
  <2>1. CASE j < i
    BY <1>1, <1>2, <1>4, <1>5, <2>1
  <2>2. CASE j >= i
    <3>1. j - (i - 1) \in 1..Len(s) - i /\ i + (j - (i - 1)) = j + 1
      BY <1>1, <2>2
    <3>2. RemoveAt(s, i)[j] = back[j - (i - 1)]
      BY <1>1, <1>4, <1>5, <2>2
    <3> QED
      BY <1>1, <1>3, <2>2, <3>1, <3>2
  <2> QED
    BY <1>1, <2>1, <2>2
<1> QED
  BY <1>4, <1>5, <1>6

IsOp(op) ==
    op = [at |-> op.at, what |-> op.what, args |-> op.args, sure |-> op.sure, deleted |-> op.deleted]

OpInv(op) ==
    \/ op = Idle
    \/ /\ IsOp(op)
       /\ op.at \in {"counting", "confirm", "running", "returned", "loading"}
       /\ op.at \in {"counting", "confirm", "running"} => op.deleted = {}
       /\ op.at \in {"running", "returned", "loading"} => op.sure
       /\ op.deleted \subseteq {op.args}

AskInv ==
    /\ ops = [o \in Ops |-> ops[o]]
    /\ confirmState \in Ops \cup {NoOp}
    /\ \A o \in Ops : OpInv(ops[o])
    /\ WaitingIsAsking

Waiting == TaskIds \cup Ops \cup {"view", "run", "refresh"}

Load ==
    [for : Waiting, read : {FALSE}] \cup [for : Waiting, read : {TRUE}, entries : SUBSET Entry]

StoreInv == store \subseteq Entry /\ written \in 0..MaxEntries

\* How many processes list for f.
NoneFor(f) == \A i \in 1..Len(loads) : loads[i].for # f
OneFor(f) == \E i \in 1..Len(loads) : \A j \in 1..Len(loads) : loads[j].for = f <=> j = i

\* A refresh and an operation may wait for the list.
Waits(f) == IF f = "refresh" THEN refresh \in {"auto", "manual"} ELSE ops[f].at = "loading"

LoadInv ==
    /\ loads \in Seq(Load)
    /\ \A f \in Ops \cup {"refresh"} : IF Waits(f) THEN OneFor(f) ELSE NoneFor(f)

\* The fields of the clean-up dialog.
IsForm(form) ==
    /\ form = [open |-> form.open, mode |-> form.mode, days |-> form.days, task |-> form.task,
               count |-> form.count]
    /\ form.open \in BOOLEAN /\ form.mode \in {"age", "task", "all"}
    /\ form.days \in Days /\ form.task \in TaskIds \cup {NoTask}

CleanupInv == IsForm(cleanup) /\ previewDue \in BOOLEAN /\ PreviewOfMode

PageInv ==
    /\ logs \subseteq Entry /\ list \subseteq Entry /\ undrawn \in BOOLEAN
    /\ tab \in {"tasks", "logs"} /\ logFilterTaskId \in TaskIds \cup {NoTask}
    /\ refresh \in {"idle", "auto", "manual", "auto loaded", "manual loaded"}

\* ListIsDrawn, with the processes counted as above.
DrawnInv ==
    tab = "logs" /\ NoneFor("view") /\ refresh \in {"idle", "auto", "manual"} /\ ~undrawn =>
        list = Drawn(logs, logFilterTaskId)

Inv == StoreInv /\ AskInv /\ LoadInv /\ CleanupInv /\ PageInv /\ DrawnInv

-----------------------------------------------------------------------------
\* Two fields of an operation are set one after the other.
LEMMA SetTwo ==
    ASSUME NEW op, IsOp(op), NEW at, NEW sure, NEW deleted
    PROVE  /\ [op EXCEPT !.at = at, !.sure = sure] =
                  [at |-> at, what |-> op.what, args |-> op.args, sure |-> sure, deleted |-> op.deleted]
           /\ [op EXCEPT !.at = at, !.deleted = deleted] =
                  [at |-> at, what |-> op.what, args |-> op.args, sure |-> op.sure, deleted |-> deleted]
<1> DEFINE one == [op EXCEPT !.at = at]
<1>1. one = [at |-> at, what |-> op.what, args |-> op.args, sure |-> op.sure, deleted |-> op.deleted]
  BY DEF IsOp
<1>2. /\ [op EXCEPT !.at = at, !.sure = sure] = [one EXCEPT !.sure = sure]
      /\ [op EXCEPT !.at = at, !.deleted = deleted] = [one EXCEPT !.deleted = deleted]
  BY DEF IsOp
<1> HIDE DEF one
<1> QED
  BY <1>1, <1>2

LEMMA InitAsk == Init => AskInv
  BY ConstantsAssumption DEF Init, AskInv, OpInv, Idle, WaitingIsAsking

\* What an operation may become without asking or ceasing to ask.
LEMMA OneMoves ==
    ASSUME AskInv, NEW o \in Ops, NEW op,
           ops' = [ops EXCEPT ![o] = op], UNCHANGED confirmState,
           OpInv(op), op.at = "confirm" <=> ops[o].at = "confirm"
    PROVE  AskInv'
<1>1. ops' = [p \in Ops |-> IF p = o THEN op ELSE ops[p]]
  BY DEF AskInv
<1> QED
  BY <1>1 DEF AskInv, OpInv, IsOp, WaitingIsAsking

\* confirmDialog asks for one operation and cancels the one that was asking.
LEMMA DialogAsks ==
    ASSUME AskInv, NEW o \in Ops, NEW op, confirmDialog(o, op),
           IsOp(op), op.at = "counting", op.deleted = {}
    PROVE  AskInv'
<1> DEFINE asking == [op EXCEPT !.at = "confirm"]
<1>1. asking = [at |-> "confirm", what |-> op.what, args |-> op.args, sure |-> op.sure, deleted |-> op.deleted]
  BY DEF IsOp
<1>2. OpInv(asking) /\ asking.at = "confirm"
  BY <1>1 DEF OpInv, IsOp
<1> HIDE DEF asking
<1>3. /\ confirmState' = o
      /\ ops' = [p \in Ops |-> IF p = o THEN asking ELSE IF p = confirmState THEN Idle ELSE ops[p]]
  BY DEF confirmDialog, asking
<1>4. OpInv(Idle) /\ Idle.at = "idle"
  BY DEF OpInv, Idle
<1>5. \A p \in Ops : OpInv(ops'[p])
  BY <1>2, <1>3, <1>4 DEF AskInv
<1>6. \A p \in Ops : ops'[p].at = "confirm" <=> confirmState' = p
  BY <1>2, <1>3, <1>4 DEF AskInv, WaitingIsAsking
<1> QED
  BY <1>3, <1>5, <1>6 DEF AskInv, WaitingIsAsking, OpInv, IsOp

LEMMA StepAsk == AskInv /\ LoadInv /\ [Next]_vars => AskInv'
<1> SUFFICES ASSUME AskInv, LoadInv, [Next]_vars PROVE AskInv'
  OBVIOUS
<1>1. ASSUME UNCHANGED opVars PROVE AskInv'
  BY <1>1 DEF AskInv, OpInv, IsOp, WaitingIsAsking, opVars
<1>2. ASSUME NEW o \in Ops, NEW t \in TaskIds, DeleteTask(o, t) PROVE AskInv'
  <2>1. IsOp(Op("delete", [mode |-> "task", value |-> t]))
        /\ Op("delete", [mode |-> "task", value |-> t]).at = "counting"
        /\ Op("delete", [mode |-> "task", value |-> t]).deleted = {}
    BY DEF Op, IsOp
  <2> QED
    BY <1>2, <2>1, DialogAsks DEF DeleteTask
<1>3. ASSUME NEW o \in Ops, ExecCleanup(o) PROVE AskInv'
  <2> DEFINE args == buildPruneArgs(Selection(cleanup))
             op == Op("cleanup", args)
  <2>1. op = [at |-> "counting", what |-> "cleanup", args |-> args, sure |-> FALSE, deleted |-> {}]
    BY DEF Op
  <2> HIDE DEF args
  <2>2. IsOp(op) /\ op.at = "counting" /\ op.deleted = {} /\ OpInv(op)
    BY <2>1 DEF IsOp, OpInv
  <2>3. ops[o] = Idle /\ (confirmDialog(o, op) \/ (ops' = [ops EXCEPT ![o] = op] /\ UNCHANGED confirmState))
    BY <1>3 DEF ExecCleanup, args
  <2> HIDE DEF op
  <2>4. ops[o].at # "confirm"
    BY <2>3 DEF Idle
  <2> QED
    BY <2>2, <2>3, <2>4, DialogAsks, OneMoves
<1>4. ASSUME NEW o \in Ops, CountsNothing(o) PROVE AskInv'
  BY <1>4, OneMoves DEF CountsNothing, OpInv, Idle
<1>5. ASSUME NEW o \in Ops, Counted(o) PROVE AskInv'
  <2>1. ops[o] # Idle /\ OpInv(ops[o]) /\ ops[o].at = "counting"
    BY <1>5 DEF Counted, Idle, AskInv
  <2> QED
    BY <1>5, <2>1, DialogAsks DEF Counted, OpInv
<1>6. CASE ConfirmOk
  <2> DEFINE o == confirmState
             op == [ops[o] EXCEPT !.at = "running", !.sure = TRUE]
  <2>1. o \in Ops /\ ops[o].at = "confirm" /\ confirmState' = NoOp /\ NoOp \notin Ops
    BY <1>6, ConstantsAssumption DEF ConfirmOk, AskInv, WaitingIsAsking
  <2>2. OpInv(ops[o]) /\ ops[o] # Idle
    BY <2>1 DEF AskInv, Idle
  <2>3. op = [at |-> "running", what |-> ops[o].what, args |-> ops[o].args, sure |-> TRUE, deleted |-> {}]
    <3>1. IsOp(ops[o]) /\ ops[o].deleted = {}
      BY <2>1, <2>2 DEF OpInv
    <3>2. op = [at |-> "running", what |-> ops[o].what, args |-> ops[o].args, sure |-> TRUE,
                deleted |-> ops[o].deleted]
      <4> DEFINE asked == ops[o]
      <4>1. IsOp(asked)
        BY <3>1
      <4> HIDE DEF asked
      <4>2. [asked EXCEPT !.at = "running", !.sure = TRUE] =
                [at |-> "running", what |-> asked.what, args |-> asked.args, sure |-> TRUE, deleted |-> asked.deleted]
        BY <4>1, SetTwo
      <4> QED
        BY <4>2 DEF asked
    <3> QED
      BY <3>1, <3>2
  <2>4. OpInv(op) /\ op.at = "running"
    BY <2>3 DEF OpInv, IsOp
  <2>5. ops' = [p \in Ops |-> IF p = o THEN op ELSE ops[p]]
    BY <1>6, <2>1 DEF ConfirmOk, AskInv
  <2> HIDE DEF op
  <2> QED
    BY <2>1, <2>4, <2>5 DEF AskInv, OpInv, IsOp, WaitingIsAsking
<1>7. CASE ConfirmCancel
  <2>1. confirmState \in Ops /\ confirmState' = NoOp /\ NoOp \notin Ops
    BY <1>7, ConstantsAssumption DEF ConfirmCancel, AskInv
  <2>2. ops' = [p \in Ops |-> IF p = confirmState THEN Idle ELSE ops[p]]
    BY <1>7, <2>1 DEF ConfirmCancel, AskInv
  <2>3. OpInv(Idle) /\ Idle.at = "idle"
    BY DEF OpInv, Idle
  <2> QED
    BY <2>1, <2>2, <2>3 DEF AskInv, OpInv, IsOp, WaitingIsAsking
<1>8. ASSUME NEW o \in Ops, Deletes(o) \/ DeleteFails(o) \/ TaskDeleted(o) \/ CleanedAll(o) \/ Pruned(o)
      PROVE  AskInv'
  <2>1. OpInv(ops[o]) /\ ops[o] # Idle
    BY <1>8 DEF Deletes, DeleteFails, TaskDeleted, CleanedAll, Pruned, AskInv, Idle
  <2>2. IsOp(ops[o]) /\ ops[o].at \in {"running", "returned"}
    BY <1>8, <2>1 DEF Deletes, DeleteFails, TaskDeleted, CleanedAll, Pruned, OpInv
  <2>3. UNCHANGED confirmState
    BY <1>8 DEF Deletes, DeleteFails, TaskDeleted, CleanedAll, Pruned
  <2>4. PICK op : ops' = [ops EXCEPT ![o] = op] /\ OpInv(op) /\ op.at # "confirm"
    <3>1. OpInv(Idle) /\ Idle.at # "confirm"
      BY DEF OpInv, Idle
    <3>2. CASE ops' = [ops EXCEPT ![o] = Idle]
      BY <3>1, <3>2
    <3>3. CASE Deletes(o)
      <4> DEFINE op == [ops[o] EXCEPT !.at = "returned", !.deleted = {ops[o].args}]
      <4>1. op = [at |-> "returned", what |-> ops[o].what, args |-> ops[o].args, sure |-> ops[o].sure,
                  deleted |-> {ops[o].args}]
        BY <2>2, SetTwo
      <4>2. ops[o].sure
        BY <2>1, <3>3 DEF Deletes, OpInv
      <4>3. ops' = [ops EXCEPT ![o] = op]
        BY <3>3 DEF Deletes
      <4> HIDE DEF op
      <4>4. OpInv(op) /\ op.at # "confirm"
        BY <4>1, <4>2 DEF OpInv, IsOp
      <4> QED
        BY <4>3, <4>4
    <3>4. CASE ops' = [ops EXCEPT ![o] = [@ EXCEPT !.at = "returned"]]
               \/ ops' = [ops EXCEPT ![o] = [@ EXCEPT !.at = "loading"]]
      <4>1. PICK at \in {"returned", "loading"} : ops' = [ops EXCEPT ![o] = [ops[o] EXCEPT !.at = at]]
        BY <3>4
      <4> DEFINE op == [ops[o] EXCEPT !.at = at]
      <4>2. op = [at |-> at, what |-> ops[o].what, args |-> ops[o].args, sure |-> ops[o].sure,
                  deleted |-> ops[o].deleted]
        BY <2>2 DEF IsOp
      <4>3. ops[o].sure /\ ops[o].deleted \subseteq {ops[o].args}
        BY <2>1, <2>2 DEF OpInv
      <4>4. ops' = [ops EXCEPT ![o] = op]
        BY <4>1
      <4> HIDE DEF op
      <4>5. OpInv(op) /\ op.at # "confirm"
        BY <4>2, <4>3 DEF OpInv, IsOp
      <4> QED
        BY <4>4, <4>5
    <3> QED
      BY <1>8, <3>2, <3>3, <3>4 DEF DeleteFails, TaskDeleted, CleanedAll, Pruned
  <2> QED
    BY <2>2, <2>3, <2>4, OneMoves
<1>9. ASSUME NEW i, LoadReturns(i) PROVE AskInv'
  <2>1. CASE loads[i].for \in Ops
    <3> DEFINE o == loads[i].for
    <3>1. i \in DOMAIN loads /\ loads \in Seq(Load)
      BY <1>9 DEF LoadReturns, LoadInv
    <3>0. ops[o].at = "loading"
      <4>1. ~NoneFor(o)
        BY <3>1 DEF NoneFor
      <4>2. o # "refresh"
        BY <2>1, ConstantsAssumption
      <4> QED
        BY <2>1, <4>1, <4>2 DEF LoadInv, Waits
    <3>2. ops' = [ops EXCEPT ![o] = Idle] /\ UNCHANGED confirmState
      BY <1>9, <2>1 DEF LoadReturns
    <3>3. OpInv(Idle) /\ Idle.at # "confirm"
      BY DEF OpInv, Idle
    <3> HIDE DEF o
    <3> QED
      BY <2>1, <3>0, <3>2, <3>3, OneMoves DEF o
  <2>2. CASE loads[i].for \notin Ops
    BY <1>1, <1>9, <2>2 DEF LoadReturns, opVars
  <2> QED
    BY <2>1, <2>2
<1>10. CASE \E o \in Ops : \/ \E t \in TaskIds : DeleteTask(o, t)
                          \/ ExecCleanup(o) \/ CountsNothing(o) \/ Counted(o) \/ Deletes(o)
                          \/ DeleteFails(o) \/ TaskDeleted(o) \/ CleanedAll(o) \/ Pruned(o)
  BY <1>2, <1>3, <1>4, <1>5, <1>8, <1>10
<1>11. CASE ~(\E o \in Ops : \/ \E t \in TaskIds : DeleteTask(o, t)
                             \/ ExecCleanup(o) \/ CountsNothing(o) \/ Counted(o) \/ Deletes(o)
                             \/ DeleteFails(o) \/ TaskDeleted(o) \/ CleanedAll(o) \/ Pruned(o))
  <2>1. ConfirmOk \/ ConfirmCancel \/ (\E i : LoadReturns(i)) \/ UNCHANGED opVars
    BY <1>11 DEF Next, User, vars, ClickRefresh, SelectTab, showTaskLogs, SetFilter, ChangeTask,
                 openCleanupModal, closeCleanupModal, ChangeMode, ChangeDays, WriteEntry, AutoRefresh,
                 RefreshEnds, LoadView, LoadAfterRun, PreviewTimer, LoadReads, PreviewReturns
  <2> QED
    BY <1>1, <1>6, <1>7, <1>9, <2>1
<1> QED
  BY <1>10, <1>11

-----------------------------------------------------------------------------
LEMMA StepStore == StoreInv /\ [Next]_vars => StoreInv'
<1> SUFFICES ASSUME StoreInv, [Next]_vars PROVE StoreInv'
  OBVIOUS
<1>1. ASSUME NEW t \in TaskIds, WriteEntry(t) PROVE StoreInv'
  <2>1. written + 1 \in 1..MaxEntries
    BY <1>1, ConstantsAssumption DEF WriteEntry, StoreInv
  <2> QED
    BY <1>1, <2>1, ConstantsAssumption DEF WriteEntry, StoreInv, Entry
<1>2. ASSUME NEW o \in Ops, Deletes(o) PROVE StoreInv'
  BY <1>2 DEF Deletes, StoreInv
<1>3. ASSUME UNCHANGED storeVars PROVE StoreInv'
  BY <1>3 DEF storeVars, StoreInv
<1>4. CASE ~(\E t \in TaskIds : WriteEntry(t)) /\ ~(\E o \in Ops : Deletes(o))
  <2>1. UNCHANGED storeVars
    BY <1>4 DEF Next, User, vars, ClickRefresh, SelectTab, showTaskLogs, DeleteTask, SetFilter, ChangeTask,
                openCleanupModal, closeCleanupModal, ChangeMode, ChangeDays, ExecCleanup, ConfirmOk,
                ConfirmCancel, AutoRefresh, RefreshEnds, LoadView, LoadAfterRun, PreviewTimer, LoadReads, LoadReturns,
                PreviewReturns, CountsNothing, Counted, DeleteFails, TaskDeleted, CleanedAll, Pruned
  <2> QED
    BY <1>3, <2>1
<1> QED
  BY <1>1, <1>2, <1>4

\* Entries that are listed are entries.
LEMMA ListedType ==
    ASSUME StoreInv, NEW t
    PROVE  Drawn(store, t) \subseteq Entry /\ Recent(store) \subseteq Entry
BY DEF StoreInv, Drawn, Recent

\* A new process is one more for what it lists for, and no other.
LEMMA SpawnCounts ==
    ASSUME loads \in Seq(Load), NEW for \in Waiting, Spawn(for)
    PROVE  /\ loads' \in Seq(Load)
           /\ NoneFor(for) => OneFor(for)'
           /\ ~NoneFor(for)'
           /\ \A f : f # for => (NoneFor(f)' <=> NoneFor(f)) /\ (OneFor(f) => OneFor(f)')
<1> DEFINE new == [for |-> for, read |-> FALSE]
<1>1. new \in Load
  BY DEF Load
<1>2. loads' = Append(loads, new)
  BY DEF Spawn
<1> HIDE DEF new
<1>3. /\ loads' \in Seq(Load) /\ Len(loads') = Len(loads) + 1 /\ Len(loads) \in Nat
      /\ \A i \in 1..Len(loads) : loads'[i] = loads[i]
      /\ loads'[Len(loads) + 1] = new
  BY <1>1, <1>2, AppendProperties, LenProperties
<1>4. new.for = for
  BY DEF new
<1>5. NoneFor(for) => OneFor(for)'
  <2> SUFFICES ASSUME NoneFor(for) PROVE OneFor(for)'
    OBVIOUS
  <2>1. \A j \in 1..Len(loads') : loads'[j].for = for <=> j = Len(loads) + 1
    BY <1>3, <1>4 DEF NoneFor
  <2>2. Len(loads) + 1 \in 1..Len(loads')
    BY <1>3
  <2> QED
    BY <2>1, <2>2 DEF OneFor
<1>6. ~NoneFor(for)'
  BY <1>3, <1>4 DEF NoneFor
<1>7. ASSUME NEW f, f # for PROVE (NoneFor(f)' <=> NoneFor(f)) /\ (OneFor(f) => OneFor(f)')
  <2>1. \A j \in 1..Len(loads') : loads'[j].for = f => j \in 1..Len(loads)
    BY <1>3, <1>4, <1>7
  <2>2. \A j \in 1..Len(loads) : j \in 1..Len(loads') /\ loads'[j] = loads[j]
    BY <1>3
  <2>3. NoneFor(f)' <=> NoneFor(f)
    BY <2>1, <2>2 DEF NoneFor
  <2>4. ASSUME OneFor(f) PROVE OneFor(f)'
    <3>1. PICK k \in 1..Len(loads) : \A j \in 1..Len(loads) : loads[j].for = f <=> j = k
      BY <2>4 DEF OneFor
    <3>2. \A j \in 1..Len(loads') : loads'[j].for = f <=> j = k
      BY <2>1, <2>2, <3>1
    <3> QED
      BY <2>2, <3>2 DEF OneFor
  <2> QED
    BY <2>3, <2>4
<1> QED
  BY <1>3, <1>5, <1>6, <1>7

\* Reading the entries changes none of the numbers.
LEMMA ReadCounts ==
    ASSUME StoreInv, loads \in Seq(Load), NEW i, LoadReads(i)
    PROVE  /\ loads' \in Seq(Load)
           /\ \A f : (NoneFor(f)' <=> NoneFor(f)) /\ (OneFor(f) => OneFor(f)')
<1> DEFINE new == [for |-> loads[i].for, read |-> TRUE,
                   entries |-> IF loads[i].for \in TaskIds THEN Drawn(store, loads[i].for) ELSE Recent(store)]
<1>1. i \in 1..Len(loads) /\ loads[i] \in Load
  BY DEF LoadReads
<1>2. loads[i].for \in Waiting
  BY <1>1 DEF Load
<1>3. new \in Load /\ new.for = loads[i].for
  BY <1>2, ListedType DEF Load
<1>4. loads' = [loads EXCEPT ![i] = new]
  BY <1>1 DEF LoadReads
<1> HIDE DEF new
<1>5. loads' \in Seq(Load) /\ Len(loads') = Len(loads) /\ Len(loads) \in Nat
  BY <1>1, <1>3, <1>4
<1>6. \A j \in 1..Len(loads) : loads'[j].for = loads[j].for
  BY <1>1, <1>3, <1>4, <1>5
<1>7. \A f : NoneFor(f)' <=> NoneFor(f)
  BY <1>5, <1>6 DEF NoneFor
<1>8. ASSUME NEW f, OneFor(f) PROVE OneFor(f)'
  <2>1. PICK k \in 1..Len(loads) : \A j \in 1..Len(loads) : loads[j].for = f <=> j = k
    BY <1>8 DEF OneFor
  <2>2. k \in 1..Len(loads') /\ \A j \in 1..Len(loads') : loads'[j].for = f <=> j = k
    BY <1>5, <1>6, <2>1
  <2> QED
    BY <2>2 DEF OneFor
<1> QED
  BY <1>5, <1>7, <1>8

\* A process that returns is one less for what it listed for.
LEMMA ReturnCounts ==
    ASSUME loads \in Seq(Load), NEW i, LoadReturns(i), NEW for, for = loads[i].for
    PROVE  /\ loads' \in Seq(Load)
           /\ OneFor(for) => NoneFor(for)'
           /\ \A f : f # for => (NoneFor(f)' <=> NoneFor(f)) /\ (OneFor(f) => OneFor(f)')
<1>1. i \in 1..Len(loads) /\ Len(loads) \in Nat /\ loads' = RemoveAt(loads, i)
  BY LenProperties DEF LoadReturns
<1>2. /\ loads' \in Seq(Load) /\ Len(loads') = Len(loads) - 1
      /\ \A j \in 1..Len(loads') : loads'[j] = IF j < i THEN loads[j] ELSE loads[j + 1]
  BY <1>1, RemovalKeeps
<1> DEFINE old(k) == IF k < i THEN k ELSE k + 1
           new(k) == IF k < i THEN k ELSE k - 1
<1>3. \A k \in 1..Len(loads') : old(k) \in 1..Len(loads) /\ old(k) # i /\ loads'[k] = loads[old(k)]
  BY <1>1, <1>2
<1>4. \A k \in 1..Len(loads) : k # i => new(k) \in 1..Len(loads') /\ old(new(k)) = k
  BY <1>1, <1>2
<1>5. \A k \in 1..Len(loads') : new(old(k)) = k
  BY <1>1, <1>2
<1> HIDE DEF old, new
<1>6. OneFor(for) => NoneFor(for)'
  BY <1>1, <1>3 DEF OneFor, NoneFor
<1>7. ASSUME NEW f, f # for PROVE (NoneFor(f)' <=> NoneFor(f)) /\ (OneFor(f) => OneFor(f)')
  <2>1. NoneFor(f)' <=> NoneFor(f)
    BY <1>3, <1>4, <1>7, SMTT(30) DEF NoneFor
  <2>2. ASSUME OneFor(f) PROVE OneFor(f)'
    <3>1. PICK k \in 1..Len(loads) : \A j \in 1..Len(loads) : loads[j].for = f <=> j = k
      BY <2>2 DEF OneFor
    <3>2. k # i /\ new(k) \in 1..Len(loads')
      BY <1>1, <1>4, <1>7, <3>1
    <3>3. \A j \in 1..Len(loads') : loads'[j].for = f <=> old(j) = k
      BY <1>3, <3>1
    <3>4. \A j \in 1..Len(loads') : old(j) = k <=> j = new(k)
      BY <1>4, <1>5, <3>2
    <3> QED
      BY <3>2, <3>3, <3>4 DEF OneFor
  <2> QED
    BY <2>1, <2>2
<1> QED
  BY <1>2, <1>6, <1>7

\* A process that lists for the page alone, or for a refresh that begins.
LEMMA SpawnKeeps ==
    ASSUME LoadInv, NEW for \in Waiting, Spawn(for),
           for \in Ops \cup {"refresh"} => ~Waits(for) /\ Waits(for)',
           \A f \in Ops \cup {"refresh"} : f # for => (Waits(f)' <=> Waits(f))
    PROVE  LoadInv'
  BY SpawnCounts DEF LoadInv

LEMMA StepLoads == StoreInv /\ AskInv /\ LoadInv /\ [Next]_vars => LoadInv'
<1> SUFFICES ASSUME StoreInv, AskInv, LoadInv, [Next]_vars PROVE LoadInv'
  OBVIOUS
<1>0. "refresh" \notin Ops /\ "view" \notin Ops /\ "run" \notin Ops /\ TaskIds \cap Ops = {}
  BY ConstantsAssumption
<1>1. ASSUME UNCHANGED loads, \A f \in Ops \cup {"refresh"} : Waits(f)' <=> Waits(f)
      PROVE  LoadInv'
  BY <1>1 DEF LoadInv, OneFor, NoneFor
<1>2. ASSUME UNCHANGED <<ops, refresh>>, \E f \in TaskIds \cup {"view", "run"} : Spawn(f)
      PROVE  LoadInv'
  <2>1. \A t \in TaskIds \cup {"view", "run"} : t \in Waiting /\ t \notin Ops \cup {"refresh"}
    BY <1>0, ConstantsAssumption DEF Waiting
  <2>2. \A f \in Ops \cup {"refresh"} : Waits(f)' <=> Waits(f)
    BY <1>2 DEF Waits
  <2> QED
    BY <1>2, <2>1, <2>2, SpawnKeeps
<1>3. ASSUME UNCHANGED <<ops, refresh, loads>> PROVE LoadInv'
  BY <1>1, <1>3 DEF Waits
<1>4. ASSUME NEW o \in Ops, NEW op, confirmDialog(o, op), ops[o].at # "loading", UNCHANGED <<loads, refresh>>,
             IsOp(op)
      PROVE  LoadInv'
  <2>1. confirmState \in Ops => ops[confirmState].at = "confirm"
    BY DEF AskInv, WaitingIsAsking
  <2>2. \A p \in Ops : ops'[p] = ops[p] \/ (ops[p].at # "loading" /\ ops'[p].at # "loading")
    BY <1>4, <2>1 DEF confirmDialog, Idle, IsOp
  <2> QED
    BY <1>0, <1>1, <1>4, <2>2 DEF Waits
<1>5. ASSUME NEW o \in Ops, NEW op, ops' = [ops EXCEPT ![o] = op], ops[o].at # "loading", op.at # "loading",
             UNCHANGED <<loads, refresh>>
      PROVE  LoadInv'
  <2>1. \A p \in Ops : ops'[p] = ops[p] \/ (ops[p].at # "loading" /\ ops'[p].at # "loading")
    BY <1>5 DEF AskInv
  <2> QED
    BY <1>0, <1>1, <1>5, <2>1 DEF Waits
<1>6. ASSUME NEW i, LoadReads(i) PROVE LoadInv'
  <2>1. \A f \in Ops \cup {"refresh"} : Waits(f)' <=> Waits(f)
    BY <1>6 DEF Waits, LoadReads, opVars
  <2> QED
    BY <1>6, <2>1, ReadCounts DEF LoadInv
<1>7. ASSUME NEW i, LoadReturns(i) PROVE LoadInv'
  <2>0. PICK for : for = loads[i].for
    OBVIOUS
  <2>1. /\ loads' \in Seq(Load)
        /\ OneFor(for) => NoneFor(for)'
        /\ \A f : f # for => (NoneFor(f)' <=> NoneFor(f)) /\ (OneFor(f) => OneFor(f)')
    BY <1>7, <2>0, ReturnCounts DEF LoadInv
  <2>2. \A f \in Ops \cup {"refresh"} : f # for => (Waits(f)' <=> Waits(f))
    BY <1>0, <1>7, <2>0 DEF LoadReturns, AskInv, Waits
  <2>3. ~NoneFor(for)
    <3>1. i \in 1..Len(loads)
      <4>1. i \in DOMAIN loads
        BY <1>7 DEF LoadReturns
      <4> QED
        BY <4>1 DEF LoadInv
    <3> QED
      BY <2>0, <3>1 DEF NoneFor
  <2>4. for \in Ops \cup {"refresh"} => ~Waits(for)'
    <3>1. CASE for = "refresh"
      BY <1>7, <2>0, <3>1 DEF LoadReturns, Waits
    <3>2. CASE for \in Ops
      <4>1. ops' = [p \in Ops |-> IF p = for THEN Idle ELSE ops[p]]
        BY <1>7, <2>0, <3>2 DEF LoadReturns, AskInv
      <4>2. for # "refresh" /\ ops'[for].at = "idle"
        BY <1>0, <3>2, <4>1 DEF Idle
      <4> QED
        BY <4>2 DEF Waits
    <3> QED
      BY <3>1, <3>2
  <2> QED
    BY <2>1, <2>2, <2>3, <2>4 DEF LoadInv
<1>8. ASSUME NEW o \in Ops, Pruned(o) PROVE LoadInv'
  <2>1. ops[o].at = "returned" /\ Spawn(o) /\ o \in Waiting /\ UNCHANGED refresh
    BY <1>8 DEF Pruned, Waiting
  <2>2. ops' = [p \in Ops |-> IF p = o THEN [ops[o] EXCEPT !.at = "loading"] ELSE ops[p]]
    BY <1>8 DEF Pruned, AskInv
  <2>3. IsOp(ops[o])
    BY <2>1 DEF AskInv, OpInv, Idle
  <2>4. [ops[o] EXCEPT !.at = "loading"].at = "loading"
    BY <2>3 DEF IsOp
  <2> QED
    BY <1>0, <2>1, <2>2, <2>4, SpawnKeeps DEF Waits
<1>9. CASE User
  <2>1. ASSUME NEW t, \/ SelectTab(t) \/ (t \in TaskIds /\ showTaskLogs(t)) \/ SetFilter(t)
                      \/ ChangeTask(t) \/ ChangeMode(t) \/ ChangeDays(t)
        PROVE  LoadInv'
    BY <1>2, <1>3, <2>1 DEF SelectTab, showTaskLogs, SetFilter, ChangeTask, ChangeMode, ChangeDays, opVars
  <2>2. CASE openCleanupModal \/ closeCleanupModal
    BY <1>2, <1>3, <2>2 DEF openCleanupModal, closeCleanupModal, opVars
  <2>3. ASSUME NEW o \in Ops, NEW t \in TaskIds, DeleteTask(o, t) PROVE LoadInv'
    <3>1. IsOp(Op("delete", [mode |-> "task", value |-> t]))
      BY DEF Op, IsOp
    <3> QED
      BY <1>4, <2>3, <3>1 DEF DeleteTask, Idle
  <2>4. ASSUME NEW o \in Ops, ExecCleanup(o) PROVE LoadInv'
    <3> DEFINE op == Op("cleanup", buildPruneArgs(Selection(cleanup)))
    <3>1. IsOp(op) /\ op.at # "loading"
      BY DEF Op, IsOp
    <3>2. confirmDialog(o, op) \/ ops' = [ops EXCEPT ![o] = op]
      BY <2>4 DEF ExecCleanup
    <3> HIDE DEF op
    <3> QED
      BY <1>4, <1>5, <2>4, <3>1, <3>2 DEF ExecCleanup, Idle
  <2>5. CASE ConfirmOk \/ ConfirmCancel
    <3>1. confirmState \in Ops /\ ops[confirmState].at = "confirm" /\ IsOp(ops[confirmState])
      BY <2>5 DEF ConfirmOk, ConfirmCancel, AskInv, OpInv, WaitingIsAsking, Idle
    <3>2. [ops[confirmState] EXCEPT !.at = "running", !.sure = TRUE].at = "running"
      BY <3>1, SetTwo
    <3>3. Idle.at # "loading" /\ "running" # "loading"
      BY DEF Idle
    <3>4. \/ ops' = [ops EXCEPT ![confirmState] = Idle]
          \/ ops' = [ops EXCEPT ![confirmState] = [ops[confirmState] EXCEPT !.at = "running", !.sure = TRUE]]
      BY <2>5 DEF ConfirmOk, ConfirmCancel
    <3> QED
      BY <1>5, <2>5, <3>1, <3>2, <3>3, <3>4 DEF ConfirmOk, ConfirmCancel
  <2>6. CASE ClickRefresh
    <3>1. "refresh" \in Waiting /\ Spawn("refresh") /\ ~Waits("refresh") /\ Waits("refresh")'
      BY <2>6 DEF ClickRefresh, Waits, Waiting
    <3> QED
      BY <2>6, <3>1, SpawnKeeps DEF ClickRefresh, Waits, opVars
  <2> QED
    BY <1>9, <2>1, <2>2, <2>3, <2>4, <2>5, <2>6 DEF User
<1>10. ASSUME NEW o \in Ops, Counted(o) PROVE LoadInv'
  BY <1>4, <1>10 DEF Counted, AskInv, OpInv, Idle
<1>11. ASSUME NEW o \in Ops, CountsNothing(o) \/ Deletes(o) \/ DeleteFails(o) \/ TaskDeleted(o) \/ CleanedAll(o)
       PROVE  LoadInv'
  <2>1. IsOp(ops[o]) /\ ops[o].at # "loading" /\ UNCHANGED <<loads, refresh>>
    BY <1>11 DEF CountsNothing, Deletes, DeleteFails, TaskDeleted, CleanedAll, AskInv, OpInv, Idle
  <2>2. PICK op : ops' = [ops EXCEPT ![o] = op] /\ op.at # "loading"
    <3>1. CASE ops' = [ops EXCEPT ![o] = Idle]
      <4>1. Idle.at # "loading"
        BY DEF Idle
      <4> QED
        BY <3>1, <4>1
    <3>2. CASE Deletes(o)
      <4> DEFINE op == [ops[o] EXCEPT !.at = "returned", !.deleted = {ops[o].args}]
      <4>1. op.at = "returned"
        BY <2>1, SetTwo
      <4>2. ops' = [ops EXCEPT ![o] = op]
        BY <3>2 DEF Deletes
      <4> HIDE DEF op
      <4> QED
        BY <4>1, <4>2
    <3>3. CASE ops' = [ops EXCEPT ![o] = [@ EXCEPT !.at = "returned"]]
      <4> DEFINE op == [ops[o] EXCEPT !.at = "returned"]
      <4>1. op.at = "returned"
        BY <2>1 DEF IsOp
      <4>2. ops' = [ops EXCEPT ![o] = op]
        BY <3>3
      <4> HIDE DEF op
      <4> QED
        BY <4>1, <4>2
    <3> QED
      BY <1>11, <3>1, <3>2, <3>3 DEF CountsNothing, DeleteFails, TaskDeleted, CleanedAll
  <2> QED
    BY <1>5, <2>1, <2>2
<1>12. CASE AutoRefresh
  <2>1. "refresh" \in Waiting /\ Spawn("refresh") /\ ~Waits("refresh") /\ Waits("refresh")'
    BY <1>12 DEF AutoRefresh, Waits, Waiting
  <2> QED
    BY <1>12, <2>1, SpawnKeeps DEF AutoRefresh, Waits, opVars
<1>13. CASE RefreshEnds
  BY <1>1, <1>13 DEF RefreshEnds, Waits, opVars
<1>14. CASE LoadView \/ LoadAfterRun \/ PreviewTimer
  BY <1>2, <1>3, <1>14 DEF LoadView, LoadAfterRun, PreviewTimer, opVars
<1>15. ASSUME NEW t, WriteEntry(t) \/ PreviewReturns(t) PROVE LoadInv'
  BY <1>3, <1>15 DEF WriteEntry, PreviewReturns, opVars
<1>16. CASE UNCHANGED vars
  BY <1>3, <1>16 DEF vars, opVars
<1> QED
  BY <1>6, <1>7, <1>8, <1>9, <1>10, <1>11, <1>12, <1>13, <1>14, <1>15, <1>16 DEF Next

-----------------------------------------------------------------------------
\* The fields of the dialog are set one after the other.
LEMMA FormSet ==
    ASSUME NEW form, IsForm(form)
    PROVE  /\ \A open \in BOOLEAN :
                 LET f == [form EXCEPT !.open = open] IN
                 IsForm(f) /\ f.open = open /\ f.mode = form.mode /\ f.count = form.count
           /\ \A mode \in {"age", "task", "all"} : IsForm([form EXCEPT !.mode = mode])
           /\ \A days \in Days : IsForm([form EXCEPT !.days = days])
           /\ \A task \in TaskIds \cup {NoTask} : IsForm([form EXCEPT !.task = task])
BY DEF IsForm

LEMMA CountSet ==
    ASSUME NEW form, IsForm(form), NEW count, NEW f, f = [form EXCEPT !.count = count]
    PROVE  IsForm(f) /\ f.open = form.open /\ f.mode = form.mode /\ f.count = count
<1>1. f = [open |-> form.open, mode |-> form.mode, days |-> form.days, task |-> form.task, count |-> count]
  BY DEF IsForm
<1> QED
  BY <1>1 DEF IsForm

LEMMA FormOpened ==
    ASSUME NEW form, IsForm(form)
    PROVE  IsForm([form EXCEPT !.open = TRUE, !.mode = "age", !.days = DefaultDays, !.task = NoTask])
<1> DEFINE f1 == [form EXCEPT !.open = TRUE]
           f2 == [f1 EXCEPT !.mode = "age"]
           f3 == [f2 EXCEPT !.days = DefaultDays]
           f4 == [f3 EXCEPT !.task = NoTask]
<1>1. IsForm(f1)
  BY FormSet
<1> HIDE DEF f1
<1>2. IsForm(f2)
  BY <1>1, FormSet
<1> HIDE DEF f2
<1>3. IsForm(f3)
  BY <1>2, ConstantsAssumption, FormSet
<1> HIDE DEF f3
<1>4. IsForm(f4)
  BY <1>3, FormSet
<1>5. f4 = [form EXCEPT !.open = TRUE, !.mode = "age", !.days = DefaultDays, !.task = NoTask]
  BY DEF IsForm, f1, f2, f3
<1> QED
  BY <1>4, <1>5

\* A preview shows nothing yet, or at once what is selected.
LEMMA PreviewShows ==
    ASSUME NEW form, IsForm(form), previewCleanup(form)
    PROVE  IsForm(cleanup') /\ cleanup'.count.mode \in {"unknown", cleanup'.mode}
<1>1. PICK count \in {Selection(form), Unknown} : cleanup' = [form EXCEPT !.count = count]
  BY DEF previewCleanup
<1>2. count.mode \in {"unknown", form.mode}
  BY <1>1 DEF Selection, Unknown, IsForm
<1> QED
  BY <1>1, <1>2, CountSet

LEMMA StepCleanup == CleanupInv /\ [Next]_vars => CleanupInv'
<1> SUFFICES ASSUME CleanupInv, [Next]_vars PROVE CleanupInv'
  OBVIOUS
<1>0. DefaultDays \in Days
  BY ConstantsAssumption
<1>1. ASSUME UNCHANGED <<cleanup, previewDue>> PROVE CleanupInv'
  BY <1>1 DEF CleanupInv, PreviewOfMode, IsForm
<1>2. ASSUME NEW form, IsForm(form), previewCleanup(form), previewDue' \in BOOLEAN PROVE CleanupInv'
  BY <1>2, PreviewShows DEF CleanupInv, PreviewOfMode
<1>3. ASSUME cleanup' = [cleanup EXCEPT !.open = FALSE], UNCHANGED previewDue PROVE CleanupInv'
  BY <1>0, <1>3, FormSet DEF CleanupInv, PreviewOfMode
<1>4. CASE openCleanupModal
  BY <1>4, FormOpened DEF openCleanupModal, CleanupInv, PreviewOfMode
<1>5. CASE PreviewTimer
  BY <1>2, <1>5 DEF PreviewTimer, CleanupInv
<1>6. ASSUME NEW mode \in {"age", "task", "all"}, ChangeMode(mode) PROVE CleanupInv'
  BY <1>0, <1>2, <1>6, FormSet DEF ChangeMode, CleanupInv
<1>7. ASSUME NEW days \in Days, ChangeDays(days) PROVE CleanupInv'
  BY <1>0, <1>2, <1>7, FormSet DEF ChangeDays, CleanupInv
<1>8. ASSUME NEW t \in TaskIds \cup {NoTask}, ChangeTask(t) PROVE CleanupInv'
  BY <1>0, <1>2, <1>8, FormSet DEF ChangeTask, CleanupInv
<1>9. CASE closeCleanupModal
  BY <1>3, <1>9 DEF closeCleanupModal, previewVars
<1>10. ASSUME NEW i, PreviewReturns(i) PROVE CleanupInv'
  <2>1. CASE UNCHANGED cleanup
    BY <1>1, <1>10, <2>1 DEF PreviewReturns
  <2>2. ASSUME NEW count, count.mode \in {"unknown", cleanup.mode}, cleanup' = [cleanup EXCEPT !.count = count]
        PROVE  CleanupInv'
    <3>1. IsForm(cleanup') /\ cleanup'.mode = cleanup.mode /\ cleanup'.count = count
      BY <2>2, CountSet DEF CleanupInv
    <3> QED
      BY <1>10, <2>2, <3>1 DEF PreviewReturns, CleanupInv, PreviewOfMode
  <2>3. Unknown.mode = "unknown"
    BY DEF Unknown
  <2> QED
    BY <1>10, <2>1, <2>2, <2>3 DEF PreviewReturns
<1>11. ASSUME NEW i, LoadReturns(i) PROVE CleanupInv'
  BY <1>1, <1>3, <1>11 DEF LoadReturns, previewVars
<1>12. ASSUME NEW o \in Ops, CleanedAll(o) PROVE CleanupInv'
  BY <1>3, <1>12 DEF CleanedAll, previewVars
<1>13. ASSUME NEW o \in Ops,
              \/ \E t \in TaskIds : DeleteTask(o, t)
              \/ ExecCleanup(o) \/ CountsNothing(o) \/ Counted(o) \/ Deletes(o)
              \/ DeleteFails(o) \/ TaskDeleted(o) \/ Pruned(o)
       PROVE  CleanupInv'
  BY <1>1, <1>13 DEF DeleteTask, ExecCleanup, CountsNothing, Counted, Deletes, DeleteFails, TaskDeleted, Pruned,
                     previewVars
<1>14. ASSUME NEW x, SelectTab(x) \/ showTaskLogs(x) \/ SetFilter(x) \/ WriteEntry(x) \/ LoadReads(x)
       PROVE  CleanupInv'
  BY <1>1, <1>14 DEF SelectTab, showTaskLogs, SetFilter, WriteEntry, LoadReads, previewVars
<1>15. CASE ClickRefresh \/ ConfirmOk \/ ConfirmCancel \/ AutoRefresh \/ RefreshEnds \/ LoadView
            \/ LoadAfterRun \/ UNCHANGED vars
  BY <1>1, <1>15 DEF ClickRefresh, ConfirmOk, ConfirmCancel, AutoRefresh, RefreshEnds, LoadView, LoadAfterRun, vars,
                     previewVars
<1> QED
  BY <1>4, <1>5, <1>6, <1>7, <1>8, <1>9, <1>10, <1>11, <1>12, <1>13, <1>14, <1>15 DEF Next, User

-----------------------------------------------------------------------------
\* What a process has read are entries.
LEMMA ReadType ==
    ASSUME LoadInv, NEW i, LoadReturns(i)
    PROVE  loads[i].entries \subseteq Entry
<1>1. i \in DOMAIN loads /\ loads[i].read
  BY DEF LoadReturns
<1>2. loads[i] \in Load
  BY <1>1 DEF LoadInv
<1> QED
  BY <1>1, <1>2 DEF Load

LEMMA StepPage == LoadInv /\ PageInv /\ [Next]_vars => PageInv'
<1> SUFFICES ASSUME LoadInv, PageInv, [Next]_vars PROVE PageInv'
  OBVIOUS
<1>1. ASSUME UNCHANGED <<listVars, refresh>> PROVE PageInv'
  BY <1>1 DEF PageInv, listVars
<1>2. ASSUME NEW i, LoadReturns(i) PROVE PageInv'
  <2>1. loads[i].entries \subseteq Entry
    BY <1>2, ReadType
  <2>2. logs' \subseteq Entry
    BY <1>2, <2>1 DEF LoadReturns, renderLogs, PageInv
  <2>3. list' \subseteq Entry
    BY <1>2, <2>2 DEF LoadReturns, renderLogs, PageInv, Drawn
  <2> QED
    BY <1>2, <2>2, <2>3 DEF LoadReturns, renderLogs, PageInv
<1>3. ASSUME NEW t \in TaskIds \cup {NoTask}, showTaskLogs(t) \/ SetFilter(t) PROVE PageInv'
  BY <1>3 DEF showTaskLogs, SetFilter, renderLogs, PageInv, Drawn
<1>4. ASSUME NEW name \in {"tasks", "logs"}, SelectTab(name) PROVE PageInv'
  BY <1>4 DEF SelectTab, PageInv
<1>5. CASE RefreshEnds
  BY <1>5 DEF RefreshEnds, renderLogs, PageInv, Drawn
<1>6. ASSUME NEW o \in Ops, TaskDeleted(o) \/ CleanedAll(o) PROVE PageInv'
  BY <1>6 DEF TaskDeleted, CleanedAll, renderLogs, PageInv, Drawn
<1>7. CASE ClickRefresh \/ AutoRefresh
  BY <1>7 DEF ClickRefresh, AutoRefresh, PageInv, listVars
<1>8. ASSUME NEW o \in Ops,
             \/ \E t \in TaskIds : DeleteTask(o, t)
             \/ ExecCleanup(o) \/ CountsNothing(o) \/ Counted(o) \/ Deletes(o) \/ DeleteFails(o) \/ Pruned(o)
      PROVE  PageInv'
  BY <1>1, <1>8 DEF DeleteTask, ExecCleanup, CountsNothing, Counted, Deletes, DeleteFails, Pruned
<1>9. ASSUME NEW x, ChangeTask(x) \/ ChangeMode(x) \/ ChangeDays(x) \/ WriteEntry(x) \/ LoadReads(x)
                    \/ PreviewReturns(x)
      PROVE  PageInv'
  BY <1>1, <1>9 DEF ChangeTask, ChangeMode, ChangeDays, WriteEntry, LoadReads, PreviewReturns
<1>10. CASE openCleanupModal \/ closeCleanupModal \/ ConfirmOk \/ ConfirmCancel \/ LoadView
            \/ LoadAfterRun \/ PreviewTimer \/ UNCHANGED vars
  BY <1>1, <1>10 DEF openCleanupModal, closeCleanupModal, ConfirmOk, ConfirmCancel, LoadView, LoadAfterRun,
                     PreviewTimer, vars
<1> QED
  BY <1>2, <1>3, <1>4, <1>5, <1>6, <1>7, <1>8, <1>9, <1>10 DEF Next, User

\* What is not drawn at once is drawn when a process that is under way returns.
LEMMA StepDrawn == StoreInv /\ LoadInv /\ DrawnInv /\ [Next]_vars => DrawnInv'
<1> SUFFICES ASSUME StoreInv, LoadInv, DrawnInv, [Next]_vars PROVE DrawnInv'
  OBVIOUS
<1>0. "refresh" # "view" /\ "run" # "view" /\ {"view", "run"} \subseteq Waiting /\ "refresh" \in Waiting /\ Ops \cup TaskIds \subseteq Waiting
      /\ "view" \notin Ops \cup TaskIds
  BY ConstantsAssumption DEF Waiting
<1>1. ASSUME UNCHANGED <<listVars, refresh>>, NoneFor("view")' => NoneFor("view") PROVE DrawnInv'
  BY <1>1 DEF DrawnInv, Drawn, listVars
<1>2. ASSUME UNCHANGED <<listVars, refresh, loads>> PROVE DrawnInv'
  BY <1>1, <1>2 DEF NoneFor
<1>3. ASSUME NEW i, LoadReturns(i) PROVE DrawnInv'
  BY <1>3 DEF LoadReturns, renderLogs, DrawnInv
<1>4. ASSUME NEW i, LoadReads(i) PROVE DrawnInv'
  BY <1>1, <1>4, ReadCounts DEF LoadReads, LoadInv
<1>5. ASSUME NEW t, showTaskLogs(t) \/ SetFilter(t) PROVE DrawnInv'
  BY <1>5 DEF showTaskLogs, SetFilter, renderLogs, DrawnInv, Drawn
<1>6. ASSUME NEW name, SelectTab(name) PROVE DrawnInv'
  <2>1. CASE name = "logs"
    BY <1>0, <1>6, <2>1, SpawnCounts DEF SelectTab, DrawnInv, LoadInv
  <2> QED
    BY <1>6, <2>1 DEF SelectTab, DrawnInv
<1>7. CASE RefreshEnds
  BY <1>7 DEF RefreshEnds, renderLogs, DrawnInv, Drawn
<1>8. ASSUME NEW o \in Ops, TaskDeleted(o) \/ CleanedAll(o) PROVE DrawnInv'
  BY <1>8 DEF TaskDeleted, CleanedAll, renderLogs, DrawnInv, Drawn
<1>9. CASE ClickRefresh \/ AutoRefresh
  <2>1. NoneFor("view")' => NoneFor("view")
    BY <1>0, <1>9, SpawnCounts DEF ClickRefresh, AutoRefresh, LoadInv
  <2> QED
    BY <1>9, <2>1 DEF ClickRefresh, AutoRefresh, DrawnInv, Drawn, listVars
<1>10. ASSUME NEW o \in Ops, Pruned(o) PROVE DrawnInv'
  BY <1>0, <1>1, <1>10, SpawnCounts DEF Pruned, LoadInv
<1>11. CASE LoadView \/ LoadAfterRun
  BY <1>0, <1>1, <1>11, SpawnCounts DEF LoadView, LoadAfterRun, LoadInv
<1>12. ASSUME NEW o \in Ops,
             \/ \E t \in TaskIds : DeleteTask(o, t)
             \/ ExecCleanup(o) \/ CountsNothing(o) \/ Counted(o) \/ Deletes(o) \/ DeleteFails(o)
      PROVE  DrawnInv'
  BY <1>2, <1>12 DEF DeleteTask, ExecCleanup, CountsNothing, Counted, Deletes, DeleteFails
<1>13. ASSUME NEW x, ChangeTask(x) \/ ChangeMode(x) \/ ChangeDays(x) \/ WriteEntry(x) \/ PreviewReturns(x)
      PROVE  DrawnInv'
  BY <1>2, <1>13 DEF ChangeTask, ChangeMode, ChangeDays, WriteEntry, PreviewReturns
<1>14. CASE openCleanupModal \/ closeCleanupModal \/ ConfirmOk \/ ConfirmCancel \/ PreviewTimer
            \/ UNCHANGED vars
  BY <1>2, <1>14 DEF openCleanupModal, closeCleanupModal, ConfirmOk, ConfirmCancel, PreviewTimer, vars
<1> QED
  BY <1>3, <1>4, <1>5, <1>6, <1>7, <1>8, <1>9, <1>10, <1>11, <1>12, <1>13, <1>14 DEF Next, User

-----------------------------------------------------------------------------
LEMMA InitInv == Init => Inv
<1> SUFFICES ASSUME Init PROVE Inv
  OBVIOUS
<1>1. StoreInv
  BY ConstantsAssumption DEF Init, StoreInv
<1>2. loads \in Seq(Load) /\ Len(loads) = 0
  BY DEF Init
<1>3. \A f \in Ops \cup {"refresh"} : ~Waits(f)
  BY DEF Init, Waits, Idle
<1>4. \A f : NoneFor(f)
  BY <1>2 DEF NoneFor
<1>5. CleanupInv
  BY ConstantsAssumption DEF Init, CleanupInv, IsForm, PreviewOfMode
<1>6. PageInv /\ DrawnInv
  BY DEF Init, PageInv, DrawnInv
<1> QED
  BY <1>1, <1>2, <1>3, <1>4, <1>5, <1>6, InitAsk DEF Inv, LoadInv

LEMMA StepInv == Inv /\ [Next]_vars => Inv'
  BY StepStore, StepAsk, StepLoads, StepCleanup, StepPage, StepDrawn DEF Inv

LEMMA CountsFor ==
    ASSUME LoadInv, NEW f
    PROVE  /\ NoneFor(f) <=> LoadsFor(f) = {}
           /\ NoneFor(f) => Cardinality(LoadsFor(f)) = 0
           /\ OneFor(f) => Cardinality(LoadsFor(f)) = 1
<1>1. DOMAIN loads = 1..Len(loads)
  BY DEF LoadInv
<1>2. NoneFor(f) <=> LoadsFor(f) = {}
  BY <1>1 DEF NoneFor, LoadsFor
<1>3. ASSUME OneFor(f) PROVE Cardinality(LoadsFor(f)) = 1
  <2>1. PICK i \in 1..Len(loads) : \A j \in 1..Len(loads) : loads[j].for = f <=> j = i
    BY <1>3 DEF OneFor
  <2>2. LoadsFor(f) = {i}
    BY <1>1, <2>1 DEF LoadsFor
  <2> QED
    BY <2>2, FS_Singleton
<1> QED
  BY <1>2, <1>3, FS_EmptySet

\* Whatever is under way: a refresh and an operation that wait for the list have
\* one process that lists it, and no other has (app.js:1418-1436, 2307-2416).
THEOREM LogPageTypeCorrect == Spec => []TypeOK
<1>1. ASSUME Inv PROVE TypeOK
  <2>1. store \cup logs \cup list \subseteq Entry /\ written \in 0..MaxEntries
    BY <1>1 DEF Inv, StoreInv, PageInv
  <2>2. \A o \in Ops : ops[o].at \in {"idle", "counting", "confirm", "running", "returned", "loading"}
    BY <1>1 DEF Inv, AskInv, OpInv, Idle
  <2>3. \A f \in Ops \cup {"refresh"} : Cardinality(LoadsFor(f)) = IF Waits(f) THEN 1 ELSE 0
    BY <1>1, CountsFor DEF Inv, LoadInv
  <2>4. Cardinality(LoadsFor("refresh")) = IF refresh \in {"auto", "manual"} THEN 1 ELSE 0
    BY <2>3 DEF Waits
  <2>5. \A o \in Ops : Cardinality(LoadsFor(o)) = IF ops[o].at = "loading" THEN 1 ELSE 0
    BY <2>3, ConstantsAssumption DEF Waits
  <2> QED
    BY <1>1, <2>1, <2>2, <2>4, <2>5 DEF Inv, AskInv, PageInv, CleanupInv, IsForm, TypeOK
<1> QED
  BY <1>1, InitInv, StepInv, PTL DEF Spec

\* However the answers cross: the number in the clean-up dialog belongs to its
\* mode, and the list is what the filter lets through of the page's copy, unless
\* a process under way is about to draw it or the end of a run has replaced the
\* copy, which it does not draw (app.js:507-528, 885-1047, 1400, 2278-2305).
THEOREM ScreenKeepsUp == Spec => []ScreenIsCurrent
<1>1. Inv => ScreenIsCurrent
  BY CountsFor DEF Inv, CleanupInv, DrawnInv, ScreenIsCurrent, ListIsDrawn
<1> QED
  BY <1>1, InitInv, StepInv, PTL DEF Spec

\* Whatever answers come late and whatever the user does meanwhile, an
\* operation deletes what it was confirmed for (app.js:1465-1501, 2139-2150,
\* 2307-2354).
THEOREM DeletionsAreConfirmed == Spec => []AsksAndKeepsToIt
<1>1. Inv => AsksAndKeepsToIt
  BY DEF Inv, AskInv, OpInv, AsksAndKeepsToIt, DeletedConfirmed, Idle
<1> QED
  BY <1>1, InitInv, StepInv, PTL DEF Spec

=============================================================================
