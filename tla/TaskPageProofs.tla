---------------------------- MODULE TaskPageProofs ----------------------------
(***************************************************************************)
(* For any number of tasks, of deletions and of loads and saves of the raw  *)
(* editor at once: no two tasks have the same id unless the user wrote it   *)
(* twice (IdsUnique), and only a confirmed history is cleared              *)
(* (ClearsConfirmed).                                                      *)
(*                                                                         *)
(* The second rests on who waits for which write.  The end of a write moves *)
(* the deletion, or the save of the raw editor, that it was made for;       *)
(* WaitInv says that this one still waits, and for no other write.          *)
(* DeleteInv follows the id of a deletion from the click on.  For the ids   *)
(* ListInv follows every copy of the list, on the page, in a process, in    *)
(* the editor or in a file: each may replace any other, at any time.        *)
(***************************************************************************)
EXTENDS TaskPage, SequencesExt, SequenceTheorems, WellFoundedInduction, TLAPS

\* What is left of a sequence without one of its elements.
LEMMA RemovalKeeps ==
    ASSUME NEW S, NEW s \in Seq(S), NEW i \in 1..Len(s)
    PROVE  /\ RemoveAt(s, i) \in Seq(S)
           /\ Len(RemoveAt(s, i)) = Len(s) - 1
           /\ \A j \in 1..Len(s) - 1 : RemoveAt(s, i)[j] = IF j < i THEN s[j] ELSE s[j + 1]
<1> DEFINE front == SubSeq(s, 1, i - 1)
           back == SubSeq(s, i + 1, Len(s))
<1>1. Len(s) \in Nat /\ i \in Nat /\ 1 <= i /\ i <= Len(s)
  BY LenProperties
<1>2. front \in Seq(S) /\ Len(front) = i - 1 /\ \A j \in 1..i - 1 : front[j] = s[j]
  BY <1>1, SubSeqProperties
<1>3. back \in Seq(S) /\ Len(back) = Len(s) - i /\ \A j \in 1..Len(s) - i : back[j] = s[i + j]
  BY <1>1, SubSeqProperties
<1>4. RemoveAt(s, i) = front \o back
  BY DEF RemoveAt
<1> HIDE DEF front, back
<1>5. /\ front \o back \in Seq(S)
      /\ Len(front \o back) = Len(s) - 1
      /\ \A j \in 1..Len(s) - 1 : (front \o back)[j] = IF j <= i - 1 THEN front[j] ELSE back[j - (i - 1)]
  <2>1. front \in Seq(S) /\ back \in Seq(S)
    BY <1>2, <1>3
  <2>2. /\ front \o back \in Seq(S)
        /\ Len(front \o back) = Len(front) + Len(back)
        /\ \A j \in 1..Len(front) + Len(back) :
              (front \o back)[j] = IF j <= Len(front) THEN front[j] ELSE back[j - Len(front)]
    BY <2>1, ConcatProperties
  <2>3. Len(front) = i - 1 /\ Len(front) + Len(back) = Len(s) - 1
    BY <1>1, <1>2, <1>3
  <2> QED
    BY <2>2, <2>3
<1>6. ASSUME NEW j \in 1..Len(s) - 1
      PROVE  RemoveAt(s, i)[j] = IF j < i THEN s[j] ELSE s[j + 1]
  <2>1. CASE j < i
    BY <1>1, <1>2, <1>4, <1>5, <2>1
  <2>2. CASE j >= i
    <3>1. j - (i - 1) \in 1..Len(s) - i /\ i + (j - (i - 1)) = j + 1
      BY <1>1, <2>2
    <3>2. RemoveAt(s, i)[j] = back[j - (i - 1)]
      BY <1>1, <1>4, <1>5, <2>2
    <3> QED
      BY <1>1, <1>3, <2>2, <3>1, <3>2
  <2> QED
    BY <1>1, <2>1, <2>2
<1> QED
  BY <1>4, <1>5, <1>6

IsSave(x) ==
    x = [opened |-> x.opened, list |-> x.list, for |-> x.for, lost |-> x.lost, mixed |-> x.mixed]

Waits(for) == IF for \in Raws THEN raws[for].at = "saving" ELSE deletes[for].at = "saving"
Waiters == Deletes \cup Raws

RawsInv == raws = [r \in Raws |-> raws[r]]

WaitInv ==
    /\ \E S : saves \in Seq(S)
    /\ \A s \in 1..Len(saves) :
          /\ IsSave(saves[s])
          /\ saves[s].for \in Waiters =>
                /\ Waits(saves[s].for)
                /\ \A t \in 1..Len(saves) : saves[t].for = saves[s].for => s = t

IsDelete(x) == x = [at |-> x.at, id |-> x.id, index |-> x.index]

DeleteInv ==
    /\ deletes = [d \in Deletes |-> deletes[d]]
    /\ \A d \in Deletes :
          \/ deletes[d] = Idle
          \/ /\ IsDelete(deletes[d])
             /\ deletes[d].at = "confirm" \/ deletes[d].id \in confirmed
    /\ cleared \subseteq confirmed

-----------------------------------------------------------------------------
LEMMA InitInv == Init => WaitInv /\ RawsInv /\ DeleteInv
<1> SUFFICES ASSUME Init PROVE WaitInv /\ RawsInv /\ DeleteInv
  OBVIOUS
<1>1. saves \in Seq({}) /\ Len(saves) = 0
  BY DEF Init
<1> QED
  BY <1>1 DEF Init, WaitInv, RawsInv, DeleteInv

-----------------------------------------------------------------------------
(* Writes and who waits for them *)

\* Whoever waits goes on waiting while the writes stay.
LEMMA StillWaiting ==
    ASSUME WaitInv, UNCHANGED saves,
           \A for \in Waiters : Waits(for) => Waits(for)'
    PROVE  WaitInv'
BY DEF WaitInv

\* A new write does not take the place of one that somebody waits for.
LEMMA SpawnKeeps ==
    ASSUME WaitInv, NEW list, NEW for, Spawn(list, for),
           \A w \in Waiters : Waits(w) => Waits(w)',
           for \in Waiters => ~Waits(for) /\ Waits(for)'
    PROVE  WaitInv'
<1> DEFINE new == [opened |-> FALSE, list |-> list, for |-> for, lost |-> FALSE, mixed |-> FALSE]
<1>1. IsSave(new) /\ new.for = for
  BY DEF IsSave
<1>2. saves' = Append(saves, new)
  BY DEF Spawn
<1> HIDE DEF new
<1>3. PICK S : saves \in Seq(S)
  BY DEF WaitInv
<1>4. saves \in Seq(S \cup {new})
  BY <1>3
<1>5. /\ saves' \in Seq(S \cup {new}) /\ Len(saves') = Len(saves) + 1 /\ Len(saves) \in Nat
      /\ \A s \in 1..Len(saves) : saves'[s] = saves[s]
      /\ saves'[Len(saves) + 1] = new
  BY <1>2, <1>4, AppendProperties, LenProperties
<1> QED
  BY <1>1, <1>5 DEF WaitInv

\* Writes may change in what they hold, but not in whom they are for.
LEMMA SameWriters ==
    ASSUME NEW S, NEW list \in Seq(S), NEW other,
           other = [s \in DOMAIN list |-> other[s]]
    PROVE  \E R : other \in Seq(R) /\ Len(other) = Len(list)
<1>1. DOMAIN list = 1..Len(list) /\ Len(list) \in Nat
  BY LenProperties
<1>2. other \in Seq({other[s] : s \in 1..Len(list)}) /\ Len(other) = Len(list)
  BY <1>1
<1> QED
  BY <1>2

LEMMA MixedSave ==
    ASSUME NEW x, IsSave(x), NEW v
    PROVE  /\ IsSave([x EXCEPT !.mixed = v]) /\ [x EXCEPT !.mixed = v].for = x.for
           /\ IsSave([x EXCEPT !.lost = v]) /\ [x EXCEPT !.lost = v].for = x.for
           /\ IsSave([x EXCEPT !.opened = v]) /\ [x EXCEPT !.opened = v].for = x.for
<1>1. /\ [x EXCEPT !.mixed = v] = [opened |-> x.opened, list |-> x.list, for |-> x.for, lost |-> x.lost, mixed |-> v]
      /\ [x EXCEPT !.lost = v] = [opened |-> x.opened, list |-> x.list, for |-> x.for, lost |-> v, mixed |-> x.mixed]
      /\ [x EXCEPT !.opened = v] = [opened |-> v, list |-> x.list, for |-> x.for, lost |-> x.lost, mixed |-> x.mixed]
  BY DEF IsSave
<1> QED
  BY <1>1 DEF IsSave

\* The list of the writes after one of them ended, and who waits then.
LEMMA WriteEnds ==
    ASSUME WaitInv, DeleteInv, NEW s, TeeWrites(s)
    PROVE  /\ WaitInv'
           /\ \A d \in Deletes : deletes'[d] = deletes[d] \/ (deletes[d].at = "saving" /\ deletes'[d] = [deletes[d] EXCEPT !.at = "clearing"])
           /\ \A r \in Raws : raws'[r] = raws[r] \/ raws'[r] = [at |-> "asked"]
<1> DEFINE left == [t \in DOMAIN saves |-> [saves[t] EXCEPT !.mixed = @ \/ (saves[t].opened /\ ~saves[s].lost)]]
<1>1. PICK S : saves \in Seq(S)
  BY DEF WaitInv
<1>2. DOMAIN saves = 1..Len(saves) /\ Len(saves) \in Nat /\ s \in 1..Len(saves)
  BY <1>1, LenProperties DEF TeeWrites
<1>3. \A t \in 1..Len(saves) : IsSave(left[t]) /\ left[t].for = saves[t].for
  BY <1>2, MixedSave DEF WaitInv
<1>4. left = [t \in DOMAIN saves |-> left[t]] /\ saves' = RemoveAt(left, s)
  BY DEF TeeWrites
<1> HIDE DEF left
<1>5. PICK R : left \in Seq(R) /\ Len(left) = Len(saves)
  BY <1>1, <1>4, SameWriters
<1>6. /\ saves' \in Seq(R) /\ Len(saves') = Len(saves) - 1
      /\ \A t \in 1..Len(saves') : saves'[t] = IF t < s THEN left[t] ELSE left[t + 1]
  <2>1. left \in Seq(R) /\ s \in 1..Len(left)
    BY <1>2, <1>5
  <2>2. /\ RemoveAt(left, s) \in Seq(R)
        /\ Len(RemoveAt(left, s)) = Len(left) - 1
        /\ \A t \in 1..Len(left) - 1 : RemoveAt(left, s)[t] = IF t < s THEN left[t] ELSE left[t + 1]
    BY <2>1, RemovalKeeps
  <2> QED
    BY <1>4, <1>5, <2>2
<1>7. /\ deletes' = [d \in Deletes |-> IF saves[s].for = d THEN [deletes[d] EXCEPT !.at = "clearing"] ELSE deletes[d]]
      /\ raws' = [r \in Raws |-> IF saves[s].for = r THEN [at |-> "asked"] ELSE raws[r]]
  BY DEF TeeWrites
<1>8. ASSUME NEW w \in Waiters, w # saves[s].for, Waits(w) PROVE Waits(w)'
  <2>1. CASE w \in Raws
    BY <1>7, <1>8, <2>1 DEF Waits
  <2>2. CASE w \in Deletes /\ w \notin Raws
    <3>1. deletes'[w] = deletes[w]
      BY <1>7, <1>8, <2>2
    <3> QED
      BY <1>8, <2>2, <3>1 DEF Waits
  <2> QED
    BY <2>1, <2>2 DEF Waiters
<1>9. ASSUME NEW t \in 1..Len(saves')
      PROVE  /\ IsSave(saves'[t])
             /\ saves'[t].for \in Waiters =>
                   /\ \E w \in Waiters : w = saves'[t].for /\ Waits(w)'
                   /\ \A u \in 1..Len(saves') : saves'[u].for = saves'[t].for => t = u
  <2> DEFINE old(u) == IF u < s THEN u ELSE u + 1
  <2>1. \A u \in 1..Len(saves') : old(u) \in 1..Len(saves) /\ old(u) # s
                                  /\ IsSave(saves'[u]) /\ saves'[u].for = saves[old(u)].for
    BY <1>2, <1>3, <1>6
  <2>2. \A u \in 1..Len(saves') : old(u) = old(t) => u = t
    BY <1>2, <1>6
  <2> HIDE DEF old
  <2>3. CASE saves'[t].for \in Waiters
    <3>1. PICK w \in Waiters : w = saves'[t].for /\ w = saves[old(t)].for
      BY <2>1, <2>3
    <3>2. Waits(w) /\ w # saves[s].for
      BY <1>2, <2>1, <3>1 DEF WaitInv
    <3>3. \A u \in 1..Len(saves') : saves'[u].for = saves'[t].for => old(u) = old(t)
      BY <2>1, <2>3 DEF WaitInv
    <3> QED
      BY <1>8, <2>1, <2>2, <3>1, <3>2, <3>3
  <2> QED
    BY <2>1, <2>3
<1>10. WaitInv'
  <2>1. ASSUME NEW t \in 1..Len(saves'), saves'[t].for \in Waiters PROVE Waits(saves[t].for)'
    BY <1>9, <2>1 DEF Waits
  <2> QED
    BY <1>6, <1>9, <2>1 DEF WaitInv
<1>11. saves[s].for \in Waiters => Waits(saves[s].for)
  BY <1>2 DEF WaitInv
<1> QED
  BY <1>7, <1>10, <1>11, DeletesAssumption DEF Waits, Waiters

LEMMA StepRaws == RawsInv /\ [Next]_vars => RawsInv'
<1> SUFFICES ASSUME RawsInv, [Next]_vars PROVE RawsInv'
  OBVIOUS
<1>1. CASE UNCHANGED raws \/ \E r \in Raws : \E x : raws' = [raws EXCEPT ![r] = x]
  BY <1>1 DEF RawsInv
<1>2. CASE \E s : TeeWrites(s)
  <2>1. PICK s : TeeWrites(s)
    BY <1>2
  <2>2. raws' = [r \in Raws |-> IF saves[s].for = r THEN [at |-> "asked"] ELSE raws[r]]
    BY <2>1 DEF TeeWrites
  <2> QED
    BY <2>2 DEF RawsInv
<1>3. CASE SelectTab \/ SaveRaw
           \/ \E r \in Raws : EditorRead(r) \/ EditorShown(r) \/ RawRead(r) \/ RawTasks(r) \/ RawFails(r)
  BY <1>1, <1>3 DEF SelectTab, SaveRaw, EditorRead, EditorShown, RawRead, RawTasks, RawFails
<1>4. CASE ~(SelectTab \/ SaveRaw \/ (\E s : TeeWrites(s))
             \/ \E r \in Raws : EditorRead(r) \/ EditorShown(r) \/ RawRead(r) \/ RawTasks(r) \/ RawFails(r))
  <2>1. UNCHANGED raws
    BY <1>4 DEF Next, Page, User, vars, rawVars, Stir, AutoRefresh, ClickRefresh, RefreshRead, RefreshFails,
       RefreshTasks, RefreshEnds, Redraw, AddNewTask, CloseForm, EditTask, WriterReads, ToggleTask, SaveEdit,
       SaveNew, Import, Change, DeleteTask, DeleteCancelled, DeleteConfirmed, StopReturns, Cleared, TeeOpens,
       WriterRenames
  <2> QED
    BY <1>1, <2>1
<1> QED
  BY <1>2, <1>3, <1>4

LEMMA StepWait == WaitInv /\ RawsInv /\ DeleteInv /\ [Next]_vars => WaitInv'
<1> SUFFICES ASSUME WaitInv, RawsInv, DeleteInv, [Next]_vars PROVE WaitInv'
  OBVIOUS
<1>1. ASSUME UNCHANGED <<deletes, raws, saves>> PROVE WaitInv'
  BY <1>1, StillWaiting DEF Waits
<1>2. ASSUME UNCHANGED <<deletes, raws>>, NEW list, Spawn(list, "page") PROVE WaitInv'
  <2>1. "page" \notin Waiters
    BY DeletesAssumption DEF Waiters
  <2> QED
    BY <1>2, <2>1, SpawnKeeps DEF Waits
<1>3. ASSUME NEW d \in Deletes, NEW x, deletes' = [deletes EXCEPT ![d] = x], deletes[d].at # "saving",
             UNCHANGED raws,
             UNCHANGED saves \/ (x.at = "saving" /\ \E list : Spawn(list, d))
      PROVE  WaitInv'
  <2>1. deletes' = [e \in Deletes |-> IF e = d THEN x ELSE deletes[e]]
    BY <1>3 DEF DeleteInv
  <2>2. d \notin Raws /\ \A e \in Deletes : e \notin Raws
    BY DeletesAssumption
  <2>3. ~Waits(d) /\ (x.at = "saving" => Waits(d)')
    BY <1>3, <2>1, <2>2 DEF Waits
  <2>4. \A w \in Waiters : Waits(w) => Waits(w)'
    BY <1>3, <2>1 DEF Waits, Waiters
  <2> QED
    BY <1>3, <2>3, <2>4, StillWaiting, SpawnKeeps
<1>4. ASSUME NEW r \in Raws, NEW x, raws' = [raws EXCEPT ![r] = x], raws[r].at # "saving",
             UNCHANGED deletes,
             UNCHANGED saves \/ (x.at = "saving" /\ \E list : Spawn(list, r))
      PROVE  WaitInv'
  <2>1. raws' = [q \in Raws |-> IF q = r THEN x ELSE raws[q]]
    BY <1>4 DEF RawsInv
  <2>2. ~Waits(r) /\ (x.at = "saving" => Waits(r)')
    BY <1>4, <2>1 DEF Waits
  <2>3. \A w \in Waiters : Waits(w) => Waits(w)'
    BY <1>4, <2>1 DEF Waits, Waiters
  <2> QED
    BY <1>4, <2>2, <2>3, StillWaiting, SpawnKeeps
<1>5. CASE \/ Stir \/ AutoRefresh \/ ClickRefresh \/ RefreshRead \/ RefreshFails \/ RefreshTasks \/ RefreshEnds
           \/ Redraw \/ AddNewTask \/ CloseForm
           \/ (\E i : EditTask(i)) \/ (\E w : WriterReads(w)) \/ UNCHANGED vars
  BY <1>1, <1>5 DEF Stir, AutoRefresh, ClickRefresh, RefreshRead, RefreshFails, RefreshTasks, RefreshEnds,
                    Redraw, AddNewTask, CloseForm, EditTask, WriterReads, vars, rawVars
<1>6. CASE (\E i : ToggleTask(i)) \/ SaveEdit \/ SaveNew \/ Import
  BY <1>2, <1>6 DEF ToggleTask, SaveEdit, SaveNew, Import, Change, rawVars
<1>7. CASE SelectTab \/ SaveRaw
           \/ \E r \in Raws : EditorRead(r) \/ EditorShown(r) \/ RawRead(r) \/ RawTasks(r) \/ RawFails(r)
  <2>1. CASE SelectTab
    <3>1. UNCHANGED <<deletes, saves>>
      BY <2>1 DEF SelectTab
    <3>2. UNCHANGED raws \/ \E r \in Raws : raws[r] = Idle /\ raws' = [raws EXCEPT ![r] = [at |-> "loading"]]
      BY <2>1 DEF SelectTab
    <3> QED
      BY <1>1, <1>4, <3>1, <3>2 DEF Idle
  <2>2. CASE SaveRaw
    <3>1. PICK r \in Raws : /\ raws[r] = Idle /\ raws' = [raws EXCEPT ![r] = [at |-> "saving"]]
                            /\ \E list : Spawn(list, r)
      BY <2>2 DEF SaveRaw
    <3> QED
      <4>1. raws[r].at # "saving" /\ [at |-> "saving"].at = "saving"
        BY <3>1 DEF Idle
      <4>2. UNCHANGED deletes
        BY <2>2 DEF SaveRaw
      <4> DEFINE x == [at |-> "saving"]
      <4>3. raws' = [raws EXCEPT ![r] = x] /\ x.at = "saving" /\ \E list : Spawn(list, r)
        BY <3>1
      <4> HIDE DEF x
      <4> QED
        BY <1>4, <4>1, <4>2, <4>3
  <2>3. ASSUME NEW r \in Raws,
               EditorRead(r) \/ EditorShown(r) \/ RawRead(r) \/ RawTasks(r) \/ RawFails(r)
        PROVE  WaitInv'
    <3>1. PICK x : raws' = [raws EXCEPT ![r] = x]
      BY <2>3 DEF EditorRead, EditorShown, RawRead, RawTasks, RawFails
    <3>2. raws[r].at # "saving" /\ UNCHANGED <<deletes, saves>>
      BY <2>3 DEF EditorRead, EditorShown, RawRead, RawTasks, RawFails
    <3> QED
      BY <1>4, <3>1, <3>2
  <2> QED
    BY <1>7, <2>1, <2>2, <2>3
<1>8. ASSUME NEW d \in Deletes, (\E i : DeleteTask(d, i)) \/ DeleteCancelled(d) \/ Cleared(d) PROVE WaitInv'
  <2>1. deletes[d].at # "saving"
    BY <1>8 DEF DeleteTask, DeleteCancelled, Cleared, Idle
  <2>2. PICK x : deletes' = [deletes EXCEPT ![d] = x]
    BY <1>8 DEF DeleteTask, DeleteCancelled, Cleared
  <2>3. UNCHANGED <<raws, saves>>
    BY <1>8 DEF DeleteTask, DeleteCancelled, Cleared, rawVars
  <2> QED
    BY <1>3, <2>1, <2>2, <2>3
<1>9. ASSUME NEW d \in Deletes, DeleteConfirmed(d) PROVE WaitInv'
  <2>1. deletes[d].at # "saving" /\ UNCHANGED raws
    BY <1>9 DEF DeleteConfirmed, rawVars
  <2>2. PICK x : /\ deletes' = [deletes EXCEPT ![d] = x]
                 /\ UNCHANGED saves \/ (x.at = "saving" /\ \E list : Spawn(list, d))
    <3>1. \/ deletes' = [deletes EXCEPT ![d] = Idle] /\ UNCHANGED saves
          \/ \E i : /\ deletes' = [deletes EXCEPT ![d] = [at |-> "stopping", id |-> deletes[d].id, index |-> i]]
                    /\ UNCHANGED saves
          \/ \E i : /\ deletes' = [deletes EXCEPT ![d] = [at |-> "saving", id |-> deletes[d].id, index |-> i]]
                    /\ Spawn(tasks', d)
      BY <1>9 DEF DeleteConfirmed
    <3>2. \A i : [at |-> "saving", id |-> deletes[d].id, index |-> i].at = "saving"
      OBVIOUS
    <3> QED
      BY <3>1, <3>2
  <2> QED
    BY <1>3, <2>1, <2>2
<1>10. ASSUME NEW d \in Deletes, StopReturns(d) PROVE WaitInv'
  <2>1. deletes[d].at = "stopping" /\ UNCHANGED raws /\ Spawn(tasks', d)
    BY <1>10 DEF StopReturns, rawVars
  <2>2. IsDelete(deletes[d])
    BY <2>1 DEF DeleteInv, Idle
  <2>3. [deletes[d] EXCEPT !.at = "saving"].at = "saving"
    BY <2>2 DEF IsDelete
  <2>4. deletes' = [deletes EXCEPT ![d] = [deletes[d] EXCEPT !.at = "saving"]]
    BY <1>10 DEF StopReturns
  <2> QED
    BY <1>3, <2>1, <2>3, <2>4
<1>11. ASSUME NEW s, TeeWrites(s) PROVE WaitInv'
  BY <1>11, WriteEnds
<1>12. ASSUME UNCHANGED <<deletes, raws>>, saves' = [s \in DOMAIN saves |-> saves'[s]],
              \A s \in 1..Len(saves) : IsSave(saves'[s]) /\ saves'[s].for = saves[s].for
       PROVE  WaitInv'
  <2>1. PICK S : saves \in Seq(S)
    BY DEF WaitInv
  <2>2. \E R : saves' \in Seq(R) /\ Len(saves') = Len(saves)
    BY <1>12, <2>1, SameWriters
  <2> QED
    BY <1>12, <2>2 DEF WaitInv, Waits
<1>13. ASSUME NEW s, TeeOpens(s) PROVE WaitInv'
  <2>1. PICK S : saves \in Seq(S)
    BY DEF WaitInv
  <2>2. saves' = [t \in DOMAIN saves |-> IF t = s THEN [saves[s] EXCEPT !.opened = TRUE] ELSE saves[t]]
    BY <1>13, <2>1 DEF TeeOpens
  <2>3. DOMAIN saves = 1..Len(saves)
    BY <2>1
  <2>4. ASSUME NEW t \in 1..Len(saves) PROVE IsSave(saves'[t]) /\ saves'[t].for = saves[t].for
    <3>1. IsSave(saves[t])
      BY DEF WaitInv
    <3>2. CASE t = s
      <4>1. saves'[t] = [saves[t] EXCEPT !.opened = TRUE]
        BY <2>2, <2>3, <3>2
      <4> DEFINE old == saves[t]
      <4>2. IsSave([old EXCEPT !.opened = TRUE]) /\ [old EXCEPT !.opened = TRUE].for = old.for
        <5> HIDE DEF old
        <5>1. IsSave(old)
          BY <3>1 DEF old
        <5> QED
          BY <5>1, MixedSave
      <4> QED
        BY <4>1, <4>2
    <3>3. CASE t # s
      BY <2>2, <2>3, <3>1, <3>3
    <3> QED
      BY <3>2, <3>3
  <2> QED
    BY <1>12, <1>13, <2>2, <2>4 DEF TeeOpens, rawVars
<1>14. ASSUME NEW w, WriterRenames(w) PROVE WaitInv'
  <2>1. PICK S : saves \in Seq(S)
    BY DEF WaitInv
  <2>2. saves' = [t \in DOMAIN saves |-> [saves[t] EXCEPT !.lost = @ \/ saves[t].opened]]
    BY <1>14 DEF WriterRenames
  <2>3. DOMAIN saves = 1..Len(saves)
    BY <2>1
  <2>4. ASSUME NEW t \in 1..Len(saves) PROVE IsSave(saves'[t]) /\ saves'[t].for = saves[t].for
    <3>1. IsSave(saves[t]) /\ saves'[t] = [saves[t] EXCEPT !.lost = @ \/ saves[t].opened]
      BY <2>2, <2>3 DEF WaitInv
    <3> DEFINE old == saves[t]
               lost == old.lost \/ old.opened
    <3>2. IsSave([old EXCEPT !.lost = lost]) /\ [old EXCEPT !.lost = lost].for = old.for
      <4>1. IsSave(old)
        BY <3>1
      <4> HIDE DEF old, lost
      <4> QED
        BY <4>1, MixedSave
    <3>3. saves'[t] = [old EXCEPT !.lost = lost]
      BY <3>1
    <3> QED
      BY <3>2, <3>3
  <2> QED
    BY <1>12, <1>14, <2>2, <2>4 DEF WriterRenames, rawVars
<1> QED
  BY <1>5, <1>6, <1>7, <1>8, <1>9, <1>10, <1>11, <1>13, <1>14 DEF Next, Page, User

-----------------------------------------------------------------------------
(* Deletions *)

LEMMA MovedDelete ==
    ASSUME NEW x, IsDelete(x), NEW at
    PROVE  IsDelete([x EXCEPT !.at = at]) /\ [x EXCEPT !.at = at].id = x.id /\ [x EXCEPT !.at = at].at = at
<1>1. [x EXCEPT !.at = at] = [at |-> at, id |-> x.id, index |-> x.index]
  BY DEF IsDelete
<1> QED
  BY <1>1 DEF IsDelete

LEMMA StepDelete == WaitInv /\ DeleteInv /\ [Next]_vars => DeleteInv'
<1> SUFFICES ASSUME WaitInv, DeleteInv, [Next]_vars PROVE DeleteInv'
  OBVIOUS
<1>1. ASSUME NEW d \in Deletes, NEW x, deletes' = [deletes EXCEPT ![d] = x],
             confirmed \subseteq confirmed',
             x = Idle \/ (IsDelete(x) /\ (x.at = "confirm" \/ x.id \in confirmed')),
             cleared' \subseteq confirmed'
      PROVE  DeleteInv'
  <2>1. deletes' = [e \in Deletes |-> IF e = d THEN x ELSE deletes[e]]
    BY <1>1 DEF DeleteInv
  <2>2. \A e \in Deletes : deletes'[e] = IF e = d THEN x ELSE deletes[e]
    BY <2>1
  <2>3. deletes' = [e \in Deletes |-> deletes'[e]]
    BY <2>1
  <2> QED
    BY <1>1, <2>2, <2>3 DEF DeleteInv, IsDelete
<1>2. ASSUME NEW d \in Deletes, NEW i, DeleteTask(d, i) PROVE DeleteInv'
  <2>1. IsDelete([at |-> "confirm", id |-> tasks[i].id, index |-> i])
    BY DEF IsDelete
  <2> QED
    BY <1>1, <1>2, <2>1 DEF DeleteTask, history, DeleteInv
<1>3. ASSUME NEW d \in Deletes, DeleteCancelled(d) PROVE DeleteInv'
  BY <1>1, <1>3 DEF DeleteCancelled, history, DeleteInv
<1>4. ASSUME NEW d \in Deletes, DeleteConfirmed(d) PROVE DeleteInv'
  <2>1. PICK x : /\ deletes' = [deletes EXCEPT ![d] = x]
                 /\ \/ x = Idle
                    \/ \E i : x = [at |-> "stopping", id |-> deletes[d].id, index |-> i]
                    \/ \E i : x = [at |-> "saving", id |-> deletes[d].id, index |-> i]
    BY <1>4 DEF DeleteConfirmed
  <2>2. x = Idle \/ (IsDelete(x) /\ x.id = deletes[d].id)
    BY <2>1 DEF IsDelete
  <2>3. confirmed' = confirmed \cup {deletes[d].id} /\ cleared' = cleared
    BY <1>4 DEF DeleteConfirmed
  <2> QED
    BY <1>1, <2>1, <2>2, <2>3 DEF DeleteInv
<1>5. ASSUME NEW d \in Deletes, StopReturns(d) PROVE DeleteInv'
  <2>1. IsDelete(deletes[d]) /\ deletes[d].id \in confirmed
    BY <1>5 DEF StopReturns, DeleteInv, Idle
  <2>2. deletes' = [deletes EXCEPT ![d] = [deletes[d] EXCEPT !.at = "saving"]]
    BY <1>5 DEF StopReturns
  <2>3. /\ IsDelete([deletes[d] EXCEPT !.at = "saving"])
        /\ [deletes[d] EXCEPT !.at = "saving"].id = deletes[d].id
    BY <2>1, MovedDelete
  <2> QED
    BY <1>1, <1>5, <2>1, <2>2, <2>3 DEF StopReturns, history, DeleteInv
<1>6. ASSUME NEW d \in Deletes, Cleared(d) PROVE DeleteInv'
  <2>1. deletes[d].id \in confirmed
    BY <1>6 DEF Cleared, DeleteInv, Idle
  <2> QED
    BY <1>1, <1>6, <2>1 DEF Cleared, DeleteInv
<1>7. ASSUME NEW s, TeeWrites(s) PROVE DeleteInv'
  <2>1. ASSUME NEW d \in Deletes
        PROVE  \/ deletes'[d] = Idle
               \/ /\ IsDelete(deletes'[d])
                  /\ deletes'[d].at = "confirm" \/ deletes'[d].id \in confirmed
    <3>1. CASE deletes'[d] = deletes[d]
      BY <3>1 DEF DeleteInv
    <3>2. CASE deletes[d].at = "saving" /\ deletes'[d] = [deletes[d] EXCEPT !.at = "clearing"]
      <4>1. IsDelete(deletes[d]) /\ deletes[d].id \in confirmed
        BY <3>2 DEF DeleteInv, Idle
      <4> QED
        BY <3>2, <4>1, MovedDelete
    <3> QED
      BY <1>7, <3>1, <3>2, WriteEnds
  <2>2. UNCHANGED history /\ deletes' = [d \in Deletes |-> deletes'[d]]
    BY <1>7 DEF TeeWrites
  <2> QED
    BY <2>1, <2>2 DEF DeleteInv, history, IsDelete
<1>8. ASSUME UNCHANGED <<deletes, confirmed, cleared>> PROVE DeleteInv'
  BY <1>8 DEF DeleteInv, IsDelete
<1>9. CASE (\E d \in Deletes : (\E i : DeleteTask(d, i)) \/ DeleteCancelled(d) \/ DeleteConfirmed(d)
                               \/ StopReturns(d) \/ Cleared(d))
           \/ \E s : TeeWrites(s)
  BY <1>2, <1>3, <1>4, <1>5, <1>6, <1>7, <1>9
<1>10. CASE ~((\E d \in Deletes : (\E i : DeleteTask(d, i)) \/ DeleteCancelled(d) \/ DeleteConfirmed(d)
                                 \/ StopReturns(d) \/ Cleared(d))
             \/ \E s : TeeWrites(s))
  <2>1. UNCHANGED <<deletes, confirmed, cleared>>
    BY <1>10 DEF Next, Page, User, vars, AutoRefresh, ClickRefresh, RefreshRead, RefreshFails, RefreshTasks,
       RefreshEnds, Redraw, AddNewTask, CloseForm, EditTask, WriterReads, ToggleTask, SaveEdit, SaveNew,
       Import, Change, SelectTab, SaveRaw, EditorRead, EditorShown, RawRead, RawTasks, RawFails, Stir, TeeOpens,
       WriterRenames, history
  <2> QED
    BY <1>8, <2>1
<1> QED
  BY <1>9, <1>10

-----------------------------------------------------------------------------
(* The lists *)

Tasks(n) == [id : 0..n, uid : 1..n, on : BOOLEAN, seq : Nat]

\* A list of tasks whose ids tell them apart, unless the user wrote one twice.
Listed(list, n, free) == list \in Seq(Tasks(n)) /\ (free \/ Unique(list))

LEMMA ListedGrows ==
    ASSUME NEW n \in Nat, NEW m \in Nat, n <= m, NEW free \in BOOLEAN, NEW list, Listed(list, n, free)
    PROVE  Listed(list, m, free)
<1>1. Tasks(n) \subseteq Tasks(m)
  BY DEF Tasks
<1>2. list \in Seq(Tasks(m))
  BY <1>1 DEF Listed
<1> QED
  BY <1>2 DEF Listed

Less == OpToRel(<, Nat)

LEMMA LessWellFounded == IsWellFoundedOn(Less, Nat)
BY NatLessThanWellFounded DEF Less

LEMMA NotBefore ==
    ASSUME NEW m \in Nat, NEW n \in Nat, <<m, n>> \notin Less
    PROVE  n <= m
BY SMT DEF Less, OpToRel

\* A bounded set of numbers that holds 0 has a greatest one: the least of its
\* bounds.
LEMMA MaxIsGreatest ==
    ASSUME NEW n \in Nat, NEW S \in SUBSET (0..n), 0 \in S
    PROVE  Max(S) \in S /\ \A x \in S : x <= Max(S)
<1> DEFINE above == {m \in Nat : \A x \in S : x <= m}
<1>1. n \in above
  OBVIOUS
<1>2. PICK m \in above : \A k \in above : <<k, m>> \notin Less
  <2>1. above \subseteq Nat /\ above # {}
    BY <1>1
  <2> HIDE DEF above
  <2> QED
    BY <2>1, LessWellFounded, WFMin
<1>3. m \in Nat /\ \A k \in above : m <= k
  BY <1>2, NotBefore
<1>4. m \in S
  <2> SUFFICES ASSUME m \notin S PROVE FALSE
    OBVIOUS
  <2>1. ASSUME NEW x \in S PROVE x \in Nat /\ x <= m - 1
    <3>1. x <= m /\ x \in 0..n /\ x # m
      BY <1>2, <2>1
    <3> QED
      BY <1>3, <3>1
  <2>2. m - 1 \in Nat
    BY <1>3, <2>1
  <2>3. m - 1 \in above
    BY <2>1, <2>2
  <2> QED
    BY <1>3, <2>2, <2>3
<1>5. \A x \in S : m >= x
  BY <1>2
<1>6. Max(S) \in S /\ \A y \in S : Max(S) >= y
  BY <1>4, <1>5 DEF Max
<1> QED
  BY <1>6

LEMMA ElementTypes ==
    ASSUME NEW n \in Nat, NEW list \in Seq(Tasks(n))
    PROVE  DOMAIN list = 1..Len(list) /\ \A i \in 1..Len(list) : list[i].id \in 0..n
<1>1. DOMAIN list = 1..Len(list) /\ \A i \in 1..Len(list) : list[i] \in Tasks(n)
  OBVIOUS
<1> QED
  BY <1>1 DEF Tasks

\* The id of a new task is none that the list has, and one more than they.
LEMMA NextIdFresh ==
    ASSUME NEW n \in Nat, NEW list \in Seq(Tasks(n))
    PROVE  /\ NextId(list) \in 1..n + 1
           /\ \A i \in 1..Len(list) : list[i].id < NextId(list)
<1>1. DOMAIN list = 1..Len(list) /\ \A i \in 1..Len(list) : list[i].id \in 0..n
  BY ElementTypes
<1> DEFINE S == {0} \cup Ids(list)
<1>2. S \in SUBSET (0..n) /\ 0 \in S
  BY <1>1 DEF Ids
<1>3. \A i \in 1..Len(list) : list[i].id \in S
  BY <1>1 DEF Ids
<1> HIDE DEF S
<1>4. Max(S) \in S /\ \A x \in S : x <= Max(S)
  BY <1>2, MaxIsGreatest
<1>5. NextId(list) = 1 + Max(S)
  BY DEF NextId, S
<1>6. Max(S) \in 0..n
  BY <1>2, <1>4
<1> QED
  BY <1>1, <1>3, <1>4, <1>5, <1>6

LEMMA ListedAppend ==
    ASSUME NEW n \in Nat, NEW free \in BOOLEAN, NEW list, Listed(list, n, free)
    PROVE  Listed(Append(list, Task(NextId(list), n + 1)), n + 1, free)
<1> DEFINE t == Task(NextId(list), n + 1)
           longer == Append(list, t)
<1>1. list \in Seq(Tasks(n + 1)) /\ (free \/ Unique(list))
  BY ListedGrows DEF Listed
<1>2. NextId(list) \in 1..n + 1 /\ \A i \in 1..Len(list) : list[i].id < NextId(list)
  BY NextIdFresh DEF Listed
<1>3. t \in Tasks(n + 1) /\ t.id = NextId(list)
  BY <1>2 DEF Task, Tasks
<1> HIDE DEF t
<1>4. /\ longer \in Seq(Tasks(n + 1)) /\ Len(longer) = Len(list) + 1 /\ Len(list) \in Nat
      /\ \A i \in 1..Len(list) : longer[i] = list[i]
      /\ longer[Len(list) + 1] = t
  BY <1>1, <1>3, AppendProperties, LenProperties
<1> HIDE DEF longer
<1>5. ASSUME NEW i \in DOMAIN longer, NEW j \in DOMAIN longer, longer[i].id = longer[j].id,
             longer[i].id # 0, Unique(list)
      PROVE  i = j
  <2>1. i \in 1..Len(list) + 1 /\ j \in 1..Len(list) + 1 /\ DOMAIN list = 1..Len(list)
    BY <1>1, <1>4
  <2>2. \A k \in 1..Len(list) : list[k].id \in Nat
    BY <1>1, ElementTypes
  <2>3. CASE i \in 1..Len(list) /\ j \in 1..Len(list)
    BY <1>1, <1>4, <1>5, <2>1, <2>3 DEF Unique
  <2>4. CASE i = Len(list) + 1 /\ j \in 1..Len(list)
    BY <1>2, <1>3, <1>4, <1>5, <2>2, <2>4
  <2>5. CASE j = Len(list) + 1 /\ i \in 1..Len(list)
    BY <1>2, <1>3, <1>4, <1>5, <2>2, <2>5
  <2> QED
    BY <1>4, <2>1, <2>3, <2>4, <2>5
<1> QED
  BY <1>4, <1>5 DEF Listed, Unique, longer, t

LEMMA ListedWithout ==
    ASSUME NEW n \in Nat, NEW free \in BOOLEAN, NEW list, Listed(list, n, free), NEW i
    PROVE  Listed(Without(list, i), n, free)
<1>1. CASE i \notin DOMAIN list
  BY <1>1 DEF Without
<1>2. CASE i \in DOMAIN list
  <2> DEFINE shorter == RemoveAt(list, i)
             old(j) == IF j < i THEN j ELSE j + 1
  <2>1. list \in Seq(Tasks(n)) /\ i \in 1..Len(list) /\ Len(list) \in Nat /\ DOMAIN list = 1..Len(list)
    BY <1>2, LenProperties DEF Listed
  <2>2. /\ shorter \in Seq(Tasks(n)) /\ Len(shorter) = Len(list) - 1
        /\ \A j \in 1..Len(list) - 1 : shorter[j] = IF j < i THEN list[j] ELSE list[j + 1]
    BY <2>1, RemovalKeeps
  <2> HIDE DEF shorter
  <2>3. DOMAIN shorter = 1..Len(list) - 1
    BY <2>1, <2>2
  <2>4. \A j \in DOMAIN shorter : old(j) \in DOMAIN list /\ shorter[j] = list[old(j)]
    BY <2>1, <2>2, <2>3
  <2>5. \A j, k \in DOMAIN shorter : old(j) = old(k) => j = k
    BY <2>1, <2>3
  <2> HIDE DEF old
  <2>6. free \/ Unique(shorter)
    BY <2>4, <2>5 DEF Listed, Unique
  <2> QED
    BY <1>2, <2>2, <2>6 DEF Listed, Without, shorter
<1> QED
  BY <1>1, <1>2

LEMMA ListedExcept ==
    ASSUME NEW n \in Nat, NEW free \in BOOLEAN, NEW list, Listed(list, n, free), NEW i \in DOMAIN list,
           NEW t \in Tasks(n), t.id = list[i].id
    PROVE  Listed([list EXCEPT ![i] = t], n, free)
<1> DEFINE new == [list EXCEPT ![i] = t]
<1>1. new \in Seq(Tasks(n)) /\ DOMAIN new = DOMAIN list
  BY DEF Listed
<1>2. \A j \in DOMAIN list : new[j].id = list[j].id
  BY DEF Listed
<1> HIDE DEF new
<1>3. free \/ Unique(new)
  BY <1>1, <1>2 DEF Listed, Unique
<1> QED
  BY <1>1, <1>3 DEF Listed, new

\* What the user makes of a text is a list of tasks still.
LEMMA EditsAreLists ==
    ASSUME NEW n \in Nat, NEW old \in Seq(Tasks(n)), NEW list \in Edits(old)
    PROVE  list \in Seq(Tasks(n))
<1>1. CASE list = old
  BY <1>1
<1>2. CASE old # <<>>
  <2>1. DOMAIN old = 1..Len(old) /\ Len(old) \in Nat /\ 1 \in 1..Len(old) /\ old[1] \in Tasks(n)
    BY <1>2
  <2>2. RemoveAt(old, 1) \in Seq(Tasks(n))
    BY <2>1, RemovalKeeps
  <2>3. Append(old, old[1]) \in Seq(Tasks(n))
    BY <2>1
  <2>4. [old EXCEPT ![1].id = 0] \in Seq(Tasks(n))
    <3> DEFINE t == [old[1] EXCEPT !.id = 0]
    <3>1. t \in Tasks(n)
      <4>1. old[1] \in [id : 0..n, uid : 1..n, on : BOOLEAN, seq : Nat] /\ 0 \in 0..n
        BY <2>1 DEF Tasks
      <4> QED
        BY <4>1 DEF Tasks
    <3>2. [old EXCEPT ![1].id = 0] = [old EXCEPT ![1] = t]
      OBVIOUS
    <3> HIDE DEF t
    <3> QED
      BY <2>1, <3>1, <3>2
  <2> QED
    BY <2>2, <2>3, <2>4 DEF Edits
<1> QED
  BY <1>1, <1>2 DEF Edits

\* Everything that holds a list, or a task of it, with ids and uids up to n.
PageHeld(n, free) == Listed(tasks, n, free) /\ Listed(rows, n, free)
SavesHeld(n, free) == Len(saves) <= MaxSaves /\ \A s \in 1..Len(saves) : Listed(saves[s].list, n, free)
FileHeld(n, free) ==
    /\ Listed(conf, n, free) /\ file \in {"whole", "empty", "torn"}
    /\ writer = [w \in Writers |-> writer[w]]
    /\ \A w \in Writers : writer[w] = Idle \/ (writer[w].at = "read" /\ Listed(writer[w].list, n, free))
RawHeld(n, free) ==
    /\ Listed(editor.list, n, free)
    /\ \A r \in Raws :
          /\ raws[r].at \in {"idle", "loading", "loaded", "saving", "asked", "read"}
          /\ raws[r].at = "loaded" => Listed(raws[r].text.list, n, free)
          /\ raws[r].at = "read" => Listed(raws[r].list, n, free)
RefreshHeld(n, free) ==
    /\ refresh = Idle \/ refresh.at \in {"asked", "read", "loaded"}
    /\ refresh.at = "read" => Listed(refresh.list, n, free)
    /\ refreshing \in BOOLEAN /\ (refreshing <=> refresh # Idle)
FormHeld(n) ==
    \/ form \in {NoForm, [index |-> 0]}
    \/ /\ form = [index |-> form.index, task |-> form.task]
       /\ form.index \in 1..MaxUid /\ form.task \in Tasks(n)

DeletesHeld ==
    /\ \A d \in Deletes :
          \/ deletes[d] = Idle
          \/ deletes[d].at \in {"confirm", "stopping", "saving", "clearing"} /\ deletes[d].id \in 0..MaxUid
    /\ confirmed \subseteq 0..MaxUid /\ 0 \notin cleared
    /\ tab \in {"tasks", "editor"}

Held(n, free) == PageHeld(n, free) /\ SavesHeld(n, free) /\ FileHeld(n, free) /\ RawHeld(n, free) /\ RefreshHeld(n, free) /\ FormHeld(n)
ListInv == lastUid \in 0..MaxUid /\ doubled \in BOOLEAN /\ busy \in BOOLEAN /\ Held(lastUid, doubled)

LEMMA HeldGrows ==
    ASSUME ListInv, NEW n \in Nat, lastUid <= n, NEW free \in BOOLEAN, doubled => free
    PROVE  Held(n, free)
<1>1. \A list : Listed(list, lastUid, doubled) => Listed(list, n, free)
  <2>1. \A list : Listed(list, lastUid, doubled) => Listed(list, n, doubled)
    BY BoundsAssumption, ListedGrows DEF ListInv
  <2> QED
    BY <2>1 DEF Listed
<1>2. Tasks(lastUid) \subseteq Tasks(n)
  BY BoundsAssumption DEF Tasks, ListInv
<1> QED
  BY <1>1, <1>2 DEF ListInv, Held, PageHeld, SavesHeld, FileHeld, RawHeld, RefreshHeld, FormHeld

LEMMA UidGrows == lastUid \in 0..MaxUid /\ [Next]_vars => lastUid' \in 0..MaxUid /\ lastUid <= lastUid'
<1> SUFFICES ASSUME lastUid \in 0..MaxUid, [Next]_vars PROVE lastUid' \in 0..MaxUid /\ lastUid <= lastUid'
  OBVIOUS
<1>0. MaxUid \in Nat
  BY BoundsAssumption
<1>1. CASE lastUid' = lastUid
  BY <1>0, <1>1
<1>2. CASE lastUid' = lastUid + 1 /\ lastUid < MaxUid
  BY <1>0, <1>2
<1>3. CASE Import
  BY <1>0, <1>3 DEF Import
<1>4. ASSUME NEW w \in Writers, WriterReads(w) PROVE lastUid' = lastUid \/ (lastUid' = lastUid + 1 /\ lastUid < MaxUid)
  BY <1>4 DEF WriterReads, Writers, CountRun, CreateTasks, RemoveTask
<1>5. CASE SaveNew
  BY <1>2, <1>5 DEF SaveNew
<1>6. CASE ~Import /\ ~SaveNew /\ ~\E w \in Writers : WriterReads(w)
  <2>1. lastUid' = lastUid
    BY <1>6 DEF Next, Page, User, vars, bounds, AutoRefresh, ClickRefresh, RefreshRead, RefreshFails, RefreshTasks,
       RefreshEnds, Redraw, AddNewTask, CloseForm, EditTask, ToggleTask, SaveEdit,
       Change, SelectTab, SaveRaw, EditorRead, EditorShown, RawRead, RawTasks, RawFails, Stir, TeeOpens, TeeWrites,
       WriterRenames, Click, OnList,
       DeleteTask, DeleteCancelled, DeleteConfirmed, StopReturns, Cleared
  <2> QED
    BY <1>1, <2>1
<1> QED
  BY <1>1, <1>2, <1>3, <1>4, <1>5, <1>6

LEMMA FlagsGrow ==
    doubled \in BOOLEAN /\ busy \in BOOLEAN /\ [Next]_vars =>
        doubled' \in BOOLEAN /\ busy' \in BOOLEAN /\ (doubled => doubled')
<1> SUFFICES ASSUME doubled \in BOOLEAN, busy \in BOOLEAN, [Next]_vars
             PROVE  doubled' \in BOOLEAN /\ busy' \in BOOLEAN /\ (doubled => doubled')
  OBVIOUS
<1>1. CASE Stir
  BY <1>1 DEF Stir, history
<1>2. CASE SaveRaw
  <2>1. UNCHANGED busy /\ \E list : doubled' = (doubled \/ ~Unique(list))
    BY <1>2 DEF SaveRaw, deskVars
  <2> QED
    BY <2>1
<1>3. CASE ~Stir /\ ~SaveRaw
  <2>1. UNCHANGED <<busy, doubled>>
    BY <1>3 DEF Next, Page, User, vars, deskVars, history, AutoRefresh, ClickRefresh, RefreshRead, RefreshFails,
       RefreshTasks, RefreshEnds, Redraw, AddNewTask, CloseForm, EditTask, ToggleTask, SaveEdit, SaveNew, Import,
       Change, SelectTab, EditorRead, EditorShown, RawRead, RawTasks, RawFails, TeeOpens, TeeWrites,
       WriterReads, WriterRenames, DeleteTask, DeleteCancelled, DeleteConfirmed, StopReturns, Cleared
  <2> QED
    BY <2>1
<1> QED
  BY <1>1, <1>2, <1>3

\* A new list on the page, which is written.
NewList(n, free) == \E list, for : Listed(list, n, free) /\ tasks' = list /\ rows' \in {rows, list} /\ Spawn(list, for)

LEMMA ListsAreKept ==
    ASSUME ListInv, NEW n \in Nat, n = lastUid', NEW free \in BOOLEAN, free = doubled', [Next]_vars
    PROVE  /\ (\E i : ToggleTask(i)) \/ SaveEdit \/ SaveNew \/ Import => NewList(n, free)
           /\ (\E d \in Deletes : DeleteConfirmed(d) \/ StopReturns(d)) =>
                 NewList(n, free) \/ UNCHANGED <<tasks, rows, saves>>
<1>0. lastUid \in 0..MaxUid /\ lastUid <= n /\ MaxUid \in Nat
  BY BoundsAssumption, UidGrows DEF ListInv
<1>1. Listed(tasks, lastUid, free) /\ Listed(tasks, n, free) /\ FormHeld(n)
  BY <1>0, FlagsGrow, HeldGrows DEF ListInv, Held, PageHeld
<1>2. \A list : Listed(list, n, free) /\ Change(list) => NewList(n, free)
  BY DEF NewList, Change
<1>3. ASSUME NEW i, ToggleTask(i) PROVE NewList(n, free)
  <2> DEFINE t == [tasks[i] EXCEPT !.on = ~@, !.seq = IF tasks[i].on THEN @ ELSE 0]
  <2>1. i \in DOMAIN tasks /\ Change([tasks EXCEPT ![i] = t])
    BY <1>3 DEF ToggleTask
  <2>2. tasks[i] \in Tasks(n)
    BY <1>1, <2>1 DEF Listed
  <2>3. t \in Tasks(n) /\ t.id = tasks[i].id
    BY <2>2 DEF Tasks
  <2> HIDE DEF t
  <2> QED
    BY <1>1, <1>2, <2>1, <2>3, ListedExcept
<1>4. CASE SaveEdit
  <2> DEFINE i == form.index
             t == [form.task EXCEPT !.id = tasks[i].id]
  <2>1. i \in DOMAIN tasks /\ Change([tasks EXCEPT ![i] = t]) /\ DOMAIN tasks = 1..Len(tasks)
    BY <1>1, <1>4 DEF SaveEdit, Listed
  <2>2. tasks[i] \in Tasks(n) /\ i # 0 /\ i # -1
    BY <1>1, <2>1 DEF Listed
  <2>3. form.task \in Tasks(n)
    BY <1>1, <2>2 DEF FormHeld, NoForm
  <2>4. t \in Tasks(n) /\ t.id = tasks[i].id
    BY <2>2, <2>3 DEF Tasks
  <2> HIDE DEF t, i
  <2> QED
    BY <1>1, <1>2, <2>1, <2>4, ListedExcept
<1>5. CASE SaveNew
  <2>1. n = lastUid + 1 /\ Change(Append(tasks, Task(NextId(tasks), lastUid + 1)))
    BY <1>5 DEF SaveNew
  <2> QED
    BY <1>0, <1>1, <1>2, <2>1, ListedAppend
<1>6. CASE Import
  <2> DEFINE one == Append(tasks, Task(NextId(tasks), lastUid + 1))
             two == Append(one, Task(NextId(one), lastUid + 1 + 1))
  <2>1. n = lastUid + 1 + 1 /\ Change(two)
    BY <1>0, <1>6 DEF Import
  <2>2. Listed(one, lastUid + 1, free)
    BY <1>0, <1>1, ListedAppend
  <2> HIDE DEF one
  <2>3. Listed(two, lastUid + 1 + 1, free)
    BY <1>0, <2>2, ListedAppend
  <2> QED
    BY <1>2, <2>1, <2>3
<1>7. ASSUME NEW d \in Deletes, DeleteConfirmed(d) \/ StopReturns(d)
      PROVE  NewList(n, free) \/ UNCHANGED <<tasks, rows, saves>>
  <2>1. UNCHANGED rows /\ (UNCHANGED <<tasks, saves>> \/ \E i : tasks' = Without(tasks, i) /\ Spawn(tasks', d))
    BY <1>7 DEF DeleteConfirmed, StopReturns
  <2>2. \A i : Listed(Without(tasks, i), n, free)
    BY <1>1, ListedWithout
  <2> QED
    BY <2>1, <2>2 DEF NewList
<1> QED
  BY <1>3, <1>4, <1>5, <1>6, <1>7

LEMMA StepPageHeld ==
    ASSUME ListInv, NEW n \in Nat, n = lastUid', NEW free \in BOOLEAN, free = doubled', [Next]_vars
    PROVE  PageHeld(n, free)'
<1>1. Held(n, free)
  BY UidGrows, FlagsGrow, HeldGrows DEF ListInv
<1>2. ASSUME NewList(n, free) PROVE PageHeld(n, free)'
  BY <1>1, <1>2 DEF NewList, Held, PageHeld, Listed, Unique
<1>3. ASSUME Listed(tasks', n, free), Listed(rows', n, free) PROVE PageHeld(n, free)'
  BY <1>3 DEF PageHeld, Listed, Unique
<1>4. ASSUME UNCHANGED tasks, rows' \in {rows, tasks} PROVE PageHeld(n, free)'
  BY <1>1, <1>3, <1>4 DEF Held, PageHeld
<1>5. CASE (\E i : ToggleTask(i)) \/ SaveEdit \/ SaveNew \/ Import
           \/ (\E d \in Deletes : DeleteConfirmed(d) \/ StopReturns(d))
  BY <1>2, <1>4, <1>5, ListsAreKept
<1>6. CASE RefreshTasks \/ \E r \in Raws : RawTasks(r)
  BY <1>1, <1>3, <1>6 DEF RefreshTasks, RawTasks, Held, PageHeld, RefreshHeld, RawHeld
<1>7. CASE RefreshEnds \/ Redraw \/ (\E r : RawFails(r)) \/ \E d : Cleared(d)
  BY <1>4, <1>7 DEF RefreshEnds, Redraw, RawFails, Cleared
<1>8. CASE ~((\E i : ToggleTask(i)) \/ SaveEdit \/ SaveNew \/ Import
             \/ (\E d \in Deletes : DeleteConfirmed(d) \/ StopReturns(d))
             \/ RefreshTasks \/ (\E r \in Raws : RawTasks(r)) \/ RefreshEnds \/ Redraw
             \/ (\E r : RawFails(r)) \/ \E d : Cleared(d))
  <2>1. UNCHANGED pageVars
    BY <1>8 DEF Next, Page, User, vars, Stir, AutoRefresh, ClickRefresh, RefreshRead, RefreshFails, SelectTab,
       EditTask, DeleteTask, DeleteCancelled, AddNewTask, CloseForm, EditorRead, EditorShown, SaveRaw, RawRead,
       TeeOpens, TeeWrites,
       WriterReads, WriterRenames
  <2> QED
    BY <1>4, <2>1 DEF pageVars
<1> QED
  BY <1>5, <1>6, <1>7, <1>8

LEMMA SaveSets ==
    ASSUME NEW x, IsSave(x), NEW v
    PROVE  /\ [x EXCEPT !.mixed = v].list = x.list
           /\ [x EXCEPT !.lost = v].list = x.list
           /\ [x EXCEPT !.opened = v].list = x.list
BY DEF IsSave

\* The processes that write hold the lists that they were given.
LEMMA StepSavesHeld ==
    ASSUME ListInv, WaitInv, NEW n \in Nat, n = lastUid', NEW free \in BOOLEAN, free = doubled',
           [Next]_vars
    PROVE  SavesHeld(n, free)'
<1>1. Held(n, free)
  BY UidGrows, FlagsGrow, HeldGrows DEF ListInv
<1>2. PICK S : saves \in Seq(S)
  BY DEF WaitInv
<1>3. DOMAIN saves = 1..Len(saves) /\ Len(saves) \in Nat
  BY <1>2, LenProperties
<1>4. \A list : Listed(list, n, free)' <=> Listed(list, n, free)
  BY DEF Listed, Unique
<1>5. ASSUME NEW list, NEW for, Listed(list, n, free), Spawn(list, for) PROVE SavesHeld(n, free)'
  <2> DEFINE new == [opened |-> FALSE, list |-> list, for |-> for, lost |-> FALSE, mixed |-> FALSE]
  <2>1. saves' = Append(saves, new) /\ new.list = list
    BY <1>5 DEF Spawn
  <2> HIDE DEF new
  <2>2. saves \in Seq(S \cup {new})
    BY <1>2
  <2>3. /\ Len(saves') = Len(saves) + 1 /\ saves'[Len(saves) + 1] = new
        /\ \A s \in 1..Len(saves) : saves'[s] = saves[s]
    BY <1>3, <2>1, <2>2, AppendProperties
  <2>4. Len(saves') <= MaxSaves
    BY <1>3, <1>5, <2>3, BoundsAssumption DEF Spawn
  <2>5. \A s \in 1..Len(saves') : Listed(saves'[s].list, n, free)
    BY <1>1, <1>3, <1>5, <2>1, <2>3 DEF Held, SavesHeld
  <2> QED
    BY <2>4, <2>5 DEF SavesHeld, Listed, Unique
<1>6. ASSUME Len(saves') \in Nat, Len(saves') <= Len(saves),
             \A s \in 1..Len(saves') : \E t \in 1..Len(saves) : saves'[s].list = saves[t].list
      PROVE  SavesHeld(n, free)'
  <2>1. \A s \in 1..Len(saves') : Listed(saves'[s].list, n, free)
    BY <1>1, <1>6 DEF Held, SavesHeld
  <2>2. Len(saves') <= MaxSaves
    BY <1>1, <1>3, <1>6, BoundsAssumption DEF Held, SavesHeld
  <2> QED
    BY <2>1, <2>2 DEF SavesHeld, Listed, Unique
<1>7. ASSUME UNCHANGED saves PROVE SavesHeld(n, free)'
  BY <1>3, <1>6, <1>7
<1>8. ASSUME saves' = [s \in DOMAIN saves |-> saves'[s]],
             \A s \in 1..Len(saves) : saves'[s].list = saves[s].list
      PROVE  SavesHeld(n, free)'
  <2>1. Len(saves') = Len(saves)
    BY <1>2, <1>8, SameWriters
  <2> QED
    BY <1>3, <1>6, <1>8, <2>1
<1>9. ASSUME NEW s, TeeOpens(s) PROVE SavesHeld(n, free)'
  <2>1. saves' = [t \in DOMAIN saves |-> IF t = s THEN [saves[s] EXCEPT !.opened = TRUE] ELSE saves[t]]
    BY <1>2, <1>9 DEF TeeOpens
  <2>2. \A t \in 1..Len(saves) : IsSave(saves[t])
    BY DEF WaitInv
  <2>3. \A t \in 1..Len(saves) : saves'[t].list = saves[t].list
    BY <1>3, <2>1, <2>2, SaveSets
  <2> QED
    BY <1>8, <2>1, <2>3
<1>10. ASSUME NEW w, WriterRenames(w) PROVE SavesHeld(n, free)'
  <2>1. saves' = [t \in DOMAIN saves |-> [saves[t] EXCEPT !.lost = @ \/ saves[t].opened]]
    BY <1>10 DEF WriterRenames
  <2>2. \A t \in 1..Len(saves) : IsSave(saves[t])
    BY DEF WaitInv
  <2>3. ASSUME NEW t \in 1..Len(saves) PROVE saves'[t].list = saves[t].list
    <3> DEFINE x == saves[t]
               v == x.lost \/ x.opened
    <3>1. saves'[t] = [x EXCEPT !.lost = v] /\ IsSave(x)
      BY <1>3, <2>1, <2>2
    <3> HIDE DEF v
    <3> QED
      BY <3>1, SaveSets
  <2> QED
    BY <1>8, <2>1, <2>3
<1>11. ASSUME NEW s, TeeWrites(s) PROVE SavesHeld(n, free)'
  <2> DEFINE left == [t \in DOMAIN saves |-> [saves[t] EXCEPT !.mixed = @ \/ (saves[t].opened /\ ~saves[s].lost)]]
  <2>1. saves' = RemoveAt(left, s) /\ s \in 1..Len(saves) /\ left = [t \in DOMAIN saves |-> left[t]]
    BY <1>3, <1>11 DEF TeeWrites
  <2>2. ASSUME NEW t \in 1..Len(saves) PROVE left[t].list = saves[t].list
    <3> DEFINE x == saves[t]
               v == x.mixed \/ (x.opened /\ ~saves[s].lost)
    <3>1. left[t] = [x EXCEPT !.mixed = v]
      BY <1>3
    <3>2. IsSave(x)
      BY DEF WaitInv
    <3> HIDE DEF v, left
    <3> QED
      BY <3>1, <3>2, SaveSets
  <2> HIDE DEF left
  <2>3. PICK R : left \in Seq(R) /\ Len(left) = Len(saves)
    BY <1>2, <2>1, SameWriters
  <2>4. /\ Len(saves') = Len(left) - 1
        /\ \A t \in 1..Len(left) - 1 : saves'[t] = IF t < s THEN left[t] ELSE left[t + 1]
    BY <2>1, <2>3, RemovalKeeps
  <2>5. ASSUME NEW t \in 1..Len(saves') PROVE \E u \in 1..Len(saves) : saves'[t].list = saves[u].list
    <3>1. CASE t < s
      <4>1. t \in Nat /\ t <= Len(left) - 1 /\ t \in 1..Len(left) - 1 /\ t \in 1..Len(saves)
        BY <1>3, <2>1, <2>3, <2>4, <2>5
      <4>2. saves'[t] = left[t]
        BY <2>4, <3>1, <4>1
      <4> QED
        BY <2>2, <4>1, <4>2
    <3>2. CASE ~(t < s)
      <4>1. t + 1 \in 1..Len(saves) /\ saves'[t] = left[t + 1]
        BY <1>3, <2>1, <2>3, <2>4, <3>2
      <4> QED
        BY <2>2, <4>1
    <3> QED
      BY <3>1, <3>2
  <2> QED
    BY <1>3, <1>6, <2>1, <2>3, <2>4, <2>5
<1>12. CASE SaveRaw
  <2>1. PICK list \in Edits(editor.list) : (\E r : Spawn(list, r)) /\ doubled' = (doubled \/ ~Unique(list))
    BY <1>12 DEF SaveRaw
  <2>2. Listed(list, n, free)
    BY <1>1, <2>1, EditsAreLists DEF Held, RawHeld, Listed
  <2> QED
    BY <1>5, <2>1, <2>2
<1>13. CASE (\E i : ToggleTask(i)) \/ SaveEdit \/ SaveNew \/ Import
            \/ (\E d \in Deletes : DeleteConfirmed(d) \/ StopReturns(d))
  BY <1>5, <1>7, <1>13, ListsAreKept DEF NewList
<1>14. CASE ~((\E i : ToggleTask(i)) \/ SaveEdit \/ SaveNew \/ Import \/ SaveRaw
              \/ (\E d \in Deletes : DeleteConfirmed(d) \/ StopReturns(d))
              \/ (\E s : TeeOpens(s) \/ TeeWrites(s)) \/ \E w : WriterRenames(w))
  <2>1. UNCHANGED saves
    BY <1>14 DEF Next, Page, User, vars, AutoRefresh, ClickRefresh, RefreshRead, RefreshFails, RefreshTasks,
       RefreshEnds, SelectTab, Redraw, EditTask, DeleteTask, DeleteCancelled, Cleared, AddNewTask, CloseForm,
       Stir, EditorRead, EditorShown, RawRead, RawTasks, RawFails, WriterReads
  <2> QED
    BY <1>7, <2>1
<1> QED
  BY <1>9, <1>10, <1>11, <1>12, <1>13, <1>14

\* The file and what the daemon and the command line make of it.
LEMMA StepFileHeld ==
    ASSUME ListInv, WaitInv, NEW n \in Nat, n = lastUid', NEW free \in BOOLEAN, free = doubled',
           [Next]_vars
    PROVE  FileHeld(n, free)'
<1>0. lastUid \in 0..MaxUid /\ lastUid <= n /\ MaxUid \in Nat
  BY BoundsAssumption, UidGrows DEF ListInv
<1>1. Held(n, free)
  BY <1>0, FlagsGrow, HeldGrows DEF ListInv
<1>2. \A list : Listed(list, n, free)' <=> Listed(list, n, free)
  BY DEF Listed, Unique
<1>3. ASSUME conf' = conf \/ Listed(conf', n, free), file' \in {"whole", "empty", "torn"},
             writer' = [w \in Writers |-> writer'[w]],
             \A w \in Writers : \/ writer'[w] \in {writer[w], Idle}
                                \/ writer'[w].at = "read" /\ Listed(writer'[w].list, n, free)
      PROVE  FileHeld(n, free)'
  <2>1. Listed(conf', n, free)
    BY <1>1, <1>3 DEF Held, FileHeld
  <2>2. \A w \in Writers : writer'[w] = Idle \/ (writer'[w].at = "read" /\ Listed(writer'[w].list, n, free))
    BY <1>1, <1>3 DEF Held, FileHeld
  <2> QED
    BY <1>3, <2>1, <2>2 DEF FileHeld, Listed, Unique
<1>4. ASSUME UNCHANGED writer, conf' = conf \/ Listed(conf', n, free), file' \in {"whole", "empty", "torn"} PROVE FileHeld(n, free)'
  BY <1>1, <1>3, <1>4 DEF Held, FileHeld
<1>5. ASSUME NEW w \in Writers, NEW list, Listed(list, n, free),
             writer' = [writer EXCEPT ![w] = [at |-> "read", list |-> list]], UNCHANGED fileVars
      PROVE  FileHeld(n, free)'
  <2>1. writer' = [x \in Writers |-> IF x = w THEN [at |-> "read", list |-> list] ELSE writer[x]]
    BY <1>1, <1>5 DEF Held, FileHeld
  <2>2. file' \in {"whole", "empty", "torn"} /\ conf' = conf
    BY <1>1, <1>5 DEF Held, FileHeld, fileVars
  <2>3. writer'[w].at = "read" /\ writer'[w].list = list
    BY <2>1
  <2>4. \A x \in Writers : x # w => writer'[x] = writer[x]
    BY <2>1
  <2>5. writer' = [x \in Writers |-> writer'[x]]
    BY <2>1
  <2> QED
    BY <1>3, <1>5, <2>2, <2>3, <2>4, <2>5
<1>6. ASSUME NEW w \in Writers, WriterReads(w) PROVE FileHeld(n, free)'
  <2>1. UNCHANGED fileVars /\ Listed(conf, n, free) /\ conf \in Seq(Tasks(n))
    BY <1>1, <1>6 DEF WriterReads, Held, FileHeld, Listed
  <2>2. CASE CountRun
    <3>1. PICK i : writer' = [writer EXCEPT !["daemon"] = [at |-> "read", list |-> [conf EXCEPT ![i].seq = @ + 1]]]
      BY <2>2 DEF CountRun
    <3>2. Listed([conf EXCEPT ![i].seq = @ + 1], n, free)
      <4>1. CASE i \notin DOMAIN conf
        <5>1. [conf EXCEPT ![i].seq = @ + 1] = conf
          BY <2>1, <4>1
        <5> QED
          BY <2>1, <5>1
      <4>2. CASE i \in DOMAIN conf
        <5> DEFINE t == [conf[i] EXCEPT !.seq = @ + 1]
        <5>1. conf[i] \in Tasks(n)
          BY <2>1, <4>2
        <5>2. t \in Tasks(n) /\ t.id = conf[i].id
          BY <5>1 DEF Tasks
        <5>3. [conf EXCEPT ![i].seq = @ + 1] = [conf EXCEPT ![i] = t]
          OBVIOUS
        <5> HIDE DEF t
        <5> QED
          BY <2>1, <4>2, <5>2, <5>3, ListedExcept
      <4> QED
        BY <4>1, <4>2
    <3> QED
      BY <1>5, <2>1, <3>1, <3>2 DEF Writers
  <2>3. CASE CreateTasks
    <3>1. n = lastUid + 1
          /\ writer' = [writer EXCEPT !["cli"] =
                           [at |-> "read", list |-> Append(Readable, Task(NextId(Readable), lastUid + 1))]]
      BY <2>3 DEF CreateTasks
    <3>2. Listed(Readable, lastUid, free)
      <4>1. Listed(conf, lastUid, free) /\ Listed(<<>>, lastUid, free)
        BY FlagsGrow DEF ListInv, Held, FileHeld, Listed, Unique
      <4> QED
        BY <4>1 DEF Readable
    <3>3. Listed(Append(Readable, Task(NextId(Readable), lastUid + 1)), n, free)
      BY <1>0, <3>1, <3>2, ListedAppend
    <3> QED
      BY <1>5, <2>1, <3>1, <3>3 DEF Writers
  <2>4. CASE RemoveTask
    <3>1. PICK i \in DOMAIN conf : writer' = [writer EXCEPT !["admin"] = [at |-> "read", list |-> RemoveAt(conf, i)]]
      BY <2>4 DEF RemoveTask
    <3>2. Listed(RemoveAt(conf, i), n, free)
      BY <2>1, ListedWithout DEF Without
    <3> QED
      BY <1>5, <2>1, <3>1, <3>2 DEF Writers
  <2> QED
    BY <1>6, <2>2, <2>3, <2>4 DEF WriterReads, Writers
<1>7. ASSUME NEW w \in Writers, WriterRenames(w) PROVE FileHeld(n, free)'
  <2>1. conf' = writer[w].list /\ file' = "whole" /\ Listed(writer[w].list, n, free)
    BY <1>1, <1>7 DEF WriterRenames, Held, FileHeld
  <2>2. writer' = [x \in Writers |-> IF x = w THEN Idle ELSE writer[x]]
    BY <1>1, <1>7 DEF WriterRenames, Held, FileHeld
  <2> QED
    BY <1>3, <2>1, <2>2
<1>8. ASSUME NEW s, TeeWrites(s) PROVE FileHeld(n, free)'
  <2>1. s \in 1..Len(saves)
    BY <1>8 DEF TeeWrites, WaitInv
  <2>2. Listed(saves[s].list, n, free)
    BY <1>1, <2>1 DEF Held, SavesHeld
  <2>3. UNCHANGED writer /\ (UNCHANGED fileVars \/ (conf' = saves[s].list /\ file' \in {"whole", "empty", "torn"}))
    BY <1>8 DEF TeeWrites
  <2>4. file \in {"whole", "empty", "torn"}
    BY <1>1 DEF Held, FileHeld
  <2> QED
    BY <1>4, <2>2, <2>3, <2>4 DEF fileVars
<1>9. ASSUME NEW s, TeeOpens(s) PROVE FileHeld(n, free)'
  BY <1>4, <1>9 DEF TeeOpens
<1>10. CASE ~((\E w \in Writers : WriterReads(w) \/ WriterRenames(w)) \/ \E s : TeeOpens(s) \/ TeeWrites(s))
  <2>1. UNCHANGED <<fileVars, writer>>
    BY <1>10 DEF Next, Page, User, vars, AutoRefresh, ClickRefresh, RefreshRead, RefreshFails, RefreshTasks,
       RefreshEnds, Redraw, AddNewTask, CloseForm, EditTask, ToggleTask, SaveEdit, SaveNew, Import, Change,
       SelectTab, SaveRaw, EditorRead, EditorShown, RawRead, RawTasks, RawFails, Stir, DeleteTask, DeleteCancelled,
       DeleteConfirmed, StopReturns, Cleared
  <2>2. file \in {"whole", "empty", "torn"}
    BY <1>1 DEF Held, FileHeld
  <2> QED
    BY <1>4, <2>1, <2>2 DEF fileVars
<1> QED
  BY <1>6, <1>7, <1>8, <1>9, <1>10

LEMMA StepRawHeld ==
    ASSUME ListInv, RawsInv, NEW n \in Nat, n = lastUid', NEW free \in BOOLEAN, free = doubled', [Next]_vars
    PROVE  RawHeld(n, free)'
<1> DEFINE Good(x) ==
              /\ x.at \in {"idle", "loading", "loaded", "saving", "asked", "read"}
              /\ x.at = "loaded" => Listed(x.text.list, n, free)
              /\ x.at = "read" => Listed(x.list, n, free)
<1>1. Listed(editor.list, n, free) /\ \A r \in Raws : Good(raws[r])
  BY UidGrows, FlagsGrow, HeldGrows DEF ListInv, Held, RawHeld
<1>2. Listed(conf, n, free) /\ Listed(<<>>, n, free) /\ Listed(Readable, n, free)
  <2>1. Listed(conf, n, free) /\ Listed(<<>>, n, free)
    BY UidGrows, FlagsGrow, HeldGrows DEF ListInv, Held, FileHeld, Listed, Unique
  <2> QED
    BY <2>1 DEF Readable
<1>3. ASSUME Listed(editor'.list, n, free), \A r \in Raws : Good(raws'[r]) PROVE RawHeld(n, free)'
  BY <1>3 DEF RawHeld, Listed, Unique
<1>4. ASSUME NEW r \in Raws, NEW x, raws' = [raws EXCEPT ![r] = x], Good(x), Listed(editor'.list, n, free)
      PROVE  RawHeld(n, free)'
  <2>1. \A q \in Raws : raws'[q] = raws[q] \/ raws'[q] = x
    BY <1>4 DEF RawsInv
  <2> QED
    BY <1>1, <1>3, <1>4, <2>1
<1>5. ASSUME UNCHANGED rawVars PROVE RawHeld(n, free)'
  BY <1>1, <1>3, <1>5 DEF rawVars
<1>6. /\ Good(Idle) /\ Good([at |-> "loading"]) /\ Good([at |-> "saving"]) /\ Good([at |-> "asked"])
      /\ \A list : Listed(list, n, free) =>
            /\ Good([at |-> "read", list |-> list])
            /\ \A ok : Good([at |-> "loaded", text |-> [list |-> list, ok |-> ok]])
  BY DEF Idle
<1> HIDE DEF Good
<1>7. CASE SelectTab
  <2>1. UNCHANGED editor /\ (UNCHANGED raws \/ \E r \in Raws : raws' = [raws EXCEPT ![r] = [at |-> "loading"]])
    BY <1>7 DEF SelectTab
  <2> QED
    BY <1>1, <1>4, <1>5, <1>6, <2>1 DEF rawVars
<1>8. CASE SaveRaw
  <2>1. PICK r \in Raws, list \in Edits(editor.list) :
           /\ raws' = [raws EXCEPT ![r] = [at |-> "saving"]]
           /\ editor' = [list |-> list, ok |-> TRUE]
           /\ doubled' = (doubled \/ ~Unique(list))
    BY <1>8 DEF SaveRaw
  <2>2. Listed(list, n, free)
    BY <1>1, <2>1, EditsAreLists DEF Listed
  <2> QED
    BY <1>4, <1>6, <2>1, <2>2
<1>9. ASSUME NEW r \in Raws, EditorRead(r) PROVE RawHeld(n, free)'
  <2>1. PICK text \in {NoText, IF file = "whole" THEN [list |-> conf, ok |-> TRUE] ELSE NoText} :
           raws' = [raws EXCEPT ![r] = [at |-> "loaded", text |-> text]]
    BY <1>9 DEF EditorRead
  <2>2. Good([at |-> "loaded", text |-> text])
    BY <1>2, <1>6, <2>1 DEF NoText
  <2> QED
    BY <1>1, <1>4, <1>9, <2>1, <2>2 DEF EditorRead
<1>10. ASSUME NEW r \in Raws, EditorShown(r) PROVE RawHeld(n, free)'
  <2>1. Listed(raws[r].text.list, n, free)
    BY <1>1, <1>10 DEF EditorShown, Good
  <2> QED
    BY <1>4, <1>6, <1>10, <2>1 DEF EditorShown
<1>11. ASSUME NEW r \in Raws, RawRead(r) \/ RawTasks(r) \/ RawFails(r) PROVE RawHeld(n, free)'
  BY <1>1, <1>2, <1>4, <1>6, <1>11 DEF RawRead, RawTasks, RawFails
<1>12. ASSUME NEW s, TeeWrites(s) PROVE RawHeld(n, free)'
  <2>1. \A r \in Raws : raws'[r] = raws[r] \/ raws'[r] = [at |-> "asked"]
    BY <1>12 DEF TeeWrites
  <2>2. UNCHANGED editor
    BY <1>12 DEF TeeWrites
  <2> QED
    BY <1>1, <1>3, <1>6, <2>1, <2>2
<1>13. CASE ~(SelectTab \/ SaveRaw \/ (\E s : TeeWrites(s))
              \/ \E r \in Raws : EditorRead(r) \/ EditorShown(r) \/ RawRead(r) \/ RawTasks(r) \/ RawFails(r))
  <2>1. UNCHANGED rawVars
    BY <1>13 DEF Next, Page, User, vars, Stir, AutoRefresh, ClickRefresh, RefreshRead, RefreshFails,
       RefreshTasks, RefreshEnds, Redraw, AddNewTask, CloseForm, EditTask, ToggleTask, SaveEdit, SaveNew, Import,
       Change, DeleteTask, DeleteCancelled, DeleteConfirmed, StopReturns, Cleared, TeeOpens, WriterReads,
       WriterRenames
  <2> QED
    BY <1>5, <2>1
<1> QED
  BY <1>7, <1>8, <1>9, <1>10, <1>11, <1>12, <1>13

LEMMA StepRefreshHeld ==
    ASSUME ListInv, NEW n \in Nat, n = lastUid', NEW free \in BOOLEAN, free = doubled', [Next]_vars
    PROVE  RefreshHeld(n, free)'
<1>1. Held(n, free)
  BY UidGrows, FlagsGrow, HeldGrows DEF ListInv
<1>2. Listed(Readable, n, free)
  <2>1. Listed(<<>>, n, free)
    BY DEF Listed, Unique
  <2> QED
    BY <1>1, <2>1 DEF Held, FileHeld, Readable
<1>3. \A manual : /\ [at |-> "asked", manual |-> manual].at = "asked"
                  /\ [at |-> "loaded", manual |-> manual].at = "loaded"
  OBVIOUS
<1>4. ASSUME refresh'.at \in {"asked", "loaded"}, refreshing' = TRUE PROVE RefreshHeld(n, free)'
  BY <1>4 DEF RefreshHeld, Idle
<1>5. CASE AutoRefresh \/ ClickRefresh
  BY <1>3, <1>4, <1>5 DEF AutoRefresh, ClickRefresh
<1>6. CASE RefreshFails \/ RefreshTasks
  <2>1. refreshing = TRUE
    BY <1>1, <1>6 DEF Held, RefreshHeld, RefreshFails, RefreshTasks, Idle
  <2> QED
    BY <1>3, <1>4, <1>6, <2>1 DEF RefreshFails, RefreshTasks
<1>7. CASE RefreshRead
  <2>1. refreshing' = TRUE
    BY <1>1, <1>7 DEF Held, RefreshHeld, RefreshRead, Idle
  <2>2. refresh'.at = "read" /\ refresh'.list = Readable
    BY <1>7 DEF RefreshRead
  <2>3. refresh' # Idle /\ Listed(refresh'.list, n, free)
    BY <1>2, <2>2 DEF Idle
  <2> QED
    BY <2>1, <2>2, <2>3 DEF RefreshHeld, Listed, Unique
<1>8. CASE RefreshEnds
  BY <1>8 DEF RefreshEnds, RefreshHeld, Idle
<1>9. CASE ~(AutoRefresh \/ ClickRefresh \/ RefreshFails \/ RefreshTasks \/ RefreshRead \/ RefreshEnds)
  <2>1. UNCHANGED refreshVars
    BY <1>9 DEF Next, Page, User, vars, SelectTab, Redraw, AddNewTask, CloseForm, EditTask, ToggleTask, SaveEdit,
       SaveNew, Import, Change, SaveRaw, EditorRead, EditorShown, RawRead, RawTasks, RawFails, Stir, DeleteTask,
       DeleteCancelled, DeleteConfirmed, StopReturns, Cleared, TeeOpens, TeeWrites, WriterReads, WriterRenames
  <2> QED
    BY <1>1, <2>1 DEF refreshVars, Held, RefreshHeld, Listed, Unique
<1> QED
  BY <1>5, <1>6, <1>7, <1>8, <1>9

LEMMA StepFormHeld ==
    ASSUME ListInv, NEW n \in Nat, n = lastUid', NEW free \in BOOLEAN, free = doubled', [Next]_vars
    PROVE  FormHeld(n)'
<1>1. Held(n, free)
  BY UidGrows, FlagsGrow, HeldGrows DEF ListInv
<1>2. ASSUME NEW i \in 1..MaxUid, EditTask(i) PROVE FormHeld(n)'
  <2>1. form' = [index |-> i, task |-> tasks[i]] /\ i \in DOMAIN tasks
    BY <1>2 DEF EditTask
  <2>2. tasks[i] \in Tasks(n)
    BY <1>1, <2>1 DEF Held, PageHeld, Listed
  <2> QED
    BY <2>1, <2>2 DEF FormHeld
<1>3. CASE AddNewTask \/ CloseForm \/ SaveEdit \/ SaveNew
  BY <1>3 DEF AddNewTask, CloseForm, SaveEdit, SaveNew, FormHeld
<1>4. CASE ~((\E i \in 1..MaxUid : EditTask(i)) \/ AddNewTask \/ CloseForm \/ SaveEdit \/ SaveNew)
  <2>1. UNCHANGED form
    BY <1>4 DEF Next, Page, User, vars, AutoRefresh, ClickRefresh, RefreshRead, RefreshFails, RefreshTasks,
       RefreshEnds, Redraw, SelectTab, ToggleTask, Import, SaveRaw, EditorRead, EditorShown, RawRead, RawTasks,
       RawFails, Stir, DeleteTask,
       DeleteCancelled, DeleteConfirmed, StopReturns, Cleared, TeeOpens, TeeWrites, WriterReads, WriterRenames
  <2> QED
    BY <1>1, <2>1 DEF Held, FormHeld, Tasks
<1> QED
  BY <1>2, <1>3, <1>4

\* The ids that deletions hold were ids of tasks.
LEMMA StepDeletesHeld == ListInv /\ WaitInv /\ DeleteInv /\ DeletesHeld /\ [Next]_vars => DeletesHeld'
<1> SUFFICES ASSUME ListInv, WaitInv, DeleteInv, DeletesHeld, [Next]_vars PROVE DeletesHeld'
  OBVIOUS
<1> DEFINE Good(x) == x = Idle \/ (x.at \in {"confirm", "stopping", "saving", "clearing"} /\ x.id \in 0..MaxUid)
<1>1. ASSUME NEW d \in Deletes, NEW x, deletes' = [deletes EXCEPT ![d] = x], Good(x),
             confirmed' \subseteq 0..MaxUid, 0 \notin cleared', UNCHANGED tab
      PROVE  DeletesHeld'
  <2>1. \A e \in Deletes : deletes'[e] = deletes[e] \/ deletes'[e] = x
    BY <1>1 DEF DeleteInv
  <2> QED
    BY <1>1, <2>1 DEF DeletesHeld
<1>2. ASSUME NEW d \in Deletes, NEW i, DeleteTask(d, i) PROVE DeletesHeld'
  <2> DEFINE x == [at |-> "confirm", id |-> tasks[i].id, index |-> i]
  <2>1. i \in DOMAIN tasks /\ deletes' = [deletes EXCEPT ![d] = x] /\ UNCHANGED <<confirmed, cleared, tab>>
    BY <1>2 DEF DeleteTask, deskVars, history
  <2>2. tasks[i].id \in 0..lastUid
    <3>1. lastUid \in Nat /\ tasks \in Seq(Tasks(lastUid))
      BY BoundsAssumption DEF ListInv, Held, PageHeld, Listed
    <3> QED
      BY <2>1, <3>1, ElementTypes
  <2>3. x.at = "confirm" /\ x.id \in 0..MaxUid
    BY <2>2, BoundsAssumption DEF ListInv
  <2> HIDE DEF x
  <2> QED
    BY <1>1, <2>1, <2>3 DEF DeletesHeld
<1>3. ASSUME NEW d \in Deletes, DeleteCancelled(d) \/ Cleared(d) PROVE DeletesHeld'
  BY <1>1, <1>3 DEF DeleteCancelled, Cleared, deskVars, history, DeletesHeld
<1>4. ASSUME NEW d \in Deletes, DeleteConfirmed(d) PROVE DeletesHeld'
  <2>1. deletes[d].id \in 0..MaxUid
    BY <1>4 DEF DeleteConfirmed, DeletesHeld, Idle
  <2>2. confirmed' \subseteq 0..MaxUid /\ 0 \notin cleared' /\ UNCHANGED tab
    BY <1>4, <2>1 DEF DeleteConfirmed, DeletesHeld, deskVars
  <2>3. PICK x : /\ deletes' = [deletes EXCEPT ![d] = x]
                 /\ \/ x = Idle
                    \/ \E i : x = [at |-> "stopping", id |-> deletes[d].id, index |-> i]
                    \/ \E i : x = [at |-> "saving", id |-> deletes[d].id, index |-> i]
    BY <1>4 DEF DeleteConfirmed
  <2>4. Good(x)
    BY <2>1, <2>3
  <2> QED
    BY <1>1, <2>2, <2>3, <2>4
<1>5. ASSUME NEW d \in Deletes, StopReturns(d) PROVE DeletesHeld'
  <2> DEFINE x == [deletes[d] EXCEPT !.at = "saving"]
  <2>1. IsDelete(deletes[d]) /\ deletes[d].id \in 0..MaxUid
    BY <1>5 DEF StopReturns, DeleteInv, DeletesHeld, Idle
  <2>2. x.at = "saving" /\ x.id \in 0..MaxUid
    BY <2>1, MovedDelete
  <2>3. deletes' = [deletes EXCEPT ![d] = x] /\ UNCHANGED <<confirmed, cleared, tab>>
    BY <1>5 DEF StopReturns, deskVars, history
  <2> HIDE DEF x
  <2> QED
    BY <1>1, <2>2, <2>3 DEF DeletesHeld
<1>6. ASSUME NEW s, TeeWrites(s) PROVE DeletesHeld'
  <2>1. ASSUME NEW d \in Deletes PROVE Good(deletes'[d])
    <3>1. CASE deletes'[d] = deletes[d]
      BY <3>1 DEF DeletesHeld
    <3>2. CASE deletes[d].at = "saving" /\ deletes'[d] = [deletes[d] EXCEPT !.at = "clearing"]
      <4>1. IsDelete(deletes[d]) /\ deletes[d].id \in 0..MaxUid
        BY <3>2 DEF DeleteInv, DeletesHeld, Idle
      <4> QED
        BY <3>2, <4>1, MovedDelete
    <3> QED
      BY <1>6, <3>1, <3>2, WriteEnds
  <2>2. UNCHANGED <<confirmed, cleared, tab>>
    BY <1>6 DEF TeeWrites, deskVars, history
  <2> QED
    BY <2>1, <2>2 DEF DeletesHeld
<1>7. ASSUME UNCHANGED <<deletes, confirmed, cleared>>, tab' \in {"tasks", "editor"} PROVE DeletesHeld'
  BY <1>7 DEF DeletesHeld
<1>8. CASE SelectTab
  BY <1>7, <1>8 DEF SelectTab, history
<1>9. CASE ~((\E d \in Deletes : (\E i : DeleteTask(d, i)) \/ DeleteCancelled(d) \/ DeleteConfirmed(d)
                                \/ StopReturns(d) \/ Cleared(d))
            \/ SelectTab \/ \E s : TeeWrites(s))
  <2>1. UNCHANGED <<deletes, confirmed, cleared, tab>>
    BY <1>9 DEF Next, Page, User, vars, AutoRefresh, ClickRefresh, RefreshRead, RefreshFails, RefreshTasks,
       RefreshEnds, Redraw, AddNewTask, CloseForm, EditTask, WriterReads, ToggleTask, SaveEdit, SaveNew,
       Import, Change, SaveRaw, EditorRead, EditorShown, RawRead, RawTasks, RawFails, Stir, TeeOpens, WriterRenames,
       deskVars, history
  <2> QED
    BY <1>7, <2>1 DEF DeletesHeld
<1> QED
  BY <1>2, <1>3, <1>4, <1>5, <1>6, <1>8, <1>9

LEMMA StepLists == ListInv /\ WaitInv /\ RawsInv /\ [Next]_vars => ListInv'
<1> SUFFICES ASSUME ListInv, WaitInv, RawsInv, [Next]_vars PROVE ListInv'
  OBVIOUS
<1>1. PICK n \in Nat : n = lastUid'
  BY UidGrows, BoundsAssumption DEF ListInv
<1>2. PICK free \in BOOLEAN : free = doubled'
  BY FlagsGrow DEF ListInv
<1>3. Held(n, free)'
  BY <1>1, <1>2, StepPageHeld, StepSavesHeld, StepFileHeld, StepRawHeld, StepRefreshHeld, StepFormHeld DEF Held
<1>4. lastUid' \in 0..MaxUid /\ doubled' \in BOOLEAN /\ busy' \in BOOLEAN
  BY UidGrows, FlagsGrow DEF ListInv
<1> QED
  BY <1>1, <1>2, <1>3, <1>4 DEF ListInv

LEMMA InitLists == Init => ListInv /\ DeletesHeld
<1> SUFFICES ASSUME Init PROVE ListInv /\ DeletesHeld
  OBVIOUS
<1>0. MaxUid \in Nat /\ MaxSaves \in Nat
  BY BoundsAssumption
<1>1. /\ InitialTasks \in Seq(Tasks(MaxUid)) /\ Unique(InitialTasks)
      /\ \A i \in DOMAIN InitialTasks :
            InitialTasks[i].uid = InitialTasks[i].id /\ InitialTasks[i].id \in 1..MaxUid
  <2> DEFINE First == [id : 1..MaxUid, uid : 1..MaxUid, on : BOOLEAN, seq : Nat]
  <2>1. InitialTasks \in Seq(First)
    BY InitialAssumption
  <2>2. First \subseteq Tasks(MaxUid) /\ \A t \in First : t.id \in 1..MaxUid
    BY <1>0 DEF Tasks
  <2>3. \A i, j \in DOMAIN InitialTasks :
           /\ InitialTasks[i].uid = InitialTasks[i].id
           /\ InitialTasks[i].id = InitialTasks[j].id => i = j
    BY InitialAssumption
  <2> HIDE DEF First
  <2>4. InitialTasks \in Seq(Tasks(MaxUid)) /\ \A i \in DOMAIN InitialTasks : InitialTasks[i] \in First
    BY <2>1, <2>2
  <2> QED
    BY <2>2, <2>3, <2>4 DEF Unique
<1> DEFINE n == NextId(InitialTasks) - 1
<1>2. n \in 0..MaxUid /\ \A i \in 1..Len(InitialTasks) : InitialTasks[i].id <= n
  <2>1. /\ NextId(InitialTasks) \in 1..MaxUid + 1
        /\ \A i \in 1..Len(InitialTasks) : InitialTasks[i].id < NextId(InitialTasks)
    BY <1>0, <1>1, NextIdFresh
  <2>2. \A i \in 1..Len(InitialTasks) : InitialTasks[i].id \in 1..MaxUid
    BY <1>1, LenProperties
  <2> QED
    BY <1>0, <2>1, <2>2
<1>3. lastUid = n /\ doubled = FALSE /\ busy = FALSE
  BY DEF Init
<1> HIDE DEF n
<1>4. Listed(InitialTasks, n, FALSE)
  <2>1. DOMAIN InitialTasks = 1..Len(InitialTasks) /\ Len(InitialTasks) \in Nat
    BY <1>1, LenProperties
  <2>2. ASSUME NEW i \in 1..Len(InitialTasks) PROVE InitialTasks[i] \in Tasks(n)
    <3>1. InitialTasks[i] \in Tasks(MaxUid) /\ InitialTasks[i].uid = InitialTasks[i].id
          /\ InitialTasks[i].id <= n /\ InitialTasks[i].id \in 1..MaxUid
      BY <1>1, <1>2, <2>1
    <3> QED
      BY <1>0, <1>2, <3>1 DEF Tasks
  <2>3. InitialTasks \in Seq(Tasks(n))
    BY <1>1, <2>1, <2>2
  <2> QED
    BY <1>1, <2>3 DEF Listed
<1>5. PageHeld(n, FALSE) /\ FileHeld(n, FALSE)
  BY <1>4 DEF Init, PageHeld, FileHeld
<1>6. SavesHeld(n, FALSE)
  BY <1>0 DEF Init, SavesHeld
<1>7. RawHeld(n, FALSE) /\ RefreshHeld(n, FALSE)
  <2>1. editor.list = <<>> /\ <<>> \in Seq(Tasks(n)) /\ Unique(<<>>)
    BY DEF Init, NoText, Unique
  <2>2. \A r \in Raws : raws[r].at = "idle"
    BY DEF Init, Idle
  <2>3. refresh = Idle /\ refreshing = FALSE /\ Idle.at = "idle"
    BY DEF Init, Idle
  <2> QED
    BY <2>1, <2>2, <2>3 DEF RawHeld, RefreshHeld, Listed
<1>8. FormHeld(n) /\ DeletesHeld
  BY DEF Init, FormHeld, DeletesHeld, NoForm
<1> QED
  BY <1>2, <1>3, <1>5, <1>6, <1>7, <1>8 DEF ListInv, Held

-----------------------------------------------------------------------------
Inv == WaitInv /\ RawsInv /\ DeleteInv /\ ListInv /\ DeletesHeld

LEMMA InvHolds == Spec => []Inv
<1>1. Inv /\ [Next]_vars => Inv'
  BY StepWait, StepRaws, StepDelete, StepLists, StepDeletesHeld DEF Inv
<1>2. Init => Inv
  BY InitInv, InitLists DEF Inv
<1> QED
  BY <1>1, <1>2, PTL DEF Spec

\* Whoever writes and whatever crosses, every list is one of tasks, and what is
\* under way is in one of the places of the code (app.js:507-613, 1438-2005).
THEOREM TaskPageTypeCorrect == Spec => []TypeOK
<1>1. ASSUME Inv PROVE TypeOK
  <2>1. lastUid \in 0..MaxUid /\ MaxUid \in Nat /\ Held(lastUid, doubled)
    BY <1>1, BoundsAssumption DEF Inv, ListInv
  <2>2. ASSUME NEW t \in Tasks(lastUid) PROVE IsTask(t)
    BY <2>1, <2>2 DEF Tasks, IsTask
  <2>3. \A list : Listed(list, lastUid, doubled) => \A i \in DOMAIN list : IsTask(list[i])
    BY <2>2 DEF Listed
  <2>4. \A list \in {conf, tasks, rows} : \A i \in DOMAIN list : IsTask(list[i])
    BY <2>1, <2>3 DEF Held, PageHeld, FileHeld
  <2>5. \A i \in DOMAIN editor.list : IsTask(editor.list[i])
    BY <2>1, <2>3 DEF Held, RawHeld
  <2>6. /\ file \in {"whole", "empty", "torn"} /\ busy \in BOOLEAN /\ doubled \in BOOLEAN
        /\ refreshing \in BOOLEAN
        /\ refresh.at \in {"idle", "asked", "read", "loaded"} /\ (refreshing <=> refresh # Idle)
        /\ \A r \in Raws : raws[r].at \in {"idle", "loading", "loaded", "saving", "asked", "read"}
        /\ Len(saves) <= MaxSaves
    BY <1>1, <2>1 DEF Inv, ListInv, Held, FileHeld, RefreshHeld, RawHeld, SavesHeld, Idle
  <2>7. form.index \in -1..MaxUid
    BY <2>1 DEF Held, FormHeld, NoForm
  <2>8. \A w \in Writers : writer[w].at \in {"idle", "read"}
    BY <2>1 DEF Held, FileHeld, Idle
  <2>9. /\ \A d \in Deletes : deletes[d].at \in {"idle", "confirm", "stopping", "saving", "clearing"}
        /\ confirmed \subseteq 0..MaxUid /\ cleared \subseteq 1..MaxUid
        /\ tab \in {"tasks", "editor"}
    BY <1>1 DEF Inv, DeletesHeld, DeleteInv, Idle
  <2> QED
    BY <2>4, <2>6, <2>7, <2>8, <2>9, <2>5 DEF TypeOK
<1> QED
  BY <1>1, InvHolds, PTL

\* Unless the user writes an id twice in the raw editor, every copy that is
\* written back, however old, has its ids apart, and a new id is chosen from the
\* list that it joins (app.js:1670-1672, 1901-1906, 1957-1977; task.go:178-195).
THEOREM IdsStayUnique == Spec => []IdsUnique
<1>1. Inv => IdsUnique
  BY DEF Inv, ListInv, Held, PageHeld, FileHeld, Listed, IdsUnique
<1> QED
  BY <1>1, InvHolds, PTL

\* However often the list is replaced while a deletion waits, the history it
\* clears is that of the task the user confirmed (app.js:1467-1478, 1498-1504).
THEOREM ClearingIsConfirmed == Spec => []ClearsConfirmed
<1>1. Inv => ClearsConfirmed
  BY DEF Inv, DeleteInv, ClearsConfirmed
<1> QED
  BY <1>1, InvHolds, PTL

=============================================================================
