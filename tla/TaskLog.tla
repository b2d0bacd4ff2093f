------------------------------- MODULE TaskLog -------------------------------
(***************************************************************************)
(* The log files of one task (internal/store/log.go): the live file         *)
(* task_N.json, its rotated segments task_N.json.1, .2, ... and the          *)
(* processes that work on them.  The daemon appends an entry after every     *)
(* attempt and applies the retention rules; the CLI appends manual runs,     *)
(* prunes, clears and lists.  Store.logMu serialises the goroutines of one   *)
(* process, so a process is at one operation at a time; nothing serialises   *)
(* processes.  Every system call on the files is a step of its own, and a    *)
(* process may die between any two of them.                                  *)
(*                                                                         *)
(* An entry is a number, in the order of writing, and one line long; the     *)
(* size of a file is its number of lines.  A write that fails half way       *)
(* leaves a line without its end, and the next entry is appended to that     *)
(* line and lost with it.                                                    *)
(***************************************************************************)
EXTENDS Integers, Sequences, SequencesExt, FiniteSetsExt

CONSTANTS Proc,       \* processes
          Ops,        \* [Proc -> SUBSET {"append", "cleanup", "prune", "clear", "list"}]
          Failed,     \* the entries of failed runs, which prune may select
          Second,     \* [Entry -> Nat]: created_at, in seconds
          MaxLines,   \* logMaxBytes
          Counts,     \* logBackupCount: the values the settings take
          Keep,       \* log_max_entries and the --keep values
          Legacy,     \* whether the live file may be a JSON array at first
          MaxEntries, MaxCrashes, MaxTorn   \* bounds of the instance

Entry == 1..MaxEntries
Torn == 0     \* a line without its end, the last one of its file
Junk == -1    \* the same with an entry appended to it

ASSUME LogAssumption ==
    /\ {MaxLines, MaxEntries} \cup Counts \cup Keep \subseteq Nat \ {0}
    /\ {MaxCrashes, MaxTorn} \subseteq Nat
    /\ IsFiniteSet(Counts) /\ Counts # {} /\ Failed \subseteq Entry /\ Legacy \in BOOLEAN
    /\ Second \in [Entry -> Nat]
    /\ IsFiniteSet(Proc) /\ Ops \in [Proc -> SUBSET {"append", "cleanup", "prune", "clear", "list"}]

Name == 0..Max(Counts)     \* 0 is the live file, 1 the newest segment
Gone == -1

VARIABLES
    files,      \* the files that exist, with their lines
    legacy,     \* the live file is a JSON array
    proc,       \* what each process is at
    fd,         \* the file it has open: it follows a rename, and may be Gone
    last,       \* the latest entry written
    bounds,     \* crashes and torn writes so far
    expected,   \* history: what the log should hold
    lost,       \* history: what a rotation dropped while the set was not full
    tainted,    \* history: a promise was impossible to keep
    mixed       \* history: listings that met a rewrite

vars == <<files, legacy, proc, fd, last, bounds, expected, lost, tainted, mixed>>

Idle == [op |-> "none", pc |-> "idle", todo |-> {}, copy |-> <<>>, seg |-> 0]

Lines(i) == IF i \in DOMAIN files THEN files[i] ELSE <<>>

\* The elements of a sequence that are in a set.
Chosen(seq, set) ==
    LET upTo[n \in 0..Len(seq)] ==
            IF n = 0 THEN <<>> ELSE IF seq[n] \in set THEN Append(upTo[n - 1], seq[n]) ELSE upTo[n - 1]
    IN  upTo[Len(seq)]

\* readTaskLog: oldest segment first, the live file last, valid entries only.
Valid(lines) == Chosen(lines, Entry)
Content ==
    LET oldest[n \in 0..Max(Counts) + 1] ==
            IF n = 0 THEN <<>> ELSE oldest[n - 1] \o Valid(Lines(Max(Counts) + 1 - n))
    IN  oldest[Max(Counts) + 1]

Without(entries, gone) == Chosen(entries, Range(entries) \ gone)
Newest(entries, n) ==
    IF Len(entries) <= n THEN entries ELSE SubSeq(entries, Len(entries) - n + 1, Len(entries))

\* The retention rules of a task: by age, by number, or both.
Young(logs, since) == Chosen(logs, {e \in Entry : Second[e] >= since})
Ages == {Second[e] + 1 : e \in Entry}

Retained(logs) ==
    LET young == {Young(logs, since) : since \in Ages}
    IN  young \cup {Newest(kept, n) : kept \in young \cup {logs}, n \in Keep}

\* What Prune keeps: if there are more than n matches, the first n of them in a
\* stable sort by time, the latest second first, survive.
Pruned(logs, match, n) ==
    LET matched == {i \in DOMAIN logs : logs[i] \in match}
        before(i) == {j \in matched : \/ Second[logs[j]] > Second[logs[i]]
                                      \/ Second[logs[j]] = Second[logs[i]] /\ j < i}
        saved == IF n > 0 /\ Cardinality(matched) > n
                 THEN {logs[i] : i \in {k \in matched : Cardinality(before(k)) < n}} ELSE {}
    IN  Without(logs, match \ saved)

Init ==
    /\ legacy \in {FALSE, Legacy}
    /\ IF legacy THEN files = [k \in {0} |-> <<1>>] /\ last = 1 /\ expected = <<1>>
       ELSE files = <<>> /\ last = 0 /\ expected = <<>>
    /\ proc = [p \in Proc |-> Idle] /\ fd = [p \in Proc |-> Gone]
    /\ bounds = [crashes |-> 0, torn |-> 0]
    /\ lost = {} /\ tainted = FALSE /\ mixed = {}

-----------------------------------------------------------------------------
(* Files *)

\* A file with these lines, new or in the place of the one with its name.
FileWith(i, lines) == [k \in DOMAIN files \cup {i} |-> IF k = i THEN lines ELSE files[k]]

RemoveFile(i) ==
    /\ files' = [k \in DOMAIN files \ {i} |-> files[k]]
    /\ fd' = [q \in Proc |-> IF fd[q] = i THEN Gone ELSE fd[q]]

RenameFile(i, j) ==
    IF i \in DOMAIN files
    THEN /\ files' = [k \in (DOMAIN files \ {i}) \cup {j} |-> IF k = j THEN files[i] ELSE files[k]]
         /\ fd' = [q \in Proc |-> IF fd[q] = j THEN Gone ELSE IF fd[q] = i THEN j ELSE fd[q]]
    ELSE UNCHANGED <<files, fd>>

\* taskLogSegments: the segments of the directory and the live file.
Segments == DOMAIN files \cup {0}

AtPc(p, label) == proc[p].pc = label
Mutating(p) == proc[p].op \notin {"none", "list"}

-----------------------------------------------------------------------------
(* Seeded faults: variants of the definitions below with a plausible mistake,
   to show that the properties notice it. *)

\* The loop that shifts the segments stops one too early.
ShiftOffByOne(p) ==
    LET i == proc[p].seg IN
    /\ AtPc(p, "shift")
    /\ IF i = 1 THEN UNCHANGED <<files, fd>> ELSE RenameFile(i, i + 1)
    /\ proc' = [proc EXCEPT ![p].seg = IF i > 0 THEN i - 1 ELSE 0,
                            ![p].pc = IF i > 0 THEN "shift" ELSE "open"]
    /\ UNCHANGED <<legacy, last, bounds, expected, lost, mixed>>

\* The oldest segment is shifted like the others instead of being dropped.
OldestKept(p) ==
    /\ AtPc(p, "oldest")
    /\ proc' = [proc EXCEPT ![p].pc = "shift"]
    /\ UNCHANGED <<files, fd, expected, lost, legacy, last, bounds, mixed>>

\* The size is compared without the line to come.
TooFullLate == Len(Lines(0)) > MaxLines

\* The live file is read before the segments.
NextLive(p) == Min(proc[p].todo)

-----------------------------------------------------------------------------
(* Operations begin and end *)

\* The live file may be too full for one more line.
TooFull == Len(Lines(0)) > 0 /\ Len(Lines(0)) + 1 > MaxLines

Begin(p, op, rec) ==
    /\ proc[p].op = "none" /\ op \in Ops[p]
    /\ proc' = [proc EXCEPT ![p] = [rec EXCEPT !.op = op]]
    /\ UNCHANGED <<files, legacy, fd, bounds>>

Appending == {q \in Proc : proc[q].op = "append"}
Reading == [Idle EXCEPT !.pc = "read", !.todo = Segments]

\* AppendLog: an old array file is rewritten first.
BeginAppend(p) ==
    /\ last + Cardinality(Appending) < MaxEntries
    /\ Begin(p, "append", IF legacy THEN Reading ELSE [Idle EXCEPT !.pc = "size"])
    /\ UNCHANGED <<last, expected, lost, mixed>>

\* CleanupLogs, Prune and ListLogs read the history first.
BeginRead(p) ==
    /\ \E op \in {"cleanup", "prune", "list"} : Begin(p, op, Reading)
    /\ UNCHANGED <<last, expected, lost, mixed>>

\* ClearLogs removes without reading.
BeginClear(p) ==
    /\ Begin(p, "clear", [Idle EXCEPT !.pc = "remove", !.todo = Segments])
    /\ expected' = <<>>
    /\ UNCHANGED <<last, lost, mixed>>

Done(p) == proc' = [proc EXCEPT ![p] = Idle]

-----------------------------------------------------------------------------
(* Reading and rewriting *)

NextSegment(p) == Max(proc[p].todo)

Read(p) ==
    /\ AtPc(p, "read")
    /\ LET i == NextSegment(p) IN
       proc' = [proc EXCEPT ![p].copy = @ \o Valid(Lines(i)),
                            ![p].todo = @ \ {i},
                            ![p].pc = IF proc[p].todo = {i} THEN "decide" ELSE "read"]
    /\ UNCHANGED <<files, legacy, fd, last, bounds, expected, lost, mixed>>

\* What the operation wants to keep of what it read.
Wanted(p, logs) ==
    CASE proc[p].op = "append"  -> {logs}
      [] proc[p].op = "cleanup" -> Retained(logs)
      [] proc[p].op = "prune"   -> {Pruned(logs, match, n) : match \in {Failed, Entry}, n \in Keep \cup {0}}
      [] OTHER -> {}

\* Nothing is rewritten when nothing is to go, unless the format has to change.
Decide(p) ==
    /\ AtPc(p, "decide")
    /\ \E kept \in Wanted(p, proc[p].copy) :
           IF kept = proc[p].copy /\ proc[p].op # "append"
           THEN Done(p) /\ UNCHANGED expected
           ELSE /\ proc' = [proc EXCEPT ![p].copy = kept, ![p].todo = Segments, ![p].pc = "remove"]
                /\ expected' = Without(expected, Range(proc[p].copy) \ Range(kept))
    /\ UNCHANGED <<files, legacy, fd, last, bounds, lost, mixed>>

\* A listing is complete.
Listed(p) ==
    /\ AtPc(p, "decide") /\ proc[p].op = "list"
    /\ Done(p)
    /\ mixed' = mixed \ {p}
    /\ UNCHANGED <<files, legacy, fd, last, bounds, expected, lost>>

\* writeTaskLogLocked and ClearLogs: all files go, the oldest first,
RemoveOne(p) ==
    /\ AtPc(p, "remove")
    /\ LET i == NextSegment(p) IN
       /\ RemoveFile(i)
       /\ legacy' = (legacy /\ i # 0)
       /\ IF proc[p].todo # {i} THEN proc' = [proc EXCEPT ![p].todo = @ \ {i}]
          ELSE IF proc[p].copy # <<>>
          THEN proc' = [proc EXCEPT ![p].todo = {}, ![p].pc = "rewrite"]
          ELSE IF proc[p].op = "append"
          THEN proc' = [proc EXCEPT ![p].todo = {}, ![p].pc = "size"]
          ELSE Done(p)
    /\ mixed' = mixed \cup {q \in Proc : proc[q].op = "list"}
    /\ UNCHANGED <<last, bounds, expected, lost>>

\* then what is kept is renamed into place.
Rewrite(p) ==
    /\ AtPc(p, "rewrite")
    /\ files' = FileWith(0, proc[p].copy)
    /\ fd' = [q \in Proc |-> IF fd[q] = 0 THEN Gone ELSE fd[q]]
    /\ IF proc[p].op = "append"
       THEN proc' = [proc EXCEPT ![p].copy = <<>>, ![p].pc = "size"]
       ELSE Done(p)
    /\ mixed' = mixed \cup {q \in Proc : proc[q].op = "list"}
    /\ UNCHANGED <<legacy, last, bounds, expected, lost>>

-----------------------------------------------------------------------------
(* Appending *)

\* The settings are read on every append, so the count may have changed.
Size(p) ==
    /\ AtPc(p, "size")
    /\ IF TooFull
       THEN \E count \in Counts : proc' = [proc EXCEPT ![p].seg = count, ![p].pc = "oldest"]
       ELSE proc' = [proc EXCEPT ![p].pc = "open"]
    /\ UNCHANGED <<files, legacy, fd, last, bounds, expected, lost, mixed>>

\* rotateTaskLogLocked: the segment with the highest number goes, whether or not
\* the set is full,
Oldest(p) ==
    /\ AtPc(p, "oldest")
    /\ RemoveFile(proc[p].seg)
    /\ expected' = Without(expected, Range(Lines(proc[p].seg)))
    /\ lost' = lost \cup (IF 0..proc[p].seg \subseteq DOMAIN files THEN {} ELSE Range(Valid(Lines(proc[p].seg))))
    /\ proc' = [proc EXCEPT ![p].seg = @ - 1, ![p].pc = "shift"]
    /\ UNCHANGED <<legacy, last, bounds, mixed>>

\* the others move up by one, the live file last.
Shift(p) ==
    LET i == proc[p].seg IN
    /\ AtPc(p, "shift")
    /\ RenameFile(i, i + 1)
    /\ proc' = [proc EXCEPT ![p].seg = IF i > 0 THEN i - 1 ELSE 0,
                            ![p].pc = IF i > 0 THEN "shift" ELSE "open"]
    /\ UNCHANGED <<legacy, last, bounds, expected, lost, mixed>>

Open(p) ==
    /\ AtPc(p, "open")
    /\ files' = FileWith(0, Lines(0))
    /\ fd' = [fd EXCEPT ![p] = 0]
    /\ proc' = [proc EXCEPT ![p].pc = "write"]
    /\ UNCHANGED <<legacy, last, bounds, expected, lost, mixed>>

EndsTorn(lines) == lines # <<>> /\ Last(lines) = Torn

\* A line added to a file.
Extended(lines, line) ==
    IF ~EndsTorn(lines) THEN Append(lines, line)
    ELSE IF line = Torn THEN lines ELSE Append(Front(lines), Junk)

\* The write of a line to the open file, which may have no name any more.
Put(p, line) ==
    /\ AtPc(p, "write")
    /\ files' = IF fd[p] = Gone THEN files ELSE [files EXCEPT ![fd[p]] = Extended(@, line)]
    /\ fd' = [fd EXCEPT ![p] = Gone]
    /\ Done(p)
    /\ UNCHANGED <<legacy, lost, mixed>>

Write(p) ==
    /\ Put(p, last + 1)
    /\ last' = last + 1
    /\ expected' = IF fd[p] # Gone /\ EndsTorn(files[fd[p]]) THEN expected
                   ELSE Append(expected, last + 1)
    /\ UNCHANGED bounds

\* The disk is full, or the process dies in the middle of the write.
WriteFails(p) ==
    /\ bounds.torn < MaxTorn
    /\ Put(p, Torn)
    /\ bounds' = [bounds EXCEPT !.torn = @ + 1]
    /\ UNCHANGED <<last, expected>>

-----------------------------------------------------------------------------
\* A process dies.  Between the removal of the files and the rewrite the log
\* only exists in its memory.
Crash(p) ==
    /\ proc[p].op # "none" /\ bounds.crashes < MaxCrashes
    /\ bounds' = [bounds EXCEPT !.crashes = @ + 1]
    /\ Done(p)
    /\ fd' = [fd EXCEPT ![p] = Gone]
    /\ mixed' = mixed \ {p}
    /\ UNCHANGED <<files, legacy, last, expected, lost>>

\* Nothing protects a process that rotates or rewrites the files from another
\* one at work on them: entries are lost then.  Two processes that append without
\* rotating do no harm.
Exclusive(p) ==
    \/ proc[p].op \in {"cleanup", "prune", "clear"}
    \/ proc[p].pc \in {"read", "decide", "remove", "rewrite", "oldest", "shift"} /\ Mutating(p)

Conflict == \E p, q \in Proc : p # q /\ Exclusive(p) /\ Mutating(q)

Step(p) ==
    \/ BeginAppend(p) \/ BeginRead(p) \/ BeginClear(p)
    \/ Read(p) \/ Decide(p) \/ Listed(p) \/ RemoveOne(p) \/ Rewrite(p)
    \/ Size(p) \/ Oldest(p) \/ Shift(p) \/ Open(p) \/ Write(p) \/ WriteFails(p)

Next ==
    \E p \in Proc :
        \/ Step(p) /\ tainted' = (tainted \/ Conflict')
        \/ Crash(p) /\ tainted' = (tainted \/ AtPc(p, "remove") \/ AtPc(p, "rewrite"))

Spec == Init /\ [][Next]_vars

-----------------------------------------------------------------------------
(* Properties *)

\* Every variable has its type; a file is found torn at its end only.
TypeOK ==
    /\ DOMAIN files \subseteq Name /\ legacy \in BOOLEAN
    /\ \A i \in DOMAIN files :
           /\ Range(files[i]) \subseteq Entry \cup {Torn, Junk}
           /\ \A k \in 1..Len(files[i]) - 1 : files[i][k] # Torn
    /\ \A p \in Proc :
           /\ proc[p].pc \in {"idle", "read", "decide", "remove", "rewrite", "size", "oldest", "shift", "open", "write"}
           /\ proc[p].op \in {"none", "append", "cleanup", "prune", "clear", "list"}
           /\ proc[p].todo \subseteq Name /\ proc[p].seg \in Name
           /\ Range(proc[p].copy) \subseteq Entry
    /\ fd \in [Proc -> Name \cup {Gone}]
    /\ last \in 0..MaxEntries
    /\ Range(expected) \cup lost \subseteq Entry /\ tainted \in BOOLEAN /\ mixed \subseteq Proc

Rewriting == \E p \in Proc : proc[p].pc \in {"remove", "rewrite"}

\* As long as no process works on the log while another rotates or rewrites it,
\* and none dies in the middle of a rewrite, the log holds every entry that was
\* acknowledged and not dropped by retention, prune, clear or a rotation, once
\* and in order: also when two processes append, between the renames of a
\* rotation, after a crash there, with other segment counts and after a torn
\* write, which takes the next entry with it and no other.  And a rotation only
\* drops entries of a full set of segments, unless a crash in an earlier one left
\* a gap in the set: then the next rotation drops the highest segment although
\* another name is free, see RotationKeepsHistory (log.go:156-283, 478-543,
\* 629-713).
LogIntact ==
    ~tainted /\ ~Rewriting => Content = expected /\ (bounds.crashes = 0 => lost = {})

\* An append rotates first when the line would not fit, so an append makes the
\* live file exceed its limit only by one line of each other process that looked
\* at the size before (log.go:173-180).
LiveWithinBudget ==
    [][\A p \in Proc :
          ~tainted /\ AtPc(p, "write") /\ fd[p] = 0 /\ Len(Lines(0)') > Len(Lines(0))
              => Len(Lines(0)') <= MaxLines + Cardinality(Proc) - 1]_vars

\* A listing that runs beside an append and its rotation shows no entry twice
\* and none out of order: it reads from the old files to the new ones, which is
\* the way a rotation moves them (log.go:287-315, 409-439).
ListingInOrder ==
    \A p \in Proc \ mixed :
        ~tainted /\ proc[p].op = "list"
            => \A j, k \in 1..Len(proc[p].copy) : j < k => proc[p].copy[j] < proc[p].copy[k]

-----------------------------------------------------------------------------
(* Claims of tests, documents and help texts that the code does not keep *)

\* README.md:223, "rotation bounds the size of a single file without losing
\* history": granted that the oldest segment of a full set must go, a rotation
\* drops nothing as long as one of the backup names is free.
RotationKeepsHistory == lost = {}

\* prune_test.go:15, "Pruning must delete exactly the selected entries": also
\* when the daemon appends meanwhile.
OnlySelectedDeleted == ~Rewriting => Range(expected) \subseteq Range(Content)

\* main.go:808, "keep the newest n matching entries per task".
KeepsNewest ==
    \A p \in Proc : proc[p].op = "prune" /\ AtPc(p, "decide") =>
        \A match \in {Failed, Entry}, n \in Keep :
            LET matched == Chosen(proc[p].copy, match)
            IN  Range(Newest(matched, n)) \subseteq Range(Pruned(proc[p].copy, match, n))

=============================================================================
