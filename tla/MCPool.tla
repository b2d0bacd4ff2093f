------------------------------- MODULE MCPool -------------------------------
(* Instances of Pool for TLC.                                               *)
EXTENDS Pool, TLC

CONSTANTS t1, t2, r1, r2, r3

\* Three goroutines of one task, and a third one of another task.
OneTask == [r \in Run |-> t1]
TwoTasks == (r1 :> t1) @@ (r2 :> t1) @@ (r3 :> t2)

Def(conc, kill, retries, runs) ==
    [maxConcurrent |-> conc, killPrevious |-> kill, maxRetries |-> retries, maxRuns |-> runs]

\* The definitions a run explores, one after the other: a single slot with
\* kill_previous and max_runs; two slots with kill_previous; a single slot with
\* a retry and max_runs.  Zero and negative values exercise the fallbacks.
Definitions ==
    {[t \in Task |-> d] : d \in {Def(1, TRUE, -1, 2), Def(2, TRUE, 0, 0), Def(0, FALSE, 1, 2)}}

OneSlotKilling == {[t \in Task |-> Def(1, TRUE, 1, 0)]}

\* The goroutines of one task are interchangeable.
RunSymmetry == Permutations(Run)

=============================================================================
