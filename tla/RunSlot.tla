------------------------------- MODULE RunSlot -------------------------------
(***************************************************************************)
(* What the run dialog of the web page promises, whatever the order of its *)
(* callbacks: it holds at most one run, only the end of that run frees it, *)
(* and a run that it no longer holds has been told to stop.  RunDialog is  *)
(* the detailed model that implements it.                                  *)
(***************************************************************************)
EXTENDS Integers

CONSTANT Runs

VARIABLES
    slot,      \* "closed", "ready" or "running"
    current,   \* the run in the slot, if it is "running"
    live,      \* the runs that have not ended
    told       \* the runs that were told to stop

vars == <<slot, current, live, told>>

Nobody == 0   \* no run; not one of Runs

Init ==
    /\ slot = "closed" /\ current = Nobody
    /\ live = {} /\ told = {}

Open ==
    /\ slot = "closed"
    /\ slot' = "ready"
    /\ UNCHANGED <<current, live, told>>

Start(r) ==
    /\ slot = "ready" /\ r \notin live \cup told
    /\ slot' = "running" /\ current' = r
    /\ live' = live \cup {r}
    /\ UNCHANGED told

Stop ==
    /\ slot = "running"
    /\ told' = told \cup {current}
    /\ UNCHANGED <<slot, current, live>>

End(r) ==
    /\ r \in live
    /\ live' = live \ {r}
    /\ IF r = current THEN slot' = "ready" /\ current' = Nobody
       ELSE UNCHANGED <<slot, current>>
    /\ UNCHANGED told

Close ==
    /\ slot # "closed"
    /\ slot' = "closed" /\ current' = Nobody
    /\ told' = told \cup ({current} \ {Nobody})
    /\ UNCHANGED live

Next == Open \/ Stop \/ Close \/ \E r \in Runs : Start(r) \/ End(r)

Spec == Init /\ [][Next]_vars

-----------------------------------------------------------------------------
\* Whatever runs without having been told to stop is the run in the slot, and
\* the slot holds a run exactly while it is taken.
HeldOrTold ==
    /\ live \subseteq Runs
    /\ live \ told \subseteq {current}
    /\ slot = "running" <=> current # Nobody
    /\ current # Nobody => current \in live

=============================================================================
