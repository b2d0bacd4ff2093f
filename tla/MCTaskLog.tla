------------------------------ MODULE MCTaskLog ------------------------------
(* Instances of TaskLog for TLC.                                            *)
EXTENDS TaskLog

CONSTANTS daemon, cli

\* The daemon appends and cleans up; the command line does everything.
AllOps == [p \in Proc |-> IF p = daemon THEN {"append", "cleanup"}
                          ELSE {"append", "prune", "clear", "list"}]

\* Two processes that append, and one alone.
OnlyAppends == [p \in Proc |-> {"append"}]

\* Two entries are written in a second, or one.
TwoPerSecond == [e \in Entry |-> (e + 1) \div 2]
OnePerSecond == [e \in Entry |-> e]

\* The daemon only appends while the command line prunes.
PruneBeside == [p \in Proc |-> IF p = daemon THEN {"append"} ELSE {"prune"}]

\* The properties promise nothing once the history is tainted, which it stays.
Untainted == ~tainted

=============================================================================
