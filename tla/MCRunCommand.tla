---------------------------- MODULE MCRunCommand ----------------------------
(* Instances of RunCommand for TLC.                                         *)
EXTENDS RunCommand

CONSTANTS leader, c1, c2

=============================================================================
