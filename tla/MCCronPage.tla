------------------------------ MODULE MCCronPage ------------------------------
(* The schedules of MCCronNext for the page and the daemon together. *)
EXTENDS CronPage, MCCronNext
=============================================================================
