---------------------------- MODULE MCScheduler ----------------------------
(* Four heap blocks: the shell, the block "dummy" leaves behind, two more.  *)
EXTENDS Scheduler

MCWakeTimes == {[seconds |-> 1, millisecond |-> 1]}
=============================================================================
