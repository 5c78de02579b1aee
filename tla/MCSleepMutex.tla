---------------------------- MODULE MCSleepMutex ----------------------------
(* SleepMutex for three tasks. *)
EXTENDS SleepMutex

CONSTANTS t1, t2, t3

ThreeTasks == {t1, t2, t3}
=============================================================================
