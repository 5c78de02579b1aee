------------------------------ MODULE MCSched ------------------------------
(* Sched on two or more harts and agents, with symmetric model values. *)
EXTENDS Sched, TLC

CONSTANTS t1, t2, c1, c2, a1, a2

OneTask == {t1}
TwoTasks == {t1, t2}
OneCpu == {c1}
TwoCpus == {c1, c2}
OneAgent == {a1}
TwoAgents == {a1, a2}

NoStopOps == {"fork", "wake", "kill"}
StopOps == {"fork", "stop", "cont"}
KillOps == {"fork", "stop", "kill"}
WakeOps == {"fork", "wake"}

Symmetry == Permutations(Tasks) \cup Permutations(Cpus) \cup Permutations(Agents)
=============================================================================
