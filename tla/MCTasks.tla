------------------------------- MODULE MCTasks -------------------------------
(* Instances of Tasks for TLC.                                               *)
EXTENDS Tasks, TLC

CONSTANTS t1, t2, r1, r2, j1, j2

OneTask == {t1}
FourMessages == 1..4
TwoReplayers == {r1, r2}
TwoJobs == {j1, j2}
TwoQuestions == 1..2
=============================================================================
