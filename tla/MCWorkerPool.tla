---------------------------- MODULE MCWorkerPool ----------------------------
(* Small instances of WorkerPool.                                          *)
EXTENDS WorkerPool

CONSTANTS t1, t2, t3

OneTask    == {t1}
ThreeTasks == {t1, t2, t3}
OnlyT3     == {t3}
NoTasks    == {}

AllOutcomes == {"ok", "error", "panic"}

NoResize    == {}
\* One that lowers the maximum only and one that asks for two workers at once.
SomeResizes == {<<0, 1>>, <<2, 2>>}
GrowTo2     == {<<2, 2>>}
=============================================================================
