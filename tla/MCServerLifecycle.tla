-------------------------- MODULE MCServerLifecycle --------------------------
(* Small instances of ServerLifecycle.                                     *)
EXTENDS ServerLifecycle

CONSTANTS t1, t2

TwoTasks    == {t1, t2}
OnlyT2      == {t2}
AllOutcomes == {"ok", "error", "panic"}
NoResize    == {}
=============================================================================
