------------------------------ MODULE TaskPool ------------------------------
(***************************************************************************)
(* What a task pool promises its clients, whatever its queue, workers and  *)
(* counters look like (the Task, Submit and SubmitBatch contract of        *)
(* internal/pool/worker_pool.go):                                          *)
(*   - a task is either refused or accepted, and a refused task never runs;*)
(*   - an accepted task is run at most once, by at most one worker;        *)
(*   - no more than Limit tasks run at the same moment;                    *)
(*   - while the pool stays open every accepted task is run to its end.    *)
(* WorkerPool implements this module; ParallelBatch is built on it.        *)
(***************************************************************************)
EXTENDS Naturals, FiniteSets

CONSTANTS Tasks,   \* the tasks clients may submit
          Limit    \* how many tasks may run at the same time

VARIABLES status,  \* status[t]: what has become of task t
          open     \* FALSE once the pool has been told to shut down

tpVars == <<status, open>>

TaskStatus == {"new", "rejected", "accepted", "running", "done"}

TPTypeOK == /\ status \in [Tasks -> TaskStatus]
            /\ open \in BOOLEAN

Running == {t \in Tasks : status[t] = "running"}

TPInit == /\ status = [t \in Tasks |-> "new"]
          /\ open = TRUE

Move(t, from, to) == /\ status[t] = from
                     /\ status' = [status EXCEPT ![t] = to]
                     /\ UNCHANGED open

Accept(t) == Move(t, "new", "accepted")

Reject(t) == Move(t, "new", "rejected")

Start(t) == /\ Cardinality(Running) < Limit
            /\ Move(t, "accepted", "running")

Finish(t) == Move(t, "running", "done")

\* A closing pool finishes what runs and may leave accepted tasks unrun.
Close == open /\ open' = FALSE /\ UNCHANGED status

TPNext == Close \/ \E t \in Tasks : \/ Accept(t)
                                    \/ Reject(t)
                                    \/ Start(t)
                                    \/ Finish(t)

\* The safety part of the promise: what WorkerPool implements for every
\* value of its constants, resizes and shutdowns included.
SafeSpec == TPInit /\ [][TPNext]_tpVars

\* The whole promise: an open pool gets to every accepted task.
TPSpec == /\ SafeSpec
          /\ \A t \in Tasks : /\ WF_tpVars(open /\ Start(t))
                              /\ WF_tpVars(Finish(t))
=============================================================================
