---------------------------- MODULE ServerLifecycle ----------------------------
(***************************************************************************)
(* The server process (cmd/server/main.go) around its worker pool: main    *)
(* waits for SIGINT or SIGTERM, shuts the pool down through Manager and    *)
(* ParallelProcessor, closes Redis and PostgreSQL and returns. Nobody tells*)
(* the gRPC, HTTP and WebSocket servers to stop, so requests keep          *)
(* submitting tasks until the process is gone, and the autoscaler may be in*)
(* the middle of a decision. The model goes on after main has returned: the*)
(* moment at which the runtime takes the goroutines away is not modelled.  *)
(***************************************************************************)
EXTENDS WorkerPool

VARIABLES
  main,   \* what main does: "serving", "stopping", "closing" or "returned"
  late    \* the workers spawned after Shutdown had seen the last one leave,
          \* or had given up waiting

mainVars   == <<main, late>>
serverVars == <<vars, mainVars>>

(* A faulty form may stand above a definition, for the mutation runs.      *)

\* main goes on after Shutdown whatever that reports.
WhenComplete == shutdown = "complete"
Returned     == shutdown \in {"complete", "timedout"}
SeenLast     == shutdown = "drained" \/ Returned

-----------------------------------------------------------------------------
ServerInit == Init /\ main = "serving" /\ late = {}

\* The signal: main calls Shutdown, which cancels the pool.
Signal ==
  /\ main = "serving" /\ BeginShutdown
  /\ main' = "stopping"
  /\ UNCHANGED late

CloseRedis ==
  /\ main = "stopping" /\ Returned
  /\ main' = "closing"
  /\ UNCHANGED <<vars, late>>

CloseDatabase ==
  /\ main = "closing"
  /\ main' = "returned"
  /\ UNCHANGED <<vars, late>>

\* A scale that was decided before the pool was cancelled, or by a tick that
\* the autoscaler's select preferred to the done context, still spawns.
Scale ==
  /\ ScaleApply
  /\ late' = IF SeenLast THEN late \union (Live' \ Live) ELSE late
  /\ UNCHANGED main

\* The pool's other goroutines and the requests.
PoolMoves ==
  /\ \/ \E t \in Tasks : Submission(t)
     \/ \E w \in Workers : Work(w)
     \/ ScaleTick \/ ScalerStop
     \/ ShutdownDrained \/ ShutdownComplete \/ ShutdownTimeout
     \/ WaitCall \/ Waiting
  /\ UNCHANGED mainVars

ServerNext == Signal \/ CloseRedis \/ CloseDatabase \/ Scale \/ PoolMoves

ServerSpec == ServerInit /\ [][ServerNext]_serverVars

\* main is a goroutine like the others, and Shutdown's timeout a timer.
ServerFairSpec ==
  /\ ServerSpec /\ Fairness
  /\ WF_vars(ShutdownTimeout)
  /\ WF_serverVars(CloseRedis) /\ WF_serverVars(CloseDatabase)

-----------------------------------------------------------------------------
(* Properties.                                                             *)

\* Redis and PostgreSQL are closed under a running task only when Shutdown
\* gave up waiting, or by a worker that was spawned after Shutdown had seen
\* the last one leave (main.go 166-178, worker_pool.go 467-489): the tasks that
\* requests go on submitting are not started by any worker it waited for.
StoresOutliveTasks ==
  main \in {"closing", "returned"} /\ shutdown = "complete" =>
    \A w \in Workers : Executing(w) => w \in late

\* A signal always ends the process with both stores closed, however long a
\* task runs and whatever the autoscaler and the clients are doing (main.go
\* 156-182).
SignalEnds == (main = "stopping") ~> (main = "returned")
=============================================================================
