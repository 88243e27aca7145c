------------------------ MODULE ServerLifecycleProofs ------------------------
(***************************************************************************)
(* Machine-checked proofs about ServerLifecycle. Every step of the process *)
(* is a step of the pool or leaves it alone, so what WorkerPoolProofs shows*)
(* of the pool holds inside the server. The stores are closed under no task*)
(* that Shutdown waited for, because the live workers of a pool whose      *)
(* Shutdown completed are among those spawned since.                       *)
(***************************************************************************)
EXTENDS ServerLifecycle, WorkerPoolProofs

\* A step of the server moves the pool as the pool allows, or not at all.
LEMMA ServerStepIsPoolStep == [ServerNext]_serverVars => [Next]_vars
<1> SUFFICES ASSUME [ServerNext]_serverVars PROVE [Next]_vars
  OBVIOUS
<1>1. CASE Signal
  BY <1>1 DEF Signal, Next, Control
<1>2. CASE CloseRedis \/ CloseDatabase \/ UNCHANGED serverVars
  BY <1>2 DEF CloseRedis, CloseDatabase, serverVars
<1>3. CASE Scale
  BY <1>3 DEF Scale, Next, Control
<1>4. CASE PoolMoves
  BY <1>4 DEF PoolMoves, Next, Control
<1>5. QED
  BY <1>1, <1>2, <1>3, <1>4 DEF ServerNext

\* The pool inside the server is a WorkerPool that nobody resizes (main.go
\* 156-182): its invariants and its refinement of TaskPool carry over.
THEOREM ServerRunsPool == ServerSpec => Spec /\ ImplementsTaskPool
<1>1. ServerInit => Init
  BY DEF ServerInit
<1>2. ServerSpec => Spec
  BY <1>1, ServerStepIsPoolStep, PTL DEF ServerSpec, Spec
<1>3. QED
  BY <1>2, Refinement, PTL

-----------------------------------------------------------------------------
(* What is alive after Shutdown has completed was spawned afterwards.      *)

\* Shutdown has seen every worker leave.
Drained == shutdown \in {"drained", "complete"}

LateLive == Drained => Live \subseteq late

\* Whatever else moves in the pool, only scale adds a live worker.
LEMMA OnlyScaleSpawns ==
  ASSUME TypeOK, PoolMoves
  PROVE  Live' \subseteq Live
<1>1. ASSUME NEW t \in Tasks, Submission(t) PROVE Live' \subseteq Live
  BY <1>1 DEF Submission, Enqueue, CountSubmitted, RefuseShutdown, RefuseFull,
     Refuse, workVars, Live
<1>2. ASSUME NEW w \in Workers, Work(w) PROVE Live' \subseteq Live
  BY <1>2, WorkKeepsLive
<1>3. CASE \/ ScaleTick \/ ScalerStop \/ ShutdownDrained \/ ShutdownComplete \/ ShutdownTimeout
           \/ WaitCall \/ Waiting
  BY <1>3 DEF ScaleTick, ScalerStop, ShutdownDrained, ShutdownComplete, ShutdownTimeout,
     ShutdownMoves, WaitCall, Waiting, WaitReadQueue, WaitReadCompleted,
     WaitReadTotal, WaitStep, workVars, Live
<1>4. QED
  BY <1>1, <1>2, <1>3 DEF PoolMoves

\* Shutdown has seen every worker leave since ShutdownDrained.
LEMMA DrainedBefore ==
  ASSUME [Next]_vars, Drained', ~ShutdownDrained
  PROVE  Drained
<1>1. ASSUME NEW t \in Tasks, Submission(t) PROVE shutdown' = shutdown
  BY <1>1 DEF Submission, Enqueue, CountSubmitted, RefuseShutdown, RefuseFull,
     Refuse, stopVars
<1>2. ASSUME NEW w \in Workers, Work(w) PROVE shutdown' = shutdown
  BY <1>2 DEF Work, Take, Exit, Finish, CountFailed, CountCompleted, Notify,
     stopVars
<1>3. CASE BeginShutdown \/ ShutdownComplete \/ ShutdownTimeout
  BY <1>3 DEF BeginShutdown, ShutdownComplete, ShutdownTimeout, ShutdownMoves, Drained
<1>4. CASE Control /\ ~BeginShutdown /\ ~ShutdownComplete /\ ~ShutdownTimeout
  BY <1>4 DEF Control, ScaleTick, ScaleApply, ScalerStop, Resize, WaitCall,
     Waiting, WaitReadQueue, WaitReadCompleted, WaitReadTotal, WaitStep, stopVars, Drained
<1>5. CASE UNCHANGED vars
  BY <1>5 DEF vars, stopVars, Drained
<1>6. QED
  BY <1>1, <1>2, <1>3, <1>4, <1>5 DEF Next, Drained

LEMMA LateLiveStep ==
  TypeOK /\ LateLive /\ [ServerNext]_serverVars => LateLive'
<1> SUFFICES ASSUME TypeOK, LateLive, [ServerNext]_serverVars,
                    Drained'
             PROVE  Live' \subseteq late'
  BY DEF LateLive
<1>1. [Next]_vars
  BY ServerStepIsPoolStep
<1>2. CASE ShutdownDrained
  BY <1>2 DEF ShutdownDrained, ShutdownMoves, AllReturned, workVars, Live
<1>3. CASE Scale
  <2>1. Drained /\ Live \subseteq late
    BY <1>3 DEF Scale, ScaleApply, stopVars, Drained, LateLive
  <2>2. late' = late \union (Live' \ Live)
    BY <1>3, <2>1 DEF Scale, SeenLast, Returned, Drained
  <2>3. QED
    BY <2>1, <2>2
<1>4. CASE ~ShutdownDrained /\ ~Scale
  <2>1. Live \subseteq late
    BY <1>1, <1>4, DrainedBefore DEF LateLive
  <2>2. late' = late
    BY <1>4 DEF ServerNext, Signal, CloseRedis, CloseDatabase, PoolMoves,
       mainVars, serverVars
  <2>3. Live' \subseteq Live
    <3>1. CASE Signal
      BY <3>1 DEF Signal, BeginShutdown, workVars, Live
    <3>2. CASE CloseRedis \/ CloseDatabase \/ UNCHANGED serverVars
      BY <3>2 DEF CloseRedis, CloseDatabase, serverVars, vars, workVars, Live
    <3>3. CASE PoolMoves
      BY <3>3, OnlyScaleSpawns
    <3>4. QED
      BY <1>4, <3>1, <3>2, <3>3 DEF ServerNext
  <2>4. QED
    BY <2>1, <2>2, <2>3
<1>5. QED
  BY <1>2, <1>3, <1>4

\* Unless Shutdown gave up waiting, Redis and PostgreSQL are closed under no
\* task but one of a worker spawned after Shutdown had seen the last one leave,
\* for any tasks, sizes and timing (main.go 166-178, worker_pool.go 467-489).
THEOREM StoresOutlive == ServerSpec => []StoresOutliveTasks
<1>1. ServerInit => LateLive
  BY DEF ServerInit, Init, Drained, LateLive
<1>2. ServerSpec => []TypeOK
  BY ServerRunsPool, TypeCorrect, PTL
<1>3. LateLive => StoresOutliveTasks
  BY DEF LateLive, Drained, StoresOutliveTasks, Executing, Live
<1>4. QED
  BY <1>1, <1>2, <1>3, LateLiveStep, PTL DEF ServerSpec

-----------------------------------------------------------------------------
\* In the server too, every task is counted once and a Wait that nobody submits
\* under has not returned early (worker_pool.go 234-249, 490-507).
THEOREM ServerCounts ==
  /\ ServerSpec => []CountersAgree
  /\ WaitAssumption => (ServerSpec => []WaitSound)
<1>1. ServerSpec => Spec
  BY ServerRunsPool
<1>2. ServerSpec => []CountersAgree
  BY <1>1, CountersHold
<1>3. ASSUME WaitAssumption PROVE ServerSpec => []WaitSound
  <2>1. Spec => []WaitSound
    BY <1>3, WaitIsSound
  <2>2. QED
    BY <1>1, <2>1
<1>4. QED
  BY <1>2, <1>3
=============================================================================
