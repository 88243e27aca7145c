-------------------------- MODULE WorkerPoolProofs --------------------------
(***************************************************************************)
(* Machine-checked proofs about WorkerPool, for any tasks, sizes, resizes  *)
(* and utilization. The inductive invariant is the conjunction of the type *)
(* invariant, TaskConservation, ScaleBounds and PoolIntact; each has its   *)
(* own step lemma, with one step per action that can disturb it.           *)
(***************************************************************************)
EXTENDS WorkerPool, FiniteSetTheorems, TLAPS

\* Clamp never leaves the maximum when the bounds are in order.
LEMMA ClampBounds ==
  ASSUME NEW n \in Int, NEW mn \in Int, NEW mx \in Int
  PROVE  /\ Clamp(n, mn, mx) \in Int
         /\ mn <= mx => mn <= Clamp(n, mn, mx) /\ Clamp(n, mn, mx) <= mx
         /\ mn > mx /\ n > mx => Clamp(n, mn, mx) = mx
BY DEF Clamp, Most

LEMMA InitialWorkersBounds ==
  /\ InitialWorkers \in Nat \ {0} /\ InitialWorkers <= TopWorkers
  /\ MinWorkers <= MaxWorkers => InitialWorkers = MinWorkers
  /\ MinWorkers > MaxWorkers  => InitialWorkers = MaxWorkers
BY SizesAssumption DEF InitialWorkers, Clamp, Most

-----------------------------------------------------------------------------
(* Types.                                                                  *)

LEMMA TypeInit == Init => TypeOK
<1> SUFFICES ASSUME Init PROVE TypeOK
  OBVIOUS
<1>1. InitialWorkers \in Nat
  BY InitialWorkersBounds
<1>2. wpc \in [Workers -> WorkerState]
  BY DEF Init, WorkerState
<1>3. queue \in Seq(Tasks) /\ Len(queue) <= QueueSize /\ task \in [Tasks -> TaskState]
  BY SizesAssumption DEF Init, TaskState
<1>4. hand \in [Workers -> Tasks \union {NoTask}]
  BY DEF Init
<1>5. QED
  <2> USE <1>1, <1>2, <1>3, <1>4, SizesAssumption DEF Init
  <2>1. current \in Nat /\ minW \in Int /\ maxW \in Int /\ gauge \in Int
    OBVIOUS
  <2>2. target \in Int /\ uncounted \subseteq Tasks
    OBVIOUS
  <2>3. muStuck \in BOOLEAN
    OBVIOUS
  <2>4. /\ scalerPc \in {"idle", "scaling", "stopped"} /\ cancelled \in BOOLEAN
        /\ shutdown \in {"none", "waiting", "drained", "complete", "timedout"}
    OBVIOUS
  <2>5. total \in Int /\ completed \in Int /\ processed \in Nat /\ failed \in Nat
    OBVIOUS
  <2>6. /\ waitPc \in {"off", "queue", "completed", "total", "returned"}
        /\ seen \in Int /\ owed \subseteq Tasks
    OBVIOUS
  <2>7. QED
    BY <2>1, <2>2, <2>3, <2>4, <2>5, <2>6 DEF TypeOK

LEMMA TypeStep == TypeOK /\ [Next]_vars => TypeOK'
<1> SUFFICES ASSUME TypeOK, [Next]_vars PROVE TypeOK'
  OBVIOUS
<1> USE DEF TypeOK, TaskState, WorkerState, taskVars, workVars, sizeVars,
            scaleVars, stopVars, countVars, waitVars
<1>1. ASSUME NEW t \in Tasks, Submission(t) PROVE TypeOK'
  <2>1. CASE Enqueue(t)
    <3>1. Len(queue') <= QueueSize
      BY <2>1, SizesAssumption DEF Enqueue, Room
    <3>2. QED
      BY <2>1, <3>1 DEF Enqueue
  <2>2. CASE CountSubmitted(t)
    BY <2>2, SizesAssumption DEF CountSubmitted, Inc32
  <2>3. CASE RefuseShutdown(t) \/ RefuseFull(t)
    BY <2>3 DEF RefuseShutdown, RefuseFull, Refuse
  <2>4. QED
    BY <1>1, <2>1, <2>2, <2>3 DEF Submission
<1>2. ASSUME NEW w \in Workers, Work(w) PROVE TypeOK'
  <2>1. CASE Take(w)
    <3>1. queue' \in Seq(Tasks) /\ Len(queue') <= QueueSize
      BY <2>1, SizesAssumption DEF Take, Remaining
    <3>2. QED
      BY <2>1, <3>1 DEF Take
  <2>2. CASE Exit(w)
    BY <2>2 DEF Exit
  <2>3. CASE Finish(w)
    <3>1. wpc' \in [Workers -> WorkerState]
      BY <2>3 DEF Finish, AfterRun
    <3>2. task' \in [Tasks -> TaskState]
      BY <2>3 DEF Finish
    <3>3. hand' \in [Workers -> Tasks \union {NoTask}] /\ processed' \in Nat
      BY <2>3 DEF Finish
    <3>4. QED
      BY <2>3, <3>1, <3>2, <3>3 DEF Finish
  <2>4. CASE CountFailed(w)
    BY <2>4 DEF CountFailed
  <2>5. CASE CountCompleted(w)
    BY <2>5, SizesAssumption DEF CountCompleted, Inc32
  <2>6. CASE Notify(w)
    BY <2>6 DEF Notify
  <2>7. QED
    BY <1>2, <2>1, <2>2, <2>3, <2>4, <2>5, <2>6 DEF Work
<1>3. ASSUME Control PROVE TypeOK'
  <2>1. CASE ScaleTick
    BY <2>1 DEF ScaleTick, Least, Most
  <2>2. CASE ScaleApply
    <3>1. Clamp(target, minW, maxW) \in Int
      BY ClampBounds
    <3>2. current' \in Nat /\ gauge' \in Int
      BY <2>2, <3>1 DEF ScaleApply, Most
    <3>3. QED
      BY <2>2, <3>2 DEF ScaleApply
  <2>3. CASE ScalerStop
    BY <2>3 DEF ScalerStop
  <2>4. ASSUME NEW r \in Resizes, Resize(r[1], r[2]) PROVE TypeOK'
    <3>1. r[1] \in Int /\ r[2] \in Int
      BY ResizesAssumption
    <3>2. minW' \in Int /\ maxW' \in Int
      BY <2>4, <3>1 DEF Resize
    <3>3. QED
      BY <2>4, <3>2 DEF Resize
  <2>5. CASE BeginShutdown
    BY <2>5 DEF BeginShutdown
  <2>6. CASE ShutdownDrained \/ ShutdownComplete \/ ShutdownTimeout
    BY <2>6 DEF ShutdownDrained, ShutdownComplete, ShutdownTimeout, ShutdownMoves
  <2>7. CASE WaitCall
    BY <2>7 DEF WaitCall, WaitStep, Accepted
  <2>8. CASE Waiting
    BY <2>8 DEF Waiting, WaitReadQueue, WaitReadCompleted, WaitReadTotal, WaitStep
  <2>9. QED
    BY <1>3, <2>1, <2>2, <2>3, <2>4, <2>5, <2>6, <2>7, <2>8 DEF Control
<1>4. CASE UNCHANGED vars
  BY <1>4 DEF vars
<1>5. QED
  BY <1>1, <1>2, <1>3, <1>4 DEF Next

THEOREM TypeCorrect == Spec => []TypeOK
<1>1. QED
  BY TypeInit, TypeStep, PTL DEF Spec

-----------------------------------------------------------------------------
(* Tasks are conserved between Submit and the workers.                     *)

LEMMA ConservationInit == Init => TaskConservation
<1> SUFFICES ASSUME Init PROVE TaskConservation
  OBVIOUS
<1>1. QueueExact
  BY DEF Init, QueueExact
<1>2. HandsExact
  BY DEF Init, HandsExact, Executing
<1>3. QED
  BY <1>1, <1>2 DEF TaskConservation

\* A step that moves no task and starts or ends no execution is harmless.
LEMMA ConservationFrame ==
  ASSUME TypeOK, TaskConservation, UNCHANGED <<task, queue, hand>>,
         \A w \in Workers : Executing(w)' <=> Executing(w)
  PROVE  TaskConservation'
<1>1. QueueExact'
  BY DEF QueueExact, TaskConservation
<1>2. HandsExact'
  BY DEF HandsExact, TaskConservation
<1>3. QED
  BY <1>1, <1>2 DEF TaskConservation

LEMMA ConservationEnqueue ==
  ASSUME TypeOK, TaskConservation, NEW t \in Tasks, Enqueue(t)
  PROVE  TaskConservation'
<1> USE DEF TypeOK, TaskConservation
<1>1. /\ Len(queue') = Len(queue) + 1 /\ Len(queue) \in Nat
      /\ \A i \in 1..Len(queue) : queue'[i] = queue[i] /\ queue[i] \in Tasks
      /\ queue'[Len(queue) + 1] = t
  BY DEF Enqueue
<1>2. /\ task' = [task EXCEPT ![t] = "queued"] /\ task[t] = "new"
      /\ UNCHANGED <<wpc, hand>>
  BY DEF Enqueue, workVars
<1>3. \A i \in 1..Len(queue) : queue[i] # t
  BY <1>2 DEF QueueExact
<1>4. QueueExact'
  <2>1. ASSUME NEW i \in 1..Len(queue'), NEW j \in 1..Len(queue'),
               queue'[i] = queue'[j]
        PROVE  i = j
    BY <1>1, <1>3, <2>1 DEF QueueExact
  <2>2. ASSUME NEW i \in 1..Len(queue') PROVE task'[queue'[i]] = "queued"
    BY <1>1, <1>2, <1>3 DEF QueueExact
  <2>3. ASSUME NEW u \in Tasks, task'[u] = "queued"
        PROVE  \E i \in 1..Len(queue') : queue'[i] = u
    <3>1. CASE u = t
      BY <1>1, <3>1
    <3>2. CASE u # t
      <4>1. PICK i \in 1..Len(queue) : queue[i] = u
        BY <1>2, <2>3, <3>2 DEF QueueExact
      <4>2. QED
        BY <1>1, <4>1
    <3>3. QED
      BY <3>1, <3>2
  <2>4. QED
    BY <2>1, <2>2, <2>3 DEF QueueExact
<1>5. HandsExact'
  BY <1>2 DEF HandsExact, Executing
<1>6. QED
  BY <1>4, <1>5

LEMMA ConservationTake ==
  ASSUME TypeOK, TaskConservation, NEW w \in Workers, Take(w)
  PROVE  TaskConservation'
<1> DEFINE t == Head(queue)
<1> USE DEF TypeOK, TaskConservation
<1>1. /\ queue # <<>> /\ Len(queue) \in Nat \ {0}
      /\ \A i \in 1..Len(queue) : queue[i] \in Tasks
      /\ t = queue[1] /\ t \in Tasks
  BY DEF Take
<1>2. /\ Len(queue') = Len(queue) - 1
      /\ \A i \in 1..Len(queue') : queue'[i] = queue[i + 1]
  BY <1>1 DEF Take, Remaining
<1>3. /\ task' = [task EXCEPT ![t] = "running"]
      /\ wpc' = [wpc EXCEPT ![w] = "executing"]
      /\ hand' = [hand EXCEPT ![w] = t]
      /\ wpc[w] = "idle" /\ task[t] = "queued"
  BY <1>1 DEF Take, QueueExact
<1> HIDE DEF t
<1>4. \A i \in 1..Len(queue') : queue'[i] # t
  BY <1>1, <1>2 DEF QueueExact
<1>5. QueueExact'
  <2>1. ASSUME NEW i \in 1..Len(queue'), NEW j \in 1..Len(queue'),
               queue'[i] = queue'[j]
        PROVE  i = j
    BY <1>1, <1>2, <2>1 DEF QueueExact
  <2>2. ASSUME NEW i \in 1..Len(queue') PROVE task'[queue'[i]] = "queued"
    BY <1>1, <1>2, <1>3, <1>4 DEF QueueExact
  <2>3. ASSUME NEW u \in Tasks, task'[u] = "queued"
        PROVE  \E i \in 1..Len(queue') : queue'[i] = u
    <3>1. u # t /\ task[u] = "queued"
      BY <1>1, <1>3, <2>3
    <3>2. PICK i \in 1..Len(queue) : queue[i] = u
      BY <3>1 DEF QueueExact
    <3>3. i # 1 /\ i - 1 \in 1..Len(queue')
      BY <1>1, <1>2, <3>1, <3>2
    <3>4. queue'[i - 1] = u
      BY <1>2, <3>2, <3>3
    <3>5. QED
      BY <3>3, <3>4
  <2>4. QED
    BY <2>1, <2>2, <2>3 DEF QueueExact
<1>6. HandsExact'
  <2>1. ASSUME NEW v \in Workers, Executing(v)'
        PROVE  hand'[v] \in Tasks /\ task'[hand'[v]] = "running"
    BY <1>1, <1>3, <2>1 DEF HandsExact, Executing
  <2>2. ASSUME NEW v \in Workers, NEW x \in Workers,
               Executing(v)', Executing(x)', hand'[v] = hand'[x]
        PROVE  v = x
    BY <1>1, <1>3, <2>2 DEF HandsExact, Executing
  <2>3. ASSUME NEW u \in Tasks, task'[u] = "running"
        PROVE  \E v \in Workers : Executing(v)' /\ hand'[v] = u
    BY <1>1, <1>3, <2>3 DEF HandsExact, Executing
  <2>4. QED
    BY <2>1, <2>2, <2>3 DEF HandsExact
<1>7. QED
  BY <1>5, <1>6

LEMMA ConservationFinish ==
  ASSUME TypeOK, TaskConservation, NEW w \in Workers, Finish(w)
  PROVE  TaskConservation'
<1> DEFINE t == hand[w]
<1> USE DEF TypeOK, TaskConservation
<1>1. /\ Executing(w) /\ t \in Tasks /\ task[t] = "running"
      /\ task' = [task EXCEPT ![t] = "ended"] /\ UNCHANGED queue
      /\ hand' = [hand EXCEPT ![w] = NoTask]
      /\ \A v \in Workers : Executing(v)' <=> Executing(v) /\ v # w
  BY DEF Finish, AfterRun, Executing, HandsExact
<1>2. \A v \in Workers : Executing(v) /\ v # w => hand[v] # t
  BY <1>1 DEF HandsExact
<1>3. QueueExact'
  <2>1. \A i \in 1..Len(queue) : queue[i] # t
    BY <1>1 DEF QueueExact
  <2>2. QED
    BY <1>1, <2>1 DEF QueueExact
<1>4. HandsExact'
  <2>1. ASSUME NEW v \in Workers, Executing(v)'
        PROVE  hand'[v] \in Tasks /\ task'[hand'[v]] = "running"
    BY <1>1, <1>2, <2>1 DEF HandsExact
  <2>2. ASSUME NEW v \in Workers, NEW x \in Workers,
               Executing(v)', Executing(x)', hand'[v] = hand'[x]
        PROVE  v = x
    BY <1>1, <2>2 DEF HandsExact
  <2>3. ASSUME NEW u \in Tasks, task'[u] = "running"
        PROVE  \E v \in Workers : Executing(v)' /\ hand'[v] = u
    BY <1>1, <2>3 DEF HandsExact
  <2>4. QED
    BY <2>1, <2>2, <2>3 DEF HandsExact
<1>5. QED
  BY <1>3, <1>4

LEMMA ConservationRefuse ==
  ASSUME TypeOK, TaskConservation, NEW t \in Tasks, Refuse(t)
  PROVE  TaskConservation'
<1> USE DEF TypeOK, TaskConservation
<1>1. /\ task' = [task EXCEPT ![t] = "rejected"] /\ task[t] = "new"
      /\ UNCHANGED <<queue, wpc, hand>>
  BY DEF Refuse, workVars
<1>2. QueueExact'
  BY <1>1 DEF QueueExact
<1>3. HandsExact'
  BY <1>1 DEF HandsExact, Executing
<1>4. QED
  BY <1>2, <1>3

\* scale only spawns workers that are not alive, so none is executing.
LEMMA SpawnsIdle ==
  ASSUME TypeOK, PoolIntact, ScaleApply, NEW w \in Workers
  PROVE  Executing(w)' <=> Executing(w)
<1>1. CASE Spawned(w, Clamp(target, minW, maxW))
  <2>1. w \notin Live
    BY <1>1 DEF Spawned, PoolIntact, TypeOK, Workers
  <2>2. wpc[w] # "executing" /\ wpc'[w] = "idle"
    BY <1>1, <2>1 DEF Live, ScaleApply
  <2>3. QED
    BY <2>2 DEF Executing
<1>2. CASE ~Spawned(w, Clamp(target, minW, maxW))
  BY <1>2 DEF ScaleApply, Executing
<1>3. QED
  BY <1>1, <1>2

LEMMA ConservationStep ==
  TypeOK /\ TaskConservation /\ PoolIntact /\ [Next]_vars => TaskConservation'
<1> SUFFICES ASSUME TypeOK, TaskConservation, PoolIntact, [Next]_vars
             PROVE  TaskConservation'
  OBVIOUS
<1>1. ASSUME NEW t \in Tasks, Submission(t) PROVE TaskConservation'
  <2>1. CASE Enqueue(t)
    BY <2>1, ConservationEnqueue
  <2>2. CASE CountSubmitted(t)
    BY <2>2, ConservationFrame DEF CountSubmitted, taskVars, workVars, Executing
  <2>3. CASE RefuseShutdown(t) \/ RefuseFull(t)
    BY <2>3, ConservationRefuse DEF RefuseShutdown, RefuseFull
  <2>4. QED
    BY <1>1, <2>1, <2>2, <2>3 DEF Submission
<1>2. ASSUME NEW w \in Workers, Work(w) PROVE TaskConservation'
  <2>1. CASE Take(w)
    BY <2>1, ConservationTake
  <2>2. CASE Finish(w)
    BY <2>2, ConservationFinish
  <2>3. ASSUME Exit(w) \/ CountFailed(w) \/ CountCompleted(w) \/ Notify(w)
        PROVE  TaskConservation'
    <3>1. UNCHANGED <<task, queue, hand>>
      BY <2>3 DEF Exit, CountFailed, CountCompleted, Notify, taskVars
    <3>2. \A v \in Workers : Executing(v)' <=> Executing(v)
      BY <2>3 DEF Exit, SeesDone, CountFailed, CountCompleted, Notify, Executing,
         TypeOK
    <3>3. QED
      BY <3>1, <3>2, ConservationFrame
  <2>4. QED
    BY <1>2, <2>1, <2>2, <2>3 DEF Work
<1>3. ASSUME Control PROVE TaskConservation'
  <2>1. CASE ScaleApply
    <3>1. UNCHANGED <<task, queue, hand>>
      BY <2>1 DEF ScaleApply, taskVars
    <3>2. QED
      BY <2>1, <3>1, SpawnsIdle, ConservationFrame
  <2>2. CASE ~ScaleApply
    <3>1. UNCHANGED <<task, queue, hand, wpc>>
      BY <1>3, <2>2 DEF Control, ScaleTick, ScalerStop, Resize, BeginShutdown,
         ShutdownDrained, ShutdownComplete, ShutdownTimeout, ShutdownMoves, WaitCall, Waiting,
         WaitReadQueue, WaitReadCompleted, WaitReadTotal, WaitStep,
         taskVars, workVars
    <3>2. QED
      BY <3>1, ConservationFrame DEF Executing
  <2>3. QED
    BY <2>1, <2>2
<1>4. CASE UNCHANGED vars
  BY <1>4, ConservationFrame DEF vars, taskVars, workVars, Executing
<1>5. QED
  BY <1>1, <1>2, <1>3, <1>4 DEF Next

-----------------------------------------------------------------------------
(* The workers scale has counted are the workers that live.                *)

LEMMA ScaleBoundsInit == Init => ScaleBounds
<1> SUFFICES ASSUME Init PROVE ScaleBounds
  OBVIOUS
<1>1. /\ current = InitialWorkers /\ minW = MinWorkers /\ maxW = MaxWorkers
      /\ scalerPc = "idle"
  BY DEF Init
<1>2. QED
  BY <1>1, InitialWorkersBounds, SizesAssumption DEF ScaleBounds

\* Outside a scaling the goal of scale is within the bounds.
LEMMA GoalBounds ==
  ASSUME TypeOK, ScaleBounds, ScaleApply
  PROVE  /\ Clamp(target, minW, maxW) \in Nat
         /\ minW <= Clamp(target, minW, maxW)
         /\ Clamp(target, minW, maxW) <= maxW
         /\ minW <= current /\ current <= maxW
<1>1. minW <= current /\ current <= maxW
  BY DEF ScaleBounds, ScaleApply
<1>2. /\ target \in Int /\ minW \in Int /\ maxW \in Int /\ current \in Nat
      /\ minW >= 1
  BY DEF TypeOK, ScaleBounds
<1>3. QED
  BY <1>1, <1>2 DEF Clamp, Most

LEMMA ScaleBoundsStep == TypeOK /\ ScaleBounds /\ [Next]_vars => ScaleBounds'
<1> SUFFICES ASSUME TypeOK, ScaleBounds, [Next]_vars PROVE ScaleBounds'
  OBVIOUS
<1>1. CASE ScaleTick
  <2>1. (minW <= current /\ current <= maxW) \/ muStuck
    BY <1>1 DEF ScaleTick, ScaleBounds, TypeOK
  <2>2. QED
    BY <1>1, <2>1 DEF ScaleTick, ScaleBounds, sizeVars
<1>2. CASE ScaleApply
  <2>1. UNCHANGED <<minW, maxW, muStuck>> /\ current' = Most(current, Clamp(target, minW, maxW))
    BY <1>2 DEF ScaleApply
  <2>2. QED
    BY <1>2, <2>1, GoalBounds DEF ScaleBounds, Most, TypeOK
<1>3. CASE ScalerStop
  BY <1>3 DEF ScalerStop, ScaleBounds, sizeVars
<1>4. ASSUME NEW r \in Resizes, Resize(r[1], r[2]) PROVE ScaleBounds'
  <2>1. r[1] \in Int /\ r[2] \in Int /\ r[2] <= TopWorkers
    BY ResizesAssumption
  <2>2. minW' >= 1 /\ maxW' >= 1 /\ maxW' <= TopWorkers
    BY <1>4, <2>1, SizesAssumption DEF Resize, ScaleBounds, TypeOK
  <2>3. ~muStuck' => minW' <= current' /\ current' <= maxW'
    <3>1. muStuck' = (current < minW' \/ current > maxW') /\ UNCHANGED current
      BY <1>4 DEF Resize
    <3>2. ~muStuck' => ~(current < minW') /\ ~(current > maxW')
      BY <3>1
    <3>3. minW' \in Int /\ maxW' \in Int /\ current \in Nat
      BY <1>4, <2>1 DEF Resize, TypeOK
    <3>4. QED
      BY <3>1, <3>2, <3>3
  <2>4. current' >= 1
    BY <1>4 DEF Resize, ScaleBounds
  <2>5. QED
    BY <2>2, <2>3, <2>4 DEF ScaleBounds
<1>5. CASE UNCHANGED <<current, minW, maxW, muStuck, scalerPc>>
  BY <1>5 DEF ScaleBounds
<1>6. ASSUME NEW t \in Tasks, Submission(t)
      PROVE  UNCHANGED <<current, minW, maxW, muStuck, scalerPc>>
  BY <1>6 DEF Submission, Enqueue, CountSubmitted, RefuseShutdown, RefuseFull,
     Refuse, sizeVars, scaleVars
<1>7. ASSUME NEW w \in Workers, Work(w)
      PROVE  UNCHANGED <<current, minW, maxW, muStuck, scalerPc>>
  BY <1>7 DEF Work, Take, Exit, Finish, CountFailed, CountCompleted, Notify,
     sizeVars, scaleVars
<1>8. CASE \/ BeginShutdown \/ ShutdownDrained \/ ShutdownComplete \/ ShutdownTimeout
           \/ WaitCall \/ Waiting \/ UNCHANGED vars
  <2>1. UNCHANGED <<current, minW, maxW, muStuck, scalerPc>>
    BY <1>8 DEF BeginShutdown, ShutdownDrained, ShutdownComplete, ShutdownTimeout, ShutdownMoves,
       WaitCall, Waiting, WaitReadQueue, WaitReadCompleted, WaitReadTotal,
       WaitStep, vars, sizeVars, scaleVars
  <2>2. QED
    BY <2>1, <1>5
<1>9. QED
  BY <1>1, <1>2, <1>3, <1>4, <1>5, <1>6, <1>7, <1>8 DEF Next, Control

LEMMA PoolInit == Init => PoolIntact
<1> SUFFICES ASSUME Init PROVE PoolIntact
  OBVIOUS
<1>1. current = InitialWorkers
  BY DEF Init
<1>2. Live = {w \in Workers : w <= InitialWorkers}
  BY DEF Init, Live
<1>3. Live = 1..InitialWorkers
  BY <1>2, InitialWorkersBounds, SizesAssumption DEF Workers
<1>4. QED
  BY <1>1, <1>3, InitialWorkersBounds DEF PoolIntact

\* Ending a task, whatever its outcome, leaves its worker alive.
LEMMA WorkKeepsLive ==
  ASSUME TypeOK, NEW w \in Workers, Work(w)
  PROVE  /\ Live' \subseteq Live
         /\ ~cancelled => Live' = Live
         /\ UNCHANGED <<current, cancelled>>
<1>1. UNCHANGED <<current, cancelled>>
  BY DEF Work, Take, Exit, Finish, CountFailed, CountCompleted, Notify,
     sizeVars, stopVars
<1>2. CASE Exit(w)
  BY <1>1, <1>2 DEF Exit, SeesDone, Live, TypeOK
<1>3. CASE Finish(w)
  BY <1>1, <1>3 DEF Finish, AfterRun, Live, TypeOK
<1>4. CASE Take(w) \/ CountFailed(w) \/ CountCompleted(w) \/ Notify(w)
  BY <1>1, <1>4 DEF Take, CountFailed, CountCompleted, Notify, Live, TypeOK
<1>5. QED
  BY <1>2, <1>3, <1>4 DEF Work

LEMMA PoolStep ==
  TypeOK /\ ScaleBounds /\ PoolIntact /\ [Next]_vars => PoolIntact'
<1> SUFFICES ASSUME TypeOK, ScaleBounds, PoolIntact, [Next]_vars
             PROVE  PoolIntact'
  OBVIOUS
<1>1. ASSUME NEW t \in Tasks, Submission(t) PROVE PoolIntact'
  <2>1. UNCHANGED <<wpc, current, cancelled>>
    BY <1>1 DEF Submission, Enqueue, CountSubmitted, RefuseShutdown, RefuseFull,
       Refuse, workVars, sizeVars, stopVars
  <2>2. QED
    BY <2>1 DEF PoolIntact, Live
<1>2. ASSUME NEW w \in Workers, Work(w) PROVE PoolIntact'
  <2>1. /\ Live' \subseteq Live /\ UNCHANGED <<current, cancelled>>
        /\ ~cancelled => Live' = Live
    BY <1>2, WorkKeepsLive
  <2>2. QED
    BY <2>1 DEF PoolIntact
<1>3. CASE ScaleApply
  <2> DEFINE goal == Clamp(target, minW, maxW)
  <2>1. /\ goal \in Nat /\ goal <= TopWorkers
        /\ current \in Nat /\ current <= TopWorkers
    BY <1>3, GoalBounds, SizesAssumption DEF ScaleBounds, TypeOK, PoolIntact
  <2>2. current' = Most(current, goal) /\ UNCHANGED cancelled
    BY <1>3 DEF ScaleApply, stopVars
  <2> HIDE DEF goal
  <2>3. \A w \in Workers : wpc'[w] = IF Spawned(w, goal) THEN "idle" ELSE wpc[w]
    BY <1>3 DEF ScaleApply, goal
  <2>4. Live' = Live \union {w \in Workers : Spawned(w, goal)}
    BY <2>3 DEF Live
  <2>5. {w \in Workers : Spawned(w, goal)} = (current + 1)..goal
    <3>1. ASSUME NEW x PROVE x \in Workers /\ Spawned(x, goal) <=> x \in (current + 1)..goal
      BY <2>1, SizesAssumption DEF Spawned, Workers
    <3>2. QED
      BY <3>1
  <2>6. Live' = Live \union ((current + 1)..goal)
    BY <2>4, <2>5
  <2>7. /\ Live' \subseteq 1..Most(current, goal) /\ Most(current, goal) <= TopWorkers
        /\ ~cancelled => Live' = 1..Most(current, goal)
    <3>1. (1..current) \union ((current + 1)..goal) = 1..Most(current, goal)
      BY <2>1 DEF Most
    <3>2. Most(current, goal) <= TopWorkers
      BY <2>1 DEF Most
    <3>3. QED
      BY <2>6, <3>1, <3>2 DEF PoolIntact
  <2>8. QED
    BY <2>2, <2>7 DEF PoolIntact
<1>4. CASE Control /\ ~ScaleApply
  <2>1. UNCHANGED <<wpc, current>> /\ (cancelled => cancelled')
    BY <1>4 DEF Control, ScaleTick, ScalerStop, Resize, BeginShutdown,
       ShutdownDrained, ShutdownComplete, ShutdownTimeout, ShutdownMoves, WaitCall, Waiting,
       WaitReadQueue, WaitReadCompleted, WaitReadTotal, WaitStep,
       workVars, sizeVars, stopVars
  <2>2. QED
    BY <2>1 DEF PoolIntact, Live
<1>5. CASE UNCHANGED vars
  BY <1>5 DEF vars, workVars, sizeVars, stopVars, PoolIntact, Live
<1>6. QED
  BY <1>1, <1>2, <1>3, <1>4, <1>5 DEF Next

-----------------------------------------------------------------------------
(* The inductive invariant and the theorems about every behaviour.         *)

IInv == TypeOK /\ TaskConservation /\ ScaleBounds /\ PoolIntact

THEOREM Inductive == Spec => []IInv
<1>1. Init => IInv
  BY TypeInit, ConservationInit, ScaleBoundsInit, PoolInit DEF IInv
<1>2. IInv /\ [Next]_vars => IInv'
  BY TypeStep, ConservationStep, ScaleBoundsStep, PoolStep DEF IInv
<1>3. QED
  BY <1>1, <1>2, PTL DEF Spec

\* No task is lost, duplicated or run by two workers, in any pool.
THEOREM Conserved == Spec => []TaskConservation
<1>1. IInv => TaskConservation
  BY DEF IInv
<1>2. QED
  BY <1>1, Inductive, PTL

\* The workers that live are the workers scale has counted, and never more
\* than the largest configured maximum.
THEOREM Intact == Spec => [](PoolIntact /\ ScaleBounds)
<1>1. IInv => PoolIntact /\ ScaleBounds
  BY DEF IInv
<1>2. QED
  BY <1>1, Inductive, PTL

\* The workers stay within the configured bounds unless Resize has locked
\* itself out (worker_pool.go 293-326, 346-371, 443-465).
THEOREM Bounded == Spec => []ScaleBounds
<1>1. IInv => ScaleBounds
  BY DEF IInv
<1>2. QED
  BY <1>1, Inductive, PTL

-----------------------------------------------------------------------------
(* The gauge. It never exceeds the number of workers scale has counted.    *)

GaugeInv == gauge <= current

LEMMA GaugeInit == Init => GaugeInv
BY InitialWorkersBounds DEF Init, GaugeInv

LEMMA GaugeStep == IInv /\ GaugeInv /\ [Next]_vars => GaugeInv'
<1> SUFFICES ASSUME IInv, GaugeInv, [Next]_vars PROVE GaugeInv'
  OBVIOUS
<1>1. CASE ScaleApply
  <2> DEFINE goal == Clamp(target, minW, maxW)
  <2>1. goal \in Nat /\ current \in Nat
    BY <1>1, GoalBounds DEF IInv, ScaleBounds, TypeOK
  <2>2. gauge' = goal /\ current' = Most(current, goal)
    BY <1>1 DEF ScaleApply
  <2> HIDE DEF goal
  <2>3. QED
    BY <2>1, <2>2 DEF GaugeInv, Most
<1>2. ASSUME UNCHANGED <<current, gauge>> PROVE GaugeInv'
  BY <1>2 DEF GaugeInv
<1>3. ASSUME NEW t \in Tasks, Submission(t) PROVE GaugeInv'
  BY <1>2, <1>3 DEF Submission, Enqueue, CountSubmitted, RefuseShutdown,
     RefuseFull, Refuse, sizeVars
<1>4. ASSUME NEW w \in Workers, Work(w) PROVE GaugeInv'
  BY <1>2, <1>4 DEF Work, Take, Exit, Finish, CountFailed, CountCompleted,
     Notify, sizeVars
<1>5. CASE Control /\ ~ScaleApply
  BY <1>2, <1>5 DEF Control, ScaleTick, ScalerStop, Resize, BeginShutdown,
     ShutdownDrained, ShutdownComplete, ShutdownTimeout, ShutdownMoves, WaitCall, Waiting,
     WaitReadQueue, WaitReadCompleted, WaitReadTotal, WaitStep, sizeVars
<1>6. CASE UNCHANGED vars
  BY <1>2, <1>6 DEF vars, sizeVars
<1>7. QED
  BY <1>1, <1>3, <1>4, <1>5, <1>6 DEF Next

\* Whatever is scaled, resized or panics, worker_pool_active_workers shows no
\* worker that does not exist (worker_pool.go 21, 318-325).
THEOREM GaugeSound == Spec => []GaugeBacked
<1>1. IInv /\ GaugeInv => GaugeBacked
  <2> SUFFICES ASSUME IInv, GaugeInv, ~cancelled PROVE gauge <= Cardinality(Live)
    BY DEF GaugeBacked
  <2>1. Live = 1..current /\ current \in Nat
    BY DEF IInv, PoolIntact, TypeOK
  <2>2. Cardinality(Live) = current
    BY <2>1, FS_Interval
  <2>3. QED
    BY <2>2 DEF GaugeInv
<1>2. QED
  BY <1>1, GaugeInit, GaugeStep, Inductive, PTL DEF Spec

-----------------------------------------------------------------------------
(* WorkerPool implements TaskPool.                                         *)

\* TaskPool instantiates FiniteSets itself.
LEMMA SameCardinality == \A S : TP!Cardinality(S) = Cardinality(S)
BY DEF TP!Cardinality, Cardinality

\* Running tasks are in different workers' hands, so while a worker is idle
\* fewer than TopWorkers tasks run.
LEMMA RunningBound ==
  ASSUME IInv, NEW w \in Workers, wpc[w] = "idle"
  PROVE  Cardinality(TP!Running) < TopWorkers
<1> DEFINE Busy1 == {v \in Workers : Executing(v)}
           f == [v \in Busy1 |-> hand[v]]
<1> USE DEF IInv
<1>1. TP!Running = {t \in Tasks : task[t] = "running"}
  BY DEF TP!Running, AbstractStatus, Abstract, TypeOK, TaskState
<1>2. Busy1 \subseteq Live \ {w}
  BY DEF Executing, Live
<1>3. /\ IsFiniteSet(Live) /\ Cardinality(Live) \in Nat
      /\ Cardinality(Live) <= TopWorkers
  <2>1. Live \subseteq 1..TopWorkers /\ TopWorkers \in Nat
    BY SizesAssumption DEF PoolIntact, TypeOK
  <2>2. IsFiniteSet(1..TopWorkers) /\ Cardinality(1..TopWorkers) = TopWorkers
    BY <2>1, FS_Interval
  <2>3. QED
    BY <2>1, <2>2, FS_Subset, FS_CardinalityType
<1>4. w \in Live
  BY DEF Live
<1>5. /\ IsFiniteSet(Live \ {w}) /\ Cardinality(Live \ {w}) = Cardinality(Live) - 1
  BY <1>3, <1>4, FS_RemoveElement
<1>6. /\ IsFiniteSet(Busy1) /\ Cardinality(Busy1) <= Cardinality(Live) - 1
      /\ Cardinality(Busy1) \in Nat
  BY <1>2, <1>5, FS_Subset, FS_CardinalityType
<1>7. f \in Surjection(Busy1, TP!Running)
  <2>1. f \in [Busy1 -> TP!Running]
    BY <1>1 DEF TaskConservation, HandsExact
  <2>2. \A t \in TP!Running : \E v \in Busy1 : f[v] = t
    BY <1>1 DEF TaskConservation, HandsExact
  <2>3. QED
    BY <2>1, <2>2 DEF Surjection
<1>8. /\ Cardinality(TP!Running) <= Cardinality(Busy1)
      /\ Cardinality(TP!Running) \in Nat
  BY <1>6, <1>7, FS_Surjection, FS_CardinalityType
<1>9. QED
  BY <1>3, <1>6, <1>8, SizesAssumption

LEMMA AbstractNames ==
  /\ Abstract("new") = "new" /\ Abstract("rejected") = "rejected"
  /\ Abstract("queued") = "accepted" /\ Abstract("running") = "running"
  /\ Abstract("ended") = "done"
BY DEF Abstract

LEMMA RefinementInit == Init => TP!TPInit
BY AbstractNames DEF Init, TP!TPInit, AbstractStatus

\* A step on one task is a move of its abstract status and of no other.
LEMMA AbstractMove ==
  ASSUME TypeOK, NEW t \in Tasks, NEW s \in TaskState,
         task' = [task EXCEPT ![t] = s], UNCHANGED cancelled
  PROVE  TP!Move(t, Abstract(task[t]), Abstract(s))
<1>1. AbstractStatus[t] = Abstract(task[t])
  BY DEF AbstractStatus
<1>2. AbstractStatus' = [u \in Tasks |-> Abstract(task'[u])]
  BY DEF AbstractStatus
<1>3. \A u \in Tasks : task'[u] = IF u = t THEN s ELSE task[u]
  BY DEF TypeOK
<1>4. AbstractStatus' = [AbstractStatus EXCEPT ![t] = Abstract(s)]
  <2>1. AbstractStatus' = [u \in Tasks |-> IF u = t THEN Abstract(s)
                                          ELSE Abstract(task[u])]
    BY <1>2, <1>3
  <2>2. QED
    BY <2>1 DEF AbstractStatus
<1>5. QED
  BY <1>1, <1>4 DEF TP!Move

LEMMA RefinementStep == IInv /\ [Next]_vars => [TP!TPNext]_TP!tpVars
<1> SUFFICES ASSUME IInv, [Next]_vars PROVE [TP!TPNext]_TP!tpVars
  OBVIOUS
<1> USE DEF IInv
<1>1. ASSUME UNCHANGED <<task, cancelled>> PROVE [TP!TPNext]_TP!tpVars
  BY <1>1 DEF TP!tpVars, AbstractStatus
<1>2. ASSUME NEW t \in Tasks, Submission(t) PROVE [TP!TPNext]_TP!tpVars
  <2>1. CASE Enqueue(t)
    <3>1. TP!Accept(t)
      BY <2>1, AbstractMove, AbstractNames DEF Enqueue, stopVars, TaskState,
         TP!Accept
    <3>2. QED
      BY <3>1 DEF TP!TPNext
  <2>2. CASE CountSubmitted(t)
    BY <2>2, <1>1 DEF CountSubmitted, taskVars, stopVars
  <2>3. CASE RefuseShutdown(t) \/ RefuseFull(t)
    <3>1. TP!Reject(t)
      BY <2>3, AbstractMove, AbstractNames DEF RefuseShutdown, RefuseFull,
         Refuse, stopVars, TaskState, TP!Reject
    <3>2. QED
      BY <3>1 DEF TP!TPNext
  <2>4. QED
    BY <1>2, <2>1, <2>2, <2>3 DEF Submission
<1>3. ASSUME NEW w \in Workers, Work(w) PROVE [TP!TPNext]_TP!tpVars
  <2>1. CASE Take(w)
    <3>1. queue[1] \in Tasks /\ Head(queue) = queue[1] /\ task[queue[1]] = "queued"
      BY <2>1 DEF Take, TypeOK, TaskConservation, QueueExact
    <3>2. TP!Start(queue[1])
      BY <2>1, <3>1, RunningBound, SameCardinality, AbstractMove, AbstractNames
         DEF Take, stopVars, TaskState, TP!Start
    <3>3. QED
      BY <3>1, <3>2 DEF TP!TPNext
  <2>2. CASE Finish(w)
    <3>1. hand[w] \in Tasks /\ task[hand[w]] = "running"
      BY <2>2 DEF Finish, TaskConservation, HandsExact, Executing
    <3>2. TP!Finish(hand[w])
      BY <2>2, <3>1, AbstractMove, AbstractNames DEF Finish, stopVars,
         TaskState, TP!Finish
    <3>3. QED
      BY <3>1, <3>2 DEF TP!TPNext
  <2>3. CASE Exit(w) \/ CountFailed(w) \/ CountCompleted(w) \/ Notify(w)
    BY <2>3, <1>1 DEF Exit, CountFailed, CountCompleted, Notify, taskVars, stopVars
  <2>4. QED
    BY <1>3, <2>1, <2>2, <2>3 DEF Work
<1>4. CASE BeginShutdown
  <2>1. UNCHANGED task /\ cancelled' = TRUE
    BY <1>4 DEF BeginShutdown, taskVars
  <2>2. CASE cancelled
    BY <2>1, <2>2, <1>1 DEF TypeOK
  <2>3. CASE ~cancelled
    <3>1. TP!Close
      BY <2>1, <2>3 DEF TP!Close, AbstractStatus
    <3>2. QED
      BY <3>1 DEF TP!TPNext
  <2>4. QED
    BY <2>2, <2>3
<1>5. CASE Control /\ ~BeginShutdown
  BY <1>5, <1>1 DEF Control, ScaleTick, ScaleApply, ScalerStop, Resize,
     ShutdownDrained, ShutdownComplete, ShutdownTimeout, ShutdownMoves, WaitCall, Waiting,
     WaitReadQueue, WaitReadCompleted, WaitReadTotal, WaitStep,
     taskVars, stopVars
<1>6. CASE UNCHANGED vars
  BY <1>6, <1>1 DEF vars, taskVars, stopVars
<1>7. QED
  BY <1>2, <1>3, <1>4, <1>5, <1>6 DEF Next

\* Whatever is resized, cancelled or panics, a client sees a TaskPool.
THEOREM Refinement == Spec => ImplementsTaskPool
<1>1. QED
  BY RefinementInit, RefinementStep, Inductive, PTL
     DEF Spec, ImplementsTaskPool, TP!SafeSpec

-----------------------------------------------------------------------------
(* The counters.                                                           *)

At(s) == {w \in Workers : wpc[w] = s}

\* What totalTasks and completedTasks would be if they were wide enough.
AllSubmitted == Served + Cardinality(Accepted) - Cardinality(uncounted)
AllSucceeded == processed - failed - Between("counting") - Between("failing")

LEMMA FiniteTasks ==
  ASSUME NEW S \in SUBSET Tasks
  PROVE  IsFiniteSet(S) /\ Cardinality(S) \in Nat /\ Cardinality(S) <= Cardinality(Tasks)
BY TasksAssumption, FS_Subset, FS_CardinalityType

LEMMA FiniteWorkers ==
  ASSUME NEW S \in SUBSET Workers
  PROVE  IsFiniteSet(S) /\ Cardinality(S) \in Nat
<1>1. IsFiniteSet(Workers)
  BY SizesAssumption, FS_Interval DEF Workers
<1>2. QED
  BY <1>1, FS_Subset, FS_CardinalityType

LEMMA BetweenType == \A s : Between(s) \in Nat /\ Between(s) = Cardinality(At(s))
<1> SUFFICES ASSUME NEW s PROVE Between(s) \in Nat /\ Between(s) = Cardinality(At(s))
  OBVIOUS
<1>1. At(s) \in SUBSET Workers
  BY DEF At
<1>2. QED
  BY <1>1, FiniteWorkers DEF Between, At

\* A worker that goes from one place to another.
LEMMA BetweenMoves ==
  ASSUME wpc \in [Workers -> WorkerState], NEW w \in Workers, NEW to,
         wpc' = [wpc EXCEPT ![w] = to], wpc[w] # to, NEW s
  PROVE  Between(s)' = IF s = to THEN Between(s) + 1
                       ELSE IF s = wpc[w] THEN Between(s) - 1 ELSE Between(s)
<1> DEFINE old == At(s)
           new == {v \in Workers : wpc'[v] = s}
<1>1. /\ IsFiniteSet(old) /\ Cardinality(old) = Between(s) /\ Between(s)' = Cardinality(new)
  <2>1. old \in SUBSET Workers
    BY DEF At
  <2>2. QED
    BY <2>1, FiniteWorkers DEF Between, At
<1>2. CASE s = to
  <2>1. new = old \union {w} /\ w \notin old
    BY <1>2 DEF At
  <2>2. QED
    BY <1>1, <1>2, <2>1, FS_AddElement
<1>3. CASE s # to /\ s = wpc[w]
  <2>1. new = old \ {w} /\ w \in old
    BY <1>3 DEF At
  <2>2. QED
    BY <1>1, <1>3, <2>1, FS_RemoveElement
<1>4. CASE s # to /\ s # wpc[w]
  <2>1. new = old
    BY <1>4 DEF At
  <2>2. QED
    BY <1>1, <1>4, <2>1
<1>5. QED
  BY <1>2, <1>3, <1>4

\* The counters that a step may move: none, or one by one task, which it counts.
CountsStep ==
  /\ \/ total' = total /\ AllSubmitted' = AllSubmitted
     \/ total' = Inc32(total) /\ AllSubmitted' = AllSubmitted + 1
  /\ \/ completed' = completed /\ AllSucceeded' = AllSucceeded
     \/ completed' = Inc32(completed) /\ AllSucceeded' = AllSucceeded + 1
  /\ processed' - Cardinality(Ended') = processed - Cardinality(Ended)
  /\ uncounted' \subseteq Accepted' /\ Ended \subseteq Ended' /\ Accepted \subseteq Accepted'

LEMMA CountsType ==
  ASSUME TypeOK
  PROVE  /\ Cardinality(Accepted) \in Nat /\ Cardinality(Ended) \in Nat
         /\ Cardinality(uncounted) \in Nat
         /\ Cardinality(Accepted) <= Cardinality(Tasks)
         /\ Cardinality(Ended) <= Cardinality(Accepted)
         /\ IsFiniteSet(Accepted) /\ IsFiniteSet(Ended) /\ IsFiniteSet(uncounted)
         /\ AllSubmitted \in Int /\ AllSucceeded \in Int
<1>1. /\ Accepted \in SUBSET Tasks /\ Ended \in SUBSET Tasks /\ uncounted \in SUBSET Tasks
      /\ Ended \subseteq Accepted
  BY DEF Accepted, Ended, TypeOK
<1>2. /\ Cardinality(Accepted) \in Nat /\ Cardinality(Ended) \in Nat
      /\ Cardinality(uncounted) \in Nat
      /\ Cardinality(Accepted) <= Cardinality(Tasks)
      /\ IsFiniteSet(Accepted) /\ IsFiniteSet(Ended) /\ IsFiniteSet(uncounted)
  BY <1>1, FiniteTasks
<1>3. Cardinality(Ended) <= Cardinality(Accepted)
  BY <1>1, <1>2, FS_Subset
<1>4. QED
  BY <1>2, <1>3, BetweenType, SizesAssumption DEF AllSubmitted, AllSucceeded, TypeOK

\* A step that counts nothing.
LEMMA CountsFrame ==
  ASSUME TypeOK, uncounted \subseteq Accepted,
         UNCHANGED <<total, completed, processed, failed, uncounted>>,
         Accepted' = Accepted, Ended' = Ended,
         Between("counting")' = Between("counting"), Between("failing")' = Between("failing")
  PROVE  CountsStep
BY DEF CountsStep, AllSubmitted, AllSucceeded

LEMMA CountsSubmission ==
  ASSUME IInv, uncounted \subseteq Accepted, NEW t \in Tasks, Submission(t)
  PROVE  CountsStep
<1> USE DEF IInv
<1>1. UNCHANGED <<wpc, completed, processed, failed>>
  BY DEF Submission, Enqueue, CountSubmitted, RefuseShutdown, RefuseFull, Refuse, workVars, countVars
<1>2. AllSucceeded' = AllSucceeded
  BY <1>1 DEF AllSucceeded, Between
<1>3. CASE Enqueue(t)
  <2>1. /\ task' = [task EXCEPT ![t] = "queued"] /\ task[t] = "new" /\ total' = total
        /\ uncounted' = uncounted \union {t}
    BY <1>3 DEF Enqueue
  <2>2. Accepted' = Accepted \union {t} /\ t \notin Accepted /\ Ended' = Ended
    BY <2>1 DEF Accepted, Ended, TypeOK
  <2>3. Cardinality(Accepted') = Cardinality(Accepted) + 1
    BY <2>2, CountsType, FS_AddElement
  <2>4. Cardinality(uncounted') = Cardinality(uncounted) + 1
    BY <2>1, <2>2, CountsType, FS_AddElement
  <2>5. AllSubmitted' = AllSubmitted
    BY <2>3, <2>4, CountsType, SizesAssumption DEF AllSubmitted
  <2>6. QED
    BY <1>1, <1>2, <2>1, <2>2, <2>5 DEF CountsStep
<1>4. CASE CountSubmitted(t)
  <2>1. /\ UNCHANGED task /\ t \in uncounted /\ total' = Inc32(total)
        /\ uncounted' = uncounted \ {t}
    BY <1>4 DEF CountSubmitted, taskVars
  <2>2. Accepted' = Accepted /\ Ended' = Ended
    BY <2>1 DEF Accepted, Ended
  <2>3. Cardinality(uncounted') = Cardinality(uncounted) - 1
    BY <2>1, CountsType, FS_RemoveElement
  <2>4. AllSubmitted' = AllSubmitted + 1
    BY <2>2, <2>3, CountsType, SizesAssumption DEF AllSubmitted
  <2>5. QED
    BY <1>1, <1>2, <2>1, <2>2, <2>4 DEF CountsStep
<1>5. CASE RefuseShutdown(t) \/ RefuseFull(t)
  <2>1. /\ task' = [task EXCEPT ![t] = "rejected"] /\ task[t] = "new"
        /\ UNCHANGED <<total, uncounted>>
    BY <1>5 DEF RefuseShutdown, RefuseFull, Refuse, countVars
  <2>2. Accepted' = Accepted /\ Ended' = Ended
    BY <2>1 DEF Accepted, Ended, TypeOK
  <2>3. QED
    BY <1>1, <2>1, <2>2, CountsFrame DEF Between
<1>6. QED
  BY <1>3, <1>4, <1>5 DEF Submission

LEMMA CountsWork ==
  ASSUME IInv, uncounted \subseteq Accepted, NEW w \in Workers, Work(w)
  PROVE  CountsStep
<1> USE DEF IInv
<1>1. UNCHANGED <<total, uncounted>>
  BY DEF Work, Take, Exit, Finish, CountFailed, CountCompleted, Notify, countVars
<1>2. wpc \in [Workers -> WorkerState]
  BY DEF TypeOK
<1>3. CASE Take(w)
  <2>1. /\ task' = [task EXCEPT ![Head(queue)] = "running"] /\ wpc[w] = "idle"
        /\ wpc' = [wpc EXCEPT ![w] = "executing"]
        /\ UNCHANGED <<completed, processed, failed>>
    BY <1>3 DEF Take, countVars
  <2>2. task[Head(queue)] = "queued"
    <3>1. Head(queue) = queue[1] /\ Len(queue) \in Nat \ {0}
      BY <1>3 DEF Take, TypeOK
    <3>2. QED
      BY <3>1 DEF TaskConservation, QueueExact
  <2>3. Accepted' = Accepted /\ Ended' = Ended
    BY <2>1, <2>2 DEF Accepted, Ended, TypeOK
  <2>4. Between("counting")' = Between("counting") /\ Between("failing")' = Between("failing")
    BY <1>2, <2>1, BetweenMoves
  <2>5. QED
    BY <1>1, <2>1, <2>3, <2>4, CountsFrame
<1>4. CASE Finish(w)
  <2>1. /\ wpc[w] = "executing" /\ task' = [task EXCEPT ![hand[w]] = "ended"]
        /\ processed' = processed + 1 /\ UNCHANGED <<completed, failed>>
    BY <1>4 DEF Finish
  <2>2. PICK to \in {"counting", "failing"} : wpc' = [wpc EXCEPT ![w] = to]
    BY <1>4 DEF Finish, AfterRun
  <2>3. hand[w] \in Tasks /\ task[hand[w]] = "running"
    BY <2>1 DEF TaskConservation, HandsExact, Executing
  <2>4. Accepted' = Accepted /\ Ended' = Ended \union {hand[w]} /\ hand[w] \notin Ended
    BY <2>1, <2>3 DEF Accepted, Ended, TypeOK
  <2>5. Cardinality(Ended') = Cardinality(Ended) + 1
    BY <2>4, CountsType, FS_AddElement
  <2>6. Between("counting")' = IF to = "counting" THEN Between("counting") + 1
                              ELSE Between("counting")
    BY <1>2, <2>1, <2>2, BetweenMoves
  <2>7. Between("failing")' = IF to = "failing" THEN Between("failing") + 1
                             ELSE Between("failing")
    BY <1>2, <2>1, <2>2, BetweenMoves
  <2>8. AllSucceeded' = AllSucceeded
    BY <2>1, <2>2, <2>6, <2>7, BetweenType DEF AllSucceeded, TypeOK
  <2>9. AllSubmitted' = AllSubmitted
    BY <1>1, <2>4 DEF AllSubmitted
  <2>10. QED
    BY <1>1, <2>1, <2>4, <2>5, <2>8, <2>9, CountsType DEF CountsStep, TypeOK
<1>5. CASE CountFailed(w)
  <2>1. /\ wpc[w] = "failing" /\ failed' = failed + 1 /\ wpc' = [wpc EXCEPT ![w] = "idle"]
        /\ UNCHANGED <<task, completed, processed>>
    BY <1>5 DEF CountFailed, taskVars
  <2>2. Accepted' = Accepted /\ Ended' = Ended
    BY <2>1 DEF Accepted, Ended
  <2>3. Between("counting")' = Between("counting") /\ Between("failing")' = Between("failing") - 1
    BY <1>2, <2>1, BetweenMoves
  <2>4. AllSucceeded' = AllSucceeded
    BY <2>1, <2>3, BetweenType DEF AllSucceeded, TypeOK
  <2>5. QED
    BY <1>1, <2>1, <2>2, <2>4 DEF CountsStep, AllSubmitted
<1>6. CASE CountCompleted(w)
  <2>1. /\ wpc[w] = "counting" /\ completed' = Inc32(completed)
        /\ wpc' = [wpc EXCEPT ![w] = "notifying"]
        /\ UNCHANGED <<task, failed, processed>>
    BY <1>6 DEF CountCompleted, taskVars
  <2>2. Accepted' = Accepted /\ Ended' = Ended
    BY <2>1 DEF Accepted, Ended
  <2>3. Between("counting")' = Between("counting") - 1 /\ Between("failing")' = Between("failing")
    BY <1>2, <2>1, BetweenMoves
  <2>4. AllSucceeded' = AllSucceeded + 1
    BY <2>1, <2>3, BetweenType DEF AllSucceeded, TypeOK
  <2>5. QED
    BY <1>1, <2>1, <2>2, <2>4 DEF CountsStep, AllSubmitted
<1>7. CASE Exit(w) \/ Notify(w)
  <2>1. PICK to \in {"idle", "stopped"} : wpc' = [wpc EXCEPT ![w] = to] /\ wpc[w] # to
    BY <1>7 DEF Exit, SeesDone, Notify
  <2>2. wpc[w] \in {"idle", "notifying"} /\ UNCHANGED <<task, completed, processed, failed>>
    BY <1>7 DEF Exit, SeesDone, Notify, taskVars, countVars
  <2>3. Accepted' = Accepted /\ Ended' = Ended
    BY <2>2 DEF Accepted, Ended
  <2>4. Between("counting")' = Between("counting") /\ Between("failing")' = Between("failing")
    BY <1>2, <2>1, <2>2, BetweenMoves
  <2>5. QED
    BY <1>1, <2>2, <2>3, <2>4, CountsFrame
<1>8. QED
  BY <1>3, <1>4, <1>5, <1>6, <1>7 DEF Work

LEMMA CountsOthers ==
  ASSUME IInv, uncounted \subseteq Accepted, Control \/ UNCHANGED vars
  PROVE  CountsStep
<1> USE DEF IInv
<1>1. UNCHANGED <<task, total, uncounted, completed, processed, failed>>
  BY DEF Control, ScaleTick, ScaleApply, ScalerStop, Resize, BeginShutdown, ShutdownDrained,
     ShutdownComplete,
     ShutdownTimeout, ShutdownMoves, WaitCall, Waiting, WaitReadQueue, WaitReadCompleted,
     WaitReadTotal, WaitStep, taskVars, countVars, vars
<1>2. \A w \in Workers : wpc'[w] = wpc[w] \/ (wpc[w] \in {"none", "stopped"} /\ wpc'[w] = "idle")
  <2>1. CASE ScaleApply
    <3>1. ASSUME NEW w \in Workers, Spawned(w, Clamp(target, minW, maxW))
          PROVE  wpc[w] \in {"none", "stopped"}
      <4>1. w \notin Live
        BY <3>1 DEF Spawned, PoolIntact, TypeOK, Workers
      <4>2. QED
        BY <4>1 DEF Live
    <3>2. QED
      BY <2>1, <3>1 DEF ScaleApply
  <2>2. CASE ~ScaleApply
    BY <2>2 DEF Control, ScaleTick, ScalerStop, Resize, BeginShutdown, ShutdownDrained, ShutdownComplete,
       ShutdownTimeout, ShutdownMoves, WaitCall, Waiting, WaitReadQueue, WaitReadCompleted,
       WaitReadTotal, WaitStep, workVars, vars
  <2>3. QED
    BY <2>1, <2>2
<1>3. \A s \in {"counting", "failing"} : Between(s)' = Between(s)
  <2>1. ASSUME NEW s \in {"counting", "failing"}
        PROVE  {w \in Workers : wpc'[w] = s} = {w \in Workers : wpc[w] = s}
    BY <1>2
  <2>2. QED
    BY <2>1 DEF Between
<1>4. Accepted' = Accepted /\ Ended' = Ended
  BY <1>1 DEF Accepted, Ended
<1>5. QED
  BY <1>1, <1>3, <1>4, CountsFrame

LEMMA CountsNext ==
  ASSUME IInv, uncounted \subseteq Accepted, [Next]_vars
  PROVE  CountsStep
BY CountsSubmission, CountsWork, CountsOthers DEF Next

-----------------------------------------------------------------------------
(* The two counters of 32 bits wrap, and keep what they count modulo 2^32. *)

\* What is left when whole turns are taken away.
LEMMA OneTurn ==
  ASSUME NEW M \in Nat \ {0}, NEW d \in Int, d % M = 0
  PROVE  (d - M) % M = 0 /\ (d + M) % M = 0
<1>1. ASSUME NEW n \in Int PROVE /\ n = M * (n \div M) + (n % M)
                                 /\ n % M \in 0..M - 1 /\ n \div M \in Int
  OBVIOUS
<1>2. ASSUME NEW q \in Int, NEW r \in 0..M - 1, M * q = r PROVE r = 0
  <2>1. CASE q >= 1
    <3>1. M * q >= M
      BY <2>1
    <3>2. QED
      BY <3>1, <1>2
  <2>2. CASE q <= -1
    <3>1. M * q <= -M
      BY <2>2
    <3>2. QED
      BY <3>1, <1>2
  <2>3. CASE q = 0
    BY <2>3, <1>2
  <2>4. QED
    BY <2>1, <2>2, <2>3
<1>3. d = M * (d \div M)
  BY <1>1
<1>4. (d - M) % M = 0
  <2> DEFINE r == (d - M) % M
             q == (d \div M) - 1 - ((d - M) \div M)
  <2>1. d - M = M * ((d - M) \div M) + r /\ r \in 0..M - 1 /\ q \in Int
    <3>1. d - M \in Int
      OBVIOUS
    <3>2. d \div M \in Int /\ (d - M) \div M \in Int
      BY <3>1, <1>1
    <3>3. q \in Int
      BY <3>2
    <3>4. QED
      BY <3>1, <3>3, <1>1
  <2>2. M * q = M * (d \div M) - M - M * ((d - M) \div M)
    OBVIOUS
  <2>3. M * q = r
    BY <1>3, <2>1, <2>2
  <2>4. QED
    <3> HIDE DEF q, r
    <3>1. r = 0
      BY <2>1, <2>3, <1>2
    <3>2. QED
      BY <3>1 DEF r
<1>5. (d + M) % M = 0
  <2> DEFINE r == (d + M) % M
             q == (d \div M) + 1 - ((d + M) \div M)
  <2>1. d + M = M * ((d + M) \div M) + r /\ r \in 0..M - 1 /\ q \in Int
    <3>1. d + M \in Int
      OBVIOUS
    <3>2. d \div M \in Int /\ (d + M) \div M \in Int
      BY <3>1, <1>1
    <3>3. q \in Int
      BY <3>2
    <3>4. QED
      BY <3>1, <3>3, <1>1
  <2>2. M * q = M * (d \div M) + M - M * ((d + M) \div M)
    OBVIOUS
  <2>3. M * q = r
    BY <1>3, <2>1, <2>2
  <2>4. QED
    <3> HIDE DEF q, r
    <3>1. r = 0
      BY <2>1, <2>3, <1>2
    <3>2. QED
      BY <3>1 DEF r
<1>6. QED
  BY <1>4, <1>5

LEMMA CongruentInc ==
  ASSUME NEW a \in Int, NEW b \in Int
  PROVE  /\ Inc32(a) \in Int
         /\ Congruent(a, b) => Congruent(Inc32(a), b + 1)
         /\ Congruent(b, a) => Congruent(b + 1, Inc32(a))
<1> DEFINE M == 2 * MaxInt32 + 2
<1>1. M \in Nat \ {0} /\ MaxInt32 \in Int
  BY SizesAssumption
<1>2. CASE a # MaxInt32
  <2>1. Inc32(a) = a + 1 /\ (a + 1) - (b + 1) = a - b /\ (b + 1) - (a + 1) = b - a
    BY <1>2 DEF Inc32
  <2>2. QED
    BY <2>1 DEF Congruent
<1>3. CASE a = MaxInt32
  <2>1. Inc32(a) = a + 1 - M
    BY <1>1, <1>3 DEF Inc32
  <2>2. Inc32(a) - (b + 1) = (a - b) - M /\ (b + 1) - Inc32(a) = (b - a) + M /\ Inc32(a) \in Int
    BY <1>1, <2>1
  <2>3. Congruent(a, b) => ((a - b) - M) % M = 0
    <3>1. Congruent(a, b) => (a - b) % M = 0
      BY DEF Congruent
    <3>2. a - b \in Int
      OBVIOUS
    <3> HIDE DEF M
    <3>3. QED
      BY <1>1, <3>1, <3>2, OneTurn
  <2>4. Congruent(b, a) => ((b - a) + M) % M = 0
    <3>1. Congruent(b, a) => (b - a) % M = 0
      BY DEF Congruent
    <3>2. b - a \in Int
      OBVIOUS
    <3> HIDE DEF M
    <3>3. QED
      BY <1>1, <3>1, <3>2, OneTurn
  <2>5. QED
    BY <2>2, <2>3, <2>4 DEF Congruent
<1>4. QED
  BY <1>2, <1>3

LEMMA CongruentSelf == ASSUME NEW a \in Int PROVE Congruent(a, a)
<1>1. 2 * MaxInt32 + 2 \in Nat \ {0}
  BY SizesAssumption
<1>2. \A M \in Nat \ {0} : 0 % M = 0
  OBVIOUS
<1>3. a - a = 0
  OBVIOUS
<1>4. QED
  BY <1>1, <1>2, <1>3 DEF Congruent

CountersInv ==
  /\ uncounted \subseteq Accepted
  /\ processed = Served + Cardinality(Ended)
  /\ Congruent(total, AllSubmitted)
  /\ Congruent(AllSucceeded, completed)

LEMMA CountersStart ==
  ASSUME Init
  PROVE  /\ CountersInv /\ Cardinality(Accepted) = 0 /\ Cardinality(Ended) = 0
         /\ AllSubmitted = Served /\ AllSucceeded = Served
<1>1. Accepted = {} /\ Ended = {} /\ uncounted = {}
  BY DEF Init, Accepted, Ended
<1>2. Cardinality({}) = 0
  BY FS_EmptySet
<1>3. At("counting") = {} /\ At("failing") = {}
  BY DEF Init, At
<1>4. Between("counting") = 0 /\ Between("failing") = 0
  BY <1>2, <1>3, BetweenType
<1>5. total = Served /\ completed = Served /\ processed = Served /\ failed = 0 /\ Served \in Int
  BY SizesAssumption DEF Init
<1>6. AllSubmitted = Served
  BY <1>1, <1>2, <1>5 DEF AllSubmitted
<1>7. AllSucceeded = Served
  BY <1>4, <1>5 DEF AllSucceeded
<1>8. Congruent(Served, Served)
  BY <1>5, CongruentSelf
<1>9. processed = Served + Cardinality(Ended)
  BY <1>1, <1>2, <1>5
<1>10. QED
  BY <1>1, <1>2, <1>5, <1>6, <1>7, <1>8, <1>9 DEF CountersInv

LEMMA EndedFinite == Cardinality(Ended') \in Nat
<1>1. Ended' \in SUBSET Tasks
  BY DEF Ended
<1>2. QED
  BY <1>1, FiniteTasks

LEMMA CountersStep ==
  ASSUME IInv, CountersInv, [Next]_vars
  PROVE  CountersInv'
<1>1. TypeOK /\ TypeOK' /\ CountsStep
  BY CountsNext, TypeStep DEF IInv, CountersInv
<1>2. uncounted' \subseteq Accepted'
  BY <1>1 DEF CountsStep
<1>3. processed' = Served + Cardinality(Ended')
  <2>1. Cardinality(Ended') \in Nat /\ Cardinality(Ended) \in Nat
    BY <1>1, CountsType, EndedFinite
  <2>2. /\ processed' - Cardinality(Ended') = processed - Cardinality(Ended)
        /\ processed = Served + Cardinality(Ended)
    BY <1>1 DEF CountsStep, CountersInv
  <2>3. processed' \in Int /\ processed \in Int /\ Served \in Int
    BY <1>1, SizesAssumption DEF TypeOK
  <2>4. QED
    BY <2>1, <2>2, <2>3
<1>4. AllSubmitted \in Int /\ AllSucceeded \in Int /\ total \in Int /\ completed \in Int
  BY <1>1, CountsType DEF TypeOK
<1>5. Congruent(total, AllSubmitted)'
  <2>1. Congruent(total', AllSubmitted')
    BY <1>1, <1>4, CongruentInc DEF CountsStep, CountersInv
  <2>2. QED
    BY <2>1 DEF Congruent
<1>6. Congruent(AllSucceeded, completed)'
  <2>1. Congruent(AllSucceeded', completed')
    BY <1>1, <1>4, CongruentInc DEF CountsStep, CountersInv
  <2>2. QED
    BY <2>1 DEF Congruent
<1>7. QED
  BY <1>2, <1>3, <1>5, <1>6 DEF CountersInv

LEMMA CountersMeaning ==
  ASSUME TypeOK, CountersInv
  PROVE  CountersAgree
<1>1. /\ AllSubmitted \in Int /\ AllSucceeded \in Int /\ Cardinality(Accepted) \in Int
      /\ Cardinality(uncounted) \in Int /\ Served \in Int
      /\ Between("counting") \in Int /\ Between("failing") \in Int
      /\ total \in Int /\ completed \in Int /\ processed \in Int /\ failed \in Int
  BY CountsType, BetweenType, SizesAssumption DEF TypeOK
<1>2. (total + Cardinality(uncounted)) - (Served + Cardinality(Accepted)) = total - AllSubmitted
  BY <1>1 DEF AllSubmitted
<1>3. processed - (completed + failed + Between("counting") + Between("failing"))
        = AllSucceeded - completed
  BY <1>1 DEF AllSucceeded
<1>4. Congruent(total + Cardinality(uncounted), Served + Cardinality(Accepted))
  <2>1. (total - AllSubmitted) % (2 * MaxInt32 + 2) = 0
    BY DEF CountersInv, Congruent
  <2>2. ((total + Cardinality(uncounted)) - (Served + Cardinality(Accepted))) % (2 * MaxInt32 + 2) = 0
    BY <1>2, <2>1, Zenon
  <2>3. QED
    BY <2>2 DEF Congruent
<1>5. Congruent(processed, completed + failed + Between("counting") + Between("failing"))
  BY <1>3 DEF CountersInv, Congruent
<1>6. QED
  BY <1>4, <1>5 DEF CountersInv, CountersAgree

\* The counters that GetStats and Wait read count every task once, however the
\* clients and the workers interleave, for any number of tasks and across the
\* wrap of the 32-bit ones (worker_pool.go 234-249).
THEOREM CountersHold == Spec => []CountersAgree
<1>1. Init => CountersInv
  BY CountersStart
<1>2. IInv /\ CountersInv /\ [Next]_vars => CountersInv'
  BY CountersStep
<1>3. IInv /\ CountersInv => CountersAgree
  BY CountersMeaning DEF IInv
<1>4. QED
  BY <1>1, <1>2, <1>3, Inductive, PTL DEF Spec

-----------------------------------------------------------------------------
(* Wait, as long as nothing wraps and nobody submits any more: the counters*)
(* are then the numbers themselves, and the number of successes that Wait  *)
(* has seen reaches the number of submissions only when everything has     *)
(* ended.                                                                  *)

\* The caller has no submission under way and makes no more, and the pool never
\* sees more tasks than an int32 counts.
WaitAssumption ==
  WaitStyle \in {"never", "quiet"} /\ Served + Cardinality(Tasks) <= MaxInt32

Exact == total = AllSubmitted /\ completed = AllSucceeded

WaitInv ==
  /\ WaitStyle = "never" => waitPc = "off"
  /\ waitPc # "off" => uncounted = {} /\ owed \subseteq Accepted
  /\ waitPc = "total" => seen <= completed
  /\ waitPc = "returned" => owed \subseteq Ended

LEMMA PrimedCounts ==
  ASSUME TypeOK'
  PROVE  /\ Cardinality(Accepted') \in Nat /\ Cardinality(Accepted') <= Cardinality(Tasks)
         /\ Cardinality(Ended') \in Nat /\ Cardinality(Ended') <= Cardinality(Tasks)
         /\ Cardinality(uncounted') \in Nat
         /\ \A s : Between(s)' \in Nat
<1>1. Accepted' \in SUBSET Tasks /\ Ended' \in SUBSET Tasks /\ uncounted' \in SUBSET Tasks
  BY DEF Accepted, Ended, TypeOK
<1>2. ASSUME NEW s PROVE Between(s)' \in Nat
  <2>1. {w \in Workers : wpc'[w] = s} \in SUBSET Workers
    OBVIOUS
  <2>2. QED
    BY <2>1, FiniteWorkers DEF Between
<1>3. QED
  BY <1>1, <1>2, FiniteTasks

LEMMA ExactStep ==
  ASSUME WaitAssumption, IInv, CountersInv, Exact, [Next]_vars
  PROVE  Exact' /\ completed <= completed'
<1>1. TypeOK /\ TypeOK' /\ CountsStep /\ CountersInv'
  BY CountsNext, TypeStep, CountersStep DEF IInv, CountersInv
<1>2. /\ AllSubmitted \in Int /\ AllSucceeded \in Int
      /\ Served \in Int /\ MaxInt32 \in Int /\ Cardinality(Tasks) \in Int
      /\ Served + Cardinality(Tasks) <= MaxInt32
  BY <1>1, CountsType, SizesAssumption, TasksAssumption, FS_CardinalityType DEF WaitAssumption
<1>3. total' = AllSubmitted'
  <2>1. AllSubmitted' <= MaxInt32
    BY <1>1, <1>2, PrimedCounts DEF AllSubmitted
  <2>2. CASE AllSubmitted' = AllSubmitted + 1
    <3>1. total # MaxInt32 /\ total = AllSubmitted
      BY <1>2, <2>1, <2>2 DEF Exact
    <3>2. Inc32(total) = AllSubmitted + 1 /\ AllSubmitted + 1 # AllSubmitted
      BY <1>2, <3>1 DEF Inc32
    <3>3. QED
      BY <1>1, <2>2, <3>1, <3>2 DEF CountsStep
  <2>3. QED
    BY <1>1, <2>2 DEF CountsStep, Exact
<1>4. completed' = AllSucceeded' /\ completed <= completed'
  <2>1. AllSucceeded' <= MaxInt32
    <3>1. processed' = Served + Cardinality(Ended')
      BY <1>1 DEF CountersInv
    <3>2. /\ Cardinality(Ended') \in Nat /\ Cardinality(Ended') <= Cardinality(Tasks)
          /\ Between("counting")' \in Nat /\ Between("failing")' \in Nat
          /\ failed' \in Nat
      BY <1>1, PrimedCounts DEF TypeOK
    <3>3. QED
      BY <1>2, <3>1, <3>2 DEF AllSucceeded
  <2>2. CASE AllSucceeded' = AllSucceeded + 1
    <3>1. completed # MaxInt32 /\ completed = AllSucceeded
      BY <1>2, <2>1, <2>2 DEF Exact
    <3>2. Inc32(completed) = AllSucceeded + 1 /\ AllSucceeded + 1 # AllSucceeded
      BY <1>2, <3>1 DEF Inc32
    <3>3. completed' = AllSucceeded + 1
      BY <1>1, <2>2, <3>1, <3>2 DEF CountsStep
    <3>4. QED
      BY <1>2, <2>2, <3>1, <3>3
  <2>3. CASE completed' = completed /\ AllSucceeded' = AllSucceeded
    BY <1>2, <2>3 DEF Exact
  <2>4. QED
    BY <1>1, <2>2, <2>3 DEF CountsStep
<1>5. QED
  BY <1>3, <1>4 DEF Exact

\* All that was submitted has ended once Wait has seen as many successes.
LEMMA EverythingEnded ==
  ASSUME IInv, CountersInv, Exact, uncounted = {}, seen <= completed, seen >= total
  PROVE  Ended = Accepted
<1>1. TypeOK
  BY DEF IInv
<1>2. /\ Between("counting") \in Nat /\ Between("failing") \in Nat /\ failed \in Nat
      /\ Cardinality(Accepted) \in Nat /\ Cardinality(Ended) \in Nat /\ Served \in Int
      /\ total \in Int /\ completed \in Int /\ seen \in Int
  BY <1>1, BetweenType, CountsType, SizesAssumption DEF TypeOK
<1>3. total = Served + Cardinality(Accepted)
  <2>1. Cardinality(uncounted) = 0
    BY FS_EmptySet
  <2>2. QED
    BY <1>2, <2>1 DEF Exact, AllSubmitted
<1>4. completed <= Served + Cardinality(Ended)
  BY <1>2 DEF Exact, AllSucceeded, CountersInv
<1>5. Cardinality(Accepted) <= Cardinality(Ended)
  BY <1>2, <1>3, <1>4
<1>6. Ended \subseteq Accepted /\ IsFiniteSet(Accepted)
  BY <1>1, CountsType DEF Ended, Accepted
<1>7. Cardinality(Ended) = Cardinality(Accepted)
  BY <1>1, <1>2, <1>5, CountsType
<1>8. QED
  BY <1>6, <1>7, FS_Subset

LEMMA WaitSteps ==
  ASSUME WaitAssumption, IInv, CountersInv, Exact, WaitInv, [Next]_vars
  PROVE  WaitInv'
<1>1. CountsStep /\ completed <= completed' /\ TypeOK /\ TypeOK'
  BY CountsNext, ExactStep, TypeStep DEF IInv, CountersInv
<1>2. Ended \subseteq Ended' /\ Accepted \subseteq Accepted'
  BY <1>1 DEF CountsStep
<1>3. CASE WaitCall
  <2>1. /\ waitPc' = "queue" /\ owed' = Accepted \ uncounted
        /\ WaitStyle # "never" /\ uncounted = {}
        /\ UNCHANGED <<task, uncounted>>
    BY <1>3 DEF WaitCall, WaitStep, taskVars, countVars, WaitAssumption
  <2>2. QED
    BY <1>2, <2>1 DEF WaitInv, WaitAssumption
<1>4. CASE Waiting
  <2>1. UNCHANGED <<task, uncounted, completed, owed>> /\ waitPc # "off"
    BY <1>4 DEF Waiting, WaitReadQueue, WaitReadCompleted, WaitReadTotal, WaitStep, taskVars,
       countVars
  <2>2. Accepted' = Accepted /\ Ended' = Ended
    BY <2>1 DEF Accepted, Ended
  <2>3. waitPc' = "total" => seen' = completed
    BY <1>4 DEF Waiting, WaitReadQueue, WaitReadCompleted, WaitReadTotal, WaitStep
  <2>4. waitPc' = "returned" => waitPc = "total" /\ ~(seen < total)
    BY <1>4 DEF Waiting, WaitReadQueue, WaitReadCompleted, WaitReadTotal, WaitStep, AllCompleted
  <2>5. ASSUME waitPc' = "returned" PROVE owed' \subseteq Ended'
    <3>1. seen <= completed /\ uncounted = {} /\ owed \subseteq Accepted
      BY <2>1, <2>4, <2>5 DEF WaitInv
    <3>2. seen >= total
      BY <1>1, <2>4, <2>5 DEF TypeOK
    <3>3. QED
      BY <2>1, <2>2, <3>1, <3>2, EverythingEnded
  <2>6. waitPc' = "total" => seen' <= completed'
    BY <1>1, <2>1, <2>3 DEF TypeOK
  <2>7. QED
    BY <2>1, <2>2, <2>5, <2>6 DEF WaitInv
<1>5. CASE \E t \in Tasks : Submission(t)
  <2>1. UNCHANGED waitVars
    BY <1>5 DEF Submission, Enqueue, CountSubmitted, RefuseShutdown, RefuseFull, Refuse
  <2>2. waitPc # "off" => uncounted' \subseteq uncounted \/ WaitStyle = "never"
    BY <1>5 DEF Submission, Enqueue, CountSubmitted, RefuseShutdown, RefuseFull, Refuse, countVars,
       WaitAssumption
  <2>3. QED
    BY <1>1, <1>2, <2>1, <2>2 DEF WaitInv, waitVars, TypeOK
<1>6. CASE (\E w \in Workers : Work(w)) \/ UNCHANGED vars \/ (Control /\ ~WaitCall /\ ~Waiting)
  <2>1. UNCHANGED <<waitVars, uncounted>>
    BY <1>6 DEF Work, Take, Exit, Finish, CountFailed, CountCompleted, Notify, Control, ScaleTick,
       ScaleApply, ScalerStop, Resize, BeginShutdown, ShutdownDrained, ShutdownComplete,
       ShutdownTimeout, ShutdownMoves,
       countVars, vars
  <2>2. QED
    BY <1>1, <1>2, <2>1 DEF WaitInv, waitVars, TypeOK
<1>7. QED
  BY <1>3, <1>4, <1>5, <1>6 DEF Next, Control

\* When Wait is called with nothing being submitted any more, it has not returned
\* before every task whose submission had returned has ended, as long as the
\* 32-bit counters have not wrapped (worker_pool.go 490-507).
THEOREM WaitIsSound ==
  ASSUME WaitAssumption
  PROVE  Spec => []WaitSound
<1> DEFINE I == WaitAssumption /\ Exact /\ WaitInv
<1>1. Init => I
  <2>1. Init => Exact
    BY CountersStart DEF Exact, Init
  <2>2. Init => WaitInv
    BY DEF Init, WaitInv
  <2>3. QED
    BY <2>1, <2>2
<1>2. IInv /\ CountersInv /\ I /\ [Next]_vars => I'
  BY ExactStep, WaitSteps DEF WaitAssumption
<1>3. I => WaitSound
  BY DEF WaitInv, WaitSound, Ended
<1>4. Init => CountersInv
  BY CountersStart
<1>5. IInv /\ CountersInv /\ [Next]_vars => CountersInv'
  BY CountersStep
<1>6. QED
  BY <1>1, <1>2, <1>3, <1>4, <1>5, Inductive, PTL DEF Spec
=============================================================================
