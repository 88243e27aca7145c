----------------------------- MODULE WorkerPool -----------------------------
(***************************************************************************)
(* internal/pool/worker_pool.go: a bounded task queue, worker goroutines,  *)
(* an autoscaler goroutine, Resize, Shutdown and Wait.                     *)
(*                                                                         *)
(* One action is one step between two points where goroutines can          *)
(* interleave: a channel operation, an atomic counter, p.mu, a select.     *)
(* Time, buffers, logging and the metrics other than the active-workers    *)
(* gauge are left out.                                                     *)
(***************************************************************************)
EXTENDS Integers, Sequences, FiniteSets

CONSTANTS
  Tasks,           \* tasks the clients submit
  BatchTasks,      \* those sent by SubmitBatch, which waits for queue room
  Outcomes,        \* what executing a task may do: "ok", "error", "panic"
  QueueSize,       \* capacity of taskQueue
  MinWorkers, MaxWorkers,  \* Config, after NewWorkerPool's defaults
  Resizes,         \* the <<min, max>> pairs Resize is called with
  TopWorkers,      \* no configured maximum is above this
  UtilizationPct,  \* utilizationTarget, in percent
  WaitStyle,       \* Wait is called "never", when "quiet" (no submission is
                   \* under way and none will follow) or at "any" time
  Served,          \* tasks submitted and completed before Init
  MaxInt32,        \* the largest int32 (scaled down by the runs)
  NoTask           \* what the hand of any other worker holds

ASSUME SizesAssumption ==
  /\ QueueSize \in Nat \ {0} /\ UtilizationPct \in Nat
  /\ MinWorkers \in Nat \ {0} /\ MaxWorkers \in Nat \ {0}
  /\ TopWorkers \in Nat /\ MaxWorkers <= TopWorkers
  /\ MaxInt32 \in Nat /\ Served \in Nat /\ Served <= MaxInt32
ASSUME ResizesAssumption ==
  Resizes \subseteq {r \in Int \X Int : r[2] <= TopWorkers}
ASSUME TasksAssumption ==
  /\ IsFiniteSet(Tasks) /\ BatchTasks \subseteq Tasks /\ NoTask \notin Tasks
  /\ Outcomes \subseteq {"ok", "error", "panic"} 
  /\ WaitStyle \in {"never", "quiet", "any"}

\* One goroutine more than any configuration allows, so that spawning too
\* many is a reachable mistake and not an impossible one.
Workers == 1..TopWorkers + 1

VARIABLES
  task,      \* task[t]: "new", "rejected", "queued", "running" or "ended"
  queue,     \* taskQueue
  uncounted, \* tasks in the channel whose totalTasks++ is still to come
  wpc,       \* wpc[w]: where worker w is; "none" before it is spawned
  hand,      \* hand[w]: the task worker w is executing
  current,   \* currentWorkers
  minW, maxW,  \* minWorkers, maxWorkers
  gauge,     \* worker_pool_active_workers
  muStuck,   \* TRUE once Resize waits for the mutex it holds itself
  scalerPc, target,  \* autoscaler goroutine; the argument it gives scale
  cancelled, \* p.ctx is done
  shutdown,  \* the Shutdown call: "none", "waiting", "drained" (it has seen
             \* every worker leave), "complete" or "timedout"
  total, completed, processed, failed,  \* totalTasks .. tasksFailed
  waitPc, seen,  \* the Wait call; the completedTasks it has loaded
  owed       \* tasks whose submission had returned when Wait was called

taskVars  == <<task, queue>>
workVars  == <<wpc, hand>>
sizeVars  == <<current, minW, maxW, gauge, muStuck>>
scaleVars == <<scalerPc, target>>
stopVars  == <<cancelled, shutdown>>
countVars == <<total, uncounted, completed, processed, failed>>
waitVars  == <<waitPc, seen, owed>>
vars == <<taskVars, workVars, sizeVars, scaleVars, stopVars, countVars, waitVars>>

TaskState   == {"new", "rejected", "queued", "running", "ended"}
WorkerState == {"none", "idle", "executing", "counting", "failing",
                "notifying", "stopped"}

Live     == {w \in Workers : wpc[w] \notin {"none", "stopped"}}
Accepted == {t \in Tasks : task[t] \in {"queued", "running", "ended"}}
Ended    == {t \in Tasks : task[t] = "ended"}

Least(a, b) == IF a < b THEN a ELSE b
Most(a, b)  == IF a < b THEN b ELSE a
Inc32(n)    == IF n = MaxInt32 THEN -MaxInt32 - 1 ELSE n + 1

-----------------------------------------------------------------------------
(* Guards and results the actions below are made of. Above a definition may*)
(* stand a faulty form of it, for the mutation runs that show that the     *)
(* properties notice the fault; no action uses it.                         *)

\* Room for one more task in the channel.
RoomForOneMore == Len(queue) <= QueueSize
Room           == Len(queue) < QueueSize

\* What a receive leaves in the channel.
NotReceived == queue
Remaining   == Tail(queue)

\* Where a worker goes after executeTask: a panic is recovered into an error.
NoRecover(o)    == IF o = "ok" THEN "counting"
                   ELSE IF o = "error" THEN "failing" ELSE "stopped"
ForgetPanic(o)  == IF o = "ok" THEN "counting"
                   ELSE IF o = "error" THEN "failing" ELSE "idle"
AfterRun(o)     == IF o = "ok" THEN "counting" ELSE "failing"

\* An idle worker's select sees the done context.
SeesDoneWithTask(w) == wpc[w] = "idle" /\ cancelled /\ queue # <<>>
SeesDone(w)         == wpc[w] = "idle" /\ cancelled

\* scale's bounds: the maximum is tested first, so it wins over the minimum.
Clamp(n, mn, mx) == IF n > mx THEN mx ELSE Most(n, mn)

\* scale starts the goroutines current+1 .. goal.
AllButLast(w, goal) == w > current /\ w < goal
Spawned(w, goal) == w > current /\ w <= goal

\* The WaitGroup of the workers is at zero: every spawned worker is in it.
InitialReturned == \A w \in 1..Least(MinWorkers, MaxWorkers) : wpc[w] = "stopped"
AllReturned == Live = {}

\* The loop condition of Wait, after its reads, is false.
QueueDrained  == TRUE
MoreCompleted == seen > total
AllCompleted  == ~(seen < total)

-----------------------------------------------------------------------------
(* NewWorkerPool: workers 1..Clamp(MinWorkers) are running.                *)

InitialWorkers == Clamp(MinWorkers, MinWorkers, MaxWorkers)

Init ==
  /\ task = [t \in Tasks |-> "new"] /\ queue = <<>> /\ uncounted = {}
  /\ wpc = [w \in Workers |-> IF w <= InitialWorkers THEN "idle" ELSE "none"]
  /\ hand = [w \in Workers |-> NoTask]
  /\ current = InitialWorkers /\ minW = MinWorkers /\ maxW = MaxWorkers
  /\ gauge = InitialWorkers /\ muStuck = FALSE
  /\ scalerPc = "idle" /\ target = InitialWorkers
  /\ cancelled = FALSE /\ shutdown = "none"
  /\ total = Served /\ completed = Served
  /\ processed = Served /\ failed = 0
  /\ waitPc = "off" /\ seen = 0 /\ owed = {}

-----------------------------------------------------------------------------
(* Submit and SubmitBatch. A done context and room in the queue are both   *)
(* ready cases of their select, so a cancelled pool may accept a task.     *)

Enqueue(t) ==
  /\ task[t] = "new" /\ Room
  /\ WaitStyle = "quiet" => waitPc = "off"
  /\ task' = [task EXCEPT ![t] = "queued"]
  /\ queue' = Append(queue, t)
  /\ uncounted' = uncounted \union {t}
  /\ UNCHANGED <<workVars, sizeVars, scaleVars, stopVars, waitVars,
                 total, completed, processed, failed>>

CountSubmitted(t) ==
  /\ t \in uncounted
  /\ uncounted' = uncounted \ {t}
  /\ total' = Inc32(total)
  /\ UNCHANGED <<taskVars, workVars, sizeVars, scaleVars, stopVars, waitVars,
                 completed, processed, failed>>

Refuse(t) ==
  /\ task[t] = "new"
  /\ task' = [task EXCEPT ![t] = "rejected"]
  /\ UNCHANGED <<queue, workVars, sizeVars, scaleVars, stopVars, countVars,
                 waitVars>>

RefuseShutdown(t) == cancelled /\ Refuse(t)

\* Submit's default case; SubmitBatch has none and keeps waiting.
RefuseFull(t) ==
  t \notin BatchTasks /\ ~cancelled /\ ~Room /\ Refuse(t)

-----------------------------------------------------------------------------
(* worker and executeTask.                                                 *)

Take(w) ==
  /\ wpc[w] = "idle" /\ queue # <<>>
  /\ wpc' = [wpc EXCEPT ![w] = "executing"]
  /\ hand' = [hand EXCEPT ![w] = Head(queue)]
  /\ task' = [task EXCEPT ![Head(queue)] = "running"]
  /\ queue' = Remaining
  /\ UNCHANGED <<sizeVars, scaleVars, stopVars, countVars, waitVars>>

\* The other ready case of the worker's select.
Exit(w) ==
  /\ SeesDone(w)
  /\ wpc' = [wpc EXCEPT ![w] = "stopped"]
  /\ UNCHANGED <<taskVars, hand, sizeVars, scaleVars, stopVars, countVars,
                 waitVars>>

\* executeTask returns (a panic is recovered into an error), tasksProcessed++.
Finish(w) ==
  /\ wpc[w] = "executing"
  /\ \E o \in Outcomes : wpc' = [wpc EXCEPT ![w] = AfterRun(o)]
  /\ task' = [task EXCEPT ![hand[w]] = "ended"]
  /\ processed' = processed + 1
  /\ hand' = [hand EXCEPT ![w] = NoTask]
  /\ UNCHANGED <<queue, sizeVars, scaleVars, stopVars, total, uncounted,
                 completed, failed, waitVars>>

CountFailed(w) ==
  /\ wpc[w] = "failing"
  /\ failed' = failed + 1
  /\ wpc' = [wpc EXCEPT ![w] = "idle"]
  /\ UNCHANGED <<taskVars, hand, sizeVars, scaleVars, stopVars, total,
                 uncounted, completed, processed, waitVars>>

CountCompleted(w) ==
  /\ wpc[w] = "counting"
  /\ completed' = Inc32(completed)
  /\ wpc' = [wpc EXCEPT ![w] = "notifying"]
  /\ UNCHANGED <<taskVars, hand, sizeVars, scaleVars, stopVars, total,
                 uncounted, processed, failed, waitVars>>

\* notifyProgress reads the callbacks under p.mu.RLock.
Notify(w) ==
  /\ wpc[w] = "notifying" /\ ~muStuck
  /\ wpc' = [wpc EXCEPT ![w] = "idle"]
  /\ UNCHANGED <<taskVars, hand, sizeVars, scaleVars, stopVars, countVars,
                 waitVars>>

-----------------------------------------------------------------------------
(* autoScale reads the sizes, then calls scale: workers, resizes and a     *)
(* shutdown run in between.                                                *)

Busy  == 100 * Len(queue) > UtilizationPct * QueueSize
Quiet == 200 * Len(queue) < UtilizationPct * QueueSize

ScaleTick ==
  /\ scalerPc = "idle"
  /\ \/ /\ Busy /\ current < maxW
        /\ target' = Least(current + (current \div 5) + 1, maxW)
     \/ /\ ~(Busy /\ current < maxW) /\ Quiet /\ current > minW
        /\ target' = Most(current - (current \div 10), minW)
  /\ scalerPc' = "scaling"
  /\ UNCHANGED <<taskVars, workVars, sizeVars, stopVars, countVars, waitVars>>

\* scale(target): spawns the missing workers; a smaller target stops none.
ScaleApply ==
  LET goal == Clamp(target, minW, maxW) IN
  /\ scalerPc = "scaling" /\ ~muStuck
  /\ wpc' = [w \in Workers |->
               IF Spawned(w, goal) THEN "idle" ELSE wpc[w]]
  /\ current' = Most(current, goal)
  /\ gauge' = goal
  /\ scalerPc' = "idle"
  /\ UNCHANGED <<taskVars, hand, minW, maxW, muStuck, target, stopVars,
                 countVars, waitVars>>

ScalerStop ==
  /\ scalerPc = "idle" /\ cancelled
  /\ scalerPc' = "stopped"
  /\ UNCHANGED <<taskVars, workVars, sizeVars, target, stopVars, countVars,
                 waitVars>>

\* Resize holds p.mu and, when the pool is outside its new bounds, calls
\* scale, which asks for p.mu again: sync.RWMutex is not reentrant.
Resize(mn, mx) ==
  /\ ~muStuck
  /\ minW' = IF mn > 0 THEN mn ELSE minW
  /\ maxW' = IF mx > 0 /\ mx >= minW' THEN mx ELSE maxW
  /\ muStuck' = (current < minW' \/ current > maxW')
  /\ UNCHANGED <<taskVars, workVars, current, gauge, scaleVars, stopVars,
                 countVars, waitVars>>

-----------------------------------------------------------------------------
(* Shutdown: cancel, then wait for the workers or for the timeout.         *)

BeginShutdown ==
  /\ shutdown = "none"
  /\ shutdown' = "waiting" /\ cancelled' = TRUE
  /\ UNCHANGED <<taskVars, workVars, sizeVars, scaleVars, countVars, waitVars>>

ShutdownMoves(from, to) ==
  /\ shutdown \in from
  /\ shutdown' = to
  /\ UNCHANGED <<taskVars, workVars, sizeVars, scaleVars, cancelled, countVars,
                 waitVars>>

\* Its goroutine comes back from workerWG.Wait; the select notices later, and
\* scale may spawn in between.
ShutdownDrained  == AllReturned /\ ShutdownMoves({"waiting"}, "drained")
ShutdownComplete == ShutdownMoves({"drained"}, "complete")
ShutdownTimeout  == ShutdownMoves({"waiting", "drained"}, "timedout")

-----------------------------------------------------------------------------
(* Wait: one step per read of its loop condition. A failed test sleeps and *)
(* starts again from the queue length.                                     *)

WaitStep(from, to) ==
  /\ waitPc = from
  /\ waitPc' = to
  /\ UNCHANGED <<taskVars, workVars, sizeVars, scaleVars, stopVars, countVars>>

WaitCall ==
  /\ WaitStyle = "any" \/ (WaitStyle = "quiet" /\ uncounted = {})
  /\ WaitStep("off", "queue")
  /\ owed' = Accepted \ uncounted
  /\ UNCHANGED seen

WaitReadQueue == /\ queue = <<>>
                 /\ WaitStep("queue", "completed")
                 /\ UNCHANGED <<seen, owed>>

WaitReadCompleted == /\ WaitStep("completed", "total")
                     /\ seen' = completed
                     /\ UNCHANGED owed

WaitReadTotal == /\ WaitStep("total", IF AllCompleted THEN "returned" ELSE "queue")
                 /\ UNCHANGED <<seen, owed>>

Waiting == WaitReadQueue \/ WaitReadCompleted \/ WaitReadTotal

-----------------------------------------------------------------------------
Submission(t) == \/ Enqueue(t)
                 \/ CountSubmitted(t)
                 \/ RefuseShutdown(t)
                 \/ RefuseFull(t)

Work(w) == \/ Take(w)
           \/ Exit(w)
           \/ Finish(w)
           \/ CountFailed(w)
           \/ CountCompleted(w)
           \/ Notify(w)

Control == \/ ScaleTick
           \/ ScaleApply
           \/ ScalerStop
           \/ \E r \in Resizes : Resize(r[1], r[2])
           \/ BeginShutdown
           \/ ShutdownDrained
           \/ ShutdownComplete
           \/ ShutdownTimeout
           \/ WaitCall
           \/ Waiting

Next == \/ \E t \in Tasks : Submission(t)
        \/ \E w \in Workers : Work(w)
        \/ Control

Spec == Init /\ [][Next]_vars

\* Goroutines the Go scheduler keeps running. Clients, timers, Resize and
\* Shutdown are the environment's and get no fairness. Finish is fair because
\* a task's context ends after 30 seconds. ScalerStop is a case of a select
\* that picks uniformly among its ready cases: it cannot lose for ever.
Fairness == /\ \A t \in Tasks : WF_vars(CountSubmitted(t))
            /\ \A w \in Workers : WF_vars(Work(w))
            /\ WF_vars(ScaleApply) /\ SF_vars(ScalerStop)
            /\ WF_vars(ShutdownDrained) /\ WF_vars(ShutdownComplete)
            /\ WF_vars(Waiting)

FairSpec == Spec /\ Fairness
-----------------------------------------------------------------------------
(* Properties.                                                             *)

\* Every variable keeps its type and the channel its capacity.
TypeOK ==
  /\ task \in [Tasks -> TaskState]
  /\ queue \in Seq(Tasks) /\ Len(queue) <= QueueSize
  /\ uncounted \subseteq Tasks
  /\ wpc \in [Workers -> WorkerState]
  /\ hand \in [Workers -> Tasks \union {NoTask}]
  /\ current \in Nat /\ minW \in Int /\ maxW \in Int
  /\ gauge \in Int /\ muStuck \in BOOLEAN
  /\ scalerPc \in {"idle", "scaling", "stopped"} /\ target \in Int
  /\ cancelled \in BOOLEAN
  /\ shutdown \in {"none", "waiting", "drained", "complete", "timedout"}
  /\ total \in Int /\ completed \in Int
  /\ processed \in Nat /\ failed \in Nat
  /\ waitPc \in {"off", "queue", "completed", "total", "returned"}
  /\ seen \in Int /\ owed \subseteq Tasks

\* No task is lost or duplicated between Submit and a worker (worker_pool.go
\* 173-255): the channel holds each waiting task once and nothing else, and a
\* running task is in the hands of exactly one executing worker.
QueueExact ==
  /\ \A i, j \in 1..Len(queue) : queue[i] = queue[j] => i = j
  /\ \A i \in 1..Len(queue) : task[queue[i]] = "queued"
  /\ \A t \in Tasks : task[t] = "queued" => \E i \in 1..Len(queue) : queue[i] = t

Executing(w) == wpc[w] = "executing"

HandsExact ==
  /\ \A w \in Workers :
       Executing(w) => hand[w] \in Tasks /\ task[hand[w]] = "running"
  /\ \A v, w \in Workers :
       Executing(v) /\ Executing(w) /\ hand[v] = hand[w] => v = w
  /\ \A t \in Tasks :
       task[t] = "running" => \E w \in Workers : Executing(w) /\ hand[w] = t

TaskConservation == QueueExact /\ HandsExact

\* Unless Resize has locked itself out, the number of workers lies within the
\* configured bounds, or the configuration has its minimum above its maximum
\* and the autoscaler leaves it alone (293-326, 346-371, 443-465). This is
\* what makes scale's clamping enough for PoolIntact.
ScaleBounds ==
  /\ minW >= 1 /\ current >= 1 /\ maxW >= 1 /\ maxW <= TopWorkers
  /\ ~muStuck => \/ minW <= current /\ current <= maxW
                 \/ minW > maxW /\ current = maxW /\ scalerPc # "scaling"

\* Until the pool is cancelled exactly the workers scale has counted are
\* alive: failures and panics of tasks (258-273), scaling (293-326) and
\* resizing never lose or duplicate one, and no more run than the largest
\* configured maximum.
PoolIntact ==
  /\ Live \subseteq 1..current /\ current <= TopWorkers
  /\ ~cancelled => Live = 1..current

\* The counters that GetStats and Wait read (234-249) agree up to the width
\* of the two that are 32 bits wide: submissions in flight and workers between
\* two increments are the whole difference between them, so no task is ever
\* counted twice or missed.
Between(s)      == Cardinality({w \in Workers : wpc[w] = s})
Congruent(a, b) == (a - b) % (2 * MaxInt32 + 2) = 0

CountersAgree ==
  /\ Congruent(total + Cardinality(uncounted), Served + Cardinality(Accepted))
  /\ processed = Served + Cardinality(Ended)
  /\ Congruent(processed,
               completed + failed + Between("counting") + Between("failing"))

\* Wait has not returned before every task whose submission had returned when
\* it was called has ended (490 "Wait espera a que todas las tareas se
\* completen").
WaitSound == waitPc = "returned" => \A t \in owed : task[t] = "ended"

\* A Wait call comes back once the pool has nothing left to do, as long as no
\* task has failed or panicked: those are not among the completed ones that
\* the loop of Wait compares with the submitted ones (238-248, 492).
WaitReturns ==
  (waitPc = "queue") ~> (waitPc = "returned" \/ cancelled \/ failed > 0)

\* The gauge worker_pool_active_workers never shows workers that do not exist
\* (21 "Number of active workers in the pool"). It may show too few: scale
\* sets it to a smaller target although it stops no worker (318-325).
GaugeBacked == ~cancelled => gauge <= Cardinality(Live)

\* A cancelled pool ends up with no worker, even when the cancellation met
\* the autoscaler between its decision and scale (329-371).
WorkersStop == cancelled ~> [](Live = {})

\* Resize brings the pool up to its new minimum (442 "Resize cambia
\* dinamicamente el tamano del pool").
ResizeTakesEffect ==
  (current < minW /\ minW <= maxW) ~> (current >= minW \/ cancelled)

\* The pool as its clients see it: WorkerPool implements TaskPool.
Abstract(s) == CASE s = "queued" -> "accepted"
                 [] s = "ended"  -> "done"
                 [] OTHER -> s
AbstractStatus == [t \in Tasks |-> Abstract(task[t])]

TP == INSTANCE TaskPool WITH Tasks <- Tasks, Limit <- TopWorkers,
                             status <- AbstractStatus, open <- ~cancelled

\* Safety part: every step is a step of TaskPool, whatever is resized.
ImplementsTaskPool == TP!SafeSpec

\* Whole promise, fairness included, for a pool nobody resizes: an accepted
\* task is executed to its end unless the pool is cancelled first.
FulfilsTaskPool == TP!TPSpec
=============================================================================
