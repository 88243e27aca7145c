# A TLA+ verification of mcp-server-ai

TLA+ modules, TLC runs and TLAPS proofs about the concurrent core of the Go
server in `src/`: an AI gateway that answers prompts over gRPC, HTTP, SSE and
WebSocket, in batches and in streams, with a worker pool, a Redis cache of
answers, a feedback table in PostgreSQL and conversation sessions.

## 1. The system

### 1.1 Components

| Component | State it keeps | Operations | Talks to |
|---|---|---|---|
| Worker pool (`internal/pool/worker_pool.go`) | task channel, worker goroutines, size bounds, counters, gauge, mutex, cancellation context | Submit, SubmitBatch, worker loop, scale, autoScale, Resize, Shutdown, Wait | runs `AITask.Execute` for the parallel processor |
| Parallel processor (`internal/ai/parallel_processor.go`) | a response and an error channel per task, a wait group per batch, totals | ProcessBatch, ProcessStream, ProcessConcurrent, ProcessMillionRequests | pool, `Manager.Generate`, batch endpoint |
| AI manager (`internal/ai/manager.go`) | registered providers, the stores | Generate, StreamGenerate, GenerateBatch, selectProvider | cache, feedback, sessions, providers |
| Providers (`aws_provider.go`, `azure_provider.go`) | none | Generate, StreamGenerate, model tables | model services |
| Session manager (`internal/session/manager.go`) | sessions in Redis and in the Chat table | GetSession, AddMessage, GetContext, BuildPromptWithContext, ClearSession | Redis, PostgreSQL |
| Response cache (`internal/cache/redis.go`) | key to answer, one hour | Get, Set, Delete | Redis |
| Feedback and blacklist (`internal/cache/feedback.go`, `migrations/0008_cache_feedback.sql`) | reports, counts, blacklist flag, uses | AnalyzeForProblems, ReportProblem, InvalidateCache, IsBlacklisted, IncrementCacheUsage | PostgreSQL, cache |
| Transports (`internal/handlers/handler.go`) | a connection and a channel per request | generate, stream, batch, WebSocket, cache endpoints | manager |
| Process (`cmd/server/main.go`) | servers, pool, stores | start, signal, shutdown | everything |

Goroutines communicate by channels with and without room and under several
contexts at a time; Redis and PostgreSQL are shared between requests without a
transaction. What is hard: counters read apart from each other, a mutex that is
asked for twice, results that arrive after their context has ended,
read-modify-write of a session held in two stores, answers that are cached
although their stream was cut, invalidations that race with the request that
fills the entry again. `PROJECT.json` lists each of these hazards at its line.

### 1.2 What makes each component correct

- *Pool*: no task is lost, run twice or run after a refusal; no worker is lost
  to a panic or started above the maximum; Shutdown and Wait mean what they
  say; every accepted task is reached.
- *Parallel processor*: an index gets the answer to its own request, once; one
  failure does not cancel its neighbours; the call returns.
- *Streams*: the client sees the chunks in order and then an end; what is
  cached is what was sent; no goroutine is left behind.
- *Sessions*: no message is lost, the stores agree, a history belongs to one
  user, the prompt carries the conversation.
- *Cache and feedback*: an answer that was reported is not served again, the
  blacklist is for good, the counters count.
- *Requests*: every entry point makes the same of a client's fields; a listed
  model reaches the provider that lists it, with a limit it allows; an answer
  out of the cache was generated for a request with the same parameters.
- *Process*: a signal ends it, and not while tasks use the stores.

## 2. The modules

| Module | Is | Uses |
|---|---|---|
| `TaskPool` | what a pool promises: the abstract specification | |
| `WorkerPool` | `worker_pool.go`; implements `TaskPool` | `TP == INSTANCE TaskPool WITH ...` |
| `WorkerPoolProofs` | theorems about `WorkerPool` | EXTENDS `WorkerPool`, TLAPS |
| `ServerLifecycle` | `main` after its signal, around the pool | EXTENDS `WorkerPool`: its steps are the pool's and main's |
| `ServerLifecycleProofs` | theorems about `ServerLifecycle` | EXTENDS `ServerLifecycle`, `WorkerPoolProofs` |
| `ParallelBatch` | one ProcessBatch call and its tasks | EXTENDS `TaskPool`: its actions are conjoined with the pool's |
| `BatchPromise` | what a batch promises its client: the abstract specification | |
| `BatchEndpoints` | the three ways a batch is processed; implements `BatchPromise` | EXTENDS `ParallelBatch`, `BP == INSTANCE BatchPromise WITH ...` |
| `BatchProofs` | theorems about the three ways of a batch | EXTENDS `BatchEndpoints`, TLAPS |
| `StreamPromise` | what a streamed answer promises its client and the cache: the abstract specification | |
| `StreamPipeline` | one streamed answer, from provider to client; implements `StreamPromise` | `SP == INSTANCE StreamPromise WITH ...` |
| `StreamProofs` | theorems about `StreamPipeline` | EXTENDS `StreamPipeline`, TLAPS |
| `SessionStore` | one session id under several requests | |
| `SessionProofs` | theorems about `SessionStore` | EXTENDS `SessionStore`, TLAPS |
| `SessionTurnProofs` | theorems about a client that waits for each answer | EXTENDS `SessionProofs` |
| `ResponseCache` | the cache of answers and its blacklist | |
| `CacheProofs` | theorems about `ResponseCache` | EXTENDS `ResponseCache`, TLAPS |
| `ModelCatalog` | model lists, routing rules and mapping tables, as operators | |
| `RequestPath` | a request from its entry point to its provider and the cache | EXTENDS `ModelCatalog` |
| `RequestProofs` | theorems about `RequestPath` and the tables | EXTENDS `RequestPath`, TLAPS |
| `MC...` | the instances that TLC checks | |

One action is one step between two points where another goroutine, request or
process can run: a channel operation, an atomic counter, a section under the
mutex, a call to a store or a service. Texts, durations, logs and formats are
left out. In each module a faulty form may stand above a definition (a dropped
guard, a missing reset, a swapped order): no action uses it; it is there to
show that a property notices that fault.

### 2.1 WorkerPool and TaskPool

State: `task` and `queue` are the tasks and `taskQueue`; `wpc` and `hand` are the
worker goroutines, each at a point of its loop and with the task it executes;
`current`, `minW`, `maxW` are the sizes, `gauge` the metric; `cancelled` is the
context; `total`, `completed`, `processed`, `failed` are the counters, the first
two as wide as an int32 scaled down to `MaxInt32`; `scalerPc` and `target` are
the autoscaler between its decision and the call of `scale`; `waitPc` and `seen`
are a Wait call between the reads of its loop condition.

| Actions | Code |
|---|---|
| `Enqueue`, `CountSubmitted`, `RefuseFull`, `RefuseShutdown` | Submit and SubmitBatch (173-204): the send and `totalTasks++` are two steps |
| `Take`, `Exit`, `Finish`, `CountFailed`, `CountCompleted`, `Notify` | `worker` and `executeTask` (206-290); a panic is recovered into an error |
| `ScaleTick`, `ScaleApply`, `ScalerStop` | `autoScale` and `scale` (292-371) |
| `Resize` | 443-463: it holds `p.mu` when it calls `scale`, which asks for it again (`muStuck`) |
| `BeginShutdown`, `ShutdownDrained`, `ShutdownComplete`, `ShutdownTimeout` | 466-487: the cancellation, the goroutine that comes back from `workerWG.Wait`, and the two cases of the select; between `ShutdownDrained` and the select the timer may still win |
| `WaitCall`, `WaitReadQueue`, `WaitReadCompleted`, `WaitReadTotal` | 490-495 |

`TaskPool` has a status per task and whether the pool is open. The refinement
mapping `AbstractStatus` forgets the channel and the workers: "queued" is
accepted, "ended" is done.

### 2.2 ParallelBatch

One call: `stage`, `expired`, `result` describe `AITask.Execute` of each index
under the 30 seconds of `executeTask`; `channel` is the response or error channel
with room for one; `collector` is the goroutine that waits for either or for the
request's context (`gone`); `call` is ProcessBatch. `Submit`, `Refused`, `Begin`,
`Panic`, `Send` and `Drop` are conjunctions with `TaskPool`'s `Accept`, `Reject`,
`Start` and `Finish`, so the batch relies on what the pool promises and on
nothing else of it. `Send` and `Drop` are the two cases of Execute's select
(109-122): when the 30 seconds are over both are ready.

`BatchEndpoints` adds the two loops: `mode` says which of the three a batch
gets, `turn` and `loop` are where a loop is, `entry` what it has written per index.
`BatchPromise` knows of each request only what was generated for it and what the
client is told; the refinement mapping (`Result`, `Outcome`, `End`) takes these
from the collectors or from the loop.

### 2.3 StreamPipeline

Three goroutines and two channels of `Capacity` chunks: `mgr` runs
StreamGenerate (the replay of a cached answer, or the provider), `forwarder`
copies `inner` to `outer` and caches the text with the last chunk, `handler` is
the loop of the gRPC, SSE or WebSocket handler. `req` is the request: transport,
whether there is a cache and a provider, whether its model streams (a llama model
of Bedrock is asked for its whole answer, which is sent word by word), and what
the service will answer. The contexts differ: a gRPC or SSE request's ends with
its client or its handler; a WebSocket request has its own, cancelled after five
minutes or when StreamGenerate returns (`Return`, `CancelsOnReturn`). Texts are
sequences of `Symbols` (letters, a space, a line break), because a replay goes through
`strings.Fields`; `Fields` is one pass over a text (`Scan`), a recursive function of the
position. `full` keeps the chunks whose texts the code's `fullContent` joins.

`StreamPromise` has one hand in place of the goroutines: it knows how many chunks of
the source have been sent, whether more will be (`over`), what the client has been told
and what the cache keeps. The refinement mapping forgets both channels and the
forwarder: the source is empty until StreamGenerate knows whether it replays, `sent`
is `pos`, and `over` holds once it has sent its last chunk. A provider's last send
(`UpstreamEnds`) and its deferred close, with the return and the cancellation that
follow it (`UpstreamCloses`), are two steps: in between the forwarder of a WebSocket
may still pass the final chunk on and cache the text.

### 2.4 SessionStore

`redis` and `db` are the key and the row of one session id; a request r goes
through the calls of Generate in `phase` (context for the problem detection, the
user's message, the prompt, the answer, the assistant's message) and through the
store calls of each in `step`: `ReadRedis`, `MissRedis`, `ReadDB`, `Fill`,
`SaveToRedis`, `Update`, `Insert`, and their failures. `work` is the copy that
AddMessage writes back. `uses` is what NewManager could connect to.
`added` and `answered` record what AddMessage accepted and clients received.
A behaviour begins by choosing a `setup`: who sends which request, which stores
are connected, how many requests overlap, what may fail and who calls
ClearSession (`ClearKey`, `ClearRow`; `clear` remembers whether a request was
under way between the two deletions, `cleared` what they removed).

### 2.5 ResponseCache

`entry` is Redis, `row` the `cache_stats` table with the trigger's rule. A call
of Generate checks the blacklist (`Check`), gets (`Hit`, `Miss`), counts the use
(`Count`) or asks a provider (`Produce`) and stores (`Store`); one that complains
first reports (`Report`), deletes and blacklists (`Delete`, `Blacklist`), each
of which may fail alone. StreamGenerate begins at the Get. `InvalidateKey` is the
endpoint. Which words a prompt has is a free choice; `Severity` is what
AnalyzeForProblems makes of them and `Verdicts` whether it invalidates. `Key` and
`TextKey` are constants: the key of a question, and the key ReportProblem is given
for the answer to it (the answer's text as if it had been a prompt).

### 2.6 ServerLifecycle

`main` is where main is; `Signal` is the pool's `BeginShutdown`, `CloseRedis` and
`CloseDatabase` follow when Shutdown has returned, whatever it reported.
`PoolMoves` is everything else the pool and its clients do, which goes on
meanwhile, because nobody stops the servers. `late` collects the workers that a
`scale` spawned after Shutdown had seen the last one leave, or had returned
(`SeenLast`): the autoscaler's goroutine is not in `workerWG`. The model goes on after main has returned, since when exactly the
runtime takes the goroutines away is open. That a spawn which meets Shutdown's
`Wait` may misuse the wait group (a panic of the runtime) is not modelled.

### 2.7 ModelCatalog and RequestPath

`ModelCatalog` has one listing of each kind that the two providers have (family,
limit, which spellings the tables map), `SelectProvider`, `DefaultLimits` and
`MapModel` as the code computes them; where the code ranges over a Go map, the
operator gives the set of its possible results. In `RequestPath` a client's fields
(`client[r]`) become an ai.GenerateRequest (`req[r]`) at one of seven entry points, which
looks in the cache (`Hit`, `Miss`), is routed (`Send`, `NoRoute`) and stores what it
got (`Answer`, `Store`). `sent[r]` is what the provider was asked. `world` is chosen
at the beginning: the registered providers, MAX_TOKENS, AZURE_DEFAULT_MODEL, the model
string and the fields clients send.

Prompts are sequences of code points, because `CacheKey` has their hash in their place:
`hashString` is the code's h*31 + c in an int of `HashWidth` values. Limits and MAX_TOKENS
are integers, negative ones included, since the handlers replace a zero alone (57) and
Atoi knows a sign (74); gRPC carries an int32 (`Called`). A provider passes a limit on as
it is, except that AWS narrows it to 32 bits for the models of its Converse API
(`LimitSent`, `AsInt32`). For a request without a model Azure takes AZURE_DEFAULT_MODEL or
gpt-4.1, a stream always gpt-4.1 (`Requested`).
Limits are written as multiples of `K` (1000) and `Ki` (1024), as the listings
have them, and a blank in a name is a "_".

## 3. The runs

| Run | Instance and bounds | Shows |
|---|---|---|
| `pool_core` | 3 tasks, one by SubmitBatch; queue of 2; 1 to 2 workers; two Resize arguments; `Served` = 126 of `MaxInt32` = 127 | `TypeOK`, `TaskConservation`, `PoolIntact`, `CountersAgree`, `GaugeBacked`, and that every step is a step or a stutter of `TaskPool` |
| `server` | 2 tasks, queue of 1, 1 to 2 workers, autoscaler, Wait called once no submission is under way, a signal at any moment | `WaitSound`, `WaitReturns`, `WorkersStop`, `StoresOutliveTasks`, `SignalEnds`, and `TaskPool` with its fairness |
| `pool_resize` (violation) | 1 task, Resize(2, 2) of a pool of one | `ResizeTakesEffect` fails: Resize waits for the mutex it holds |
| `batch` | 3 requests, 2 at a time or in a loop, expiries, panics, a closing pool, a leaving client | `AnswerConserved`, `CountsAgree`, `ReturnsUnlessMute`, `NoCollectorLeaks`, and `BatchPromise` with its fairness (`FulfilsBatch`) |
| `batch_expired` (violation) | 2 requests, expiries only | `BatchReturns` fails: an answer that arrives as its 30 s end may be dropped, and nobody tells the collector |
| `stream` | 3 transports; answers of 0 to 7 chunks over channels of 2; cache, provider and native streaming present or not; cuts, refusals, departures, timeouts | `InOrder`, `CompleteUnlessWS`, `WordsKept`, `StreamEnds`, `GoroutinesEnd`, and that every step is a step or a stutter of `StreamPromise` |
| `stream_ws` (violation) | WebSocket with a cache, no fault at all | `Complete` fails: the last chunks are dropped when the goroutine cancels |
| `session` | history of 3, context of 2; six setups: 3 overlapping requests of 2 users under every fault; 3 turns of one client with both stores or one; 2 overlapping requests and a ClearSession by either user | `NotMixed`, `HistoriesWellFormed`, `RowKeepsOwner`, `ClearedGone`; in turns `NothingLost`, `StoresAgree`, `PromptHasHistory` |
| `session_batch` (violation) | 2 requests of one batch, no fault | `EveryMessageKept` fails: two copies of one history are written back |
| `cache` | 3 calls over 2 keys, 2 reports blacklist, every fault | `ClosedNotServed`, `RemovedForGood`, `StatsAgree`, `BlacklistedForGood` |
| `requests` | 2 requests for one model, at any entry points; every spelling with every set of providers; MAX_TOKENS unset, no number, negative, zero, 10000 or wider than an int32; limits of clients among them; an empty prompt, two with one hash | `ListedReached`, `LimitUsable`, `EndpointsAgree`, `AnswerFits` |
| `cache_complaint` (violation) | Generate only, no fault | `ComplaintHeeded` fails: another key is deleted and blacklisted |

Why the bounds are enough for what they are meant to reach:

- *Pool*: three tasks over a queue of two and two workers fill the queue,
  block SubmitBatch, refuse Submit and let two workers run, fail or panic while a
  third task waits. `Workers` has one goroutine more than any maximum, so that
  starting too many is reachable. The autoscaler needs a queue above 75 % of its
  size to grow and below 37.5 % to decide to shrink: both happen. The
  counters start next to their largest value, so they wrap within the run.
- *Server*: two tasks over a queue of one are enough for a task that waits while
  another runs, a refused Submit, an autoscaler that grows the pool, and a scale
  decided before the signal that spawns a worker after Shutdown has returned,
  which then takes a task. A third task adds no new kind of overlap and makes the
  liveness check too long.
- *Batch*: with three requests one waits in the pool while two run, so a pool
  that closes leaves one that never runs, and one index can fail beside two others.
- *Streams*: seven chunks overflow both channels and what the forwarder holds;
  empty and short answers end while the handler has not begun.
- *Sessions*: with a history of three and a window of two, three turns overflow
  both. Two requests of one user and one of another, two at a time, are enough for
  a lost update, a key that changes hands, and a row inserted by someone else; one
  ClearSession meets two requests in every order.
- *Cache*: one call fills an entry, a second invalidates it, the third asks; two
  reports, instead of three, blacklist a key, so that the threshold is crossed
  within three calls.
- *Requests*: properties relate one request to its provider or two requests to each
  other, so two suffice. A listing stands for the others of its kind: same
  provider, same family, same way of being named; both providers' shared names
  and the cases where the tables disagree have listings of their own. `MaxInt32` is
  scaled down to 524287, which is still above every listed limit (`CatalogAssumption`
  wants 300 K), so that limits around it and at twice its width (cut to zero) are small numbers.
  `HashWidth` is 2^24: the hash of a prompt of two characters does not wrap, so the
  collision in the run is one that the code has.

`session`, `cache`, `cache_complaint` and `requests` use symmetry between calls
that are alike, and check no liveness property. Deadlock is not checked: every
instance has a finite number of tasks, requests or chunks and stops when they are done.
`Served`, `MaxInt32`, `HashWidth`, `TopWorkers`, `Capacity`, `MaxMessages`, `ContextWindow`,
`ReportLimit`, the `active` of a setup and the sets of tasks and requests are the
only bounds; each action is enabled only while its task or request is where the
code has it, so no counter grows without limit and no state constraint is used.

### 3.1 Fairness

`FairSpec` gives weak fairness to what the Go scheduler keeps running: a
worker's step, a counter that is about to be incremented, a collector, a
forwarder, a handler that has something to read. `Finish` is fair because
`executeTask` gives a task's context 30 seconds; a provider's step because its
service answers or its call fails. `ScalerStop` has strong fairness: it is a
case of a select that picks uniformly among its ready cases, so that it cannot lose to the
ticker for ever. A timer that was started fires. Clients, `Resize`, `Shutdown`
and the tick that finds something to scale are the environment's and get no
fairness: they may happen at any time or never. `ParallelBatch` assumes that
`Begin` is as fair as `TaskPool` promises, which is what `server` establishes
of the pool (`FulfilsTaskPool`). main is a goroutine like the others, so its two
closings are fair, and `ShutdownTimeout` is a timer that Shutdown has started. A
batch loop's step is fair because Generate ends, with an answer, an error or a
panic.

## 4. What is proved

Every safety property of the passing runs is a theorem, for every value of the
constants. Each proof module extends the module it is about; each theorem rests on
the assumptions that module names, which TLC evaluates in every run, and on
nothing else, except `WaitIsSound`, whose hypothesis is given below.

| Module | Theorems | Inductive invariant |
|---|---|---|
| `WorkerPoolProofs` | `TypeCorrect`, `Conserved`, `Intact`, `Bounded`, `GaugeSound`, `Refinement`, `CountersHold`, `WaitIsSound` | `TypeOK`, `PoolIntact`, `ScaleBounds`, `TaskConservation`; on top `CountersInv`, `Exact`, `WaitInv` |
| `ServerLifecycleProofs` | `ServerRunsPool`, `StoresOutlive`, `ServerCounts` | the pool's, and that live workers are late once Shutdown has seen all leave |
| `BatchProofs` | `BatchCounts`, `BatchDelivers`, `BatchKeepsPromise` | `BatchInv`, `LoopInv` |
| `StreamProofs` | `StreamTypes`, `ChunksInOrder`, `CompleteStreams`, `WordsSurvive`, `StreamKeepsPromise` | `StreamInv` |
| `SessionProofs` | `SessionTypes`, `NeverMixed`, `HistoriesStayWellFormed`, `ClearedStaysGone`, `OwnerKept` | `SessionInv` |
| `SessionTurnProofs` | `NothingIsLost`, `StoresStayAgreed`, `PromptsHaveHistory` | `Turns`, on top of `SessionInv` |
| `CacheProofs` | `ClosedStaysUnserved`, `RemovedStays`, `StatsHold`, `BlacklistKept` | `CacheInv` |
| `RequestProofs` | `AnswersFit`, `EndpointsAlike`, `LimitsUsable`, `ListedIsReached` | `RequestInv` |

### 4.1 The pool and the process

`PoolIntact` with `ScaleBounds` is inductive by itself. `TaskConservation` is not: a
`ScaleApply` that started a worker which already runs would drop the task in its
hands. That it never does follows from `PoolIntact` (`SpawnsIdle`), which in turn
needs that the clamped target lies between the current size and the maximum
(`GoalBounds`), and that needs `ScaleBounds`: the code tests the maximum before
the minimum, so a configuration with the minimum above the maximum has to be
shown to leave the autoscaler idle. `Inductive` proves the four together,
each step lemma by the disjuncts of `Next`. `Refinement` maps each
action to one of `TaskPool`'s or to a stutter; a `Take` becomes a `Start`, whose
guard (fewer than `Limit` tasks run) follows from the number of executing
workers: `TaskConservation` makes `hand` an injection from them.

`CountersAgree` compares counters with the tasks that have passed the point where
they are counted. `CountersInv` says it with cardinalities, and only up to a
multiple of 2^32 for the two counters that are int32, so it survives the wrap
(`CongruentInc`); a task moves through `uncounted` because the send and the
increment of Submit are two steps (`OneTurn`).

`WaitSound` needs more: the two reads of Wait compare numbers, not congruence
classes. `WaitIsSound` assumes `WaitAssumption`: Wait is called while nothing is
being submitted, and the pool never sees more tasks than an int32 counts. Without
either half the property is false: the first is `WaitStyle` = "any", the second a
`totalTasks` that has wrapped, both of them described in section 5. `Exact` then
makes the congruences equalities, and `WaitInv` says that what Wait has read so
far still binds what has happened, so that both reads together mean that
everything has ended (`EverythingEnded`).

Of the process `ServerRunsPool` says that each of its steps is a step of the pool or leaves it
alone (`ServerSpec => Spec`), so that every theorem about the pool is one about the process;
`ServerCounts` is such a consequence. `StoresOutlive` strengthens its property: once
Shutdown has seen every worker leave, each live one is in `late`
(`DrainedBefore`, `LateLiveStep`), because only `scale` starts workers
(`OnlyScaleSpawns`).

### 4.2 Batches

`AnswerConserved` speaks of an index whose task has ended; to get there `BatchInv` follows
the task: where Execute is and what the pool says of the task never part
(`StageFollowsStatus`), and nothing of a result has left Execute before it returns
(`Undelivered`). `CountsAgree` uses that a task is counted where its stage says.
`BatchKeepsPromise` is the refinement of `BatchPromise`: an endpoint's step is one of
ParallelBatch's (mapped through the collectors), one of a loop's (mapped through
`entry`, for which `LoopInv` says that exactly the indices before `turn` are
written) or a stutter.

### 4.3 Streams

`InOrder` looks at what the client has; what it will have is in two channels and in
the forwarder's hands. `InPlace` gives each chunk on the way its number: the k-th is
the k-th of the source, or it is the final one, k is one more than the source has
sent, and StreamGenerate sends no more. `OuterFlow` says it of what the client has and
the handler's channel, `InnerFlow` of what the forwarder has copied, holds and has
before it. A send finds the next number free only because the chunks before it are
as many as were sent, which is `Counted`, and holds until something is dropped: by a
client that has left, or by a forwarder that gives up. From then on nobody appends to
what has a gap behind it (`Roles` says who may still send), so order survives every drop.
For `CompleteUnlessWS` nothing may be dropped: `Whole` says that the context of a
gRPC or SSE request ends only after the handler has seen the channel closed, so that
the forwarder cannot give up before (`AllDelivered`).

`StreamKeepsPromise` is the refinement of `StreamPromise`. A `Write` hands out a chunk that
has lain in a channel, and from its place in `OuterFlow` it is the next of the source, sent
already, or the final one, and then everything that was sent is told. A `Forward`
that caches has the final chunk in hand (`HeldLast`), so that everything sent
has been gathered (`StoresAll`). All else is a choice, a send, a stop or a stutter.

`WordsSurvive` is about what recursive functions compute for every text. The
library's induction theorems cannot be used, so `NatSetInduction` proves the principle for
sets of naturals: if one were missing, adding one would map the finitely many
members below it into themselves without 0, against the pigeonhole principle. `SeqSetInduction` takes
it to sets of sequences closed under Append. With these the pass of `Fields` and
the concatenation of texts (FlattenSeq) get their recursion equations (`ScanAppend`,
`FlattenAppend`), and by induction over the words: texts with a blank after each word
(`WordsAfterBlanks`), or before all but the first (`WordsBetweenBlanks`), have these words
again. That the client of a replay has every chunk of it when its channel is closed is
`Replayed`, that of a provider's answer `AllDelivered`.

### 4.4 Sessions

`NotMixed` and `HistoriesWellFormed` speak of prompts and stores, but a store is
overwritten by copies that requests took earlier. `Sound` therefore holds of every
copy (`Held`): one user, well formed, and only messages that some request has
appended by now (`Made`), none of them cleared. That a message is not appended
twice needs that the appending request has not appended it before, hence `Made`;
that a writer's copy bears its own user's name is `AtHand`. `ClearedGone`
needs `ClearInv`: while ClearSession is between its two deletions and no request
has met it, Redis is empty and nobody holds a copy.

`Turns` is about one client that waits for each answer (`InTurns`): one request at
a time (`Orderly`), the store that lasts holds exactly what was accepted, the copy about to be
written one message more, and Redis agrees with the row or is one copy ahead
(`Current`); what was answered is on its way there and what is asked comes from there
(`Conversed`). Sizes are arbitrary, so the proofs argue about the ends of sequences (`FromEnd`,
`EndOf`): the last n of the last m of a conversation.

### 4.5 Cache

Reports, deletions and blacklistings of a complaint are steps of their own, so the
invariant has to say which key a request that is on its way through them acts on
(`Aimed`), that it files once (`FiledOnce`), which hits have yet to be counted
(`UsesCounted`), and that an answer is in no entry but its own question's, from its
Store on and until it is removed (`Placed`). `ClosedNotServed` follows a Generate from its
check to its Get: if the check did not fail, the keys it remembers as closed are
not its own (`Warned`), and a closed key stays on the blacklist.

### 4.6 Requests

The first part of `RequestProofs` is about the tables: a listed ID is taken for itself
(`KnownID`), selectProvider finds in it the family of its listing (`FamilyOfID`), it goes
to its provider when no other could be meant (`Home`), and a listing's limit is one that
the model its ID or name is taken for allows (`LimitFits`). What Azure makes of an empty
model concerns no listing, since none is empty (`NotEmpty`), and a limit between 1 and
`MaxInt32` survives the narrowing (`Narrowed`, `SentLimit`).

`RequestInv` says of each request that it is what its entry point made of the client's
fields (`Posed`), and of what a provider was asked that it was made of that
(`Directed`). `Keyed` says of each entry of the cache that some request with the entry's
key was sent to a provider and got this answer, and `Founded` of each answer a request has
that it is one of such a request, perhaps of itself. A request's fields and what it asked never
change again (`Changes`), so its key stays (`KeyKept`) and an entry keeps its origin
whatever else happens. Two requests with one key have the same hash and the same
limit, and that is all that `AnswersFit` concludes: the prompts may differ.

### 4.7 Only model-checked

- Liveness, and with it the fairness parts of the refinements: `WaitReturns`,
  `WorkersStop`, `FulfilsTaskPool`, `SignalEnds`, `ReturnsUnlessMute`,
  `NoCollectorLeaks`, `FulfilsBatch` (its safety part is `BatchKeepsPromise`),
  `StreamEnds`, `GoroutinesEnd`. TLAPS cannot prove ENABLED.
- The five properties that fail.

## 5. Where the code and its words part

Five disagreements are runs that end in a violation; `PROJECT.json` quotes the
lines.

1. `pool_resize`: Resize calls `scale` with the mutex held; it never returns.
   From then on every worker that completes a task blocks in `notifyProgress`.
2. `batch_expired`: a result can lose a select against its own deadline although
   its channel has room; ProcessBatch then waits until the client leaves.
3. `stream_ws`: the WebSocket goroutine cancels the stream's context when the
   provider is done, not when the client has read everything.
4. `session_batch`: the requests of a batch overwrite each other's messages.
5. `cache_complaint`: a complaint invalidates the key of the answer's text, not
   the key of the question.

Other things met while modelling, which the passing properties are worded around:

- *Pool*. Wait compares two counters it reads one after the other and does not
  count submissions between the send (177) and the increment, so it is sound only
  while no submission is under way (`WaitStyle` = "quiet"; with "any" `WaitSound`
  fails). Failed tasks are never completed ones, so after a failure Wait polls for
  ever (`WaitReturns` excludes that). Once `totalTasks` has wrapped and
  `completedTasks` has not, its comparison is true at once. `scale` may start
  workers after Shutdown has reported completion; `WorkersStop` shows they leave.
  A scale down stops no worker but lowers the gauge, so `GaugeBacked` is one-sided. Resize is
  called by SetMaxConcurrent and ProcessMillionRequests alone and Wait by
  benchmarks, so neither is on the path of a request today.
- *Process*. The servers are never stopped, so requests keep arriving while the
  stores close; after a timeout, and from workers the autoscaler spawns too late,
  tasks run with closed stores (`StoresOutliveTasks` names exactly these). main
  makes a 30 s context for the servers' shutdown and never uses it.
- *Batch*. A panic in a provider leaves its collector without an answer, like an
  expired task and like a task that is still queued when the pool closes: `Mute`.
  With parallel mode off the same panic ends the whole batch (gin.Recovery), and the
  sequential loop goes on generating for a client that has left, while the event
  loop stops after the request under way. The event endpoint always runs its
  requests one by one, says "parallelProcessing": true in its summary, and enforces
  no batch size.
- *Streams*. A stream that was cut ends with an ordinary final chunk and is
  cached for an hour. A replay loses line breaks. Three returns of StreamGenerate
  leave the channel open (530, 545, 563), so a gRPC or WebSocket handler waits for
  ever (`LeftOpen`). An error is written to a WebSocket by a goroutine while the
  handler may be writing a chunk, although a connection supports one writer.
  Providers send without a select and stay blocked when nobody reads (`Stuck`).
- *Sessions*. A failed write to Redis is logged only, and Redis is read first, so
  later requests see the older history (no property claims agreement under
  "redis" faults). After a key expires another user may take it, and its owner then
  works without history. An answer from the cache is not added to the history
  (ai/manager.go:358). The prompt a request sends contains the new message twice:
  AddMessage has saved it before BuildPromptWithContext appends it.
  ClearSession deletes the Redis key of a session whoever asks, the row only for
  its owner, and ignores an error of Redis; a request under way between the
  deletions, or that error, brings the history back (`ClearedGone` excludes exactly
  these). The migrations never give the Chat table both `messages` (dropped by 0002) and
  `lastContext` (added by 0007).
- *Cache*. StreamGenerate never asks the blacklist, though
  CACHE_FEEDBACK_SYSTEM.md:119-123 has every use of the cache ask it;
  `ClosedNotServed` is stated for Generate. A blacklisted key is still written by
  every Generate, and served from when the query fails, and a stream serves an answer that was stored
  after the invalidation. `getCacheKey` leaves out
  the system prompt and the provider, and `hashString` folds the prompt into one
  integer, so that different questions share an entry and `Key` need not be injective: with
  one model, limit and temperature "BB" is answered with the answer to "Aa". In
  `requests` both prompts are asked, and `AnswerFits` therefore claims of a cached answer
  only that it was generated for the same hash and limit.
- *Requests*. With both providers registered a DeepSeek model listed by AWS goes to
  Azure and a Llama model listed by Azure to AWS, because `selectProvider` looks
  at the family alone; a model of no family (Nova, Pixtral, Palmyra, Stable
  Image) goes to whichever provider the map yields first, and so may be
  answered one time and refused the next. `ListedReached` is stated for the rest.
  Names that both list ("DeepSeek R1", "Llama 3.3 70B Instruct") get one
  provider's limit or the other's, by the same accident. Most listed names are no
  aliases and are sent upstream as they are; "Claude 3.5 Sonnet" means its second
  version; a table maps "llama-3-70b" to a model that no listing has. A spelling
  that no listing has takes its limit from MAX_TOKENS, which may exceed what the
  model allows; one that is zero, negative or no number leaves no token to ask for, and
  neither does a negative limit of the client's own, which is passed on because only zero
  is replaced. A limit wider than an int32 is cut for AWS's Claude models alone
  (aws_provider.go:71 and 288), where it may come out as zero or negative. A stream on
  Azure ignores AZURE_DEFAULT_MODEL, so the entry of a request without a model may
  hold either model's answer. A client has
  to say "aws" or "azure" where the listings say "aws-bedrock" and "azure-openai".
  gRPC and the batch events do not know the "system" field (README.md:478-490
  documents it). SSE requires session headers when sessions are on and never
  uses them.

## 6. What is not modelled

Start-up of the process and listeners that fail, which end it at once, and a
server without parallel mode, whose Shutdown has nothing to do; what ProcessStream,
ProcessConcurrent and ProcessMillionRequests do, which nothing calls; session
headers, temperatures and sizes of requests; progress callbacks, which nothing
registers with the processor; quality scores, statistics queries and the metrics
other than the gauge; the generated protocol code, benchmarks and deployment
files. Random identifiers, time to live in numbers and text formats are
abstracted away.

Three hazards have no property, and `PROJECT.json` says why: a panic message longer
than the buffer it is cut from, two goroutines that write to one WebSocket, and an answer from
the cache that does not enter the history.

## 7. Plan

Done: the pool, its abstract specification and its proofs; the process around it
with its proofs; batches and streams with their promises, sessions, the cache, routing
and the request path, each with the proofs of its safety properties. What is left:

1. Abstract specifications of a client's conversation (`SessionStore` in turns, from
   `Turns`) and of the cache (a key that serves answers until it is closed, from
   `CacheInv`), whose promises are stated as invariants and action properties today.
2. Calls of ProcessStream, ProcessConcurrent and ProcessMillionRequests, should
   anything come to call them.
3. The second writer of a WebSocket (`Report` during `Write`), should the code come
   to state the one-writer rule.
