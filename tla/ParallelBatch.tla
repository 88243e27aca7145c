---------------------------- MODULE ParallelBatch ----------------------------
(***************************************************************************)
(* One call of ParallelProcessor.ProcessBatch and the AITasks it submits   *)
(* (internal/ai/parallel_processor.go), over the pool's promise TaskPool:  *)
(* a task carries two channels of capacity one, a collector goroutine      *)
(* waits for either of them or for the request's context, and the call     *)
(* waits for its collectors. The tasks run under the pool's context with a *)
(* 30 s limit, not under the request's.                                    *)
(***************************************************************************)
EXTENDS TaskPool

CONSTANT Faults  \* which of "expire", "panic", "close" and "leave" may happen

ASSUME FaultsAssumption ==
  /\ Faults \subseteq {"expire", "panic", "close", "leave"}
  /\ Limit \in Nat /\ IsFiniteSet(Tasks)

VARIABLES
  stage,      \* stage[t]: where AITask.Execute is
  expired,    \* expired[t]: the 30 s of executeTask are over
  result,     \* result[t]: what Manager.Generate returned
  channel,    \* channel[t]: what t.response and t.error hold
  collector,  \* collector[t]: what the collector goroutine of t has received
  call,       \* the ProcessBatch call, "none" when the batch is not parallel
  gone,       \* the request's context is done
  current, totalProcessed, totalFailed  \* the processor's counters

taskVars  == <<stage, expired, result>>
callVars  == <<collector, call, gone>>
countVars == <<current, totalProcessed, totalFailed>>
vars == <<tpVars, taskVars, channel, callVars, countVars>>

InExecute == {t \in Tasks : stage[t] \in {"generating", "sending"}}

\* executeTask derives the task's context from the pool's.
Done(t) == expired[t] \/ ~open

(* A faulty form may stand above a definition, for the mutation runs.      *)

\* Execute's select sees that the context is done and gives up its answer.
SendNonBlocking(t) == TRUE
GivesUp(t)         == Done(t)

\* The collector's select sees that the context is done.
Deaf(t)        == FALSE
RequestDone(t)  == gone

\* The deferred decrement also runs when Generate panics.
PanicSkips     == current
PanicDecrement == current - 1

-----------------------------------------------------------------------------
InitWith(atCall, atCollector) ==
  /\ TPInit
  /\ stage = [t \in Tasks |-> "none"] /\ expired = [t \in Tasks |-> FALSE]
  /\ result = [t \in Tasks |-> "none"] /\ channel = [t \in Tasks |-> "none"]
  /\ collector = [t \in Tasks |-> atCollector]
  /\ call = atCall /\ gone = FALSE
  /\ current = 0 /\ totalProcessed = 0 /\ totalFailed = 0

Init == InitWith("submitting", "waiting")

(* ProcessBatch, SubmitBatch: the first refusal cancels the group.         *)

Submit(t) ==
  /\ call = "submitting" /\ Accept(t)
  /\ UNCHANGED <<taskVars, channel, callVars, countVars>>

Refused(t) ==
  /\ call = "submitting" /\ Reject(t)
  /\ ~open \/ \E u \in Tasks : status[u] = "rejected"
  /\ UNCHANGED <<taskVars, channel, callVars, countVars>>

SubmitReturns ==
  /\ call = "submitting" /\ \A t \in Tasks : status[t] # "new"
  /\ call' = IF \E t \in Tasks : status[t] = "rejected"
             THEN "refused" ELSE "joining"
  /\ UNCHANGED <<tpVars, taskVars, channel, collector, gone, countVars>>

\* wg.Wait: every collector is done.
Join ==
  /\ call = "joining" /\ \A t \in Tasks : collector[t] # "waiting"
  /\ call' = "returned"
  /\ UNCHANGED <<tpVars, taskVars, channel, collector, gone, countVars>>

\* The client disconnects, or its handler returns: net/http ends the context.
Leave ==
  /\ ~gone /\ ("leave" \in Faults \/ call \in {"returned", "refused"})
  /\ gone' = TRUE
  /\ UNCHANGED <<tpVars, taskVars, channel, collector, call, countVars>>

ClosePool ==
  /\ "close" \in Faults /\ Close
  /\ UNCHANGED <<taskVars, channel, callVars, countVars>>

(* AITask.Execute under executeTask.                                       *)

Begin(t) ==
  /\ Start(t)
  /\ stage' = [stage EXCEPT ![t] = "generating"]
  /\ current' = current + 1
  /\ UNCHANGED <<expired, result, channel, callVars, totalProcessed, totalFailed>>

Expire(t) ==
  /\ "expire" \in Faults /\ t \in InExecute /\ ~expired[t]
  /\ expired' = [expired EXCEPT ![t] = TRUE]
  /\ UNCHANGED <<tpVars, stage, result, channel, callVars, countVars>>

Generated(t) ==
  /\ stage[t] = "generating"
  /\ stage' = [stage EXCEPT ![t] = "sending"]
  /\ \/ /\ result' = [result EXCEPT ![t] = "answer"]
        /\ totalProcessed' = totalProcessed + 1
        /\ UNCHANGED totalFailed
     \/ /\ result' = [result EXCEPT ![t] = "error"]
        /\ totalFailed' = totalFailed + 1
        /\ UNCHANGED totalProcessed
  /\ UNCHANGED <<tpVars, expired, channel, callVars, current>>

Panic(t) ==
  /\ "panic" \in Faults /\ stage[t] = "generating" /\ Finish(t)
  /\ stage' = [stage EXCEPT ![t] = "left"]
  /\ current' = PanicDecrement
  /\ UNCHANGED <<expired, result, channel, callVars, totalProcessed, totalFailed>>

\* The buffered channel of the result has room: this case is always ready.
Send(t) ==
  /\ stage[t] = "sending" /\ Finish(t)
  /\ channel' = [channel EXCEPT ![t] = result[t]]
  /\ stage' = [stage EXCEPT ![t] = "left"]
  /\ current' = current - 1
  /\ UNCHANGED <<expired, result, callVars, totalProcessed, totalFailed>>

\* The other ready case once the context is done.
Drop(t) ==
  /\ stage[t] = "sending" /\ GivesUp(t) /\ Finish(t)
  /\ stage' = [stage EXCEPT ![t] = "left"]
  /\ current' = current - 1
  /\ UNCHANGED <<expired, result, channel, callVars, totalProcessed, totalFailed>>

(* The collector goroutines. Each runs until its select has taken a case.  *)

Receive(t) ==
  /\ collector[t] = "waiting" /\ channel[t] # "none"
  /\ collector' = [collector EXCEPT ![t] = channel[t]]
  /\ channel' = [channel EXCEPT ![t] = "none"]
  /\ UNCHANGED <<tpVars, taskVars, call, gone, countVars>>

Abandon(t) ==
  /\ collector[t] = "waiting" /\ RequestDone(t)
  /\ collector' = [collector EXCEPT ![t] = "cancelled"]
  /\ UNCHANGED <<tpVars, taskVars, channel, call, gone, countVars>>

-----------------------------------------------------------------------------
Execute(t) == Generated(t) \/ Panic(t) \/ Send(t) \/ Drop(t)

Collect(t) == Receive(t) \/ Abandon(t)

Next == \/ SubmitReturns \/ Join \/ Leave \/ ClosePool
        \/ \E t \in Tasks : \/ Submit(t)
                            \/ Refused(t)
                            \/ Begin(t)
                            \/ Expire(t)
                            \/ Execute(t)
                            \/ Collect(t)

Spec == Init /\ [][Next]_vars

\* Begin is as fair as TaskPool promises; Generate and the goroutines go on,
\* and net/http ends the context of a request whose handler has returned.
Fairness ==
  /\ \A t \in Tasks : /\ WF_vars(Submit(t) \/ Refused(t))
                      /\ WF_vars(open /\ Begin(t))
                      /\ WF_vars(Execute(t))
                      /\ WF_vars(Collect(t))
  /\ WF_vars(SubmitReturns) /\ WF_vars(Join)
  /\ WF_vars(call \in {"returned", "refused"} /\ Leave)

FairSpec == Spec /\ Fairness

-----------------------------------------------------------------------------
(* Properties.                                                             *)

TypeOK ==
  /\ TPTypeOK
  /\ stage \in [Tasks -> {"none", "generating", "sending", "left"}]
  /\ expired \in [Tasks -> BOOLEAN]
  /\ result \in [Tasks -> {"none", "answer", "error"}]
  /\ channel \in [Tasks -> {"none", "answer", "error"}]
  /\ collector \in [Tasks -> {"none", "waiting", "answer", "error", "cancelled"}]
  /\ call \in {"none", "submitting", "joining", "returned", "refused"}
  /\ gone \in BOOLEAN
  /\ current \in Nat /\ totalProcessed \in Nat /\ totalFailed \in Nat

\* What Generate returned for an index is delivered to that index once, in
\* the channel or to its collector, unless the task ran out of time, the pool
\* was cancelled, or the collector had left (109-122, 234-262).
AnswerConserved ==
  \A t \in Tasks :
    /\ channel[t] # "none" => channel[t] = result[t]
    /\ collector[t] \in {"answer", "error"} =>
         collector[t] = result[t] /\ channel[t] = "none"
    /\ stage[t] = "left" /\ result[t] # "none" /\ ~Done(t) =>
         channel[t] # "none" \/ collector[t] = result[t]

\* processor.current is the number of Execute calls under way, panics included, and
\* every result is counted once in the totals (82-87, 97-104).
CountsAgree ==
  /\ TypeOK
  /\ current = Cardinality(InExecute)
  /\ totalProcessed = Cardinality({t \in Tasks : result[t] = "answer"})
  /\ totalFailed = Cardinality({t \in Tasks : result[t] = "error"})

\* ProcessBatch returns (295 "Siempre devolver las respuestas, incluso si
\* algunas fallaron").
BatchReturns == (call = "joining") ~> (call = "returned")

\* Nothing keeps ProcessBatch from returning but a task that can never answer:
\* its Generate panicked, its context ended before its answer was sent, or the
\* pool was closed before it ran (91, 119, 271).
Mute(t) ==
  /\ collector[t] = "waiting" /\ channel[t] = "none"
  /\ \/ stage[t] = "left" /\ (result[t] = "none" \/ Done(t))
     \/ stage[t] = "none" /\ ~open

ReturnsUnlessMute ==
  (call = "joining") ~> (call = "returned" \/ \E t \in Tasks : Mute(t))

\* No collector goroutine outlives the request, not even those of a batch
\* whose submission failed half way (266-269).
NoCollectorLeaks ==
  (call \in {"refused", "returned"}) ~> (\A t \in Tasks : collector[t] # "waiting")
=============================================================================
