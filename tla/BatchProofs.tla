---------------------------- MODULE BatchProofs ----------------------------
(***************************************************************************)
(* Machine-checked proofs about a batch, for any number of requests, any   *)
(* limit of the pool and any faults. A step of an endpoint is a step of    *)
(* ParallelBatch or leaves its variables alone, so the invariant of one    *)
(* ProcessBatch call (BatchInv) holds in every mode; with the position of  *)
(* the loop (LoopInv) it gives the refinement of BatchPromise.             *)
(***************************************************************************)
EXTENDS BatchEndpoints, FiniteSetTheorems, SequenceTheorems, TLAPS

\* A task's Execute has begun when the pool has started it, and has returned
\* when the pool is done with it.
StageFollowsStatus ==
  \A t \in Tasks : /\ stage[t] = "none" <=> status[t] \in {"new", "rejected", "accepted"}
                   /\ stage[t] = "left" <=> status[t] = "done"

\* Until Execute has returned, nothing of its result has left it.
Undelivered ==
  \A t \in Tasks :
    /\ stage[t] \in {"none", "generating"} => result[t] = "none"
    /\ stage[t] = "sending" => result[t] # "none"
    /\ stage[t] # "left" => channel[t] = "none" /\ collector[t] \notin {"answer", "error"}

BatchInv ==
  CountsAgree /\ StageFollowsStatus /\ Undelivered /\ AnswerConserved

\* A step of an endpoint moves the call as ParallelBatch allows, or not at all.
LEMMA EndpointStepIsBatchStep == [EndpointNext]_endpointVars => [Next]_vars
BY DEF EndpointNext, Next, LoopStep, GenerateNext, GeneratePanics, CheckClient,
   LoopEnds, endpointVars

LEMMA BatchInit == EndpointInit => BatchInv
<1> SUFFICES ASSUME NEW c \in {"none", "submitting"}, NEW w \in {"none", "waiting"},
                    InitWith(c, w)
             PROVE  BatchInv
  BY DEF EndpointInit, Init
<1> USE DEF InitWith, TPInit
<1>1. TypeOK
  <2>1. TPTypeOK
    BY DEF TPTypeOK, TaskStatus
  <2>2. collector \in [Tasks -> {"none", "waiting", "answer", "error", "cancelled"}]
    OBVIOUS
  <2>3. call \in {"none", "submitting", "joining", "returned", "refused"}
    OBVIOUS
  <2>4. QED
    BY <2>1, <2>2, <2>3 DEF TypeOK
<1>2. StageFollowsStatus /\ Undelivered /\ AnswerConserved
  BY DEF StageFollowsStatus, Undelivered, AnswerConserved
<1>3. /\ InExecute = {} /\ {t \in Tasks : result[t] = "answer"} = {}
      /\ {t \in Tasks : result[t] = "error"} = {}
  BY DEF InExecute
<1>4. QED
  BY <1>1, <1>2, <1>3, FS_EmptySet DEF BatchInv, CountsAgree

-----------------------------------------------------------------------------
(* The counters and the types, which need each other: a counter is a natural *)
(* number because it is decremented only for a task that it counts.        *)

LEMMA StepKeepsFinite ==
  \A S \in SUBSET Tasks : IsFiniteSet(S) /\ Cardinality(S) \in Nat
BY FaultsAssumption, FS_Subset, FS_CardinalityType

\* A task that leaves Execute is one that current counts.
LEMMA ExecuteEnds ==
  ASSUME CountsAgree, NEW t \in Tasks, stage[t] \in {"generating", "sending"},
         stage' = [stage EXCEPT ![t] = "left"], current' = current - 1
  PROVE  current' \in Nat /\ current' = Cardinality(InExecute')
<1>1. t \in InExecute /\ InExecute' = InExecute \ {t}
  BY DEF InExecute, CountsAgree, TypeOK
<1>2. IsFiniteSet(InExecute) /\ InExecute \ {t} \in SUBSET Tasks
  BY StepKeepsFinite DEF InExecute
<1>3. Cardinality(InExecute \ {t}) = Cardinality(InExecute) - 1
  BY <1>1, <1>2, FS_RemoveElement
<1>4. QED
  BY <1>1, <1>2, <1>3, StepKeepsFinite DEF CountsAgree

LEMMA ResultCounted ==
  ASSUME TypeOK, NEW t \in Tasks, NEW o \in {"answer", "error"},
         result[t] = "none", result' = [result EXCEPT ![t] = o]
  PROVE  /\ Cardinality({u \in Tasks : result'[u] = o})
              = Cardinality({u \in Tasks : result[u] = o}) + 1
         /\ \A p \in {"answer", "error"} \ {o} :
              {u \in Tasks : result'[u] = p} = {u \in Tasks : result[u] = p}
<1>1. {u \in Tasks : result'[u] = o} = {u \in Tasks : result[u] = o} \cup {t}
  BY DEF TypeOK
<1>2. t \notin {u \in Tasks : result[u] = o}
  OBVIOUS
<1>3. IsFiniteSet({u \in Tasks : result[u] = o})
  BY StepKeepsFinite
<1>4. \A p \in {"answer", "error"} \ {o} :
        {u \in Tasks : result'[u] = p} = {u \in Tasks : result[u] = p}
  BY DEF TypeOK
<1>5. QED
  BY <1>1, <1>2, <1>3, <1>4, FS_AddElement

LEMMA CountsStep ==
  CountsAgree /\ StageFollowsStatus /\ Undelivered /\ [Next]_vars => CountsAgree'
<1> SUFFICES ASSUME CountsAgree, StageFollowsStatus, Undelivered, [Next]_vars
             PROVE  CountsAgree'
  OBVIOUS
<1> USE DEF tpVars, taskVars, callVars, countVars
<1>t. TypeOK /\ TPTypeOK
  BY DEF CountsAgree, TypeOK
<1>1. ASSUME UNCHANGED <<stage, result, countVars>>, TypeOK' PROVE CountsAgree'
  BY <1>1 DEF CountsAgree, InExecute
<1>2. CASE SubmitReturns \/ Join \/ Leave \/ ClosePool
  <2>1. TypeOK'
    BY <1>t, <1>2 DEF SubmitReturns, Join, Leave, ClosePool, Close, TypeOK, TPTypeOK
  <2>2. UNCHANGED <<stage, result, countVars>>
    BY <1>2 DEF SubmitReturns, Join, Leave, ClosePool
  <2>3. QED
    BY <1>1, <2>1, <2>2
<1>3. ASSUME NEW t \in Tasks, Submit(t) \/ Refused(t) \/ Expire(t) \/ Collect(t)
      PROVE  CountsAgree'
  <2>1. TypeOK'
    <3>1. CASE Submit(t) \/ Refused(t) \/ Expire(t)
      BY <1>t, <3>1 DEF Submit, Refused, Expire, Accept, Reject, Move, TypeOK,
         TPTypeOK, TaskStatus
    <3>2. CASE Collect(t)
      BY <1>t, <3>2 DEF Collect, Receive, Abandon, TypeOK, TPTypeOK
    <3>3. QED
      BY <1>3, <3>1, <3>2
  <2>2. UNCHANGED <<stage, result, countVars>>
    BY <1>3 DEF Submit, Refused, Expire, Collect, Receive, Abandon
  <2>3. QED
    BY <1>1, <2>1, <2>2
<1>4. ASSUME NEW t \in Tasks, Begin(t) PROVE CountsAgree'
  <2>1. TypeOK'
    BY <1>t, <1>4 DEF Begin, Start, Move, TypeOK, TPTypeOK, TaskStatus
  <2>2. stage[t] = "none"
    BY <1>4 DEF Begin, Start, Move, StageFollowsStatus
  <2>3. InExecute' = InExecute \cup {t} /\ t \notin InExecute
    BY <1>t, <1>4, <2>2 DEF Begin, InExecute, TypeOK
  <2>4. IsFiniteSet(InExecute)
    BY StepKeepsFinite DEF InExecute
  <2>5. Cardinality(InExecute') = Cardinality(InExecute) + 1
    BY <2>3, <2>4, FS_AddElement
  <2>6. QED
    BY <1>4, <2>1, <2>5 DEF Begin, CountsAgree
<1>5. ASSUME NEW t \in Tasks, Generated(t) PROVE CountsAgree'
  <2>1. TypeOK'
    BY <1>t, <1>5 DEF Generated, TypeOK, TPTypeOK
  <2>2. result[t] = "none"
    BY <1>5 DEF Generated, Undelivered
  <2>3. InExecute' = InExecute
    BY <1>t, <1>5 DEF Generated, InExecute, TypeOK
  <2>4. QED
    BY <1>t, <1>5, <2>1, <2>2, <2>3, ResultCounted DEF Generated, CountsAgree
<1>6. ASSUME NEW t \in Tasks, Panic(t) \/ Send(t) \/ Drop(t) PROVE CountsAgree'
  <2>1. /\ stage[t] \in {"generating", "sending"} /\ current' = current - 1
        /\ stage' = [stage EXCEPT ![t] = "left"]
    BY <1>6 DEF Panic, Send, Drop, PanicDecrement
  <2>2. current' \in Nat /\ current' = Cardinality(InExecute')
    BY <2>1, ExecuteEnds
  <2>3. TPTypeOK'
    BY <1>t, <1>6 DEF Panic, Send, Drop, Finish, Move, TPTypeOK, TaskStatus
  <2>4. TypeOK'
    BY <1>t, <1>6, <2>2, <2>3 DEF Panic, Send, Drop, TypeOK
  <2>5. UNCHANGED <<result, totalProcessed, totalFailed>>
    BY <1>6 DEF Panic, Send, Drop
  <2>6. QED
    BY <2>2, <2>4, <2>5 DEF CountsAgree
<1>7. CASE UNCHANGED vars
  BY <1>t, <1>7, <1>1 DEF vars, TypeOK, TPTypeOK
<1>8. QED
  BY <1>2, <1>3, <1>4, <1>5, <1>6, <1>7 DEF Next, Execute

LEMMA StageStep ==
  TypeOK /\ StageFollowsStatus /\ [Next]_vars => StageFollowsStatus'
<1> SUFFICES ASSUME TypeOK, StageFollowsStatus, [Next]_vars
             PROVE  StageFollowsStatus'
  OBVIOUS
<1> USE DEF TypeOK, TPTypeOK, TaskStatus, tpVars, taskVars, callVars, countVars,
            StageFollowsStatus
<1>1. CASE SubmitReturns \/ Join \/ Leave \/ ClosePool
  BY <1>1 DEF SubmitReturns, Join, Leave, ClosePool, Close
<1>2. ASSUME NEW t \in Tasks, Submit(t) \/ Refused(t) \/ Begin(t)
      PROVE  StageFollowsStatus'
  BY <1>2 DEF Submit, Refused, Begin, Accept, Reject, Start, Move
<1>3. ASSUME NEW t \in Tasks, Expire(t) \/ Generated(t) \/ Collect(t)
      PROVE  StageFollowsStatus'
  BY <1>3 DEF Expire, Generated, Collect, Receive, Abandon
<1>4. ASSUME NEW t \in Tasks, Panic(t) \/ Send(t) \/ Drop(t)
      PROVE  StageFollowsStatus'
  BY <1>4 DEF Panic, Send, Drop, Finish, Move
<1>5. CASE UNCHANGED vars
  BY <1>5 DEF vars
<1>6. QED
  BY <1>1, <1>2, <1>3, <1>4, <1>5 DEF Next, Execute

-----------------------------------------------------------------------------
(* A result on its way.                                                    *)

LEMMA DeliveryStep ==
  ASSUME TypeOK, StageFollowsStatus, Undelivered, AnswerConserved, [Next]_vars
  PROVE  Undelivered' /\ AnswerConserved'
<1> USE DEF TypeOK, TPTypeOK, tpVars, taskVars, callVars, countVars,
            Undelivered, AnswerConserved, Done
<1>1. CASE SubmitReturns \/ Join \/ Leave \/ ClosePool
  BY <1>1 DEF SubmitReturns, Join, Leave, ClosePool, Close
<1>2. ASSUME NEW t \in Tasks, Submit(t) \/ Refused(t) \/ Expire(t)
      PROVE  Undelivered' /\ AnswerConserved'
  BY <1>2 DEF Submit, Refused, Expire, Accept, Reject, Move
<1>3. ASSUME NEW t \in Tasks, Begin(t) PROVE Undelivered' /\ AnswerConserved'
  <2>1. stage[t] = "none"
    BY <1>3 DEF Begin, Start, Move, StageFollowsStatus
  <2>2. QED
    BY <1>3, <2>1 DEF Begin, Start, Move
<1>4. ASSUME NEW t \in Tasks, Generated(t) PROVE Undelivered' /\ AnswerConserved'
  BY <1>4 DEF Generated
<1>5. ASSUME NEW t \in Tasks, Panic(t) PROVE Undelivered' /\ AnswerConserved'
  BY <1>5 DEF Panic, Finish, Move
<1>6. ASSUME NEW t \in Tasks, Send(t) PROVE Undelivered' /\ AnswerConserved'
  BY <1>6 DEF Send, Finish, Move
<1>7. ASSUME NEW t \in Tasks, Drop(t) PROVE Undelivered' /\ AnswerConserved'
  BY <1>7 DEF Drop, GivesUp, Finish, Move
<1>8. ASSUME NEW t \in Tasks, Receive(t) PROVE Undelivered' /\ AnswerConserved'
  BY <1>8 DEF Receive
<1>9. ASSUME NEW t \in Tasks, Abandon(t) PROVE Undelivered' /\ AnswerConserved'
  BY <1>9 DEF Abandon
<1>10. CASE UNCHANGED vars
  BY <1>10 DEF vars
<1>11. QED
  BY <1>1, <1>2, <1>3, <1>4, <1>5, <1>6, <1>7, <1>8, <1>9, <1>10
     DEF Next, Execute, Collect

\* BatchInv is inductive, for all three ways of processing a batch.
THEOREM BatchInductive == EndpointSpec => []BatchInv
<1>1. BatchInv /\ [EndpointNext]_endpointVars => BatchInv'
  BY EndpointStepIsBatchStep, CountsStep, StageStep, DeliveryStep
     DEF BatchInv, CountsAgree
<1>2. QED
  BY <1>1, BatchInit, PTL DEF EndpointSpec

\* Every result is counted once and current is what is under way, for any batch
\* (parallel_processor.go 82-104).
THEOREM BatchCounts == EndpointSpec => []CountsAgree
<1>1. BatchInv => CountsAgree
  BY DEF BatchInv
<1>2. QED
  BY <1>1, BatchInductive, PTL

\* What Generate returned for an index reaches that index, once, or the task ran
\* out of time or the pool was cancelled (parallel_processor.go 109-122, 234-262).
THEOREM BatchDelivers == EndpointSpec => []AnswerConserved
<1>1. BatchInv => AnswerConserved
  BY DEF BatchInv
<1>2. QED
  BY <1>1, BatchInductive, PTL

-----------------------------------------------------------------------------
(* The position of the loop, and the refinement of BatchPromise.           *)

LoopInv ==
  /\ mode \in {"parallel", "sequential", "events"}
  /\ turn \in Nat /\ entry \in [Tasks -> {"none", "answer", "error"}]
  /\ \A i \in DOMAIN Order : entry[Order[i]] = "none" <=> turn <= i
  /\ mode = "parallel" =>
       call # "none" /\ \A t \in Tasks : collector[t] # "none"

\* No request is listed twice.
LEMMA OrderInjective ==
  \A i, j \in DOMAIN Order : Order[i] = Order[j] => i = j
<1>1. Order \in [1..Len(Order) -> Tasks] /\ Len(Order) \in Nat
  BY OrderAssumption, LenProperties
<1>2. Order \in Surjection(1..Len(Order), Tasks)
  BY <1>1, OrderAssumption DEF Surjection
<1>3. IsFiniteSet(1..Len(Order)) /\ Cardinality(1..Len(Order)) = Cardinality(Tasks)
  BY <1>1, FS_Interval, OrderAssumption
<1>4. Order \in Injection(1..Len(Order), Tasks)
  BY <1>2, <1>3, FS_SurjSameCardinalityImpliesInj
<1>5. QED
  BY <1>1, <1>4 DEF Injection, IsInjective

LEMMA LoopInit == EndpointInit => LoopInv
<1> SUFFICES ASSUME EndpointInit PROVE LoopInv
  OBVIOUS
<1>1. mode \in {"parallel", "sequential", "events"}
  BY OrderAssumption DEF EndpointInit
<1>2. \A i \in DOMAIN Order : Order[i] \in Tasks /\ i \in Nat /\ 1 <= i
  BY OrderAssumption
<1>3. QED
  BY <1>1, <1>2 DEF EndpointInit, Init, InitWith, LoopInv

LEMMA LoopInvStep ==
  BatchInv /\ LoopInv /\ [EndpointNext]_endpointVars => LoopInv'
<1> SUFFICES ASSUME BatchInv, LoopInv, [EndpointNext]_endpointVars PROVE LoopInv'
  OBVIOUS
<1>1. TypeOK
  BY DEF BatchInv, CountsAgree
<1>2. CASE UNCHANGED loopVars /\ [Next]_vars
  <2>1. call # "none" => call' # "none"
    BY <1>1, <1>2 DEF Next, SubmitReturns, Join, Leave, ClosePool, Submit, Refused,
       Begin, Expire, Execute, Generated, Panic, Send, Drop, Collect, Receive,
       Abandon, callVars, vars
  <2>2. \A t \in Tasks : collector[t] # "none" => collector'[t] # "none"
    <3>1. CASE UNCHANGED collector
      BY <3>1
    <3>2. ASSUME NEW u \in Tasks, Collect(u)
          PROVE  \A t \in Tasks : collector[t] # "none" => collector'[t] # "none"
      BY <1>1, <3>2 DEF Collect, Receive, Abandon, TypeOK
    <3>3. QED
      BY <1>2, <3>1, <3>2 DEF Next, SubmitReturns, Join, Leave, ClosePool, Submit,
         Refused, Begin, Expire, Execute, Generated, Panic, Send, Drop, callVars, vars
  <2>3. QED
    BY <1>2, <2>1, <2>2 DEF LoopInv, loopVars
<1>3. CASE GenerateNext
  <2>1. /\ mode' = mode /\ mode # "parallel" /\ turn \in DOMAIN Order /\ turn' = turn + 1
        /\ \E e \in {"answer", "error"} : entry' = [entry EXCEPT ![Order[turn]] = e]
    BY <1>3 DEF GenerateNext, Looping, ErrorEntry
  <2>2. /\ \A i \in DOMAIN Order : Order[i] \in Tasks /\ i \in Nat
    BY OrderAssumption
  <2>3. \A i \in DOMAIN Order :
          entry'[Order[i]] = "none" <=> i # turn /\ entry[Order[i]] = "none"
    BY <2>1, <2>2, OrderInjective DEF LoopInv
  <2>4. \A i \in DOMAIN Order : entry'[Order[i]] = "none" <=> turn' <= i
    BY <2>1, <2>2, <2>3 DEF LoopInv
  <2>5. turn' \in Nat
    BY <2>1 DEF LoopInv
  <2>6. entry' \in [Tasks -> {"none", "answer", "error"}]
    BY <2>1 DEF LoopInv
  <2>7. QED
    BY <2>1, <2>4, <2>5, <2>6 DEF LoopInv
<1>4. CASE GeneratePanics \/ CheckClient \/ LoopEnds
  BY <1>4 DEF GeneratePanics, CheckClient, LoopEnds, Looping, LoopInv
<1>5. CASE UNCHANGED endpointVars
  BY <1>2, <1>5 DEF endpointVars
<1>6. QED
  BY <1>2, <1>3, <1>4, <1>5 DEF EndpointNext, LoopStep, Next

LEMMA PromiseInit == EndpointInit => BP!BPInit
BY DEF EndpointInit, Init, InitWith, BP!BPInit, Result, Outcome, End

\* A step of ProcessBatch, seen by its client.
LEMMA ParallelPromise ==
  ASSUME BatchInv, LoopInv, mode = "parallel", Next, UNCHANGED loopVars
  PROVE  [BP!BPNext]_BP!bpVars
<1> USE DEF loopVars, BP!bpVars, Result, Outcome, End
<1>1. TypeOK /\ mode' = "parallel"
  BY DEF BatchInv, CountsAgree
<1>2. ASSUME UNCHANGED <<result, collector, call, gone>> PROVE UNCHANGED BP!bpVars
  BY <1>1, <1>2
<1>3. CASE SubmitReturns
  <2>1. CASE call' = "refused"
    BY <1>1, <1>3, <2>1 DEF SubmitReturns, taskVars, BP!Failed, BP!Reply, BP!BPNext
  <2>2. CASE call' = "joining"
    BY <1>1, <1>3, <2>2 DEF SubmitReturns, taskVars
  <2>3. QED
    BY <1>3, <2>1, <2>2 DEF SubmitReturns
<1>4. CASE Join
  BY <1>1, <1>4 DEF Join, taskVars, LoopInv, BP!Answered, BP!Reply, BP!BPNext
<1>5. CASE Leave
  BY <1>1, <1>5 DEF Leave, taskVars, BP!LeftAlone, BP!BPNext
<1>6. CASE ClosePool
  BY <1>2, <1>6 DEF ClosePool, taskVars, callVars
<1>7. ASSUME NEW t \in Tasks, \/ Submit(t) \/ Refused(t) \/ Begin(t) \/ Expire(t)
                              \/ Panic(t) \/ Send(t) \/ Drop(t)
      PROVE  UNCHANGED BP!bpVars
  BY <1>2, <1>7 DEF Submit, Refused, Begin, Expire, Panic, Send, Drop, taskVars, callVars
<1>8. ASSUME NEW t \in Tasks, Generated(t) PROVE BP!Produce(t)
  BY <1>1, <1>8 DEF Generated, callVars, BatchInv, Undelivered, BP!Produce, BP!Produces
<1>9. ASSUME NEW t \in Tasks, Receive(t) PROVE BP!Settle(t)
  <2>1. /\ collector[t] = "waiting" /\ channel[t] # "none" /\ channel[t] = result[t]
        /\ collector' = [collector EXCEPT ![t] = result[t]]
        /\ UNCHANGED <<result, call, gone>>
    BY <1>9 DEF Receive, taskVars, BatchInv, AnswerConserved
  <2>2. Outcome' = [Outcome EXCEPT ![t] = Result'[t]]
    BY <1>1, <2>1 DEF TypeOK
  <2>3. QED
    BY <1>1, <2>1, <2>2 DEF BP!Settle
<1>10. ASSUME NEW t \in Tasks, Abandon(t) PROVE BP!Cancel(t)
  <2>1. /\ collector[t] = "waiting" /\ gone
        /\ collector' = [collector EXCEPT ![t] = "cancelled"]
        /\ UNCHANGED <<result, call, gone>>
    BY <1>10 DEF Abandon, RequestDone, taskVars
  <2>2. Outcome' = [Outcome EXCEPT ![t] = "cancelled"]
    BY <1>1, <2>1 DEF TypeOK
  <2>3. QED
    BY <1>1, <2>1, <2>2 DEF BP!Cancel
<1>11. QED
  BY <1>3, <1>4, <1>5, <1>6, <1>7, <1>8, <1>9, <1>10
     DEF Next, Execute, Collect, BP!BPNext

\* A step of either loop, seen by its client.
LEMMA LoopPromise ==
  ASSUME LoopInv, mode # "parallel",
         LoopStep \/ (Leave /\ UNCHANGED loopVars)
  PROVE  [BP!BPNext]_BP!bpVars
<1> USE DEF loopVars, BP!bpVars, Result, Outcome, End
<1>1. CASE Leave /\ UNCHANGED loopVars
  BY <1>1 DEF Leave, BP!LeftAlone, BP!BPNext
<1>2. CASE GenerateNext
  <2>1. PICK e \in {"answer", "error"} : entry' = [entry EXCEPT ![Order[turn]] = e]
    BY <1>2 DEF GenerateNext, ErrorEntry
  <2>2. Order[turn] \in Tasks /\ entry[Order[turn]] = "none"
    BY <1>2, OrderAssumption DEF GenerateNext, LoopInv
  <2>3. /\ Result = entry /\ Outcome = entry /\ Result' = entry' /\ Outcome' = entry'
        /\ End' = End /\ gone' = gone
    BY <1>2 DEF GenerateNext, vars, callVars
  <2> HIDE DEF Result, Outcome, End
  <2>4. BP!Produces(Order[turn])
    BY <2>1, <2>2, <2>3 DEF BP!Produces
  <2>5. Outcome' = [Outcome EXCEPT ![Order[turn]] = Result'[Order[turn]]]
    BY <2>1, <2>2, <2>3 DEF LoopInv
  <2>6. BP!Settle(Order[turn])
    BY <2>2, <2>3, <2>4, <2>5 DEF BP!Settle
  <2>7. QED
    BY <2>2, <2>6 DEF BP!BPNext
<1>3. CASE GeneratePanics
  BY <1>3 DEF GeneratePanics, Looping, vars, callVars, BP!Failed, BP!Reply, BP!BPNext
<1>4. CASE CheckClient
  BY <1>4 DEF CheckClient, Looping, vars, callVars, BP!Failed, BP!Reply, BP!BPNext
<1>5. CASE LoopEnds
  <2>1. \A t \in Tasks : entry[t] # "none"
    <3>1. \A i \in DOMAIN Order : i \in Nat /\ i < turn
      BY <1>5, OrderAssumption DEF LoopEnds
    <3>2. QED
      BY <3>1, OrderAssumption DEF LoopInv
  <2>2. QED
    BY <1>5, <2>1 DEF LoopEnds, Looping, vars, callVars, BP!Answered, BP!Reply, BP!BPNext
<1>6. QED
  BY <1>1, <1>2, <1>3, <1>4, <1>5 DEF LoopStep

LEMMA PromiseStep ==
  BatchInv /\ LoopInv /\ [EndpointNext]_endpointVars => [BP!BPNext]_BP!bpVars
<1>1. CASE UNCHANGED endpointVars
  BY <1>1 DEF endpointVars, vars, taskVars, callVars, loopVars, BP!bpVars, Result,
     Outcome, End
<1>2. QED
  BY <1>1, ParallelPromise, LoopPromise DEF EndpointNext, LoopStep, GenerateNext,
     GeneratePanics, CheckClient, LoopEnds, Looping

\* However many requests a batch has and whichever way it is processed, each gets
\* one outcome, its own; none is answered before all have theirs; one's failure
\* cancels no other (GenerateBatch 467-490, ProcessBatch 182-298,
\* GenerateBatchStreamHTTP 925-1010).
THEOREM BatchKeepsPromise == EndpointSpec => ImplementsBatch
<1>1. EndpointSpec => []LoopInv
  BY LoopInit, LoopInvStep, BatchInductive, PTL DEF EndpointSpec
<1>2. QED
  BY <1>1, BatchInductive, PromiseInit, PromiseStep, PTL
     DEF EndpointSpec, ImplementsBatch, BP!BPSafeSpec
=============================================================================
