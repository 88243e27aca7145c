--------------------------- MODULE BatchEndpoints ---------------------------
(***************************************************************************)
(* The three ways a batch is processed: by ParallelProcessor.ProcessBatch  *)
(* (ParallelBatch), by the loop of Manager.GenerateBatch when parallel mode*)
(* is off, and by the loop of Handler.GenerateBatchStreamHTTP, which sends *)
(* an event after each request. All of them implement BatchPromise.        *)
(***************************************************************************)
EXTENDS ParallelBatch, Sequences

CONSTANTS Order,  \* the requests as the client listed them
          Modes   \* which of "parallel", "sequential" and "events" happen

ASSUME OrderAssumption ==
  /\ Order \in Seq(Tasks) /\ Tasks = {Order[i] : i \in DOMAIN Order}
  /\ Len(Order) = Cardinality(Tasks)
  /\ Modes \subseteq {"parallel", "sequential", "events"}

VARIABLES
  mode,
  turn,   \* the position the loop has come to
  loop,   \* "generating", or "checking" whether the client is still there
  entry,  \* entry[t]: what the loop has put into the answer, or sent, for t
  ended   \* "pending", "answered", or "failed" without an answer or half way

loopVars     == <<mode, turn, loop, entry, ended>>
endpointVars == <<vars, loopVars>>

(* A faulty form may stand above a definition, for the mutation runs.      *)

\* What stands for a Generate that failed: a response that holds its error.
NoEntry    == "none"
ErrorEntry == "error"

-----------------------------------------------------------------------------
EndpointInit ==
  /\ mode \in Modes
  /\ IF mode = "parallel" THEN Init ELSE InitWith("none", "none")
  /\ turn = 1 /\ loop = "generating"
  /\ entry = [t \in Tasks |-> "none"] /\ ended = "pending"

Looping == mode # "parallel" /\ ended = "pending"

GenerateNext ==
  /\ Looping /\ loop = "generating" /\ turn \in DOMAIN Order
  /\ \E e \in {"answer", ErrorEntry} :
       entry' = [entry EXCEPT ![Order[turn]] = e]
  /\ turn' = turn + 1
  /\ loop' = IF mode = "events" THEN "checking" ELSE "generating"
  /\ UNCHANGED <<vars, mode, ended>>

\* gin.Recovery ends the whole request.
GeneratePanics ==
  /\ Looping /\ loop = "generating" /\ turn \in DOMAIN Order
  /\ "panic" \in Faults
  /\ ended' = "failed"
  /\ UNCHANGED <<vars, mode, turn, loop, entry>>

CheckClient ==
  /\ Looping /\ loop = "checking"
  /\ IF gone THEN ended' = "failed" /\ UNCHANGED loop
             ELSE loop' = "generating" /\ UNCHANGED ended
  /\ UNCHANGED <<vars, mode, turn, entry>>

\* The responses, or the summary after the events.
LoopEnds ==
  /\ Looping /\ loop = "generating" /\ turn = Len(Order) + 1
  /\ ended' = "answered"
  /\ UNCHANGED <<vars, mode, turn, loop, entry>>

LoopStep == GenerateNext \/ GeneratePanics \/ CheckClient \/ LoopEnds

EndpointNext ==
  \/ mode = "parallel" /\ Next /\ UNCHANGED loopVars
  \/ mode # "parallel" /\ Leave /\ UNCHANGED loopVars
  \/ LoopStep

EndpointSpec     == EndpointInit /\ [][EndpointNext]_endpointVars
EndpointFairSpec == EndpointSpec /\ Fairness /\ WF_endpointVars(LoopStep)

-----------------------------------------------------------------------------
(* Properties.                                                             *)

\* The outcomes and the end of the call, in whichever mode.
Result  == IF mode = "parallel" THEN result ELSE entry
Outcome == IF mode = "parallel"
           THEN [t \in Tasks |-> IF collector[t] = "waiting" THEN "none" ELSE collector[t]]
           ELSE entry
End     == IF mode # "parallel" THEN ended
           ELSE IF call = "returned" THEN "answered"
           ELSE IF call = "refused" THEN "failed" ELSE "pending"

BP == INSTANCE BatchPromise WITH
        Requests <- Tasks, result <- Result, outcome <- Outcome, reply <- End, left <- gone

\* The safety part: every step of an endpoint is one of BatchPromise's or a stutter.
ImplementsBatch == BP!BPSafeSpec

\* With parallel mode on or off, and as events, a batch answers each request
\* once, with what was generated for that request, and the whole only when all
\* are settled; one request's failure cancels no other (parallel_processor.go:230
\* "NO cancelar por errores individuales"); and whatever happens to its tasks, a
\* client that leaves ends it (GenerateBatch 467-490, ProcessBatch 182-298,
\* GenerateBatchStreamHTTP 925-1010).
FulfilsBatch == BP!BPSpec
=============================================================================
