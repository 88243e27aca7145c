---------------------------- MODULE BatchPromise ----------------------------
(***************************************************************************)
(* What a batch promises its client, however the server processes it: each *)
(* request gets one outcome, which is what was generated for it; "cancelled" *)
(* is the outcome of a request whose client has left; the client is answered *)
(* when every request has its outcome, or not at all; and a client that    *)
(* leaves ends its batch. The endpoints of BatchEndpoints implement this.  *)
(***************************************************************************)
EXTENDS Naturals

CONSTANT Requests

VARIABLES
  result,   \* result[t]: what was generated for t
  outcome,  \* outcome[t]: what the answer to the client says of t
  reply,    \* "pending", "answered" or "failed"
  left      \* the client has left, or been answered

bpVars == <<result, outcome, reply, left>>

BPInit ==
  /\ result = [t \in Requests |-> "none"] /\ outcome = [t \in Requests |-> "none"]
  /\ reply = "pending" /\ left = FALSE

Produces(t) ==
  /\ result[t] = "none"
  /\ \E o \in {"answer", "error"} : result' = [result EXCEPT ![t] = o]

Produce(t) == Produces(t) /\ UNCHANGED <<outcome, reply, left>>

\* Also in the step that produces the result.
Settle(t) ==
  /\ outcome[t] = "none"
  /\ Produces(t) \/ (result[t] # "none" /\ UNCHANGED result)
  /\ outcome' = [outcome EXCEPT ![t] = result'[t]]
  /\ UNCHANGED <<reply, left>>

Cancel(t) ==
  /\ left /\ outcome[t] = "none"
  /\ outcome' = [outcome EXCEPT ![t] = "cancelled"]
  /\ UNCHANGED <<result, reply, left>>

Reply(how) == reply = "pending" /\ reply' = how /\ UNCHANGED <<result, outcome, left>>

Answered == (\A t \in Requests : outcome[t] # "none") /\ Reply("answered")
Failed   == Reply("failed")

LeftAlone == ~left /\ left' = TRUE /\ UNCHANGED <<result, outcome, reply>>

BPNext == \/ Answered \/ Failed \/ LeftAlone
          \/ \E t \in Requests : Produce(t) \/ Settle(t) \/ Cancel(t)

\* The safety part, and the whole promise: a client that has left ends it.
BPSafeSpec == BPInit /\ [][BPNext]_bpVars
BPSpec     == BPSafeSpec /\ WF_bpVars(left /\ (Answered \/ Failed))
=============================================================================
