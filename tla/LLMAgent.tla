------------------------------ MODULE LLMAgent ------------------------------
(***************************************************************************)
(* One structured model call: LLMAgent._complete_structured of             *)
(* agents/base.py over AuditedModelClient.complete of providers/audit.py.  *)
(* Planner, specialist, critic and finalizer differ in the schema they ask *)
(* for.  A caller sets call to Calling(...) and reads call.value once the  *)
(* phase is "returned".                                                    *)
(*                                                                         *)
(* Usage is counted in model responses: every response the provider        *)
(* delivers costs one unit, whether or not it parses.                      *)
(***************************************************************************)
EXTENDS RunContext

CONSTANTS
  Outputs,          \* for each schema, the values a response may parse to
  MaxParseRetries   \* limits.max_parse_retries

ASSUME ParseRetriesAssumption == MaxParseRetries \in Nat

VARIABLE call       \* the structured call in progress

agentVars == <<contextVars, call>>

Schemas == DOMAIN Outputs

Calling(schema, task) ==
  [phase |-> "guard", schema |-> schema, task |-> task, attempt |-> 0, usage |-> 0, value |-> <<>>]
NoCall == [phase |-> "idle", schema |-> "none", task |-> 0, attempt |-> 0, usage |-> 0, value |-> <<>>]

AgentInit == call = NoCall

Returned(schema) == Running /\ call.phase = "returned" /\ call.schema = schema

-----------------------------------------------------------------------------

ModelCallRefused == Refused(model_calls, MaxModelCalls)

(* The guard runs before every attempt, retries included. *)
GuardRefuses ==
  /\ call.phase = "guard" /\ Running
  /\ ModelCallRefused
  /\ model_calls' = Consumed(model_calls)
  /\ Raise("BudgetExceededError")
  /\ UNCHANGED <<tool_calls, overtime, call>>

RequestModel ==
  /\ call.phase = "guard" /\ Running
  /\ ~ModelCallRefused
  /\ model_calls' = Consumed(model_calls)
  /\ Emit("model.requested", call.task, call.schema)
  /\ call' = [call EXCEPT !.phase = "waiting"]
  /\ UNCHANGED <<tool_calls, overtime>>

(* The response arrives, is recorded, and parses. *)
AnswerParses ==
  /\ call.phase = "waiting" /\ Running
  /\ Emit("model.completed", call.task, call.schema)
  /\ \E value \in Outputs[call.schema] :
       call' = [call EXCEPT !.phase = "returned", !.usage = @ + 1, !.value = value]
  /\ UNCHANGED budgetVars

(* The response arrives and is recorded, but is not JSON of the schema. *)
AnswerMalformed ==
  /\ call.phase = "waiting" /\ Running
  /\ Emit("model.completed", call.task, call.schema)
  /\ call' = [call EXCEPT !.phase = "invalid", !.usage = @ + 1]
  /\ UNCHANGED budgetVars

(* Mutant: the error propagates without a row. *)
ProviderFailsSilently ==
  /\ call.phase = "waiting" /\ Running
  /\ Raise("ProviderError")
  /\ UNCHANGED <<call, budgetVars>>

ProviderFails ==
  /\ call.phase = "waiting" /\ Running
  /\ EmitThen("model.failed", call.task, call.schema, "ProviderError")
  /\ UNCHANGED <<call, budgetVars>>

(* Mutants: one retry too many, one too few. *)
RetriesExceeded == call.attempt > MaxParseRetries
RetriesAlmostExhausted == call.attempt + 1 >= MaxParseRetries

RetriesExhausted == call.attempt >= MaxParseRetries

RejectOutput ==
  /\ call.phase = "invalid" /\ Running
  /\ EmitThen("model.output_invalid", call.task, call.schema,
              IF RetriesExhausted THEN "ModelOutputError" ELSE raised)
  /\ call' = [call EXCEPT !.phase = "guard", !.attempt = @ + 1]
  /\ UNCHANGED budgetVars

AgentStep ==
  \/ GuardRefuses
  \/ RequestModel
  \/ AnswerParses
  \/ AnswerMalformed
  \/ ProviderFails
  \/ RejectOutput

(* The task is cancelled while it waits for the provider.  Cancellation is *)
(* no Exception: AuditedModelClient writes no model.failed for it.         *)
CancelCall ==
  /\ call.phase = "waiting" /\ Running
  /\ Raise(Cancelled)
  /\ UNCHANGED <<call, budgetVars>>

-----------------------------------------------------------------------------
(* The component on its own: a caller that makes one call after another.   *)

CallAgain ==
  /\ call.phase \in {"idle", "returned"} /\ Running
  /\ \E schema \in Schemas : call' = Calling(schema, 0)
  /\ UNCHANGED contextVars

AgentNext ==
  \/ CallAgain
  \/ AgentStep
  \/ CancelCall
  \/ ClockPasses /\ UNCHANGED call
  \/ ~Running /\ UNCHANGED agentVars

AgentStart == ContextInit /\ AgentInit

(* The HTTP client's timeout turns an unanswered request into an error, so *)
(* a call that is not cancelled always goes on.                            *)
AgentSpec == AgentStart /\ [][AgentNext]_agentVars /\ WF_agentVars(AgentStep)

-----------------------------------------------------------------------------

CallTypeOK ==
  /\ call = [phase |-> call.phase, schema |-> call.schema, task |-> call.task,
             attempt |-> call.attempt, usage |-> call.usage, value |-> call.value]
  /\ call.phase \in {"idle", "guard", "waiting", "invalid", "returned"}
  /\ call.schema \in Schemas \cup {"none"}
  /\ call.task \in Nat
  /\ call.attempt \in 0..(MaxParseRetries + 1)
  /\ call.usage \in Nat
  /\ call.phase = "returned" => call.value \in Outputs[call.schema]

AgentTypeOK == ContextTypeOK /\ CallTypeOK

(* However many retries malformed answers cause, the provider is asked at  *)
(* most max_model_calls times in a run: retries share the run's budget.    *)
ModelCallsWithinBudget ==
  /\ Count("model.requested") <= MaxModelCalls
  /\ Count("model.requested") <= model_calls

Outcomes == {"model.completed", "model.failed"}

RequestsAnswered ==
  \A e \in OfType("model.requested") :
    \/ \E f \in events : f.sequence = e.sequence + 1 /\ f.type \in Outcomes /\ f.note = e.note
    \/ e.sequence = sequence /\ call.phase = "waiting" /\ raised \in {"none", Cancelled}
    \/ store_faults > 0

OutcomesRequested ==
  \A f \in events : f.type \in Outcomes =>
    \E e \in OfType("model.requested") : e.sequence = f.sequence - 1 /\ e.note = f.note

InvalidsCompleted ==
  \A f \in OfType("model.output_invalid") :
    \E e \in OfType("model.completed") : e.sequence = f.sequence - 1 /\ e.note = f.note

(* The audit trail of model calls: every recorded request other than the   *)
(* one being waited for (or cancelled) is directly followed by its         *)
(* outcome, unless an append of this run raised; and every outcome and     *)
(* every invalid output directly follows what it belongs to.               *)
AuditTrailComplete == RequestsAnswered /\ OutcomesRequested /\ InvalidsCompleted

(* A call gives up with ModelOutputError only after max_parse_retries + 1  *)
(* answers of that call were recorded as invalid, one after another.       *)
GivesUpAfterAllRetries ==
  raised = "ModelOutputError" =>
    \A k \in 0..MaxParseRetries :
      \E e \in OfType("model.output_invalid") : e.sequence = sequence - 3 * k

=============================================================================
