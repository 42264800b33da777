--------------------------- MODULE LLMAgentProofs ---------------------------
(***************************************************************************)
(* Proofs about LLMAgent, for any schemas, budgets, retry limits and       *)
(* number of store faults.                                                 *)
(***************************************************************************)
EXTENDS LLMAgent, FiniteSetTheorems, TLAPS

-----------------------------------------------------------------------------
(* The shared context of a run: what emitting a row, raising an exception *)
(* or leaving the event log alone preserves and counts.                    *)

Raisable == Errors \cup {Cancelled, "none"}

HistoryInv == HistoryTypeOK /\ HistoryIntact

(* The next row is new: its number is ahead of every stored row. *)
LEMMA NextRowFresh ==
  ASSUME HistoryInv, NEW type, NEW task, NEW note
  PROVE  /\ Row(type, task, note) \notin events
         /\ \A e \in events : e.sequence < sequence + 1
         /\ Cardinality(events) \in Nat
         /\ IsFiniteSet(events \cup {Row(type, task, note)})
         /\ Cardinality(events \cup {Row(type, task, note)}) = Cardinality(events) + 1
<1>1. /\ sequence \in Nat /\ IsFiniteSet(events)
      /\ \A e \in events : e.sequence \in 1..sequence
  BY DEF HistoryInv, HistoryTypeOK, HistoryIntact, SequenceNumbersUnique
<1>2. /\ \A e \in events : e.sequence < sequence + 1
      /\ Row(type, task, note).sequence = sequence + 1
  BY <1>1 DEF Row
<1>3. Row(type, task, note) \notin events
  BY <1>1, <1>2
<1> QED BY <1>1, <1>2, <1>3, FS_CardinalityType, FS_AddElement

(* The rows in the store after the store's next row was added to them. *)
LEMMA RowAdded ==
  ASSUME HistoryInv, NEW type, NEW task, NEW note, RowOK(Row(type, task, note)),
         events' = events \cup {Row(type, task, note)}, sequence' = sequence + 1
  PROVE  /\ \A e \in events' : RowOK(e)
         /\ IsFiniteSet(events')
         /\ SequenceNumbersUnique'
         /\ Cardinality(events') = Cardinality(events) + 1
<1>1. /\ sequence \in Nat
      /\ \A e \in events : RowOK(e) /\ e.sequence \in 1..sequence
      /\ \A e, f \in events : e.sequence = f.sequence => e = f
  BY DEF HistoryInv, HistoryTypeOK, HistoryIntact, SequenceNumbersUnique
<1>2. Row(type, task, note).sequence = sequence + 1
  BY DEF Row
<1>3. \A e \in events' : e.sequence \in 1..sequence'
  BY <1>1, <1>2
<1>4. \A e, f \in events' : e.sequence = f.sequence => e = f
  BY <1>1, <1>2, NextRowFresh
<1>5. SequenceNumbersUnique'
  BY <1>3, <1>4 DEF SequenceNumbersUnique
<1>6. \A e \in events' : RowOK(e)
  BY <1>1
<1>7. IsFiniteSet(events') /\ Cardinality(events') = Cardinality(events) + 1
  BY NextRowFresh
<1> QED BY <1>5, <1>6, <1>7

(* Emitting keeps the history sound, whether or not the store raises. *)
LEMMA EmitKeepsHistory ==
  ASSUME HistoryInv, NEW type, NEW task, NEW note, RowOK(Row(type, task, note)),
         NEW error \in Raisable, EmitThen(type, task, note, error)
  PROVE  HistoryInv'
<1> DEFINE row == Row(type, task, note)
<1>1. /\ sequence \in Nat /\ sequence' = sequence + 1
      /\ store_faults \in 0..MaxStoreFaults
      /\ sequence - Cardinality(events) \in 0..store_faults
  BY DEF HistoryInv, HistoryTypeOK, HistoryIntact, GapsAreFaults, EmitThen
<1>2. Cardinality(events) \in Nat
  BY NextRowFresh
<1>3. CASE Appended(row, error)
  <2>1. events' = events \cup {row} /\ raised' = error /\ store_faults' = store_faults
    BY <1>3 DEF Appended
  <2>3. Cardinality(events') = Cardinality(events) + 1
    BY <1>1, <2>1, RowAdded
  <2>2. GapsAreFaults'
    BY <1>1, <1>2, <2>1, <2>3 DEF GapsAreFaults
  <2> QED BY <1>1, <2>1, <2>2, RowAdded DEF HistoryInv, HistoryTypeOK, HistoryIntact, Raisable
<1>4. CASE StoreRaises /\ events' = events \cup {row}
  <2>1. /\ store_faults' = store_faults + 1 /\ store_faults' \in 0..MaxStoreFaults
        /\ raised' \in Raisable
    BY <1>1, <1>4, BudgetAssumption DEF StoreRaises, Raisable, Errors
  <2>3. Cardinality(events') = Cardinality(events) + 1
    BY <1>1, <1>4, RowAdded
  <2>2. GapsAreFaults'
    BY <1>1, <1>2, <1>4, <2>1, <2>3 DEF GapsAreFaults
  <2> QED BY <1>1, <1>4, <2>1, <2>2, RowAdded
          DEF HistoryInv, HistoryTypeOK, HistoryIntact, Raisable
<1>5. CASE StoreRaises /\ events' = events
  <2>1. /\ store_faults' = store_faults + 1 /\ store_faults' \in 0..MaxStoreFaults
        /\ raised' \in Raisable
    BY <1>1, <1>5, BudgetAssumption DEF StoreRaises, Raisable, Errors
  <2>2. GapsAreFaults'
    BY <1>1, <1>2, <1>5, <2>1 DEF GapsAreFaults
  <2>3. SequenceNumbersUnique'
    BY <1>1, <1>5 DEF HistoryInv, HistoryIntact, SequenceNumbersUnique
  <2> QED BY <1>1, <1>5, <2>1, <2>2, <2>3
          DEF HistoryInv, HistoryTypeOK, HistoryIntact, Raisable
<1> QED BY <1>3, <1>4, <1>5 DEF EmitThen

(* Raising an exception, or doing neither, does not touch the history. *)
LEMMA RaiseKeepsHistory ==
  ASSUME HistoryInv, NEW error \in Raisable, Raise(error)
  PROVE  HistoryInv'
BY DEF HistoryInv, HistoryTypeOK, HistoryIntact, SequenceNumbersUnique, GapsAreFaults,
       Raise, Raisable

LEMMA QuietKeepsHistory ==
  ASSUME HistoryInv, UNCHANGED <<sequence, events, raised, store_faults>>
  PROVE  HistoryInv'
BY DEF HistoryInv, HistoryTypeOK, HistoryIntact, SequenceNumbersUnique, GapsAreFaults

(* An operation of the store that raises counts as a fault, and no more. *)
LEMMA FaultKeepsHistory ==
  ASSUME HistoryInv, StoreRaises, UNCHANGED <<sequence, events>>
  PROVE  HistoryInv'
<1>1. /\ store_faults \in 0..MaxStoreFaults /\ store_faults' = store_faults + 1
      /\ store_faults' \in 0..MaxStoreFaults /\ raised' \in Raisable
  BY BudgetAssumption DEF HistoryInv, HistoryTypeOK, StoreRaises, Raisable, Errors
<1>2. GapsAreFaults'
  <2>1. sequence - Cardinality(events) \in 0..store_faults
    BY DEF HistoryInv, HistoryIntact, GapsAreFaults
  <2>2. (sequence - Cardinality(events))' = sequence - Cardinality(events)
    OBVIOUS
  <2> QED BY <1>1, <2>1, <2>2 DEF GapsAreFaults
<1> QED BY <1>1, <1>2
        DEF HistoryInv, HistoryTypeOK, HistoryIntact, SequenceNumbersUnique, Raisable

(* What a reader of the log may conclude from an emit that the store took, *)
(* and from one it did not.                                                *)
LEMMA EmitOutcome ==
  ASSUME NEW type, NEW task, NEW note, NEW error, EmitThen(type, task, note, error),
         store_faults \in Nat
  PROVE  /\ sequence' = sequence + 1
         /\ events' \in {events, events \cup {Row(type, task, note)}}
         /\ \/ /\ events' = events \cup {Row(type, task, note)}
               /\ raised' = error /\ store_faults' = store_faults
            \/ raised' = "StoreError" /\ store_faults' = store_faults + 1 /\ store_faults' > 0
BY DEF EmitThen, Appended, StoreRaises

(* Emitting counts for its own type only, and counts at most one. *)
LEMMA EmitCounts ==
  ASSUME HistoryInv, NEW type, NEW task, NEW note, NEW error,
         EmitThen(type, task, note, error), NEW t
  PROVE  /\ Count(t) \in Nat /\ Count(t)' \in Nat
         /\ t # type => Count(t)' = Count(t)
         /\ Count(t)' <= Count(t) + 1
<1> DEFINE row == Row(type, task, note)
<1>1. IsFiniteSet(OfType(t)) /\ row \notin OfType(t)
  BY NextRowFresh, FS_Subset DEF OfType, HistoryInv, HistoryTypeOK
<1>2. /\ Cardinality(OfType(t)) \in Nat
      /\ Cardinality(OfType(t) \cup {row}) = Cardinality(OfType(t)) + 1
  BY <1>1, FS_CardinalityType, FS_AddElement
<1>3. \/ OfType(t)' = OfType(t)
      \/ t = type /\ OfType(t)' = OfType(t) \cup {row}
  BY DEF EmitThen, Appended, OfType, Row
<1>6. Count(t) \in Nat /\ Count(t) = Cardinality(OfType(t))
  BY <1>2 DEF Count
<1>4. CASE OfType(t)' = OfType(t)
  <2>1. Count(t)' = Count(t)
    BY <1>4 DEF Count
  <2> QED BY <1>6, <2>1
<1>5. CASE t = type /\ OfType(t)' = OfType(t) \cup {row}
  <2>1. Count(t)' = Cardinality(OfType(t) \cup {row})
    BY <1>5 DEF Count
  <2>2. Count(t)' = Cardinality(OfType(t)) + 1
    BY <1>2, <2>1
  <2> QED BY <1>2, <1>5, <1>6, <2>2
<1> QED BY <1>3, <1>4, <1>5

-----------------------------------------------------------------------------
(* The types, the soundness of the log, and the budget. *)

(* No call is retried after its last attempt. *)
AttemptsLeft == Running => call.attempt <= MaxParseRetries

CallInv == HistoryInv /\ BudgetTypeOK /\ CallTypeOK /\ AttemptsLeft

(* The rows a call emits are well-formed. *)
CallRows == {"model.requested", "model.completed", "model.failed", "model.output_invalid"}

LEMMA CallRowsOK ==
  ASSUME CallInv
  PROVE  /\ raised \in Raisable
         /\ \A type \in CallRows : RowOK(Row(type, call.task, call.schema))
<1>1. raised \in Raisable
  BY DEF CallInv, HistoryInv, HistoryTypeOK, Raisable
<1>2. call.task \in Nat /\ sequence + 1 \in Nat \ {0}
  BY DEF CallInv, CallTypeOK, HistoryInv, HistoryTypeOK
<1>3. CallRows \subseteq EventTypes
  BY DEF CallRows, EventTypes
<1>4. ASSUME NEW type \in CallRows PROVE RowOK(Row(type, call.task, call.schema))
  BY <1>2, <1>3 DEF RowOK, Row
<1> QED BY <1>1, <1>4

LEMMA CallInvInit ==
  ASSUME ContextInit, AgentInit
  PROVE  CallInv
<1>1. HistoryInv
  <2>1. IsFiniteSet({}) /\ Cardinality({}) = 0
    BY FS_EmptySet
  <2> QED BY <2>1, BudgetAssumption
          DEF ContextInit, HistoryInv, HistoryTypeOK, HistoryIntact, SequenceNumbersUnique, GapsAreFaults
<1>2. BudgetTypeOK
  BY DEF ContextInit, BudgetTypeOK
<1>3. CallTypeOK /\ AttemptsLeft
  BY ParseRetriesAssumption DEF AgentInit, NoCall, CallTypeOK, AttemptsLeft
<1> QED BY <1>1, <1>2, <1>3 DEF CallInv

(* Steps change the call only through its phase, its counters and, when it *)
(* returns, its value.                                                     *)
LEMMA CallInvStep ==
  ASSUME CallInv, [AgentNext]_agentVars
  PROVE  CallInv'
<1> USE ParseRetriesAssumption
<1>1. CASE CallAgain
  <2>1. HistoryInv'
    BY <1>1, QuietKeepsHistory DEF CallInv, CallAgain, contextVars
  <2>2. BudgetTypeOK'
    BY <1>1 DEF CallInv, CallAgain, contextVars, BudgetTypeOK
  <2>3. CallTypeOK' /\ AttemptsLeft'
    BY <1>1 DEF CallAgain, Calling, CallTypeOK, AttemptsLeft
  <2> QED BY <2>1, <2>2, <2>3 DEF CallInv
<1>2. CASE GuardRefuses
  <2>1. HistoryInv'
    BY <1>2, RaiseKeepsHistory DEF CallInv, GuardRefuses, Raisable, Errors
  <2>2. BudgetTypeOK'
    BY <1>2 DEF CallInv, GuardRefuses, Consumed, BudgetTypeOK
  <2>3. CallTypeOK'
    BY <1>2 DEF CallInv, GuardRefuses, CallTypeOK
  <2>4. AttemptsLeft'
    BY <1>2 DEF GuardRefuses, Raise, AttemptsLeft, Running
  <2> QED BY <2>1, <2>2, <2>3, <2>4 DEF CallInv
<1>3. CASE RequestModel
  <2>1. HistoryInv'
    BY <1>3, CallRowsOK, EmitKeepsHistory DEF CallRows, CallInv, RequestModel, Emit
  <2>2. BudgetTypeOK'
    BY <1>3 DEF CallInv, RequestModel, Consumed, BudgetTypeOK
  <2>3. CallTypeOK' /\ AttemptsLeft'
    BY <1>3 DEF CallInv, RequestModel, CallTypeOK, AttemptsLeft
  <2> QED BY <2>1, <2>2, <2>3 DEF CallInv
<1>4. CASE AnswerParses
  <2>1. HistoryInv'
    BY <1>4, CallRowsOK, EmitKeepsHistory DEF CallRows, CallInv, AnswerParses, Emit
  <2>2. BudgetTypeOK'
    BY <1>4 DEF CallInv, AnswerParses, budgetVars, BudgetTypeOK
  <2>3. PICK value \in Outputs[call.schema] :
          call' = [call EXCEPT !.phase = "returned", !.usage = @ + 1, !.value = value]
    BY <1>4 DEF AnswerParses
  <2>4. call' = [phase |-> "returned", schema |-> call.schema, task |-> call.task,
                 attempt |-> call.attempt, usage |-> call.usage + 1, value |-> value]
    BY <2>3 DEF CallInv, CallTypeOK
  <2>5. CallTypeOK'
    BY <2>4 DEF CallInv, CallTypeOK
  <2>6. AttemptsLeft'
    BY <1>4, <2>4 DEF CallInv, AnswerParses, AttemptsLeft
  <2> QED BY <2>1, <2>2, <2>5, <2>6 DEF CallInv
<1>5. CASE AnswerMalformed
  <2>1. HistoryInv'
    BY <1>5, CallRowsOK, EmitKeepsHistory DEF CallRows, CallInv, AnswerMalformed, Emit
  <2>2. BudgetTypeOK'
    BY <1>5 DEF CallInv, AnswerMalformed, budgetVars, BudgetTypeOK
  <2>3. call' = [phase |-> "invalid", schema |-> call.schema, task |-> call.task,
                 attempt |-> call.attempt, usage |-> call.usage + 1, value |-> call.value]
    BY <1>5 DEF CallInv, AnswerMalformed, CallTypeOK
  <2>4. CallTypeOK'
    BY <2>3 DEF CallInv, CallTypeOK
  <2>5. AttemptsLeft'
    BY <1>5, <2>3 DEF CallInv, AnswerMalformed, AttemptsLeft
  <2> QED BY <2>1, <2>2, <2>4, <2>5 DEF CallInv
<1>6. CASE ProviderFails
  <2>1. HistoryInv'
    BY <1>6, CallRowsOK, EmitKeepsHistory DEF CallRows, CallInv, ProviderFails, Raisable, Errors
  <2>2. BudgetTypeOK'
    BY <1>6 DEF CallInv, ProviderFails, budgetVars, BudgetTypeOK
  <2>3. CallTypeOK' /\ AttemptsLeft'
    BY <1>6 DEF CallInv, ProviderFails, CallTypeOK, AttemptsLeft
  <2> QED BY <2>1, <2>2, <2>3 DEF CallInv
<1>7. CASE RejectOutput
  <2> DEFINE error == IF RetriesExhausted THEN "ModelOutputError" ELSE raised
  <2>1. HistoryInv'
    <3>1. error \in Raisable
      BY CallRowsOK DEF Raisable, Errors
    <3>2. EmitThen("model.output_invalid", call.task, call.schema, error)
      BY <1>7 DEF RejectOutput
    <3> QED BY <3>1, <3>2, CallRowsOK, EmitKeepsHistory DEF CallRows, CallInv
  <2>2. BudgetTypeOK'
    BY <1>7 DEF CallInv, RejectOutput, budgetVars, BudgetTypeOK
  <2>3. CallTypeOK'
    <3>1. call' = [phase |-> "guard", schema |-> call.schema, task |-> call.task,
                   attempt |-> call.attempt + 1, usage |-> call.usage, value |-> call.value]
      BY <1>7 DEF CallInv, RejectOutput, CallTypeOK
    <3>2. call.attempt + 1 \in 0..(MaxParseRetries + 1)
      BY <1>7 DEF CallInv, RejectOutput, CallTypeOK, AttemptsLeft
    <3> QED BY <3>1, <3>2 DEF CallInv, CallTypeOK
  <2>4. AttemptsLeft'
    BY <1>7 DEF CallInv, RejectOutput, RetriesExhausted, CallTypeOK, AttemptsLeft, Running,
                EmitThen, Appended, StoreRaises
  <2> QED BY <2>1, <2>2, <2>3, <2>4 DEF CallInv
<1>8. CASE CancelCall
  <2>1. HistoryInv'
    BY <1>8, RaiseKeepsHistory DEF CallInv, CancelCall, Raisable
  <2>2. BudgetTypeOK'
    BY <1>8 DEF CallInv, CancelCall, budgetVars, BudgetTypeOK
  <2>3. CallTypeOK' /\ AttemptsLeft'
    BY <1>8 DEF CallInv, CancelCall, CallTypeOK, AttemptsLeft
  <2> QED BY <2>1, <2>2, <2>3 DEF CallInv
<1>9. CASE ClockPasses /\ UNCHANGED call
  <2>1. HistoryInv'
    BY <1>9, QuietKeepsHistory DEF CallInv, ClockPasses
  <2>2. BudgetTypeOK'
    BY <1>9 DEF CallInv, ClockPasses, BudgetTypeOK
  <2>3. CallTypeOK' /\ AttemptsLeft'
    BY <1>9 DEF CallInv, ClockPasses, CallTypeOK, AttemptsLeft, Running
  <2> QED BY <2>1, <2>2, <2>3 DEF CallInv
<1>10. CASE UNCHANGED agentVars
  <2>1. HistoryInv'
    BY <1>10, QuietKeepsHistory DEF CallInv, agentVars, contextVars
  <2>2. BudgetTypeOK' /\ CallTypeOK' /\ AttemptsLeft'
    BY <1>10 DEF CallInv, agentVars, contextVars, BudgetTypeOK, CallTypeOK, AttemptsLeft, Running
  <2> QED BY <2>1, <2>2 DEF CallInv
<1> QED BY <1>1, <1>2, <1>3, <1>4, <1>5, <1>6, <1>7, <1>8, <1>9, <1>10 DEF AgentNext, AgentStep

THEOREM CallInvariance == AgentSpec => []CallInv
<1>1. ContextInit /\ AgentInit => CallInv
  BY CallInvInit
<1>2. CallInv /\ [AgentNext]_agentVars => CallInv'
  BY CallInvStep
<1> QED BY <1>1, <1>2, PTL DEF AgentSpec, AgentStart

(* Types: the context and the call stay well-formed. *)
THEOREM AgentTypeCorrect == AgentSpec => []AgentTypeOK
<1>1. CallInv => AgentTypeOK
  BY DEF CallInv, AgentTypeOK, ContextTypeOK, HistoryInv
<1> QED BY <1>1, CallInvariance, PTL

(* The log of a run that makes model calls stays sound under any number of *)
(* store faults.                                                           *)
THEOREM AgentHistoryIntact == AgentSpec => []HistoryIntact
<1>1. CallInv => HistoryIntact
  BY DEF CallInv, HistoryInv
<1> QED BY <1>1, CallInvariance, PTL

-----------------------------------------------------------------------------
(* The budget.  Only RequestModel emits model.requested, and only when the *)
(* counter it increments stays within the limit.                           *)

LEMMA BudgetStep ==
  ASSUME CallInv, ModelCallsWithinBudget, [AgentNext]_agentVars
  PROVE  ModelCallsWithinBudget'
<1> DEFINE requests == Count("model.requested")
<1>1. model_calls \in Nat /\ MaxModelCalls \in Nat
  BY BudgetAssumption DEF CallInv, BudgetTypeOK
<1>2. requests \in Nat
  BY FS_Subset, FS_CardinalityType DEF CallInv, HistoryInv, HistoryTypeOK, Count, OfType
<1>3. requests <= MaxModelCalls /\ requests <= model_calls
  BY DEF ModelCallsWithinBudget
<1>4. CASE RequestModel
  <2>1. model_calls' = model_calls + 1 /\ model_calls + 1 <= MaxModelCalls
    BY <1>1, <1>4 DEF RequestModel, ModelCallRefused, Refused, Consumed
  <2>2. EmitThen("model.requested", call.task, call.schema, raised)
    BY <1>4 DEF RequestModel, Emit
  <2>3. requests' \in Nat /\ requests' <= requests + 1
    BY <2>2, EmitCounts DEF CallInv
  <2>4. requests' <= MaxModelCalls /\ requests' <= model_calls'
    BY <1>1, <1>2, <1>3, <2>1, <2>3
  <2> QED BY <2>4 DEF ModelCallsWithinBudget
<1>5. ASSUME NEW type \in CallRows \ {"model.requested"}, NEW error,
             EmitThen(type, call.task, call.schema, error), UNCHANGED model_calls
      PROVE  ModelCallsWithinBudget'
  <2>1. requests' = requests
    BY <1>5, EmitCounts DEF CallInv
  <2> QED BY <1>3, <1>5, <2>1 DEF ModelCallsWithinBudget
<1>6. ASSUME UNCHANGED events, model_calls' \in {model_calls, model_calls + 1}
      PROVE  ModelCallsWithinBudget'
  <2>1. requests' = requests
    BY <1>6 DEF Count, OfType
  <2>2. requests' <= MaxModelCalls /\ requests' <= model_calls'
    BY <1>1, <1>2, <1>3, <1>6, <2>1
  <2> QED BY <2>2 DEF ModelCallsWithinBudget
<1>7. CASE AnswerParses \/ AnswerMalformed
  BY <1>5, <1>7 DEF AnswerParses, AnswerMalformed, Emit, budgetVars, CallRows
<1>8. CASE ProviderFails \/ RejectOutput
  BY <1>5, <1>8 DEF ProviderFails, RejectOutput, budgetVars, CallRows
<1>9. CASE GuardRefuses
  BY <1>6, <1>9 DEF GuardRefuses, Raise, Consumed
<1>10. CASE CallAgain \/ CancelCall \/ ClockPasses \/ UNCHANGED agentVars
  BY <1>6, <1>10 DEF CallAgain, CancelCall, ClockPasses, Raise, agentVars, contextVars, budgetVars
<1> QED BY <1>4, <1>7, <1>8, <1>9, <1>10 DEF AgentNext, AgentStep

(* However answers fail to parse, the provider is asked at most            *)
(* max_model_calls times.                                                  *)
THEOREM ModelCallsStayWithinBudget == AgentSpec => []ModelCallsWithinBudget
<1>1. ContextInit /\ AgentInit => ModelCallsWithinBudget
  <2>1. ASSUME ContextInit PROVE ModelCallsWithinBudget
    <3>1. OfType("model.requested") = {}
      BY <2>1 DEF ContextInit, OfType
    <3>2. Count("model.requested") = 0
      BY <3>1, FS_EmptySet DEF Count
    <3> QED BY <2>1, <3>2, BudgetAssumption DEF ContextInit, ModelCallsWithinBudget
  <2> QED BY <2>1
<1>2. CallInv /\ ModelCallsWithinBudget /\ [AgentNext]_agentVars => ModelCallsWithinBudget'
  BY BudgetStep
<1> QED BY <1>1, <1>2, CallInvariance, PTL DEF AgentSpec, AgentStart

-----------------------------------------------------------------------------
(* The audit trail.  While a call waits, its request is the last row; when *)
(* its answer was malformed, that answer is.                               *)

Awaited ==
  Running /\ call.phase = "waiting" =>
    \E e \in OfType("model.requested") : e.sequence = sequence /\ e.note = call.schema

InvalidLast ==
  Running /\ call.phase = "invalid" =>
    \E e \in OfType("model.completed") : e.sequence = sequence /\ e.note = call.schema

AuditInv == AuditTrailComplete /\ Awaited /\ InvalidLast

(* The log after an emit: the old rows, and the new one unless the append  *)
(* raised.                                                                 *)
LEMMA CallEmits ==
  ASSUME CallInv, NEW type \in CallRows, NEW error,
         EmitThen(type, call.task, call.schema, error)
  PROVE  \E new :
           /\ new = Row(type, call.task, call.schema)
           /\ new.sequence = sequence + 1 /\ new.type = type /\ new.note = call.schema
           /\ sequence \in Nat /\ sequence' = sequence + 1
           /\ events' = events \/ events' = events \cup {new}
           /\ \/ events' = events \cup {new} /\ raised' = error /\ store_faults' = store_faults
              \/ raised' = "StoreError" /\ store_faults' > 0
<1>1. store_faults \in Nat /\ sequence \in Nat
  BY BudgetAssumption DEF CallInv, HistoryInv, HistoryTypeOK
<1>2. WITNESS Row(type, call.task, call.schema)
<1> QED BY <1>1, EmitOutcome DEF Row

LEMMA AuditRequest ==
  ASSUME CallInv, AuditInv, RequestModel
  PROVE  AuditInv'
<1>1. /\ call.phase = "guard" /\ raised = "none"
      /\ EmitThen("model.requested", call.task, call.schema, raised)
      /\ call'.phase = "waiting" /\ call'.schema = call.schema
  BY DEF RequestModel, Emit, Running, CallInv, CallTypeOK
<1>2. PICK new :
        /\ new.sequence = sequence + 1 /\ new.type = "model.requested" /\ new.note = call.schema
        /\ sequence \in Nat /\ sequence' = sequence + 1
        /\ events' = events \/ events' = events \cup {new}
        /\ \/ events' = events \cup {new} /\ raised' = raised /\ store_faults' = store_faults
           \/ raised' = "StoreError" /\ store_faults' > 0
  BY <1>1, CallEmits DEF CallRows
<1>3. RequestsAnswered'
  BY <1>1, <1>2 DEF AuditInv, AuditTrailComplete, RequestsAnswered, OfType
<1>4. OutcomesRequested'
  BY <1>2 DEF AuditInv, AuditTrailComplete, OutcomesRequested, OfType, Outcomes
<1>5. InvalidsCompleted'
  BY <1>2 DEF AuditInv, AuditTrailComplete, InvalidsCompleted, OfType
<1>6. Awaited' /\ InvalidLast'
  BY <1>1, <1>2 DEF Awaited, InvalidLast, OfType, Running
<1> QED BY <1>3, <1>4, <1>5, <1>6 DEF AuditInv, AuditTrailComplete

(* An outcome is recorded right after the request it answers. *)
LEMMA AuditOutcome ==
  ASSUME CallInv, AuditInv, Running, call.phase = "waiting",
         NEW type \in Outcomes, NEW error,
         EmitThen(type, call.task, call.schema, error)
  PROVE  AuditTrailComplete'
<1>1. PICK new :
        /\ new.sequence = sequence + 1 /\ new.type = type /\ new.note = call.schema
        /\ sequence \in Nat /\ sequence' = sequence + 1
        /\ events' = events \/ events' = events \cup {new}
        /\ \/ events' = events \cup {new} /\ raised' = error /\ store_faults' = store_faults
           \/ raised' = "StoreError" /\ store_faults' > 0
  BY CallEmits DEF CallRows, Outcomes
<1>2. PICK last \in OfType("model.requested") : last.sequence = sequence /\ last.note = call.schema
  BY DEF AuditInv, Awaited
<1>3. \A e \in OfType("model.requested") : e.sequence = sequence => e.note = call.schema
  BY <1>2 DEF CallInv, HistoryInv, HistoryIntact, SequenceNumbersUnique, OfType
<1>4. RequestsAnswered'
  BY <1>1, <1>3 DEF AuditInv, AuditTrailComplete, RequestsAnswered, OfType, Outcomes
<1>5. OutcomesRequested'
  <2>1. new.sequence - 1 = sequence
    BY <1>1
  <2> QED BY <1>1, <1>2, <2>1 DEF AuditInv, AuditTrailComplete, OutcomesRequested, OfType, Outcomes
<1>6. InvalidsCompleted'
  BY <1>1 DEF AuditInv, AuditTrailComplete, InvalidsCompleted, OfType, Outcomes
<1> QED BY <1>4, <1>5, <1>6 DEF AuditTrailComplete

LEMMA AuditAnswer ==
  ASSUME CallInv, AuditInv, AnswerParses \/ AnswerMalformed \/ ProviderFails
  PROVE  AuditInv'
<1>1. Running /\ call.phase = "waiting"
  BY DEF AnswerParses, AnswerMalformed, ProviderFails
<1>2. CASE ProviderFails
  <2>1. EmitThen("model.failed", call.task, call.schema, "ProviderError") /\ call' = call
    BY <1>2 DEF ProviderFails
  <2>2. AuditTrailComplete'
    BY <1>1, <2>1, AuditOutcome DEF Outcomes
  <2>3. ~Running'
    BY <2>1 DEF EmitThen, Appended, StoreRaises, Running
  <2> QED BY <2>2, <2>3 DEF AuditInv, Awaited, InvalidLast
<1>3. CASE AnswerParses \/ AnswerMalformed
  <2>1. /\ EmitThen("model.completed", call.task, call.schema, raised)
        /\ call'.phase \in {"returned", "invalid"} /\ call'.schema = call.schema
    BY <1>3 DEF AnswerParses, AnswerMalformed, Emit, CallInv, CallTypeOK
  <2>2. AuditTrailComplete'
    BY <1>1, <2>1, AuditOutcome DEF Outcomes
  <2>3. PICK new :
          /\ new.sequence = sequence + 1 /\ new.type = "model.completed" /\ new.note = call.schema
          /\ sequence' = sequence + 1
          /\ \/ events' = events \cup {new}
             \/ raised' = "StoreError"
    BY <2>1, CallEmits DEF CallRows
  <2>4. Awaited' /\ InvalidLast'
    BY <2>1, <2>3 DEF Awaited, InvalidLast, OfType, Running
  <2> QED BY <2>2, <2>4 DEF AuditInv
<1> QED BY <1>2, <1>3

(* An invalid output is recorded right after the answer it rejects. *)
LEMMA AuditRejection ==
  ASSUME CallInv, AuditInv, RejectOutput
  PROVE  AuditInv'
<1> DEFINE error == IF RetriesExhausted THEN "ModelOutputError" ELSE raised
<1>1. /\ Running /\ call.phase = "invalid" /\ call'.phase = "guard"
      /\ EmitThen("model.output_invalid", call.task, call.schema, error)
  BY DEF RejectOutput, CallInv, CallTypeOK
<1>2. PICK new :
        /\ new.sequence = sequence + 1 /\ new.type = "model.output_invalid"
        /\ new.note = call.schema
        /\ sequence \in Nat /\ sequence' = sequence + 1
        /\ events' = events \/ events' = events \cup {new}
        /\ \/ events' = events \cup {new} /\ store_faults' = store_faults
           \/ raised' = "StoreError" /\ store_faults' > 0
  BY <1>1, CallEmits DEF CallRows
<1>3. RequestsAnswered'
  BY <1>1, <1>2 DEF AuditInv, AuditTrailComplete, RequestsAnswered, OfType
<1>4. OutcomesRequested'
  BY <1>2 DEF AuditInv, AuditTrailComplete, OutcomesRequested, OfType, Outcomes
<1>5. InvalidsCompleted'
  <2>1. PICK last \in OfType("model.completed") : last.sequence = sequence /\ last.note = call.schema
    BY <1>1 DEF AuditInv, InvalidLast
  <2>2. new.sequence - 1 = sequence
    BY <1>2
  <2> QED BY <1>2, <2>1, <2>2 DEF AuditInv, AuditTrailComplete, InvalidsCompleted, OfType
<1>6. Awaited' /\ InvalidLast'
  BY <1>1 DEF Awaited, InvalidLast
<1> QED BY <1>3, <1>4, <1>5, <1>6 DEF AuditInv, AuditTrailComplete

LEMMA AuditStep ==
  ASSUME CallInv, AuditInv, [AgentNext]_agentVars
  PROVE  AuditInv'
<1>1. CASE RequestModel
  BY <1>1, AuditRequest
<1>2. CASE AnswerParses \/ AnswerMalformed \/ ProviderFails
  BY <1>2, AuditAnswer
<1>3. CASE RejectOutput
  BY <1>3, AuditRejection
<1>4. ASSUME UNCHANGED <<sequence, events, store_faults>>,
             \/ UNCHANGED call /\ (raised' = raised \/ ~Running')
             \/ call'.phase = "guard",
             call.phase = "waiting" => UNCHANGED call /\ raised' \in {raised, Cancelled}
      PROVE  AuditInv'
  <2>1. RequestsAnswered'
    BY <1>4 DEF AuditInv, AuditTrailComplete, RequestsAnswered, OfType
  <2>2. OutcomesRequested' /\ InvalidsCompleted'
    BY <1>4 DEF AuditInv, AuditTrailComplete, OutcomesRequested, InvalidsCompleted, OfType
  <2>3. Awaited' /\ InvalidLast'
    BY <1>4 DEF AuditInv, Awaited, InvalidLast, OfType, Running
  <2> QED BY <2>1, <2>2, <2>3 DEF AuditInv, AuditTrailComplete
<1>5. CASE CallAgain
  BY <1>4, <1>5 DEF CallAgain, Calling, contextVars
<1>6. CASE GuardRefuses
  BY <1>4, <1>6 DEF GuardRefuses, Raise, Running
<1>7. CASE CancelCall
  BY <1>4, <1>7 DEF CancelCall, Raise, Running, Cancelled
<1>8. CASE (ClockPasses /\ UNCHANGED call) \/ UNCHANGED agentVars
  BY <1>4, <1>8 DEF ClockPasses, agentVars, contextVars
<1> QED BY <1>1, <1>2, <1>3, <1>5, <1>6, <1>7, <1>8 DEF AgentNext, AgentStep

(* Every recorded model request has its outcome as the next row, every     *)
(* outcome its request as the row before, unless the store raised.         *)
THEOREM AuditTrailStaysComplete == AgentSpec => []AuditTrailComplete
<1>1. ContextInit /\ AgentInit => AuditInv
  BY DEF ContextInit, AgentInit, NoCall, AuditInv, AuditTrailComplete, RequestsAnswered,
         OutcomesRequested, InvalidsCompleted, Awaited, InvalidLast, OfType
<1>2. CallInv /\ AuditInv /\ [AgentNext]_agentVars => AuditInv'
  BY AuditStep
<1>3. AuditInv => AuditTrailComplete
  BY DEF AuditInv
<1> QED BY <1>1, <1>2, <1>3, CallInvariance, PTL DEF AgentSpec, AgentStart

-----------------------------------------------------------------------------
(* Giving up.  The n rejected answers of a call are every third row, back  *)
(* from the last of them.                                                  *)

RejectedEveryThird(last, n) ==
  \A k \in 0..(n - 1) : \E e \in OfType("model.output_invalid") : e.sequence = last - 3 * k

RejectionsLogged ==
  Running =>
    /\ call.phase = "guard" => RejectedEveryThird(sequence, call.attempt)
    /\ call.phase = "waiting" => RejectedEveryThird(sequence - 1, call.attempt)
    /\ call.phase = "invalid" => RejectedEveryThird(sequence - 2, call.attempt)

RetryInv == GivesUpAfterAllRetries /\ RejectionsLogged

LEMMA RetryEmit ==
  ASSUME CallInv, RetryInv, Running, call.phase \in {"guard", "waiting"},
         call'.attempt = call.attempt,
         call.phase = "guard" => call'.phase = "waiting",
         call.phase = "waiting" => call'.phase \in {"waiting", "invalid", "returned"},
         NEW type \in CallRows, NEW error, error # "ModelOutputError",
         EmitThen(type, call.task, call.schema, error),
         call.phase = "waiting" /\ call'.phase = "waiting" => error # "none"
  PROVE  RetryInv'
<1>1. /\ sequence \in Nat /\ call.attempt \in Nat
      /\ sequence' = sequence + 1 /\ events \subseteq events'
      /\ raised' \in {error, "StoreError"}
  BY CallEmits DEF CallInv, CallTypeOK
<1>2. GivesUpAfterAllRetries'
  BY <1>1 DEF GivesUpAfterAllRetries
<1>3. CASE call.phase = "guard"
  <2>1. RejectedEveryThird(sequence, call.attempt)
    BY <1>3 DEF RetryInv, RejectionsLogged
  <2>2. \A k \in 0..(call.attempt - 1) :
          \E e \in OfType("model.output_invalid")' : e.sequence = sequence - 3 * k
    BY <1>1, <2>1 DEF RejectedEveryThird, OfType
  <2>3. RejectedEveryThird(sequence - 1, call.attempt)'
    BY <1>1, <2>2 DEF RejectedEveryThird
  <2> QED BY <1>2, <1>3, <2>3 DEF RetryInv, RejectionsLogged
<1>4. CASE call.phase = "waiting"
  <2>1. RejectedEveryThird(sequence - 1, call.attempt)
    BY <1>4 DEF RetryInv, RejectionsLogged
  <2>2. \A k \in 0..(call.attempt - 1) :
          \E e \in OfType("model.output_invalid")' : e.sequence = (sequence - 1) - 3 * k
    BY <1>1, <2>1 DEF RejectedEveryThird, OfType
  <2>3. RejectedEveryThird(sequence - 2, call.attempt)'
    BY <1>1, <2>2 DEF RejectedEveryThird
  <2>4. call'.phase = "waiting" => ~Running'
    BY <1>1, <1>4 DEF Running
  <2> QED BY <1>2, <1>4, <2>3, <2>4 DEF RetryInv, RejectionsLogged
<1> QED BY <1>3, <1>4

LEMMA RetryReject ==
  ASSUME CallInv, RetryInv, RejectOutput
  PROVE  RetryInv'
<1> DEFINE error == IF RetriesExhausted THEN "ModelOutputError" ELSE raised
<1>1. /\ Running /\ call.phase = "invalid" /\ call'.phase = "guard"
      /\ call'.attempt = call.attempt + 1 /\ call.attempt \in Nat /\ sequence \in Nat
      /\ EmitThen("model.output_invalid", call.task, call.schema, error)
  BY DEF RejectOutput, CallInv, CallTypeOK, HistoryInv, HistoryTypeOK
<1>2. PICK new :
        /\ new.sequence = sequence + 1 /\ new.type = "model.output_invalid"
        /\ sequence' = sequence + 1
        /\ events' = events \/ events' = events \cup {new}
        /\ \/ events' = events \cup {new} /\ raised' = error
           \/ raised' = "StoreError"
  BY <1>1, CallEmits DEF CallRows
<1>3. CASE raised' = "StoreError"
  BY <1>1, <1>3 DEF RetryInv, RejectionsLogged, GivesUpAfterAllRetries, Running
<1>4. CASE events' = events \cup {new} /\ raised' = error
  <2>1. RejectedEveryThird(sequence - 2, call.attempt)
    BY <1>1 DEF RetryInv, RejectionsLogged
  <2>2. \A k \in 0..(call.attempt - 1) :
          \E e \in OfType("model.output_invalid")' : e.sequence = (sequence - 2) - 3 * k
    BY <1>1, <1>4, <2>1 DEF RejectedEveryThird, OfType
  <2>3. new \in OfType("model.output_invalid")' /\ new.sequence = sequence'
    BY <1>2, <1>4 DEF OfType
  <2>4. ASSUME NEW k \in 0..call.attempt
        PROVE  \E e \in OfType("model.output_invalid")' : e.sequence = sequence' - 3 * k
    <3>1. CASE k = 0
      BY <1>1, <1>2, <2>3, <3>1
    <3>2. CASE k # 0
      <4>1. k - 1 \in 0..(call.attempt - 1) /\ sequence' - 3 * k = (sequence - 2) - 3 * (k - 1)
        BY <1>1, <1>2, <2>4, <3>2
      <4> QED BY <2>2, <4>1
    <3> QED BY <3>1, <3>2
  <2>5. RejectedEveryThird(sequence, call.attempt)'
    BY <1>1, <2>4 DEF RejectedEveryThird
  <2>6. RejectionsLogged'
    BY <1>1, <2>5 DEF RejectionsLogged
  <2>7. GivesUpAfterAllRetries'
    <3>1. SUFFICES ASSUME raised' = "ModelOutputError", NEW k \in 0..MaxParseRetries
                   PROVE  \E e \in OfType("model.output_invalid")' : e.sequence = sequence' - 3 * k
      BY DEF GivesUpAfterAllRetries
    <3>2. call.attempt >= MaxParseRetries
      BY <1>1, <1>4, <3>1 DEF RetriesExhausted, Running
    <3>3. k \in 0..call.attempt
      BY <1>1, <3>2, ParseRetriesAssumption
    <3> QED BY <2>4, <3>3
  <2> QED BY <2>6, <2>7 DEF RetryInv
<1> QED BY <1>2, <1>3, <1>4

LEMMA RetryStep ==
  ASSUME CallInv, RetryInv, [AgentNext]_agentVars
  PROVE  RetryInv'
<1>1. CASE RequestModel
  <2>1. /\ Running /\ raised = "none" /\ call.phase = "guard"
        /\ call'.phase = "waiting" /\ call'.attempt = call.attempt
        /\ EmitThen("model.requested", call.task, call.schema, raised)
    BY <1>1 DEF RequestModel, Emit, CallInv, CallTypeOK, Running
  <2> QED BY <2>1, RetryEmit DEF CallRows
<1>2. CASE AnswerParses \/ AnswerMalformed
  <2>1. /\ Running /\ raised = "none" /\ call.phase = "waiting"
        /\ call'.phase \in {"invalid", "returned"} /\ call'.attempt = call.attempt
        /\ EmitThen("model.completed", call.task, call.schema, raised)
    BY <1>2 DEF AnswerParses, AnswerMalformed, Emit, CallInv, CallTypeOK, Running
  <2> QED BY <2>1, RetryEmit DEF CallRows
<1>3. CASE ProviderFails
  <2>1. /\ Running /\ call.phase = "waiting" /\ UNCHANGED call
        /\ EmitThen("model.failed", call.task, call.schema, "ProviderError")
    BY <1>3 DEF ProviderFails
  <2> QED BY <2>1, RetryEmit DEF CallRows
<1>4. CASE RejectOutput
  BY <1>4, RetryReject
<1>5. CASE CallAgain
  <2>1. /\ Running' /\ call'.phase = "guard" /\ call'.attempt = 0
        /\ raised' = "none"
    BY <1>5 DEF CallAgain, Calling, contextVars, Running
  <2>2. RejectedEveryThird(sequence, call.attempt)'
    BY <2>1 DEF RejectedEveryThird
  <2> QED BY <2>1, <2>2 DEF RetryInv, RejectionsLogged, GivesUpAfterAllRetries
<1>6. CASE GuardRefuses
  BY <1>6 DEF GuardRefuses, Raise, Running, RetryInv, RejectionsLogged, GivesUpAfterAllRetries
<1>7. CASE CancelCall
  BY <1>7 DEF CancelCall, Raise, Running, RetryInv, RejectionsLogged, GivesUpAfterAllRetries, Cancelled
<1>8. CASE (ClockPasses /\ UNCHANGED call) \/ UNCHANGED agentVars
  BY <1>8 DEF ClockPasses, agentVars, contextVars, RetryInv, RejectionsLogged, RejectedEveryThird,
              GivesUpAfterAllRetries, OfType, Running
<1> QED BY <1>1, <1>2, <1>3, <1>4, <1>5, <1>6, <1>7, <1>8 DEF AgentNext, AgentStep

(* No call gives up before max_parse_retries + 1 of its answers, in a row, *)
(* were recorded as invalid.                                               *)
THEOREM NoEarlyGivingUp == AgentSpec => []GivesUpAfterAllRetries
<1>1. ContextInit /\ AgentInit => RetryInv
  BY DEF ContextInit, AgentInit, NoCall, RetryInv, RejectionsLogged, GivesUpAfterAllRetries
<1>2. CallInv /\ RetryInv /\ [AgentNext]_agentVars => RetryInv'
  BY RetryStep
<1>3. RetryInv => GivesUpAfterAllRetries
  BY DEF RetryInv
<1> QED BY <1>1, <1>2, <1>3, CallInvariance, PTL DEF AgentSpec, AgentStart
=============================================================================
