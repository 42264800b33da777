----------------------------- MODULE MCLLMAgent -----------------------------
(* Four model calls, two retries, one store fault; two schemas.            *)
EXTENDS LLMAgent

MCOutputs == [schema \in {"Plan", "Review"} |-> IF schema = "Plan" THEN {"plan"} ELSE {"pass", "revise"}]
=============================================================================
