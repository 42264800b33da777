---------------------------- MODULE RunLifecycle ----------------------------
(***************************************************************************)
(* What TeamAI promises of one run to whoever called it, and to whoever    *)
(* reads its store later: the milestones of the run in its log, its row in *)
(* the runs table, and whether the caller got a result or an exception.    *)
(* Workflows, agents, tools, approvals and budgets are out of sight.       *)
(*                                                                         *)
(* An undisturbed run - no store operation raised, nobody cancelled it -   *)
(* returns with a succeeded row after run.completed, or raises with a      *)
(* failed row after run.failed, never both.  A disturbed run may raise     *)
(* early and leave less behind, but never returns on a doubtful record.    *)
(***************************************************************************)
EXTENDS FiniteSets

VARIABLES
  milestones,   \* the run.* events in the log
  status,       \* of the run's row: "none", "succeeded" or "failed"
  outcome,      \* "pending", "returned" or "raised"
  disturbed     \* a store operation raised, or the run was cancelled

lifecycleVars == <<milestones, status, outcome, disturbed>>

Begun == {"run.created", "run.started"}

LifecycleInit ==
  /\ milestones = {}
  /\ status = "none"
  /\ outcome = "pending"
  /\ disturbed = FALSE

(* The milestone a run may reach next; only a disturbed run can have both  *)
(* of the two last ones.                                                   *)
Follows(type, doubted) ==
  \/ type = "run.created" /\ milestones = {}
  \/ type = "run.started" /\ milestones = {"run.created"}
  \/ type = "run.completed" /\ milestones = Begun
  \/ type = "run.failed" /\ milestones = Begun
  \/ type = "run.failed" /\ milestones = Begun \cup {"run.completed"} /\ doubted

Pending == outcome = "pending"

Record(type) ==
  /\ Pending
  /\ ~disturbed \/ type = "run.failed"
  /\ Follows(type, disturbed)
  /\ milestones' = milestones \cup {type}
  /\ UNCHANGED <<status, outcome, disturbed>>

Succeed ==
  /\ Pending /\ ~disturbed
  /\ milestones = Begun \cup {"run.completed"}
  /\ status' = "succeeded"
  /\ outcome' = "returned"
  /\ UNCHANGED <<milestones, disturbed>>

Fail ==
  /\ Pending
  /\ "run.failed" \in milestones
  /\ status' = "failed"
  /\ outcome' = "raised"
  /\ UNCHANGED <<milestones, disturbed>>

(* A store operation raises, its row in or not, or the run is cancelled.   *)
(* The success row is in doubt only where Succeed would have written it.   *)
Disturb ==
  /\ Pending
  /\ disturbed' = TRUE
  /\ \/ UNCHANGED <<milestones, status>>
     \/ /\ \E type \in Begun \cup {"run.completed", "run.failed"} :
             Follows(type, TRUE) /\ milestones' = milestones \cup {type}
        /\ UNCHANGED status
     \/ /\ milestones = Begun \cup {"run.completed"} /\ ~disturbed
        /\ status' = "succeeded"
        /\ UNCHANGED milestones
     \/ /\ "run.failed" \in milestones
        /\ status' = "failed"
        /\ UNCHANGED milestones
  /\ outcome' \in {"pending", "raised"}

(* Nothing more is recorded of a disturbed run that cannot go on. *)
Abandon ==
  /\ Pending /\ disturbed
  /\ outcome' = "raised"
  /\ UNCHANGED <<milestones, status, disturbed>>

LifecycleNext ==
  \/ \E type \in Begun \cup {"run.completed", "run.failed"} : Record(type)
  \/ Succeed
  \/ Fail
  \/ Disturb
  \/ Abandon

(* Every run is over at some point: it returns or it raises. *)
LifecycleSpec ==
  /\ LifecycleInit
  /\ [][LifecycleNext]_lifecycleVars
  /\ WF_lifecycleVars(LifecycleNext)

=============================================================================
