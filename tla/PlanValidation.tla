--------------------------- MODULE PlanValidation ---------------------------
(***************************************************************************)
(* What happens to a plan between the planner and the first task:          *)
(* validate_plan and topological_task_ids of workflows/validation.py.      *)
(*                                                                         *)
(* A plan is the sequence of its tasks.  Task ids are numbers: the code    *)
(* only compares and sorts them.  A dependency list may name a task twice, *)
(* name its own task, or name a task that is not in the plan.              *)
(***************************************************************************)
EXTENDS Integers, Sequences, FiniteSets

CONSTANTS
  Plans,           \* the plans a planner may hand over
  Capabilities,    \* the capability names in use
  SpecialistCaps,  \* the specialists' capability sets, in order of their names
  MaxTasks         \* limits.max_tasks

PlannedTask == [id : Nat, dependencies : Seq(Nat), required : SUBSET Capabilities,
                criteria : BOOLEAN, risk : {"low", "high"}]

ASSUME PlansAssumption == Plans \subseteq Seq(PlannedTask)
ASSUME SpecialistsAssumption == SpecialistCaps \in Seq(SUBSET Capabilities)
ASSUME MaxTasksAssumption == MaxTasks \in Nat \ {0}

VARIABLES
  plan,      \* the plan under validation
  verdict,   \* how far validation is, and how it ended
  incoming,  \* unmet dependency entries of each task
  queue,     \* tasks whose dependencies are met, first in first out
  ordered    \* tasks in execution order

planVars == <<plan, verdict, incoming, queue, ordered>>

Verdicts == {"none", "checking", "sorting", "valid", "BudgetExceededError", "PlanValidationError"}

Ids(p) == {p[i].id : i \in DOMAIN p}

Entries(s) == {s[i] : i \in DOMAIN s}

(* One edge per entry of a dependency list: <<task position, entry>>. *)
Edges(p) == UNION {{<<i, j>> : j \in DOMAIN p[i].dependencies} : i \in DOMAIN p}
Child(p, e) == p[e[1]].id
Parent(p, e) == p[e[1]].dependencies[e[2]]
EdgesInto(p, c) == {e \in Edges(p) : Child(p, e) = c}
EdgesBetween(p, d, c) == {e \in EdgesInto(p, c) : Parent(p, e) = d}

Dependencies(p, c) == {Parent(p, e) : e \in EdgesInto(p, c)}

(* The members of S in ascending order, each once: sorted(...). *)
Sortings(S) == {s \in [1..Cardinality(S) -> S] :
                  /\ S \subseteq Entries(s)
                  /\ \A i, j \in DOMAIN s : i < j => s[i] < s[j]}

Eligible(required) == {a \in DOMAIN SpecialistCaps : required \subseteq SpecialistCaps[a]}

UniqueIds(p) == \A i, j \in DOMAIN p : p[i].id = p[j].id => i = j
KnownDependencies(p) == \A e \in Edges(p) : Parent(p, e) \in Ids(p)

(* Mutant: any rather than all. *)
HasSomeCandidate(p) == \E i \in DOMAIN p : Eligible(p[i].required) # {}

HasCandidates(p) == \A i \in DOMAIN p : Eligible(p[i].required) # {}
HasCriteria(p) == \A i \in DOMAIN p : p[i].criteria

WellFormed(p) == /\ p # <<>>
                 /\ UniqueIds(p)
                 /\ HasCriteria(p)
                 /\ KnownDependencies(p)
                 /\ HasCandidates(p)

TooManyTasks(p) == Len(p) > MaxTasks

-----------------------------------------------------------------------------

PlanInit ==
  /\ plan = <<>>
  /\ verdict = "none"
  /\ incoming = <<>>
  /\ queue = <<>>
  /\ ordered = <<>>

(* validate_plan(plan, ...) is called. *)
Submit(p) ==
  /\ verdict = "none"
  /\ verdict' = "checking"
  /\ plan' = p
  /\ UNCHANGED <<incoming, queue, ordered>>

RefuseTooManyTasks ==
  /\ verdict = "checking"
  /\ TooManyTasks(plan)
  /\ verdict' = "BudgetExceededError"
  /\ UNCHANGED <<plan, incoming, queue, ordered>>

RefuseMalformed ==
  /\ verdict = "checking"
  /\ ~TooManyTasks(plan)
  /\ ~WellFormed(plan)
  /\ verdict' = "PlanValidationError"
  /\ UNCHANGED <<plan, incoming, queue, ordered>>

(* Mutant: one per task that has dependencies, however many entries. *)
IncomingFlag(p) == [c \in Ids(p) |-> IF EdgesInto(p, c) = {} THEN 0 ELSE 1]

IncomingCount(p) == [c \in Ids(p) |-> Cardinality(EdgesInto(p, c))]

StartSort ==
  /\ verdict = "checking"
  /\ ~TooManyTasks(plan)
  /\ WellFormed(plan)
  /\ verdict' = "sorting"
  /\ incoming' = IncomingCount(plan)
  /\ queue' \in Sortings({c \in Ids(plan) : incoming'[c] = 0})
  /\ ordered' = <<>>
  /\ UNCHANGED plan

(* Mutants: outgoing[t] a set of children, and the counters rebuilt from   *)
(* the children alone.                                                     *)
DecrementedOnce(t) ==
  [c \in Ids(plan) |-> IF EdgesBetween(plan, t, c) = {} THEN incoming[c] ELSE incoming[c] - 1]
DecrementedAlone(t) ==
  [c \in {d \in Ids(plan) : EdgesBetween(plan, t, d) # {}} |->
     incoming[c] - Cardinality(EdgesBetween(plan, t, c))]

(* One entry of outgoing[t] is one decrement of incoming[c]. *)
Decremented(t) ==
  [c \in Ids(plan) |-> incoming[c] - Cardinality(EdgesBetween(plan, t, c))]

(* Mutant: every child of t, whatever else it waits for. *)
ReleasedChildren(t) == {c \in Ids(plan) : EdgesBetween(plan, t, c) # {}}

(* The children of t whose counter passes through 0 while it is decremented. *)
Released(t) ==
  {c \in Ids(plan) : incoming[c] \in 1..Cardinality(EdgesBetween(plan, t, c))}

Pop ==
  /\ verdict = "sorting"
  /\ queue # <<>>
  /\ ordered' = Append(ordered, Head(queue))
  /\ incoming' = Decremented(Head(queue))
  /\ \E released \in Sortings(Released(Head(queue))) : queue' = Tail(queue) \o released
  /\ UNCHANGED <<plan, verdict>>

(* Mutant: the sort is taken to have succeeded when it ordered anything. *)
SomeOrdered == ordered # <<>>

AllOrdered == Len(ordered) = Cardinality(Ids(plan))

AcceptPlan ==
  /\ verdict = "sorting"
  /\ queue = <<>>
  /\ AllOrdered
  /\ verdict' = "valid"
  /\ UNCHANGED <<plan, incoming, queue, ordered>>

RefuseCycle ==
  /\ verdict = "sorting"
  /\ queue = <<>>
  /\ ~AllOrdered
  /\ verdict' = "PlanValidationError"
  /\ UNCHANGED <<plan, incoming, queue, ordered>>

ValidationStep ==
  \/ RefuseTooManyTasks
  \/ RefuseMalformed
  \/ StartSort
  \/ Pop
  \/ AcceptPlan
  \/ RefuseCycle

Decided == verdict \in {"valid", "BudgetExceededError", "PlanValidationError"}

PlanNext ==
  \/ \E p \in Plans : Submit(p)
  \/ ValidationStep
  \/ Decided /\ UNCHANGED planVars

(* The function is synchronous: once called it runs to its end. *)
PlanSpec == PlanInit /\ [][PlanNext]_planVars /\ WF_planVars(ValidationStep)

-----------------------------------------------------------------------------

PlanTypeOK ==
  /\ plan \in Seq(PlannedTask)
  /\ verdict \in Verdicts
  /\ verdict = "sorting" => incoming \in [Ids(plan) -> Int]
  /\ queue \in Seq(Ids(plan))
  /\ ordered \in Seq(Ids(plan))

(* The counters never drift: while topological_task_ids runs, incoming[c]  *)
(* is the number of c's dependency entries whose task has not been         *)
(* ordered, duplicated entries counted as often as they are written.       *)
CountersExact ==
  verdict = "sorting" =>
    \A c \in Ids(plan) :
      incoming[c] = Cardinality({e \in EdgesInto(plan, c) : Parent(plan, e) \notin Entries(ordered)})

Distinct(s) == \A i, j \in DOMAIN s : s[i] = s[j] => i = j

(* No task is scheduled twice: a task enters the queue at most once, even  *)
(* when its counter is decremented several times for one popped parent.    *)
ScheduledOnce == Distinct(ordered \o queue)

(* The order handed to the workflow runs every task of the plan, and every *)
(* dependency of a task before the task.                                   *)
OrderRespectsDependencies ==
  /\ \A j \in DOMAIN ordered : \A d \in Dependencies(plan, ordered[j]) :
       \E i \in 1..(j - 1) : ordered[i] = d
  /\ verdict = "valid" => Entries(ordered) = Ids(plan)

(* A set of tasks each of which waits for another of the set (or itself).  *)
Deadlocked(p, S) == /\ S \in (SUBSET Ids(p)) \ {{}}
                    /\ \A c \in S : Dependencies(p, c) \cap S # {}
Cyclic(p) == \E S \in SUBSET Ids(p) : Deadlocked(p, S)

(* Exactly the well-formed plans with a dependency cycle are refused after *)
(* the sort: "plan contains a dependency cycle" is raised for no other     *)
(* plan, and no plan with a cycle reaches execution.                       *)
RefusedIffCyclic ==
  /\ verdict = "valid" => ~Cyclic(plan)
  /\ verdict = "PlanValidationError" /\ WellFormed(plan) => Cyclic(plan)

=============================================================================
