-------------------------- MODULE MCPlanValidation --------------------------
(* Three tasks with every dependency list of length at most two over their *)
(* ids, a few four-task plans, and one plan per early refusal.             *)
EXTENDS PlanValidation

MCCapabilities == {"research", "write", "draw"}
MCSpecialistCaps == <<{"research"}, {"research", "write"}>>

Task(id, dependencies) ==
  [id |-> id, dependencies |-> dependencies, required |-> {"write"}, criteria |-> TRUE, risk |-> "low"]

Lists == {<<>>} \cup [1..1 -> 1..3] \cup [1..2 -> 1..3]

ThreeTaskPlans == {<<Task(2, a), Task(1, b), Task(3, c)>> : a, b, c \in Lists}

FourTaskPlans ==
  {<<Task(4, <<1>>), Task(1, <<>>), Task(3, a), Task(2, <<3, 4, 3>>)>> :
     a \in {<<>>, <<1>>, <<1, 4>>, <<2>>, <<4, 4>>, <<3>>}}

RefusedEarly ==
  { <<>>,
    <<Task(1, <<>>), Task(1, <<>>)>>,
    <<Task(1, <<>>), Task(2, <<7>>)>>,
    <<[Task(1, <<>>) EXCEPT !.criteria = FALSE]>>,
    <<Task(1, <<>>), [Task(2, <<>>) EXCEPT !.required = {"research", "draw"}]>>,
    [i \in 1..5 |-> Task(i, <<>>)],
    [i \in 1..5 |-> Task(1, <<7>>)] }

MCPlans == ThreeTaskPlans \cup FourTaskPlans \cup RefusedEarly
=============================================================================
