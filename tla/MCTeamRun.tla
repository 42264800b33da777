----------------------------- MODULE MCTeamRun ------------------------------
(* Plans of two tasks for a team of two specialists: listed in dependency  *)
(* order or against it, with a high-risk task, with independent tasks, with *)
(* a capability nobody has, and with a cycle.                              *)
EXTENDS TeamRun

MCCapabilities == {"research", "write", "draw"}
MCSpecialistCaps == <<{"research", "write"}, {"research"}>>
MCTools == {"read", "write"}
MCGated == {"write"}
MCSpecialistTools == <<{"read", "write"}, {"read"}>>

Task(id, dependencies, required, risk) ==
  [id |-> id, dependencies |-> dependencies, required |-> required, criteria |-> TRUE, risk |-> risk]

MCPlans ==
  { <<Task(1, <<2, 2>>, {"write"}, "high"), Task(2, <<>>, {"research"}, "low")>>,
    <<Task(1, <<>>, {}, "low"), Task(2, <<>>, {"write"}, "low")>>,
    <<Task(1, <<>>, {"draw"}, "low"), Task(2, <<>>, {}, "low")>>,
    <<Task(1, <<2>>, {}, "low"), Task(2, <<1>>, {}, "low")>> }

OnePlan == {<<Task(1, <<>>, {"write"}, "low")>>}

Answers(plans, products, reviews) ==
  [schema \in {"Plan", "WorkProduct", "Review", "FinalOutput"} |->
     CASE schema = "Plan" -> plans
       [] schema = "WorkProduct" -> products
       [] schema = "Review" -> reviews
       [] schema = "FinalOutput" -> {"final"}]

PlannedAnswers == Answers(MCPlans, {<<>>, <<"write">>}, {"pass", "revise"})
PipelineAnswers == Answers({}, {<<>>, <<"read">>, <<"unregistered">>}, {"pass", "revise", "fail"})
FaultAnswers == Answers(OnePlan, {<<>>}, {"pass", "fail"})
DisturbedAnswers == Answers(MCPlans, {<<>>, <<"write">>}, {"pass", "revise", "fail"})
=============================================================================
