--------------------------- MODULE MCTaskExecution --------------------------
(* A specialist with a read tool and a gated write tool, one revision.     *)
EXTENDS TaskExecution

MCTools == {"read", "write"}
MCGated == {"write"}
MCOutputs == [schema \in {"WorkProduct", "Review"} |->
                IF schema = "WorkProduct" THEN {<<>>, <<"read">>, <<"write", "read">>}
                                          ELSE {"pass", "revise", "fail"}]
=============================================================================
