---------------------------- MODULE MCToolBroker ----------------------------
(* Up to three tool calls of a read tool, a gated write tool, or a tool    *)
(* that does not exist, and one store fault.                               *)
EXTENDS ToolBroker

MCTools == {"read", "write"}
MCGated == {"write"}
=============================================================================
