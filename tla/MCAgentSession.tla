--------------------------- MODULE MCAgentSession ---------------------------
(***************************************************************************)
(* A small instance of AgentSession and AgentRecovery for TLC.             *)
(***************************************************************************)
EXTENDS AgentRecovery

============================================================================
