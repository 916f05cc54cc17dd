--------------------------- MODULE MCAgentRunner ---------------------------
(* The instance of AgentRunner for TLC: the run of one task.  Its bounds are  *)
(* in AgentRunner.cfg, and nothing in it is symmetric.                        *)
EXTENDS AgentRunner, TLC
=============================================================================
