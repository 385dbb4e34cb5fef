---------------------------- MODULE MCAgentInput ----------------------------
(* Instances of AgentInput for TLC.                                         *)
EXTENDS AgentInput
=============================================================================
