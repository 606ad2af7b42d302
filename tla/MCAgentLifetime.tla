-------------------------- MODULE MCAgentLifetime --------------------------
(* AgentLifetime on small sets of processes and connections.               *)
EXTENDS AgentLifetime

EveryConfig == [persist : BOOLEAN, lingers : BOOLEAN]
=============================================================================
