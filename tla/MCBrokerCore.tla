----------------------------- MODULE MCBrokerCore -----------------------------
(* BrokerCore with what TLC needs to exchange agents.                      *)
EXTENDS BrokerCore, TLC

AgentSymmetry == Permutations(Agent)
=============================================================================
