------------------------------ MODULE MCAgentBus ------------------------------
EXTENDS AgentBus, TLC

CONSTANTS c1, c2, k1, k2

MCKeyOf == c1 :> k1 @@ c2 :> k2
=============================================================================
