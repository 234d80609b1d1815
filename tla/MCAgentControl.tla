--------------------------- MODULE MCAgentControl ---------------------------
(* A session and a dispatched command, each with a name of its own.        *)
EXTENDS AgentControl, TLC

CONSTANTS c1, n1, n2

MCNameOf == [c \in Cmd |-> IF c = c1 THEN n1 ELSE n2]
=============================================================================
