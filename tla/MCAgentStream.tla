--------------------------- MODULE MCAgentStream ---------------------------
(* AgentStream for TLC: one test, assigned or not, is enough to tell        *)
(* configurations apart together with their numbers.                        *)
EXTENDS AgentStream
=============================================================================
