--------------------------- MODULE MCAgentHarness ---------------------------
(***************************************************************************)
(* AgentHarness with a few prompts, messages and writes.                   *)
(***************************************************************************)
EXTENDS AgentHarness, TLC

CONSTANTS p1, p2, m1, w1, w2
=============================================================================
