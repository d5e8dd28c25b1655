---------------------------- MODULE MCAgentMemory ----------------------------
(* AgentMemory with two agents who work on one thread, or by mishap on two   *)
(* of the same title.                                                        *)
EXTENDS AgentMemory, TLC

CONSTANTS a1, a2

Alike == Permutations(Agents)
=============================================================================
