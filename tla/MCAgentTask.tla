----------------------------- MODULE MCAgentTask -----------------------------
(* An instance of AgentTask for TLC. *)
EXTENDS AgentTask

CONSTANTS w1, w2

Slots == {w1, w2}
=============================================================================
