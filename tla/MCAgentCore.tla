---------------------------- MODULE MCAgentCore ----------------------------
(* Two releases of a node: the rollback of the first and the second itself *)
(* carry the same generation, the panel may ask for any of them at any time. *)
EXTENDS AgentCore

MCPending ==
    {[release |-> r, generation |-> r, phase |-> p] : r \in 1..2, p \in {"prepare", "apply"}}
    \union {[release |-> 1, generation |-> 2, phase |-> "rollback"]}
=============================================================================
