-------------------------- MODULE MCAgentSandboxes --------------------------
(* Small instances of AgentSandboxes.  No action relates two container     *)
(* ids, so that the sandboxes share one.                                   *)
EXTENDS AgentSandboxes

CONSTANTS x1, x2, i1, k1

MCIdOf == [x \in Sandboxes |-> i1]
=============================================================================
