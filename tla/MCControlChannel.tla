-------------------------- MODULE MCControlChannel --------------------------
(***************************************************************************)
(* A small instance of ControlChannel.  Agent a1 may connect twice, so     *)
(* that its old and its new handler overlap; a2, on a clone of its machine *)
(* (the same hostname), has the wrong token.                               *)
(***************************************************************************)
EXTENDS ControlChannel

CONSTANTS a1, a2, h1, s1, s2, s3, c1

MCHostnameOf == [a \in Agents |-> h1]

MCAgentOf == [s \in Streams |-> IF s = s3 THEN a2 ELSE a1]
=============================================================================
