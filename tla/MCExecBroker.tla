---------------------------- MODULE MCExecBroker ----------------------------
(* Small instances of ExecBroker: a REST call and a terminal on container  *)
(* k1, and sometimes another client on k2.                                 *)
EXTENDS ExecBroker, TLC

CONSTANTS x1, x2, t1, k1, k2

MCContainerOf == [cl \in Clients |-> IF cl = x2 THEN k2 ELSE k1]
=============================================================================
