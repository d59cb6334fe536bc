---------------------------- MODULE MCFleetPages ----------------------------
(* A small instance of FleetPages: a container is being deployed on a     *)
(* node that reports no CPU load yet; later it is on another node, stopped. *)
EXTENDS FleetPages, TLC

CONSTANTS h1, h2, c1

MCFleetAt ==
  1 :> [nodes |-> {h1}, unmeasured |-> {h1},
        containers |-> c1 :> [host |-> h1, status |-> ""]] @@
  2 :> [nodes |-> {h1, h2}, unmeasured |-> {},
        containers |-> c1 :> [host |-> h2, status |-> "Stopped"]]
=============================================================================
