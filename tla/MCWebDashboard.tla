--------------------------- MODULE MCWebDashboard ---------------------------
(* A small instance of WebDashboard: a spec is a rootfs, which must not be *)
(* empty, and a limit, whose number may be deleted.                        *)
EXTENDS WebDashboard, TLC

CONSTANTS h1, c1, rootfs, memory, none, dflt, start, other

MCFields     == {rootfs, memory}
MCValues     == {none, dflt, start, other}
MCDefault    == [x \in MCFields |-> dflt]
MCAcceptable == rootfs :> {dflt, start, other} @@ memory :> {none, dflt, other}

Spec2(r, m) == rootfs :> r @@ memory :> m

MCInitial == Spec2(start, dflt)

(* What the form starts with, a record without a rootfs, and what the form *)
(* makes of it.                                                            *)
MCSpecs == {MCInitial, Spec2(none, other), Spec2(dflt, other)}
=============================================================================
