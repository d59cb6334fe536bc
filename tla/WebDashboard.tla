---------------------------- MODULE WebDashboard ----------------------------
(***************************************************************************)
(* One tab of the web dashboard: the dashboard with its deploy dialog and  *)
(* the terminal page, which the sidebar, the Shell buttons, the links and  *)
(* the browser's history lead to and away from (src/web/src/components/    *)
(* Sidebar.tsx).  A page that is left is unmounted, with all its state;    *)
(* the master's records, which both pages work on, stay.                   *)
(***************************************************************************)
EXTENDS DeployModal, TerminalPage

vars == <<modalVars, pageVars>>

(* The page of the tab; "other" is any without the dialog or a terminal.   *)
path == IF mounted THEN "/" ELSE IF target # NoTarget THEN "/terminal" ELSE "other"

Init == ModalInit /\ TerminalInit

-----------------------------------------------------------------------------
(* The page that is left is unmounted, if it is one of the two. *)
LeaveDashboard == IF mounted THEN UnmountDashboard ELSE UNCHANGED modalVars
LeaveTerminal  == IF target # NoTarget THEN UnmountTerminal ELSE UNCHANGED pageVars

GoHome == MountDashboard /\ LeaveTerminal

GoElsewhere == path # "other" /\ LeaveDashboard /\ LeaveTerminal

(* The sidebar's link says nothing of a container; a Shell button on a     *)
(* card of the dashboard, an address typed in and the browser's history    *)
(* name one, which may have no record any more, or never had.              *)
OpenTerminal(c) == MountTerminal(c) /\ LeaveDashboard

-----------------------------------------------------------------------------
(* A step of one page, and not of the other. *)
ModalAlone    == ModalStep /\ UNCHANGED pageVars
TerminalAlone == TerminalStep /\ UNCHANGED modalVars

Next ==
  \/ GoHome \/ GoElsewhere
  \/ \E c \in Targets : OpenTerminal(c)
  \/ ModalAlone \/ TerminalAlone

Spec == Init /\ [][Next]_vars

(* Requests of the dialog end, one way or the other.  A session reads and  *)
(* answers -- every command ends, see EveryCallReturns of ExecBroker -- and *)
(* the browser takes what has arrived.                                     *)
Fairness ==
  /\ WF_vars(UNCHANGED pageVars /\ \E p \in Submissions : PostServed(p))
  /\ WF_vars(UNCHANGED modalVars /\ \E s \in Sockets : SockServed(s))

FairSpec == Spec /\ Fairness

-----------------------------------------------------------------------------
(* Properties: those of the two pages, in the tab that has them both.      *)

(* Each page's state has its type, and one page at most is mounted. *)
TypeOK ==
  /\ ModalTypeOK
  /\ TerminalTypeOK
  /\ ~(mounted /\ target # NoTarget)

(* The tab keeps nobody waiting: the dialog does not load for ever, and of *)
(* every command typed an answer is shown, or there is none, or the        *)
(* socket is closed.                                                       *)
Waiting == status = "loading" \/ \E s \in Sockets : Waits(s)

EveryWaitEnds == Waiting ~> ~Waiting

=============================================================================
