------------------------- MODULE WebDashboard_proofs -------------------------
(***************************************************************************)
(* Proofs about WebDashboard.  A tab is, of each of its pages, a behaviour *)
(* of that page's module (PagesRunInTab): what is proved of the dialog and *)
(* of the terminal page by themselves (DeployModal_proofs,                 *)
(* TerminalPage_proofs) therefore holds in the tab that has them both.     *)
(***************************************************************************)
EXTENDS WebDashboard, DeployModal_proofs, TerminalPage_proofs

(* A page that is mounted or left leaves the master's records alone.       *)
LEMMA PagesLeaveRecords ==
  MountDashboard \/ UnmountDashboard \/ UNCHANGED modalVars => UNCHANGED records
BY DEF MountDashboard, UnmountDashboard, Remount, modalVars

(* No step of the tab is anything to the dialog but one of its own, or     *)
(* none.                                                                   *)
LEMMA DialogStep == [Next]_vars => [ModalNext]_modalVars
<1>1. ASSUME GoHome PROVE ModalNext
  BY <1>1 DEF GoHome, ModalNext
<1>2. ASSUME GoElsewhere \/ \E c \in Targets : OpenTerminal(c)
      PROVE  ModalNext \/ UNCHANGED modalVars
  BY <1>2 DEF GoElsewhere, OpenTerminal, LeaveDashboard, ModalNext
<1>3. ASSUME ModalAlone PROVE ModalNext
  BY <1>3 DEF ModalAlone, ModalNext
<1>4. ASSUME TerminalAlone \/ UNCHANGED vars PROVE UNCHANGED modalVars
  BY <1>4 DEF TerminalAlone, vars
<1> QED BY <1>1, <1>2, <1>3, <1>4 DEF Next

(* Nor to the terminal page, but for what the dialog, or another user,     *)
(* makes known.                                                            *)
LEMMA TerminalPageStep == ModalInv' /\ [Next]_vars => [TerminalNext]_terminalVars
<1> SUFFICES ASSUME ModalInv', [Next]_vars PROVE TerminalNext \/ UNCHANGED terminalVars
  OBVIOUS
<1>1. ASSUME GoHome \/ GoElsewhere PROVE TerminalNext \/ UNCHANGED terminalVars
  <2>1. UNCHANGED records
    BY <1>1, PagesLeaveRecords DEF GoHome, GoElsewhere, LeaveDashboard
  <2> QED BY <1>1, <2>1 DEF GoHome, GoElsewhere, LeaveTerminal, TerminalNext, terminalVars
<1>2. ASSUME NEW c \in Targets, OpenTerminal(c) PROVE TerminalNext
  <2>1. UNCHANGED records
    BY <1>2, PagesLeaveRecords DEF OpenTerminal, LeaveDashboard
  <2> QED BY <1>2, <2>1 DEF OpenTerminal, TerminalNext
<1>3. ASSUME ModalAlone PROVE RecordsChange
  BY <1>3 DEF ModalAlone, RecordsChange, ModalInv, MasterTypes
<1>4. ASSUME TerminalAlone PROVE TerminalNext
  BY <1>4, PagesLeaveRecords DEF TerminalAlone, TerminalNext
<1>5. ASSUME UNCHANGED vars PROVE UNCHANGED terminalVars
  BY <1>5, PagesLeaveRecords DEF vars, terminalVars
<1> QED BY <1>1, <1>2, <1>3, <1>4, <1>5 DEF Next, TerminalNext

(* However it is navigated, the tab implements both of its pages: Next is  *)
(* put together from their actions.                                        *)
LEMMA PagesRunInTab == Spec => ModalSpec /\ TerminalSpec
<1>1. Init => ModalInit /\ TerminalInit
  BY DEF Init
<1>2. Spec => ModalSpec
  BY <1>1, DialogStep, PTL DEF Spec, ModalSpec
<1>3. Spec => TerminalSpec
  BY <1>1, <1>2, ModalInvariant, TerminalPageStep, PTL DEF Spec, TerminalSpec
<1> QED BY <1>2, <1>3

-----------------------------------------------------------------------------
(* What holds of the dialog by itself holds in the tab.                    *)

(* The dialog goes to /update if and only if it was opened with a Settings *)
(* button, whatever page the tab has been to in the meantime.              *)
THEOREM OpenedForInTab == Spec => []DoesWhatItWasOpenedFor
  BY PagesRunInTab, OpenedForHolds

(* An update nobody has typed in says what its record said, field by field,*)
(* but that fields the record left empty have become defaults.             *)
THEOREM UntouchedInTab == Spec => []UntouchedUpdateIsFaithful
  BY PagesRunInTab, UntouchedHolds

(* A success is shown of a container that has a record, and will end.      *)
THEOREM SuccessInTab == Spec => []SuccessIsRecorded
  BY PagesRunInTab, SuccessHolds

(* A dialog that loads has a request under way: leaving the page does not  *)
(* leave it locked.                                                        *)
THEOREM LoadingInTab == Spec => []LoadingIsPending
  BY PagesRunInTab, LoadingHolds

(* And what holds of the terminal page.                                    *)

(* "Connected" is never shown when every socket of the page is closed; on  *)
(* the first container it is shown exactly when the socket is open.        *)
THEOREM FlagInTab == Spec => []FlagIsHonest
  BY PagesRunInTab, FlagHolds

(* A terminal shows one answer per command of its own session, in the      *)
(* order in which they were typed, and while the socket is open no command *)
(* is lost or answered twice.                                              *)
THEOREM OrderInTab == Spec => []AnswersInOrder
  BY PagesRunInTab, OrderHolds

-----------------------------------------------------------------------------
OnePage == ~(mounted /\ target # NoTarget)

(* A page is mounted when the other is left: never both.                   *)
LEMMA OnePageStep == OnePage /\ [Next]_vars => OnePage'
<1> SUFFICES ASSUME OnePage, [Next]_vars PROVE OnePage'
  OBVIOUS
<1> USE DEF OnePage
<1>1. CASE GoHome
  BY <1>1 DEF GoHome, LeaveTerminal, UnmountTerminal, pageVars
<1>2. CASE GoElsewhere
  BY <1>2 DEF GoElsewhere, LeaveTerminal, UnmountTerminal, LeaveDashboard, UnmountDashboard,
              Remount, pageVars, modalVars
<1>3. ASSUME NEW c \in Targets, OpenTerminal(c) PROVE OnePage'
  BY <1>3 DEF OpenTerminal, LeaveDashboard, UnmountDashboard, Remount, modalVars
<1>4. CASE ModalAlone
  <2>1. UNCHANGED <<mounted, target>>
    BY <1>4 DEF ModalAlone, pageVars, ModalStep, UserStep, OpenProvision, Close, TypeIn, TryAgain,
       OpenEdit, Submit, Timer, Poll, PostServed, HandleDeploy, HandleUpdate, LosePost, Answered,
       Elsewhere
  <2> QED BY <2>1
<1>5. CASE TerminalAlone
  <2>1. mounted' = mounted /\ (target = NoTarget => target' = NoTarget)
    BY <1>5 DEF TerminalAlone, modalVars, TerminalStep, Visit, Enter, onopen, onclose, SockServed,
       ReadMessage, Finish, onmessage
  <2> QED BY <2>1
<1>6. CASE UNCHANGED vars
  BY <1>6 DEF vars, modalVars, pageVars
<1> QED BY <1>1, <1>2, <1>3, <1>4, <1>5, <1>6 DEF Next

(* The variables of both pages keep to their types, and one page at most   *)
(* is mounted.                                                             *)
THEOREM TypeCorrect == Spec => []TypeOK
<1>1. Spec => []ModalTypeOK
  BY PagesRunInTab, ModalTypeCorrect
<1>2. Spec => []TerminalTypeOK
  BY PagesRunInTab, TerminalTypeCorrect
<1>3. Spec => []OnePage
  <2>1. Init => OnePage
    BY DEF Init, ModalInit, OnePage
  <2> QED BY <2>1, OnePageStep, PTL DEF Spec
<1>4. ModalTypeOK /\ TerminalTypeOK /\ OnePage => TypeOK
  BY DEF TypeOK, OnePage
<1> QED BY <1>1, <1>2, <1>3, <1>4, PTL
=============================================================================
