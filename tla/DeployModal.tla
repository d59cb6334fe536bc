---------------------------- MODULE DeployModal ----------------------------
(***************************************************************************)
(* The deploy dialog of the dashboard: one form that provisions a new      *)
(* container or updates the one whose Settings button was pressed          *)
(* (src/web/src/components/DeployModal.tsx, and the dashboard's side of    *)
(* it in src/web/src/app/page.tsx).                                        *)
(*                                                                         *)
(* The dialog stays mounted while it is closed, and keeps its form and its *)
(* status.  It can be closed and opened again while a request of its is    *)
(* under way, and the timer that closes it after a success does not ask    *)
(* what it is showing by then.  Nothing behind its overlays is disabled:   *)
(* a keyboard reaches every field and button.                              *)
(***************************************************************************)
EXTENDS DialogData

VARIABLES
  mounted,    \* the dashboard is the page of the tab
  hosts,      \* the nodes it knows, the dialog's options
  isOpen,     \* isDeployModalOpen
  editing,    \* editingContainer, as it was when it was chosen, or Nil
  form,       \* formData
  status,
  timers,     \* how many timers of two seconds are pending
  posts,      \* per request: pc, endpoint, what it carries, what was edited
  opener,     \* the button that opened the dialog (history)
  touched,    \* typed in since it was filled from a record (history)
  deployed    \* what the success shown is about, or Nil (history)

dialogVars == <<isOpen, editing, form, status, timers, opener, touched, deployed>>
modalVars  == <<mounted, hosts, isOpen, editing, form, status, timers, posts, records,
                opener, touched, deployed>>

NoPost == [pc |-> "idle", endpoint |-> "deploy", data |-> Nil, of |-> Nil]

-----------------------------------------------------------------------------
(* nodes[0] || '' *)
FirstHost(hs) == IF hs = {} THEN NoHost ELSE CHOOSE h \in hs : TRUE

FreshForm == [host |-> NoHost, id |-> DefaultId, spec |-> Initial]

(* The form for a record: each empty or zero field becomes its default. *)
FormOf(c) == [host |-> c.host, id |-> c.id, spec |-> Filled(c.spec)]

(* Mutant: the effect runs when the list of nodes changes, only. *)
BugFill(ed, hs) ==
  form' = IF form.host = NoHost THEN [form EXCEPT !.host = FirstHost(hs)] ELSE form

(* The effect on [nodes, editData].  nodes is a new array in every render  *)
(* of the dashboard, so it runs after each: a form for a record is filled  *)
(* from it again, whatever has been typed.                                 *)
Fill(ed, hs) ==
  form' = IF ed # Nil THEN FormOf(ed)
          ELSE IF form.host = NoHost THEN [form EXCEPT !.host = FirstHost(hs)]
          ELSE form

Valid(f) == f.id # BadId /\ \A x \in Fields : f.spec[x] \in Acceptable[x]

ModalInit ==
  /\ mounted = FALSE
  /\ records \in [Ids -> Records \union {Nil}]
  /\ hosts = {} /\ isOpen = FALSE /\ editing = Nil /\ form = FreshForm
  /\ status = "idle" /\ timers = 0
  /\ posts = [p \in Submissions |-> NoPost]
  /\ opener = "none" /\ touched = FALSE /\ deployed = Nil

-----------------------------------------------------------------------------
(* The dashboard.                                                          *)

(* A dashboard starts from nothing, and leaves nothing. *)
Remount(m) ==
  /\ mounted' = m
  /\ hosts' = {} /\ isOpen' = FALSE /\ editing' = Nil /\ form' = FreshForm
  /\ status' = "idle" /\ timers' = 0
  /\ posts' = [p \in Submissions |-> NoPost]
  /\ opener' = "none" /\ touched' = FALSE /\ deployed' = Nil
  /\ UNCHANGED records

MountDashboard   == ~mounted /\ Remount(TRUE)
UnmountDashboard == mounted /\ Remount(FALSE)

(* A poll brings nodes and containers: the dashboard renders. *)
Poll(hs) ==
  /\ mounted
  /\ hosts' = hs
  /\ Fill(editing, hs)
  /\ touched' = (touched /\ editing = Nil)
  /\ UNCHANGED <<mounted, isOpen, editing, status, timers, posts, records,
                 opener, deployed>>

(* The Provision button.  Pressed while the dialog is open, which a        *)
(* keyboard can do, it sets what is set: no state changes.                 *)
OpenProvision ==
  /\ mounted /\ ~isOpen
  /\ isOpen' = TRUE
  /\ opener' = "provision"
  /\ Fill(editing, hosts)
  /\ UNCHANGED <<mounted, hosts, editing, status, timers, posts, records,
                 touched, deployed>>

(* The Settings button of a container. *)
OpenEdit(i) ==
  /\ mounted
  /\ records[i] # Nil /\ records[i].host \in hosts
  /\ isOpen' = TRUE
  /\ editing' = [host |-> records[i].host, id |-> i, spec |-> records[i].spec]
  /\ opener' = "edit"
  /\ Fill(editing', hosts)
  /\ touched' = FALSE
  /\ UNCHANGED <<mounted, hosts, status, timers, posts, records, deployed>>

(* Mutant: the dashboard keeps the container that was edited. *)
BugOnClose ==
  /\ isOpen' = FALSE
  /\ opener' = "none"
  /\ touched' = FALSE
  /\ Fill(editing, hosts)
  /\ UNCHANGED editing

onClose ==
  /\ isOpen' = FALSE
  /\ editing' = Nil
  /\ opener' = "none"
  /\ touched' = FALSE
  /\ Fill(Nil, hosts)

-----------------------------------------------------------------------------
(* The dialog.                                                             *)

(* The cross, or a click beside the panel. *)
Close ==
  /\ mounted /\ isOpen
  /\ onClose
  /\ UNCHANGED <<mounted, hosts, status, timers, posts, records, deployed>>

TypeIn ==
  /\ mounted /\ isOpen
  /\ \/ \E h \in hosts : form' = [form EXCEPT !.host = h]
     \/ \E i \in Ids \union {BadId} : form' = [form EXCEPT !.id = i]
     \/ \E sp \in Specs : form' = [form EXCEPT !.spec = sp]
  /\ touched' = (editing # Nil)
  /\ UNCHANGED <<mounted, hosts, isOpen, editing, status, timers, posts, records,
                 opener, deployed>>

(* Mutant: what validate throws is not caught. *)
BugRefused ==
  /\ ~Valid(form)
  /\ status' = "loading"
  /\ UNCHANGED posts

Refused ==
  /\ ~Valid(form)
  /\ status' = "error"
  /\ UNCHANGED posts

(* Mutant: nodes.length is not looked at. *)
BugCanSubmit == status # "loading"

(* The button is not disabled: that stops the Enter key, too. *)
CanSubmit == status # "loading" /\ hosts # {}

(* handleSubmit, up to the request. *)
Submit(p) ==
  /\ mounted /\ isOpen
  /\ CanSubmit
  /\ posts[p].pc = "idle"
  /\ \/ Refused
     \/ /\ Valid(form)
        /\ status' = "loading"
        /\ posts' = [posts EXCEPT ![p] =
             [pc |-> "sent", endpoint |-> IF editing # Nil THEN "update" ELSE "deploy",
              data |-> form, of |-> IF touched THEN Nil ELSE editing]]
  /\ deployed' = Nil
  /\ UNCHANGED <<mounted, hosts, isOpen, editing, form, timers, records,
                 opener, touched>>

(* The answer: success and its timer, or the error. *)
Answered(p) ==
  /\ \/ /\ posts[p].pc = "ok"
        /\ timers < MaxTimers
        /\ status' = "success"
        /\ timers' = timers + 1
        /\ deployed' = posts[p].data.id
     \/ /\ posts[p].pc = "error"
        /\ status' = "error"
        /\ deployed' = Nil
        /\ UNCHANGED timers
  /\ posts' = [posts EXCEPT ![p] = NoPost]
  /\ UNCHANGED <<mounted, hosts, isOpen, editing, form, records, opener, touched>>

(* Mutant: setStatus('idle') is left out. *)
BugTimer ==
  /\ timers > 0
  /\ timers' = timers - 1
  /\ onClose
  /\ UNCHANGED <<mounted, hosts, posts, records, status, deployed>>

(* Two seconds after a success, whatever the dialog shows by then. *)
Timer ==
  /\ timers > 0
  /\ timers' = timers - 1
  /\ onClose
  /\ status' = "idle"
  /\ deployed' = Nil
  /\ UNCHANGED <<mounted, hosts, posts, records>>

TryAgain ==
  /\ mounted /\ isOpen
  /\ status = "error"
  /\ status' = "idle"
  /\ UNCHANGED <<mounted, hosts, isOpen, editing, form, timers, posts, records,
                 opener, touched, deployed>>

-----------------------------------------------------------------------------
(* The master; see module ContainerRecords.                                *)

Reply(p, answer) ==
  posts' = [posts EXCEPT ![p] =
    [NoPost EXCEPT !.pc = answer, !.data = IF answer = "ok" THEN posts[p].data ELSE Nil]]

(* /deploy: refused when the host has no stream; if Send fails, the record *)
(* has been replaced all the same.  The dialog always names a host, so the *)
(* scheduler is not asked for one.                                         *)
HandleDeploy(p) ==
  /\ posts[p].pc = "sent" /\ posts[p].endpoint = "deploy"
  /\ LET d == posts[p].data IN
       \E written \in BOOLEAN, answer \in {"ok", "error"} :
         /\ answer = "ok" => written
         /\ records' = IF written
                       THEN [records EXCEPT ![d.id] = [host |-> d.host, spec |-> d.spec]]
                       ELSE records
         /\ Reply(p, answer)
  /\ UNCHANGED <<mounted, hosts, dialogVars>>

(* /update: the spec of a record that is there; the host is not looked at. *)
HandleUpdate(p) ==
  /\ posts[p].pc = "sent" /\ posts[p].endpoint = "update"
  /\ LET i == posts[p].data.id IN
       \/ /\ records[i] # Nil
          /\ records' = [records EXCEPT ![i].spec = posts[p].data.spec]
          /\ Reply(p, "ok")
       \/ /\ records[i] = Nil
          /\ Reply(p, "error")
          /\ UNCHANGED records
  /\ UNCHANGED <<mounted, hosts, dialogVars>>

(* The request or its answer is lost. *)
LosePost(p) ==
  /\ posts[p].pc \in {"sent", "ok"}
  /\ Reply(p, "error")
  /\ UNCHANGED <<mounted, hosts, dialogVars, records>>

(* Another user deploys or updates a container. *)
Elsewhere(i, r) ==
  /\ records' = [records EXCEPT ![i] = r]
  /\ UNCHANGED <<mounted, hosts, dialogVars, posts>>

-----------------------------------------------------------------------------
UserStep ==
  \/ OpenProvision \/ Close \/ TypeIn \/ TryAgain
  \/ \E i \in Ids : OpenEdit(i)
  \/ \E p \in Submissions : Submit(p)

PostServed(p) == HandleDeploy(p) \/ HandleUpdate(p) \/ LosePost(p) \/ Answered(p)

(* What happens while the dashboard stays. *)
ModalStep ==
  \/ UserStep \/ Timer
  \/ \E hs \in SUBSET Hosts : Poll(hs)
  \/ \E p \in Submissions : PostServed(p)
  \/ \E i \in Ids, r \in Records : Elsewhere(i, r)

ModalNext == MountDashboard \/ UnmountDashboard \/ ModalStep

ModalSpec == ModalInit /\ [][ModalNext]_modalVars

-----------------------------------------------------------------------------
(* Properties                                                              *)

Posts == [pc : {"idle", "sent", "ok", "error"}, endpoint : {"deploy", "update"},
          data : Edits \union {Nil}, of : Edits \union {Nil}]

(* Each variable has its type; in particular, what is submitted names a    *)
(* node, so that the master never has to choose one for the dialog.        *)
ModalTypeOK ==
  /\ mounted \in BOOLEAN
  /\ hosts \subseteq Hosts
  /\ isOpen \in BOOLEAN
  /\ editing \in Edits \union {Nil}
  /\ form \in Forms
  /\ status \in {"idle", "loading", "success", "error"}
  /\ timers \in 0..MaxTimers
  /\ posts \in [Submissions -> Posts]
  /\ \A p \in Submissions : posts[p].pc \in {"sent", "ok"} => posts[p].data # Nil
  /\ records \in [Ids -> Records \union {Nil}]
  /\ opener \in {"none", "provision", "edit"}
  /\ touched \in BOOLEAN
  /\ deployed \in Ids \union {Nil}

(* The dialog goes to /update if and only if it was opened with a Settings *)
(* button, whatever closed it before, and however late.                    *)
DoesWhatItWasOpenedFor ==
  /\ isOpen => ((editing # Nil) <=> (opener = "edit"))
  /\ ~isOpen => editing = Nil

(* An update that nobody has typed in carries the id, the host and every   *)
(* non-empty field of the record it was opened for, and only defaults      *)
(* besides: nothing is left in it of what was typed, or edited, before, or *)
(* of the spec the dialog starts with.  It is not the record itself: a     *)
(* field the record leaves empty or zero is set to its default by it.      *)
UntouchedUpdateIsFaithful ==
  \A p \in Submissions :
    LET data == posts[p].data
        of   == posts[p].of
    IN  of # Nil =>
          /\ posts[p].endpoint = "update"
          /\ data.id = of.id /\ data.host = of.host
          /\ \A x \in Fields :
               \/ data.spec[x] = of.spec[x]
               \/ of.spec[x] = Empty /\ data.spec[x] = Default[x]

(* "Provisioned!" is said while a timer is pending that will end it, of a  *)
(* container the master has a record of -- not that it is active.          *)
SuccessIsRecorded ==
  status = "success" => timers > 0 /\ deployed # Nil /\ records[deployed] # Nil

(* A dialog that is loading has a request under way, whatever was closed,  *)
(* opened, submitted or timed out meanwhile: it never locks itself.        *)
LoadingIsPending ==
  status = "loading" => \E p \in Submissions : posts[p].pc # "idle"

=============================================================================
