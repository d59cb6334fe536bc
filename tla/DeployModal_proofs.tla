------------------------- MODULE DeployModal_proofs -------------------------
(***************************************************************************)
(* Proofs about DeployModal, for any nodes, containers and specs, and any  *)
(* number of requests and timers pending at once.  The argument: where a   *)
(* node is known the form names one (HostChosen), a form nobody has typed  *)
(* in is that of its record (FormFollows), and what the master has         *)
(* accepted has a record (AcceptedIsRecorded).                             *)
(***************************************************************************)
EXTENDS DeployModal, TLAPS

(* The type invariant in three parts, which different provers are good at. *)
Flags == mounted \in BOOLEAN /\ isOpen \in BOOLEAN /\ touched \in BOOLEAN

DialogTypes ==
  /\ hosts \subseteq Hosts
  /\ editing \in Edits \union {Nil}
  /\ form \in Forms
  /\ status \in {"idle", "loading", "success", "error"}
  /\ timers \in 0..MaxTimers
  /\ opener \in {"none", "provision", "edit"}
  /\ deployed \in Ids \union {Nil}

MasterTypes ==
  /\ posts \in [Submissions -> Posts]
  /\ \A p \in Submissions : posts[p].pc \in {"sent", "ok"} => posts[p].data # Nil
  /\ records \in [Ids -> Records \union {Nil}]

HostChosen == hosts # {} => form.host \in Hosts

FormFollows == editing # Nil /\ ~touched => form = FormOf(editing)

AcceptedIsRecorded ==
  \A p \in Submissions : posts[p].pc = "ok" => records[posts[p].data.id] # Nil

ModalInv ==
  /\ Flags /\ DialogTypes /\ MasterTypes
  /\ HostChosen
  /\ DoesWhatItWasOpenedFor
  /\ FormFollows
  /\ UntouchedUpdateIsFaithful
  /\ AcceptedIsRecorded
  /\ SuccessIsRecorded
  /\ LoadingIsPending

-----------------------------------------------------------------------------
(* The effect leaves a form, one that names a node if any is known, and    *)
(* the record's own form if there is a record.                             *)
LEMMA FillForm ==
  ASSUME NEW ed \in Edits \union {Nil}, NEW hs \in SUBSET Hosts, form \in Forms, Fill(ed, hs)
  PROVE  /\ form' \in Forms
         /\ hs # {} => form'.host \in Hosts
         /\ ed # Nil => form' = FormOf(ed)
<1>1. ASSUME hs # {} PROVE FirstHost(hs) \in hs
  BY <1>1 DEF FirstHost
<1>2. ASSUME ed # Nil PROVE FormOf(ed) \in [host : Hosts, id : Ids, spec : Specs]
  BY <1>2, SpecAssumption DEF FormOf, Edits
<1>3. CASE ed # Nil
  BY <1>2, <1>3 DEF Fill, Forms
<1>4. CASE ed = Nil /\ hs = {}
  BY <1>4 DEF Fill, Forms, FirstHost
<1>5. CASE ed = Nil /\ hs # {}
  BY <1>1, <1>5 DEF Fill, Forms
<1> QED BY <1>3, <1>4, <1>5

(* The form of a record is the record, but for defaults of empty fields.   *)
LEMMA FormSays ==
  ASSUME NEW ed
  PROVE  /\ FormOf(ed).id = ed.id /\ FormOf(ed).host = ed.host
         /\ \A x \in Fields :
              \/ FormOf(ed).spec[x] = ed.spec[x]
              \/ ed.spec[x] = Empty /\ FormOf(ed).spec[x] = Default[x]
  BY DEF FormOf, Filled

(* What an untouched update says of a request, with its record and data.   *)
Says(r) ==
  r.of # Nil =>
    /\ r.endpoint = "update"
    /\ r.data.id = r.of.id /\ r.data.host = r.of.host
    /\ \A x \in Fields :
         \/ r.data.spec[x] = r.of.spec[x]
         \/ r.of.spec[x] = Empty /\ r.data.spec[x] = Default[x]

LEMMA Faithful == UntouchedUpdateIsFaithful <=> \A p \in Submissions : Says(posts[p])
  BY DEF UntouchedUpdateIsFaithful, Says

(* A valid form that names a node is data for the master. *)
LEMMA ValidForm ==
  ASSUME form \in Forms, Valid(form), form.host \in Hosts
  PROVE  form \in Edits /\ form # Nil
  BY ModalAssumption DEF Forms, Valid, Edits

(* The form a dashboard starts with, and a request that is not under way. *)
LEMMA FreshData ==
  /\ FreshForm \in Forms
  /\ NoPost \in Posts /\ NoPost.pc = "idle" /\ NoPost.of = Nil
<1>1. FreshForm \in Forms
  BY ModalAssumption, SpecAssumption DEF FreshForm, Forms
<1>2. NoPost \in Posts /\ NoPost.pc = "idle" /\ NoPost.of = Nil
  BY DEF NoPost, Posts
<1> QED BY <1>1, <1>2

(* A dashboard that starts, or that is left, has nothing under way. *)
LEMMA Fresh == ASSUME ModalInv, NEW m \in BOOLEAN, Remount(m) PROVE ModalInv'
<1> USE FreshData, ModalAssumption DEF ModalInv, Remount
<1>1. Flags'
  BY DEF Flags
<1>2. DialogTypes'
  BY DEF DialogTypes
<1>3. MasterTypes'
  BY DEF MasterTypes
<1>4. HostChosen' /\ DoesWhatItWasOpenedFor' /\ FormFollows'
  BY DEF HostChosen, DoesWhatItWasOpenedFor, FormFollows
<1>5. UntouchedUpdateIsFaithful' /\ AcceptedIsRecorded'
  BY DEF UntouchedUpdateIsFaithful, AcceptedIsRecorded
<1>6. SuccessIsRecorded' /\ LoadingIsPending'
  BY DEF SuccessIsRecorded, LoadingIsPending
<1> QED BY <1>1, <1>2, <1>3, <1>4, <1>5, <1>6

(* The initial state is that of a dashboard that starts. *)
LEMMA ModalInitInv == ModalInit => ModalInv
<1> SUFFICES ASSUME ModalInit PROVE ModalInv
  OBVIOUS
<1> USE FreshData, ModalAssumption DEF ModalInit
<1>1. Flags
  BY DEF Flags
<1>2. DialogTypes
  BY DEF DialogTypes
<1>3. MasterTypes
  BY DEF MasterTypes
<1>4. HostChosen /\ DoesWhatItWasOpenedFor /\ FormFollows
  BY DEF HostChosen, DoesWhatItWasOpenedFor, FormFollows
<1>5. UntouchedUpdateIsFaithful /\ AcceptedIsRecorded
  BY DEF UntouchedUpdateIsFaithful, AcceptedIsRecorded
<1>6. SuccessIsRecorded /\ LoadingIsPending
  BY DEF SuccessIsRecorded, LoadingIsPending
<1> QED BY <1>1, <1>2, <1>3, <1>4, <1>5, <1>6 DEF ModalInv

-----------------------------------------------------------------------------
(* What a step that leaves the requests and the records alone preserves.   *)
LEMMA RequestsKept ==
  ASSUME ModalInv, UNCHANGED <<posts, records>>
  PROVE  MasterTypes' /\ UntouchedUpdateIsFaithful' /\ AcceptedIsRecorded'
  BY DEF ModalInv, MasterTypes, UntouchedUpdateIsFaithful, AcceptedIsRecorded

(* What a step that leaves the dialog alone preserves.                     *)
LEMMA DialogKept ==
  ASSUME ModalInv, UNCHANGED <<mounted, hosts, dialogVars>>
  PROVE  Flags' /\ DialogTypes' /\ HostChosen' /\ DoesWhatItWasOpenedFor' /\ FormFollows'
  BY DEF ModalInv, dialogVars, Flags, DialogTypes, HostChosen, DoesWhatItWasOpenedFor, FormFollows

(* A poll fills the form again.                                            *)
LEMMA PollStep == ASSUME ModalInv, NEW hs \in SUBSET Hosts, Poll(hs) PROVE ModalInv'
<1> USE DEF ModalInv, Poll
<1>1. form' \in Forms /\ (hs # {} => form'.host \in Hosts)
      /\ (editing # Nil => form' = FormOf(editing))
  BY FillForm DEF DialogTypes
<1>2. Flags'
  BY DEF Flags
<1>3. DialogTypes'
  BY <1>1 DEF DialogTypes
<1>4. HostChosen' /\ DoesWhatItWasOpenedFor' /\ FormFollows'
  BY <1>1 DEF HostChosen, DoesWhatItWasOpenedFor, FormFollows, FormOf
<1>5. SuccessIsRecorded' /\ LoadingIsPending'
  BY DEF SuccessIsRecorded, LoadingIsPending
<1> QED BY <1>2, <1>3, <1>4, <1>5, RequestsKept

(* The Provision button: editing is Nil already.                           *)
LEMMA ProvisionStep == ASSUME ModalInv, OpenProvision PROVE ModalInv'
<1> USE DEF ModalInv, OpenProvision
<1>1. form' \in Forms /\ (hosts # {} => form'.host \in Hosts)
      /\ (editing # Nil => form' = FormOf(editing))
  BY FillForm DEF DialogTypes
<1>2. Flags'
  BY DEF Flags
<1>3. DialogTypes'
  BY <1>1 DEF DialogTypes
<1>4. HostChosen' /\ DoesWhatItWasOpenedFor' /\ FormFollows'
  BY <1>1 DEF HostChosen, DoesWhatItWasOpenedFor, FormFollows, FormOf
<1>5. SuccessIsRecorded' /\ LoadingIsPending'
  BY DEF SuccessIsRecorded, LoadingIsPending
<1> QED BY <1>2, <1>3, <1>4, <1>5, RequestsKept

(* A Settings button: the form is that of the record.                      *)
LEMMA EditStep == ASSUME ModalInv, NEW i \in Ids, OpenEdit(i) PROVE ModalInv'
<1> USE DEF ModalInv, OpenEdit
<1>0. editing' \in Edits /\ editing' # Nil
  BY ModalAssumption DEF MasterTypes, Records, Edits
<1>1. form' \in Forms /\ (hosts # {} => form'.host \in Hosts) /\ form' = FormOf(editing')
  BY <1>0, FillForm DEF DialogTypes
<1>2. Flags'
  BY DEF Flags
<1>3. DialogTypes'
  BY <1>0, <1>1 DEF DialogTypes
<1>4. HostChosen' /\ DoesWhatItWasOpenedFor' /\ FormFollows'
  BY <1>0, <1>1 DEF HostChosen, DoesWhatItWasOpenedFor, FormFollows, FormOf
<1>5. SuccessIsRecorded' /\ LoadingIsPending'
  BY DEF SuccessIsRecorded, LoadingIsPending
<1> QED BY <1>2, <1>3, <1>4, <1>5, RequestsKept

(* However the dialog is closed, editing is Nil and the form stays.        *)
LEMMA OnCloseStep ==
  ASSUME ModalInv, onClose, UNCHANGED <<mounted, hosts>>
  PROVE  /\ form' \in Forms /\ Flags'
         /\ HostChosen' /\ DoesWhatItWasOpenedFor' /\ FormFollows'
<1> USE DEF ModalInv, onClose
<1>1. form' \in Forms /\ (hosts # {} => form'.host \in Hosts)
  BY FillForm DEF DialogTypes
<1>2. Flags'
  BY DEF Flags
<1>3. HostChosen' /\ DoesWhatItWasOpenedFor' /\ FormFollows'
  BY <1>1 DEF HostChosen, DoesWhatItWasOpenedFor, FormFollows
<1> QED BY <1>1, <1>2, <1>3

(* The cross and the overlay: the status, and so the timers, stay.         *)
LEMMA CloseStep == ASSUME ModalInv, Close PROVE ModalInv'
<1> USE DEF Close
<1>1. form' \in Forms /\ Flags' /\ HostChosen' /\ DoesWhatItWasOpenedFor' /\ FormFollows'
  BY OnCloseStep
<1>2. DialogTypes'
  BY <1>1 DEF ModalInv, DialogTypes, onClose
<1>3. SuccessIsRecorded' /\ LoadingIsPending'
  BY DEF ModalInv, SuccessIsRecorded, LoadingIsPending
<1> QED BY <1>1, <1>2, <1>3, RequestsKept DEF ModalInv

(* The timer of a success ends whatever status there is.                   *)
LEMMA TimerStep == ASSUME ModalInv, Timer PROVE ModalInv'
<1> USE DEF Timer
<1>1. form' \in Forms /\ Flags' /\ HostChosen' /\ DoesWhatItWasOpenedFor' /\ FormFollows'
  BY OnCloseStep
<1>2. DialogTypes'
  BY <1>1, ModalAssumption DEF ModalInv, DialogTypes, onClose
<1>3. SuccessIsRecorded' /\ LoadingIsPending'
  BY DEF SuccessIsRecorded, LoadingIsPending
<1> QED BY <1>1, <1>2, <1>3, RequestsKept DEF ModalInv

(* Typing turns a record's form into one that may differ from it.          *)
LEMMA TypeInStep == ASSUME ModalInv, TypeIn PROVE ModalInv'
<1> USE DEF ModalInv, TypeIn
<1>1. form' \in Forms /\ (hosts # {} => form'.host \in Hosts)
  BY DEF DialogTypes, Forms, HostChosen
<1>2. Flags'
  BY DEF Flags
<1>3. DialogTypes'
  BY <1>1 DEF DialogTypes
<1>4. HostChosen' /\ DoesWhatItWasOpenedFor' /\ FormFollows'
  BY <1>1 DEF HostChosen, DoesWhatItWasOpenedFor, FormFollows
<1>5. SuccessIsRecorded' /\ LoadingIsPending'
  BY DEF SuccessIsRecorded, LoadingIsPending
<1> QED BY <1>2, <1>3, <1>4, <1>5, RequestsKept

(* Try Again takes an error away and nothing else.                         *)
LEMMA TryAgainStep == ASSUME ModalInv, TryAgain PROVE ModalInv'
<1> USE DEF ModalInv, TryAgain
<1>1. Flags'
  BY DEF Flags
<1>2. DialogTypes'
  BY DEF DialogTypes
<1>3. HostChosen' /\ DoesWhatItWasOpenedFor' /\ FormFollows'
  BY DEF HostChosen, DoesWhatItWasOpenedFor, FormFollows, FormOf
<1>4. SuccessIsRecorded' /\ LoadingIsPending'
  BY DEF SuccessIsRecorded, LoadingIsPending
<1> QED BY <1>1, <1>2, <1>3, <1>4, RequestsKept

(* A submission carries the form, which names a node.                      *)
LEMMA SubmitStep == ASSUME ModalInv, NEW p \in Submissions, Submit(p) PROVE ModalInv'
<1> USE DEF ModalInv, Submit
<1>1. CASE Refused
  <2> USE <1>1 DEF Refused
  <2>1. Flags'
    BY DEF Flags
  <2>2. DialogTypes'
    BY DEF DialogTypes
  <2>3. HostChosen' /\ DoesWhatItWasOpenedFor' /\ FormFollows'
    BY DEF HostChosen, DoesWhatItWasOpenedFor, FormFollows, FormOf
  <2>4. SuccessIsRecorded' /\ LoadingIsPending'
    BY DEF SuccessIsRecorded, LoadingIsPending
  <2> QED BY <2>1, <2>2, <2>3, <2>4, RequestsKept
<1>2. CASE Valid(form) /\ status' = "loading"
           /\ posts' = [posts EXCEPT ![p] =
                [pc |-> "sent", endpoint |-> IF editing # Nil THEN "update" ELSE "deploy",
                 data |-> form, of |-> IF touched THEN Nil ELSE editing]]
  <2> DEFINE r == [pc |-> "sent", endpoint |-> IF editing # Nil THEN "update" ELSE "deploy",
                   data |-> form, of |-> IF touched THEN Nil ELSE editing]
  <2>0. posts' = [posts EXCEPT ![p] = r]
    BY <1>2
  <2>1. form \in Edits /\ form # Nil
    BY <1>2, ValidForm DEF DialogTypes, HostChosen, CanSubmit
  <2>2. r \in Posts
    BY <2>1 DEF Posts, DialogTypes
  <2>3. r.pc = "sent" /\ r.data # Nil
    BY <2>1
  <2>10. Says(r)
    <3> SUFFICES ASSUME r.of # Nil PROVE Says(r)
      BY DEF Says
    <3>1. r.of = editing /\ r.endpoint = "update" /\ r.data = form /\ form = FormOf(editing)
      BY DEF FormFollows
    <3> QED BY <3>1, FormSays DEF Says
  <2> HIDE DEF r
  <2>4. Flags'
    BY DEF Flags
  <2>5. DialogTypes'
    BY <1>2 DEF DialogTypes
  <2>6. MasterTypes'
    BY <2>0, <2>2, <2>3 DEF MasterTypes
  <2>7. HostChosen' /\ DoesWhatItWasOpenedFor' /\ FormFollows'
    BY DEF HostChosen, DoesWhatItWasOpenedFor, FormFollows, FormOf
  <2>8. UntouchedUpdateIsFaithful' /\ AcceptedIsRecorded'
    <3>1. \A q \in Submissions : posts'[q] = r \/ posts'[q] = posts[q]
      BY <2>0 DEF MasterTypes
    <3>2. \A q \in Submissions : Says(posts'[q])
      BY <2>10, <3>1, Faithful
    <3>3. UntouchedUpdateIsFaithful'
      BY <3>2, Faithful DEF UntouchedUpdateIsFaithful, Says
    <3>4. AcceptedIsRecorded'
      BY <2>3, <3>1 DEF AcceptedIsRecorded
    <3> QED BY <3>3, <3>4
  <2>9. SuccessIsRecorded' /\ LoadingIsPending'
    BY <1>2, <2>0, <2>3 DEF MasterTypes, SuccessIsRecorded, LoadingIsPending
  <2> QED BY <2>4, <2>5, <2>6, <2>7, <2>8, <2>9
<1> QED BY <1>1, <1>2

(* An answer ends the loading; a success is about a container accepted.    *)
LEMMA AnsweredStep == ASSUME ModalInv, NEW p \in Submissions, Answered(p) PROVE ModalInv'
<1> USE DEF ModalInv, Answered
<1>1. posts' = [posts EXCEPT ![p] = NoPost]
  OBVIOUS
<1>2. posts[p].pc = "ok" => posts[p].data.id \in Ids
  BY ModalAssumption DEF MasterTypes, Posts, Edits
<1>3. Flags'
  BY DEF Flags
<1>4. DialogTypes'
  <2>1. timers' \in 0..MaxTimers
    BY ModalAssumption DEF DialogTypes
  <2>2. status' \in {"success", "error"} /\ deployed' \in Ids \union {Nil}
    BY <1>2
  <2> QED BY <2>1, <2>2 DEF DialogTypes
<1>5. MasterTypes'
  BY <1>1, FreshData DEF MasterTypes
<1>6. HostChosen' /\ DoesWhatItWasOpenedFor' /\ FormFollows'
  BY DEF HostChosen, DoesWhatItWasOpenedFor, FormFollows, FormOf
<1>7. UntouchedUpdateIsFaithful' /\ AcceptedIsRecorded'
  BY <1>1, FreshData DEF MasterTypes, UntouchedUpdateIsFaithful, AcceptedIsRecorded, FormOf
<1>8. SuccessIsRecorded' /\ LoadingIsPending'
  BY <1>2, ModalAssumption
  DEF DialogTypes, AcceptedIsRecorded, SuccessIsRecorded, LoadingIsPending
<1> QED BY <1>3, <1>4, <1>5, <1>6, <1>7, <1>8

(* A request the master has handled is still under way.                    *)
LEMMA ReplyStep ==
  ASSUME ModalInv, NEW p \in Submissions, NEW answer \in {"ok", "error"}, Reply(p, answer),
         posts[p].pc \in {"sent", "ok"},
         records' \in [Ids -> Records \union {Nil}],
         \A i \in Ids : records[i] # Nil => records'[i] # Nil,
         answer = "ok" => records'[posts[p].data.id] # Nil,
         UNCHANGED <<mounted, hosts, dialogVars>>
  PROVE  ModalInv'
<1> DEFINE r == [NoPost EXCEPT !.pc = answer, !.data = IF answer = "ok" THEN posts[p].data ELSE Nil]
<1>0. posts' = [posts EXCEPT ![p] = r]
  BY DEF Reply
<1>1. posts[p].data \in Edits /\ posts[p].data # Nil
  BY DEF ModalInv, MasterTypes, Posts
<1>2. r \in Posts /\ r.pc = answer /\ r.of = Nil
      /\ (answer = "ok" => r.data = posts[p].data)
  BY <1>1 DEF NoPost, Posts
<1> HIDE DEF r
<1> USE DEF ModalInv
<1>3. MasterTypes'
  BY <1>0, <1>1, <1>2 DEF MasterTypes
<1>4. UntouchedUpdateIsFaithful'
  BY <1>0, <1>2 DEF MasterTypes, UntouchedUpdateIsFaithful, FormOf
<1>5. AcceptedIsRecorded'
  <2> SUFFICES ASSUME NEW q \in Submissions, posts'[q].pc = "ok"
               PROVE  records'[posts'[q].data.id] # Nil
    BY DEF AcceptedIsRecorded
  <2>1. CASE q = p
    BY <1>0, <1>2, <2>1 DEF MasterTypes
  <2>2. CASE q # p
    <3>1. posts'[q] = posts[q] /\ posts[q].data.id \in Ids
      BY <1>0, <2>2, ModalAssumption DEF MasterTypes, Posts, Edits
    <3> QED BY <3>1 DEF AcceptedIsRecorded
  <2> QED BY <2>1, <2>2
<1>6. SuccessIsRecorded'
  BY DEF dialogVars, DialogTypes, SuccessIsRecorded
<1>7. LoadingIsPending'
  BY <1>0, <1>2 DEF dialogVars, MasterTypes, LoadingIsPending
<1> QED BY <1>3, <1>4, <1>5, <1>6, <1>7, DialogKept

(* The master accepts a request only with a record, and takes none away.   *)
LEMMA MasterStep ==
  ASSUME ModalInv, NEW p \in Submissions, HandleDeploy(p) \/ HandleUpdate(p) \/ LosePost(p)
  PROVE  ModalInv'
<1> USE ModalAssumption DEF ModalInv
<1>0. posts[p].pc \in {"sent", "ok"} =>
        posts[p].data.id \in Ids /\ posts[p].data.host \in Hosts /\ posts[p].data.spec \in Specs
  BY DEF MasterTypes, Posts, Edits
<1>1. CASE HandleDeploy(p)
  <2>1. PICK written \in BOOLEAN, answer \in {"ok", "error"} :
          /\ answer = "ok" => written
          /\ records' = IF written
                        THEN [records EXCEPT ![posts[p].data.id] =
                               [host |-> posts[p].data.host, spec |-> posts[p].data.spec]]
                        ELSE records
          /\ Reply(p, answer)
    BY <1>1 DEF HandleDeploy
  <2>2. [host |-> posts[p].data.host, spec |-> posts[p].data.spec] \in Records
    BY <1>0, <1>1 DEF HandleDeploy, Records
  <2>3. records' \in [Ids -> Records \union {Nil}]
        /\ (\A i \in Ids : records[i] # Nil => records'[i] # Nil)
        /\ (answer = "ok" => records'[posts[p].data.id] # Nil)
    BY <1>0, <1>1, <2>1, <2>2 DEF HandleDeploy, MasterTypes, Records
  <2> QED BY <1>1, <2>1, <2>3, ReplyStep DEF HandleDeploy
<1>2. CASE HandleUpdate(p)
  <2>1. CASE records[posts[p].data.id] = Nil
    <3>1. records' = records /\ Reply(p, "error")
      BY <1>2, <2>1 DEF HandleUpdate
    <3> QED BY <1>2, <3>1, ReplyStep DEF HandleUpdate, MasterTypes
  <2>2. CASE records[posts[p].data.id] # Nil
    <3> DEFINE i == posts[p].data.id
    <3>1. i \in Ids /\ records[i] \in Records
          /\ records' = [records EXCEPT ![i] = [@ EXCEPT !.spec = posts[p].data.spec]]
          /\ Reply(p, "ok")
      BY <1>0, <1>2, <2>2 DEF HandleUpdate, MasterTypes
    <3>2. [records[i] EXCEPT !.spec = posts[p].data.spec] \in Records
      BY <1>0, <1>2, <3>1 DEF HandleUpdate, Records
    <3>3. records' \in [Ids -> Records \union {Nil}]
          /\ (\A j \in Ids : records[j] # Nil => records'[j] # Nil)
          /\ records'[i] # Nil
      BY <3>1, <3>2 DEF MasterTypes, Records
    <3> QED BY <1>2, <3>1, <3>3, ReplyStep DEF HandleUpdate
  <2> QED BY <2>1, <2>2
<1>3. CASE LosePost(p)
  BY <1>3, ReplyStep DEF LosePost, MasterTypes
<1> QED BY <1>1, <1>2, <1>3

(* Other users do not take records away.                                   *)
LEMMA ElsewhereStep ==
  ASSUME ModalInv, NEW i \in Ids, NEW r \in Records, Elsewhere(i, r)
  PROVE  ModalInv'
<1> USE ModalAssumption DEF ModalInv, Elsewhere
<1>1. r # Nil
  BY DEF Records
<1>2. MasterTypes'
  BY DEF MasterTypes
<1>3. UntouchedUpdateIsFaithful' /\ LoadingIsPending'
  BY DEF UntouchedUpdateIsFaithful, LoadingIsPending, FormOf, dialogVars
<1>4. AcceptedIsRecorded'
  BY <1>1 DEF MasterTypes, Posts, Edits, AcceptedIsRecorded
<1>5. SuccessIsRecorded'
  BY <1>1 DEF MasterTypes, DialogTypes, SuccessIsRecorded, dialogVars
<1> QED BY <1>2, <1>3, <1>4, <1>5, DialogKept

(* Every step keeps the invariant.                                         *)
LEMMA ModalNextInv == ModalInv /\ [ModalNext]_modalVars => ModalInv'
<1> SUFFICES ASSUME ModalInv, [ModalNext]_modalVars PROVE ModalInv'
  OBVIOUS
<1>1. CASE MountDashboard \/ UnmountDashboard
  BY <1>1, Fresh DEF MountDashboard, UnmountDashboard
<1>2. CASE UserStep
  BY <1>2, ProvisionStep, CloseStep, TypeInStep, TryAgainStep, EditStep, SubmitStep DEF UserStep
<1>3. CASE Timer
  BY <1>3, TimerStep
<1>4. ASSUME NEW hs \in SUBSET Hosts, Poll(hs) PROVE ModalInv'
  BY <1>4, PollStep
<1>5. ASSUME NEW p \in Submissions, PostServed(p) PROVE ModalInv'
  BY <1>5, AnsweredStep, MasterStep DEF PostServed
<1>6. ASSUME NEW i \in Ids, NEW r \in Records, Elsewhere(i, r) PROVE ModalInv'
  BY <1>6, ElsewhereStep
<1>7. CASE UNCHANGED modalVars
  <2>1. UNCHANGED <<mounted, hosts, dialogVars>> /\ UNCHANGED <<posts, records>>
    BY <1>7 DEF modalVars, dialogVars
  <2>2. SuccessIsRecorded' /\ LoadingIsPending'
    BY <2>1 DEF ModalInv, SuccessIsRecorded, LoadingIsPending, dialogVars
  <2> QED BY <2>1, <2>2, DialogKept, RequestsKept DEF ModalInv
<1> QED BY <1>1, <1>2, <1>3, <1>4, <1>5, <1>6, <1>7 DEF ModalNext, ModalStep

LEMMA ModalInvariant == ModalSpec => []ModalInv
  BY ModalInitInv, ModalNextInv, PTL DEF ModalSpec

-----------------------------------------------------------------------------
(* The dialog's variables keep their types: in particular what is          *)
(* submitted always names a node and a valid container id.                 *)
THEOREM ModalTypeCorrect == ModalSpec => []ModalTypeOK
<1>1. ModalInv => ModalTypeOK
  BY DEF ModalInv, ModalTypeOK, Flags, DialogTypes, MasterTypes
<1> QED BY <1>1, ModalInvariant, PTL

(* The dialog updates if and only if a Settings button opened it.          *)
THEOREM OpenedForHolds == ModalSpec => []DoesWhatItWasOpenedFor
<1>1. ModalInv => DoesWhatItWasOpenedFor
  BY DEF ModalInv
<1> QED BY <1>1, ModalInvariant, PTL

(* An update nobody has typed in says what its record said, field by field,*)
(* but that fields the record left empty have become defaults.             *)
THEOREM UntouchedHolds == ModalSpec => []UntouchedUpdateIsFaithful
<1>1. ModalInv => UntouchedUpdateIsFaithful
  BY DEF ModalInv
<1> QED BY <1>1, ModalInvariant, PTL

(* A success is shown of a container that has a record, and will end.      *)
THEOREM SuccessHolds == ModalSpec => []SuccessIsRecorded
<1>1. ModalInv => SuccessIsRecorded
  BY DEF ModalInv
<1> QED BY <1>1, ModalInvariant, PTL

(* A dialog that loads has a request under way.                            *)
THEOREM LoadingHolds == ModalSpec => []LoadingIsPending
<1>1. ModalInv => LoadingIsPending
  BY DEF ModalInv
<1> QED BY <1>1, ModalInvariant, PTL
=============================================================================
