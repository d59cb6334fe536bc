----------------------------- MODULE FleetPages -----------------------------
(***************************************************************************)
(* The pages of the web dashboard that poll the master: the dashboard with *)
(* its node cards, the node list and the metrics page (src/web/src/app/    *)
(* page.tsx, nodes/page.tsx, metrics/page.tsx, components/NodeCard.tsx).   *)
(*                                                                         *)
(* A page fetches when it is mounted and every three seconds after, and    *)
(* never waits for the answer of the last fetch.  The dashboard asks for   *)
(* nodes and for containers in two requests, which the master answers at   *)
(* two moments, and shows the one and then the other.  What the master     *)
(* knows is a sequence of versions; FleetAt says what is in each.          *)
(***************************************************************************)
EXTENDS Naturals, FiniteSets

CONSTANTS
  Hosts, Containers,
  Fetches,      \* a bound: fetches of a page under way at once
  Posts,        \* a bound: start and stop requests under way at once
  LastVersion,  \* a bound: changes of the master's state
  FleetAt,      \* version -> nodes, those of them whose CPU load is zero,
                \* and a record or NoRecord for each container
  NoRecord, Waiting, NotOk

Versions == 1..LastVersion
Statuses == {"", "Pending", "Running", "Stopped", "Error", "Stop Failed"}
Records  == [host : Hosts, status : Statuses]
Fleets   == [nodes : SUBSET Hosts, unmeasured : SUBSET Hosts,
             containers : [Containers -> Records \union {NoRecord}]]
Blank    == [nodes |-> {}, unmeasured |-> {}, containers |-> [c \in Containers |-> NoRecord]]

ASSUME FleetAssumption ==
  /\ Hosts # {} /\ Containers # {}
  /\ LastVersion \in Nat \ {0}
  /\ FleetAt \in [Versions -> Fleets]
  /\ NoRecord \notin Records
  /\ Waiting \notin Nat /\ NotOk \notin Nat /\ Waiting # NotOk

VARIABLES
  version,  \* the master's state
  page,     \* the page mounted in the tab
  since,    \* the version when it was mounted (history)
  shown,    \* the versions in its state of nodes and of containers, 0 for {}
  loading,
  fetches,  \* per fetchData: pc and the two answers
  posts,    \* per start or stop: pc, what it asks
  healthy,  \* from now on requests are answered, with status 200 (history)
  failed    \* a fetch of this page has failed (history)

pageVars == <<page, since, shown, loading, failed>>
vars == <<version, page, since, shown, loading, fetches, posts, healthy, failed>>

Polling == {"dashboard", "nodes", "metrics"}

NoFetch == [pc |-> "idle", nodes |-> Waiting, containers |-> Waiting]
NoPost  == [pc |-> "idle", kind |-> "start", host |-> CHOOSE h \in Hosts : TRUE,
            container |-> CHOOSE c \in Containers : TRUE]

Content(v) == IF v = 0 THEN Blank ELSE FleetAt[v]

-----------------------------------------------------------------------------
(* What is rendered from the two states.                                   *)

Nodes(sh)        == Content(sh.nodes).nodes
RecordOf(sh, c)  == Content(sh.containers).containers[c]

(* The containers of a node card: those with its hostname. *)
Card(sh, h) == {c \in Containers : RecordOf(sh, c) # NoRecord /\ RecordOf(sh, c).host = h}

(* Mutant: Start is offered for whatever is not known to run. *)
BugButtons(status) ==
  IF status # "Running" THEN {"settings", "start"} ELSE {"shell", "settings", "stop"}

(* The buttons of a container: a "Stop Failed" one cannot be started. *)
Buttons(status) ==
  IF status = "Stopped" THEN {"settings", "start"} ELSE {"shell", "settings", "stop"}

(* The master's JSON omits a CPU load of zero, and undefined.toFixed(1)    *)
(* throws in a card or a row; nothing catches it, and the tab is lost.     *)
CardThrows(sh) == Content(sh.nodes).unmeasured \intersect Nodes(sh) # {}
RowThrows(sh)  == Content(sh.nodes).unmeasured \intersect Nodes(sh) # {}

(* The page is no longer mounted. *)
Gone(p) ==
  /\ page' = p
  /\ shown' = [nodes |-> 0, containers |-> 0]
  /\ loading' = TRUE
  /\ fetches' = [f \in Fetches |-> NoFetch]
  /\ posts' = [q \in Posts |-> NoPost]

(* A page renders the state sh; fetch f goes on as fe. *)
Render(sh, ld, f, fe) ==
  /\ shown' = sh
  /\ loading' = ld
  /\ fetches' = [fetches EXCEPT ![f] = fe]
  /\ UNCHANGED <<page, posts>>

(* The cards are not rendered while the dashboard is loading. *)
RenderDashboard(sh, ld, f, fe) ==
  IF ~ld /\ CardThrows(sh) THEN Gone("crashed") ELSE Render(sh, ld, f, fe)

RenderNodes(sh, ld, f, fe) ==
  IF RowThrows(sh) THEN Gone("crashed") ELSE Render(sh, ld, f, fe)

Init ==
  /\ version \in Versions
  /\ page = "other"
  /\ since = version
  /\ shown = [nodes |-> 0, containers |-> 0]
  /\ loading = TRUE
  /\ fetches = [f \in Fetches |-> NoFetch]
  /\ posts = [p \in Posts |-> NoPost]
  /\ healthy \in BOOLEAN
  /\ failed = FALSE

-----------------------------------------------------------------------------
(* fetchData, alike in the three pages up to the second request.           *)

Sent == [NoFetch EXCEPT !.pc = "sent"]

(* Mutant: what an earlier page asked for ends in the state of this one. *)
BugMount(p) ==
  /\ page # p
  /\ page' = p
  /\ since' = version
  /\ shown' = [nodes |-> 0, containers |-> 0]
  /\ loading' = TRUE
  /\ failed' = FALSE
  /\ \E f \in Fetches : fetches' = [fetches EXCEPT ![f] = Sent]
  /\ posts' = [q \in Posts |-> NoPost]
  /\ UNCHANGED <<version, healthy>>

(* Navigation, or reload of a tab that was lost: the page starts empty,    *)
(* its effect fetches, and what an earlier page asked for is nothing to it. *)
Mount(p) ==
  /\ page # p
  /\ page' = p
  /\ since' = version
  /\ shown' = [nodes |-> 0, containers |-> 0]
  /\ loading' = TRUE
  /\ failed' = FALSE
  /\ \E f \in Fetches : fetches' = [g \in Fetches |-> IF g = f THEN Sent ELSE NoFetch]
  /\ posts' = [q \in Posts |-> NoPost]
  /\ UNCHANGED <<version, healthy>>

MountDashboard == Mount("dashboard")
MountNodes     == Mount("nodes")
MountMetrics   == Mount("metrics")

Leave ==
  /\ page \in Polling
  /\ Gone("other")
  /\ failed' = FALSE
  /\ UNCHANGED <<version, since, healthy>>

(* Mutant: the page takes itself for loaded once it has asked. *)
BugPoll(f) ==
  /\ page \in Polling
  /\ fetches[f].pc = "idle"
  /\ fetches' = [fetches EXCEPT ![f] = Sent]
  /\ loading' = FALSE
  /\ UNCHANGED <<version, page, since, shown, posts, healthy, failed>>

(* The interval of three seconds is over, whatever is under way. *)
Poll(f) ==
  /\ page \in Polling
  /\ fetches[f].pc = "idle"
  /\ fetches' = [fetches EXCEPT ![f] = Sent]
  /\ UNCHANGED <<version, pageVars, posts, healthy>>

(* The Refresh button of the node list. *)
Refresh(f) ==
  /\ page = "nodes"
  /\ fetches[f].pc = "idle"
  /\ fetches' = [fetches EXCEPT ![f] = Sent]
  /\ loading' = TRUE
  /\ UNCHANGED <<version, page, since, shown, posts, healthy, failed>>

(* The master answers a request with what it knows by then. *)
Answers == {version} \union (IF healthy THEN {} ELSE {NotOk})

AnswerNodes(f) ==
  /\ fetches[f].pc = "sent" /\ fetches[f].nodes = Waiting
  /\ \E a \in Answers : fetches' = [fetches EXCEPT ![f].nodes = a]
  /\ UNCHANGED <<version, pageVars, posts, healthy>>

AnswerContainers(f) ==
  /\ page = "dashboard"
  /\ fetches[f].pc = "sent" /\ fetches[f].containers = Waiting
  /\ \E a \in Answers : fetches' = [fetches EXCEPT ![f].containers = a]
  /\ UNCHANGED <<version, pageVars, posts, healthy>>

(* Mutant: setLoading is not in a finally block. *)
BugReject(f) ==
  /\ ~healthy /\ page \in Polling
  /\ fetches[f].pc # "idle"
  /\ fetches' = [fetches EXCEPT ![f] = NoFetch]
  /\ failed' = TRUE
  /\ UNCHANGED <<version, page, since, shown, loading, posts, healthy>>

(* A request or a body fails: catch, and finally. *)
Reject(f) ==
  /\ ~healthy
  /\ fetches[f].pc # "idle"
  /\ CASE page = "dashboard" -> RenderDashboard(shown, FALSE, f, NoFetch)
       [] page = "nodes"     -> RenderNodes(shown, FALSE, f, NoFetch)
       [] page = "metrics"   -> Render(shown, loading, f, NoFetch)
  /\ failed' = TRUE
  /\ UNCHANGED <<version, since, healthy>>

(* Mutant: no look at nodesRes.ok. *)
BugSetNodes(f) ==
  /\ page = "dashboard"
  /\ fetches[f].pc = "sent" /\ Waiting \notin {fetches[f].nodes, fetches[f].containers}
  /\ RenderDashboard([shown EXCEPT !.nodes = fetches[f].nodes], loading, f,
                     [fetches[f] EXCEPT !.pc = "containers", !.nodes = Waiting])
  /\ UNCHANGED <<version, since, healthy, failed>>

(* The dashboard has both answers: first the nodes ...                     *)
SetNodes(f) ==
  /\ page = "dashboard"
  /\ fetches[f].pc = "sent" /\ Waiting \notin {fetches[f].nodes, fetches[f].containers}
  /\ LET fe == [fetches[f] EXCEPT !.pc = "containers", !.nodes = Waiting]
         n  == fetches[f].nodes
     IN  /\ RenderDashboard(IF n = NotOk THEN shown ELSE [shown EXCEPT !.nodes = n],
                            loading, f, fe)
         /\ failed' = (failed \/ n = NotOk)
  /\ UNCHANGED <<version, since, healthy>>

(* Mutant: only the first fetch of a page is taken. *)
BugSetContainers(f) ==
  /\ page = "dashboard"
  /\ fetches[f].pc = "containers"
  /\ RenderDashboard(IF shown.containers # 0 \/ fetches[f].containers = NotOk THEN shown
                     ELSE [shown EXCEPT !.containers = fetches[f].containers],
                     FALSE, f, NoFetch)
  /\ failed' = (failed \/ fetches[f].containers = NotOk)
  /\ UNCHANGED <<version, since, healthy>>

(* ... then the containers, once that body is read too, and finally.       *)
SetContainers(f) ==
  /\ page = "dashboard"
  /\ fetches[f].pc = "containers"
  /\ LET c == fetches[f].containers IN
       /\ RenderDashboard(IF c = NotOk THEN shown ELSE [shown EXCEPT !.containers = c],
                          FALSE, f, NoFetch)
       /\ failed' = (failed \/ c = NotOk)
  /\ UNCHANGED <<version, since, healthy>>

SetNodeList(f) ==
  /\ page = "nodes"
  /\ fetches[f].nodes # Waiting
  /\ LET n == fetches[f].nodes IN
       /\ RenderNodes(IF n = NotOk THEN shown ELSE [shown EXCEPT !.nodes = n],
                      FALSE, f, NoFetch)
       /\ failed' = (failed \/ n = NotOk)
  /\ UNCHANGED <<version, since, healthy>>

(* The sums of the metrics page are NaN where a card would throw. *)
SetMetrics(f) ==
  /\ page = "metrics"
  /\ fetches[f].nodes # Waiting
  /\ LET n == fetches[f].nodes IN
       /\ Render(IF n = NotOk THEN shown ELSE [shown EXCEPT !.nodes = n],
                 loading, f, NoFetch)
       /\ failed' = (failed \/ n = NotOk)
  /\ UNCHANGED <<version, since, healthy>>

-----------------------------------------------------------------------------
(* The buttons of a card.                                                  *)

Post(p, h, c, k) ==
  /\ page = "dashboard" /\ ~loading
  /\ posts[p].pc = "idle"
  /\ h \in Nodes(shown) /\ c \in Card(shown, h)
  /\ k \in Buttons(RecordOf(shown, c).status)
  /\ posts' = [posts EXCEPT ![p] =
       [pc |-> "sent", kind |-> k, host |-> h, container |-> c]]
  /\ UNCHANGED <<version, pageVars, fetches, healthy>>

handleStop(p, h, c)  == Post(p, h, c, "stop")
handleStart(p, h, c) == Post(p, h, c, "start")

(* The master changes something, or refuses: an answer is an answer. *)
HandlePost(p) ==
  /\ posts[p].pc = "sent"
  /\ version' \in {version, version + 1} \intersect Versions
  /\ posts' = [posts EXCEPT ![p].pc = "answered"]
  /\ UNCHANGED <<pageVars, fetches, healthy>>

LosePost(p) ==
  /\ ~healthy
  /\ posts[p].pc # "idle"
  /\ posts' = [posts EXCEPT ![p] = NoPost]
  /\ UNCHANGED <<version, pageVars, fetches, healthy>>

(* Then the page fetches again, at once. *)
PostReturns(p, f) ==
  /\ posts[p].pc = "answered"
  /\ fetches[f].pc = "idle"
  /\ fetches' = [fetches EXCEPT ![f] = Sent]
  /\ posts' = [posts EXCEPT ![p] = NoPost]
  /\ UNCHANGED <<version, pageVars, healthy>>

-----------------------------------------------------------------------------
(* Agents, and other users of the master. *)
VersionChanges ==
  /\ version < LastVersion
  /\ version' = version + 1
  /\ UNCHANGED <<pageVars, fetches, posts, healthy>>

NetworkHeals ==
  /\ ~healthy
  /\ healthy' = TRUE
  /\ UNCHANGED <<version, pageVars, fetches, posts>>

Progress(f) ==
  \/ AnswerNodes(f) \/ AnswerContainers(f) \/ Reject(f)
  \/ SetNodes(f) \/ SetContainers(f) \/ SetNodeList(f) \/ SetMetrics(f)

Finish(p) == HandlePost(p) \/ LosePost(p) \/ \E f \in Fetches : PostReturns(p, f)

Next ==
  \/ MountDashboard \/ MountNodes \/ MountMetrics \/ Leave
  \/ \E f \in Fetches : Poll(f) \/ Refresh(f) \/ Progress(f)
  \/ \E p \in Posts, h \in Hosts, c \in Containers :
       handleStop(p, h, c) \/ handleStart(p, h, c)
  \/ \E p \in Posts : Finish(p)
  \/ VersionChanges \/ NetworkHeals

Spec == Init /\ [][Next]_vars

(* The interval fires, and a request ends, one way or the other.  Users    *)
(* need not do anything, and the network need not heal.                    *)
Fairness ==
  /\ WF_vars(\E f \in Fetches : Poll(f))
  /\ \A f \in Fetches : WF_vars(Progress(f))

FairSpec == Spec /\ Fairness

-----------------------------------------------------------------------------
(* Properties                                                              *)

Answer == Versions \union {Waiting, NotOk}

TypeOK ==
  /\ version \in Versions
  /\ page \in Polling \union {"other", "crashed"}
  /\ since \in Versions
  /\ shown \in [nodes : 0..LastVersion, containers : 0..LastVersion]
  /\ loading \in BOOLEAN
  /\ fetches \in [Fetches -> [pc : {"idle", "sent", "containers"},
                              nodes : Answer, containers : Answer]]
  /\ posts \in [Posts -> [pc : {"idle", "sent", "answered"}, kind : {"start", "stop"},
                          host : Hosts, container : Containers]]
  /\ healthy \in BOOLEAN
  /\ failed \in BOOLEAN

(* "No Active Nodes Found" is said of nodes the master has answered about, *)
(* never of a page that has not heard from it, unless a fetch has failed:  *)
(* overlapping fetches do not end the loading before there is an answer.   *)
NothingSaidTooSoon ==
  page \in {"dashboard", "nodes"} /\ ~loading => shown.nodes # 0 \/ failed

(* A start or stop is asked only of a container that was on that host, and *)
(* was stopped (was not, for stop), at some time since the page was opened *)
(* -- not when it is handled, nor when it is clicked.                      *)
ActsOnWhatWas ==
  \A p \in Posts : posts[p].pc # "idle" =>
    \E v \in since..version :
      LET r == FleetAt[v].containers[posts[p].container] IN
        /\ r # NoRecord
        /\ r.host = posts[p].host
        /\ (posts[p].kind = "start") <=> (r.status = "Stopped")

(* The nodes, and the containers, a page shows are each an image of what   *)
(* the master knew while the page was open; nothing that an earlier page   *)
(* had asked for is ever shown.                                            *)
NodesMirror == INSTANCE Mirror WITH
  source <- version, floor <- since, image <- shown.nodes
ContainersMirror == INSTANCE Mirror WITH
  source <- version, floor <- since, image <- shown.containers

MirrorsMaster == NodesMirror!Spec /\ ContainersMirror!Spec

(* No page spins for ever. *)
LoadingEnds ==
  \A p \in {"dashboard", "nodes"} : page = p /\ loading ~> page # p \/ ~loading

(* On a network that works, a page that stays open and does not crash ends *)
(* up showing the nodes and the containers of the master's last version,   *)
(* whatever overlapped or was late: versions are bounded, so they stop.    *)
ViewConverges ==
  \A p \in Polling :
    <>[](healthy /\ page = p) =>
      <>[](shown.nodes = version /\ (p = "dashboard" => shown.containers = version))

=============================================================================
