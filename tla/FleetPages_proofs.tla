-------------------------- MODULE FleetPages_proofs --------------------------
(***************************************************************************)
(* Proofs about FleetPages, for any fleets, versions, and fetches and      *)
(* posts under way at once.  The argument: whatever a fetch of a page has  *)
(* been given is an image taken while the page was open (Fresh), which is  *)
(* so because a page that is left takes its fetches with it (Quiet); and   *)
(* the containers are shown after the nodes (Ordered).                     *)
(***************************************************************************)
EXTENDS FleetPages, TLAPS

FetchStates == [pc : {"idle", "sent", "containers"}, nodes : Answer, containers : Answer]
PostStates  == [pc : {"idle", "sent", "answered"}, kind : {"start", "stop"},
                host : Hosts, container : Containers]
Views       == [nodes : 0..LastVersion, containers : 0..LastVersion]
Empty       == [nodes |-> 0, containers |-> 0]

Seen(v) == v \in since..version

FreshFetch(fe) ==
  /\ fe.nodes \notin {Waiting, NotOk} => Seen(fe.nodes)
  /\ fe.containers \notin {Waiting, NotOk} => Seen(fe.containers)

Fresh ==
  /\ since <= version
  /\ shown.nodes # 0 => Seen(shown.nodes)
  /\ shown.containers # 0 => Seen(shown.containers)
  /\ \A f \in Fetches : FreshFetch(fetches[f])

Quiet ==
  page \notin Polling => /\ \A f \in Fetches : fetches[f].pc = "idle"
                        /\ \A p \in Posts : posts[p].pc = "idle"

Ordered ==
  \A f \in Fetches : fetches[f].pc = "containers" =>
    /\ page = "dashboard"
    /\ fetches[f].containers # Waiting
    /\ shown.nodes # 0 \/ failed

WasThere(po) ==
  po.pc # "idle" =>
    \E v \in since..version :
      LET r == FleetAt[v].containers[po.container] IN
        /\ r # NoRecord
        /\ r.host = po.host
        /\ (po.kind = "start") <=> (r.status = "Stopped")

IInv == /\ TypeOK /\ Fresh /\ Quiet /\ Ordered
        /\ NothingSaidTooSoon /\ ActsOnWhatWas

-----------------------------------------------------------------------------
(* The records that stand for nothing under way. *)
LEMMA Nothing ==
  /\ NoFetch \in FetchStates /\ Sent \in FetchStates
  /\ FreshFetch(NoFetch) /\ FreshFetch(Sent)
  /\ NoFetch.pc = "idle" /\ Sent.pc = "sent"
  /\ NoPost \in PostStates /\ NoPost.pc = "idle"
  /\ Empty \in Views
<1>1. NoPost \in PostStates
  BY FleetAssumption DEF NoPost, PostStates
<1>2. Empty \in Views
  BY FleetAssumption DEF Empty, Views
<1> QED BY <1>1, <1>2 DEF NoFetch, Sent, FetchStates, FreshFetch, Answer, NoPost

(* An answer is a version, or says that there is none. *)
LEMMA Numbers ==
  /\ LastVersion \in Nat \ {0} /\ Versions \subseteq Nat /\ 0 \notin Versions
  /\ Waiting \notin Nat /\ NotOk \notin Nat /\ Waiting # NotOk
  BY FleetAssumption DEF Versions

(* What a post is about is a matter of its record only. *)
LEMMA ActsByPost == ActsOnWhatWas <=> \A p \in Posts : WasThere(posts[p])
  BY DEF ActsOnWhatWas, WasThere

(* The types, with the sets named. *)
LEMMA Types ==
  TypeOK <=>
    /\ version \in Versions /\ since \in Versions
    /\ page \in Polling \union {"other", "crashed"}
    /\ shown \in Views
    /\ loading \in BOOLEAN /\ healthy \in BOOLEAN /\ failed \in BOOLEAN
    /\ fetches \in [Fetches -> FetchStates]
    /\ posts \in [Posts -> PostStates]
  BY DEF TypeOK, Views, FetchStates, PostStates

(* Initially no page is mounted, and nothing is under way.                 *)
LEMMA InitIInv == Init => IInv
<1> SUFFICES ASSUME Init PROVE IInv
  OBVIOUS
<1> USE DEF Init
<1>1. TypeOK
  <2>1. fetches \in [Fetches -> FetchStates] /\ posts \in [Posts -> PostStates] /\ shown \in Views
    BY Nothing DEF Empty
  <2> QED BY <2>1, Types
<1>2. Fresh /\ Quiet /\ Ordered
  BY Nothing, Numbers DEF Fresh, Quiet, Ordered
<1>3. NothingSaidTooSoon /\ ActsOnWhatWas
  BY Nothing, ActsByPost DEF NothingSaidTooSoon, WasThere
<1> QED BY <1>1, <1>2, <1>3 DEF IInv

-----------------------------------------------------------------------------
(* Steps.                                                                  *)

(* A page that is opened has nothing but a fetch under way.                *)
LEMMA MountStep == ASSUME IInv, NEW p \in Polling, Mount(p) PROVE IInv'
<1>1. PICK f \in Fetches : fetches' = [g \in Fetches |-> IF g = f THEN Sent ELSE NoFetch]
  BY DEF Mount
<1>2. /\ page' = p /\ since' = version /\ version' = version /\ healthy' = healthy
      /\ shown' = Empty /\ loading' = TRUE /\ failed' = FALSE
      /\ posts' = [q \in Posts |-> NoPost]
  BY DEF Mount, Empty
<1>3. TypeOK'
  <2>1. fetches' \in [Fetches -> FetchStates] /\ posts' \in [Posts -> PostStates]
    BY <1>1, <1>2, Nothing
  <2> QED BY <1>2, <2>1, Nothing, Types DEF IInv, TypeOK, Views, FetchStates, PostStates, Answer
<1>4. Fresh'
  <2>1. \A g \in Fetches : fetches'[g] = Sent \/ fetches'[g] = NoFetch
    BY <1>1
  <2>2. version' \in Nat /\ since' = version'
    BY <1>2, Numbers DEF IInv, TypeOK
  <2> QED BY <1>2, <2>1, <2>2 DEF Fresh, FreshFetch, NoFetch, Sent, Empty
<1>5. Quiet' /\ Ordered'
  BY <1>1, <1>2, Nothing DEF Quiet, Ordered
<1>6. NothingSaidTooSoon' /\ ActsOnWhatWas'
  BY <1>2, Nothing DEF NothingSaidTooSoon, ActsOnWhatWas
<1> QED BY <1>3, <1>4, <1>5, <1>6 DEF IInv

(* A page that is left, or lost, has nothing under way.                    *)
LEMMA GoneStep ==
  ASSUME IInv, NEW p \in {"other", "crashed"}, Gone(p), failed' \in BOOLEAN,
         UNCHANGED <<version, since, healthy>>
  PROVE  IInv'
<1>1. /\ page' = p /\ shown' = Empty /\ loading' = TRUE
      /\ fetches' = [f \in Fetches |-> NoFetch] /\ posts' = [q \in Posts |-> NoPost]
  BY DEF Gone, Empty
<1>2. TypeOK'
  <2>1. fetches' \in [Fetches -> FetchStates] /\ posts' \in [Posts -> PostStates]
    BY <1>1, Nothing
  <2> QED BY <1>1, <2>1, Nothing DEF IInv, TypeOK, Views, FetchStates, PostStates, Answer
<1>3. Fresh'
  BY <1>1 DEF IInv, Fresh, FreshFetch, NoFetch, Empty
<1>4. Quiet' /\ Ordered'
  BY <1>1, Nothing DEF Quiet, Ordered
<1>5. NothingSaidTooSoon' /\ ActsOnWhatWas'
  BY <1>1, Nothing DEF NothingSaidTooSoon, ActsOnWhatWas
<1> QED BY <1>2, <1>3, <1>4, <1>5 DEF IInv

(* What a page renders: something seen, and what it showed before.         *)
LEMMA RenderStep ==
  ASSUME IInv, page \in Polling, NEW f \in Fetches, NEW sh \in Views, NEW ld \in BOOLEAN,
         NEW fe \in FetchStates,
         Gone("crashed") \/ Render(sh, ld, f, fe),
         UNCHANGED <<version, since, healthy>>, failed' \in BOOLEAN, failed => failed',
         sh.nodes = shown.nodes \/ Seen(sh.nodes),
         sh.containers = shown.containers \/ Seen(sh.containers),
         FreshFetch(fe),
         fe.pc = "containers" => /\ page = "dashboard" /\ fe.containers # Waiting
                                 /\ sh.nodes # 0 \/ failed',
         page \in {"dashboard", "nodes"} /\ ~ld => sh.nodes # 0 \/ failed'
  PROVE  IInv'
<1>1. CASE Gone("crashed")
  BY <1>1, GoneStep
<1>2. CASE Render(sh, ld, f, fe)
  <2>1. /\ shown' = sh /\ loading' = ld /\ fetches' = [fetches EXCEPT ![f] = fe]
        /\ page' = page /\ posts' = posts
    BY <1>2 DEF Render
  <2>2. fetches \in [Fetches -> FetchStates]
    BY DEF IInv, TypeOK, FetchStates
  <2>3. fetches' \in [Fetches -> FetchStates] /\ fetches'[f] = fe
        /\ \A g \in Fetches : g # f => fetches'[g] = fetches[g]
    BY <2>1, <2>2
  <2>4. TypeOK'
    BY <2>1, <2>3 DEF IInv, TypeOK, Views, FetchStates, PostStates
  <2>5. sh.nodes = 0 => shown.nodes = 0
    BY Numbers DEF Seen, IInv, TypeOK
  <2>6. Fresh'
    BY <2>1, <2>3 DEF IInv, Fresh, FreshFetch, Seen
  <2>7. Quiet' /\ Ordered'
    BY <2>1, <2>3, <2>5 DEF IInv, Quiet, Ordered
  <2>8. NothingSaidTooSoon' /\ ActsOnWhatWas'
    BY <2>1 DEF IInv, NothingSaidTooSoon, ActsOnWhatWas
  <2> QED BY <2>4, <2>6, <2>7, <2>8 DEF IInv
<1> QED BY <1>1, <1>2
(* A fetch that is sent, or answered, changes nothing that is shown.       *)
LEMMA FetchStep ==
  ASSUME IInv, page \in Polling, NEW f \in Fetches, NEW fe \in FetchStates,
         fetches' = [fetches EXCEPT ![f] = fe],
         UNCHANGED <<version, page, since, shown, failed, healthy>>,
         loading' \in BOOLEAN, loading => loading',
         posts' \in [Posts -> PostStates],
         \A p \in Posts : posts'[p] = posts[p] \/ posts'[p].pc = "idle",
         FreshFetch(fe), fe.pc = "sent"
  PROVE  IInv'
<1>1. fetches \in [Fetches -> FetchStates]
  BY DEF IInv, TypeOK, FetchStates
<1>2. fetches' \in [Fetches -> FetchStates] /\ fetches'[f] = fe
      /\ \A g \in Fetches : g # f => fetches'[g] = fetches[g]
  BY <1>1
<1>3. TypeOK'
  BY <1>2 DEF IInv, TypeOK, FetchStates, PostStates
<1>4. Fresh'
  BY <1>2 DEF IInv, Fresh, FreshFetch, Seen
<1>5. Quiet' /\ Ordered'
  BY <1>2 DEF IInv, Quiet, Ordered
<1>6. NothingSaidTooSoon' /\ ActsOnWhatWas'
  BY DEF IInv, NothingSaidTooSoon, ActsOnWhatWas
<1> QED BY <1>3, <1>4, <1>5, <1>6 DEF IInv

(* The master changes, or a post goes on, or the network heals.            *)
LEMMA WorldStep ==
  ASSUME IInv, version' \in {version, version + 1} \intersect Versions, healthy' \in BOOLEAN,
         UNCHANGED <<pageVars, fetches>>,
         posts' \in [Posts -> PostStates],
         \A p \in Posts : posts'[p].pc = "idle" \/ WasThere(posts'[p]),
         page \notin Polling => \A p \in Posts : posts'[p].pc = "idle"
  PROVE  IInv'
<1> USE DEF pageVars
<1>1. version \in Nat /\ since \in Nat /\ version' \in Nat /\ version <= version'
  BY Numbers DEF IInv, TypeOK
<1>2. since..version \subseteq since..version'
  BY <1>1
<1>3. TypeOK'
  BY DEF IInv, TypeOK, PostStates
<1>4. Fresh'
  BY <1>1, <1>2 DEF IInv, Fresh, FreshFetch, Seen
<1>5. Quiet' /\ Ordered' /\ NothingSaidTooSoon'
  BY DEF IInv, Quiet, Ordered, NothingSaidTooSoon
<1>6. ActsOnWhatWas'
  BY <1>2 DEF ActsOnWhatWas, WasThere
<1> QED BY <1>3, <1>4, <1>5, <1>6 DEF IInv

(* A button is that of a container which was on that host, in that status. *)
LEMMA PostStep ==
  ASSUME IInv, NEW p \in Posts, NEW h \in Hosts, NEW c \in Containers,
         NEW k \in {"start", "stop"}, Post(p, h, c, k)
  PROVE  IInv'
<1> DEFINE po == [pc |-> "sent", kind |-> k, host |-> h, container |-> c]
           v  == shown.containers
<1>1. /\ posts' = [posts EXCEPT ![p] = po] /\ UNCHANGED <<version, pageVars, fetches, healthy>>
      /\ c \in Card(shown, h) /\ k \in Buttons(RecordOf(shown, c).status)
  BY DEF Post
<1>2. po \in PostStates
  BY DEF PostStates
<1>3. v # 0
  BY <1>1 DEF Card, RecordOf, Content, Blank
<1>4. v \in since..version
  BY <1>3 DEF IInv, Fresh, Seen
<1>5. FleetAt[v].containers[c] = RecordOf(shown, c)
  BY <1>3 DEF RecordOf, Content
<1>6. WasThere(po)
  <2> DEFINE r == FleetAt[v].containers[c]
  <2>1. r # NoRecord /\ r.host = h
    BY <1>1, <1>5 DEF Card
  <2>2. (k = "start") <=> (r.status = "Stopped")
    BY <1>1, <1>5 DEF Buttons
  <2> QED BY <1>4, <2>1, <2>2 DEF WasThere
<1>7. \A q \in Posts : WasThere(posts[q])
  BY ActsByPost DEF IInv
<1>8. posts \in [Posts -> PostStates] /\ version \in Versions /\ healthy \in BOOLEAN
  BY DEF IInv, TypeOK, PostStates
<1> HIDE DEF po, v
<1>9. posts' \in [Posts -> PostStates] /\ \A q \in Posts : WasThere(posts'[q])
  BY <1>1, <1>2, <1>6, <1>7, <1>8
<1> QED BY <1>1, <1>8, <1>9, WorldStep DEF Post, Polling

(* A post that is answered, or done with, is still about what was there.   *)
LEMMA FinishStep ==
  ASSUME IInv, NEW p \in Posts, NEW po \in PostStates, posts' = [posts EXCEPT ![p] = po],
         version' \in {version, version + 1} \intersect Versions, healthy' \in BOOLEAN,
         UNCHANGED <<pageVars, fetches>>,
         po.pc = "idle" \/ WasThere(po), page \in Polling
  PROVE  IInv'
<1>1. posts \in [Posts -> PostStates] /\ \A q \in Posts : WasThere(posts[q])
  BY ActsByPost DEF IInv, TypeOK, PostStates
<1>2. posts' \in [Posts -> PostStates]
      /\ \A q \in Posts : posts'[q].pc = "idle" \/ WasThere(posts'[q])
  BY <1>1
<1> QED BY <1>2, WorldStep

(* Every step of a fetch keeps the invariant.                              *)
LEMMA ProgressStep == ASSUME IInv, NEW f \in Fetches, Progress(f) PROVE IInv'
<1> DEFINE fe == fetches[f]
<1>1. fe \in FetchStates /\ FreshFetch(fe) /\ shown \in Views /\ loading \in BOOLEAN
      /\ failed \in BOOLEAN /\ NotOk \in Answer /\ Waiting \in Answer /\ version \in Answer
      /\ version \in Nat
  BY Types, Numbers DEF IInv, Fresh, Answer
<1>2. fe.pc # "idle" => page \in Polling
  BY DEF IInv, Quiet
<1>3. fe.pc = "containers" => fe.containers # Waiting /\ (shown.nodes # 0 \/ failed)
  BY DEF IInv, Ordered
<1>4. \A n : n \in Answer /\ n \notin {Waiting, NotOk} => n \in Versions
  BY DEF Answer
<1>5. Seen(version)
  BY <1>1, Numbers DEF Seen, IInv, Fresh, TypeOK
<1> HIDE DEF fe
<1>6. CASE AnswerNodes(f)
  <2>1. PICK a \in Answers : fetches' = [fetches EXCEPT ![f] = [fe EXCEPT !.nodes = a]]
    BY <1>6 DEF AnswerNodes, fe
  <2>2. a \in Answer /\ (a = version \/ a = NotOk)
    BY <1>1 DEF Answers
  <2>3. [fe EXCEPT !.nodes = a] \in FetchStates
    BY <1>1, <2>2 DEF FetchStates
  <2>4. FreshFetch([fe EXCEPT !.nodes = a]) /\ [fe EXCEPT !.nodes = a].pc = "sent"
    BY <1>1, <1>5, <1>6, <2>2 DEF FreshFetch, FetchStates, AnswerNodes, fe
  <2>5. page \in Polling /\ posts \in [Posts -> PostStates]
        /\ UNCHANGED <<version, page, since, shown, failed, healthy, loading, posts>>
    BY <1>2, <1>6, Types DEF AnswerNodes, pageVars, fe, IInv
  <2> QED BY <1>1, <2>1, <2>3, <2>4, <2>5, FetchStep
<1>7. CASE AnswerContainers(f)
  <2>1. PICK a \in Answers : fetches' = [fetches EXCEPT ![f] = [fe EXCEPT !.containers = a]]
    BY <1>7 DEF AnswerContainers, fe
  <2>2. a \in Answer /\ (a = version \/ a = NotOk)
    BY <1>1 DEF Answers
  <2>3. [fe EXCEPT !.containers = a] \in FetchStates
    BY <1>1, <2>2 DEF FetchStates
  <2>4. FreshFetch([fe EXCEPT !.containers = a]) /\ [fe EXCEPT !.containers = a].pc = "sent"
    BY <1>1, <1>5, <1>7, <2>2 DEF FreshFetch, FetchStates, AnswerContainers, fe
  <2>5. page \in Polling /\ posts \in [Posts -> PostStates]
        /\ UNCHANGED <<version, page, since, shown, failed, healthy, loading, posts>>
    BY <1>2, <1>7, Types DEF AnswerContainers, pageVars, fe, IInv
  <2> QED BY <1>1, <2>1, <2>3, <2>4, <2>5, FetchStep
<1>8. CASE Reject(f)
  <2>1. page \in Polling
    BY <1>2, <1>8 DEF Reject, fe
  <2>2. \E ld \in BOOLEAN : Gone("crashed") \/ Render(shown, ld, f, NoFetch)
    BY <1>1, <1>8, <2>1 DEF Reject, RenderDashboard, RenderNodes, Polling
  <2>3. failed' = TRUE /\ UNCHANGED <<version, since, healthy>>
    BY <1>8 DEF Reject
  <2> QED BY <1>1, <2>1, <2>2, <2>3, Nothing, RenderStep
<1>9. CASE SetNodes(f)
  <2> DEFINE n  == fe.nodes
             go == [fe EXCEPT !.pc = "containers", !.nodes = Waiting]
             sh == IF n = NotOk THEN shown ELSE [shown EXCEPT !.nodes = n]
  <2>1. /\ page = "dashboard" /\ n # Waiting /\ fe.containers # Waiting
        /\ failed' = (failed \/ n = NotOk) /\ UNCHANGED <<version, since, healthy>>
        /\ RenderDashboard(sh, loading, f, go)
    BY <1>9 DEF SetNodes, fe
  <2>2. go \in FetchStates /\ FreshFetch(go) /\ go.pc = "containers"
        /\ go.containers = fe.containers
    BY <1>1 DEF FetchStates, FreshFetch
  <2>3. n # NotOk => n \in Versions /\ Seen(n)
    BY <1>1, <1>4, <2>1 DEF FetchStates, FreshFetch
  <2>4. sh \in Views /\ sh.containers = shown.containers
        /\ IF n = NotOk THEN sh.nodes = shown.nodes ELSE sh.nodes = n
    BY <1>1, <2>3, Numbers DEF Views, Versions
  <2>5. sh.nodes # 0 \/ failed'
    BY <2>1, <2>3, <2>4, Numbers
  <2>6. Gone("crashed") \/ Render(sh, loading, f, go)
    BY <2>1 DEF RenderDashboard
  <2> HIDE DEF n, go, sh
  <2> QED BY <1>1, <2>1, <2>2, <2>3, <2>4, <2>5, <2>6, RenderStep DEF Polling
<1>10. CASE SetContainers(f)
  <2> DEFINE c  == fe.containers
             sh == IF c = NotOk THEN shown ELSE [shown EXCEPT !.containers = c]
  <2>1. /\ page = "dashboard" /\ fe.pc = "containers"
        /\ failed' = (failed \/ c = NotOk) /\ UNCHANGED <<version, since, healthy>>
        /\ RenderDashboard(sh, FALSE, f, NoFetch)
    BY <1>10 DEF SetContainers, fe
  <2>2. c # NotOk => c \in Versions /\ Seen(c)
    BY <1>1, <1>3, <1>4, <2>1 DEF FetchStates, FreshFetch
  <2>3. sh \in Views /\ sh.nodes = shown.nodes
        /\ IF c = NotOk THEN sh.containers = shown.containers ELSE sh.containers = c
    BY <1>1, <2>2, Numbers DEF Views, Versions
  <2>4. Gone("crashed") \/ Render(sh, FALSE, f, NoFetch)
    BY <2>1 DEF RenderDashboard
  <2> HIDE DEF c, sh
  <2> QED BY <1>1, <1>3, <2>1, <2>2, <2>3, <2>4, Nothing, RenderStep DEF Polling
<1>11. CASE SetNodeList(f) \/ SetMetrics(f)
  <2> DEFINE n  == fe.nodes
             sh == IF n = NotOk THEN shown ELSE [shown EXCEPT !.nodes = n]
  <2>1. /\ page \in {"nodes", "metrics"} /\ n # Waiting
        /\ failed' = (failed \/ n = NotOk) /\ UNCHANGED <<version, since, healthy>>
    BY <1>11 DEF SetNodeList, SetMetrics, fe
  <2>2. \/ Gone("crashed")
        \/ page = "nodes" /\ Render(sh, FALSE, f, NoFetch)
        \/ page = "metrics" /\ Render(sh, loading, f, NoFetch)
    BY <1>11 DEF SetNodeList, SetMetrics, RenderNodes, fe
  <2>3. n # NotOk => n \in Versions /\ Seen(n)
    BY <1>1, <1>4, <2>1 DEF FetchStates, FreshFetch
  <2>4. sh \in Views /\ sh.containers = shown.containers
        /\ IF n = NotOk THEN sh.nodes = shown.nodes ELSE sh.nodes = n
    BY <1>1, <2>3, Numbers DEF Views, Versions
  <2>5. sh.nodes # 0 \/ failed'
    BY <2>1, <2>3, <2>4, Numbers
  <2> HIDE DEF n, sh
  <2> QED BY <1>1, <2>1, <2>2, <2>3, <2>4, <2>5, Nothing, RenderStep DEF Polling
<1> QED BY <1>6, <1>7, <1>8, <1>9, <1>10, <1>11 DEF Progress
(* So does every other step.                                               *)
LEMMA NextIInv == IInv /\ [Next]_vars => IInv'
<1> SUFFICES ASSUME IInv, [Next]_vars PROVE IInv'
  OBVIOUS
<1>0. version \in Versions /\ healthy \in BOOLEAN /\ posts \in [Posts -> PostStates]
  BY Types DEF IInv
<1>1. CASE MountDashboard \/ MountNodes \/ MountMetrics
  BY <1>1, MountStep DEF MountDashboard, MountNodes, MountMetrics, Polling
<1>2. CASE Leave
  BY <1>2, GoneStep DEF Leave
<1>3. ASSUME NEW f \in Fetches, Poll(f) \/ Refresh(f) PROVE IInv'
  <2>1. page \in Polling /\ fetches' = [fetches EXCEPT ![f] = Sent] /\ loading' \in BOOLEAN
        /\ (loading => loading') /\ UNCHANGED <<version, page, since, shown, failed, healthy, posts>>
    BY <1>3, Types DEF Poll, Refresh, pageVars, Polling, IInv
  <2> QED BY <1>0, <2>1, Nothing, FetchStep
<1>4. ASSUME NEW f \in Fetches, Progress(f) PROVE IInv'
  BY <1>4, ProgressStep
<1>5. ASSUME NEW p \in Posts, NEW h \in Hosts, NEW c \in Containers,
             handleStop(p, h, c) \/ handleStart(p, h, c)
      PROVE  IInv'
  BY <1>5, PostStep DEF handleStop, handleStart
<1>6. ASSUME NEW p \in Posts, Finish(p) PROVE IInv'
  <2>0. posts[p] \in PostStates /\ WasThere(posts[p]) /\ (posts[p].pc # "idle" => page \in Polling)
    BY <1>0, ActsByPost DEF IInv, Quiet
  <2>1. CASE HandlePost(p)
    <3> DEFINE po == [posts[p] EXCEPT !.pc = "answered"]
    <3>1. posts[p].pc = "sent" /\ posts' = [posts EXCEPT ![p] = po]
          /\ version' \in {version, version + 1} \intersect Versions
          /\ UNCHANGED <<pageVars, fetches, healthy>>
      BY <2>1 DEF HandlePost
    <3>2. po \in PostStates /\ WasThere(po)
      BY <2>0, <3>1 DEF PostStates, WasThere
    <3> HIDE DEF po
    <3> QED BY <1>0, <2>0, <3>1, <3>2, FinishStep
  <2>2. CASE LosePost(p)
    BY <1>0, <2>0, <2>2, Nothing, FinishStep DEF LosePost
  <2>3. CASE \E f \in Fetches : PostReturns(p, f)
    <3>1. PICK f \in Fetches : PostReturns(p, f)
      BY <2>3
    <3>2. /\ posts' = [posts EXCEPT ![p] = NoPost] /\ posts[p].pc # "idle"
          /\ fetches' = [fetches EXCEPT ![f] = Sent]
          /\ UNCHANGED <<version, page, since, shown, failed, healthy, loading>>
      BY <3>1 DEF PostReturns, pageVars
    <3>3. posts' \in [Posts -> PostStates]
          /\ \A q \in Posts : posts'[q] = posts[q] \/ posts'[q].pc = "idle"
      BY <1>0, <3>2, Nothing
    <3>4. loading' \in BOOLEAN /\ (loading => loading')
      BY <3>2, Types DEF IInv
    <3>5. CASE page \in Polling
      BY <3>2, <3>3, <3>4, <3>5, Nothing, FetchStep
    <3>6. CASE page \notin Polling
      BY <3>2, <3>6 DEF IInv, Quiet
    <3> QED BY <3>5, <3>6
  <2> QED BY <1>6, <2>1, <2>2, <2>3 DEF Finish
<1>7. CASE VersionChanges \/ NetworkHeals
  <2>1. healthy' \in BOOLEAN /\ UNCHANGED <<pageVars, fetches, posts>>
    BY <1>0, <1>7 DEF VersionChanges, NetworkHeals
  <2>4. version' \in {version, version + 1} \intersect Versions
    BY <1>0, <1>7, FleetAssumption DEF VersionChanges, NetworkHeals, Versions
  <2>2. \A p \in Posts : WasThere(posts[p])
    BY ActsByPost DEF IInv
  <2>3. page \notin Polling => \A p \in Posts : posts[p].pc = "idle"
    BY DEF IInv, Quiet
  <2> QED BY <1>0, <2>1, <2>2, <2>3, <2>4, WorldStep
<1>8. CASE UNCHANGED vars
  BY <1>8
  DEF vars, IInv, TypeOK, Fresh, FreshFetch, Seen, Quiet, Ordered, NothingSaidTooSoon, ActsOnWhatWas
<1> QED BY <1>1, <1>2, <1>3, <1>4, <1>5, <1>6, <1>7, <1>8 DEF Next

(* The invariant holds in every behaviour.                                 *)
LEMMA Invariant == Spec => []IInv
  BY InitIInv, NextIInv, PTL DEF Spec

-----------------------------------------------------------------------------
(* The theorems.                                                           *)

(* The variables keep to their types. *)
THEOREM TypeCorrect == Spec => []TypeOK
  BY Invariant, PTL DEF IInv

(* "No Active Nodes Found" is never said of a page that has not heard from *)
(* the master, unless a fetch has failed.                                  *)
THEOREM NothingTooSoon == Spec => []NothingSaidTooSoon
  BY Invariant, PTL DEF IInv

(* A start or stop is asked only of a container that was on that host, and *)
(* in that status, at some time since the page was opened.                 *)
THEOREM ActsHold == Spec => []ActsOnWhatWas
  BY Invariant, PTL DEF IInv

-----------------------------------------------------------------------------
(* The pages implement Mirror.                                             *)

(* Of what is shown, a step changes nothing, or it opens, blanks or shows. *)
LEMMA VersionStep ==
  ASSUME IInv, [Next]_vars
  PROVE  \/ version' = version + 1 /\ UNCHANGED <<since, shown>>
         \/ version' = version /\ since' = version /\ shown' = Empty
         \/ UNCHANGED <<version, since>>
<1>1. CASE MountDashboard \/ MountNodes \/ MountMetrics
  BY <1>1 DEF MountDashboard, MountNodes, MountMetrics, Mount, Empty
<1>2. CASE Leave
  BY <1>2 DEF Leave
<1>3. ASSUME NEW f \in Fetches, Poll(f) \/ Refresh(f) \/ Progress(f)
      PROVE  UNCHANGED <<version, since>>
  BY <1>3
  DEF Poll, Refresh, Progress, AnswerNodes, AnswerContainers, Reject, SetNodes, SetContainers,
      SetNodeList, SetMetrics, pageVars
<1>4. ASSUME NEW p \in Posts, NEW h \in Hosts, NEW c \in Containers,
             handleStop(p, h, c) \/ handleStart(p, h, c)
      PROVE  UNCHANGED <<version, since>>
  BY <1>4 DEF handleStop, handleStart, Post, pageVars
<1>5. ASSUME NEW p \in Posts, Finish(p)
      PROVE  \/ version' = version + 1 /\ UNCHANGED <<since, shown>>
             \/ UNCHANGED <<version, since>>
  BY <1>5 DEF Finish, HandlePost, LosePost, PostReturns, pageVars
<1>6. CASE VersionChanges \/ NetworkHeals \/ UNCHANGED vars
  BY <1>6 DEF VersionChanges, NetworkHeals, pageVars, vars
<1> QED BY <1>1, <1>2, <1>3, <1>4, <1>5, <1>6 DEF Next

(* The nodes, and the containers, a page shows are each an image of what   *)
(* the master knew while the page was open: nothing that an earlier page   *)
(* had asked for is ever shown.                                            *)
THEOREM ImagesOfTheMaster == Spec => MirrorsMaster
<1>1. Init => NodesMirror!Init /\ ContainersMirror!Init
  BY Numbers DEF Init, NodesMirror!Init, ContainersMirror!Init
<1>2. IInv /\ [Next]_vars => /\ [NodesMirror!Next]_(NodesMirror!vars)
                            /\ [ContainersMirror!Next]_(ContainersMirror!vars)
  <2> SUFFICES ASSUME IInv, [Next]_vars
               PROVE  /\ [NodesMirror!Next]_(NodesMirror!vars)
                      /\ [ContainersMirror!Next]_(ContainersMirror!vars)
    OBVIOUS
  <2>1. Fresh'
    BY NextIInv DEF IInv
  <2> QED
    BY <2>1, VersionStep
    DEF Fresh, Seen, Empty, NodesMirror!Next, NodesMirror!vars, NodesMirror!Advance,
        NodesMirror!Open, NodesMirror!Show, NodesMirror!Blank, ContainersMirror!Next,
        ContainersMirror!vars, ContainersMirror!Advance, ContainersMirror!Open,
        ContainersMirror!Show, ContainersMirror!Blank
<1> QED
  BY <1>1, <1>2, Invariant, PTL
  DEF Spec, MirrorsMaster, NodesMirror!Spec, ContainersMirror!Spec
=============================================================================
