-------------------------- MODULE ContainerRecords --------------------------
(***************************************************************************)
(* The container records of the PicoBox master: globalContainerState, the  *)
(* containers table of the SQLite store, and everybody who writes them --  *)
(* the REST handlers deploy, start, stop and update, the DeployResponses   *)
(* and StopResponses that agents send back, and the start of the master    *)
(* (cmd/picobox-master/main.go, store.go).                                 *)
(*                                                                         *)
(* The map holds pointers: a REST handler keeps the record it read while   *)
(* another one replaces it, so records live in a heap.  The agent is       *)
(* reduced to what the master can tell of it: it starts containers in any  *)
(* order, answers on the stream the request came by, and its streams come  *)
(* and go.                                                                 *)
(***************************************************************************)
EXTENDS Naturals, Sequences, FiniteSets

CONSTANTS
  Ids,       \* container ids
  EmptyId,   \* the empty string, which is a container id like any other
  Bodies,    \* what a ContainerSpec says besides the id
  ZeroBody,  \* ... when all of it is zero
  Hosts,     \* hostnames, one agent each
  Reqs,      \* REST requests; each is made once (a bound)
  MaxConn,   \* a bound: streams an agent opens
  Faults,    \* whether streams break and processes restart
  StoreFails, \* whether the store may fail to open, to load or to save;
              \* main goes on without what failed, and nobody is told
  NoSpec, Nil

ASSUME ConstantsAssumption ==
  /\ EmptyId \in Ids
  /\ ZeroBody \in Bodies
  /\ MaxConn \in Nat \ {0}
  /\ Faults \in BOOLEAN
  /\ StoreFails \in BOOLEAN
  /\ NoSpec \notin [id : Ids, body : Bodies]
  /\ Nil \notin Reqs \union Ids
  /\ Reqs \cap Ids = {}

VARIABLES
  heap,       \* ContainerInfo records by address
  mem,        \* globalContainerState: id -> address, or Nil
  db,         \* the containers table: id -> row, or Nil
  conn,       \* per host: the stream its agent uses, 0 when it has none
  opened,     \* per host: how many streams its agent has opened
  registered, \* per host: the stream the master would send on, or 0
  down,       \* per host: requests on their way to the agent, in order
  up,         \* per host and stream: responses on their way to the master
  deploying,  \* the handleDeploy goroutines of the agents
  started,    \* every container an agent ever started (history)
  req,        \* per REST request: how far its handler is
  adrift      \* ids whose last save failed, or whose row the last start of
              \* the master did not load (history)

agentVars == <<conn, opened, deploying, started>>
netVars   == <<registered, down, up>>
vars == <<heap, mem, db, conn, opened, registered, down, up, deploying,
          started, req, adrift>>

Spec0    == [id |-> EmptyId, body |-> ZeroBody]
Specs    == [id : Ids, body : Bodies]
Addrs    == Reqs \union Ids
Conns    == 1..MaxConn
Statuses == {"", "Pending", "Running", "Stopped", "Stop Failed", "Error"}
Records  == [host : Hosts, status : Statuses, spec : Specs \union {NoSpec}]
Rows     == [host : Hosts, status : Statuses, spec : Specs]

ASSUME NilAssumption == Nil \notin Records

(* json.Marshal writes "null" for a nil Spec; json.Unmarshal of "null"     *)
(* leaves the zero ContainerSpec it was given.                             *)
RoundTrip(sp) == IF sp = NoSpec THEN Spec0 ELSE sp

Row(rec) == [host |-> rec.host, status |-> rec.status, spec |-> RoundTrip(rec.spec)]

(* Mutant: INSERT OR IGNORE, which keeps the row that is there. *)
BugInsertOrIgnore(id, rec) ==
  /\ db' = IF db[id] = Nil THEN [db EXCEPT ![id] = Row(rec)] ELSE db
  /\ adrift' = adrift \ {id}

(* The critical sections that write record `rec' of container `id' end in  *)
(* SaveContainer, which may fail, or is skipped when there is no store.    *)
Save(id, rec) ==
  \/ db' = [db EXCEPT ![id] = Row(rec)] /\ adrift' = adrift \ {id}
  \/ StoreFails /\ db' = db /\ adrift' = adrift \union {id}

NoReq == [pc |-> "new", kind |-> "none", id |-> EmptyId, host |-> Nil,
          body |-> ZeroBody, sw |-> 0, addr |-> Nil]

Init ==
  /\ heap = [a \in Addrs |-> Nil]
  /\ mem = [i \in Ids |-> Nil]
  /\ db = [i \in Ids |-> Nil]
  /\ conn = [h \in Hosts |-> 0]
  /\ opened = [h \in Hosts |-> 0]
  /\ registered = [h \in Hosts |-> 0]
  /\ down = [h \in Hosts |-> <<>>]
  /\ up = [h \in Hosts |-> [c \in Conns |-> <<>>]]
  /\ deploying = {}
  /\ started = {}
  /\ req = [r \in Reqs |-> NoReq]
  /\ adrift = {}

-----------------------------------------------------------------------------
(* REST handlers, one step per critical section or Send.                   *)

(* deploy: find the target's stream, or 404. *)
DeployLookup(r, i, h, b) ==
  /\ req[r].pc = "new"
  /\ req' = [req EXCEPT ![r] =
       [NoReq EXCEPT !.kind = "deploy", !.id = i, !.host = h, !.body = b,
                     !.sw = registered[h],
                     !.pc = IF registered[h] = 0 THEN "error" ELSE "found"]]
  /\ UNCHANGED <<heap, mem, db, adrift, agentVars, netVars>>

(* deploy: a new record replaces whatever the id had, and is saved. *)
DeployRecord(r) ==
  /\ req[r].pc = "found"
  /\ LET i == req[r].id
         rec == [host |-> req[r].host, status |-> "",
                 spec |-> [id |-> i, body |-> req[r].body]]
     IN  /\ heap' = [heap EXCEPT ![r] = rec]
         /\ mem' = [mem EXCEPT ![i] = r]
         /\ Save(i, rec)
  /\ req' = [req EXCEPT ![r].pc = "send"]
  /\ UNCHANGED <<agentVars, netVars>>

(* stop: the target host is the client's choice, not the record's. *)
StopLookup(r, i, h) ==
  /\ req[r].pc = "new"
  /\ req' = [req EXCEPT ![r] =
       [NoReq EXCEPT !.kind = "stop", !.id = i, !.host = h, !.sw = registered[h],
                     !.pc = IF registered[h] = 0 THEN "error" ELSE "send"]]
  /\ UNCHANGED <<heap, mem, db, adrift, agentVars, netVars>>

(* start: mark the record, in memory only, and keep a pointer to it. *)
StartMark(r, i, h) ==
  /\ req[r].pc = "new"
  /\ LET a == mem[i] IN
         /\ heap' = IF a # Nil /\ heap[a].status # "Running"
                    THEN [heap EXCEPT ![a].status = "Pending"] ELSE heap
         /\ req' = [req EXCEPT ![r] =
              [NoReq EXCEPT !.kind = "start", !.id = i, !.host = h, !.addr = a,
                            !.pc = "marked"]]
  /\ UNCHANGED <<mem, db, adrift, agentVars, netVars>>

(* start: no record, no spec or no stream are 404. *)
StartLookup(r) ==
  /\ req[r].pc = "marked"
  /\ LET found == /\ req[r].addr # Nil
                  /\ heap[req[r].addr].spec # NoSpec
                  /\ registered[req[r].host] # 0
     IN  req' = [req EXCEPT ![r].pc = IF found THEN "send" ELSE "error",
                            ![r].sw = registered[req[r].host]]
  /\ UNCHANGED <<heap, mem, db, adrift, agentVars, netVars>>

(* update: the record gets a new spec, and is saved. *)
Update(r, i, b) ==
  /\ req[r].pc = "new"
  /\ LET a == mem[i]
         rec == [heap[a] EXCEPT !.spec = [id |-> i, body |-> b]]
     IN  \/ /\ a # Nil
            /\ heap' = [heap EXCEPT ![a] = rec]
            /\ Save(i, rec)
            /\ req' = [req EXCEPT ![r] = [NoReq EXCEPT !.kind = "update", !.id = i,
                                                      !.pc = "ok"]]
         \/ /\ a = Nil
            /\ req' = [req EXCEPT ![r] = [NoReq EXCEPT !.kind = "update", !.id = i,
                                                      !.pc = "error"]]
            /\ UNCHANGED <<heap, db, adrift>>
  /\ UNCHANGED <<mem, agentVars, netVars>>

(* What the request asks the agent; start reads the spec only here. *)
Message(r) ==
  IF req[r].kind = "stop"
  THEN [type |-> "stop", id |-> req[r].id, body |-> ZeroBody, req |-> r]
  ELSE LET sp == heap[IF req[r].kind = "deploy" THEN r ELSE req[r].addr].spec
       IN  [type |-> "deploy", id |-> sp.id, body |-> sp.body, req |-> r]

(* Send on the stream found: it arrives if that stream is still in use; if *)
(* not, Send may or may not report it.                                     *)
Send(r) ==
  /\ req[r].pc = "send"
  /\ LET h == req[r].host IN
       \/ /\ req[r].sw = conn[h]
          /\ down' = [down EXCEPT ![h] = Append(@, Message(r))]
          /\ req' = [req EXCEPT ![r].pc = "ok"]
       \/ /\ req[r].sw # conn[h]
          /\ \E answer \in {"ok", "error"} : req' = [req EXCEPT ![r].pc = answer]
          /\ UNCHANGED down
  /\ UNCHANGED <<heap, mem, db, adrift, agentVars, registered, up>>

-----------------------------------------------------------------------------
(* The agent, as far as the master can tell.                               *)

(* A DeployRequest starts a goroutine of its own. *)
AgentDeploy(h) ==
  /\ conn[h] # 0 /\ down[h] # <<>>
  /\ LET q == Head(down[h]) IN
       /\ q.type = "deploy"
       /\ deploying' = deploying \union
            {[host |-> h, conn |-> conn[h], id |-> q.id, body |-> q.body, req |-> q.req]}
  /\ down' = [down EXCEPT ![h] = Tail(@)]
  /\ UNCHANGED <<heap, mem, db, adrift, conn, opened, started, registered, up, req>>

(* Mutant: the answer goes out on whatever stream the agent has now. *)
BugAnswersOnNewStream(h, c, resp) ==
  up' = IF conn[h] # 0 THEN [up EXCEPT ![h][conn[h]] = Append(@, resp)] ELSE up

Answer(h, c, resp) ==
  up' = IF conn[h] = c THEN [up EXCEPT ![h][c] = Append(@, resp)] ELSE up

(* handleDeploy ends: the container was started, or was not.  The answer   *)
(* goes to the stream of the request, and is lost if that one is gone.     *)
DeployDone(d, ok) ==
  /\ d \in deploying
  /\ deploying' = deploying \ {d}
  /\ started' = IF ok THEN started \union {[host |-> d.host, id |-> d.id]}
                ELSE started
  /\ Answer(d.host, d.conn, [type |-> "deployed", id |-> d.id, ok |-> ok])
  /\ UNCHANGED <<heap, mem, db, adrift, conn, opened, registered, down, req>>

(* handleStop runs in the receive loop; only what was started can be found. *)
AgentStop(h, ok) ==
  /\ conn[h] # 0 /\ down[h] # <<>>
  /\ LET q == Head(down[h]) IN
       /\ q.type = "stop"
       /\ ok => \E x \in started : x.host = h /\ x.id = q.id
       /\ Answer(h, conn[h], [type |-> "stopped", id |-> q.id, ok |-> ok])
  /\ down' = [down EXCEPT ![h] = Tail(@)]
  /\ UNCHANGED <<heap, mem, db, adrift, agentVars, registered, req>>

-----------------------------------------------------------------------------
(* The stream handlers: one critical section per response.                 *)

(* Mutants: the error branch is missing; success is taken for granted; a   *)
(* status nobody knows.                                                    *)
BugErrorIgnored(ok)  == IF ok THEN "Running" ELSE ""
BugAlwaysRunning(ok) == IF ok THEN "Running" ELSE "Running"
BugUnknownStatus(ok) == IF ok THEN "Stopped" ELSE "Failed"

DeployOutcome(ok) == IF ok THEN "Running" ELSE "Error"
StopOutcome(ok)   == IF ok THEN "Stopped" ELSE "Stop Failed"

RecvDeployResponse(h, c) ==
  /\ up[h][c] # <<>>
  /\ LET resp == Head(up[h][c])
         i == resp.id
         a == IF mem[i] = Nil THEN i ELSE mem[i]
         st == DeployOutcome(resp.ok)
         rec == IF mem[i] = Nil THEN [host |-> h, status |-> st, spec |-> NoSpec]
                ELSE [heap[a] EXCEPT !.status = st]
     IN  /\ resp.type = "deployed"
         /\ heap' = [heap EXCEPT ![a] = rec]
         /\ mem' = [mem EXCEPT ![i] = a]
         /\ Save(i, rec)
  /\ up' = [up EXCEPT ![h][c] = Tail(@)]
  /\ UNCHANGED <<agentVars, registered, down, req>>

(* A StopResponse changes the record in memory and does not save it. *)
RecvStopResponse(h, c) ==
  /\ up[h][c] # <<>>
  /\ LET resp == Head(up[h][c])
         a == mem[resp.id]
     IN  /\ resp.type = "stopped"
         /\ heap' = IF a = Nil THEN heap
                    ELSE [heap EXCEPT ![a].status = StopOutcome(resp.ok)]
  /\ up' = [up EXCEPT ![h][c] = Tail(@)]
  /\ UNCHANGED <<mem, db, adrift, agentVars, registered, down, req>>

-----------------------------------------------------------------------------
(* Streams and processes come and go; see module ControlChannel.           *)

Connect(h) ==
  /\ conn[h] = 0 /\ opened[h] < MaxConn
  /\ conn' = [conn EXCEPT ![h] = opened[h] + 1]
  /\ opened' = [opened EXCEPT ![h] = @ + 1]
  /\ UNCHANGED <<heap, mem, db, adrift, deploying, started, netVars, req>>

Register(h) ==
  /\ conn[h] # 0 /\ registered[h] # conn[h]
  /\ registered' = [registered EXCEPT ![h] = conn[h]]
  /\ UNCHANGED <<heap, mem, db, adrift, agentVars, down, up, req>>

(* Any handler of the host returned. *)
Unregister(h) ==
  /\ Faults /\ registered[h] # 0
  /\ registered' = [registered EXCEPT ![h] = 0]
  /\ UNCHANGED <<heap, mem, db, adrift, agentVars, down, up, req>>

(* The stream breaks: requests in transit are lost, and the last responses. *)
Break(h) ==
  /\ conn' = [conn EXCEPT ![h] = 0]
  /\ down' = [down EXCEPT ![h] = <<>>]
  /\ \E n \in 0..Len(up[h][conn[h]]) :
       up' = [up EXCEPT ![h][conn[h]] = SubSeq(@, 1, n)]

Disconnect(h) ==
  /\ Faults /\ conn[h] # 0
  /\ Break(h)
  /\ UNCHANGED <<heap, mem, db, adrift, opened, deploying, started, registered, req>>

(* The agent dies, and its deploy goroutines with it. *)
AgentCrash(h) ==
  /\ Faults /\ conn[h] # 0
  /\ Break(h)
  /\ deploying' = {d \in deploying : d.host # h}
  /\ UNCHANGED <<heap, mem, db, adrift, opened, started, registered, req>>

(* main makes the records anew from the rows that LoadContainers returns:  *)
(* all of them, or none when the store does not open or the query fails,   *)
(* or some when the iteration breaks off, rows.Err being unchecked.        *)
(* (json.Unmarshal does not fail on what SaveContainer wrote.)             *)
MasterRestart ==
  /\ Faults
  /\ \E loaded \in SUBSET {i \in Ids : db[i] # Nil} :
       /\ ~StoreFails => loaded = {i \in Ids : db[i] # Nil}
       /\ mem' = [i \in Ids |-> IF i \in loaded THEN i ELSE Nil]
       /\ heap' = [a \in Addrs |-> IF a \in loaded THEN db[a] ELSE Nil]
       /\ adrift' = {i \in Ids : db[i] # Nil} \ loaded
  /\ registered' = [h \in Hosts |-> 0]
  /\ conn' = [h \in Hosts |-> 0]
  /\ down' = [h \in Hosts |-> <<>>]
  /\ up' = [h \in Hosts |-> [c \in Conns |-> <<>>]]
  /\ req' = [r \in Reqs |-> IF req[r].pc \in {"found", "marked", "send"}
                            THEN [req[r] EXCEPT !.pc = "aborted"] ELSE req[r]]
  /\ UNCHANGED <<db, opened, deploying, started>>

-----------------------------------------------------------------------------
Request(r) ==
  \E i \in Ids, h \in Hosts :
    \/ \E b \in Bodies : DeployLookup(r, i, h, b) \/ Update(r, i, b)
    \/ StopLookup(r, i, h)
    \/ StartMark(r, i, h)

Continue(r) == DeployRecord(r) \/ StartLookup(r) \/ Send(r)

Receive(h) == AgentDeploy(h) \/ \E ok \in BOOLEAN : AgentStop(h, ok)

FinishDeploys == \E d \in deploying, ok \in BOOLEAN : DeployDone(d, ok)

HandleResponse(h, c) == RecvDeployResponse(h, c) \/ RecvStopResponse(h, c)

Next ==
  \/ \E r \in Reqs : Request(r) \/ Continue(r)
  \/ \E h \in Hosts : Receive(h) \/ \E c \in Conns : HandleResponse(h, c)
  \/ FinishDeploys
  \/ \E h \in Hosts :
       Connect(h) \/ Register(h) \/ Unregister(h) \/ Disconnect(h) \/ AgentCrash(h)
  \/ MasterRestart

Spec == Init /\ [][Next]_vars

(* REST handlers run on, and handleDeploy comes to an end.  Nobody has to  *)
(* make a request.  Neither receive loop is fair: both run exec calls      *)
(* inline, the agent's without a time limit (picoboxd/main.go:174-176),    *)
(* and the master's may wait for ever for room (main.go:173).              *)
Fairness ==
  /\ \A r \in Reqs : WF_vars(Continue(r))
  /\ WF_vars(FinishDeploys)

FairSpec == Spec /\ Fairness

-----------------------------------------------------------------------------
(* Properties                                                              *)

Messages  == [type : {"deploy", "stop"}, id : Ids, body : Bodies, req : Reqs]
Responses == [type : {"deployed", "stopped"}, id : Ids, ok : BOOLEAN]

TypeOK ==
  /\ heap \in [Addrs -> Records \union {Nil}]
  /\ mem \in [Ids -> Addrs \union {Nil}]
  /\ db \in [Ids -> Rows \union {Nil}]
  /\ conn \in [Hosts -> 0..MaxConn]
  /\ opened \in [Hosts -> 0..MaxConn]
  /\ registered \in [Hosts -> 0..MaxConn]
  /\ down \in [Hosts -> Seq(Messages)]
  /\ up \in [Hosts -> [Conns -> Seq(Responses)]]
  /\ deploying \subseteq [host : Hosts, conn : Conns, id : Ids, body : Bodies, req : Reqs]
  /\ started \subseteq [host : Hosts, id : Ids]
  /\ req \in [Reqs -> [pc : {"new", "found", "marked", "send", "ok", "error", "aborted"},
                       kind : {"none", "deploy", "stop", "start", "update"},
                       id : Ids, host : Hosts \union {Nil}, body : Bodies,
                       sw : 0..MaxConn, addr : Addrs \union {Nil}]]
  /\ adrift \subseteq Ids

Known(i) == mem[i] # Nil
Info(i)  == heap[mem[i]]

(* The store holds every record's host and spec as the map has them, and   *)
(* no other row, but for the containers whose last save failed or that the *)
(* last load missed: a restart whose load succeeds loses no container, and *)
(* no spec, that was ever saved.                                           *)
SpecDurable ==
  \A i \in Ids \ adrift :
    /\ Known(i) <=> db[i] # Nil
    /\ Known(i) => db[i].host = Info(i).host /\ db[i].spec = RoundTrip(Info(i).spec)

(* But for those, the stored status differs from the one in memory only    *)
(* where start or a StopResponse changed it without saving.                *)
StatusLag ==
  \A i \in Ids \ adrift : Known(i) /\ db[i].status # Info(i).status =>
    Info(i).status \in {"Pending", "Stopped", "Stop Failed"}

(* A record says "Running", in memory or in the store, only of a container *)
(* id that some agent has started: no reordering, loss, restart or reload  *)
(* makes one up.                                                           *)
RunningWasStarted ==
  \A i \in Ids :
    \/ Known(i) /\ Info(i).status = "Running"
    \/ db[i] # Nil /\ db[i].status = "Running"
    => \E x \in started : x.id = i

(* A DeployResponse always finds its record, whatever restarts and         *)
(* whatever the store lost: an answer for a container the master forgot    *)
(* went to a stream that is gone.  So no record is ever without its spec,  *)
(* nor comes back from the store with the zero spec, and the nil check in  *)
(* start is all it needs.                                                  *)
EveryRecordHasItsSpec ==
  \A i \in Ids : Known(i) => Info(i).spec # NoSpec /\ Info(i).spec.id = i

(* With no failure, and no exec call holding up a receive loop for good,   *)
(* every deployment and start ends in a decided status, whatever overlaps  *)
(* with it; only a start that was refused can leave its record "Pending".  *)
NobodyHeldUp ==
  \A h \in Hosts :
    WF_vars(Receive(h)) /\ \A c \in Conns : WF_vars(HandleResponse(h, c))

Refused(i) == \E r \in Reqs :
  req[r].kind = "start" /\ req[r].pc = "error" /\ req[r].addr = mem[i]

EveryRecordSettles ==
  NobodyHeldUp => <>[](\A i \in Ids : Known(i) =>
                          /\ Info(i).status # ""
                          /\ Info(i).status = "Pending" => Refused(i))

(* feature_checklist P-4, V-3: the status of a container survives a        *)
(* restart of the master -- one that was stopped is still "Stopped".       *)
StatusSurvivesRestart ==
  [][MasterRestart => \A i \in Ids : Known(i) /\ Info(i).status = "Stopped" =>
       Known(i)' /\ Info(i)'.status = "Stopped"]_vars

=============================================================================
