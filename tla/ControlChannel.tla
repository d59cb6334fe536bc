--------------------------- MODULE ControlChannel ---------------------------
(***************************************************************************)
(* The control channel between the PicoBox master and its agents           *)
(* (cmd/picobox-master/main.go, runAgent of cmd/picoboxd/main.go).         *)
(*                                                                         *)
(* Every agent keeps one bidirectional gRPC stream open.  On the master a  *)
(* goroutine (the "handler") serves each stream: it authenticates it,      *)
(* learns the agent's hostname from the first heartbeat, enters the stream *)
(* in the registry `streams', and removes the hostname again when it       *)
(* returns.  REST handlers look a hostname up in the registry and send a   *)
(* command on the stream they find.  Connections break, on one side before *)
(* the other notices; agents reconnect; the master restarts.               *)
(***************************************************************************)
EXTENDS Naturals, FiniteSets

CONSTANTS
  Agents,       \* the agent processes
  Hosts,        \* hostnames
  Streams,      \* gRPC streams; each is opened at most once (a bound)
  Callers,      \* REST handlers that send a command
  HostnameOf,   \* the hostname an agent reports in its heartbeats
  AgentOf,      \* the agent that may open a stream
  Trusted,      \* the agents that present the token the master expects
  MaxBeats,     \* a bound: heartbeats in flight on one stream
  NoStream, NoHost, NoWrapper

ASSUME ConstantsAssumption ==
  /\ HostnameOf \in [Agents -> Hosts]
  /\ AgentOf \in [Streams -> Agents]
  /\ Trusted \subseteq Agents
  /\ MaxBeats \in Nat
  /\ NoStream \notin Streams
  /\ NoHost \notin Hosts
  /\ NoWrapper \notin Streams \X Nat

VARIABLES
  conn,      \* per agent: the stream its runAgent uses
  link,      \* per stream: "unused", "open", "lost" (nobody told yet), "closed"
  beats,     \* per stream: heartbeats in flight to the master
  hpc,       \* per stream: where its handler goroutine is
  bound,     \* per stream: the handler's local `hostname'
  built,     \* per stream: how many StreamWrappers its handler has allocated
  ackTo,     \* per stream: the wrapper the handler will acknowledge on
  streams,   \* the registry: per hostname, a wrapper
  nodeState, \* the hostnames in globalNodeState, hence in the nodes table
  caller     \* per REST handler: pc, captured wrapper

agentVars   == <<conn, link, beats>>
handlerVars == <<hpc, bound, built, ackTo>>
masterVars  == <<streams, nodeState>>
vars == <<conn, link, beats, hpc, bound, built, ackTo, streams, nodeState,
          caller>>

HostOf(s)   == HostnameOf[AgentOf[s]]
Wrappers    == Streams \X Nat
StreamOf(w) == w[1]

Idle == [pc |-> "idle", sw |-> NoWrapper]

(* A handler goroutine exists and has not returned. *)
Alive(s) == hpc[s] \notin {"none", "done"}

(* The mutex of wrapper w is held while somebody is inside its Send. *)
Locked(w) == \/ \E s \in Streams : hpc[s] = "acking" /\ ackTo[s] = w
             \/ \E c \in Callers : caller[c].pc = "sending" /\ caller[c].sw = w

Init ==
  /\ conn = [a \in Agents |-> NoStream]
  /\ link = [s \in Streams |-> "unused"]
  /\ beats = [s \in Streams |-> 0]
  /\ hpc = [s \in Streams |-> "none"]
  /\ bound = [s \in Streams |-> NoHost]
  /\ built = [s \in Streams |-> 0]
  /\ ackTo = [s \in Streams |-> NoWrapper]
  /\ streams = [h \in Hosts |-> NoWrapper]
  /\ nodeState = {}
  /\ caller = [c \in Callers |-> Idle]

-----------------------------------------------------------------------------
(* The agent: runAgent and the reconnect loop of main.                     *)

(* runAgent opens a stream; the master starts a handler for it. *)
Connect(a, s) ==
  /\ conn[a] = NoStream
  /\ AgentOf[s] = a
  /\ link[s] = "unused"
  /\ conn' = [conn EXCEPT ![a] = s]
  /\ link' = [link EXCEPT ![s] = "open"]
  /\ hpc'  = [hpc EXCEPT ![s] = "auth"]
  /\ UNCHANGED <<beats, bound, built, ackTo, masterVars, caller>>

(* The ticker fires: a heartbeat is handed to the stream.  On a stream     *)
(* that is lost it goes nowhere.                                           *)
Heartbeat(a) ==
  /\ conn[a] # NoStream
  /\ LET s == conn[a] IN
       /\ link[s] \in {"open", "lost"}
       /\ beats[s] < MaxBeats
       /\ beats' = IF link[s] = "open" THEN [beats EXCEPT ![s] = @ + 1]
                                       ELSE beats
  /\ UNCHANGED <<conn, link, handlerVars, masterVars, caller>>

(* The receive goroutine or a heartbeat's Send reports an error: runAgent  *)
(* returns, and main will call it again.                                   *)
AgentNotices(a) ==
  /\ conn[a] # NoStream
  /\ link[conn[a]] # "open"
  /\ conn' = [conn EXCEPT ![a] = NoStream]
  /\ UNCHANGED <<link, beats, handlerVars, masterVars, caller>>

(* The agent process dies; the init system starts it again. *)
AgentCrash(a) ==
  /\ conn[a] # NoStream
  /\ conn' = [conn EXCEPT ![a] = NoStream]
  /\ link' = [link EXCEPT ![conn[a]] = IF @ = "open" THEN "lost" ELSE @]
  /\ UNCHANGED <<beats, handlerVars, masterVars, caller>>

(* The network drops the connection; neither side knows yet.  What was in  *)
(* flight may have been lost with it.                                      *)
ConnectionLost(s) ==
  /\ link[s] = "open"
  /\ link' = [link EXCEPT ![s] = "lost"]
  /\ \E n \in 0..beats[s] : beats' = [beats EXCEPT ![s] = n]
  /\ UNCHANGED <<conn, handlerVars, masterVars, caller>>

-----------------------------------------------------------------------------
(* The master: one ControlChannel call per stream.                         *)

(* Mutant: the token comparison is dropped. *)
BugTokenIgnored(s) ==
  /\ hpc[s] = "auth"
  /\ hpc' = [hpc EXCEPT ![s] = "recv"]
  /\ UNCHANGED <<agentVars, bound, built, ackTo, masterVars, caller>>

AuthAccept(s) ==
  /\ hpc[s] = "auth"
  /\ AgentOf[s] \in Trusted
  /\ hpc' = [hpc EXCEPT ![s] = "recv"]
  /\ UNCHANGED <<agentVars, bound, built, ackTo, masterVars, caller>>

(* Unauthenticated: the call returns before the deferred removal exists. *)
AuthReject(s) ==
  /\ hpc[s] = "auth"
  /\ AgentOf[s] \notin Trusted
  /\ hpc' = [hpc EXCEPT ![s] = "done"]
  /\ link' = [link EXCEPT ![s] = "closed"]
  /\ UNCHANGED <<conn, beats, bound, built, ackTo, masterVars, caller>>

(* Mutant: the guard hostname == "" is dropped. *)
BugRegistersEveryTime(s) ==
  /\ hpc[s] = "recv"
  /\ beats[s] > 0
  /\ beats' = [beats EXCEPT ![s] = @ - 1]
  /\ hpc' = [hpc EXCEPT ![s] = "register"]
  /\ UNCHANGED <<conn, link, bound, built, ackTo, masterVars, caller>>

(* Mutant: Recv hands the same heartbeat out again and again. *)
BugRecvRepeats(s) ==
  /\ hpc[s] = "recv"
  /\ beats' = [beats EXCEPT ![s] = @ - 1]
  /\ hpc' = [hpc EXCEPT ![s] = IF bound[s] = NoHost THEN "register" ELSE "record"]
  /\ UNCHANGED <<conn, link, bound, built, ackTo, masterVars, caller>>

(* Recv returns a heartbeat, which is what binds the handler to a hostname. *)
RecvMetrics(s) ==
  /\ hpc[s] = "recv"
  /\ beats[s] > 0
  /\ beats' = [beats EXCEPT ![s] = @ - 1]
  /\ hpc' = [hpc EXCEPT ![s] = IF bound[s] = NoHost THEN "register" ELSE "record"]
  /\ UNCHANGED <<conn, link, bound, built, ackTo, masterVars, caller>>

(* Mutant: a hostname that is already known is not registered again. *)
BugKnownHostSkipped(s) ==
  /\ hpc[s] = "register"
  /\ bound' = [bound EXCEPT ![s] = HostOf(s)]
  /\ built' = [built EXCEPT ![s] = @ + 1]
  /\ streams' = IF HostOf(s) \in nodeState THEN streams
                ELSE [streams EXCEPT ![HostOf(s)] = <<s, built[s] + 1>>]
  /\ hpc' = [hpc EXCEPT ![s] = "record"]
  /\ UNCHANGED <<agentVars, ackTo, nodeState, caller>>

Register(s) ==
  /\ hpc[s] = "register"
  /\ bound' = [bound EXCEPT ![s] = HostOf(s)]
  /\ built' = [built EXCEPT ![s] = @ + 1]
  /\ streams' = [streams EXCEPT ![HostOf(s)] = <<s, built[s] + 1>>]
  /\ hpc' = [hpc EXCEPT ![s] = "record"]
  /\ UNCHANGED <<agentVars, ackTo, nodeState, caller>>

(* globalNodeState and the nodes table change together, under stateMutex. *)
RecordMetrics(s) ==
  /\ hpc[s] = "record"
  /\ nodeState' = nodeState \union {HostOf(s)}
  /\ hpc' = [hpc EXCEPT ![s] = "lookup"]
  /\ UNCHANGED <<agentVars, bound, built, ackTo, streams, caller>>

(* The acknowledgement goes to whatever stream the registry names now. *)
LookupAck(s) ==
  /\ hpc[s] = "lookup"
  /\ LET w == streams[HostOf(s)] IN
       /\ ackTo' = [ackTo EXCEPT ![s] = w]
       /\ hpc' = [hpc EXCEPT ![s] = IF w = NoWrapper THEN "recv" ELSE "ack"]
  /\ UNCHANGED <<agentVars, bound, built, masterVars, caller>>

LockAck(s) ==
  /\ hpc[s] = "ack"
  /\ ~Locked(ackTo[s])
  /\ hpc' = [hpc EXCEPT ![s] = "acking"]
  /\ UNCHANGED <<agentVars, bound, built, ackTo, masterVars, caller>>

SendAck(s) ==
  /\ hpc[s] = "acking"
  /\ ackTo' = [ackTo EXCEPT ![s] = NoWrapper]
  /\ hpc' = [hpc EXCEPT ![s] = "recv"]
  /\ UNCHANGED <<agentVars, bound, built, masterVars, caller>>

(* Recv returns an ExecResponse whose call is waiting: commands go to      *)
(* streams that have been registered.  (One that comes after the           *)
(* connection is lost is as one just before.)                              *)
RecvExecResponse(s) ==
  /\ hpc[s] = "recv"
  /\ bound[s] # NoHost
  /\ link[s] = "open"
  /\ hpc' = [hpc EXCEPT ![s] = "push"]
  /\ UNCHANGED <<agentVars, bound, built, ackTo, masterVars, caller>>

(* ch <- resp, once there is room, which may be never: module ExecBroker.  *)
PushResponse(s) ==
  /\ hpc[s] = "push"
  /\ hpc' = [hpc EXCEPT ![s] = "recv"]
  /\ UNCHANGED <<agentVars, bound, built, ackTo, masterVars, caller>>

(* Recv returns io.EOF or an error. *)
RecvError(s) ==
  /\ hpc[s] = "recv"
  /\ link[s] # "open"
  /\ hpc' = [hpc EXCEPT ![s] = "exit"]
  /\ UNCHANGED <<agentVars, bound, built, ackTo, masterVars, caller>>

(* Mutant: the return path that skips the deferred removal. *)
BugEntryLeft(s) ==
  /\ hpc[s] = "exit"
  /\ hpc' = [hpc EXCEPT ![s] = "done"]
  /\ link' = [link EXCEPT ![s] = "closed"]
  /\ UNCHANGED <<conn, beats, bound, built, ackTo, masterVars, caller>>

(* The deferred function: the hostname is removed whoever holds it now. *)
Exit(s) ==
  /\ hpc[s] = "exit"
  /\ streams' = IF bound[s] = NoHost THEN streams
                ELSE [streams EXCEPT ![bound[s]] = NoWrapper]
  /\ hpc' = [hpc EXCEPT ![s] = "done"]
  /\ link' = [link EXCEPT ![s] = "closed"]
  /\ UNCHANGED <<conn, beats, bound, built, ackTo, nodeState, caller>>

(* The master process ends and starts again: only what the store holds     *)
(* survives, and main loads it back, or part of it, or nothing.            *)
MasterRestart ==
  /\ \E s \in Streams : Alive(s)
  /\ hpc' = [s \in Streams |-> IF Alive(s) THEN "done" ELSE hpc[s]]
  /\ link' = [s \in Streams |-> IF link[s] = "open" THEN "lost" ELSE link[s]]
  /\ beats' = [s \in Streams |-> 0]
  /\ ackTo' = [s \in Streams |-> NoWrapper]
  /\ streams' = [h \in Hosts |-> NoWrapper]
  /\ caller' = [c \in Callers |-> Idle]
  /\ nodeState' \in SUBSET nodeState
  /\ UNCHANGED <<conn, bound, built>>

-----------------------------------------------------------------------------
(* A REST handler: look the target up, then Send on the wrapper found.     *)

Lookup(c, h) ==
  /\ caller[c].pc = "idle"
  /\ streams[h] # NoWrapper
  /\ caller' = [caller EXCEPT ![c] = [pc |-> "found", sw |-> streams[h]]]
  /\ UNCHANGED <<agentVars, handlerVars, masterVars>>

(* 404, target agent not found or offline. *)
LookupOffline(c, h) ==
  /\ caller[c].pc = "idle"
  /\ streams[h] = NoWrapper
  /\ UNCHANGED vars

LockSend(c) ==
  /\ caller[c].pc = "found"
  /\ ~Locked(caller[c].sw)
  /\ caller' = [caller EXCEPT ![c].pc = "sending"]
  /\ UNCHANGED <<agentVars, handlerVars, masterVars>>

(* stream.Send returns, with or without an error, and the handler replies. *)
FinishSend(c) ==
  /\ caller[c].pc = "sending"
  /\ caller' = [caller EXCEPT ![c] = Idle]
  /\ UNCHANGED <<agentVars, handlerVars, masterVars>>

-----------------------------------------------------------------------------
AgentStep(a) ==
  \/ \E s \in Streams : Connect(a, s)
  \/ Heartbeat(a)
  \/ AgentNotices(a)
  \/ AgentCrash(a)

HandlerStep(s) ==
  \/ AuthAccept(s) \/ AuthReject(s)
  \/ RecvMetrics(s) \/ Register(s) \/ RecordMetrics(s)
  \/ LookupAck(s) \/ LockAck(s) \/ SendAck(s)
  \/ RecvError(s) \/ Exit(s)

ExecStep(s) == RecvExecResponse(s) \/ PushResponse(s)

CallerStep(c) ==
  \/ \E h \in Hosts : Lookup(c, h) \/ LookupOffline(c, h)
  \/ LockSend(c)
  \/ FinishSend(c)

Next ==
  \/ \E a \in Agents : AgentStep(a)
  \/ \E s \in Streams : HandlerStep(s) \/ ExecStep(s) \/ ConnectionLost(s)
  \/ \E c \in Callers : CallerStep(c)
  \/ MasterRestart

Spec == Init /\ [][Next]_vars

(* Goroutines that can run do run; a lost connection is noticed on both    *)
(* sides (TCP and gRPC's own keepalive see to it, in their own time); the  *)
(* ticker ticks; sync.Mutex starves nobody.  Nothing makes a client call,  *)
(* and nothing makes room in an exec channel: PushResponse is not fair.    *)
Fairness ==
  /\ \A s \in Streams :
       /\ WF_vars(HandlerStep(s))
       /\ SF_vars(LockAck(s))
       /\ WF_vars(Connect(AgentOf[s], s))
  /\ \A a \in Agents : WF_vars(Heartbeat(a)) /\ WF_vars(AgentNotices(a))
  /\ \A c \in Callers : SF_vars(LockSend(c)) /\ WF_vars(FinishSend(c))

FairSpec == Spec /\ Fairness

-----------------------------------------------------------------------------
(* Properties                                                              *)

TypeOK ==
  /\ conn \in [Agents -> Streams \union {NoStream}]
  /\ link \in [Streams -> {"unused", "open", "lost", "closed"}]
  /\ beats \in [Streams -> 0..MaxBeats]
  /\ hpc \in [Streams -> {"none", "auth", "recv", "register", "record", "lookup",
                          "ack", "acking", "push", "exit", "done"}]
  /\ bound \in [Streams -> Hosts \union {NoHost}]
  /\ built \in [Streams -> Nat]
  /\ ackTo \in [Streams -> Wrappers \union {NoWrapper}]
  /\ streams \in [Hosts -> Wrappers \union {NoWrapper}]
  /\ nodeState \subseteq Hosts
  /\ caller \in [Callers -> [pc : {"idle", "found", "sending"},
                             sw : Wrappers \union {NoWrapper}]]

(* The registry never names a stream whose handler has returned, and names *)
(* it only under the hostname that handler is bound to: the unconditional  *)
(* delete of ControlChannel's deferred function leaves nothing behind.     *)
NoDeadStream ==
  \A h \in Hosts : streams[h] # NoWrapper =>
    /\ Alive(StreamOf(streams[h]))
    /\ bound[StreamOf(streams[h])] = h

(* Only an agent that passed the token check can be commanded. *)
OnlyTrustedStreams ==
  \A h \in Hosts : streams[h] # NoWrapper => AgentOf[StreamOf(streams[h])] \in Trusted

(* The streams on which handler s, or REST handler c, is inside Send. *)
AckingOn(s)  == {x \in Streams : hpc[s] = "acking" /\ x = StreamOf(ackTo[s])}
SendingOn(c) == {x \in Streams : caller[c].pc = "sending" /\ x = StreamOf(caller[c].sw)}

(* gRPC allows one SendMsg at a time on a stream.  The wrapper's mutex     *)
(* gives that only because a handler never makes two wrappers of a stream. *)
SendExclusion ==
  /\ \A s, t \in Streams : s # t => AckingOn(s) \cap AckingOn(t) = {}
  /\ \A c, d \in Callers : c # d => SendingOn(c) \cap SendingOn(d) = {}
  /\ \A s \in Streams, c \in Callers : AckingOn(s) \cap SendingOn(c) = {}

Registered(s) == streams[HostOf(s)] # NoWrapper /\ StreamOf(streams[HostOf(s)]) = s

(* When a connection is gone the registry forgets the stream for good --   *)
(* or its handler is held up for good by an exec channel nobody reads      *)
(* (main.go:173), and does not come to learn of it.                        *)
LostStreamForgotten ==
  \A s \in Streams :
    [](link[s] \in {"lost", "closed"} => <>[]~Registered(s) \/ <>[](hpc[s] = "push"))

(* No other handler of the same hostname is running or can start. *)
Alone(s) == \A t \in Streams \ {s} : HostOf(t) = HostOf(s) => ~Alive(t)

(* An agent that connects when no other handler for its hostname is left   *)
(* becomes, and stays, reachable for as long as its connection holds.      *)
ReachableWhenAlone ==
  \A s \in Streams :
    [](hpc[s] = "register" /\ [](link[s] = "open" /\ Alone(s)) => <>[]Registered(s))

(* doc/feature_checklist.md, V-3: a session recovers after a disconnection *)
(* -- and a session "receives deployment commands from the master"         *)
(* (picobox.proto:9): an agent that stays connected ends up reachable.     *)
SessionRecovers ==
  \A s \in Streams :
    AgentOf[s] \in Trusted => (<>[](link[s] = "open") => <>[]Registered(s))

=============================================================================
