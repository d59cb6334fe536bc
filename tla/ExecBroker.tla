----------------------------- MODULE ExecBroker -----------------------------
(***************************************************************************)
(* Running a command in a container: the REST handler /api/exec and the    *)
(* WebSocket terminal of the master hand the command to the agent and wait *)
(* for the ExecResponse on a Go channel of capacity one, which the stream  *)
(* handler finds in execChannels -- by container id, since a response says *)
(* nothing more about the request it answers                               *)
(* (cmd/picobox-master/main.go; handleExec of cmd/picoboxd/main.go).       *)
(*                                                                         *)
(* One agent runs all the containers; its receive loop runs one command at *)
(* a time, and nothing bounds how long a command takes.                    *)
(***************************************************************************)
EXTENDS Naturals, Sequences, FiniteSets

CONSTANTS
  Clients,      \* REST calls and terminal sessions
  Terminals,    \* those that are terminal sessions: several commands each
  Containers,
  ContainerOf,  \* the container a client talks to
  MaxCommands,  \* a bound: commands typed in a terminal session
  MaxConn,      \* a bound: streams the agent opens
  Faults,       \* whether a stream may break
  None, NoAnswer

ASSUME ConstantsAssumption ==
  /\ Terminals \subseteq Clients
  /\ ContainerOf \in [Clients -> Containers]
  /\ MaxCommands \in Nat \ {0}
  /\ MaxConn \in Nat \ {0}
  /\ Faults \in BOOLEAN
  /\ None \notin Clients \X Nat /\ NoAnswer \notin Clients \X Nat
  /\ None # NoAnswer

Cmds  == Clients \X (1..MaxCommands)
Conns == 1..MaxConn
Of(m) == ContainerOf[m[1]]

VARIABLES
  execChannels, \* container -> the command whose channel is entered, or None
  buf,          \* per command: what its channel holds, or None
  client,       \* per client: pc, number of its command, captured stream
  result,       \* per command: the response it was given, or NoAnswer when
                \* it failed or timed out
  conn,         \* the stream the agent uses, 0 when it has none
  down,         \* per stream: commands on their way to the agent
  running,      \* per stream: the command its receive loop is executing
  up,           \* per stream: responses on their way to the master
  push,         \* per stream: the handler's pending send to a channel
  opened,       \* how many streams the agent has opened
  spoiled       \* containers whose commands overlapped, or were given up on
                \* (history)

brokerVars == <<execChannels, buf, client, result>>
netVars    == <<conn, down, running, up, push, opened>>
vars == <<execChannels, buf, client, result, conn, down, running, up, push,
          opened, spoiled>>

Current(cl) == <<cl, client[cl].n>>

(* A command is open from the time its channel is made to its Delete. *)
Open(cl) == client[cl].pc \in {"stored", "waiting", "delete"}

Init ==
  /\ execChannels = [c \in Containers |-> None]
  /\ buf = [m \in Cmds |-> None]
  /\ client = [cl \in Clients |-> [pc |-> "new", n |-> 1, sw |-> 0]]
  /\ result = [m \in Cmds |-> None]
  /\ conn = 1
  /\ opened = 1
  /\ down = [e \in Conns |-> <<>>]
  /\ running = [e \in Conns |-> None]
  /\ up = [e \in Conns |-> <<>>]
  /\ push = [e \in Conns |-> None]
  /\ spoiled = {}

-----------------------------------------------------------------------------
(* The client's goroutine in the master.                                   *)

(* Look the agent up; a terminal keeps what it finds for the whole session. *)
Lookup(cl) ==
  /\ client[cl].pc = "new"
  /\ client' = [client EXCEPT ![cl].pc = IF conn = 0 THEN "done" ELSE "ready",
                              ![cl].sw = conn]
  /\ UNCHANGED <<execChannels, buf, result, netVars, spoiled>>

(* Make a channel and enter it under the container id. *)
StoreChannel(cl) ==
  /\ client[cl].pc = "ready"
  /\ execChannels' = [execChannels EXCEPT ![ContainerOf[cl]] = Current(cl)]
  /\ client' = [client EXCEPT ![cl].pc = "stored"]
  /\ spoiled' = IF \E d \in Clients \ {cl} : ContainerOf[d] = ContainerOf[cl] /\ Open(d)
                THEN spoiled \union {ContainerOf[cl]} ELSE spoiled
  /\ UNCHANGED <<buf, result, netVars>>

(* Send the request.  On a stream that is gone this may fail, or not. *)
SendCommand(cl) ==
  /\ client[cl].pc = "stored"
  /\ \/ /\ client[cl].sw = conn
        /\ down' = [down EXCEPT ![conn] = Append(@, Current(cl))]
        /\ client' = [client EXCEPT ![cl].pc = "waiting"]
        /\ UNCHANGED result
     \/ /\ client[cl].sw # conn
        /\ \/ /\ client' = [client EXCEPT ![cl].pc = "waiting"]
              /\ UNCHANGED result
           \/ /\ client' = [client EXCEPT ![cl].pc = "delete"]
              /\ result' = [result EXCEPT ![Current(cl)] = NoAnswer]
        /\ UNCHANGED down
  /\ UNCHANGED <<execChannels, buf, conn, running, up, push, opened, spoiled>>

(* Mutant: no return after the response has been written. *)
BugTakeResponse(cl) ==
  /\ client[cl].pc = "waiting"
  /\ buf[Current(cl)] # None
  /\ result' = [result EXCEPT ![Current(cl)] = buf[Current(cl)]]
  /\ buf' = [buf EXCEPT ![Current(cl)] = None]
  /\ UNCHANGED <<execChannels, client, netVars, spoiled>>

(* select: a response is in the channel. *)
TakeResponse(cl) ==
  /\ client[cl].pc = "waiting"
  /\ buf[Current(cl)] # None
  /\ result' = [result EXCEPT ![Current(cl)] = buf[Current(cl)]]
  /\ buf' = [buf EXCEPT ![Current(cl)] = None]
  /\ client' = [client EXCEPT ![cl].pc = "delete"]
  /\ UNCHANGED <<execChannels, netVars, spoiled>>

(* Mutant: no timer. *)
BugWaitsForever(cl) == FALSE /\ UNCHANGED vars

(* select: ten seconds have passed (if both are ready, Go picks either). *)
Timeout(cl) ==
  /\ client[cl].pc = "waiting"
  /\ result' = [result EXCEPT ![Current(cl)] = NoAnswer]
  /\ client' = [client EXCEPT ![cl].pc = "delete"]
  /\ spoiled' = spoiled \union {ContainerOf[cl]}
  /\ UNCHANGED <<execChannels, buf, netVars>>

(* Mutant: the error paths return without Delete. *)
BugChannelLeft(cl) ==
  /\ client[cl].pc = "delete"
  /\ execChannels' = IF result[Current(cl)] = NoAnswer THEN execChannels
                     ELSE [execChannels EXCEPT ![ContainerOf[cl]] = None]
  /\ client' = IF cl \in Terminals /\ client[cl].n < MaxCommands
               THEN [client EXCEPT ![cl].pc = "ready", ![cl].n = @ + 1]
               ELSE [client EXCEPT ![cl].pc = "done"]
  /\ UNCHANGED <<buf, result, netVars, spoiled>>

(* Delete by key, deferred or inline; a terminal may go on. *)
DeleteChannel(cl) ==
  /\ client[cl].pc = "delete"
  /\ execChannels' = [execChannels EXCEPT ![ContainerOf[cl]] = None]
  /\ client' = IF cl \in Terminals /\ client[cl].n < MaxCommands
               THEN [client EXCEPT ![cl].pc = "ready", ![cl].n = @ + 1]
               ELSE [client EXCEPT ![cl].pc = "done"]
  /\ UNCHANGED <<buf, result, netVars, spoiled>>

-----------------------------------------------------------------------------
(* The stream handler of the master.                                       *)

(* Mutants: the response goes to any channel that is waiting; a response   *)
(* nobody waits for is sent on a nil channel.                              *)
BugAnyChannel(e) ==
  /\ push[e] = None
  /\ up[e] # <<>>
  /\ \E c \in Containers :
       push' = IF execChannels[c] = None THEN push
               ELSE [push EXCEPT ![e] = [ch |-> execChannels[c], resp |-> Head(up[e])]]
  /\ up' = [up EXCEPT ![e] = Tail(@)]
  /\ UNCHANGED <<brokerVars, conn, down, running, opened, spoiled>>

BugNilChannel(e) ==
  /\ push[e] = None
  /\ up[e] # <<>>
  /\ LET m == Head(up[e]) IN
       push' = [push EXCEPT ![e] = [ch |-> execChannels[Of(m)], resp |-> m]]
  /\ up' = [up EXCEPT ![e] = Tail(@)]
  /\ UNCHANGED <<brokerVars, conn, down, running, opened, spoiled>>

(* An ExecResponse arrives: load the channel, or drop the response. *)
RecvExecResponse(e) ==
  /\ push[e] = None
  /\ up[e] # <<>>
  /\ LET m == Head(up[e])
         ch == execChannels[Of(m)]
     IN  push' = IF ch = None THEN push ELSE [push EXCEPT ![e] = [ch |-> ch, resp |-> m]]
  /\ up' = [up EXCEPT ![e] = Tail(@)]
  /\ UNCHANGED <<brokerVars, conn, down, running, opened, spoiled>>

(* ch <- resp, which waits for room. *)
PushResponse(e) ==
  /\ push[e] # None
  /\ buf[push[e].ch] = None
  /\ buf' = [buf EXCEPT ![push[e].ch] = push[e].resp]
  /\ push' = [push EXCEPT ![e] = None]
  /\ UNCHANGED <<execChannels, client, result, conn, down, running, up, opened, spoiled>>

-----------------------------------------------------------------------------
(* The agent: handleExec runs in the receive loop of a stream.             *)

AgentRecv(e) ==
  /\ conn = e
  /\ running[e] = None
  /\ down[e] # <<>>
  /\ running' = [running EXCEPT ![e] = Head(down[e])]
  /\ down' = [down EXCEPT ![e] = Tail(@)]
  /\ UNCHANGED <<brokerVars, conn, up, push, opened, spoiled>>

(* Mutant: the error path sends a response and falls through to the next. *)
BugAnswersTwice(e) ==
  /\ running[e] # None
  /\ up' = IF conn = e THEN [up EXCEPT ![e] = @ \o <<running[e], running[e]>>] ELSE up
  /\ running' = [running EXCEPT ![e] = None]
  /\ UNCHANGED <<brokerVars, conn, down, push, opened, spoiled>>

(* The command ends, or the container is not in the registry. *)
AgentAnswer(e) ==
  /\ running[e] # None
  /\ up' = IF conn = e THEN [up EXCEPT ![e] = Append(@, running[e])] ELSE up
  /\ running' = [running EXCEPT ![e] = None]
  /\ UNCHANGED <<brokerVars, conn, down, push, opened, spoiled>>

(* The stream breaks, with what was on its way.  An answer that was lost   *)
(* leaves its caller to time out.                                          *)
Break ==
  /\ Faults /\ conn # 0
  /\ conn' = 0
  /\ down' = [down EXCEPT ![conn] = <<>>]
  /\ \E n \in 0..Len(up[conn]) : up' = [up EXCEPT ![conn] = SubSeq(@, 1, n)]
  /\ UNCHANGED <<brokerVars, running, push, opened, spoiled>>

Reconnect ==
  /\ conn = 0 /\ opened < MaxConn
  /\ conn' = opened + 1
  /\ opened' = opened + 1
  /\ UNCHANGED <<brokerVars, down, running, up, push, spoiled>>

-----------------------------------------------------------------------------
ClientStep(cl) ==
  \/ Lookup(cl) \/ StoreChannel(cl) \/ SendCommand(cl)
  \/ TakeResponse(cl) \/ Timeout(cl) \/ DeleteChannel(cl)

HandlerStep(e) == RecvExecResponse(e) \/ PushResponse(e)

Next ==
  \/ \E cl \in Clients : ClientStep(cl)
  \/ \E e \in Conns : HandlerStep(e) \/ AgentRecv(e) \/ AgentAnswer(e)
  \/ Break \/ Reconnect

Spec == Init /\ [][Next]_vars

(* The master's goroutines run and its timers fire.  Nothing is assumed of *)
(* the agent or of its streams: a command may run for ever, and a response *)
(* may wait for ever.  A terminal user need not type.                      *)
Fairness ==
  \A cl \in Clients :
    WF_vars(SendCommand(cl) \/ TakeResponse(cl) \/ Timeout(cl) \/ DeleteChannel(cl))

FairSpec == Spec /\ Fairness

-----------------------------------------------------------------------------
(* Properties                                                              *)

TypeOK ==
  /\ execChannels \in [Containers -> Cmds \union {None}]
  /\ buf \in [Cmds -> Cmds \union {None}]
  /\ client \in [Clients -> [pc : {"new", "ready", "stored", "waiting", "delete", "done"},
                             n : 1..MaxCommands, sw : 0..MaxConn]]
  /\ result \in [Cmds -> Cmds \union {NoAnswer, None}]
  /\ conn \in 0..MaxConn
  /\ down \in [Conns -> Seq(Cmds)]
  /\ running \in [Conns -> Cmds \union {None}]
  /\ up \in [Conns -> Seq(Cmds)]
  /\ push \in [Conns -> [ch : Cmds, resp : Cmds] \union {None}]
  /\ opened \in 0..MaxConn
  /\ spoiled \subseteq Containers

(* execChannels holds no channel of a call that has returned: whoever      *)
(* entered one is still to delete it, or somebody else already has.        *)
NoStaleChannel ==
  \A c \in Containers : execChannels[c] # None =>
    LET cl == execChannels[c][1] IN Open(cl) /\ execChannels[c] = Current(cl)

(* Nobody is ever given the output of a command in another container, late *)
(* or misdelivered as the response may be.                                 *)
OutputOfOwnContainer ==
  \A m \in Cmds : result[m] \in Cmds => Of(result[m]) = Of(m)

(* As long as the commands of a container neither overlap nor time out,    *)
(* each is given its own output.                                           *)
OwnOutputWhenSequential ==
  \A m \in Cmds : Of(m) \notin spoiled /\ result[m] \in Cmds => result[m] = m

(* A stream handler waits for room in a channel -- and all that comes by    *)
(* its stream waits with it, for ever if need be (main.go:173) -- only on  *)
(* behalf of a container whose commands overlapped or timed out.           *)
HandlerGoesOn ==
  \A e \in Conns :
    push[e] # None /\ Of(push[e].resp) \notin spoiled => buf[push[e].ch] = None

(* Every call returns, whether the agent answers, hangs or disconnects. *)
EveryCallReturns == \A cl \in Clients : client[cl].pc = "stored" ~> ~Open(cl)

(* The calls made: those whose channel has been made. *)
Called ==
  {m \in Cmds : \/ m[2] < client[m[1]].n
                \/ m = Current(m[1]) /\ (Open(m[1]) \/ result[m] # None)}

(* The broker keeps the promise of ExecService: whatever is late, lost or  *)
(* misdelivered, a result is written once, and is no answer or the output  *)
(* of a command of that container that had been called by then.            *)
Service == INSTANCE ExecService WITH
  Calls <- Cmds, ContainerOf <- [m \in Cmds |-> Of(m)], called <- Called

KeepsPromise == Service!Spec

(* scripts/e2e.sh, test 4: the answer to a command is that command's. *)
OwnOutput == \A m \in Cmds : result[m] \in Cmds => result[m] = m

=============================================================================
