------------------------ MODULE ControlChannel_proofs ------------------------
(***************************************************************************)
(* What ControlChannel guarantees for every number of agents, hosts,       *)
(* streams and REST handlers.  The argument: a handler binds to one        *)
(* hostname, the agent's, and makes its only wrapper then (Binding); the   *)
(* registry and everybody who read it hold such wrappers only (Registry,   *)
(* Captured); so the mutex of a wrapper is the mutex of its stream         *)
(* (Senders).                                                              *)
(***************************************************************************)
EXTENDS ControlChannel, TLAPS

BindingOf(s) ==
  /\ link[s] = "unused" => hpc[s] = "none"
  /\ bound[s] \in {NoHost, HostOf(s)}
  /\ hpc[s] \in {"none", "auth", "register"} => bound[s] = NoHost
  /\ hpc[s] \in {"record", "lookup", "ack", "acking", "push"} => bound[s] = HostOf(s)
  /\ built[s] = IF bound[s] = NoHost THEN 0 ELSE 1
  /\ hpc[s] \notin {"none", "auth", "done"} => AgentOf[s] \in Trusted

Binding == \A s \in Streams : BindingOf(s)

RegistryOf(h) ==
  streams[h] # NoWrapper =>
    /\ streams[h][2] = 1
    /\ Alive(streams[h][1])
    /\ bound[streams[h][1]] = h

Registry == \A h \in Hosts : RegistryOf(h)

AckHeld(s) ==
  /\ ackTo[s] # NoWrapper => ackTo[s][2] = 1
  /\ hpc[s] \in {"ack", "acking"} => ackTo[s] # NoWrapper

CommandHeld(c) ==
  caller[c].pc # "idle" =>
    /\ caller[c].sw # NoWrapper
    /\ caller[c].sw[2] = 1

Captured ==
  /\ \A s \in Streams : AckHeld(s)
  /\ \A c \in Callers : CommandHeld(c)

Senders ==
  /\ \A s, t \in Streams :
       s # t /\ hpc[s] = "acking" /\ hpc[t] = "acking" => ackTo[s] # ackTo[t]
  /\ \A c, d \in Callers :
       c # d /\ caller[c].pc = "sending" /\ caller[d].pc = "sending"
         => caller[c].sw # caller[d].sw
  /\ \A s \in Streams, c \in Callers :
       hpc[s] = "acking" /\ caller[c].pc = "sending" => ackTo[s] # caller[c].sw

IInv == TypeOK /\ Binding /\ Registry /\ Captured /\ Senders

-----------------------------------------------------------------------------
(* The initial state: no handler, no registration, nobody sending. *)
LEMMA InitIInv == Init => IInv
  BY ConstantsAssumption
  DEF Init, IInv, TypeOK, Binding, BindingOf, Registry, RegistryOf, Captured,
      AckHeld, CommandHeld, Senders, Idle

USE DEF agentVars, handlerVars, masterVars

(* Every step keeps the variables in their types. *)
LEMMA TypeStep == IInv /\ [Next]_vars => TypeOK'
<1> SUFFICES ASSUME IInv, [Next]_vars PROVE TypeOK'
  OBVIOUS
<1> USE ConstantsAssumption DEF IInv, TypeOK, Wrappers, HostOf, Idle
<1>1. ASSUME NEW a \in Agents, AgentStep(a) PROVE TypeOK'
  <2>1. ASSUME NEW s \in Streams, Connect(a, s) PROVE TypeOK'
    BY <2>1 DEF Connect
  <2>2. CASE Heartbeat(a)
    BY <2>2 DEF Heartbeat
  <2>3. CASE AgentNotices(a)
    BY <2>3 DEF AgentNotices
  <2>4. CASE AgentCrash(a)
    BY <2>4 DEF AgentCrash
  <2> QED BY <1>1, <2>1, <2>2, <2>3, <2>4 DEF AgentStep
<1>2. ASSUME NEW s \in Streams, HandlerStep(s) PROVE TypeOK'
  <2>1. CASE AuthAccept(s) \/ AuthReject(s)
    BY <2>1 DEF AuthAccept, AuthReject
  <2>2. CASE RecvMetrics(s)
    BY <2>2 DEF RecvMetrics
  <2>3. CASE Register(s)
    BY <2>3 DEF Register
  <2>4. CASE RecordMetrics(s)
    BY <2>4 DEF RecordMetrics
  <2>5. CASE LookupAck(s)
    BY <2>5 DEF LookupAck
  <2>6. CASE LockAck(s) \/ SendAck(s)
    BY <2>6 DEF LockAck, SendAck
  <2>7. CASE RecvError(s)
    BY <2>7 DEF RecvError
  <2>8. CASE Exit(s)
    BY <2>8 DEF Exit
  <2> QED BY <1>2, <2>1, <2>2, <2>3, <2>4, <2>5, <2>6, <2>7, <2>8 DEF HandlerStep
<1>3. ASSUME NEW s \in Streams, ConnectionLost(s) PROVE TypeOK'
  BY <1>3 DEF ConnectionLost
<1>7. ASSUME NEW s \in Streams, ExecStep(s) PROVE TypeOK'
  BY <1>7 DEF ExecStep, RecvExecResponse, PushResponse
<1>4. ASSUME NEW c \in Callers, CallerStep(c) PROVE TypeOK'
  <2>1. ASSUME NEW h \in Hosts, Lookup(c, h) PROVE TypeOK'
    BY <2>1 DEF Lookup
  <2>2. ASSUME NEW h \in Hosts, LookupOffline(c, h) PROVE TypeOK'
    BY <2>2 DEF LookupOffline, vars
  <2>3. CASE LockSend(c)
    <3> DEFINE T == [pc : {"idle", "found", "sending"},
                     sw : Wrappers \union {NoWrapper}]
               r == [caller[c] EXCEPT !.pc = "sending"]
    <3>1. caller \in [Callers -> T] /\ caller[c] \in T
      BY DEF TypeOK
    <3>2. r \in T
      BY <3>1
    <3>3. caller' = [caller EXCEPT ![c] = r]
      BY <2>3 DEF LockSend
    <3>4. caller' \in [Callers -> T]
      BY <3>1, <3>2, <3>3
    <3> QED BY <2>3, <3>4 DEF LockSend
  <2>4. CASE FinishSend(c)
    BY <2>4 DEF FinishSend
  <2> QED BY <1>4, <2>1, <2>2, <2>3, <2>4 DEF CallerStep
<1>5. CASE MasterRestart
  BY <1>5 DEF MasterRestart
<1>6. CASE UNCHANGED vars
  BY <1>6 DEF vars
<1> QED BY <1>1, <1>2, <1>3, <1>4, <1>5, <1>6, <1>7 DEF Next

-----------------------------------------------------------------------------
(* A handler knows its hostname exactly from Register on, made one wrapper *)
(* then, and got past the token check.                                     *)
LEMMA BindingStep == IInv /\ [Next]_vars => Binding'
<1> SUFFICES ASSUME IInv, [Next]_vars, NEW x \in Streams PROVE BindingOf(x)'
  BY DEF Binding
<1> USE ConstantsAssumption DEF IInv, TypeOK, Binding, BindingOf, HostOf
<1>1. ASSUME NEW a \in Agents, AgentStep(a) PROVE BindingOf(x)'
  BY <1>1 DEF AgentStep, Connect, Heartbeat, AgentNotices, AgentCrash
<1>2. ASSUME NEW s \in Streams, HandlerStep(s) PROVE BindingOf(x)'
  <2>1. CASE AuthAccept(s) \/ AuthReject(s)
    BY <2>1 DEF AuthAccept, AuthReject
  <2>2. CASE RecvMetrics(s) \/ RecordMetrics(s) \/ RecvError(s)
    BY <2>2 DEF RecvMetrics, RecordMetrics, RecvError
  <2>3. CASE Register(s)
    BY <2>3 DEF Register
  <2>4. CASE LookupAck(s) \/ LockAck(s) \/ SendAck(s)
    BY <2>4 DEF LookupAck, LockAck, SendAck
  <2>5. CASE Exit(s)
    BY <2>5 DEF Exit
  <2> QED BY <1>2, <2>1, <2>2, <2>3, <2>4, <2>5 DEF HandlerStep
<1>3. ASSUME NEW s \in Streams, ConnectionLost(s) PROVE BindingOf(x)'
  BY <1>3 DEF ConnectionLost
<1>7. ASSUME NEW s \in Streams, ExecStep(s) PROVE BindingOf(x)'
  BY <1>7 DEF ExecStep, RecvExecResponse, PushResponse
<1>4. ASSUME NEW c \in Callers, CallerStep(c) PROVE BindingOf(x)'
  BY <1>4 DEF CallerStep, Lookup, LookupOffline, LockSend, FinishSend, vars
<1>5. CASE MasterRestart
  BY <1>5 DEF MasterRestart, Alive
<1>6. CASE UNCHANGED vars
  BY <1>6 DEF vars
<1> QED BY <1>1, <1>2, <1>3, <1>4, <1>5, <1>6, <1>7 DEF Next

(* A wrapper leaves the registry when any handler bound to its hostname    *)
(* returns, hence at the latest when its own does.                         *)
LEMMA RegistryStep == IInv /\ [Next]_vars => Registry'
<1> SUFFICES ASSUME IInv, [Next]_vars, NEW h \in Hosts PROVE RegistryOf(h)'
  BY DEF Registry
<1> USE ConstantsAssumption DEF IInv, TypeOK, Registry, RegistryOf, Alive, Wrappers
<1>1. ASSUME NEW a \in Agents, AgentStep(a) PROVE RegistryOf(h)'
  BY <1>1 DEF AgentStep, Connect, Heartbeat, AgentNotices, AgentCrash
<1>2. ASSUME NEW s \in Streams, HandlerStep(s) PROVE RegistryOf(h)'
  <2>1. CASE AuthAccept(s) \/ AuthReject(s)
    BY <2>1 DEF AuthAccept, AuthReject, Binding, BindingOf
  <2>2. CASE RecvMetrics(s) \/ RecordMetrics(s) \/ RecvError(s)
    BY <2>2 DEF RecvMetrics, RecordMetrics, RecvError
  <2>3. CASE Register(s)
    BY <2>3 DEF Register, Binding, BindingOf, HostOf
  <2>4. CASE LookupAck(s) \/ LockAck(s) \/ SendAck(s)
    BY <2>4 DEF LookupAck, LockAck, SendAck
  <2>5. CASE Exit(s)
    BY <2>5 DEF Exit
  <2> QED BY <1>2, <2>1, <2>2, <2>3, <2>4, <2>5 DEF HandlerStep
<1>3. ASSUME NEW s \in Streams, ConnectionLost(s) PROVE RegistryOf(h)'
  BY <1>3 DEF ConnectionLost
<1>7. ASSUME NEW s \in Streams, ExecStep(s) PROVE RegistryOf(h)'
  BY <1>7 DEF ExecStep, RecvExecResponse, PushResponse
<1>4. ASSUME NEW c \in Callers, CallerStep(c) PROVE RegistryOf(h)'
  BY <1>4 DEF CallerStep, Lookup, LookupOffline, LockSend, FinishSend, vars
<1>5. CASE MasterRestart
  BY <1>5 DEF MasterRestart
<1>6. CASE UNCHANGED vars
  BY <1>6 DEF vars
<1> QED BY <1>1, <1>2, <1>3, <1>4, <1>5, <1>6, <1>7 DEF Next

(* Whoever holds a wrapper read it from the registry. *)
LEMMA CapturedStep == IInv /\ [Next]_vars => Captured'
<1> SUFFICES ASSUME IInv, [Next]_vars
             PROVE  /\ \A x \in Streams : AckHeld(x)'
                    /\ \A d \in Callers : CommandHeld(d)'
  BY DEF Captured
<1> USE ConstantsAssumption DEF IInv, TypeOK, Captured, AckHeld, CommandHeld, Wrappers
<1>1. ASSUME NEW x \in Streams PROVE AckHeld(x)'
  <2>1. ASSUME NEW a \in Agents, AgentStep(a) PROVE AckHeld(x)'
    BY <2>1 DEF AgentStep, Connect, Heartbeat, AgentNotices, AgentCrash
  <2>2. ASSUME NEW s \in Streams, HandlerStep(s) PROVE AckHeld(x)'
    <3>1. CASE AuthAccept(s) \/ AuthReject(s)
      BY <3>1 DEF AuthAccept, AuthReject
    <3>2. CASE RecvMetrics(s) \/ Register(s) \/ RecordMetrics(s)
      BY <3>2 DEF RecvMetrics, Register, RecordMetrics
    <3>3. CASE LookupAck(s)
      BY <3>3 DEF LookupAck, Registry, RegistryOf, HostOf
    <3>4. CASE LockAck(s) \/ SendAck(s)
      BY <3>4 DEF LockAck, SendAck
    <3>5. CASE RecvError(s) \/ Exit(s)
      BY <3>5 DEF RecvError, Exit
    <3> QED BY <2>2, <3>1, <3>2, <3>3, <3>4, <3>5 DEF HandlerStep
  <2>3. ASSUME NEW s \in Streams, ConnectionLost(s) PROVE AckHeld(x)'
    BY <2>3 DEF ConnectionLost
  <2>7. ASSUME NEW s \in Streams, ExecStep(s) PROVE AckHeld(x)'
    BY <2>7 DEF ExecStep, RecvExecResponse, PushResponse
  <2>4. ASSUME NEW c \in Callers, CallerStep(c) PROVE AckHeld(x)'
    BY <2>4 DEF CallerStep, Lookup, LookupOffline, LockSend, FinishSend, vars
  <2>5. CASE MasterRestart
    BY <2>5 DEF MasterRestart, Alive
  <2>6. CASE UNCHANGED vars
    BY <2>6 DEF vars
  <2> QED BY <2>1, <2>2, <2>3, <2>4, <2>5, <2>6, <2>7 DEF Next
<1>2. ASSUME NEW d \in Callers PROVE CommandHeld(d)'
  <2>1. ASSUME NEW a \in Agents, AgentStep(a) PROVE CommandHeld(d)'
    BY <2>1 DEF AgentStep, Connect, Heartbeat, AgentNotices, AgentCrash
  <2>2. ASSUME NEW s \in Streams, HandlerStep(s) PROVE CommandHeld(d)'
    BY <2>2 DEF HandlerStep, AuthAccept, AuthReject, RecvMetrics, Register,
                RecordMetrics, LookupAck, LockAck, SendAck, RecvError, Exit
  <2>3. ASSUME NEW s \in Streams, ConnectionLost(s) PROVE CommandHeld(d)'
    BY <2>3 DEF ConnectionLost
  <2>7. ASSUME NEW s \in Streams, ExecStep(s) PROVE CommandHeld(d)'
    BY <2>7 DEF ExecStep, RecvExecResponse, PushResponse
  <2>4. ASSUME NEW c \in Callers, CallerStep(c) PROVE CommandHeld(d)'
    <3>1. ASSUME NEW h \in Hosts, Lookup(c, h) PROVE CommandHeld(d)'
      BY <3>1 DEF Lookup, Registry, RegistryOf
    <3>2. ASSUME NEW h \in Hosts, LookupOffline(c, h) PROVE CommandHeld(d)'
      BY <3>2 DEF LookupOffline, vars
    <3>3. CASE LockSend(c)
      BY <3>3 DEF LockSend
    <3>4. CASE FinishSend(c)
      BY <3>4 DEF FinishSend, Idle
    <3> QED BY <2>4, <3>1, <3>2, <3>3, <3>4 DEF CallerStep
  <2>5. CASE MasterRestart
    BY <2>5 DEF MasterRestart, Idle
  <2>6. CASE UNCHANGED vars
    BY <2>6 DEF vars
  <2> QED BY <2>1, <2>2, <2>3, <2>4, <2>5, <2>6, <2>7 DEF Next
<1> QED BY <1>1, <1>2

(* The mutex of a wrapper admits one sender. *)
LEMMA SendersStep == IInv /\ [Next]_vars => Senders'
<1> SUFFICES ASSUME IInv, [Next]_vars PROVE Senders'
  OBVIOUS
<1> USE ConstantsAssumption DEF IInv, TypeOK, Senders
<1>1. ASSUME NEW a \in Agents, AgentStep(a) PROVE Senders'
  BY <1>1 DEF AgentStep, Connect, Heartbeat, AgentNotices, AgentCrash
<1>2. ASSUME NEW s \in Streams, HandlerStep(s) PROVE Senders'
  <2>1. CASE AuthAccept(s) \/ AuthReject(s)
    BY <2>1 DEF AuthAccept, AuthReject
  <2>2. CASE RecvMetrics(s) \/ Register(s) \/ RecordMetrics(s) \/ LookupAck(s) \/ SendAck(s)
    <3>1. /\ \A x \in Streams : hpc'[x] = "acking" => hpc[x] = "acking" /\ ackTo'[x] = ackTo[x]
          /\ caller' = caller
      BY <2>2 DEF RecvMetrics, Register, RecordMetrics, LookupAck, SendAck
    <3> QED BY <3>1
  <2>3. CASE LockAck(s)
    BY <2>3 DEF LockAck, Locked
  <2>4. CASE RecvError(s) \/ Exit(s)
    BY <2>4 DEF RecvError, Exit
  <2> QED BY <1>2, <2>1, <2>2, <2>3, <2>4 DEF HandlerStep
<1>3. ASSUME NEW s \in Streams, ConnectionLost(s) PROVE Senders'
  BY <1>3 DEF ConnectionLost
<1>7. ASSUME NEW s \in Streams, ExecStep(s) PROVE Senders'
  BY <1>7 DEF ExecStep, RecvExecResponse, PushResponse
<1>4. ASSUME NEW c \in Callers, CallerStep(c) PROVE Senders'
  <2>1. ASSUME NEW h \in Hosts, Lookup(c, h) \/ LookupOffline(c, h) PROVE Senders'
    <3>1. /\ \A d \in Callers : caller'[d].pc = "sending" => caller'[d] = caller[d]
          /\ hpc' = hpc /\ ackTo' = ackTo
      BY <2>1 DEF Lookup, LookupOffline, vars
    <3> QED BY <3>1
  <2>2. CASE LockSend(c)
    BY <2>2 DEF LockSend, Locked
  <2>3. CASE FinishSend(c)
    BY <2>3 DEF FinishSend, Idle
  <2> QED BY <1>4, <2>1, <2>2, <2>3 DEF CallerStep
<1>5. CASE MasterRestart
  BY <1>5 DEF MasterRestart, Idle, Alive
<1>6. CASE UNCHANGED vars
  BY <1>6 DEF vars
<1> QED BY <1>1, <1>2, <1>3, <1>4, <1>5, <1>6, <1>7 DEF Next

-----------------------------------------------------------------------------
(* The inductive invariant. *)
THEOREM Invariance == Spec => []IInv
<1>1. IInv /\ [Next]_vars => IInv'
  BY TypeStep, BindingStep, RegistryStep, CapturedStep, SendersStep DEF IInv
<1> QED BY InitIInv, <1>1, PTL DEF Spec

(* Type correctness. *)
THEOREM TypeCorrect == Spec => []TypeOK
<1>1. IInv => TypeOK
  BY DEF IInv
<1> QED BY Invariance, <1>1, PTL

(* The registry never names a stream whose ControlChannel call returned. *)
THEOREM NoDeadStreamHolds == Spec => []NoDeadStream
<1>1. IInv => NoDeadStream
  BY DEF IInv, Registry, RegistryOf, NoDeadStream, StreamOf
<1> QED BY Invariance, <1>1, PTL

(* Only agents that passed the token check can be commanded. *)
THEOREM OnlyTrusted == Spec => []OnlyTrustedStreams
<1>1. IInv => OnlyTrustedStreams
  <2> SUFFICES ASSUME IInv, NEW h \in Hosts, streams[h] # NoWrapper
               PROVE  AgentOf[streams[h][1]] \in Trusted
    BY DEF OnlyTrustedStreams, StreamOf
  <2>1. streams[h][1] \in Streams
    BY DEF IInv, TypeOK, Wrappers
  <2>2. Alive(streams[h][1]) /\ bound[streams[h][1]] # NoHost
    BY ConstantsAssumption DEF IInv, Registry, RegistryOf
  <2> QED BY <2>1, <2>2 DEF IInv, Binding, BindingOf, Alive
<1> QED BY Invariance, <1>1, PTL

(* A handler's first wrapper is determined by its stream. *)
LEMMA OneWrapper ==
  ASSUME NEW v \in Wrappers, NEW w \in Wrappers, v[2] = 1, w[2] = 1, v # w
  PROVE  v[1] # w[1]
  BY DEF Wrappers

(* One SendMsg at a time on every gRPC stream. *)
THEOREM SendersExclude == Spec => []SendExclusion
<1>1. IInv => SendExclusion
  <2> SUFFICES ASSUME IInv PROVE SendExclusion
    OBVIOUS
  <2>1. \A s \in Streams : hpc[s] = "acking" => ackTo[s] \in Wrappers /\ ackTo[s][2] = 1
    BY DEF IInv, TypeOK, Captured, AckHeld
  <2>2. \A c \in Callers : caller[c].pc = "sending" =>
                             caller[c].sw \in Wrappers /\ caller[c].sw[2] = 1
    BY DEF IInv, TypeOK, Captured, CommandHeld
  <2>3. ASSUME NEW s \in Streams, NEW t \in Streams, s # t
        PROVE  AckingOn(s) \cap AckingOn(t) = {}
    BY <2>1, <2>3, OneWrapper DEF IInv, Senders, AckingOn, StreamOf
  <2>4. ASSUME NEW c \in Callers, NEW d \in Callers, c # d
        PROVE  SendingOn(c) \cap SendingOn(d) = {}
    BY <2>2, <2>4, OneWrapper DEF IInv, Senders, SendingOn, StreamOf
  <2>5. ASSUME NEW s \in Streams, NEW c \in Callers
        PROVE  AckingOn(s) \cap SendingOn(c) = {}
    BY <2>1, <2>2, OneWrapper DEF IInv, Senders, AckingOn, SendingOn, StreamOf
  <2> QED BY <2>3, <2>4, <2>5 DEF SendExclusion
<1> QED BY Invariance, <1>1, PTL
=============================================================================
