-------------------------- MODULE ExecBroker_proofs --------------------------
(***************************************************************************)
(* Proofs about ExecBroker, for any clients, containers, commands per      *)
(* terminal and streams, and any faults.  The argument: a channel is       *)
(* entered for the current command of an open client, under its own        *)
(* container (Channels); results are written while their command is the    *)
(* current one (Results); what is on its way was called (Handed), and what *)
(* is on its way to a caller comes from its container (Routed).  Commands  *)
(* that neither overlap nor time out are on their way one at a time and    *)
(* only while they are awaited (InTurn, further down).                     *)
(***************************************************************************)
EXTENDS ExecBroker, SequenceTheorems, TLAPS

ChannelOf(c) ==
  execChannels[c] # None =>
    /\ Open(execChannels[c][1])
    /\ execChannels[c] = Current(execChannels[c][1])
    /\ ContainerOf[execChannels[c][1]] = c

Channels == \A c \in Containers : ChannelOf(c)

ResultsOf(cl) ==
  /\ \A k \in 1..MaxCommands : k > client[cl].n => result[<<cl, k>>] = None
  /\ client[cl].pc \in {"new", "ready", "stored", "waiting"} => result[Current(cl)] = None
  /\ client[cl].pc = "delete" => result[Current(cl)] # None
  /\ client[cl].pc \in {"ready", "stored", "waiting", "delete"} => client[cl].sw \in Conns

Results == \A cl \in Clients : ResultsOf(cl)

HandedOn(e) ==
  /\ down[e] \in Seq(Called) /\ up[e] \in Seq(Called)
  /\ running[e] # None => running[e] \in Called
  /\ push[e] # None => push[e].resp \in Called

Handed ==
  /\ \A e \in Conns : HandedOn(e)
  /\ \A m \in Cmds : buf[m] # None => buf[m] \in Called

Routed ==
  /\ \A m \in Cmds : buf[m] # None => Of(buf[m]) = Of(m)
  /\ \A e \in Conns : push[e] # None => Of(push[e].ch) = Of(push[e].resp)

IInv == TypeOK /\ Channels /\ Results /\ Handed /\ Routed /\ OutputOfOwnContainer

-----------------------------------------------------------------------------
(* Commands are pairs, and the current command of a client is one.         *)
LEMMA Pairs ==
  /\ \A m \in Cmds : m[1] \in Clients /\ m[2] \in 1..MaxCommands /\ m = <<m[1], m[2]>>
                     /\ m # None /\ m # NoAnswer
  /\ \A cl \in Clients : TypeOK => Current(cl) \in Cmds /\ Of(Current(cl)) = ContainerOf[cl]
  BY ConstantsAssumption DEF Cmds, Current, Of, TypeOK

(* A sequence of things called is one of commands, and stays one.          *)
LEMMA SeqMono == ASSUME NEW S, NEW T, S \subseteq T PROVE Seq(S) \subseteq Seq(T)
  OBVIOUS

(* Initially nothing has been called.                                      *)
LEMMA InitIInv == Init => IInv
<1> SUFFICES ASSUME Init PROVE IInv
  OBVIOUS
<1> USE ConstantsAssumption DEF Init
<1>1. TypeOK
  BY DEF TypeOK, Conns
<1>2. Channels /\ Results /\ Routed
  BY DEF Channels, ChannelOf, Results, ResultsOf, Routed, Cmds, Current
<1>3. Handed
  BY DEF Handed, HandedOn
<1>4. OutputOfOwnContainer
  BY Pairs DEF OutputOfOwnContainer
<1> QED BY <1>1, <1>2, <1>3, <1>4 DEF IInv

USE DEF brokerVars, netVars

(* Where a client may stand. *)
ClientStates == [pc : {"new", "ready", "stored", "waiting", "delete", "done"},
                 n : 1..MaxCommands, sw : 0..MaxConn]

(* The first element, the rest and a part of a sequence of commands.       *)
LEMMA Sequences ==
  ASSUME NEW S, NEW q \in Seq(S)
  PROVE  /\ q # <<>> => Head(q) \in S /\ Tail(q) \in Seq(S)
         /\ \A n \in 0..Len(q) : SubSeq(q, 1, n) \in Seq(S)
         /\ \A x \in S : Append(q, x) \in Seq(S)
<1>1. q # <<>> => Head(q) \in S /\ Tail(q) \in Seq(S)
  BY HeadTailProperties
<1>2. ASSUME NEW n \in 0..Len(q) PROVE SubSeq(q, 1, n) \in Seq(S)
  BY SubSeqProperties
<1>3. ASSUME NEW x \in S PROVE Append(q, x) \in Seq(S)
  BY AppendProperties
<1> QED BY <1>1, <1>2, <1>3

(* The updates that are made to it.                                        *)
LEMMA Updates ==
  ASSUME NEW r \in ClientStates
  PROVE  /\ \A s \in {"stored", "waiting", "delete", "done"} : [r EXCEPT !.pc = s] \in ClientStates
         /\ r.n < MaxCommands => [r EXCEPT !.pc = "ready", !.n = @ + 1] \in ClientStates
<1>1. ASSUME NEW s \in {"stored", "waiting", "delete", "done"}
      PROVE  [r EXCEPT !.pc = s] \in ClientStates
  BY DEF ClientStates
<1>2. ASSUME r.n < MaxCommands PROVE [r EXCEPT !.pc = "ready", !.n = @ + 1] \in ClientStates
  <2>1. r.n + 1 \in 1..MaxCommands
    BY <1>2, ConstantsAssumption DEF ClientStates
  <2> QED BY <2>1 DEF ClientStates
<1> QED BY <1>1, <1>2

(* After its Delete a terminal goes on to its next command, or is done.    *)
LEMMA DeleteState ==
  ASSUME client \in [Clients -> ClientStates], NEW cl \in Clients, DeleteChannel(cl)
  PROVE  client' \in [Clients -> ClientStates]
<1>1. CASE cl \in Terminals /\ client[cl].n < MaxCommands
  <2>1. client' = [client EXCEPT ![cl] = [client[cl] EXCEPT !.pc = "ready", !.n = @ + 1]]
    BY <1>1 DEF DeleteChannel
  <2>2. [client[cl] EXCEPT !.pc = "ready", !.n = @ + 1] \in ClientStates
    BY <1>1, Updates
  <2> QED BY <2>1, <2>2
<1>2. CASE ~(cl \in Terminals /\ client[cl].n < MaxCommands)
  <2>1. client' = [client EXCEPT ![cl] = [client[cl] EXCEPT !.pc = "done"]]
    BY <1>2 DEF DeleteChannel
  <2>2. [client[cl] EXCEPT !.pc = "done"] \in ClientStates
    BY Updates
  <2> QED BY <2>1, <2>2
<1> QED BY <1>1, <1>2

(* Every step keeps the types.                                             *)
LEMMA TypeStep == IInv /\ [Next]_vars => TypeOK'
<1> SUFFICES ASSUME IInv, [Next]_vars PROVE TypeOK'
  OBVIOUS
<1> USE ConstantsAssumption DEF IInv, TypeOK, Conns
<1>1. ASSUME NEW cl \in Clients, ClientStep(cl) PROVE TypeOK'
  <2>0. Current(cl) \in Cmds /\ client[cl] \in ClientStates /\ ContainerOf[cl] \in Containers
    BY Pairs DEF ClientStates
  <2>1. CASE Lookup(cl)
    <3>1. client'[cl] \in ClientStates
      BY <2>0, <2>1 DEF Lookup, ClientStates
    <3>2. client' \in [Clients -> ClientStates]
      BY <2>1, <3>1 DEF Lookup, ClientStates
    <3> QED BY <2>1, <3>2 DEF Lookup, ClientStates
  <2>2. CASE StoreChannel(cl)
    BY <2>0, <2>2 DEF StoreChannel
  <2>3. CASE SendCommand(cl)
    <3>1. client' = [client EXCEPT ![cl].pc = "waiting"]
          \/ client' = [client EXCEPT ![cl].pc = "delete"]
      BY <2>3 DEF SendCommand
    <3>2. client' \in [Clients -> ClientStates]
      <4>1. client \in [Clients -> ClientStates]
        BY DEF ClientStates
      <4> QED BY <2>0, <3>1, <4>1, Updates
    <3>3. result' \in [Cmds -> Cmds \union {NoAnswer, None}]
      BY <2>0, <2>3 DEF SendCommand
    <3>4. CASE client[cl].sw = conn
      <4>1. conn \in Conns
        BY <2>3, <3>4 DEF SendCommand, Results, ResultsOf
      <4>2. Append(down[conn], Current(cl)) \in Seq(Cmds)
        BY <2>0, <4>1, Sequences
      <4>3. down' = [down EXCEPT ![conn] = Append(down[conn], Current(cl))]
        BY <2>3, <3>4 DEF SendCommand
      <4> QED BY <2>3, <3>2, <3>3, <4>2, <4>3 DEF SendCommand, ClientStates
    <3>5. CASE client[cl].sw # conn
      BY <2>3, <3>2, <3>3, <3>5 DEF SendCommand, ClientStates
    <3> QED BY <3>4, <3>5
  <2>4. CASE TakeResponse(cl)
    BY <2>0, <2>4 DEF TakeResponse
  <2>5. CASE Timeout(cl)
    BY <2>0, <2>5 DEF Timeout
  <2>6. CASE DeleteChannel(cl)
    <3>1. client \in [Clients -> ClientStates]
      BY DEF ClientStates
    <3>2. client' \in [Clients -> ClientStates]
      BY <2>6, <3>1, DeleteState
    <3> QED BY <2>0, <2>6, <3>2 DEF DeleteChannel, ClientStates
  <2> QED BY <1>1, <2>1, <2>2, <2>3, <2>4, <2>5, <2>6 DEF ClientStep
<1>2. ASSUME NEW e \in Conns, HandlerStep(e) \/ AgentRecv(e) \/ AgentAnswer(e)
      PROVE  TypeOK'
  <2>1. CASE RecvExecResponse(e)
    <3>1. Head(up[e]) \in Cmds /\ Tail(up[e]) \in Seq(Cmds)
      BY <2>1, Sequences DEF RecvExecResponse
    <3>2. Of(Head(up[e])) \in Containers
      BY <3>1, Pairs DEF Of
    <3>3. push' \in [Conns -> [ch : Cmds, resp : Cmds] \union {None}]
      BY <2>1, <3>1, <3>2 DEF RecvExecResponse
    <3> QED BY <2>1, <3>1, <3>3 DEF RecvExecResponse
  <2>2. CASE PushResponse(e)
    BY <2>2 DEF PushResponse
  <2>3. CASE AgentRecv(e)
    <3>1. Head(down[e]) \in Cmds /\ Tail(down[e]) \in Seq(Cmds)
      BY <2>3, Sequences DEF AgentRecv
    <3> QED BY <2>3, <3>1 DEF AgentRecv
  <2>4. CASE AgentAnswer(e)
    <3>1. Append(up[e], running[e]) \in Seq(Cmds)
      BY <2>4, Sequences DEF AgentAnswer
    <3> QED BY <2>4, <3>1 DEF AgentAnswer
  <2> QED BY <1>2, <2>1, <2>2, <2>3, <2>4 DEF HandlerStep
<1>3. CASE Break
  <2>1. down' \in [Conns -> Seq(Cmds)]
    BY <1>3 DEF Break
  <2>2. PICK n \in 0..Len(up[conn]) : up' = [up EXCEPT ![conn] = SubSeq(up[conn], 1, n)]
    BY <1>3 DEF Break
  <2>3. SubSeq(up[conn], 1, n) \in Seq(Cmds)
    BY <1>3, Sequences DEF Break
  <2>4. up' \in [Conns -> Seq(Cmds)]
    BY <2>2, <2>3
  <2> QED BY <1>3, <2>1, <2>4 DEF Break
<1>4. CASE Reconnect
  BY <1>4 DEF Reconnect
<1>5. CASE UNCHANGED vars
  BY <1>5 DEF vars
<1> QED BY <1>1, <1>2, <1>3, <1>4, <1>5 DEF Next

-----------------------------------------------------------------------------
(* What is entered and what is written, from one step to the next.         *)

(* No step but StoreChannel calls anything, and that calls one command.    *)
LEMMA CalledStep ==
  ASSUME IInv, NEW cl \in Clients
  PROVE  /\ StoreChannel(cl) => Called' = Called \union {Current(cl)} /\ Current(cl) \notin Called
         /\ Lookup(cl) \/ SendCommand(cl) \/ TakeResponse(cl) \/ Timeout(cl) \/ DeleteChannel(cl)
              => Called' = Called
         /\ UNCHANGED <<client, result>> => Called' = Called
<1> USE ConstantsAssumption DEF IInv
<1> DEFINE C(m) == \/ m[2] < client[m[1]].n
                   \/ m = Current(m[1]) /\ (Open(m[1]) \/ result[m] # None)
<1>0. Called = {m \in Cmds : C(m)} /\ Called' = {m \in Cmds : C(m)'}
  BY DEF Called
<1>1. Current(cl) \in Cmds /\ client \in [Clients -> ClientStates]
      /\ result \in [Cmds -> Cmds \union {NoAnswer, None}]
  BY Pairs DEF TypeOK, ClientStates
<1>2. ResultsOf(cl)
  BY DEF Results
<1>3. ASSUME StoreChannel(cl)
      PROVE  Called' = Called \union {Current(cl)} /\ Current(cl) \notin Called
  <2>1. ASSUME NEW m \in Cmds, m = Current(cl) PROVE ~C(m) /\ C(m)'
    BY <2>1, <1>1, <1>2, <1>3 DEF StoreChannel, ResultsOf, Current, Open, ClientStates
  <2>2. ASSUME NEW m \in Cmds, m # Current(cl) PROVE C(m)' <=> C(m)
    BY <1>1, <1>3, <2>2, Pairs DEF StoreChannel, Current, Open, ClientStates
  <2>3. Current(cl) \notin Called /\ Current(cl) \in Called'
    BY <1>0, <1>1, <2>1
  <2>4. ASSUME NEW m \in Cmds, m # Current(cl) PROVE m \in Called' <=> m \in Called
    BY <1>0, <2>2, <2>4
  <2>5. Called \subseteq Cmds /\ Called' \subseteq Cmds
    BY <1>0
  <2> HIDE <1>0
  <2> QED BY <1>1, <2>3, <2>4, <2>5
<1>4. ASSUME Lookup(cl) \/ SendCommand(cl) \/ TakeResponse(cl) \/ Timeout(cl)
      PROVE  Called' = Called
  <2> SUFFICES ASSUME NEW m \in Cmds PROVE C(m)' <=> C(m)
    BY <1>0
  <2>1. CASE m[1] = cl
    BY <1>1, <1>2, <1>4, <2>1, Pairs
    DEF Lookup, SendCommand, TakeResponse, Timeout, ResultsOf, Current, Open, ClientStates
  <2>2. CASE m[1] # cl
    BY <1>1, <1>4, <2>2, Pairs
    DEF Lookup, SendCommand, TakeResponse, Timeout, Current, Open, ClientStates
  <2> QED BY <2>1, <2>2
<1>5. ASSUME DeleteChannel(cl) PROVE Called' = Called
  <2> SUFFICES ASSUME NEW m \in Cmds PROVE C(m)' <=> C(m)
    BY <1>0
  <2>1. CASE m[1] = cl
    <3>1. client[cl].n \in 1..MaxCommands /\ client[cl].pc = "delete"
      BY <1>1, <1>5 DEF DeleteChannel, ClientStates
    <3>2. client'[cl].n >= client[cl].n
          /\ \/ client'[cl].n = client[cl].n + 1 /\ client'[cl].pc = "ready"
             \/ client'[cl].n = client[cl].n /\ client'[cl].pc = "done"
      BY <1>1, <1>5, <3>1 DEF DeleteChannel, ClientStates
    <3>3. result' = result /\ m = <<cl, m[2]>> /\ m[2] \in 1..MaxCommands
      BY <1>5, <2>1, Pairs DEF DeleteChannel
    <3>4. CASE m[2] > client[cl].n
      BY <1>2, <2>1, <3>1, <3>2, <3>3, <3>4 DEF ResultsOf, Current, Open
    <3>5. CASE m[2] = client[cl].n
      BY <1>2, <2>1, <3>1, <3>2, <3>3, <3>5 DEF ResultsOf, Current, Open
    <3>6. CASE m[2] < client[cl].n
      BY <2>1, <3>1, <3>2, <3>3, <3>6
    <3> QED BY <3>1, <3>3, <3>4, <3>5, <3>6
  <2>2. CASE m[1] # cl
    BY <1>1, <1>5, <2>2, Pairs DEF DeleteChannel, Current, Open, ClientStates
  <2> QED BY <2>1, <2>2
<1>6. ASSUME UNCHANGED <<client, result>> PROVE Called' = Called
  BY <1>6 DEF Called, Current, Open
<1> QED BY <1>3, <1>4, <1>5, <1>6

(* A client's step changes its own position and its own results only.      *)
LEMMA ClientFrame ==
  ASSUME TypeOK, NEW cl \in Clients, ClientStep(cl)
  PROVE  /\ \A d \in Clients \ {cl} : client'[d] = client[d] /\ Current(d)' = Current(d)
         /\ \A m \in Cmds : m # Current(cl) => result'[m] = result[m]
<1>1. client \in [Clients -> ClientStates] /\ Current(cl) \in Cmds
      /\ result \in [Cmds -> Cmds \union {NoAnswer, None}]
  BY Pairs DEF TypeOK, ClientStates
<1>2. CASE Lookup(cl) \/ StoreChannel(cl) \/ SendCommand(cl)
  BY <1>1, <1>2 DEF Lookup, StoreChannel, SendCommand, Current
<1>3. CASE TakeResponse(cl) \/ Timeout(cl)
  BY <1>1, <1>3 DEF TakeResponse, Timeout, Current
<1>4. CASE DeleteChannel(cl)
  BY <1>1, <1>4 DEF DeleteChannel, Current
<1> QED BY <1>2, <1>3, <1>4 DEF ClientStep

(* What the other processes leave alone. *)
LEMMA OthersFrame ==
  ASSUME TypeOK, NEW e \in Conns,
         HandlerStep(e) \/ AgentRecv(e) \/ AgentAnswer(e) \/ Break \/ Reconnect \/ UNCHANGED vars
  PROVE  UNCHANGED <<execChannels, client, result>>
  BY DEF HandlerStep, RecvExecResponse, PushResponse, AgentRecv, AgentAnswer, Break,
         Reconnect, vars

(* Results are written while their command is the current one.             *)
LEMMA ResultsStep == IInv /\ [Next]_vars => Results'
<1> SUFFICES ASSUME IInv, [Next]_vars PROVE Results'
  OBVIOUS
<1> USE ConstantsAssumption DEF IInv
<1>1. ASSUME NEW cl \in Clients, ClientStep(cl) PROVE Results'
  <2>1. client \in [Clients -> ClientStates] /\ Current(cl) \in Cmds
        /\ result \in [Cmds -> Cmds \union {NoAnswer, None}]
        /\ conn \in 0..MaxConn
    BY Pairs DEF TypeOK, ClientStates
  <2>2. ASSUME NEW d \in Clients, d # cl PROVE ResultsOf(d)'
    <3>1. \A k \in 1..MaxCommands : <<d, k>> \in Cmds /\ <<d, k>> # Current(cl)
      BY <2>2 DEF Cmds, Current
    <3>2. Current(d) \in Cmds /\ Current(d) # Current(cl) /\ ResultsOf(d)
      BY <2>2, Pairs DEF Current, Results
    <3> QED BY <1>1, <2>2, <3>1, <3>2, ClientFrame DEF ResultsOf
  <2>3. ResultsOf(cl) /\ \A k \in 1..MaxCommands : <<cl, k>> \in Cmds
    BY DEF Results, Cmds
  <2>4. ResultsOf(cl)'
    <3>1. CASE Lookup(cl) \/ StoreChannel(cl)
      BY <2>1, <2>3, <3>1 DEF Lookup, StoreChannel, ResultsOf, Current, Conns, ClientStates
    <3>0. client[cl] \in ClientStates /\ client[cl].n \in 1..MaxCommands
      BY <2>1 DEF ClientStates
    <3>2. CASE SendCommand(cl)
      <4>1. client'[cl].n = client[cl].n /\ client'[cl].sw = client[cl].sw
            /\ client[cl].pc = "stored" /\ Current(cl)' = Current(cl)
            /\ \/ client'[cl].pc = "waiting" /\ result' = result
               \/ client'[cl].pc = "delete" /\ result'[Current(cl)] # None
        BY <2>1, <3>0, <3>2 DEF SendCommand, ClientStates, Current
      <4>2. \A k \in 1..MaxCommands : k > client[cl].n => <<cl, k>> # Current(cl)
        BY <3>0 DEF Current
      <4>3. \A k \in 1..MaxCommands : k > client'[cl].n => result'[<<cl, k>>] = None
        BY <1>1, <2>3, <4>1, <4>2, ClientFrame DEF ResultsOf
      <4> QED BY <2>3, <4>1, <4>3 DEF ResultsOf
    <3>3. CASE TakeResponse(cl) \/ Timeout(cl)
      <4>1. client'[cl].pc = "delete" /\ client'[cl].n = client[cl].n
            /\ client'[cl].sw = client[cl].sw /\ client[cl].pc = "waiting"
        BY <2>1, <3>0, <3>3 DEF TakeResponse, Timeout, ClientStates
      <4>2. Current(cl)' = Current(cl) /\ result'[Current(cl)] # None
        BY <2>1, <3>3, <4>1, ConstantsAssumption DEF TakeResponse, Timeout, Current
      <4>3. \A k \in 1..MaxCommands : k > client[cl].n => <<cl, k>> # Current(cl)
        BY <3>0 DEF Current
      <4>4. \A k \in 1..MaxCommands : k > client'[cl].n => result'[<<cl, k>>] = None
        BY <1>1, <2>3, <4>1, <4>3, ClientFrame DEF ResultsOf
      <4> QED BY <2>3, <4>1, <4>2, <4>4 DEF ResultsOf
    <3>5. CASE DeleteChannel(cl)
      <4>1. result' = result /\ client[cl].pc = "delete" /\ client'[cl].sw = client[cl].sw
        BY <2>1, <3>0, <3>5 DEF DeleteChannel, ClientStates
      <4>2. \/ client'[cl].n = client[cl].n + 1 /\ client'[cl].pc = "ready"
               /\ client'[cl].n \in 1..MaxCommands
            \/ client'[cl].n = client[cl].n /\ client'[cl].pc = "done"
        BY <2>1, <3>0, <3>5 DEF DeleteChannel, ClientStates
      <4>3. CASE client'[cl].n = client[cl].n
        BY <2>3, <3>0, <4>1, <4>2, <4>3 DEF ResultsOf, Current
      <4>4. CASE client'[cl].n = client[cl].n + 1
        BY <2>3, <3>0, <4>1, <4>2, <4>4 DEF ResultsOf, Current
      <4> QED BY <4>2, <4>3, <4>4
    <3> QED BY <1>1, <3>1, <3>2, <3>3, <3>5 DEF ClientStep
  <2> QED BY <2>2, <2>4 DEF Results
<1>2. ASSUME UNCHANGED <<execChannels, client, result>> PROVE Results'
  BY <1>2 DEF Results, ResultsOf, Current
<1> QED BY <1>1, <1>2, OthersFrame DEF Next, Conns

(* A channel is entered by an open client, for its current command.        *)
LEMMA ChannelsStep == IInv /\ [Next]_vars => Channels'
<1> SUFFICES ASSUME IInv, [Next]_vars PROVE Channels'
  OBVIOUS
<1> USE ConstantsAssumption DEF IInv
<1>1. ASSUME NEW cl \in Clients, ClientStep(cl) PROVE Channels'
  <2>1. client \in [Clients -> ClientStates] /\ Current(cl) \in Cmds
        /\ execChannels \in [Containers -> Cmds \union {None}]
    BY Pairs DEF TypeOK, ClientStates
  <2> SUFFICES ASSUME NEW c \in Containers, execChannels'[c] # None PROVE ChannelOf(c)'
    BY DEF Channels, ChannelOf
  <2>2. ChannelOf(c)
    BY DEF Channels
  <2>3. CASE Lookup(cl) \/ SendCommand(cl) \/ TakeResponse(cl) \/ Timeout(cl)
    BY <2>1, <2>2, <2>3, Pairs
    DEF Lookup, SendCommand, TakeResponse, Timeout, ChannelOf, Open, Current, ClientStates
  <2>4. CASE StoreChannel(cl)
    BY <2>1, <2>2, <2>4, Pairs DEF StoreChannel, ChannelOf, Open, Current, ClientStates
  <2>5. CASE DeleteChannel(cl)
    <3>1. c # ContainerOf[cl] /\ execChannels'[c] = execChannels[c]
      BY <2>1, <2>5 DEF DeleteChannel
    <3>2. execChannels[c][1] \in Clients \ {cl}
      BY <2>1, <2>2, <3>1, Pairs DEF ChannelOf
    <3> QED BY <1>1, <2>2, <3>1, <3>2, ClientFrame DEF ChannelOf, Open
  <2> QED BY <1>1, <2>3, <2>4, <2>5 DEF ClientStep
<1>2. ASSUME UNCHANGED <<execChannels, client, result>> PROVE Channels'
  BY <1>2 DEF Channels, ChannelOf, Open, Current
<1> QED BY <1>1, <1>2, OthersFrame DEF Next, Conns

-----------------------------------------------------------------------------
(* What is on its way.                                                     *)

(* Calls are never taken back.                                             *)
LEMMA CalledGrows == IInv /\ [Next]_vars => Called \subseteq Called'
<1> SUFFICES ASSUME IInv, [Next]_vars PROVE Called \subseteq Called'
  OBVIOUS
<1>1. ASSUME NEW cl \in Clients, ClientStep(cl) PROVE Called \subseteq Called'
  <2>1. Called' = Called \/ Called' = Called \union {Current(cl)}
    <3> HIDE DEF Called
    <3> QED BY <1>1, CalledStep DEF ClientStep
  <2> HIDE DEF Called
  <2> QED BY <2>1
<1>2. ASSUME UNCHANGED <<execChannels, client, result>> PROVE Called \subseteq Called'
  BY <1>2 DEF Called, Open, Current
<1> QED BY <1>1, <1>2, OthersFrame, ConstantsAssumption DEF Next, Conns, IInv

(* A request that is sent is for a command whose channel has been made.    *)
LEMMA SentIsCalled ==
  ASSUME TypeOK, NEW cl \in Clients, Open(cl) PROVE Current(cl) \in Called
<1>1. Current(cl) \in Cmds /\ Current(cl)[1] = cl
  BY Pairs DEF Current
<1> QED BY <1>1 DEF Called

(* What is on its way, is executed or has arrived has been called.         *)
LEMMA HandedStep == IInv /\ [Next]_vars => Handed'
<1> SUFFICES ASSUME IInv, [Next]_vars PROVE Handed'
  OBVIOUS
<1>0. TypeOK /\ Handed /\ Called \subseteq Called' /\ Called \subseteq Cmds
      /\ Seq(Called) \subseteq Seq(Called')
  <2>1. Called \subseteq Called' /\ Called \subseteq Cmds
    BY CalledGrows DEF Called
  <2>2. Seq(Called) \subseteq Seq(Called')
    BY <2>1, SeqMono
  <2> QED BY <2>1, <2>2 DEF IInv
<1> HIDE DEF Called
<1>a. ASSUME UNCHANGED <<down, running, up, push, buf>> PROVE Handed'
  BY <1>0, <1>a DEF Handed, HandedOn
<1>1. ASSUME NEW cl \in Clients, ClientStep(cl) PROVE Handed'
  <2>1. CASE Lookup(cl) \/ StoreChannel(cl) \/ Timeout(cl) \/ DeleteChannel(cl)
    BY <1>a, <2>1 DEF Lookup, StoreChannel, Timeout, DeleteChannel
  <2>2. CASE SendCommand(cl)
    <3>1. Current(cl) \in Called
      BY <1>0, <2>2, SentIsCalled DEF SendCommand, Open
    <3>2. CASE client[cl].sw = conn
      <4>1. conn \in Conns
        BY <2>2, <3>2 DEF SendCommand, IInv, Results, ResultsOf
      <4>2. down' = [down EXCEPT ![conn] = Append(down[conn], Current(cl))]
        BY <2>2, <3>2 DEF SendCommand
      <4>3. Append(down[conn], Current(cl)) \in Seq(Called)
        BY <1>0, <3>1, <4>1, Sequences DEF Handed, HandedOn
      <4>4. UNCHANGED <<running, up, push, buf>>
        BY <2>2 DEF SendCommand
      <4>5. \A e \in Conns : down'[e] \in Seq(Called)
        BY <1>0, <4>2, <4>3 DEF Handed, HandedOn, TypeOK
      <4> QED BY <1>0, <4>4, <4>5 DEF Handed, HandedOn
    <3>3. CASE client[cl].sw # conn
      BY <1>a, <2>2, <3>3 DEF SendCommand
    <3> QED BY <3>2, <3>3
  <2>3. CASE TakeResponse(cl)
    <3>1. buf' = [buf EXCEPT ![Current(cl)] = None] /\ UNCHANGED <<down, running, up, push>>
      BY <2>3 DEF TakeResponse
    <3>2. \A m \in Cmds : buf'[m] # None => buf'[m] \in Called
      BY <1>0, <3>1 DEF Handed, TypeOK
    <3> QED BY <1>0, <3>1, <3>2 DEF Handed, HandedOn
  <2> QED BY <1>1, <2>1, <2>2, <2>3 DEF ClientStep
<1>2. ASSUME NEW e \in Conns, HandlerStep(e) \/ AgentRecv(e) \/ AgentAnswer(e)
      PROVE  Handed'
  <2>0. HandedOn(e)
    BY <1>0 DEF Handed
  <2>1. CASE RecvExecResponse(e)
    <3>1. Head(up[e]) \in Called /\ Tail(up[e]) \in Seq(Called)
      BY <2>0, <2>1, Sequences DEF RecvExecResponse, HandedOn
    <3>2. UNCHANGED <<buf, down, running>> /\ up' = [up EXCEPT ![e] = Tail(up[e])]
      BY <2>1 DEF RecvExecResponse
    <3>3. \A d \in Conns : up'[d] \in Seq(Called)
      BY <1>0, <3>1, <3>2 DEF Handed, HandedOn, TypeOK
    <3>4. \A d \in Conns : push'[d] # None => push'[d].resp \in Called
      BY <1>0, <2>1, <3>1 DEF RecvExecResponse, Handed, HandedOn, TypeOK
    <3> QED BY <1>0, <3>2, <3>3, <3>4 DEF Handed, HandedOn
  <2>2. CASE PushResponse(e)
    <3>1. UNCHANGED <<down, up, running>> /\ push' = [push EXCEPT ![e] = None]
          /\ buf' = [buf EXCEPT ![push[e].ch] = push[e].resp] /\ push[e].resp \in Called
      BY <2>0, <2>2 DEF PushResponse, HandedOn
    <3>2. \A m \in Cmds : buf'[m] # None => buf'[m] \in Called
      BY <1>0, <3>1 DEF Handed, TypeOK
    <3>3. \A d \in Conns : push'[d] # None => push'[d].resp \in Called
      BY <1>0, <3>1 DEF Handed, HandedOn, TypeOK
    <3> QED BY <1>0, <3>1, <3>2, <3>3 DEF Handed, HandedOn
  <2>3. CASE AgentRecv(e)
    <3>1. Head(down[e]) \in Called /\ Tail(down[e]) \in Seq(Called)
      BY <2>0, <2>3, Sequences DEF AgentRecv, HandedOn
    <3>2. UNCHANGED <<buf, up, push>> /\ down' = [down EXCEPT ![e] = Tail(down[e])]
          /\ running' = [running EXCEPT ![e] = Head(down[e])]
      BY <2>3 DEF AgentRecv
    <3>3. \A d \in Conns : down'[d] \in Seq(Called) /\ (running'[d] # None => running'[d] \in Called)
      BY <1>0, <3>1, <3>2 DEF Handed, HandedOn, TypeOK
    <3> QED BY <1>0, <3>2, <3>3 DEF Handed, HandedOn
  <2>4. CASE AgentAnswer(e)
    <3>1. Append(up[e], running[e]) \in Seq(Called)
      BY <2>0, <2>4, Sequences DEF AgentAnswer, HandedOn
    <3>2. UNCHANGED <<buf, down, push>> /\ running' = [running EXCEPT ![e] = None]
          /\ (up' = up \/ up' = [up EXCEPT ![e] = Append(up[e], running[e])])
      BY <2>4 DEF AgentAnswer
    <3>3. \A d \in Conns : up'[d] \in Seq(Called) /\ (running'[d] # None => running'[d] \in Called)
      BY <1>0, <3>1, <3>2 DEF Handed, HandedOn, TypeOK
    <3> QED BY <1>0, <3>2, <3>3 DEF Handed, HandedOn
  <2> QED BY <1>2, <2>1, <2>2, <2>3, <2>4 DEF HandlerStep
<1>3. CASE Break
  <2>1. PICK n \in 0..Len(up[conn]) : up' = [up EXCEPT ![conn] = SubSeq(up[conn], 1, n)]
    BY <1>3 DEF Break
  <2>2. conn \in Conns /\ HandedOn(conn) /\ UNCHANGED <<buf, running, push>>
        /\ down' = [down EXCEPT ![conn] = << >>]
    BY <1>0, <1>3 DEF Break, TypeOK, Conns, Handed
  <2>3. SubSeq(up[conn], 1, n) \in Seq(Called) /\ << >> \in Seq(Called)
    BY <2>2, Sequences DEF HandedOn
  <2>4. \A d \in Conns : up'[d] \in Seq(Called) /\ down'[d] \in Seq(Called)
    BY <1>0, <2>1, <2>2, <2>3 DEF Handed, HandedOn, TypeOK
  <2> QED BY <1>0, <2>2, <2>4 DEF Handed, HandedOn
<1>4. CASE Reconnect \/ UNCHANGED vars
  BY <1>a, <1>4 DEF Reconnect, vars
<1> QED BY <1>1, <1>2, <1>3, <1>4 DEF Next

(* A response is pushed to a channel of its own container.                 *)
LEMMA RoutedStep == IInv /\ [Next]_vars => Routed'
<1> SUFFICES ASSUME IInv, [Next]_vars PROVE Routed'
  OBVIOUS
<1> USE DEF IInv
<1>1. ASSUME UNCHANGED <<push, buf>> PROVE Routed'
  BY <1>1 DEF Routed
<1>2. ASSUME NEW e \in Conns, RecvExecResponse(e) PROVE Routed'
  <2>1. Head(up[e]) \in Cmds
    BY <1>2, Sequences DEF RecvExecResponse, TypeOK
  <2> DEFINE c == Of(Head(up[e]))
  <2>2. c \in Containers
    BY <2>1, Pairs, ConstantsAssumption DEF Of
  <2>3. execChannels[c] # None => execChannels[c] \in Cmds /\ Of(execChannels[c]) = c
    BY <2>2, Pairs DEF TypeOK, Channels, ChannelOf, Of
  <2>4. /\ buf' = buf
        /\ \/ push' = push
           \/ /\ execChannels[c] # None
              /\ push' = [push EXCEPT ![e] = [ch |-> execChannels[c], resp |-> Head(up[e])]]
    BY <1>2 DEF RecvExecResponse
  <2> HIDE DEF c
  <2>5. Of(Head(up[e])) = c
    BY DEF c
  <2> QED BY <2>3, <2>4, <2>5 DEF Routed, TypeOK
<1>3. ASSUME NEW e \in Conns, PushResponse(e) PROVE Routed'
  BY <1>3 DEF PushResponse, Routed, TypeOK
<1>4. ASSUME NEW cl \in Clients, TakeResponse(cl) PROVE Routed'
  BY <1>4 DEF TakeResponse, Routed, TypeOK
<1> QED
  BY <1>1, <1>2, <1>3, <1>4
  DEF Next, ClientStep, HandlerStep, Lookup, StoreChannel, SendCommand, Timeout, DeleteChannel,
      AgentRecv, AgentAnswer, Break, Reconnect, vars

(* What a caller takes from its channel comes from its own container.      *)
LEMMA OutputStep == IInv /\ [Next]_vars => OutputOfOwnContainer'
<1> SUFFICES ASSUME IInv, [Next]_vars PROVE OutputOfOwnContainer'
  OBVIOUS
<1> USE DEF IInv
<1>1. ASSUME UNCHANGED result PROVE OutputOfOwnContainer'
  BY <1>1 DEF OutputOfOwnContainer
<1>2. ASSUME NEW cl \in Clients, TakeResponse(cl) PROVE OutputOfOwnContainer'
  <2>1. Current(cl) \in Cmds
    BY Pairs
  <2> QED BY <1>2, <2>1 DEF TakeResponse, OutputOfOwnContainer, Routed, TypeOK
<1>3. ASSUME NEW cl \in Clients, SendCommand(cl) \/ Timeout(cl) PROVE OutputOfOwnContainer'
  <2>1. NoAnswer \notin Cmds
    BY Pairs
  <2> QED BY <1>3, <2>1 DEF SendCommand, Timeout, OutputOfOwnContainer, TypeOK
<1>4. ASSUME NEW cl \in Clients, ClientStep(cl) PROVE OutputOfOwnContainer'
  BY <1>1, <1>2, <1>3, <1>4 DEF ClientStep, Lookup, StoreChannel, DeleteChannel
<1>5. TypeOK
  OBVIOUS
<1> QED
  <2> HIDE DEF IInv
  <2> QED BY <1>1, <1>4, <1>5, OthersFrame, ConstantsAssumption DEF Next, Conns

-----------------------------------------------------------------------------
(* The invariant holds in every behaviour.                                 *)
LEMMA Invariant == Spec => []IInv
<1>1. IInv /\ [Next]_vars => IInv'
  BY TypeStep, ChannelsStep, ResultsStep, HandedStep, RoutedStep, OutputStep DEF IInv
<1> QED BY <1>1, InitIInv, PTL DEF Spec

(* The variables keep to their types. *)
THEOREM TypeCorrect == Spec => []TypeOK
  BY Invariant, PTL DEF IInv

(* execChannels holds no channel of a call that has returned.              *)
THEOREM NoStaleChannelHolds == Spec => []NoStaleChannel
<1>1. IInv => NoStaleChannel
  BY DEF IInv, Channels, ChannelOf, NoStaleChannel
<1> QED BY <1>1, Invariant, PTL

(* Nobody is ever given the output of a command in another container.      *)
THEOREM OutputStaysInContainer == Spec => []OutputOfOwnContainer
  BY Invariant, PTL DEF IInv

-----------------------------------------------------------------------------
(* The promise of ExecService.                                             *)

(* What a call may be given, for the mapped variables.                     *)
LEMMA MayReturn ==
  ASSUME IInv, NEW cl \in Clients, client[cl].pc \in {"stored", "waiting"}
  PROVE  /\ Current(cl) \in Called /\ result[Current(cl)] = None
         /\ buf[Current(cl)] # None =>
              buf[Current(cl)] \in Called /\ Of(buf[Current(cl)]) = Of(Current(cl))
<1>1. Current(cl) \in Cmds
  BY Pairs DEF IInv
<1>2. Current(cl) \in Called
  BY SentIsCalled DEF IInv, Open
<1> QED BY <1>1, <1>2 DEF IInv, Results, ResultsOf, Handed, Routed
(* Every step of the broker is a call, a return or a stutter there.        *)
LEMMA StepRefines == IInv /\ [Next]_vars => [Service!Next]_(Service!vars)
<1> SUFFICES ASSUME IInv, [Next]_vars PROVE [Service!Next]_(Service!vars)
  OBVIOUS
<1> USE DEF Service!vars
<1> HIDE DEF Called
<1>0. ASSUME Called' = Called, result' = result PROVE [Service!Next]_(Service!vars)
  BY <1>0
<1>1. ASSUME NEW cl \in Clients, ClientStep(cl) PROVE [Service!Next]_(Service!vars)
  <2>1. Current(cl) \in Cmds /\ TypeOK
    BY Pairs DEF IInv
  <2> DEFINE m == Current(cl)
  <2> HIDE DEF m
  <2>2. CASE StoreChannel(cl)
    <3>1. Called' = Called \union {m} /\ m \notin Called /\ result' = result
      BY <2>2, CalledStep DEF StoreChannel, m
    <3> QED BY <2>1, <3>1 DEF Service!Next, Service!Call, m
  <2>3. CASE Lookup(cl) \/ DeleteChannel(cl)
    <3>1. Called' = Called
      BY <2>3, CalledStep
    <3>2. result' = result
      BY <2>3 DEF Lookup, DeleteChannel
    <3> QED BY <1>0, <3>1, <3>2
  <2>4. CASE SendCommand(cl) \/ TakeResponse(cl) \/ Timeout(cl)
    <3>1. Called' = Called
      BY <2>4, CalledStep
    <3>2. m \in Called /\ result[m] = None
          /\ (buf[m] # None => buf[m] \in Called /\ Of(buf[m]) = Of(m))
      BY <2>4, MayReturn DEF SendCommand, TakeResponse, Timeout, m
    <3>3. \/ result' = result
          \/ result' = [result EXCEPT ![m] = NoAnswer]
          \/ buf[m] # None /\ result' = [result EXCEPT ![m] = buf[m]]
      BY <2>4 DEF SendCommand, TakeResponse, Timeout, m
    <3>4. m \in Cmds /\ Called \subseteq Cmds
      BY <2>1 DEF m, Called
    <3>5. buf[m] # None => buf[m] \in Service!Candidates(m)
      BY <3>2, <3>4 DEF Service!Candidates
    <3>6. result' = result \/ Service!Return(m)
      BY <3>1, <3>2, <3>3, <3>5 DEF Service!Return
    <3> QED BY <1>0, <3>1, <3>4, <3>6 DEF Service!Next
  <2> QED BY <1>1, <2>2, <2>3, <2>4 DEF ClientStep
<1>2. ASSUME UNCHANGED <<execChannels, client, result>> PROVE [Service!Next]_(Service!vars)
  <2>1. Called' = Called
    BY <1>2 DEF Called, Open, Current
  <2> QED BY <1>0, <1>2, <2>1
<1> QED BY <1>1, <1>2, OthersFrame, ConstantsAssumption DEF Next, Conns, IInv

(* The broker implements ExecService: a call gets one result, once, and    *)
(* that is no answer or the output of a command of the same container.     *)
THEOREM PromiseKept == Spec => KeepsPromise
<1>1. Init => Service!Init
  BY ConstantsAssumption DEF Init, Service!Init, Called, Open, Cmds, Current
<1> QED BY <1>1, StepRefines, Invariant, PTL DEF Spec, KeepsPromise, Service!Spec
-----------------------------------------------------------------------------
(* Each command, while it is on its way, is in one place; and of a         *)
(* container whose commands neither overlap nor time out only the one that *)
(* is waited for is on its way (EachInOnePlace, OnlyTheAwaited).  Its      *)
(* channel is then the one that is entered, so that its answer is given to *)
(* it (OwnPush, OwnBuf).                                                   *)

In(q, m)    == \E k \in DOMAIN q : q[k] = m
Distinct(q) == \A j, k \in DOMAIN q : q[j] = q[k] => j = k

(* Where a command, or the response to it, may be between SendCommand and  *)
(* TakeResponse. *)
Places == ({"down", "running", "up", "push"} \X Conns) \union ({"buf"} \X Cmds)

Holds(p, m) ==
  \/ p[1] = "down" /\ In(down[p[2]], m)
  \/ p[1] = "running" /\ running[p[2]] = m
  \/ p[1] = "up" /\ In(up[p[2]], m)
  \/ p[1] = "push" /\ push[p[2]] # None /\ push[p[2]].resp = m
  \/ p[1] = "buf" /\ buf[p[2]] = m

Sent(m) == \/ m[2] < client[m[1]].n
           \/ m = Current(m[1]) /\ client[m[1]].pc \in {"waiting", "delete", "done"}

Awaited(m) == m = Current(m[1]) /\ client[m[1]].pc = "waiting"

EachInOnePlace ==
  /\ \A m \in Cmds, p, q \in Places : Holds(p, m) /\ Holds(q, m) => p = q
  /\ \A e \in Conns : Distinct(down[e]) /\ Distinct(up[e])

OnlySent == \A m \in Cmds, p \in Places : Holds(p, m) => Sent(m)

OnlyTheAwaited ==
  \A m \in Cmds, p \in Places : Holds(p, m) /\ Of(m) \notin spoiled => Awaited(m)

OneAtATime ==
  \A cl, d \in Clients :
    /\ ContainerOf[cl] = ContainerOf[d] /\ ContainerOf[cl] \notin spoiled
    /\ Open(cl) /\ Open(d)
    => cl = d

OwnPush ==
  \A e \in Conns :
    push[e] # None /\ Of(push[e].resp) \notin spoiled => push[e].ch = push[e].resp

OwnBuf == \A m \in Cmds : buf[m] # None /\ Of(m) \notin spoiled => buf[m] = m

InTurn ==
  /\ EachInOnePlace /\ OnlySent /\ OnlyTheAwaited /\ OneAtATime /\ OwnPush /\ OwnBuf
  /\ OwnOutputWhenSequential

(* The commands in a queue from which one is taken, to which one is added, *)
(* or which is cut off.                                                    *)
LEMMA Queues ==
  ASSUME NEW S, NEW q \in Seq(S)
  PROVE  /\ q # <<>> =>
              /\ In(q, Head(q))
              /\ \A x : In(Tail(q), x) => In(q, x)
              /\ Distinct(q) => Distinct(Tail(q)) /\ ~In(Tail(q), Head(q))
         /\ \A x \in S :
              /\ \A y : In(Append(q, x), y) => In(q, y) \/ y = x
              /\ Distinct(q) /\ ~In(q, x) => Distinct(Append(q, x))
         /\ \A n \in 0..Len(q) :
              /\ \A x : In(SubSeq(q, 1, n), x) => In(q, x)
              /\ Distinct(q) => Distinct(SubSeq(q, 1, n))
<1>0. Len(q) \in Nat /\ DOMAIN q = 1..Len(q)
  BY LenProperties
<1>1. ASSUME q # <<>>
      PROVE  /\ In(q, Head(q))
             /\ \A x : In(Tail(q), x) => In(q, x)
             /\ Distinct(q) => Distinct(Tail(q)) /\ ~In(Tail(q), Head(q))
  <2>1. /\ Head(q) = q[1] /\ 1 \in DOMAIN q
        /\ \A k \in DOMAIN Tail(q) : k + 1 \in DOMAIN q /\ Tail(q)[k] = q[k + 1] /\ k \in Nat \ {0}
    <3>1. Len(q) # 0
      BY <1>1, EmptySeq
    <3>2. /\ Head(q) = q[1] /\ Tail(q) \in Seq(S) /\ Len(Tail(q)) = Len(q) - 1
          /\ \A i \in 1..Len(Tail(q)) : Tail(q)[i] = q[i + 1]
      BY <1>1, HeadTailProperties
    <3>3. DOMAIN Tail(q) = 1..(Len(q) - 1)
      BY <3>2, LenProperties
    <3> QED BY <1>0, <3>1, <3>2, <3>3
  <2> QED BY <2>1 DEF In, Distinct
<1>2. ASSUME NEW x \in S
      PROVE  /\ \A y : In(Append(q, x), y) => In(q, y) \/ y = x
             /\ Distinct(q) /\ ~In(q, x) => Distinct(Append(q, x))
  <2>1. /\ Append(q, x) \in Seq(S) /\ Len(Append(q, x)) = Len(q) + 1
        /\ \A i \in 1..Len(q) : Append(q, x)[i] = q[i]
        /\ Append(q, x)[Len(q) + 1] = x
    BY AppendProperties
  <2>2. DOMAIN Append(q, x) = 1..(Len(q) + 1)
    BY <2>1, LenProperties
  <2>3. \A k \in DOMAIN Append(q, x) :
          \/ k \in DOMAIN q /\ Append(q, x)[k] = q[k]
          \/ k = Len(q) + 1 /\ Append(q, x)[k] = x
    BY <1>0, <2>1, <2>2
  <2> QED BY <2>3 DEF In, Distinct
<1>3. ASSUME NEW n \in 0..Len(q)
      PROVE  /\ \A x : In(SubSeq(q, 1, n), x) => In(q, x)
             /\ Distinct(q) => Distinct(SubSeq(q, 1, n))
  <2>1. \A k \in DOMAIN SubSeq(q, 1, n) : k \in DOMAIN q /\ SubSeq(q, 1, n)[k] = q[k]
    <3>1. SubSeq(q, 1, n) \in Seq(S) /\ Len(SubSeq(q, 1, n)) = n
          /\ \A i \in 1..n : SubSeq(q, 1, n)[i] = q[i]
      BY <1>0, SubSeqProperties
    <3> QED BY <1>0, <3>1, LenProperties
  <2> QED BY <2>1 DEF In, Distinct
<1> QED BY <1>1, <1>2, <1>3

Ordered == \A e \in Conns : Distinct(down[e]) /\ Distinct(up[e])

(* Command m goes from place p to place q, or is dropped on the way.       *)
Moves(m, p, q) ==
  \A x \in Cmds, r \in Places :
    Holds(r, x)' => \/ Holds(r, x) /\ ~(r = p /\ x = m)
                    \/ r = q /\ x = m

(* Places are pairs of a kind and a stream, or a channel.                  *)
LEMMA PlacesArePairs ==
  /\ \A e \in Conns : \A k \in {"down", "running", "up", "push"} : <<k, e>> \in Places
  /\ \A m \in Cmds : <<"buf", m>> \in Places
  /\ \A p \in Places :
       /\ p = <<p[1], p[2]>>
       /\ \/ p[1] \in {"down", "running", "up", "push"} /\ p[2] \in Conns
          \/ p[1] = "buf" /\ p[2] \in Cmds
  BY DEF Places

(* What a place holds, from what is there.                                 *)
LEMMA HeldAt ==
  ASSUME NEW m \in Cmds
  PROVE  /\ \A e \in Conns :
              /\ In(down[e], m) => Holds(<<"down", e>>, m)
              /\ In(up[e], m) => Holds(<<"up", e>>, m)
              /\ running[e] = m => Holds(<<"running", e>>, m)
              /\ push[e] # None /\ push[e].resp = m => Holds(<<"push", e>>, m)
         /\ \A x \in Cmds : buf[x] = m => Holds(<<"buf", x>>, m)
  BY DEF Holds

(* The handler of a stream and the agent move one command at a time.       *)
LEMMA Handing ==
  ASSUME TypeOK, EachInOnePlace, NEW e \in Conns, HandlerStep(e) \/ AgentRecv(e) \/ AgentAnswer(e)
  PROVE  /\ \E m \in Cmds, p, q \in Places : Holds(p, m) /\ Moves(m, p, q)
         /\ Ordered'
<1> USE DEF TypeOK
<1>0. Ordered
  BY DEF EachInOnePlace, Ordered
<1>1. CASE RecvExecResponse(e)
  <2> DEFINE m == Head(up[e])
  <2>1. m \in Cmds /\ up[e] \in Seq(Cmds) /\ up[e] # <<>>
    BY <1>1, Sequences DEF RecvExecResponse
  <2>2. /\ In(up[e], m) /\ (\A x : In(Tail(up[e]), x) => In(up[e], x))
        /\ Distinct(Tail(up[e])) /\ ~In(Tail(up[e]), m)
    BY <1>0, <2>1, Queues DEF Ordered
  <2>3. /\ up' = [up EXCEPT ![e] = Tail(up[e])]
        /\ UNCHANGED <<down, running, buf>>
        /\ \/ push' = push
           \/ \E c : push' = [push EXCEPT ![e] = [ch |-> c, resp |-> m]]
    BY <1>1 DEF RecvExecResponse
  <2> HIDE DEF m
  <2>4. Ordered'
    BY <1>0, <2>2, <2>3 DEF Ordered
  <2>5. Holds(<<"up", e>>, m)
    BY <2>1, <2>2, HeldAt
  <2>6. \A d \in Conns : push'[d] = push[d] \/ (d = e /\ push'[d].resp = m)
    BY <2>3
  <2>7. Moves(m, <<"up", e>>, <<"push", e>>)
    <3> SUFFICES ASSUME NEW x \in Cmds, NEW r \in Places, Holds(r, x)'
                 PROVE  \/ Holds(r, x) /\ ~(r = <<"up", e>> /\ x = m)
                        \/ r = <<"push", e>> /\ x = m
      BY DEF Moves
    <3>1. r = <<r[1], r[2]>>
      BY PlacesArePairs
    <3>2. CASE r[1] = "up"
      <4>1. In(up'[r[2]], x) /\ r[2] \in Conns
        BY <3>2, PlacesArePairs DEF Holds
      <4>2. In(up[r[2]], x) /\ ~(r[2] = e /\ x = m)
        BY <2>2, <2>3, <4>1
      <4> QED BY <3>1, <3>2, <4>2 DEF Holds
    <3>3. CASE r[1] = "push"
      BY <2>6, <3>1, <3>3, PlacesArePairs DEF Holds
    <3>4. CASE r[1] \in {"down", "running", "buf"}
      BY <2>3, <3>1, <3>4 DEF Holds
    <3> QED BY <3>2, <3>3, <3>4, PlacesArePairs
  <2> QED BY <2>1, <2>4, <2>5, <2>7, PlacesArePairs
<1>2. CASE PushResponse(e)
  <2> DEFINE m == push[e].resp
             c == push[e].ch
  <2>1. m \in Cmds /\ c \in Cmds /\ push[e] # None
    BY <1>2 DEF PushResponse
  <2>3. /\ push' = [push EXCEPT ![e] = None]
        /\ UNCHANGED <<down, running, up>>
        /\ buf' = [buf EXCEPT ![c] = m]
    BY <1>2 DEF PushResponse
  <2>5. Holds(<<"push", e>>, m)
    BY <2>1, HeldAt
  <2> HIDE DEF m, c
  <2>4. Ordered'
    BY <1>0, <2>3 DEF Ordered
  <2>7. Moves(m, <<"push", e>>, <<"buf", c>>)
    <3> SUFFICES ASSUME NEW x \in Cmds, NEW r \in Places, Holds(r, x)'
                 PROVE  \/ Holds(r, x) /\ ~(r = <<"push", e>> /\ x = m)
                        \/ r = <<"buf", c>> /\ x = m
      BY DEF Moves
    <3>1. r = <<r[1], r[2]>>
      BY PlacesArePairs
    <3>2. CASE r[1] = "push"
      <4>1. push'[r[2]] # None /\ push'[r[2]].resp = x /\ r[2] \in Conns
        BY <3>2, PlacesArePairs DEF Holds
      <4>2. r[2] # e /\ push'[r[2]] = push[r[2]]
        BY <2>3, <4>1
      <4> QED BY <3>1, <3>2, <4>1, <4>2 DEF Holds
    <3>3. CASE r[1] = "buf"
      <4>1. buf'[r[2]] = x /\ r[2] \in Cmds
        BY <3>3, PlacesArePairs DEF Holds
      <4>2. buf[r[2]] = x \/ (r[2] = c /\ x = m)
        BY <2>3, <4>1
      <4> QED BY <3>1, <3>3, <4>2 DEF Holds
    <3>4. CASE r[1] \in {"down", "running", "up"}
      BY <2>3, <3>1, <3>4 DEF Holds
    <3> QED BY <3>2, <3>3, <3>4, PlacesArePairs
  <2> QED BY <2>1, <2>4, <2>5, <2>7, PlacesArePairs
<1>3. CASE AgentRecv(e)
  <2> DEFINE m == Head(down[e])
  <2>1. m \in Cmds /\ down[e] \in Seq(Cmds) /\ down[e] # <<>>
    BY <1>3, Sequences DEF AgentRecv
  <2>2. /\ In(down[e], m) /\ (\A x : In(Tail(down[e]), x) => In(down[e], x))
        /\ Distinct(Tail(down[e])) /\ ~In(Tail(down[e]), m)
    BY <1>0, <2>1, Queues DEF Ordered
  <2>3. /\ down' = [down EXCEPT ![e] = Tail(down[e])]
        /\ UNCHANGED <<up, push, buf>>
        /\ running' = [running EXCEPT ![e] = m]
    BY <1>3 DEF AgentRecv
  <2> HIDE DEF m
  <2>4. Ordered'
    BY <1>0, <2>2, <2>3 DEF Ordered
  <2>5. Holds(<<"down", e>>, m)
    BY <2>1, <2>2, HeldAt
  <2>7. Moves(m, <<"down", e>>, <<"running", e>>)
    <3> SUFFICES ASSUME NEW x \in Cmds, NEW r \in Places, Holds(r, x)'
                 PROVE  \/ Holds(r, x) /\ ~(r = <<"down", e>> /\ x = m)
                        \/ r = <<"running", e>> /\ x = m
      BY DEF Moves
    <3>1. r = <<r[1], r[2]>>
      BY PlacesArePairs
    <3>2. CASE r[1] = "down"
      <4>1. In(down'[r[2]], x) /\ r[2] \in Conns
        BY <3>2, PlacesArePairs DEF Holds
      <4>2. In(down[r[2]], x) /\ ~(r[2] = e /\ x = m)
        BY <2>2, <2>3, <4>1
      <4> QED BY <3>1, <3>2, <4>2 DEF Holds
    <3>3. CASE r[1] = "running"
      <4>1. running'[r[2]] = x /\ r[2] \in Conns
        BY <3>3, PlacesArePairs DEF Holds
      <4>2. running[r[2]] = x \/ (r[2] = e /\ x = m)
        BY <2>3, <4>1
      <4> QED BY <3>1, <3>3, <4>2 DEF Holds
    <3>4. CASE r[1] \in {"up", "push", "buf"}
      BY <2>3, <3>1, <3>4 DEF Holds
    <3> QED BY <3>2, <3>3, <3>4, PlacesArePairs
  <2> QED BY <2>1, <2>4, <2>5, <2>7, PlacesArePairs
<1>4. CASE AgentAnswer(e)
  <2> DEFINE m == running[e]
  <2>1. m \in Cmds /\ up[e] \in Seq(Cmds)
    BY <1>4 DEF AgentAnswer
  <2>3. /\ running' = [running EXCEPT ![e] = None]
        /\ UNCHANGED <<down, push, buf>>
        /\ up' = up \/ up' = [up EXCEPT ![e] = Append(up[e], m)]
    BY <1>4 DEF AgentAnswer
  <2>5. Holds(<<"running", e>>, m)
    BY <2>1, HeldAt
  <2> HIDE DEF m
  <2>2. ~In(up[e], m)
    <3>1. <<"up", e>> # <<"running", e>>
      OBVIOUS
    <3> QED BY <2>1, <2>5, <3>1, HeldAt, PlacesArePairs DEF EachInOnePlace
  <2>4. Ordered'
    <3>1. Distinct(Append(up[e], m))
      BY <1>0, <2>1, <2>2, Queues DEF Ordered
    <3> QED BY <1>0, <2>3, <3>1 DEF Ordered
  <2>6. \A d \in Conns : \A x : In(up'[d], x) => In(up[d], x) \/ (d = e /\ x = m)
    <3>1. \A x : In(Append(up[e], m), x) => In(up[e], x) \/ x = m
      BY <2>1, Queues
    <3>2. \A d \in Conns : up'[d] = up[d] \/ (d = e /\ up'[d] = Append(up[e], m))
      BY <2>3
    <3> HIDE DEF TypeOK
    <3> QED BY <3>1, <3>2
  <2>7. Moves(m, <<"running", e>>, <<"up", e>>)
    <3> SUFFICES ASSUME NEW x \in Cmds, NEW r \in Places, Holds(r, x)'
                 PROVE  \/ Holds(r, x) /\ ~(r = <<"running", e>> /\ x = m)
                        \/ r = <<"up", e>> /\ x = m
      BY DEF Moves
    <3>1. r = <<r[1], r[2]>>
      BY PlacesArePairs
    <3>2. CASE r[1] = "running"
      <4>1. running'[r[2]] = x /\ r[2] \in Conns
        BY <3>2, PlacesArePairs DEF Holds
      <4>2. r[2] # e /\ running[r[2]] = x
        BY <2>3, <4>1, Pairs
      <4> QED BY <3>1, <3>2, <4>2 DEF Holds
    <3>3. CASE r[1] = "up"
      <4>1. In(up'[r[2]], x) /\ r[2] \in Conns
        BY <3>3, PlacesArePairs DEF Holds
      <4>2. In(up[r[2]], x) \/ (r[2] = e /\ x = m)
        BY <2>6, <4>1
      <4> QED BY <3>1, <3>3, <4>2 DEF Holds
    <3>4. CASE r[1] \in {"down", "push", "buf"}
      BY <2>3, <3>1, <3>4 DEF Holds
    <3> QED BY <3>2, <3>3, <3>4, PlacesArePairs
  <2> QED BY <2>1, <2>4, <2>5, <2>7, PlacesArePairs
<1> QED BY <1>1, <1>2, <1>3, <1>4 DEF HandlerStep

(* What a step that moves one command leaves as it was.                    *)
LEMMA Moved ==
  ASSUME EachInOnePlace, OnlySent, OnlyTheAwaited,
         NEW m \in Cmds, NEW p \in Places, NEW q \in Places, Holds(p, m), Moves(m, p, q),
         Ordered', UNCHANGED <<client, spoiled>>
  PROVE  EachInOnePlace' /\ OnlySent' /\ OnlyTheAwaited'
<1>1. EachInOnePlace'
  <2>1. ASSUME NEW x \in Cmds, NEW r \in Places, NEW s \in Places, Holds(r, x)', Holds(s, x)'
        PROVE  r = s
    <3>1. CASE x # m
      BY <2>1, <3>1 DEF Moves, EachInOnePlace
    <3>2. CASE x = m
      <4>1. ASSUME NEW t \in Places, Holds(t, m)' PROVE t = q
        BY <4>1 DEF Moves, EachInOnePlace
      <4> QED BY <2>1, <3>2, <4>1
    <3> QED BY <3>1, <3>2
  <2> QED BY <2>1 DEF EachInOnePlace, Ordered
<1>2. ASSUME NEW x \in Cmds, NEW r \in Places, Holds(r, x)' PROVE \E s \in Places : Holds(s, x)
  BY <1>2 DEF Moves
<1>3. \A x : (Sent(x)' <=> Sent(x)) /\ (Awaited(x)' <=> Awaited(x))
  BY DEF Sent, Awaited, Current
<1>4. OnlySent'
  BY <1>2, <1>3 DEF OnlySent
<1>5. OnlyTheAwaited'
  BY <1>2, <1>3 DEF OnlyTheAwaited
<1> QED BY <1>1, <1>4, <1>5

(* What a step that leaves the queues and the channels alone, or takes     *)
(* from them, keeps, for all clients that stay where they are.             *)
LEMMA NothingGained ==
  ASSUME EachInOnePlace, OnlySent, OnlyTheAwaited,
         \A x \in Cmds, r \in Places : Holds(r, x)' => Holds(r, x),
         Ordered', spoiled \subseteq spoiled',
         \A x \in Cmds, r \in Places :
           Holds(r, x)' => Sent(x)' /\ (Of(x) \notin spoiled' => Awaited(x)')
  PROVE  EachInOnePlace' /\ OnlySent' /\ OnlyTheAwaited'
<1>1. EachInOnePlace'
  BY DEF EachInOnePlace, Ordered
<1>2. OnlySent' /\ OnlyTheAwaited'
  BY DEF OnlySent, OnlyTheAwaited
<1> QED BY <1>1, <1>2

(* Where what is on its way does not move.                                 *)
LEMMA NothingMoves ==
  ASSUME UNCHANGED <<down, running, up, push, buf>>
  PROVE  /\ \A x, r : Holds(r, x)' <=> Holds(r, x)
         /\ Ordered' <=> Ordered
  BY DEF Holds, Ordered

(* What has been sent has been sent, whatever its client does next; and    *)
(* nothing changes for the others.                                         *)
LEMMA SentStays ==
  ASSUME TypeOK, NEW cl \in Clients, ClientStep(cl), NEW x \in Cmds
  PROVE  /\ Sent(x) => Sent(x)'
         /\ x[1] # cl => (Awaited(x)' <=> Awaited(x))
<1>1. x[1] \in Clients /\ x[2] \in 1..MaxCommands /\ client \in [Clients -> ClientStates]
      /\ client[cl].n \in Nat
  BY Pairs, ConstantsAssumption DEF TypeOK, ClientStates
<1>2. CASE x[1] # cl
  BY <1>1, <1>2, ClientFrame DEF Sent, Awaited, Current
<1>3. ASSUME x[1] = cl, Sent(x) PROVE Sent(x)'
  <2>1. CASE Lookup(cl) \/ StoreChannel(cl) \/ SendCommand(cl) \/ TakeResponse(cl) \/ Timeout(cl)
    BY <1>1, <1>3, <2>1
    DEF Lookup, StoreChannel, SendCommand, TakeResponse, Timeout, Sent, Current, ClientStates
  <2>2. CASE DeleteChannel(cl)
    <3>1. client[cl].pc = "delete"
          /\ \/ client'[cl].n = client[cl].n + 1
             \/ client'[cl].n = client[cl].n /\ client'[cl].pc = "done"
      BY <1>1, <2>2 DEF DeleteChannel, ClientStates
    <3>2. x[2] < client[cl].n \/ (x[2] = client[cl].n /\ x = <<cl, client[cl].n>>)
      BY <1>3 DEF Sent, Current
    <3>3. x[2] < client'[cl].n \/ (x = <<cl, client'[cl].n>> /\ client'[cl].pc = "done")
      BY <1>1, <3>1, <3>2
    <3> QED BY <1>3, <3>3 DEF Sent, Current
  <2> QED BY <2>1, <2>2, <1>3 DEF ClientStep
<1> QED BY <1>2, <1>3

(* What is on its way stays what is awaited, when a client moves on.       *)
LEMMA WaysOfClients ==
  ASSUME TypeOK, EachInOnePlace, OnlySent, OnlyTheAwaited, OwnBuf, NEW cl \in Clients, ClientStep(cl),
         client[cl].sw = conn => conn \in Conns \/ client[cl].pc # "stored"
  PROVE  EachInOnePlace' /\ OnlySent' /\ OnlyTheAwaited'
<1>0. client \in [Clients -> ClientStates] /\ client[cl].n \in Nat
  BY ConstantsAssumption DEF TypeOK, ClientStates
<1>m. PICK m \in Cmds : m = Current(cl)
  BY Pairs
<1>1. \A x \in Cmds : (Sent(x) => Sent(x)') /\ (x[1] # cl => (Awaited(x)' <=> Awaited(x)))
  BY SentStays
<1>2. spoiled \subseteq spoiled'
  BY DEF ClientStep, Lookup, StoreChannel, SendCommand, TakeResponse, Timeout, DeleteChannel
<1>3. Ordered
  BY DEF EachInOnePlace, Ordered
<1>4. ASSUME UNCHANGED <<down, running, up, push, buf>>,
             client[cl].pc # "waiting" \/ ContainerOf[cl] \in spoiled'
      PROVE  EachInOnePlace' /\ OnlySent' /\ OnlyTheAwaited'
  <2>1. \A x, r : Holds(r, x)' <=> Holds(r, x)
    BY <1>4, NothingMoves
  <2>2. Ordered'
    BY <1>3, <1>4, NothingMoves
  <2>3. ASSUME NEW x \in Cmds, NEW r \in Places, Holds(r, x)
        PROVE  Sent(x)' /\ (Of(x) \notin spoiled' => Awaited(x)')
    <3>1. Sent(x)'
      BY <1>1, <2>3 DEF OnlySent
    <3>2. ASSUME Of(x) \notin spoiled' PROVE x[1] # cl
      <4>1. Awaited(x)
        BY <1>2, <2>3, <3>2 DEF OnlyTheAwaited
      <4> QED BY <1>4, <3>2, <4>1 DEF Awaited, Of
    <3>3. ASSUME Of(x) \notin spoiled' PROVE Awaited(x)'
      <4>1. Awaited(x)
        BY <1>2, <2>3, <3>3 DEF OnlyTheAwaited
      <4> QED BY <1>1, <3>2, <3>3, <4>1
    <3> QED BY <3>1, <3>3
  <2> QED BY <1>2, <2>1, <2>2, <2>3, NothingGained
<1>5. CASE Lookup(cl) \/ StoreChannel(cl) \/ DeleteChannel(cl) \/ Timeout(cl)
  BY <1>4, <1>5 DEF Lookup, StoreChannel, DeleteChannel, Timeout
<1>6. CASE SendCommand(cl)
  <2>1. client[cl].pc = "stored" /\ UNCHANGED <<running, up, push, buf, spoiled>>
    BY <1>6 DEF SendCommand
  <2>2. CASE UNCHANGED down
    BY <1>4, <2>1, <2>2
  <2>3. CASE ~UNCHANGED down
    <3>1. conn \in Conns /\ down' = [down EXCEPT ![conn] = Append(down[conn], m)]
          /\ client' = [client EXCEPT ![cl].pc = "waiting"]
      BY <1>m, <1>6, <2>1, <2>3 DEF SendCommand
    <3>2. \A r \in Places : ~Holds(r, m)
      <4>1. ~Sent(m)
        BY <1>0, <1>m, <2>1 DEF Sent, Current
      <4> QED BY <4>1 DEF OnlySent
    <3>3. down[conn] \in Seq(Cmds) /\ <<"down", conn>> \in Places
      BY <3>1, PlacesArePairs DEF TypeOK
    <3>9. Awaited(m)' /\ Sent(m)'
      BY <1>0, <1>m, <3>1 DEF Awaited, Sent, Current
    <3>4. Distinct(Append(down[conn], m))
          /\ \A x : In(Append(down[conn], m), x) => In(down[conn], x) \/ x = m
      <4>1. ~In(down[conn], m)
        BY <3>1, <3>2, <3>3, HeldAt
      <4> QED BY <1>3, <3>1, <3>3, <4>1, Queues DEF Ordered
    <3>5. Ordered'
      BY <1>3, <2>1, <3>1, <3>4 DEF Ordered, TypeOK
    <3>6. ASSUME NEW x \in Cmds, NEW r \in Places, Holds(r, x)'
          PROVE  Holds(r, x) \/ (r = <<"down", conn>> /\ x = m)
      <4>1. CASE r[1] = "down"
        <5>1. r[2] \in Conns /\ r = <<r[1], r[2]>> /\ In(down'[r[2]], x)
          BY <3>6, <4>1, PlacesArePairs DEF Holds
        <5>2. CASE r[2] = conn
          BY <3>1, <3>4, <4>1, <5>1, <5>2 DEF Holds, TypeOK
        <5>3. CASE r[2] # conn
          BY <3>1, <4>1, <5>1, <5>3 DEF Holds, TypeOK
        <5> QED BY <5>2, <5>3
      <4>2. CASE r[1] # "down"
        BY <2>1, <3>6, <4>2 DEF Holds
      <4> QED BY <4>1, <4>2
    <3>7. EachInOnePlace'
      <4>1. ASSUME NEW x \in Cmds, NEW r \in Places, NEW s \in Places, Holds(r, x)', Holds(s, x)'
            PROVE  r = s
        BY <3>2, <3>6, <4>1 DEF EachInOnePlace
      <4> QED BY <3>5, <4>1 DEF EachInOnePlace, Ordered
    <3>8. ASSUME NEW x \in Cmds, NEW r \in Places, Holds(r, x)'
          PROVE  Sent(x)' /\ (Of(x) \notin spoiled' => Awaited(x)')
      <4>1. CASE Holds(r, x)
        <5>1. Sent(x)'
          BY <1>1, <4>1 DEF OnlySent
        <5>2. ASSUME Of(x) \notin spoiled' PROVE Awaited(x)'
          <6>1. Awaited(x)
            BY <2>1, <4>1, <5>2 DEF OnlyTheAwaited
          <6>2. x[1] # cl
            BY <2>1, <6>1 DEF Awaited
          <6> QED BY <1>1, <6>1, <6>2
        <5> QED BY <5>1, <5>2
      <4>2. CASE x = m
        BY <3>9, <4>2
      <4> QED BY <3>6, <3>8, <4>1, <4>2
    <3> QED BY <3>7, <3>8 DEF OnlySent, OnlyTheAwaited
  <2> QED BY <2>2, <2>3
<1>7. CASE TakeResponse(cl)
  <2>1. /\ UNCHANGED <<down, running, up, push, spoiled>> /\ buf[m] # None
        /\ buf' = [buf EXCEPT ![m] = None]
    BY <1>m, <1>7 DEF TakeResponse
  <2>2. <<"buf", m>> \in Places
    BY PlacesArePairs
  <2>3. Of(m) \notin spoiled => Holds(<<"buf", m>>, m)
    BY <2>1, <2>2, HeldAt DEF OwnBuf
  <2>a. \A x \in Cmds : Awaited(x) /\ x[1] = cl => x = m
    BY <1>m DEF Awaited
  <2>4. ASSUME NEW x \in Cmds, NEW r \in Places, Holds(r, x)'
        PROVE  Holds(r, x) /\ r # <<"buf", m>>
    <3>1. CASE r[1] = "buf"
      <4>1. r = <<r[1], r[2]>> /\ r[2] \in Cmds /\ buf'[r[2]] = x
        BY <2>4, <3>1, PlacesArePairs DEF Holds
      <4>2. r[2] # m /\ buf[r[2]] = x
        BY <2>1, <2>2, <4>1, Pairs DEF TypeOK
      <4> QED BY <3>1, <4>1, <4>2 DEF Holds
    <3>2. CASE r[1] # "buf"
      BY <2>1, <2>4, <3>2 DEF Holds
    <3> QED BY <3>1, <3>2
  <2>5. Ordered'
    BY <1>3, <2>1 DEF Ordered
  <2>6. ASSUME NEW x \in Cmds, NEW r \in Places, Holds(r, x)'
        PROVE  Sent(x)' /\ (Of(x) \notin spoiled' => Awaited(x)')
    <3>1. Sent(x)'
      BY <1>1, <2>4, <2>6 DEF OnlySent
    <3>2. ASSUME Of(x) \notin spoiled' PROVE Awaited(x)'
      <4>1. Awaited(x)
        BY <2>1, <2>4, <2>6, <3>2 DEF OnlyTheAwaited
      <4>2. x # m
        BY <2>1, <2>2, <2>3, <2>4, <2>6, <3>2 DEF EachInOnePlace
      <4>3. x[1] # cl
        BY <2>a, <4>1, <4>2
      <4> QED BY <1>1, <4>1, <4>3
    <3> QED BY <3>1, <3>2
  <2> QED BY <1>2, <2>4, <2>5, <2>6, NothingGained
<1> QED BY <1>5, <1>6, <1>7 DEF ClientStep

(* A second client of a container that opens a channel spoils it.          *)
LEMMA OneAtATimeStep == IInv /\ OneAtATime /\ [Next]_vars => OneAtATime'
<1> SUFFICES ASSUME IInv, OneAtATime, [Next]_vars PROVE OneAtATime'
  OBVIOUS
<1>0. TypeOK /\ client \in [Clients -> ClientStates]
  BY DEF IInv, TypeOK, ClientStates
<1>1. ASSUME UNCHANGED <<client, spoiled>> PROVE OneAtATime'
  BY <1>1 DEF OneAtATime, Open
<1>2. ASSUME NEW cl \in Clients, ClientStep(cl) PROVE OneAtATime'
  <2>1. CASE StoreChannel(cl)
    <3>1. /\ client' = [client EXCEPT ![cl].pc = "stored"]
          /\ spoiled' = IF \E d \in Clients \ {cl} : ContainerOf[d] = ContainerOf[cl] /\ Open(d)
                        THEN spoiled \union {ContainerOf[cl]} ELSE spoiled
      BY <2>1 DEF StoreChannel
    <3>2. \A d \in Clients \ {cl} : Open(d)' <=> Open(d)
      BY <1>0, <3>1 DEF Open
    <3>3. spoiled \subseteq spoiled'
      BY <3>1
    <3>4. \A d \in Clients \ {cl} : ContainerOf[d] = ContainerOf[cl] /\ Open(d)
                                    => ContainerOf[cl] \in spoiled'
      BY <3>1
    <3> QED BY <3>2, <3>3, <3>4 DEF OneAtATime
  <2>2. CASE Lookup(cl) \/ SendCommand(cl) \/ TakeResponse(cl) \/ Timeout(cl) \/ DeleteChannel(cl)
    <3>1. spoiled \subseteq spoiled'
      BY <2>2 DEF Lookup, SendCommand, TakeResponse, Timeout, DeleteChannel
    <3>2. \A d \in Clients : Open(d)' => Open(d)
      <4>1. Open(cl)' => Open(cl)
        BY <1>0, <2>2
        DEF Lookup, SendCommand, TakeResponse, Timeout, DeleteChannel, Open, ClientStates
      <4>2. \A d \in Clients \ {cl} : Open(d)' => Open(d)
        BY <1>0, <1>2, ClientFrame DEF Open
      <4> QED BY <4>1, <4>2
    <3> QED BY <3>1, <3>2 DEF OneAtATime
  <2> QED BY <1>2, <2>1, <2>2 DEF ClientStep
<1>3. ASSUME NEW e \in Conns, HandlerStep(e) \/ AgentRecv(e) \/ AgentAnswer(e)
      PROVE  UNCHANGED <<client, spoiled>>
  BY <1>3 DEF HandlerStep, RecvExecResponse, PushResponse, AgentRecv, AgentAnswer
<1>4. ASSUME Break \/ Reconnect \/ UNCHANGED vars PROVE UNCHANGED <<client, spoiled>>
  BY <1>4 DEF Break, Reconnect, vars
<1> QED BY <1>1, <1>2, <1>3, <1>4 DEF Next

(* The response to the command that is awaited finds its own channel: no   *)
(* other is entered for that container.                                    *)
LEMMA OwnChannelStep ==
  IInv /\ InTurn /\ [Next]_vars => OwnPush' /\ OwnBuf'
<1> SUFFICES ASSUME IInv, InTurn, [Next]_vars PROVE OwnPush' /\ OwnBuf'
  OBVIOUS
<1>0. OwnPush /\ OwnBuf /\ OnlyTheAwaited /\ OneAtATime /\ TypeOK /\ Channels /\ Routed
  BY DEF InTurn, IInv
<1>1. spoiled \subseteq spoiled'
  BY DEF Next, ClientStep, Lookup, StoreChannel, SendCommand, TakeResponse, Timeout,
         DeleteChannel, HandlerStep, RecvExecResponse, PushResponse, AgentRecv, AgentAnswer,
         Break, Reconnect, vars
<1>2. ASSUME UNCHANGED <<push, buf>> PROVE OwnPush' /\ OwnBuf'
  BY <1>0, <1>1, <1>2 DEF OwnPush, OwnBuf
<1>3. ASSUME NEW cl \in Clients, TakeResponse(cl) PROVE OwnPush' /\ OwnBuf'
  <2>1. push' = push /\ buf' = [buf EXCEPT ![Current(cl)] = None] /\ spoiled' = spoiled
    BY <1>3 DEF TakeResponse
  <2> QED BY <1>0, <2>1 DEF OwnPush, OwnBuf, TypeOK
<1>4. ASSUME NEW e \in Conns, RecvExecResponse(e) PROVE OwnPush' /\ OwnBuf'
  <2>1. PICK m \in Cmds : m = Head(up[e]) /\ In(up[e], m)
    <3>1. up[e] \in Seq(Cmds) /\ up[e] # <<>>
      BY <1>0, <1>4 DEF RecvExecResponse, TypeOK
    <3> QED BY <3>1, Sequences, Queues
  <2>2. UNCHANGED <<buf, spoiled>>
        /\ \/ push' = push
           \/ /\ execChannels[Of(m)] # None
              /\ push' = [push EXCEPT ![e] = [ch |-> execChannels[Of(m)], resp |-> m]]
    BY <1>4, <2>1 DEF RecvExecResponse
  <2>3. ASSUME execChannels[Of(m)] # None, Of(m) \notin spoiled PROVE execChannels[Of(m)] = m
    <3>1. Awaited(m)
      <4>1. Holds(<<"up", e>>, m) /\ <<"up", e>> \in Places
        BY <2>1, HeldAt, PlacesArePairs
      <4> QED BY <1>0, <2>3, <4>1 DEF OnlyTheAwaited
    <3>2. m[1] \in Clients /\ Open(m[1]) /\ ContainerOf[m[1]] = Of(m) /\ Of(m) \in Containers
      BY <3>1, Pairs, ConstantsAssumption DEF Awaited, Open, Of
    <3>3. PICK x \in Cmds : x = execChannels[Of(m)]
      BY <1>0, <2>3, <3>2 DEF TypeOK
    <3>4. Open(x[1]) /\ x = Current(x[1]) /\ ContainerOf[x[1]] = Of(m) /\ x[1] \in Clients
      BY <1>0, <2>3, <3>2, <3>3, Pairs DEF Channels, ChannelOf
    <3>5. x[1] = m[1]
      BY <1>0, <2>3, <3>2, <3>4 DEF OneAtATime
    <3> QED BY <3>1, <3>3, <3>4, <3>5 DEF Awaited
  <2>4. ASSUME NEW d \in Conns, push'[d] # None, Of(push'[d].resp) \notin spoiled
        PROVE  push'[d].ch = push'[d].resp
    <3>1. CASE push'[d] = push[d]
      BY <1>0, <2>4, <3>1 DEF OwnPush
    <3>2. CASE push'[d] # push[d]
      <4>1. execChannels[Of(m)] # None
            /\ push'[d] = [ch |-> execChannels[Of(m)], resp |-> m]
        BY <1>0, <2>2, <3>2 DEF TypeOK
      <4>2. push'[d].resp = m /\ push'[d].ch = execChannels[Of(m)]
        BY <4>1
      <4> QED BY <2>3, <2>4, <4>1, <4>2
    <3> QED BY <3>1, <3>2
  <2>5. OwnPush'
    BY <2>2, <2>4 DEF OwnPush
  <2> QED BY <1>0, <2>2, <2>5 DEF OwnBuf
<1>5. ASSUME NEW e \in Conns, PushResponse(e) PROVE OwnPush' /\ OwnBuf'
  <2>1. PICK x \in Cmds, y \in Cmds : x = push[e].ch /\ y = push[e].resp
    BY <1>0, <1>5 DEF PushResponse, TypeOK
  <2>2. push[e] # None /\ push' = [push EXCEPT ![e] = None] /\ spoiled' = spoiled
        /\ buf' = [buf EXCEPT ![x] = y]
    BY <1>5, <2>1 DEF PushResponse
  <2>3. Of(x) = Of(y) /\ (Of(y) \notin spoiled => x = y)
    BY <1>0, <2>1, <2>2 DEF Routed, OwnPush
  <2>4. OwnPush'
    BY <1>0, <2>2 DEF OwnPush, TypeOK
  <2> QED BY <1>0, <2>2, <2>3, <2>4 DEF OwnBuf, TypeOK
<1> QED
  BY <1>2, <1>3, <1>4, <1>5
  DEF Next, ClientStep, HandlerStep, Lookup, StoreChannel, SendCommand, Timeout, DeleteChannel,
      AgentRecv, AgentAnswer, Break, Reconnect, vars

(* What is on its way, from one step to the next.                          *)
LEMMA WaysStep ==
  IInv /\ InTurn /\ [Next]_vars => EachInOnePlace' /\ OnlySent' /\ OnlyTheAwaited'
<1> SUFFICES ASSUME IInv, InTurn, [Next]_vars
             PROVE  EachInOnePlace' /\ OnlySent' /\ OnlyTheAwaited'
  OBVIOUS
<1>0. TypeOK /\ Results /\ EachInOnePlace /\ OnlySent /\ OnlyTheAwaited /\ OwnBuf /\ Ordered
  BY DEF IInv, InTurn, EachInOnePlace, Ordered
<1>1. ASSUME NEW cl \in Clients, ClientStep(cl)
      PROVE  EachInOnePlace' /\ OnlySent' /\ OnlyTheAwaited'
  <2>1. client[cl].sw = conn => conn \in Conns \/ client[cl].pc # "stored"
    BY <1>0 DEF Results, ResultsOf
  <2> QED BY <1>0, <1>1, <2>1, WaysOfClients
<1>2. ASSUME NEW e \in Conns, HandlerStep(e) \/ AgentRecv(e) \/ AgentAnswer(e)
      PROVE  EachInOnePlace' /\ OnlySent' /\ OnlyTheAwaited'
  <2>1. UNCHANGED <<client, spoiled>>
    BY <1>2 DEF HandlerStep, RecvExecResponse, PushResponse, AgentRecv, AgentAnswer
  <2>2. PICK m \in Cmds, p \in Places, q \in Places : Holds(p, m) /\ Moves(m, p, q)
    BY <1>0, <1>2, Handing
  <2>3. Ordered'
    BY <1>0, <1>2, Handing
  <2> QED BY <1>0, <2>1, <2>2, <2>3, Moved
<1>3. ASSUME UNCHANGED <<client, spoiled>>, Ordered',
             \A x \in Cmds, r \in Places : Holds(r, x)' => Holds(r, x)
      PROVE  EachInOnePlace' /\ OnlySent' /\ OnlyTheAwaited'
  <2>1. \A x : (Sent(x)' <=> Sent(x)) /\ (Awaited(x)' <=> Awaited(x))
    BY <1>3 DEF Sent, Awaited, Current
  <2>2. \A x \in Cmds, r \in Places :
          Holds(r, x)' => Sent(x)' /\ (Of(x) \notin spoiled' => Awaited(x)')
    BY <1>0, <1>3, <2>1 DEF OnlySent, OnlyTheAwaited
  <2> QED BY <1>0, <1>3, <2>2, NothingGained
<1>4. CASE Break
  <2>1. PICK n \in 0..Len(up[conn]) : up' = [up EXCEPT ![conn] = SubSeq(up[conn], 1, n)]
    BY <1>4 DEF Break
  <2>2. conn \in Conns /\ UNCHANGED <<buf, running, push, client, spoiled>>
        /\ down' = [down EXCEPT ![conn] = << >>]
    BY <1>0, <1>4 DEF Break, TypeOK, Conns
  <2>3. /\ \A x : In(SubSeq(up[conn], 1, n), x) => In(up[conn], x)
        /\ Distinct(SubSeq(up[conn], 1, n))
    <3>1. up[conn] \in Seq(Cmds)
      BY <1>0, <2>2 DEF TypeOK
    <3> QED BY <1>0, <2>2, <3>1, Queues DEF Ordered
  <2>4. (\A x : ~In(<< >>, x)) /\ Distinct(<< >>)
    BY DEF In, Distinct
  <2>5. Ordered'
    BY <1>0, <2>1, <2>2, <2>3, <2>4 DEF Ordered, TypeOK
  <2>6. \A d \in Conns : \A x : (In(down'[d], x) => In(down[d], x)) /\ (In(up'[d], x) => In(up[d], x))
    BY <1>0, <2>1, <2>2, <2>3, <2>4 DEF TypeOK
  <2>7. \A x \in Cmds, r \in Places : Holds(r, x)' => Holds(r, x)
    BY <2>2, <2>6, PlacesArePairs DEF Holds
  <2> QED BY <1>3, <2>2, <2>5, <2>7
<1>5. CASE Reconnect \/ UNCHANGED vars
  <2>1. UNCHANGED <<down, running, up, push, buf>> /\ UNCHANGED <<client, spoiled>>
    BY <1>5 DEF Reconnect, vars
  <2>2. (\A x, r : Holds(r, x)' <=> Holds(r, x)) /\ Ordered'
    BY <1>0, <2>1, NothingMoves
  <2> QED BY <1>3, <2>1, <2>2
<1> QED BY <1>1, <1>2, <1>4, <1>5 DEF Next

(* What is taken from a channel is the output of its own command.          *)
LEMMA OwnOutputStep == IInv /\ InTurn /\ [Next]_vars => OwnOutputWhenSequential'
<1> SUFFICES ASSUME IInv, InTurn, [Next]_vars PROVE OwnOutputWhenSequential'
  OBVIOUS
<1>0. OwnOutputWhenSequential /\ OwnBuf /\ TypeOK
  BY DEF InTurn, IInv
<1>1. spoiled \subseteq spoiled'
  BY DEF Next, ClientStep, Lookup, StoreChannel, SendCommand, TakeResponse, Timeout,
         DeleteChannel, HandlerStep, RecvExecResponse, PushResponse, AgentRecv, AgentAnswer,
         Break, Reconnect, vars
<1>2. ASSUME UNCHANGED result PROVE OwnOutputWhenSequential'
  BY <1>0, <1>1, <1>2 DEF OwnOutputWhenSequential
<1>3. ASSUME NEW cl \in Clients, ClientStep(cl) PROVE OwnOutputWhenSequential'
  <2>0. PICK m \in Cmds : m = Current(cl)
    BY <1>0, Pairs
  <2>1. CASE TakeResponse(cl)
    <3>1. result' = [result EXCEPT ![m] = buf[m]] /\ buf[m] # None
      BY <2>0, <2>1 DEF TakeResponse
    <3>2. Of(m) \notin spoiled => buf[m] = m
      BY <1>0, <3>1 DEF OwnBuf
    <3> QED BY <1>0, <1>1, <3>1, <3>2 DEF OwnOutputWhenSequential, TypeOK
  <2>2. CASE SendCommand(cl) \/ Timeout(cl)
    <3>1. result' = result \/ result' = [result EXCEPT ![m] = NoAnswer]
      BY <2>0, <2>2 DEF SendCommand, Timeout
    <3>2. NoAnswer \notin Cmds
      BY Pairs
    <3> QED BY <1>0, <1>1, <3>1, <3>2 DEF OwnOutputWhenSequential, TypeOK
  <2>3. CASE Lookup(cl) \/ StoreChannel(cl) \/ DeleteChannel(cl)
    BY <1>2, <2>3 DEF Lookup, StoreChannel, DeleteChannel
  <2> QED BY <1>3, <2>1, <2>2, <2>3 DEF ClientStep
<1> QED BY <1>0, <1>2, <1>3, OthersFrame, ConstantsAssumption DEF Next, Conns

(* Initially nothing is on its way.                                        *)
LEMMA InitInTurn == Init => InTurn
<1> SUFFICES ASSUME Init PROVE InTurn
  OBVIOUS
<1> USE DEF Init
<1>1. \A m \in Cmds, p \in Places : ~Holds(p, m)
  <2> SUFFICES ASSUME NEW m \in Cmds, NEW p \in Places, Holds(p, m) PROVE FALSE
    OBVIOUS
  <2>1. ~In(<< >>, m) /\ m # None
    BY Pairs DEF In
  <2> QED BY <2>1, PlacesArePairs DEF Holds
<1>2. EachInOnePlace
  BY <1>1 DEF EachInOnePlace, Distinct
<1>3. OnlySent /\ OnlyTheAwaited
  BY <1>1 DEF OnlySent, OnlyTheAwaited
<1>4. OneAtATime
  BY DEF OneAtATime, Open
<1>5. OwnPush /\ OwnBuf
  BY DEF OwnPush, OwnBuf
<1>6. OwnOutputWhenSequential
  BY Pairs DEF OwnOutputWhenSequential
<1> QED BY <1>2, <1>3, <1>4, <1>5, <1>6 DEF InTurn

(* So they are always in turn.                                             *)
LEMMA AlwaysInTurn == Spec => [](IInv /\ InTurn)
<1>1. IInv /\ InTurn /\ [Next]_vars => InTurn'
  <2>1. IInv /\ InTurn /\ [Next]_vars => OneAtATime'
    BY OneAtATimeStep DEF InTurn
  <2> QED BY <2>1, WaysStep, OwnChannelStep, OwnOutputStep DEF InTurn
<1> QED BY <1>1, InitInTurn, Invariant, PTL DEF Spec

(* As long as the commands of a container neither overlap nor time out,    *)
(* each is given its own output: with one at a time, finding the channel   *)
(* by container is as good as finding it by command, whatever the other    *)
(* containers' callers do and however often the streams break.             *)
THEOREM OwnOutputHolds == Spec => []OwnOutputWhenSequential
<1>1. InTurn => OwnOutputWhenSequential
  BY DEF InTurn
<1> QED BY <1>1, AlwaysInTurn, PTL

(* A stream handler is held up by a full channel only on behalf of a       *)
(* container whose commands overlapped or timed out: of any other, what it *)
(* would wait behind in the channel is the very answer it brings, which is *)
(* in one place only.                                                      *)
THEOREM HandlersGoOn == Spec => []HandlerGoesOn
<1>1. IInv /\ InTurn => HandlerGoesOn
  <2> SUFFICES ASSUME IInv, InTurn, NEW e \in Conns, push[e] # None,
                      Of(push[e].resp) \notin spoiled, buf[push[e].ch] # None
               PROVE  FALSE
    BY DEF HandlerGoesOn
  <2>1. push[e].ch = push[e].resp
    BY DEF InTurn, OwnPush
  <2>2. PICK m \in Cmds : m = push[e].resp
    BY DEF IInv, TypeOK
  <2>3. buf[m] = m
    BY <2>1, <2>2 DEF InTurn, OwnBuf
  <2>4. Holds(<<"push", e>>, m) /\ Holds(<<"buf", m>>, m)
    BY <2>2, <2>3, HeldAt
  <2>5. <<"push", e>> \in Places /\ <<"buf", m>> \in Places
    BY DEF Places
  <2>6. <<"push", e>> = <<"buf", m>>
    BY <2>4, <2>5 DEF InTurn, EachInOnePlace
  <2> QED BY <2>6
<1> QED BY <1>1, AlwaysInTurn, PTL
=============================================================================
