---------------------------- MODULE TerminalPage ----------------------------
(***************************************************************************)
(* The terminal page of the dashboard and the sessions it opens: a socket  *)
(* per visited container, closed when the page turns to another container  *)
(* (src/web/src/app/terminal/page.tsx; /ws/terminal in                     *)
(* cmd/picobox-master/main.go).                                            *)
(*                                                                         *)
(* The page stays mounted from one container to the next, and has one      *)
(* "connected" flag, which the handlers of every socket set.  A session    *)
(* runs one command at a time, and writes what that ends in: an output, an *)
(* error, "Timeout ...", or nothing at all.  Whose output it is, is module *)
(* ExecBroker's matter: it may be that of another session in the same      *)
(* container, or of a command that timed out before.                       *)
(***************************************************************************)
EXTENDS TerminalData

VARIABLES
  target,       \* containerId, or NoTarget when the page is not mounted
  cur,          \* the socket of the last run of the effect
  isConnected,  \* the state of the page
  socks         \* per socket: the browser's end, and the session's

pageVars == <<target, cur, isConnected, socks>>
terminalVars == <<records, pageVars>>

TerminalInit ==
  /\ records \in [Ids -> Records \union {Nil}]
  /\ target = NoTarget
  /\ cur = 0
  /\ isConnected = FALSE
  /\ socks = [s \in Sockets |-> NoSock]

-----------------------------------------------------------------------------
(* The page.                                                               *)

(* The effect of a mount. *)
MountTerminal(c) ==
  /\ target = NoTarget
  /\ target' = c
  /\ cur' = 1
  /\ isConnected' = FALSE
  /\ socks' = [s \in Sockets |-> IF s = 1 THEN [NoSock EXCEPT !.ready = "connecting"]
                                 ELSE NoSock]

(* The page turns to another container: cleanup closes the socket, and the *)
(* effect opens the next.  The flag is left alone.                         *)
Visit(c) ==
  /\ target \notin {NoTarget, c}
  /\ cur < MaxSockets
  /\ target' = c
  /\ cur' = cur + 1
  /\ socks' = [socks EXCEPT
       ![cur] = IF @.ready = "closed" THEN @
                ELSE [NoSock EXCEPT !.ready = "closing", !.over = TRUE],
       ![cur + 1] = [NoSock EXCEPT !.ready = "connecting"]]
  /\ UNCHANGED isConnected

UnmountTerminal ==
  /\ target # NoTarget
  /\ target' = NoTarget
  /\ cur' = 0
  /\ isConnected' = FALSE
  /\ socks' = [s \in Sockets |-> NoSock]

(* onopen.  The session says that it is connected, or else that there is   *)
(* no such container, or no agent, and is over.                            *)
onopen(s) ==
  /\ socks[s].ready = "connecting"
  /\ \E refused \in BOOLEAN :
       /\ target \notin known => refused
       /\ socks' = [socks EXCEPT ![s].ready = "open", ![s].down = <<Notice>>,
                                 ![s].over = refused]
  /\ isConnected' = TRUE
  /\ UNCHANGED <<target, cur>>

(* onmessage: an answer is shown, in the terminal of its own socket. *)
onmessage(s) ==
  /\ socks[s].ready = "open"
  /\ socks[s].down # <<>>
  /\ LET m == Head(socks[s].down) IN
       socks' = [socks EXCEPT ![s].down = Tail(@),
                              ![s].screen = IF m = Notice THEN @ ELSE Append(@, m)]
  /\ UNCHANGED <<target, cur, isConnected>>

(* Mutant: the page only hears of errors. *)
BugOnclose(s) ==
  /\ socks[s].ready # "none" /\ socks[s].ready # "closed"
  /\ socks' = [socks EXCEPT ![s] = [NoSock EXCEPT !.ready = "closed"]]
  /\ UNCHANGED <<target, cur, isConnected>>

(* onclose, of whatever socket of the page: the session is over and all it *)
(* had said has been received, or close() is done, or the connection was   *)
(* refused or broke.                                                       *)
onclose(s) ==
  /\ socks[s].ready \notin {"none", "closed"}
  /\ socks' = [socks EXCEPT ![s].ready = "closed", ![s].up = <<>>, ![s].down = <<>>,
                            ![s].busy = 0]
  /\ isConnected' = FALSE
  /\ UNCHANGED <<target, cur>>

(* Enter, with something typed.  What is typed before the socket is open   *)
(* is ignored; "clear" and an empty line are not sent.                     *)
Enter ==
  /\ cur # 0 /\ socks[cur].ready = "open"
  /\ socks[cur].asked < MaxCommands
  /\ socks' = [socks EXCEPT ![cur].asked = @ + 1,
                            ![cur].up = Append(@, socks[cur].asked + 1)]
  /\ UNCHANGED <<target, cur, isConnected>>

-----------------------------------------------------------------------------
(* The session.                                                            *)

(* Mutant: one message is read, and no other. *)
BugReadMessage(s) ==
  /\ ~socks[s].over /\ socks[s].busy = 0
  /\ socks[s].up # <<>> /\ Head(socks[s].up) = 1
  /\ socks' = [socks EXCEPT ![s].busy = Head(socks[s].up), ![s].up = Tail(@)]
  /\ UNCHANGED <<target, cur, isConnected>>

ReadMessage(s) ==
  /\ ~socks[s].over /\ socks[s].busy = 0
  /\ socks[s].up # <<>>
  /\ socks' = [socks EXCEPT ![s].busy = Head(socks[s].up), ![s].up = Tail(@)]
  /\ UNCHANGED <<target, cur, isConnected>>

(* Mutant: the error path writes, and falls through to write again. *)
BugFinish(s) ==
  /\ socks[s].busy # 0
  /\ socks' = [socks EXCEPT ![s].busy = 0,
                            ![s].down = @ \o <<socks[s].busy, socks[s].busy>>]
  /\ UNCHANGED <<target, cur, isConnected>>

(* The turn of the command ends: whatever response of the container has    *)
(* come into the channel, or why none has, is written, unless it is empty; *)
(* then no prompt follows it either.                                       *)
Finish(s) ==
  /\ socks[s].busy # 0
  /\ \/ socks' = [socks EXCEPT ![s].busy = 0, ![s].down = Append(@, socks[s].busy)]
     \/ socks' = [socks EXCEPT ![s].busy = 0,
                               ![s].silent = @ \union {socks[s].busy}]
  /\ UNCHANGED <<target, cur, isConnected>>

-----------------------------------------------------------------------------
SockServed(s) == ReadMessage(s) \/ Finish(s) \/ onmessage(s)

(* What happens while the page stays. *)
TerminalStep ==
  \/ \E c \in Targets : Visit(c)
  \/ Enter
  \/ \E s \in Sockets : onopen(s) \/ onclose(s) \/ SockServed(s)

RecordsChange ==
  /\ records' \in [Ids -> Records \union {Nil}]
  /\ UNCHANGED pageVars

TerminalNext ==
  \/ (\E c \in Targets : MountTerminal(c)) /\ UNCHANGED records
  \/ UnmountTerminal /\ UNCHANGED records
  \/ TerminalStep /\ UNCHANGED records
  \/ RecordsChange

TerminalSpec == TerminalInit /\ [][TerminalNext]_terminalVars

-----------------------------------------------------------------------------
(* Properties                                                              *)

TerminalTypeOK ==
  /\ target \in Targets \union {NoTarget}
  /\ cur \in 0..MaxSockets
  /\ isConnected \in BOOLEAN
  /\ socks \in [Sockets ->
       [ready : {"none", "connecting", "open", "closing", "closed"},
        asked : 0..MaxCommands, up : Seq(Commands), busy : 0..MaxCommands,
        over : BOOLEAN, down : Seq(0..MaxCommands), screen : Seq(Commands),
        silent : SUBSET Commands]]

(* "Connected" is never shown when every socket of the page is closed; and *)
(* on the first container it visits it is shown exactly when the socket is *)
(* open.  (Later it may be missing: the old socket's onclose comes after   *)
(* the new one's onopen.)                                                  *)
FlagIsHonest ==
  /\ isConnected => \E s \in Sockets : socks[s].ready \in {"open", "closing"}
  /\ cur = 1 => (isConnected <=> socks[1].ready = "open")

(* The commands of a socket that are over and done with, and those that    *)
(* are not: on their way, running, or with an answer that is on its way.   *)
Nums(q)     == {q[k] : k \in DOMAIN q}
Settled(r)  == Nums(r.screen) \union r.silent
Underway(r) == (Nums(r.up) \union {r.busy} \union Nums(r.down)) \ {0}

(* A terminal shows one answer per command of its own session, in the      *)
(* order in which they were typed, for as many as are typed ahead.  While  *)
(* the socket is open no command is lost or answered twice: each is either *)
(* settled or under way.  (What the answers say is another matter, see     *)
(* module ExecBroker.)                                                     *)
AnswersInOrder ==
  \A s \in Sockets :
    LET r == socks[s] IN
      /\ \A j, k \in DOMAIN r.screen : j < k => r.screen[j] < r.screen[k]
      /\ Nums(r.screen) \subseteq 1..r.asked
      /\ Nums(r.screen) \intersect r.silent = {}
      /\ r.ready = "open" =>
           /\ Settled(r) \union Underway(r) = 1..r.asked
           /\ Settled(r) \intersect Underway(r) = {}

(* A command has been typed, and nothing has come of it yet. *)
Waits(s) == /\ socks[s].ready = "open" /\ ~socks[s].over
            /\ Len(socks[s].screen) + Cardinality(socks[s].silent) < socks[s].asked

=============================================================================
