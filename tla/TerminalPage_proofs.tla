------------------------- MODULE TerminalPage_proofs -------------------------
(***************************************************************************)
(* Proofs about TerminalPage, for any containers, visits and commands.     *)
(* The argument: the sockets after the last visit are untouched (Beyond);  *)
(* the commands of a session pass from up to busy to down to the screen in *)
(* their order, each smaller than those behind it (InLine); and until the  *)
(* socket is closed none gets lost, nor comes back once it was answered    *)
(* with nothing (Whole).                                                   *)
(***************************************************************************)
EXTENDS TerminalPage, SequenceTheorems, TLAPS

SockStates ==
  [ready : {"none", "connecting", "open", "closing", "closed"},
   asked : 0..MaxCommands, up : Seq(Commands), busy : 0..MaxCommands,
   over : BOOLEAN, down : Seq(0..MaxCommands), screen : Seq(Commands),
   silent : SUBSET Commands]

Beyond ==
  /\ target # NoTarget => cur # 0
  /\ \A s \in Sockets : s > cur => socks[s].ready = "none"
  /\ \A s \in Sockets : socks[s].ready = "none" => socks[s].busy = 0 /\ socks[s].up = <<>>

(* A notice among the outputs is not one of them. *)
Increasing(q) == \A j, k \in DOMAIN q : j < k /\ q[k] # Notice => q[j] < q[k]
UpTo(q, n)    == \A k \in DOMAIN q : q[k] <= n
Before(q, w)  == \A j \in DOMAIN q, k \in DOMAIN w : w[k] # Notice => q[j] < w[k]
Under(q, n)   == \A k \in DOMAIN q : q[k] < n

InLine(r) ==
  /\ Increasing(r.screen) /\ Increasing(r.down) /\ Increasing(r.up)
  /\ UpTo(r.screen, r.asked) /\ UpTo(r.down, r.asked) /\ UpTo(r.up, r.asked)
  /\ r.busy <= r.asked
  /\ Before(r.screen, r.down) /\ Before(r.screen, r.up) /\ Before(r.down, r.up)
  /\ r.busy # 0 => Under(r.screen, r.busy) /\ Under(r.down, r.busy)
  /\ \A k \in DOMAIN r.up : r.busy < r.up[k]

Has(q, n) == \E k \in DOMAIN q : q[k] = n

Whole(r) ==
  /\ r.ready = "connecting" => r.asked = 0
  /\ r.ready # "closed" =>
       \A n \in 1..r.asked :
         Has(r.screen, n) \/ Has(r.down, n) \/ Has(r.up, n) \/ n = r.busy \/ n \in r.silent
  /\ \A n \in r.silent :
       n <= r.asked /\ n # r.busy /\ ~Has(r.screen, n) /\ ~Has(r.down, n) /\ ~Has(r.up, n)

(* The type invariant in two parts, which different provers are good at. *)
Flag == isConnected \in BOOLEAN

SockTypes ==
  /\ target \in Targets \union {NoTarget}
  /\ cur \in 0..MaxSockets
  /\ socks \in [Sockets -> SockStates]

TerminalInv == Flag /\ SockTypes /\ Beyond /\ FlagIsHonest
               /\ \A s \in Sockets : InLine(socks[s]) /\ Whole(socks[s])

-----------------------------------------------------------------------------
(* Sequences of numbers.                                                   *)

(* The first element, and what is left.                                    *)
LEMMA Heads ==
  ASSUME NEW S, NEW q \in Seq(S), q # <<>>
  PROVE  /\ Head(q) \in S /\ Tail(q) \in Seq(S) /\ 1 \in DOMAIN q /\ Head(q) = q[1]
         /\ \A k \in DOMAIN Tail(q) : k + 1 \in DOMAIN q /\ Tail(q)[k] = q[k + 1] /\ k \in Nat /\ k >= 1
<1>1. Head(q) \in S /\ Tail(q) \in Seq(S) /\ Head(q) = q[1]
  BY HeadTailProperties
<1>2. Len(q) \in Nat /\ Len(q) # 0 /\ DOMAIN q = 1..Len(q)
  BY EmptySeq, LenProperties
<1>3. Len(Tail(q)) = Len(q) - 1 /\ \A i \in 1..Len(Tail(q)) : Tail(q)[i] = q[i + 1]
  BY HeadTailProperties
<1>4. DOMAIN Tail(q) = 1..(Len(q) - 1)
  BY <1>1, <1>3, LenProperties
<1> QED BY <1>1, <1>2, <1>3, <1>4

(* An element added at the end.                                            *)
LEMMA Ends ==
  ASSUME NEW S, NEW q \in Seq(S), NEW x \in S
  PROVE  /\ Append(q, x) \in Seq(S)
         /\ \A k \in DOMAIN Append(q, x) :
              \/ k \in DOMAIN q /\ Append(q, x)[k] = q[k]
              \/ k \notin DOMAIN q /\ Append(q, x)[k] = x /\ \A j \in DOMAIN q : j < k
<1>1. /\ Append(q, x) \in Seq(S) /\ Len(Append(q, x)) = Len(q) + 1
      /\ \A i \in 1..Len(q) : Append(q, x)[i] = q[i]
      /\ Append(q, x)[Len(q) + 1] = x
  BY AppendProperties
<1>2. Len(q) \in Nat /\ DOMAIN q = 1..Len(q) /\ DOMAIN Append(q, x) = 1..(Len(q) + 1)
  BY <1>1, LenProperties
<1> QED BY <1>1, <1>2

(* The head is what a tail has not got, but for repetitions.               *)
LEMMA HasHead ==
  ASSUME NEW q \in Seq(Nat), q # <<>>
  PROVE  \A n \in Nat : Has(q, n) <=> n = Head(q) \/ Has(Tail(q), n)
<1> SUFFICES ASSUME NEW n \in Nat PROVE Has(q, n) <=> n = Head(q) \/ Has(Tail(q), n)
  OBVIOUS
<1>1. /\ Len(q) \in Nat /\ Len(q) # 0 /\ DOMAIN q = 1..Len(q) /\ Head(q) = q[1]
      /\ Len(Tail(q)) = Len(q) - 1 /\ DOMAIN Tail(q) = 1..(Len(q) - 1)
      /\ \A i \in 1..(Len(q) - 1) : Tail(q)[i] = q[i + 1]
  BY EmptySeq, LenProperties, HeadTailProperties
<1>2. ASSUME Has(q, n), n # Head(q) PROVE Has(Tail(q), n)
  <2>1. PICK k \in DOMAIN q : q[k] = n
    BY <1>2 DEF Has
  <2>2. k - 1 \in 1..(Len(q) - 1) /\ (k - 1) + 1 = k
    BY <1>1, <1>2, <2>1
  <2>3. Tail(q)[k - 1] = n
    BY <1>1, <2>1, <2>2
  <2> QED BY <1>1, <2>2, <2>3 DEF Has
<1>3. ASSUME Has(Tail(q), n) PROVE Has(q, n)
  <2>1. PICK k \in 1..(Len(q) - 1) : Tail(q)[k] = n
    BY <1>1, <1>3 DEF Has
  <2>2. k + 1 \in 1..Len(q) /\ q[k + 1] = n
    BY <1>1, <2>1
  <2> QED BY <1>1, <2>2 DEF Has
<1>4. Has(q, Head(q))
  <2>1. 1 \in 1..Len(q)
    BY <1>1
  <2> QED BY <1>1, <2>1 DEF Has
<1> QED BY <1>2, <1>3, <1>4

(* An element that is added is there, and no other.                        *)
LEMMA HasEnd ==
  ASSUME NEW q \in Seq(Nat), NEW x \in Nat
  PROVE  \A n \in Nat : Has(Append(q, x), n) <=> Has(q, n) \/ n = x
<1> SUFFICES ASSUME NEW n \in Nat PROVE Has(Append(q, x), n) <=> Has(q, n) \/ n = x
  OBVIOUS
<1>1. /\ Len(q) \in Nat /\ DOMAIN q = 1..Len(q) /\ DOMAIN Append(q, x) = 1..(Len(q) + 1)
      /\ \A i \in 1..Len(q) : Append(q, x)[i] = q[i]
      /\ Append(q, x)[Len(q) + 1] = x
  BY LenProperties, AppendProperties
<1>2. \A i \in 1..(Len(q) + 1) : i \in 1..Len(q) \/ i = Len(q) + 1
  BY <1>1
<1>3. 1..Len(q) \subseteq 1..(Len(q) + 1) /\ Len(q) + 1 \in 1..(Len(q) + 1)
  BY <1>1
<1> QED BY <1>1, <1>2, <1>3 DEF Has

(* A sequence over a set is one over a larger set.                         *)
LEMMA SeqMono == ASSUME NEW S, NEW T, S \subseteq T PROVE Seq(S) \subseteq Seq(T)
  OBVIOUS

(* What is left of an increasing sequence is increasing, after its head.   *)
LEMMA Leaving ==
  ASSUME NEW q \in Seq(Nat), q # <<>>, Increasing(q)
  PROVE  /\ Increasing(Tail(q))
         /\ \A k \in DOMAIN Tail(q) : Tail(q)[k] # Notice => Head(q) < Tail(q)[k]
         /\ \A n \in Nat : UpTo(q, n) => UpTo(Tail(q), n) /\ Head(q) <= n
         /\ \A n \in Nat : Under(q, n) => Under(Tail(q), n) /\ Head(q) < n
         /\ \A w \in Seq(Nat) : Before(q, w) => Before(Tail(q), w)
         /\ \A w \in Seq(Nat) : Before(w, q) => Before(w, Tail(q))
  BY Heads DEF Increasing, UpTo, Under, Before

(* An element greater than those of an increasing sequence may follow it.  *)
LEMMA Joining ==
  ASSUME NEW q \in Seq(Nat), Increasing(q), NEW x \in Nat, Under(q, x)
  PROVE  /\ Increasing(Append(q, x))
         /\ \A n \in Nat : UpTo(q, n) /\ x <= n => UpTo(Append(q, x), n)
         /\ \A n \in Nat : Under(q, n) /\ x < n => Under(Append(q, x), n)
         /\ \A w \in Seq(Nat) : Before(q, w) /\ (\A k \in DOMAIN w : w[k] # Notice => x < w[k])
                                => Before(Append(q, x), w)
         /\ \A w \in Seq(Nat) : Before(w, q) /\ Under(w, x) => Before(w, Append(q, x))
<1>1. \A k \in DOMAIN Append(q, x) :
        \/ k \in DOMAIN q /\ Append(q, x)[k] = q[k]
        \/ k \notin DOMAIN q /\ Append(q, x)[k] = x /\ \A j \in DOMAIN q : j < k
  BY Ends
<1>2. DOMAIN q \subseteq Nat /\ DOMAIN Append(q, x) \subseteq Nat
      /\ \A j, k \in DOMAIN Append(q, x) : j \notin DOMAIN q /\ k \notin DOMAIN q => j = k
  BY AppendProperties, LenProperties
<1>3. Increasing(Append(q, x))
  BY <1>1, <1>2 DEF Increasing, Under
<1> QED BY <1>1, <1>3 DEF UpTo, Under, Before
-----------------------------------------------------------------------------
(* What happens to one socket keeps its commands in line.                  *)

Good(r) == r \in SockStates /\ InLine(r) /\ Whole(r)

(* The sequences of a socket are sequences of numbers.                     *)
LEMMA Numbers ==
  /\ MaxSockets \in Nat \ {0} /\ MaxCommands \in Nat \ {0}
  /\ Commands \subseteq Nat /\ 0 \notin Commands /\ 0..MaxCommands \subseteq Nat
  /\ \A r \in SockStates : r.down \in Seq(Nat) /\ r.up \in Seq(Nat) /\ r.screen \in Seq(Nat)
                            /\ r.asked \in Nat /\ r.busy \in Nat
                            /\ r.silent \subseteq Nat /\ 0 \notin r.silent
<1>1. Commands \subseteq Nat /\ 0 \notin Commands /\ 0..MaxCommands \subseteq Nat
  BY TerminalAssumption DEF Commands
<1>3. Seq(Commands) \subseteq Seq(Nat) /\ Seq(0..MaxCommands) \subseteq Seq(Nat)
  BY <1>1, SeqMono
<1>4. ASSUME NEW r \in SockStates
      PROVE  /\ r.down \in Seq(0..MaxCommands) /\ r.up \in Seq(Commands)
             /\ r.screen \in Seq(Commands)
             /\ r.asked \in 0..MaxCommands /\ r.busy \in 0..MaxCommands
             /\ r.silent \subseteq Commands
  BY DEF SockStates
<1> QED BY <1>1, <1>3, <1>4, TerminalAssumption

(* One field at a time.                                                    *)
LEMMA FieldTypes ==
  ASSUME NEW r \in SockStates
  PROVE  /\ \A x \in {"none", "connecting", "open", "closing", "closed"} :
              [r EXCEPT !.ready = x] \in SockStates
         /\ \A x \in 0..MaxCommands : [r EXCEPT !.asked = x] \in SockStates
         /\ \A x \in Seq(Commands) : [r EXCEPT !.up = x] \in SockStates
         /\ \A x \in 0..MaxCommands : [r EXCEPT !.busy = x] \in SockStates
         /\ \A x \in BOOLEAN : [r EXCEPT !.over = x] \in SockStates
         /\ \A x \in Seq(0..MaxCommands) : [r EXCEPT !.down = x] \in SockStates
         /\ \A x \in Seq(Commands) : [r EXCEPT !.screen = x] \in SockStates
         /\ \A x \in SUBSET Commands : [r EXCEPT !.silent = x] \in SockStates
  BY DEF SockStates

(* A socket that has just been opened, or is on its way out. *)
LEMMA NewSock ==
  /\ Good(NoSock) /\ NoSock.ready = "none"
  /\ Good([NoSock EXCEPT !.ready = "connecting"])
  /\ Good([NoSock EXCEPT !.ready = "closing", !.over = TRUE])
<1>1. /\ NoSock \in SockStates /\ NoSock.ready = "none"
      /\ [NoSock EXCEPT !.ready = "connecting"] \in SockStates
      /\ [NoSock EXCEPT !.ready = "closing", !.over = TRUE] \in SockStates
  <2>1. NoSock \in SockStates /\ NoSock.ready = "none"
    BY Numbers DEF NoSock, SockStates
  <2>2. [NoSock EXCEPT !.ready = "connecting"] \in SockStates
        /\ [NoSock EXCEPT !.ready = "closing"] \in SockStates
    BY <2>1, FieldTypes
  <2> QED BY <2>1, <2>2, FieldTypes
<1>2. /\ InLine(NoSock) /\ InLine([NoSock EXCEPT !.ready = "connecting"])
      /\ InLine([NoSock EXCEPT !.ready = "closing", !.over = TRUE])
  BY DEF NoSock, InLine, Increasing, UpTo, Before, Under
<1>3. /\ Whole(NoSock) /\ Whole([NoSock EXCEPT !.ready = "connecting"])
      /\ Whole([NoSock EXCEPT !.ready = "closing", !.over = TRUE])
  BY DEF NoSock, Whole, Has
<1> QED BY <1>1, <1>2, <1>3 DEF Good

(* onopen: the notice is no output.                                        *)
LEMMA Opening ==
  ASSUME NEW r, Good(r), r.ready = "connecting", NEW b \in BOOLEAN
  PROVE  Good([r EXCEPT !.ready = "open", !.down = <<Notice>>, !.over = b])
<1> DEFINE q == [r EXCEPT !.ready = "open", !.down = <<Notice>>, !.over = b]
<1>1. q \in SockStates
  <2>1. <<Notice>> \in Seq(0..MaxCommands)
    BY Numbers DEF Notice
  <2>2. [r EXCEPT !.ready = "open", !.down = <<Notice>>] \in SockStates
    BY <2>1, FieldTypes DEF Good
  <2> QED BY <2>2, FieldTypes
<1>2. q.asked = r.asked /\ q.busy = r.busy /\ q.screen = r.screen /\ q.up = r.up
      /\ q.down = <<Notice>> /\ q.silent = r.silent /\ q.ready = "open"
  BY DEF Good, SockStates
<1>3. Increasing(<<Notice>>) /\ UpTo(<<Notice>>, r.asked) /\ Before(r.screen, <<Notice>>)
  BY Numbers DEF Increasing, UpTo, Before, Notice, Good
<1>4. Before(<<Notice>>, r.up)
  BY Numbers, LenProperties DEF Before, Notice, Good, SockStates, Commands
<1>5. r.busy # 0 => Under(<<Notice>>, r.busy)
  BY Numbers DEF Under, Notice, Good
<1> HIDE DEF q
<1>6. InLine(q)
  BY <1>2, <1>3, <1>4, <1>5 DEF InLine, Good
<1>7. Whole(q)
  <2>1. r.asked = 0 /\ r.silent = {}
    BY Numbers DEF Good, Whole, SockStates, Commands
  <2> QED BY <1>2, <2>1 DEF Whole
<1> QED BY <1>1, <1>6, <1>7 DEF Good, q

(* onmessage: the first output in transit follows those on the screen.     *)
LEMMA Showing ==
  ASSUME NEW r, Good(r), r.down # <<>>, NEW scr,
         scr = IF Head(r.down) = Notice THEN r.screen ELSE Append(r.screen, Head(r.down))
  PROVE  Good([r EXCEPT !.down = Tail(r.down), !.screen = scr])
<1> DEFINE q == [r EXCEPT !.down = Tail(r.down), !.screen = scr]
           m == Head(r.down)
<1>0. r \in SockStates /\ r.down \in Seq(Nat) /\ r.up \in Seq(Nat) /\ r.screen \in Seq(Nat)
      /\ r.asked \in Nat /\ r.busy \in Nat /\ InLine(r) /\ Whole(r)
  BY Numbers DEF Good
<1>1. m \in 0..MaxCommands /\ Tail(r.down) \in Seq(0..MaxCommands) /\ m \in Nat
      /\ Tail(r.down) \in Seq(Nat) /\ m = r.down[1] /\ 1 \in DOMAIN r.down
  BY <1>0, Heads, Numbers DEF SockStates
<1>2. m # Notice => m \in Commands
  BY <1>1, Numbers DEF Notice, Commands
<1>3. scr \in Seq(Commands)
  <2>1. r.screen \in Seq(Commands)
    BY <1>0 DEF SockStates
  <2> QED BY <1>2, <2>1, AppendProperties
<1>4. q \in SockStates
  BY <1>0, <1>1, <1>3 DEF SockStates
<1>5. q.asked = r.asked /\ q.busy = r.busy /\ q.screen = scr /\ q.up = r.up
      /\ q.down = Tail(r.down) /\ q.silent = r.silent /\ q.ready = r.ready
  BY <1>0 DEF SockStates
<1>6. /\ Increasing(r.down) /\ UpTo(r.down, r.asked) /\ Before(r.screen, r.down)
      /\ Before(r.down, r.up) /\ Increasing(r.screen) /\ UpTo(r.screen, r.asked)
      /\ Before(r.screen, r.up) /\ Increasing(r.up) /\ UpTo(r.up, r.asked) /\ r.busy <= r.asked
      /\ (r.busy # 0 => Under(r.screen, r.busy) /\ Under(r.down, r.busy))
      /\ \A k \in DOMAIN r.up : r.busy < r.up[k]
  BY <1>0 DEF InLine
<1>7. /\ Increasing(Tail(r.down)) /\ UpTo(Tail(r.down), r.asked)
      /\ Before(r.screen, Tail(r.down)) /\ Before(Tail(r.down), r.up) /\ m <= r.asked
      /\ (r.busy # 0 => Under(Tail(r.down), r.busy) /\ m < r.busy)
      /\ \A k \in DOMAIN Tail(r.down) : Tail(r.down)[k] # Notice => m < Tail(r.down)[k]
  BY <1>0, <1>6, Leaving
<1>8. \A k \in DOMAIN r.up : r.up[k] # Notice => m < r.up[k]
  BY <1>1, <1>6 DEF Before
<1>11. Whole(q)
  <2>1. \A n \in Nat : Has(r.down, n) <=> n = m \/ Has(Tail(r.down), n)
    BY <1>0, HasHead
  <2>2. m # Notice => \A n \in Nat : Has(scr, n) <=> Has(r.screen, n) \/ n = m
    BY <1>0, <1>1, HasEnd
  <2>3. m = Notice => scr = r.screen
    OBVIOUS
  <2>4. \A n \in 1..r.asked : n # Notice /\ n \in Nat
    BY <1>0 DEF Notice
  <2>5. \A n \in r.silent : n # Notice /\ n \in Nat
    BY <1>0, Numbers DEF Notice, SockStates
  <2> HIDE DEF q, m
  <2>6. CASE m = Notice
    BY <1>0, <1>5, <2>1, <2>3, <2>4, <2>5, <2>6 DEF Whole
  <2>7. CASE m # Notice
    <3>1. q.ready # "closed" =>
            \A n \in 1..q.asked :
              Has(q.screen, n) \/ Has(q.down, n) \/ Has(q.up, n) \/ n = q.busy \/ n \in q.silent
      BY <1>0, <1>5, <2>1, <2>2, <2>4, <2>7 DEF Whole
    <3>2. \A n \in q.silent :
            n <= q.asked /\ n # q.busy /\ ~Has(q.screen, n) /\ ~Has(q.down, n) /\ ~Has(q.up, n)
      BY <1>0, <1>5, <2>1, <2>2, <2>5, <2>7 DEF Whole
    <3> QED BY <1>0, <1>5, <3>1, <3>2 DEF Whole
  <2> QED BY <2>6, <2>7
<1>9. CASE m = Notice
  <2>1. scr = r.screen
    BY <1>9
  <2> HIDE DEF q, m
  <2>2. InLine(q)
    BY <1>5, <1>6, <1>7, <2>1 DEF InLine
  <2> QED BY <1>4, <1>11, <2>2 DEF Good, q
<1>10. CASE m # Notice
  <2>1. scr = Append(r.screen, m)
    BY <1>10
  <2>2. Under(r.screen, m)
    BY <1>1, <1>6, <1>10 DEF Before, Under
  <2> HIDE DEF q, m
  <2>3. /\ Increasing(scr) /\ UpTo(scr, r.asked) /\ Before(scr, Tail(r.down))
        /\ Before(scr, r.up) /\ (r.busy # 0 => Under(scr, r.busy))
    BY <1>0, <1>1, <1>6, <1>7, <1>8, <2>1, <2>2, Joining
  <2>4. InLine(q)
    BY <1>5, <1>6, <1>7, <2>3 DEF InLine
  <2> QED BY <1>4, <1>11, <2>4 DEF Good, q
<1> QED BY <1>9, <1>10

(* onclose: what is on its way is gone.                                    *)
LEMMA Closing ==
  ASSUME NEW r, Good(r)
  PROVE  Good([r EXCEPT !.ready = "closed", !.up = <<>>, !.down = <<>>, !.busy = 0])
<1> DEFINE q == [r EXCEPT !.ready = "closed", !.up = <<>>, !.down = <<>>, !.busy = 0]
<1>1. q \in SockStates
  <2>1. [r EXCEPT !.ready = "closed", !.up = <<>>] \in SockStates
    BY FieldTypes, EmptySeq DEF Good
  <2>2. [r EXCEPT !.ready = "closed", !.up = <<>>, !.down = <<>>] \in SockStates
    BY <2>1, FieldTypes, EmptySeq
  <2>3. 0 \in 0..MaxCommands
    BY Numbers
  <2> QED BY <2>2, <2>3, FieldTypes
<1>2. q.asked = r.asked /\ q.busy = 0 /\ q.screen = r.screen /\ q.up = <<>> /\ q.down = <<>>
      /\ r.asked \in Nat /\ q.silent = r.silent /\ q.ready = "closed" /\ 0 \notin r.silent
  BY Numbers DEF Good, SockStates
<1> HIDE DEF q
<1>3. InLine(q)
  BY <1>2 DEF Good, InLine, Increasing, UpTo, Before, Under
<1>4. Whole(q)
  BY <1>2 DEF Good, Whole, Has
<1> QED BY <1>1, <1>3, <1>4 DEF Good, q

(* Enter: the command is behind all others.                                *)
LEMMA Asking ==
  ASSUME NEW r, Good(r), r.ready # "connecting", r.asked < MaxCommands
  PROVE  Good([r EXCEPT !.asked = r.asked + 1, !.up = Append(r.up, r.asked + 1)])
<1> DEFINE n == r.asked + 1
           q == [r EXCEPT !.asked = n, !.up = Append(r.up, n)]
<1>0. r \in SockStates /\ r.down \in Seq(Nat) /\ r.up \in Seq(Nat) /\ r.screen \in Seq(Nat)
      /\ r.asked \in Nat /\ r.busy \in Nat /\ InLine(r) /\ Whole(r)
  BY Numbers DEF Good
<1>1. n \in Commands /\ n \in Nat
  BY <1>0, Numbers DEF Commands
<1>2. Append(r.up, n) \in Seq(Commands)
  <2>1. r.up \in Seq(Commands)
    BY <1>0 DEF SockStates
  <2> QED BY <1>1, <2>1, AppendProperties
<1>3. q \in SockStates
  <2>1. n \in 0..MaxCommands
    BY <1>1 DEF Commands
  <2> HIDE DEF n
  <2>2. [r EXCEPT !.asked = n] \in SockStates
    BY <1>0, <2>1, FieldTypes
  <2> QED BY <1>2, <2>2, FieldTypes DEF n
<1>4. q.asked = n /\ q.busy = r.busy /\ q.screen = r.screen /\ q.up = Append(r.up, n)
      /\ q.down = r.down /\ q.silent = r.silent /\ q.ready = r.ready
  BY <1>0 DEF SockStates
<1>5. /\ Increasing(r.down) /\ UpTo(r.down, r.asked) /\ Before(r.screen, r.down)
      /\ Before(r.down, r.up) /\ Increasing(r.screen) /\ UpTo(r.screen, r.asked)
      /\ Before(r.screen, r.up) /\ Increasing(r.up) /\ UpTo(r.up, r.asked) /\ r.busy <= r.asked
      /\ (r.busy # 0 => Under(r.screen, r.busy) /\ Under(r.down, r.busy))
      /\ \A k \in DOMAIN r.up : r.busy < r.up[k]
  BY <1>0 DEF InLine
<1>6. \A w \in Seq(Nat) : UpTo(w, r.asked) => UpTo(w, n) /\ Under(w, n)
  <2>1. \A w \in Seq(Nat) : \A k \in DOMAIN w : w[k] \in Nat
    OBVIOUS
  <2> QED BY <1>0, <2>1 DEF UpTo, Under
<1>11. Whole(q)
  <2>1. \A k \in Nat : Has(Append(r.up, n), k) <=> Has(r.up, k) \/ k = n
    <3> HIDE DEF n
    <3> QED BY <1>0, <1>1, HasEnd
  <2>2. \A k \in 1..n : k \in Nat /\ (k \in 1..r.asked \/ k = n)
    BY <1>0
  <2>3. \A k \in r.silent : k \in Nat /\ k <= r.asked /\ k <= n /\ k # n
    BY <1>0, Numbers DEF SockStates, Whole
  <2> HIDE DEF n, q
  <2> QED BY <1>0, <1>4, <2>1, <2>2, <2>3 DEF Whole
<1> HIDE DEF n, q
<1>7. /\ Increasing(Append(r.up, n)) /\ UpTo(Append(r.up, n), n)
      /\ Before(r.screen, Append(r.up, n)) /\ Before(r.down, Append(r.up, n))
  BY <1>0, <1>1, <1>5, <1>6, Joining
<1>8. \A k \in DOMAIN Append(r.up, n) : r.busy < Append(r.up, n)[k]
  <2>1. r.busy < n
    BY <1>0, <1>5 DEF n
  <2> QED BY <1>0, <1>1, <1>5, <2>1, Ends
<1>9. r.busy <= n
  BY <1>0, <1>5 DEF n
<1>10. InLine(q)
  BY <1>0, <1>4, <1>5, <1>6, <1>7, <1>8, <1>9 DEF InLine
<1> QED BY <1>3, <1>10, <1>11 DEF Good, q, n

(* ReadMessage: the first command in transit is the one that runs.         *)
LEMMA Reading ==
  ASSUME NEW r, Good(r), r.busy = 0, r.up # <<>>
  PROVE  Good([r EXCEPT !.busy = Head(r.up), !.up = Tail(r.up)])
<1> DEFINE m == Head(r.up)
           q == [r EXCEPT !.busy = m, !.up = Tail(r.up)]
<1>0. r \in SockStates /\ r.down \in Seq(Nat) /\ r.up \in Seq(Nat) /\ r.screen \in Seq(Nat)
      /\ r.asked \in Nat /\ InLine(r) /\ Whole(r)
  BY Numbers DEF Good
<1>1. m \in Commands /\ Tail(r.up) \in Seq(Commands) /\ m = r.up[1] /\ 1 \in DOMAIN r.up
      /\ m \in Nat /\ m # Notice /\ Tail(r.up) \in Seq(Nat)
  BY <1>0, Heads, Numbers DEF SockStates, Notice
<1>2. q \in SockStates
  <2>1. m \in 0..MaxCommands
    BY <1>1 DEF Commands
  <2> HIDE DEF m
  <2>2. [r EXCEPT !.busy = m] \in SockStates
    BY <1>0, <2>1, FieldTypes
  <2> QED BY <1>1, <2>2, FieldTypes DEF m
<1>3. q.asked = r.asked /\ q.busy = m /\ q.screen = r.screen /\ q.up = Tail(r.up)
      /\ q.down = r.down /\ q.silent = r.silent /\ q.ready = r.ready
  BY <1>0 DEF SockStates
<1>4. /\ Increasing(r.down) /\ UpTo(r.down, r.asked) /\ Before(r.screen, r.down)
      /\ Before(r.down, r.up) /\ Increasing(r.screen) /\ UpTo(r.screen, r.asked)
      /\ Before(r.screen, r.up) /\ Increasing(r.up) /\ UpTo(r.up, r.asked)
  BY <1>0 DEF InLine
<1>5. /\ Increasing(Tail(r.up)) /\ UpTo(Tail(r.up), r.asked) /\ m <= r.asked
      /\ Before(r.screen, Tail(r.up)) /\ Before(r.down, Tail(r.up))
      /\ \A k \in DOMAIN Tail(r.up) : Tail(r.up)[k] # Notice => m < Tail(r.up)[k]
  BY <1>0, <1>4, Leaving
<1>6. Under(r.screen, m) /\ Under(r.down, m)
  BY <1>1, <1>4 DEF Before, Under
<1>7. \A k \in DOMAIN Tail(r.up) : Tail(r.up)[k] # Notice
  BY <1>0, <1>1, Numbers, LenProperties DEF Notice
<1>8. \A n \in Nat : Has(r.up, n) <=> n = m \/ Has(Tail(r.up), n)
  BY <1>0, HasHead
<1>9. (\A n \in 1..r.asked : n \in Nat /\ n # 0) /\ r.silent \subseteq Nat /\ 0 \notin r.silent
  BY <1>0, Numbers
<1> HIDE DEF m, q
<1>10. InLine(q)
  BY <1>3, <1>4, <1>5, <1>6, <1>7 DEF InLine
<1>11. Whole(q)
  BY <1>0, <1>3, <1>8, <1>9 DEF Whole
<1> QED BY <1>2, <1>10, <1>11 DEF Good, q, m

(* Finish: the output follows those that are in transit.                   *)
LEMMA Finishing ==
  ASSUME NEW r, Good(r), r.busy # 0
  PROVE  /\ Good([r EXCEPT !.busy = 0, !.down = Append(r.down, r.busy)])
         /\ Good([r EXCEPT !.busy = 0, !.silent = r.silent \union {r.busy}])
<1> DEFINE q == [r EXCEPT !.busy = 0, !.down = Append(r.down, r.busy)]
           w == [r EXCEPT !.busy = 0, !.silent = r.silent \union {r.busy}]
<1>0. r \in SockStates /\ r.down \in Seq(Nat) /\ r.up \in Seq(Nat) /\ r.screen \in Seq(Nat)
      /\ r.asked \in Nat /\ r.busy \in Nat /\ InLine(r) /\ r.busy \in Commands
      /\ r.busy \in 0..MaxCommands /\ Whole(r)
  BY Numbers DEF Good, SockStates, Commands
<1>1. Append(r.down, r.busy) \in Seq(0..MaxCommands)
  <2>1. r.down \in Seq(0..MaxCommands)
    BY <1>0 DEF SockStates
  <2> QED BY <1>0, <2>1, AppendProperties
<1>2. q \in SockStates /\ w \in SockStates
  <2>1. r.silent \union {r.busy} \in SUBSET Commands /\ 0 \in 0..MaxCommands
    BY <1>0, Numbers DEF SockStates
  <2>2. [r EXCEPT !.busy = 0] \in SockStates
    BY <1>0, <2>1, FieldTypes
  <2> QED BY <1>1, <2>1, <2>2, FieldTypes
<1>3. /\ q.asked = r.asked /\ q.busy = 0 /\ q.screen = r.screen /\ q.up = r.up
      /\ q.down = Append(r.down, r.busy)
      /\ w.asked = r.asked /\ w.busy = 0 /\ w.screen = r.screen /\ w.up = r.up
      /\ w.down = r.down
      /\ q.silent = r.silent /\ q.ready = r.ready
      /\ w.silent = r.silent \union {r.busy} /\ w.ready = r.ready
  BY <1>0 DEF SockStates
<1>4. /\ Increasing(r.down) /\ UpTo(r.down, r.asked) /\ Before(r.screen, r.down)
      /\ Before(r.down, r.up) /\ Increasing(r.screen) /\ UpTo(r.screen, r.asked)
      /\ Before(r.screen, r.up) /\ Increasing(r.up) /\ UpTo(r.up, r.asked) /\ r.busy <= r.asked
      /\ Under(r.screen, r.busy) /\ Under(r.down, r.busy)
      /\ \A k \in DOMAIN r.up : r.busy < r.up[k]
  BY <1>0 DEF InLine
<1>5. /\ Increasing(Append(r.down, r.busy)) /\ UpTo(Append(r.down, r.busy), r.asked)
      /\ Before(r.screen, Append(r.down, r.busy)) /\ Before(Append(r.down, r.busy), r.up)
  BY <1>0, <1>4, Joining
<1>6. \A k \in DOMAIN r.up : 0 < r.up[k]
  BY <1>0, Numbers, LenProperties DEF SockStates, Commands
<1> HIDE DEF q, w
<1>7. InLine(q) /\ InLine(w)
  BY <1>0, <1>3, <1>4, <1>5, <1>6 DEF InLine
<1>8. 0 \notin r.silent /\ r.silent \subseteq Nat /\ \A n \in 1..r.asked : n \in Nat /\ n # 0
  BY <1>0, Numbers
<1>9. Whole(q)
  <2>1. \A n \in Nat : Has(Append(r.down, r.busy), n) <=> Has(r.down, n) \/ n = r.busy
    BY <1>0, HasEnd
  <2> QED BY <1>0, <1>3, <1>8, <2>1 DEF Whole
<1>10. Whole(w)
  <2>1. ~Has(r.screen, r.busy) /\ ~Has(r.down, r.busy) /\ ~Has(r.up, r.busy)
    <3>1. (\A k \in DOMAIN r.screen : r.screen[k] \in Nat) /\ (\A k \in DOMAIN r.down : r.down[k] \in Nat)
          /\ (\A k \in DOMAIN r.up : r.up[k] \in Nat)
      BY <1>0
    <3> QED BY <1>0, <1>4, <3>1 DEF Has, Under
  <2> QED BY <1>0, <1>3, <1>4, <1>8, <2>1 DEF Whole
<1> QED BY <1>2, <1>7, <1>9, <1>10 DEF Good, q, w
-----------------------------------------------------------------------------
(* Steps.                                                                  *)

(* They are the type invariant. *)
LEMMA Types == Flag /\ SockTypes <=> TerminalTypeOK
  BY DEF TerminalTypeOK, Flag, SockTypes, SockStates

(* Each socket's commands are in line. *)
LEMMA GoodSocks == TerminalInv => \A s \in Sockets : Good(socks[s])
  BY DEF TerminalInv, SockTypes, Good

(* Initially the page is not mounted.                                      *)
LEMMA TerminalInitInv == TerminalInit => TerminalInv
<1> SUFFICES ASSUME TerminalInit PROVE TerminalInv
  OBVIOUS
<1> USE DEF TerminalInit
<1>1. socks \in [Sockets -> SockStates] /\ \A s \in Sockets : socks[s] = NoSock /\ InLine(NoSock) /\ Whole(NoSock)
  BY NewSock DEF Good
<1>2. SockTypes
  BY <1>1, Numbers DEF SockTypes
<1>4. Flag
  BY DEF Flag
<1>3. Beyond /\ FlagIsHonest
  BY <1>1, NewSock, Numbers DEF Beyond, FlagIsHonest, NoSock
<1> QED BY <1>1, <1>2, <1>3, <1>4 DEF TerminalInv

(* A page that is mounted, or unmounted, has nothing of an earlier one.    *)
LEMMA MountStep ==
  ASSUME TerminalInv, (\E c \in Targets : MountTerminal(c)) \/ UnmountTerminal
  PROVE  TerminalInv'
<1>1. CASE UnmountTerminal
  <2>1. /\ target' = NoTarget /\ cur' = 0 /\ isConnected' = FALSE
        /\ socks' = [s \in Sockets |-> NoSock]
    BY <1>1 DEF UnmountTerminal
  <2>2. socks' \in [Sockets -> SockStates] /\ \A s \in Sockets : socks'[s] = NoSock /\ InLine(NoSock) /\ Whole(NoSock)
    BY <2>1, NewSock DEF Good
  <2>3. SockTypes'
    BY <2>1, <2>2, Numbers DEF SockTypes
  <2>7. Flag'
    BY <2>1 DEF Flag
  <2>4. Beyond' /\ FlagIsHonest'
    BY <2>1, <2>2, NewSock, Numbers DEF Beyond, FlagIsHonest, NoSock
  <2> QED BY <2>2, <2>3, <2>4, <2>7 DEF TerminalInv
<1>2. ASSUME NEW c \in Targets, MountTerminal(c) PROVE TerminalInv'
  <2> DEFINE n == [NoSock EXCEPT !.ready = "connecting"]
  <2>0. Good(n) /\ Good(NoSock) /\ n.ready = "connecting" /\ NoSock.ready = "none"
        /\ NoSock.busy = 0 /\ NoSock.up = <<>>
    BY NewSock DEF NoSock
  <2>1. /\ target' = c /\ cur' = 1 /\ isConnected' = FALSE
        /\ socks' = [s \in Sockets |-> IF s = 1 THEN n ELSE NoSock]
    BY <1>2 DEF MountTerminal
  <2> HIDE DEF n
  <2>2. socks' \in [Sockets -> SockStates]
        /\ \A s \in Sockets : InLine(socks'[s]) /\ Whole(socks'[s]) /\ (s # 1 => socks'[s] = NoSock)
                             /\ (s = 1 => socks'[s].ready = "connecting")
    BY <2>0, <2>1 DEF Good
  <2>3. SockTypes'
    BY <2>1, <2>2, Numbers DEF SockTypes
  <2>7. Flag'
    BY <2>1 DEF Flag
  <2>4. 1 \in Sockets /\ Sockets \subseteq Nat /\ 0 \notin Sockets
    BY Numbers DEF Sockets
  <2>5. Beyond'
    BY <2>0, <2>1, <2>2, <2>4 DEF Beyond
  <2>6. FlagIsHonest'
    BY <2>1, <2>2, <2>4 DEF FlagIsHonest
  <2> QED BY <2>2, <2>3, <2>5, <2>6, <2>7 DEF TerminalInv
<1> QED BY <1>1, <1>2

(* The next socket is connecting, and the last one on its way out, if it   *)
(* was not closed already.                                                 *)
LEMMA VisitStep == ASSUME TerminalInv, NEW c \in Targets, Visit(c) PROVE TerminalInv'
<1> DEFINE n   == [NoSock EXCEPT !.ready = "connecting"]
           out == IF socks[cur].ready = "closed" THEN socks[cur]
                  ELSE [NoSock EXCEPT !.ready = "closing", !.over = TRUE]
<1>0. /\ Good(n) /\ n.ready = "connecting"
      /\ socks[cur].ready # "closed" => Good(out) /\ out.ready = "closing"
  BY NewSock DEF NoSock
<1>1. /\ target' = c /\ isConnected' = isConnected /\ cur < MaxSockets /\ cur' = cur + 1
      /\ socks' = [socks EXCEPT ![cur] = out, ![cur + 1] = n]
  BY DEF Visit
<1>2. /\ cur \in Nat /\ MaxSockets \in Nat \ {0} /\ cur + 1 \in Sockets /\ cur + 1 \in 0..MaxSockets
      /\ (cur # 0 => cur \in Sockets) /\ Sockets \subseteq Nat /\ 0 \notin Sockets
      /\ socks \in [Sockets -> SockStates]
  BY <1>1, Numbers DEF TerminalInv, SockTypes, Sockets
<1>3. cur \in Sockets => Good(out)
  BY <1>0, GoodSocks
<1> HIDE DEF n, out
<1>4. /\ socks' \in [Sockets -> SockStates]
      /\ \A s \in Sockets : Good(socks'[s])
      /\ socks'[cur + 1] = n
      /\ cur \in Sockets => socks'[cur] = out
      /\ \A s \in Sockets : s # cur /\ s # cur + 1 => socks'[s] = socks[s]
  BY <1>0, <1>1, <1>2, <1>3, GoodSocks DEF Good
<1>5. SockTypes' /\ Flag'
  BY <1>1, <1>2, <1>4 DEF SockTypes, Flag, TerminalInv
<1>6. Beyond'
  <2>1. cur' # 0 /\ \A s \in Sockets : s > cur' => s # cur /\ s # cur + 1 /\ s > cur
    BY <1>1, <1>2
  <2>2. \A s \in Sockets : s > cur => socks[s].ready = "none"
    BY DEF TerminalInv, Beyond
  <2>3. \A s \in Sockets : s > cur' => socks'[s].ready = "none"
    BY <1>4, <2>1, <2>2
  <2>4. ASSUME NEW s \in Sockets, socks'[s].ready = "none"
        PROVE  socks'[s].busy = 0 /\ socks'[s].up = <<>>
    <3>1. s # cur + 1
      BY <1>0, <1>4, <2>4
    <3>2. CASE s = cur
      <4>1. socks[cur].ready = "closed" => out = socks[cur]
        BY DEF out
      <4> QED BY <1>0, <1>4, <2>4, <3>2, <4>1
    <3>3. CASE s # cur
      BY <1>4, <2>4, <3>1, <3>3 DEF TerminalInv, Beyond
    <3> QED BY <3>2, <3>3
  <2> QED BY <2>1, <2>3, <2>4 DEF Beyond
<1>7. FlagIsHonest'
  <2>1. cur' # 1
    <3>1. cur # 0
      BY DEF TerminalInv, Beyond, Visit
    <3> QED BY <1>1, <1>2, <3>1
  <2>2. ASSUME isConnected PROVE \E s \in Sockets : socks'[s].ready \in {"open", "closing"}
    <3>1. PICK s \in Sockets : socks[s].ready \in {"open", "closing"}
      BY <2>2 DEF TerminalInv, FlagIsHonest
    <3>2. s # cur + 1
      BY <1>2, <3>1 DEF TerminalInv, Beyond
    <3>3. CASE s = cur
      BY <1>0, <1>4, <3>1, <3>3
    <3> QED BY <1>4, <3>1, <3>2, <3>3
  <2> QED BY <1>1, <2>1, <2>2 DEF FlagIsHonest
<1> QED BY <1>4, <1>5, <1>6, <1>7 DEF TerminalInv, Good
(* What a socket of the page does by itself.                               *)
LEMMA SockStep ==
  ASSUME TerminalInv, NEW s \in Sockets, NEW r, Good(r), socks' = [socks EXCEPT ![s] = r],
         UNCHANGED <<target, cur>>,
         socks[s].ready # "none",
         \/ isConnected' = isConnected /\ r.ready = socks[s].ready
         \/ isConnected' = TRUE /\ r.ready = "open"
         \/ isConnected' = FALSE /\ r.ready = "closed"
  PROVE  TerminalInv'
<1>1. socks \in [Sockets -> SockStates] /\ s <= cur
      /\ cur \in Nat /\ Sockets \subseteq Nat /\ 1 \in Sockets /\ 0 \notin Sockets
  BY Numbers DEF TerminalInv, SockTypes, Beyond, Sockets
<1>2. socks' \in [Sockets -> SockStates] /\ socks'[s] = r
      /\ \A d \in Sockets : d # s => socks'[d] = socks[d]
  BY <1>1 DEF Good
<1>3. SockTypes' /\ Flag'
  BY <1>2 DEF TerminalInv, SockTypes, Flag
<1>4. Beyond' /\ FlagIsHonest'
  <2>1. Beyond'
    BY <1>1, <1>2 DEF TerminalInv, Beyond
  <2>2. (cur = 1 => s = 1) /\ cur' = cur
    BY <1>1
  <2>3. isConnected' => \E d \in Sockets : socks'[d].ready \in {"open", "closing"}
    <3>1. CASE isConnected' = isConnected /\ r.ready = socks[s].ready
      <4>1. \A d \in Sockets : socks'[d].ready = socks[d].ready
        BY <1>2, <3>1
      <4>2. isConnected => \E d \in Sockets : socks[d].ready \in {"open", "closing"}
        BY DEF TerminalInv, FlagIsHonest
      <4> QED BY <3>1, <4>1, <4>2
    <3>2. CASE isConnected' = TRUE /\ r.ready = "open"
      BY <1>2, <3>2
    <3>3. CASE isConnected' = FALSE /\ r.ready = "closed"
      BY <3>3
    <3> QED BY <3>1, <3>2, <3>3
  <2>4. cur = 1 => (isConnected' <=> socks'[1].ready = "open")
    <3> SUFFICES ASSUME cur = 1 PROVE isConnected' <=> socks'[1].ready = "open"
      OBVIOUS
    <3>0. s = 1 /\ socks'[1] = r
      BY <1>2, <2>2
    <3>1. CASE isConnected' = isConnected /\ r.ready = socks[s].ready
      <4>1. isConnected <=> socks[1].ready = "open"
        BY DEF TerminalInv, FlagIsHonest
      <4>2. socks'[1].ready = socks[1].ready
        BY <3>0, <3>1
      <4> QED BY <3>1, <4>1, <4>2
    <3>2. CASE isConnected' = TRUE /\ r.ready = "open"
      BY <3>0, <3>2
    <3>3. CASE isConnected' = FALSE /\ r.ready = "closed"
      BY <3>0, <3>3
    <3> QED BY <3>1, <3>2, <3>3
  <2>5. FlagIsHonest'
    BY <2>2, <2>3, <2>4 DEF FlagIsHonest
  <2> QED BY <2>1, <2>5
<1>5. \A d \in Sockets : InLine(socks'[d]) /\ Whole(socks'[d])
  BY <1>2 DEF TerminalInv, Good
<1> QED BY <1>3, <1>4, <1>5 DEF TerminalInv

(* Every step of a socket is such a step.                                  *)
LEMMA SocketStep ==
  ASSUME TerminalInv, NEW s \in Sockets, onopen(s) \/ onclose(s) \/ SockServed(s)
  PROVE  TerminalInv'
<1> DEFINE r == socks[s]
<1>0. Good(r) /\ r \in SockStates /\ InLine(r) /\ socks \in [Sockets -> SockStates]
  BY GoodSocks DEF TerminalInv, SockTypes, Good
<1>n. r.ready = "none" => r.busy = 0 /\ r.up = <<>>
  BY DEF TerminalInv, Beyond
<1>1. CASE onopen(s)
  <2>1. PICK b \in BOOLEAN :
          socks' = [socks EXCEPT ![s] = [r EXCEPT !.ready = "open", !.down = <<Notice>>, !.over = b]]
    BY <1>1 DEF onopen
  <2>2. isConnected' = TRUE /\ UNCHANGED <<target, cur>> /\ r.ready = "connecting"
    BY <1>1 DEF onopen
  <2> HIDE DEF r
  <2>3. [r EXCEPT !.ready = "open", !.down = <<Notice>>, !.over = b].ready = "open"
    BY <1>0 DEF SockStates
  <2>4. Good([r EXCEPT !.ready = "open", !.down = <<Notice>>, !.over = b])
    BY <1>0, <2>2, Opening
  <2> QED BY <2>1, <2>2, <2>3, <2>4, SockStep DEF r
<1>2. CASE onclose(s)
  <2> DEFINE q == [r EXCEPT !.ready = "closed", !.up = <<>>, !.down = <<>>, !.busy = 0]
  <2>1. socks' = [socks EXCEPT ![s] = q] /\ isConnected' = FALSE /\ UNCHANGED <<target, cur>>
        /\ r.ready # "none"
    BY <1>2 DEF onclose
  <2>2. Good(q) /\ q.ready = "closed"
    BY <1>0, Closing DEF SockStates
  <2> HIDE DEF q
  <2> QED BY <2>1, <2>2, SockStep
<1>3. CASE onmessage(s)
  <2> DEFINE scr == IF Head(r.down) = Notice THEN r.screen ELSE Append(r.screen, Head(r.down))
             q   == [r EXCEPT !.down = Tail(r.down), !.screen = scr]
  <2>1. socks' = [socks EXCEPT ![s] = q] /\ UNCHANGED <<target, cur, isConnected>>
        /\ r.ready = "open" /\ r.down # <<>>
    BY <1>3 DEF onmessage
  <2>2. Good(q) /\ q.ready = r.ready
    BY <1>0, <2>1, Showing DEF SockStates
  <2> HIDE DEF q
  <2> QED BY <1>0, <2>1, <2>2, SockStep
<1>4. CASE ReadMessage(s)
  <2> DEFINE q == [r EXCEPT !.busy = Head(r.up), !.up = Tail(r.up)]
  <2>1. socks' = [socks EXCEPT ![s] = q] /\ UNCHANGED <<target, cur, isConnected>>
        /\ r.up # <<>> /\ r.busy = 0
    BY <1>4 DEF ReadMessage
  <2>2. Good(q) /\ q.ready = r.ready
    BY <1>0, <2>1, Reading DEF SockStates
  <2> HIDE DEF q
  <2> QED BY <1>0, <1>n, <2>1, <2>2, SockStep
<1>5. CASE Finish(s)
  <2> DEFINE q == [r EXCEPT !.busy = 0, !.down = Append(r.down, r.busy)]
             w == [r EXCEPT !.busy = 0, !.silent = r.silent \union {r.busy}]
  <2>1. (socks' = [socks EXCEPT ![s] = q] \/ socks' = [socks EXCEPT ![s] = w])
        /\ UNCHANGED <<target, cur, isConnected>> /\ r.busy # 0
    BY <1>5 DEF Finish
  <2>2. Good(q) /\ Good(w) /\ q.ready = r.ready /\ w.ready = r.ready
    BY <1>0, <2>1, Finishing DEF SockStates
  <2> HIDE DEF q, w
  <2> QED BY <1>0, <1>n, <2>1, <2>2, SockStep
<1> QED BY <1>1, <1>2, <1>3, <1>4, <1>5 DEF SockServed

(* Every other step keeps the invariant too.                               *)
LEMMA TerminalNextInv == TerminalInv /\ [TerminalNext]_terminalVars => TerminalInv'
<1> SUFFICES ASSUME TerminalInv, [TerminalNext]_terminalVars PROVE TerminalInv'
  OBVIOUS
<1>1. CASE (\E c \in Targets : MountTerminal(c)) \/ UnmountTerminal
  BY <1>1, MountStep
<1>2. ASSUME NEW c \in Targets, Visit(c) PROVE TerminalInv'
  BY <1>2, VisitStep
<1>3. CASE Enter
  <2> DEFINE r == socks[cur]
             q == [r EXCEPT !.asked = r.asked + 1, !.up = Append(r.up, r.asked + 1)]
  <2>1. cur \in Sockets
    BY <1>3, Numbers DEF Enter, TerminalInv, SockTypes, Sockets
  <2>2. Good(r) /\ r \in SockStates
    BY <2>1, GoodSocks DEF TerminalInv, Good
  <2>3. socks' = [socks EXCEPT ![cur] = q] /\ UNCHANGED <<target, cur, isConnected>>
        /\ r.ready = "open" /\ r.asked < MaxCommands
    BY <1>3 DEF Enter
  <2>4. Good(q) /\ q.ready = r.ready
    BY <2>2, <2>3, Asking DEF SockStates
  <2> HIDE DEF q
  <2> QED BY <2>1, <2>2, <2>3, <2>4, SockStep
<1>4. ASSUME NEW s \in Sockets, onopen(s) \/ onclose(s) \/ SockServed(s) PROVE TerminalInv'
  BY <1>4, SocketStep
<1>5. CASE RecordsChange \/ UNCHANGED terminalVars
  BY <1>5 DEF RecordsChange, pageVars, terminalVars, TerminalInv, Flag, SockTypes, Beyond, FlagIsHonest
<1> QED BY <1>1, <1>2, <1>3, <1>4, <1>5 DEF TerminalNext, TerminalStep

(* The invariant holds in every behaviour.                                 *)
LEMMA TerminalInvariant == TerminalSpec => []TerminalInv
  BY TerminalInitInv, TerminalNextInv, PTL DEF TerminalSpec

-----------------------------------------------------------------------------
(* The theorems.                                                           *)

(* The variables keep to their types. *)
THEOREM TerminalTypeCorrect == TerminalSpec => []TerminalTypeOK
<1>1. TerminalInv => TerminalTypeOK
  BY Types DEF TerminalInv
<1> QED BY <1>1, TerminalInvariant, PTL

(* "Connected" is never shown when every socket of the page is closed; and *)
(* on the first container it is shown exactly when the socket is open.     *)
THEOREM FlagHolds == TerminalSpec => []FlagIsHonest
  BY TerminalInvariant, PTL DEF TerminalInv

(* A terminal shows one answer per command of its own session, in the      *)
(* order in which they were typed, and while the socket is open no command *)
(* is lost or answered twice.                                              *)
THEOREM OrderHolds == TerminalSpec => []AnswersInOrder
<1>1. TerminalInv => AnswersInOrder
  <2> SUFFICES ASSUME TerminalInv, NEW s \in Sockets
               PROVE  LET r == socks[s] IN
                        /\ \A j, k \in DOMAIN r.screen : j < k => r.screen[j] < r.screen[k]
                        /\ Nums(r.screen) \subseteq 1..r.asked
                        /\ Nums(r.screen) \intersect r.silent = {}
                        /\ r.ready = "open" =>
                             /\ Settled(r) \union Underway(r) = 1..r.asked
                             /\ Settled(r) \intersect Underway(r) = {}
    BY DEF AnswersInOrder
  <2> DEFINE r == socks[s]
  <2>1. /\ r \in SockStates /\ InLine(r) /\ Whole(r)
        /\ r.screen \in Seq(Commands) /\ r.down \in Seq(0..MaxCommands) /\ r.up \in Seq(Commands)
        /\ r.asked \in Nat /\ r.busy \in 0..MaxCommands /\ r.silent \subseteq Commands
    BY Numbers DEF TerminalInv, SockTypes, SockStates
  <2> HIDE DEF r
  <2>2. /\ \A k \in DOMAIN r.screen : r.screen[k] \in Commands /\ k \in Nat
        /\ \A k \in DOMAIN r.down : r.down[k] \in 0..MaxCommands
        /\ \A k \in DOMAIN r.up : r.up[k] \in Commands
    <3>1. /\ DOMAIN r.screen = 1..Len(r.screen) /\ DOMAIN r.down = 1..Len(r.down)
          /\ DOMAIN r.up = 1..Len(r.up)
      BY <2>1, LenProperties
    <3>2. \A k \in DOMAIN r.screen : r.screen[k] \in Commands /\ k \in Nat
      BY <2>1, <3>1, ElementOfSeq
    <3>3. \A k \in DOMAIN r.down : r.down[k] \in 0..MaxCommands
      BY <2>1, <3>1, ElementOfSeq
    <3>4. \A k \in DOMAIN r.up : r.up[k] \in Commands
      BY <2>1, <3>1, ElementOfSeq
    <3> QED BY <3>2, <3>3, <3>4
  <2>3. Commands = 1..MaxCommands /\ MaxCommands \in Nat /\ Notice = 0
    BY Numbers DEF Commands, Notice
  <2>4. \A q, n : n \in Nums(q) <=> Has(q, n)
    BY DEF Nums, Has
  <2>5. /\ \A n : Has(r.screen, n) => n \in 1..r.asked
        /\ \A n : Has(r.down, n) => n \in 0..r.asked
        /\ \A n : Has(r.up, n) => n \in 1..r.asked
        /\ r.busy \in 0..r.asked
        /\ \A n \in r.silent : n \in 1..r.asked
    BY <2>1, <2>2, <2>3 DEF Has, InLine, UpTo, Whole
  <2>6. ASSUME NEW n, Has(r.screen, n)
        PROVE  n # r.busy /\ ~Has(r.up, n) /\ (n # 0 => ~Has(r.down, n))
    BY <2>1, <2>2, <2>3, <2>6 DEF Has, InLine, Before, Under
  <2>7. \A j, k \in DOMAIN r.screen : j < k => r.screen[j] < r.screen[k]
    BY <2>1, <2>2, <2>3 DEF InLine, Increasing
  <2>8. Nums(r.screen) \subseteq 1..r.asked /\ Nums(r.screen) \intersect r.silent = {}
    BY <2>1, <2>4, <2>5 DEF Whole
  <2>9. ASSUME r.ready = "open"
        PROVE  /\ Settled(r) \union Underway(r) = 1..r.asked
               /\ Settled(r) \intersect Underway(r) = {}
    <3>1. Settled(r) \union Underway(r) \subseteq 1..r.asked
      BY <2>1, <2>4, <2>5 DEF Settled, Underway
    <3>2. 1..r.asked \subseteq Settled(r) \union Underway(r)
      BY <2>1, <2>4, <2>9 DEF Settled, Underway, Whole
    <3>3. Settled(r) \intersect Underway(r) = {}
      BY <2>1, <2>4, <2>6 DEF Settled, Underway, Whole
    <3> QED BY <3>1, <3>2, <3>3
  <2> QED BY <2>7, <2>8, <2>9 DEF r
<1> QED BY <1>1, TerminalInvariant, PTL
=============================================================================
