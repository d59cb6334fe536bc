---------------------------- MODULE TerminalData ----------------------------
(***************************************************************************)
(* The data of the terminal page: the sockets it opens one after another,  *)
(* and what is known and on its way at both ends of one.                   *)
(***************************************************************************)
EXTENDS MasterRecords, Sequences

CONSTANTS
  Global,       \* the terminal of no container
  MaxSockets,   \* a bound: containers visited while the page is mounted
  MaxCommands,  \* a bound: commands typed in a session
  NoTarget

(* What a URL may ask for: a container, or none. *)
Targets == Ids \union {Global}

ASSUME TerminalAssumption ==
  /\ Global \notin Ids
  /\ MaxSockets \in Nat \ {0}
  /\ MaxCommands \in Nat \ {0}
  /\ NoTarget \notin Targets

Sockets  == 1..MaxSockets
Commands == 1..MaxCommands
Notice   == 0   \* "Connected to ...", "Container not found", "Agent offline"

(* ready: readyState.  asked: commands sent.  up, down: commands and       *)
(* answers on their way.  busy: the command the session runs, or 0.  over: *)
(* the session has ended.  screen: the answers shown.  silent: commands    *)
(* that were answered with nothing (history).  An answer has the number of *)
(* the command whose turn in the session it ended, whatever its text.      *)
NoSock == [ready |-> "none", asked |-> 0, up |-> <<>>, busy |-> 0, over |-> FALSE,
           down |-> <<>>, screen |-> <<>>, silent |-> {}]
=============================================================================
