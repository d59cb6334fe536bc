----------------------------- MODULE ExecService -----------------------------
(***************************************************************************)
(* What running commands in containers promises: a call that is made gets  *)
(* one result, once -- the output of a command that had been handed over   *)
(* by then, in the same container, or no answer.  Whose command it was is  *)
(* not promised.                                                           *)
(***************************************************************************)
CONSTANTS
  Calls,        \* everything that may be called
  ContainerOf,  \* the container of a call
  None, NoAnswer

VARIABLES
  called,       \* the calls made
  result        \* per call: None, then NoAnswer or the call whose output it got

vars == <<called, result>>

Init ==
  /\ called = {}
  /\ result = [m \in Calls |-> None]

Call(m) ==
  /\ m \notin called
  /\ called' = called \union {m}
  /\ UNCHANGED result

Candidates(m) == {q \in called : ContainerOf[q] = ContainerOf[m]}

Return(m) ==
  /\ m \in called
  /\ result[m] = None
  /\ \E r \in Candidates(m) \union {NoAnswer} : result' = [result EXCEPT ![m] = r]
  /\ UNCHANGED called

Next == \E m \in Calls : Call(m) \/ Return(m)

Spec == Init /\ [][Next]_vars
=============================================================================
