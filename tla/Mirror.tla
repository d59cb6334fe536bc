------------------------------- MODULE Mirror -------------------------------
(***************************************************************************)
(* What a page that polls promises of one thing it shows: an image, taken  *)
(* while the page was open, of a source that changes on its own.  Nothing  *)
(* says that a newer image follows an older one: requests overlap, and     *)
(* their answers come in any order.                                        *)
(***************************************************************************)
EXTENDS Naturals

VARIABLES
  source,   \* the current version of the source
  floor,    \* its version when the page was opened
  image     \* the version shown, 0 when there is none

vars == <<source, floor, image>>

Init ==
  /\ source \in Nat \ {0}
  /\ floor = source
  /\ image = 0

Advance ==
  /\ source' = source + 1
  /\ UNCHANGED <<floor, image>>

Open ==
  /\ floor' = source
  /\ image' = 0
  /\ UNCHANGED source

Show ==
  /\ image' \in floor..source
  /\ UNCHANGED <<source, floor>>

Blank ==
  /\ image' = 0
  /\ UNCHANGED <<source, floor>>

Next == Advance \/ Open \/ Show \/ Blank

Spec == Init /\ [][Next]_vars
=============================================================================
