----------------------------- MODULE DialogData -----------------------------
(***************************************************************************)
(* The data of the deploy dialog: what its fields may hold.                *)
(*                                                                         *)
(* A spec is a function of its fields.  Empty is an empty text or a zero,  *)
(* which a client of the API may leave in a record; in the form it is also *)
(* a limit whose number was deleted, NaN, which reaches the master as no   *)
(* number, a zero.                                                         *)
(***************************************************************************)
EXTENDS MasterRecords

CONSTANTS
  NoHost,
  DefaultId,      \* the container id the form starts with
  BadId,          \* one that validate refuses
  Fields, Values, \* the fields of a spec, and what they may hold
  Empty,
  Default,        \* per field: what stands in for Empty in a record
  Initial,        \* the spec the form starts with: another rootfs than Default's
  Acceptable,     \* per field: what validate lets pass (any command and NaN do)
  Submissions,    \* a bound: requests of the dialog under way at once
  MaxTimers       \* a bound: timers of the dialog pending at once

(* What the form shows of a record's spec: editData.spec?.field || default.*)
Filled(sp) == [x \in Fields |-> IF sp[x] = Empty THEN Default[x] ELSE sp[x]]

ASSUME SpecAssumption ==
  /\ Specs \subseteq [Fields -> Values]
  /\ Default \in [Fields -> Values \ {Empty}]
  /\ Initial \in Specs
  /\ \A sp \in Specs : Filled(sp) \in Specs

ASSUME ModalAssumption ==
  /\ NoHost \notin Hosts
  /\ DefaultId \in Ids /\ BadId \notin Ids
  /\ MaxTimers \in Nat \ {0}
  /\ Nil \notin [host : Hosts, id : Ids, spec : Specs]
  /\ Nil \notin Records
  /\ Nil \notin Ids

Edits   == [host : Hosts, id : Ids, spec : Specs]
Forms   == [host : Hosts \union {NoHost}, id : Ids \union {BadId}, spec : Specs]
=============================================================================
