---------------------------- MODULE MasterRecords ----------------------------
(***************************************************************************)
(* What both pages of a tab work on: the master's record of each container *)
(* (module ContainerRecords), as far as the dashboard shows and changes it.*)
(***************************************************************************)
EXTENDS Naturals, FiniteSets

CONSTANTS
  Hosts,
  Ids,          \* container ids
  Specs,        \* rootfs, command and limits, see module DialogData
  Nil

VARIABLE records   \* the master's containers: host and spec, or Nil

Records == [host : Hosts, spec : Specs]

(* The containers the master has a record of. *)
known == {i \in Ids : records[i] # Nil}
=============================================================================
