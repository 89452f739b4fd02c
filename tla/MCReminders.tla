---------------------------- MODULE MCReminders ----------------------------
(***************************************************************************)
(* Small instances of Reminders.                                           *)
(***************************************************************************)
EXTENDS Reminders, TLC

Symmetry ==
  Permutations(Ids) \cup Permutations(Workers) \cup Permutations(Requests)
=============================================================================
