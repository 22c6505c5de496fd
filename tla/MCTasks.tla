------------------------------- MODULE MCTasks -------------------------------
(***************************************************************************)
(* Instances of Tasks alone for TLC.                                       *)
(***************************************************************************)
EXTENDS Tasks, TLC

Symmetry == Permutations(Users) \union Permutations(Handlers)
==============================================================================
