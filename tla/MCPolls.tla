------------------------------ MODULE MCPolls -------------------------------
(***************************************************************************)
(* Instances of Polls for TLC.                                             *)
(***************************************************************************)
EXTENDS Polls, TLC

VoteOps == {"vote", "add"}

Symmetry == Permutations(Users) \union Permutations(Options) \union Permutations(Reqs)
==============================================================================
