---------------------------- MODULE Participation ----------------------------
(***************************************************************************)
(* What the modules of tasks and events share: the users who may take part *)
(* and the slots of the server that work on requests.                      *)
(***************************************************************************)
EXTENDS People

CONSTANTS
  Handlers,  \* requests in flight: bounds the interleavings
  Ops        \* the operations of this instance

ASSUME OpsAssumption ==
  Ops \subseteq {"add", "remove", "update", "delete", "work", "review", "confirm"}
==============================================================================
