------------------------------- MODULE People --------------------------------
(***************************************************************************)
(* The users of an instance, shared by the modules that are checked        *)
(* together.                                                               *)
(***************************************************************************)
CONSTANT Users  \* rows of User that are not deleted
==============================================================================
