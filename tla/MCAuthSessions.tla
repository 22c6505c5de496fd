--------------------------- MODULE MCAuthSessions ----------------------------
(***************************************************************************)
(* Instances of AuthSessions for TLC.  The sets are model values of the    *)
(* configurations; each configuration chooses the operations that meet.    *)
(***************************************************************************)
EXTENDS AuthSessions, TLC

RotationOps == {"login", "refresh", "logout"}
SessionOps == RotationOps \union {"block", "unblock"}
AccountLifeOps == {"login", "refresh", "deactivate", "activate", "softDelete", "approveRegistration"}
PasswordOps == {"login", "refresh", "changePassword", "resetPassword"}
PasswordResetOps == ResetOps \union {"login", "changePassword"}

Symmetry == Permutations(Users) \union Permutations(Sids) \union
            Permutations(Rids) \union Permutations(Reqs)
==============================================================================
