------------------------------- MODULE Rights --------------------------------
(***************************************************************************)
(* Roles and what they permit (rbac.service.ts), with the guard that asks  *)
(* for a permission before a managing request is carried out: the guard    *)
(* reads the rights of the caller, the operation runs later, and other     *)
(* requests change rights in between.                                      *)
(*                                                                         *)
(* Operations are single steps for the reasons given in Staffing.  A role  *)
(* that is deleted stays deleted, and keeps its name.                      *)
(***************************************************************************)
EXTENDS Staffing

CONSTANTS
  RoleNames,  \* names of roles
  Codes,      \* permissions other than the managing ones
  Admin,      \* the first administrator
  Managers    \* handlers of managing requests

(* What the decorators of the controllers ask for.                         *)
ManagingCodes == {"rbac.roles.manage", "rbac.user_roles.manage", "org.manage"}

Permissions == Codes \union ManagingCodes

ASSUME RightsAssumption ==
  Admin \in Users /\ Same \notin RoleNames /\ Same \notin ManagingCodes

VARIABLES
  role,       \* role[r]: the Role row, or NoRole
  roleCode,   \* rows of RolePermission
  userRole,   \* rows of UserRole
  admitted    \* admitted[h]: the permission by which the managing request
              \* of handler h has passed the guard, or Same

rightVars == <<role, roleCode, userRole, admitted>>
rightsVars == <<treeVars, staffVars, rightVars>>

NoRole == [name |-> Same, live |-> FALSE]

RoleRows == [name : RoleNames, live : BOOLEAN]

HasRole(r) == role[r] # NoRole

LiveRoles == {r \in Roles : role[r].live}

------------------------------------------------------------------------------
(* getUserPermissionCodes *)

(* The live roles a user has directly or with a live position, in a unit   *)
(* that may be deleted.                                                    *)
RolesOf(u) ==
  {r \in LiveRoles :
     \/ <<u, r>> \in userRole
     \/ \E n \in Units, p \in LivePosts : <<u, n, p>> \in member /\ <<p, r>> \in postRole}

PermissionCodes(u) == {c \in Permissions : \E r \in RolesOf(u) : <<r, c>> \in roleCode}

------------------------------------------------------------------------------
(* GlobalPermissionGuard *)

(* Mutant: the guard lets everyone pass.                                   *)
AdmitAll(h) ==
  /\ admitted[h] = Same
  /\ \E c \in ManagingCodes : admitted' = [admitted EXCEPT ![h] = c]
  /\ UNCHANGED <<role, roleCode, userRole, treeVars, staffVars>>

Admit(h) ==
  /\ admitted[h] = Same
  /\ \E u \in Users, c \in ManagingCodes :
       admitted' = IF c \notin PermissionCodes(u) THEN admitted
                   ELSE [admitted EXCEPT ![h] = c]
  /\ UNCHANGED <<role, roleCode, userRole, treeVars, staffVars>>

Return(h) == admitted' = [admitted EXCEPT ![h] = Same]

------------------------------------------------------------------------------
(* Roles and their permissions *)

Named(name) == {r \in Roles : role[r].name = name}

(* The name of a deleted role is taken.                                    *)
CreateRole(name) ==
  /\ Named(name) = {}
  /\ \E r \in Roles : ~HasRole(r) /\ role' = [role EXCEPT ![r] = [name |-> name, live |-> TRUE]]
  /\ UNCHANGED <<roleCode, userRole>>

(* The check skips deleted roles, the unique key does not; a deleted role  *)
(* is updated like any other.                                              *)
UpdateRole(r, name) ==
  /\ HasRole(r) /\ Named(name) \subseteq {r}
  /\ role' = [role EXCEPT ![r].name = name]
  /\ UNCHANGED <<roleCode, userRole>>

DeleteRole(r) ==
  /\ HasRole(r)
  /\ role' = [role EXCEPT ![r].live = FALSE]
  /\ UNCHANGED <<roleCode, userRole>>

AddPermissionsToRole(r, C) ==
  /\ HasRole(r)
  /\ roleCode' = roleCode \union ({r} \X C)
  /\ UNCHANGED <<role, userRole>>

RemovePermissionFromRole(r, c) ==
  /\ HasRole(r)
  /\ roleCode' = roleCode \ {<<r, c>>}
  /\ UNCHANGED <<role, userRole>>

RoleStep ==
  \/ \E name \in RoleNames : CreateRole(name)
  \/ \E r \in Roles : DeleteRole(r) \/ \E name \in RoleNames : UpdateRole(r, name)
  \/ \E r \in Roles, C \in (SUBSET Permissions) \ {{}} : AddPermissionsToRole(r, C)
  \/ \E r \in Roles, c \in Permissions : RemovePermissionFromRole(r, c)

(* Of the roles that are asked for, those that are live are given.         *)
AssignRolesToUser(u, S) ==
  /\ S \intersect LiveRoles # {}
  /\ userRole' = userRole \union ({u} \X (S \intersect LiveRoles))
  /\ UNCHANGED <<role, roleCode>>

RemoveRoleFromUser(u, r) ==
  /\ HasRole(r)
  /\ userRole' = userRole \ {<<u, r>>}
  /\ UNCHANGED <<role, roleCode>>

UserRoleStep ==
  \/ \E u \in Users, S \in SUBSET Roles : AssignRolesToUser(u, S)
  \/ \E u \in Users, r \in Roles : RemoveRoleFromUser(u, r)

PostRoleStep ==
  \/ \E p \in Posts, S \in (SUBSET LiveRoles) \ {{}} : AssignRolesToPosition(p, S)
  \/ \E p \in Posts, r \in Roles : RemoveRoleFromPosition(p, r)

(* Each controller asks for the permission of its own operations.          *)
Manage(h) ==
  /\ \/ /\ admitted[h] = "rbac.roles.manage" /\ RoleStep
        /\ UNCHANGED staffVars
     \/ /\ admitted[h] = "rbac.user_roles.manage" /\ UserRoleStep
        /\ UNCHANGED staffVars
     \/ /\ admitted[h] = "org.manage" /\ (MemberStep \/ PostStep \/ PostRoleStep)
        /\ UNCHANGED <<role, roleCode, userRole>>
  /\ Return(h)
  /\ UNCHANGED treeVars

(* A request that is refused after the guard.                              *)
Refuse(h) ==
  /\ admitted[h] # Same
  /\ Return(h)
  /\ UNCHANGED <<role, roleCode, userRole, treeVars, staffVars>>

------------------------------------------------------------------------------
(* The seed: one role with every permission, and an administrator with it. *)
RightsInit ==
  /\ \E r \in Roles, name \in RoleNames :
       /\ role = [x \in Roles |-> IF x = r THEN [name |-> name, live |-> TRUE] ELSE NoRole]
       /\ roleCode = {r} \X Permissions
       /\ userRole = {<<Admin, r>>}
  /\ admitted = [h \in Managers |-> Same]

RightsNext == \E h \in Managers : Admit(h) \/ Manage(h) \/ Refuse(h)

(* Over any tree of units, which these requests leave alone.               *)
RightsSpec == StaffInit /\ RightsInit /\ [][RightsNext]_rightsVars

------------------------------------------------------------------------------
(* Properties *)

(* Types of the rows and of the requests past the guard.                   *)
RightsTypeOK ==
  /\ role \in [Roles -> RoleRows \union {NoRole}]
  /\ roleCode \subseteq Roles \X Permissions
  /\ userRole \subseteq Users \X Roles
  /\ admitted \in [Managers -> ManagingCodes \union {Same}]

(* Once nobody may manage anything and no request is past the guard,       *)
(* nobody gains a permission any more: rights come from rights only, and   *)
(* what was deleted comes back only through a request that was admitted.   *)
LockedOut ==
  /\ \A u \in Users : PermissionCodes(u) \intersect ManagingCodes = {}
  /\ \A h \in Managers : admitted[h] = Same

NothingFromNothing ==
  [][LockedOut => /\ LockedOut'
                  /\ \A u \in Users : PermissionCodes(u)' = PermissionCodes(u)]_rightsVars
==============================================================================
