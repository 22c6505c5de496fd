------------------------------ MODULE Staffing -------------------------------
(***************************************************************************)
(* Who serves where (org-units.service.ts): positions, the memberships of  *)
(* users in units, and the roles that come with a position.                *)
(*                                                                         *)
(* Every operation is one step.  Its checks look at rows that are never    *)
(* removed, only marked as deleted, and whose deletion removes nothing     *)
(* else, so that a row written after a stale check could as well have been *)
(* written before the deletion; and the keys of the tables repeat the      *)
(* rest.  Operations that are refused change nothing and are left out.     *)
(***************************************************************************)
EXTENDS OrgTree

CONSTANTS
  Posts,  \* ids of positions
  Titles, \* names of positions
  Roles   \* ids of roles

ASSUME StaffingAssumption == Same \notin Titles

VARIABLES
  post,       \* post[p]: the Position row, or NoPost
  member,     \* rows of UserOrgUnitMembership: user, unit, position
  postRole    \* rows of PositionRole

staffVars == <<post, member, postRole>>

NoPost == [title |-> Same, live |-> FALSE]

PostRows == [title : Titles, live : BOOLEAN]

HasPost(p) == post[p] # NoPost

LivePosts == {p \in Posts : post[p].live}

Titled(title) == {p \in Posts : post[p].title = title}

(* A deleted position of that name comes back, with its members and roles. *)
CreatePosition(title) ==
  /\ \/ \E p \in Titled(title) \ LivePosts : post' = [post EXCEPT ![p].live = TRUE]
     \/ /\ Titled(title) = {}
        /\ \E p \in Posts : /\ ~HasPost(p)
                            /\ post' = [post EXCEPT ![p] = [title |-> title, live |-> TRUE]]
  /\ UNCHANGED <<member, postRole>>

(* The name of a deleted position is taken, too.                           *)
UpdatePosition(p, title) ==
  /\ p \in LivePosts /\ Titled(title) \subseteq {p}
  /\ post' = [post EXCEPT ![p].title = title]
  /\ UNCHANGED <<member, postRole>>

DeletePosition(p) ==
  /\ p \in LivePosts
  /\ post' = [post EXCEPT ![p].live = FALSE]
  /\ UNCHANGED <<member, postRole>>

(* roles: those of the request that are live.                              *)
AssignRolesToPosition(p, S) ==
  /\ p \in LivePosts
  /\ postRole' = postRole \union ({p} \X S)
  /\ UNCHANGED <<post, member>>

RemoveRoleFromPosition(p, r) ==
  /\ p \in LivePosts
  /\ postRole' = postRole \ {<<p, r>>}
  /\ UNCHANGED <<post, member>>

AddMember(u, n, p) ==
  /\ n \in LiveUnits /\ p \in LivePosts
  /\ <<u, n, p>> \notin member
  /\ member' = member \union {<<u, n, p>>}
  /\ UNCHANGED <<post, postRole>>

(* One transaction: it fails as a whole when the new membership exists.    *)
ChangeMemberPosition(u, n, from, to) ==
  /\ n \in LiveUnits /\ to \in LivePosts
  /\ <<u, n, from>> \in member
  /\ <<u, n, to>> \notin member \ {<<u, n, from>>}
  /\ member' = (member \ {<<u, n, from>>}) \union {<<u, n, to>>}
  /\ UNCHANGED <<post, postRole>>

RemoveMember(u, n, p) ==
  /\ n \in LiveUnits
  /\ <<u, n, p>> \in member
  /\ member' = member \ {<<u, n, p>>}
  /\ UNCHANGED <<post, postRole>>

MemberStep ==
  \/ \E u \in Users, n \in Units, p \in Posts : AddMember(u, n, p) \/ RemoveMember(u, n, p)
  \/ \E u \in Users, n \in Units, p, to \in Posts : ChangeMemberPosition(u, n, p, to)

PostStep ==
  \/ \E title \in Titles : CreatePosition(title)
  \/ \E p \in Posts : DeletePosition(p) \/ \E title \in Titles : UpdatePosition(p, title)

StaffInit == post = [p \in Posts |-> NoPost] /\ member = {} /\ postRole = {}

(* Types of the rows.                                                      *)
StaffTypeOK ==
  /\ post \in [Posts -> PostRows \union {NoPost}]
  /\ member \subseteq Users \X Units \X Posts
  /\ postRole \subseteq Posts \X Roles
==============================================================================
