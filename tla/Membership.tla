----------------------------- MODULE Membership ------------------------------
(***************************************************************************)
(* What the table UserRoomMembership promises, whatever requests run.  A   *)
(* room appears with one owner, its creator, who stays the owner and the   *)
(* only one; users join with an assignable role, are given another one, or *)
(* leave, and a step that lets users join touches nobody who is there.     *)
(* Rooms implements this specification; Conversation is built on it.       *)
(***************************************************************************)
EXTENDS RoomRoles

VARIABLE role  \* role[r][u]: the role of u in room r, "none" for no member

Empty == [u \in Users |-> "none"]

MembershipInit == role = [r \in Rooms |-> Empty]

(* Room r is made by c, who invites the users S.                           *)
Found(r, c, S, x) ==
  /\ role[r] = Empty
  /\ c \notin S
  /\ role' = [role EXCEPT ![r] =
                [u \in Users |-> IF u = c THEN "owner" ELSE IF u \in S THEN x ELSE "none"]]

Join(r, S, x) ==
  /\ role[r] # Empty
  /\ \A u \in S : role[r][u] = "none"
  /\ role' = [role EXCEPT ![r] = [u \in Users |-> IF u \in S THEN x ELSE role[r][u]]]

Leave(r, S) ==
  /\ \A u \in S : role[r][u] \in Assignable
  /\ role' = [role EXCEPT ![r] = [u \in Users |-> IF u \in S THEN "none" ELSE role[r][u]]]

Promote(r, u, x) ==
  /\ role[r][u] \in Assignable
  /\ role' = [role EXCEPT ![r] = [role[r] EXCEPT ![u] = x]]

MembershipNext ==
  \E r \in Rooms :
    \/ \E c \in Users, S \in SUBSET Users, x \in Assignable : Found(r, c, S, x)
    \/ \E S \in SUBSET Users, x \in Assignable : Join(r, S, x)
    \/ \E S \in SUBSET Users : Leave(r, S)
    \/ \E u \in Users, x \in Assignable : Promote(r, u, x)

MembershipSpec == MembershipInit /\ [][MembershipNext]_role
==============================================================================
