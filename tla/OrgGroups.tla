----------------------------- MODULE OrgGroups -------------------------------
(***************************************************************************)
(* Whom a group of units and tags stands for: resolveByOrgIds, which       *)
(* invitations to rooms, tasks and events use, and resolveUserIds, which   *)
(* answers the preview of such a group (org-units.service.ts).  Each walks *)
(* the tree level by level, one query per level, while units move.         *)
(***************************************************************************)
EXTENDS Staffing

VARIABLE
  groupReq  \* groupReq[h]: the resolution handler h works on

groupVars == <<treeVars, staffVars, groupReq>>

(* units, deep, tags: what is asked; todo: units whose subtrees are yet to *)
(* be walked; level: the last level of the walk; found: units to take the  *)
(* members of; users: the answer so far; stale: rows changed since.        *)
NoGroupReq == [op |-> "none", at |-> "idle", units |-> {}, deep |-> FALSE, tags |-> {},
               todo |-> {}, level |-> {}, found |-> {}, users |-> {}, stale |-> FALSE]

GroupReqs ==
  [op : {"none", "invite", "preview"},
   at : {"idle", "expand", "walk", "members", "tags", "tagMembers", "answer"},
   units : SUBSET Units, deep : BOOLEAN, tags : SUBSET Tags, todo : SUBSET Units,
   level : SUBSET Units, found : SUBSET Units, users : SUBSET Users, stale : BOOLEAN]

MembersOf(S) == {m[1] : m \in {k \in member : k[2] \in S}}

UnchangedOrg == UNCHANGED <<treeVars, staffVars>>

(* resolveUserIds takes one unit, resolveByOrgIds several; either may also *)
(* name users, who are simply added and left out here.                     *)
AskGroup(h) ==
  /\ groupReq[h] = NoGroupReq
  /\ \E op \in {"invite", "preview"}, U \in SUBSET Units, T \in SUBSET Tags, deep \in BOOLEAN :
       /\ U \union T # {} /\ (op = "preview" => Cardinality(U) <= 1)
       /\ groupReq' = [groupReq EXCEPT ![h] =
                        [NoGroupReq EXCEPT
                           !.op = op, !.units = U, !.deep = deep, !.tags = T,
                           !.at = IF U = {} THEN "tags" ELSE IF deep THEN "expand" ELSE "members",
                           !.todo = IF deep THEN U ELSE {}, !.found = IF deep THEN {} ELSE U]]
  /\ UnchangedOrg

(* getSubtreeIds starts from the unit it is given, live or not.            *)
ExpandUnit(h) ==
  LET q == groupReq[h] IN
  /\ q.at = "expand"
  /\ IF q.todo = {}
     THEN groupReq' = [groupReq EXCEPT ![h].at = "members"]
     ELSE \E n \in q.todo :
            groupReq' = [groupReq EXCEPT ![h].at = "walk", ![h].todo = q.todo \ {n},
                                         ![h].level = {n}, ![h].found = q.found \union {n}]
  /\ UnchangedOrg

(* Mutant: the next level is taken from all units found so far.            *)
WalkFound(h) ==
  LET q == groupReq[h] IN
  /\ q.at = "walk"
  /\ groupReq' = [groupReq EXCEPT ![h].level = Children(q.level) \union q.level,
                                  ![h].found = q.found \union Children(q.level)]
  /\ UnchangedOrg

(* The loop of getSubtreeIds: it ends with a level that has no units, and  *)
(* does not remember which units it has met.                               *)
WalkLevel(h) ==
  LET q == groupReq[h] IN
  /\ q.at = "walk"
  /\ groupReq' = IF q.level = {} THEN [groupReq EXCEPT ![h].at = "expand"]
                 ELSE [groupReq EXCEPT ![h].level = Children(q.level),
                                       ![h].found = q.found \union Children(q.level)]
  /\ UnchangedOrg

(* Mutant: members of deleted units count.                                 *)
TakeAllMembers(h) ==
  LET q == groupReq[h] IN
  /\ q.at = "members"
  /\ groupReq' = [groupReq EXCEPT ![h].at = "tags", ![h].users = MembersOf(q.found)]
  /\ UnchangedOrg

TakeMembers(h) ==
  LET q == groupReq[h] IN
  /\ q.at = "members"
  /\ groupReq' = [groupReq EXCEPT ![h].at = "tags",
                                  ![h].users = MembersOf(q.found \intersect LiveUnits)]
  /\ UnchangedOrg

(* An invitation names tags by id and takes deleted ones, too; a preview   *)
(* names them by name and does not.                                        *)
TagsMeant(q) == IF q.op = "invite" THEN q.tags ELSE q.tags \intersect LiveTags

FindTagged(h) ==
  LET q == groupReq[h] IN
  /\ q.at = "tags"
  /\ groupReq' = [groupReq EXCEPT ![h].at = "tagMembers",
                    ![h].found = {n \in LiveUnits : \E t \in TagsMeant(q) : <<n, t>> \in tagged}]
  /\ UnchangedOrg

TakeTagMembers(h) ==
  LET q == groupReq[h] IN
  /\ q.at = "tagMembers"
  /\ groupReq' = [groupReq EXCEPT ![h].at = "answer",
                                  ![h].users = q.users \union MembersOf(q.found)]
  /\ UnchangedOrg

AnswerGroup(h) ==
  /\ groupReq[h].at = "answer"
  /\ groupReq' = [groupReq EXCEPT ![h] = NoGroupReq]
  /\ UnchangedOrg

ResolveStep(h) ==
  \/ ExpandUnit(h) \/ WalkLevel(h) \/ TakeMembers(h)
  \/ FindTagged(h) \/ TakeTagMembers(h) \/ AnswerGroup(h)

(* Whatever changes the rows makes the resolutions in flight stale.        *)
OrgStep ==
  /\ \/ (\E h \in OrgReqs : UnitStep(h)) /\ UNCHANGED staffVars
     \/ TagStep /\ UNCHANGED staffVars
     \/ (MemberStep \/ PostStep) /\ UNCHANGED treeVars
  /\ groupReq' = IF UNCHANGED <<unit, tagVars, member>> THEN groupReq
                 ELSE [h \in OrgReqs |-> [groupReq[h] EXCEPT !.stale = (groupReq[h].op # "none")]]

GroupInit == groupReq = [h \in OrgReqs |-> NoGroupReq]

GroupNext == OrgStep \/ \E h \in OrgReqs : AskGroup(h) \/ ResolveStep(h)

OrgSpec == TreeInit /\ StaffInit /\ GroupInit /\ [][GroupNext]_groupVars

(* A handler goes on with its next statement.                              *)
GroupFairness == \A h \in OrgReqs : WF_groupVars(ResolveStep(h))

------------------------------------------------------------------------------
(* Properties *)

(* Types of the resolutions.                                               *)
GroupTypeOK == groupReq \in [OrgReqs -> GroupReqs]

(* Whom the group stands for: the members of the live units that are named *)
(* or, when subunits are asked for, lie under one that is through live     *)
(* units, and of the live units that carry one of the tags.                *)
IsUnder(n, top) ==
  \E path \in [1..Cardinality(Units) -> Units] :
    \E k \in 1..Cardinality(Units) :
      /\ path[1] = n /\ path[k] = top
      /\ \A i \in 1..(k - 1) : path[i] \in LiveUnits /\ unit[path[i]].parent = path[i + 1]

Meant(q) ==
  {u \in Users : \E n \in LiveUnits, p \in Posts :
     /\ <<u, n, p>> \in member
     /\ \/ n \in q.units
        \/ q.deep /\ \E top \in q.units : IsUnder(n, top)
        \/ \E t \in TagsMeant(q) : <<n, t>> \in tagged}

(* A group is resolved to the users it stands for, unless units, tags or   *)
(* memberships changed while it was: the queries, one per level, see one   *)
(* tree only when nothing is written in between.                           *)
ResolvedExact ==
  \A h \in OrgReqs :
    (groupReq[h].at = "answer" /\ ~groupReq[h].stale) => groupReq[h].users = Meant(groupReq[h])

(* The structure of the organisation: its tree and what is read from it.   *)
OrgSound == TreeSound /\ ResolvedExact

(* Once the tree is left alone every resolution is answered, unless a unit *)
(* was put below itself: the walk would go around for ever.                *)
WalkEnds ==
  <>[][FALSE]_unit =>
    \A h \in OrgReqs : groupReq[h] # NoGroupReq ~> (groupReq[h] = NoGroupReq \/ looped)
==============================================================================
