----------------------------- MODULE MCRecords -------------------------------
(***************************************************************************)
(* Instances, for TLC, of the modules whose handlers work on rows without  *)
(* transactions: Tasks, Events, OrgGroups, Rights and Registration.  A   *)
(* run explores one of them at a time: scenario says which, and what       *)
(* meets.                                                                  *)
(*                                                                         *)
(* names, shape: units made from nothing; two of them by all handlers, in  *)
(* no loop, or all of them by one, each with a name of its own.  groups:   *)
(* one group is resolved in every shape of tree, one user (whoever counts  *)
(* does so whatever others do) serving in one unit.  rights: at most one   *)
(* user besides Admin gets any; the seed's role keeps its permissions, and *)
(* the other has one at most.  registration: one desk at most is not       *)
(* processing applications.  Ids of rows are numbers, and a new row takes  *)
(* the next free one: which it takes is not observed.                      *)
(***************************************************************************)
EXTENDS Tasks, Events, OrgGroups, Rights, Registration, TLC

CONSTANTS
  Assignable,  \* users who may be assigned a task; all may be guests of an event
  Reviewed     \* users whose work on a task is also reviewed

(* Names enough for a tree whose units are told apart by them.             *)
ASSUME InstanceAssumption ==
  /\ \E f \in [Units -> Names] : \A m, n \in Units : f[m] = f[n] => m = n
  /\ Titles # {}

VARIABLE scenario

orgVars == <<treeVars, staffVars, groupReq>>
recordVars == <<taskVars, eventVars, orgVars, rightVars, regVars, scenario>>

TaskScenarios == {"assignment", "review"}
EventScenarios == {"times", "guests"}
OrgScenarios == {"names", "shape"}
Scenarios == TaskScenarios \union EventScenarios \union OrgScenarios \union
             {"groups", "rights", "registration"}

TaskOps == [assignment |-> {"add", "remove", "work", "delete"},
            review |-> {"add", "remove", "work", "review", "delete"}]

Participants == [assignment |-> Assignable, review |-> Reviewed]

EventOps == [times |-> {"update", "delete"}, guests |-> {"add", "remove", "confirm", "delete"}]

------------------------------------------------------------------------------
(* One unit, for the positions, and the seed's role. *)
OneUnitInit ==
  /\ \E name \in Names :
       unit = [n \in Units |-> IF n = 1 THEN [parent |-> Top, name |-> name, live |-> TRUE] ELSE NoUnit]
  /\ unitReq = [h \in OrgReqs |-> NoUnitReq] /\ looped = FALSE /\ raced = FALSE
  /\ tag = [t \in Tags |-> "none"] /\ tagged = {}

OwnName == CHOOSE f \in [Units -> Names] : \A m, n \in Units : f[m] = f[n] => m = n
OneTitle == CHOOSE title \in Titles : TRUE

(* A unit's parent has a smaller number; names are not looked at.          *)
AnyTree ==
  \E parent \in [Units -> Units \union {Top}], deleted \in Units \union {Top} :
    /\ \A n \in Units : parent[n] # Top => parent[n] < n
    /\ unit = [n \in Units |-> [parent |-> parent[n], name |-> OwnName[n], live |-> n # deleted]]

AnyTreeInit ==
  /\ AnyTree
  /\ unitReq = [h \in OrgReqs |-> NoUnitReq] /\ looped = FALSE /\ raced = FALSE
  /\ tag \in [Tags -> {"live", "deleted"}]
  /\ tagged \in {{}} \union {{n} \X Tags : n \in Units}
  /\ post = [p \in Posts |-> [title |-> OneTitle, live |-> TRUE]]
  /\ member \in {{<<Admin, n, p>>} : n \in Units, p \in Posts} /\ postRole = {}

MCInit ==
  /\ TaskInit /\ EventInit /\ RegInit /\ GroupInit /\ RightsInit
  /\ scenario \in Scenarios
  /\ role[1].name = 1
  /\ scenario # "times" => \A t \in Times : event.start <= t /\ t <= event.end
  /\ CASE scenario = "groups" -> AnyTreeInit
       [] scenario = "rights" -> OneUnitInit /\ StaffInit
       [] OTHER -> TreeInit /\ StaffInit

------------------------------------------------------------------------------
(* What may happen in a scenario *)

TasksMeet ==
  /\ TaskNext
  /\ \A h \in Handlers : /\ taskReq'[h].op \in TaskOps[scenario] \union {"none"}
                         /\ taskReq'[h].who \subseteq Participants[scenario]
  /\ UNCHANGED <<eventVars, orgVars, rightVars, regVars>>

EventsMeet ==
  /\ EventNext
  /\ \A h \in Handlers : eventReq'[h].op \in EventOps[scenario] \union {"none"}
  /\ UNCHANGED <<taskVars, orgVars, rightVars, regVars>>

UnitNames == {unit[n].name : n \in Units} \ {Same}
NamesInUse == UnitNames \union ({unitReq[h].name : h \in OrgReqs} \ {Same})

UnitsMeet ==
  /\ \E h \in OrgReqs : UnitStep(h)
  /\ CASE scenario = "names" -> /\ Cardinality({n \in Units : unit'[n] # NoUnit}) <= 2
                                /\ NamesInUse' \subseteq Assignable /\ ~looped'
       [] scenario = "shape" -> \E busy \in OrgReqs : \A h \in OrgReqs \ {busy} :
            /\ unitReq'[h] = NoUnitReq
            /\ unitReq'[busy].op = "update" => unitReq'[busy].name = Same
            /\ unitReq'[busy].name \in UnitNames => unitReq'[busy] = unitReq[busy]
  /\ UNCHANGED <<taskVars, eventVars, staffVars, groupReq, rightVars, regVars>>

(* What is asked for units and for tags is put together in one line.       *)
GroupsMeet ==
  /\ \E h \in OrgReqs : AskGroup(h) \/ ResolveStep(h)
  /\ \E busy \in OrgReqs : \A h \in OrgReqs \ {busy} : groupReq'[h] = NoGroupReq
  /\ \A h \in OrgReqs : LET q == groupReq'[h] IN q.units = {} \/ q.tags = {} \/ q.units = Units
  /\ UNCHANGED <<taskVars, eventVars, rightVars, regVars>>

RightsMeet ==
  /\ RightsNext
  /\ \A m \in member' : m[1] # Admin
  /\ Cardinality({x[1] : x \in member' \union userRole'} \ {Admin}) <= 1
  /\ \A r \in Roles : HasRole(r)' => role'[r].name = r
  /\ {1} \X Permissions \subseteq roleCode'
  /\ Cardinality(roleCode' \intersect ({2} \X Permissions)) <= 1
  /\ UNCHANGED <<taskVars, eventVars, groupReq, regVars>>

RegistrationsMeet ==
  /\ RegNext
  /\ Cardinality({h \in Desks : desk'[h].op \in {"register", "adminCreate", "update"}}) <= 1
  /\ \A h \in Desks : desk'[h].form \in disturbed => desk'[h] = desk[h] \/ desk[h] # NoDesk
  /\ UNCHANGED <<taskVars, eventVars, orgVars, rightVars>>

InOrder(S, HasOne(_)) == \A i \in S : HasOne(i) => \A j \in S : j < i => HasOne(j)

FreshInOrder ==
  LET HasApplication(q) == application[q] # NoApplication
      HasPerson(a) == person[a] # NoPerson
  IN
  /\ InOrder(Units, HasRow) /\ InOrder(Roles, HasRole)
  /\ InOrder(Applications, HasApplication) /\ InOrder(Accounts, HasPerson)

MCNext ==
  /\ \/ scenario \in TaskScenarios /\ TasksMeet
     \/ scenario \in EventScenarios /\ EventsMeet
     \/ scenario \in OrgScenarios /\ UnitsMeet
     \/ scenario = "groups" /\ GroupsMeet
     \/ scenario = "rights" /\ RightsMeet
     \/ scenario = "registration" /\ RegistrationsMeet
  /\ FreshInOrder'
  /\ UNCHANGED scenario

MCSpec == MCInit /\ [][MCNext]_recordVars

Symmetry == Permutations(Assignable) \union Permutations(Handlers)
------------------------------------------------------------------------------
(* Types of the rows of all modules but Tasks, whose types are proved.     *)
RecordTypes ==
  EventTypeOK /\ TreeTypeOK /\ StaffTypeOK /\ GroupTypeOK /\ RightsTypeOK /\ RegTypeOK
==============================================================================
