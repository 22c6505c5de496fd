----------------------------- MODULE MCAnswers -------------------------------
(***************************************************************************)
(* Instances, for TLC, of the two places where the server could work on a  *)
(* request for ever: votes that wait for each other's locks (Polls), and   *)
(* the walk down a tree that changes (OrgGroups).  A run explores one or   *)
(* the other.                                                              *)
(*                                                                         *)
(* walks: handler resolver walks subtrees of a chain of units, while       *)
(* handler changer, or an operation on tags or members, changes the rows   *)
(* once.                                                                   *)
(***************************************************************************)
EXTENDS Polls, OrgGroups, TLC

CONSTANTS resolver, changer

VARIABLES
  scenario,
  spent      \* walks: the rows have changed

answerVars == <<vars, groupVars, scenario, spent>>

VoteOps == {"vote", "add"}

(* A chain of units, its ids being numbers; everyone serves at its top.    *)
ChainInit ==
  /\ unit = [n \in Units |-> [parent |-> IF n = 1 THEN Top ELSE n - 1, name |-> n, live |-> TRUE]]
  /\ unitReq = [h \in OrgReqs |-> NoUnitReq] /\ looped = FALSE /\ raced = FALSE
  /\ tag = [t \in Tags |-> "live"] /\ tagged = {}
  /\ \E title \in Titles : post = [p \in Posts |-> [title |-> title, live |-> TRUE]]
  /\ member = Users \X {1} \X Posts /\ postRole = {}

MCInit ==
  /\ Init /\ GroupInit /\ spent = FALSE
  /\ scenario \in {"votes", "walks"}
  /\ IF scenario = "votes" THEN TreeInit /\ StaffInit ELSE ChainInit

ChangeOnce ==
  /\ OrgStep /\ UNCHANGED post
  /\ unitReq'[resolver] = NoUnitReq /\ unitReq'[changer].name = Same
  /\ IF unitReq' # unitReq /\ UNCHANGED <<unit, tagVars, member>> THEN UNCHANGED spent
     ELSE ~spent /\ spent' = TRUE

AskSubtree ==
  LET q == groupReq'[resolver] IN q.deep /\ q.op = "invite" /\ q.tags = {} /\ Cardinality(q.units) = 1

MCNext ==
  /\ \/ scenario = "votes" /\ Next /\ UNCHANGED <<groupVars, spent>>
     \/ /\ scenario = "walks" /\ UNCHANGED vars
        /\ \/ ChangeOnce
           \/ ResolveStep(resolver) /\ UNCHANGED spent
           \/ AskGroup(resolver) /\ AskSubtree /\ UNCHANGED spent
  /\ UNCHANGED scenario

MCSpec == MCInit /\ [][MCNext]_answerVars /\ Fairness /\ GroupFairness
==============================================================================
