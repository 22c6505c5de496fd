---------------------------- MODULE MCConversation ---------------------------
(***************************************************************************)
(* Instances of Conversation for TLC; scenario says which requests meet.   *)
(***************************************************************************)
EXTENDS Conversation, FiniteSets, TLC

VARIABLE scenario

Meet == [threads |-> {"post", "createTopic", "deleteTopic"},
         sight   |-> {"list", "setScope", "patchScope"},
         reading |-> {"post", "pin", "markRead"}]

(* sight: who sees one topic, while roles change; the others               *)
(* have an owner and a member, who posts, and topics without scopes.       *)
MCInit ==
  /\ ChatInit /\ scenario \in DOMAIN Meet
  /\ scenario # "sight" => \A t \in Topics : topic[t].scope = None
  /\ scenario # "sight" => \A r \in Rooms, u \in Users : standing[r][u] \in {"owner", "member"}
  /\ scenario # "threads" => Cardinality({t \in Topics : topic[t] # NoTopic}) = 1

MCNext ==
  /\ ChatNext /\ UNCHANGED scenario
  /\ scenario # "sight" => UNCHANGED standing
  /\ \A h \in Handlers :
       LET q == chatReq'[h] IN
       /\ q.op \in Meet[scenario] \union {"none"}
       /\ q.op = "post" => standing[q.room][q.actor] = "member"

MCSpec == MCInit /\ [][MCNext]_<<chatVars, scenario>>

Symmetry == Permutations(Users) \union Permutations(Handlers) \union Permutations(Messages)
              \union Permutations(Topics) \union Permutations(Scopes)
==============================================================================
