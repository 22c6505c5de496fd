-------------------------------- MODULE MCTab --------------------------------
(***************************************************************************)
(* Instances, for TLC, of what one tab of the browser does: its session    *)
(* (BrowserSession), whose exchanges must all end, the entries of its API  *)
(* slices (ApiSlices), and the forms of its pages (Editing).  A run        *)
(* explores one of them.                                                   *)
(*                                                                         *)
(* slices: any query, while one mutation its rows depend on is made, or    *)
(* while the user changes.                                                 *)
(***************************************************************************)
EXTENDS BrowserSession, ApiSlices, Editing

CONSTANT before  \* of UserIds: who is signed in at first

VARIABLE scenario

(* Mutations of a slice with the same tags and facts are told apart by     *)
(* nothing but their names: one of them will do.                           *)
Alike(m, n) ==
  /\ m.slice = n.slice
  /\ Instances(m.tags, m.arg, {}) = Instances(n.tags, n.arg, {})
  /\ Instances(m.facts, m.arg, {}) = Instances(n.facts, n.arg, {})

Sample == {m \in Mutations : m = CHOOSE n \in Mutations : Alike(m, n)}

MutateOrChangeUser ==
  /\ SlicesNext
  /\ \A s \in Changes : change'[s] # change[s] /\ change[s] = Unused => change'[s].mutation \in Sample
  /\ reader' # before => change' = [s \in Changes |-> Unused]

MCInit ==
  /\ scenario \in {"session", "slices", "forms"}
  /\ Init
  /\ SlicesInit /\ reader = before
  /\ scenario # "slices" => watched = CHOOSE q \in Queries : TRUE
  /\ EditInit
  /\ scenario # "forms" => form = CHOOSE f \in Forms : TRUE
  /\ scenario # "forms" => chosen = CHOOSE r \in Rows : TRUE
  /\ scenario # "forms" => \A r \in Rows : known[r] = 1

MCNext ==
  /\ UNCHANGED scenario
  /\ \/ scenario = "session" /\ Next /\ UNCHANGED <<sliceVars, editVars>>
     \/ scenario = "slices" /\ MutateOrChangeUser /\ UNCHANGED <<vars, editVars>>
     \/ scenario = "forms" /\ EditNext /\ UNCHANGED <<vars, sliceVars>>

MCSpec == MCInit /\ [][MCNext]_<<vars, sliceVars, editVars, scenario>> /\ Answers
==============================================================================
