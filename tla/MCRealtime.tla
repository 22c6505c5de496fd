----------------------------- MODULE MCRealtime ------------------------------
(***************************************************************************)
(* Instances, for TLC, of the programs beside the server's handlers: the   *)
(* tab (Realtime, and one row of it in Feed) and the seeds (Seeding).  A   *)
(* run explores one of them.                                               *)
(*                                                                         *)
(* seeds: a seed is stopped anywhere and started again, with a change by a *)
(* user, or two demo seeds keep pace with each other, with none, and make  *)
(* one thing twice.                                                        *)
(*                                                                         *)
(* feed: once the room is open two changes meet, or a change and a failure *)
(* of some kind, or a change and the opening of the room again.            *)
(***************************************************************************)
EXTENDS Realtime, Seeding, Feed, TLC

CONSTANTS
  m1, t1,
  first, second,  \* of Runs
  voter, choice,  \* the vote the demo poll holds
  saying,         \* what the row of the feed says at first
  MaxHappens,     \* bound: changes, openings and failures together
  Pace            \* bound: statements one seed may be ahead of the other

VARIABLE scenario

InFirst == [t \in Topics |-> CHOOSE r \in Rooms : TRUE]
OneOld == [m \in Messages |-> IF m = m1 THEN t1 ELSE None]
OneVote == [v \in Voters |-> IF v = voter THEN choice ELSE Nothing]

KeepPace ==
  /\ \A r \in Runs : run'[r].script = "demo"
  /\ Cardinality({c \in copy' : c.number > 1}) <= 1
  /\ run'[first] # run[first] => run[first].at <= run[second].at + Pace
  /\ run'[second] # run[second] => run[second].at <= run[first].at + Pace

SeedsMeet ==
  /\ SeedNext
  /\ starts = 0 => run'[second] = NoRun
  /\ overlapped' => changes' = 0 /\ KeepPace

MCInit ==
  /\ RealtimeInit /\ SeedInit /\ FeedInit
  /\ scenario \in {"tab", "seeds", "feed"}
  /\ row.says = saying
  /\ scenario # "feed" => list = "topic" /\ There

RowMeets ==
  /\ FeedNext
  /\ edits' + openings' + losses' <= MaxHappens

MCNext ==
  /\ \/ scenario = "tab" /\ RealtimeNext /\ UNCHANGED <<seedVars, feedVars>>
     \/ scenario = "seeds" /\ SeedsMeet /\ UNCHANGED <<realtimeVars, feedVars>>
     \/ scenario = "feed" /\ RowMeets /\ UNCHANGED <<realtimeVars, seedVars>>
  /\ UNCHANGED scenario

MCSpec == MCInit /\ [][MCNext]_<<realtimeVars, seedVars, feedVars, scenario>> /\ RealtimeFairness
==============================================================================
