------------------------------- MODULE Polls --------------------------------
(***************************************************************************)
(* One poll: its participants, their votes and the counters of its         *)
(* options, as the handlers of src/server/src/polls/polls.service.ts       *)
(* change them.                                                            *)
(*                                                                         *)
(* vote, retractVote and removeParticipant write inside a transaction of   *)
(* the database, which is READ COMMITTED: a plain SELECT takes no lock and *)
(* sees what is committed; an UPDATE or DELETE takes the row's lock, waits *)
(* while another transaction holds it, works on the committed row, and is  *)
(* seen by others at the commit, when the locks are released.  A           *)
(* transaction may be rolled back at any statement (time limit, lost       *)
(* connection), and is when it waits in a cycle.                           *)
(***************************************************************************)
EXTENDS People, Integers, FiniteSets

CONSTANTS
  Options,   \* the options of the poll
  Reqs,      \* handler slots: bounds the concurrency
  Ops,       \* the operations requested in this instance
  CounterBound, \* bound of the instance: no vote starts past this counter
  None       \* null; also an option id that is not of this poll

RowOps == {"vote", "retract", "remove"}
OwnerOps == {"remove", "add", "update", "delete"}
OpNames == RowOps \union OwnerOps

(* createPoll accepts two to eight different options.                      *)
ASSUME PollAssumption ==
  /\ IsFiniteSet(Users) /\ IsFiniteSet(Options)
  /\ Cardinality(Options) \in 2..8
  /\ None \notin Users \union Options \union Reqs
  /\ Ops \subseteq OpNames
  /\ CounterBound \in Nat

VARIABLES
  poll,        \* row of the poll
  row,         \* rows of its participants
  chosen,      \* counter of each option
  optionLock,  \* transaction that holds the option's row
  rowLock,     \* transaction that holds the participant's row
  req,         \* the handlers in flight
  overlapped   \* history: users two handlers have worked on at a time

vars == <<poll, row, chosen, optionLock, rowLock, req, overlapped>>

Polls == [deleted : BOOLEAN, allowVoteChange : BOOLEAN]

Rows == [here : BOOLEAN, done : BOOLEAN, choice : Options \union {None}]

NoRow == [here |-> FALSE, done |-> FALSE, choice |-> None]

NewRow == [here |-> TRUE, done |-> FALSE, choice |-> None]

Steps == {"idle", "readPoll", "readRow", "decrement", "increment", "writeRow", "commit",
          "assertOwner", "readExisting", "insertRows", "setPoll"}

(* allow and seen: the poll's flag and the participant's row as read;      *)
(* group: the users to add; flag: the new value of allowVoteChange.        *)
Handlers == [op : OpNames \union {"none"}, at : Steps, user : Users \union {None},
             option : Options \union {None}, group : SUBSET Users,
             flag : BOOLEAN, allow : BOOLEAN, seen : Rows]

Idle == [op |-> "none", at |-> "idle", user |-> None, option |-> None, group |-> {},
         flag |-> FALSE, allow |-> FALSE, seen |-> NoRow]

------------------------------------------------------------------------------
At(r, step) == req[r].at = step

Goto(r, step) == req' = [req EXCEPT ![r].at = step]

(* The handler returns; its transaction, if it has one, is over.           *)
Release(r) ==
  /\ optionLock' = [o \in Options |-> IF optionLock[o] = r THEN None ELSE optionLock[o]]
  /\ rowLock' = [u \in Users |-> IF rowLock[u] = r THEN None ELSE rowLock[u]]

Finish(r) == req' = [req EXCEPT ![r] = Idle] /\ Release(r)

Tables == <<poll, row, chosen>>
Locks == <<optionLock, rowLock>>

Busy(u) == \E r \in Reqs : req[r].op \in RowOps /\ req[r].user = u

Start(r, op, step, u, o, g, f) ==
  /\ op \in Ops
  /\ req[r] = Idle
  /\ req' = [req EXCEPT ![r] = [op |-> op, at |-> step, user |-> u, option |-> o,
                               group |-> g, flag |-> f, allow |-> FALSE, seen |-> NoRow]]
  /\ UNCHANGED <<Tables, Locks>>

(* Overlapping handlers can count a vote twice, again and again: bounded.  *)
WithinBound == \A o \in Options : chosen[o] \in -CounterBound..CounterBound

Overlap(u) ==
  /\ WithinBound
  /\ overlapped' = IF Busy(u) THEN overlapped \union {u} ELSE overlapped

StartVote(r) == \E u \in Users, o \in Options \union {None} :
  Start(r, "vote", "readPoll", u, o, {}, FALSE) /\ Overlap(u)

StartRetractVote(r) == \E u \in Users :
  Start(r, "retract", "readPoll", u, None, {}, FALSE) /\ Overlap(u)

(* The four operations of the creator; anyone else gets 403 and no step.   *)
StartRemoveParticipant(r) == \E u \in Users :
  Start(r, "remove", "assertOwner", u, None, {}, FALSE) /\ Overlap(u)

StartAddParticipants(r) == \E g \in (SUBSET Users) \ {{}} :
  Start(r, "add", "assertOwner", None, None, g, FALSE) /\ UNCHANGED overlapped

StartUpdatePoll(r) == \E f \in BOOLEAN :
  Start(r, "update", "assertOwner", None, None, {}, f) /\ UNCHANGED overlapped

StartDeletePoll(r) ==
  Start(r, "delete", "assertOwner", None, None, {}, FALSE) /\ UNCHANGED overlapped

------------------------------------------------------------------------------
(* Reads *)

(* vote and retractVote read the poll outside the transaction.             *)
ReadPoll(r) ==
  /\ At(r, "readPoll")
  /\ IF poll.deleted THEN Finish(r)
     ELSE /\ req' = [req EXCEPT ![r].at = "readRow", ![r].allow = poll.allowVoteChange]
          /\ UNCHANGED Locks
  /\ UNCHANGED <<Tables, overlapped>>

AssertPollOwner(r) ==
  /\ At(r, "assertOwner")
  /\ IF poll.deleted THEN Finish(r)
     ELSE /\ Goto(r, CASE req[r].op = "remove" -> "readRow"
                       [] req[r].op = "add" -> "readExisting"
                       [] OTHER -> "setPoll")
          /\ UNCHANGED Locks
  /\ UNCHANGED <<Tables, overlapped>>

(* Mutant: allowVoteChange is not asked for by vote.                       *)
RefusedButChanges(h, p) ==
  \/ ~p.here
  \/ h.op = "vote" /\ h.option = None
  \/ h.op = "retract" /\ (~p.done \/ ~h.allow)

(* The participant's row: the first statement of the transaction of vote   *)
(* and retractVote, the last before that of removeParticipant.             *)
Refused(h, p) ==
  \/ ~p.here
  \/ h.op = "vote" /\ ((p.done /\ ~h.allow) \/ h.option = None)
  \/ h.op = "retract" /\ (~p.done \/ ~h.allow)

ReadRow(r) ==
  /\ At(r, "readRow")
  /\ LET h == req[r]
         p == row[h.user]
     IN IF Refused(h, p) THEN Finish(r)
        ELSE /\ req' = [req EXCEPT
                  ![r].seen = p,
                  ![r].at = CASE p.done /\ p.choice # None -> "decrement"
                              [] h.op = "vote" -> "increment"
                              [] OTHER -> "writeRow"]
             /\ UNCHANGED Locks
  /\ UNCHANGED <<Tables, overlapped>>

------------------------------------------------------------------------------
(* Writes of the transaction: pending until Commit *)

(* Mutant: the counter is updated on a connection of its own, which waits  *)
(* for the lock of the handler's own transaction too.                      *)
TakeOptionOutside(r, o) ==
  /\ optionLock[o] = None
  /\ optionLock' = [optionLock EXCEPT ![o] = r]
  /\ UNCHANGED rowLock

TakeOption(r, o) ==
  /\ optionLock[o] \in {None, r}
  /\ optionLock' = [optionLock EXCEPT ![o] = r]
  /\ UNCHANGED rowLock

DecrementOld(r) ==
  /\ At(r, "decrement")
  /\ TakeOption(r, req[r].seen.choice)
  /\ Goto(r, IF req[r].op = "vote" THEN "increment" ELSE "writeRow")
  /\ UNCHANGED <<Tables, overlapped>>

IncrementNew(r) ==
  /\ At(r, "increment")
  /\ TakeOption(r, req[r].option)
  /\ Goto(r, "writeRow")
  /\ UNCHANGED <<Tables, overlapped>>

(* Update or delete by primary key: throws, and rolls back, when the row   *)
(* is gone.                                                                *)
WriteRow(r) ==
  /\ At(r, "writeRow")
  /\ rowLock[req[r].user] \in {None, r}
  /\ IF ~row[req[r].user].here THEN Finish(r)
     ELSE /\ rowLock' = [rowLock EXCEPT ![req[r].user] = r]
          /\ Goto(r, "commit")
          /\ UNCHANGED optionLock
  /\ UNCHANGED <<Tables, overlapped>>

(* Mutant: retractVote clears the mark and keeps the option.               *)
WrittenKeepsOption(h) ==
  CASE h.op = "vote"    -> [here |-> TRUE, done |-> TRUE, choice |-> h.option]
    [] h.op = "retract" -> [here |-> TRUE, done |-> FALSE, choice |-> h.seen.choice]
    [] OTHER            -> NoRow

Written(h) == CASE h.op = "vote"    -> [here |-> TRUE, done |-> TRUE, choice |-> h.option]
                [] h.op = "retract" -> NewRow
                [] OTHER            -> NoRow

(* Mutant: removeParticipant forgets the vote of whom it removes.          *)
LostByVoters(h, o) == IF h.op # "remove" /\ h.seen.done /\ h.seen.choice = o THEN 1 ELSE 0

Lost(h, o) == IF h.seen.done /\ h.seen.choice = o THEN 1 ELSE 0

Gained(h, o) == IF h.op = "vote" /\ h.option = o THEN 1 ELSE 0

Commit(r) ==
  /\ At(r, "commit")
  /\ LET h == req[r] IN
       /\ row' = [row EXCEPT ![h.user] = Written(h)]
       /\ chosen' = [o \in Options |-> chosen[o] - Lost(h, o) + Gained(h, o)]
  /\ Finish(r)
  /\ UNCHANGED <<poll, overlapped>>

------------------------------------------------------------------------------
(* Statements outside transactions *)

ReadExisting(r) ==
  /\ At(r, "readExisting")
  /\ LET new == {u \in req[r].group : ~row[u].here} IN
       IF new = {} THEN Finish(r)
       ELSE /\ req' = [req EXCEPT ![r].group = new, ![r].at = "insertRows"]
            /\ UNCHANGED Locks
  /\ UNCHANGED <<Tables, overlapped>>

(* createMany waits for locked rows; one row there already makes the whole *)
(* statement fail.                                                         *)
InsertDecided(r) ==
  \/ \A u \in req[r].group : rowLock[u] = None
  \/ \E u \in req[r].group : rowLock[u] = None /\ row[u].here

(* Mutant: createMany as an upsert that starts the rows anew.              *)
UpsertRows(r) ==
  /\ At(r, "insertRows")
  /\ InsertDecided(r)
  /\ row' = [u \in Users |-> IF u \in req[r].group THEN NewRow ELSE row[u]]
  /\ Finish(r)
  /\ UNCHANGED <<poll, chosen, overlapped>>

InsertRows(r) ==
  /\ At(r, "insertRows")
  /\ InsertDecided(r)
  /\ row' = IF \E u \in req[r].group : row[u].here THEN row
            ELSE [u \in Users |-> IF u \in req[r].group THEN NewRow ELSE row[u]]
  /\ Finish(r)
  /\ UNCHANGED <<poll, chosen, overlapped>>

SetPoll(r) ==
  /\ At(r, "setPoll")
  /\ poll' = IF req[r].op = "delete" THEN [poll EXCEPT !.deleted = TRUE]
             ELSE [poll EXCEPT !.allowVoteChange = req[r].flag]
  /\ Finish(r)
  /\ UNCHANGED <<row, chosen, overlapped>>

------------------------------------------------------------------------------
(* Rollback *)

Rollback(r) ==
  /\ req[r] # Idle
  /\ Finish(r)
  /\ UNCHANGED <<Tables, overlapped>>

(* The transaction r waits for, if it waits.                               *)
Blocker(r) ==
  CASE At(r, "decrement") -> optionLock[req[r].seen.choice]
    [] At(r, "increment") -> optionLock[req[r].option]
    [] At(r, "writeRow")  -> rowLock[req[r].user]
    [] OTHER -> None

Deadlocked(r) ==
  \E S \in SUBSET Reqs : /\ r \in S
                         /\ \A x \in S : Blocker(x) \in S \ {x}

(* The database's deadlock detector.                                       *)
BreakDeadlock(r) == Deadlocked(r) /\ Rollback(r)

------------------------------------------------------------------------------
(* createPoll, and no participant yet.                                     *)
Init ==
  /\ poll \in [deleted : {FALSE}, allowVoteChange : BOOLEAN]
  /\ row = [u \in Users |-> NoRow]
  /\ chosen = [o \in Options |-> 0]
  /\ optionLock = [o \in Options |-> None]
  /\ rowLock = [u \in Users |-> None]
  /\ req = [r \in Reqs |-> Idle]
  /\ overlapped = {}

Call(r) ==
  \/ StartVote(r) \/ StartRetractVote(r) \/ StartRemoveParticipant(r)
  \/ StartAddParticipants(r) \/ StartUpdatePoll(r) \/ StartDeletePoll(r)

Statement(r) ==
  \/ ReadPoll(r) \/ AssertPollOwner(r) \/ ReadRow(r)
  \/ DecrementOld(r) \/ IncrementNew(r) \/ WriteRow(r) \/ Commit(r)
  \/ ReadExisting(r) \/ InsertRows(r) \/ SetPoll(r)

Next == \E r \in Reqs : Call(r) \/ Statement(r) \/ Rollback(r)

Spec == Init /\ [][Next]_vars

(* The server keeps executing a handler; the database hands a row's lock   *)
(* to its waiters in turn, and breaks deadlocks.                           *)
Fairness == \A r \in Reqs : SF_vars(Statement(r)) /\ WF_vars(BreakDeadlock(r))

FairSpec == Spec /\ Fairness
------------------------------------------------------------------------------
(* Properties *)

(* Types of the tables and handlers; a row has an option exactly when its  *)
(* vote is done.                                                           *)
TypeOK ==
  /\ poll \in Polls
  /\ row \in [Users -> Rows]
  /\ \A u \in Users : row[u].done <=> row[u].choice # None
  /\ chosen \in [Options -> Int]
  /\ optionLock \in [Options -> Reqs \union {None}]
  /\ rowLock \in [Users -> Reqs \union {None}]
  /\ req \in [Reqs -> Handlers]
  /\ overlapped \in SUBSET Users

Voters(o) == {u \in Users : row[u].here /\ row[u].done /\ row[u].choice = o}

(* The result shown for a poll is right: while no two handlers have worked *)
(* on one user's vote at a time, an option's counter is the number of      *)
(* participants whose vote it is - whatever votes, retractions, removals,  *)
(* repeated invitations and rollbacks of different users interleave.       *)
TallyExact == overlapped = {} => \A o \in Options : chosen[o] = Cardinality(Voters(o))

(* A vote that is recorded stands unless its participant is removed or a   *)
(* handler that read allowVoteChange as true replaces it; in particular    *)
(* nobody else's invitation, vote or retraction touches it.                *)
RecordedVotesStand ==
  [][\A u \in Users \ overlapped :
       (row[u].done /\ row'[u] # row[u]) =>
         \E r \in Reqs : req[r].user = u /\ (req[r].op = "remove" \/ req[r].allow)]_vars

(* Every request is answered: no handler waits for a row for ever.         *)
Answered == \A r \in Reqs : req[r] # Idle ~> req[r] = Idle

(* "Vote changes are not allowed for this poll": what vote and retractVote *)
(* throw for a poll whose allowVoteChange is false.                        *)
NoChangeWhenForbidden ==
  [][\A u \in Users :
       (~poll.allowVoteChange /\ row[u].done /\ row'[u].done) =>
         row'[u].choice = row[u].choice]_vars
==============================================================================
