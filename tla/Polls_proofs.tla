---------------------------- MODULE Polls_proofs -----------------------------
(***************************************************************************)
(* Proofs about Polls, for every finite set of users and options, any      *)
(* handler slots, operations and bound.                                    *)
(*                                                                         *)
(* The tally is not inductive by itself: a commit subtracts the vote its   *)
(* handler read some statements ago.  IInv therefore says that a user no   *)
(* two handlers have worked on has at most one handler at work (Solo), and *)
(* that what it read is still the user's row (Fresh); the locks are not    *)
(* needed for it.  Handlers say what a handler carries (HandlerOK).        *)
(*                                                                         *)
(* Who waits for whom is the second part: every lock is held by a handler  *)
(* that is still to commit (LocksFit), so a wait ends with a handler that  *)
(* goes on or with a cycle, and each statement brings its handler further. *)
(***************************************************************************)
EXTENDS Polls, FiniteSetTheorems, TLAPS

PastRead == {"decrement", "increment", "writeRow", "commit"}

(* What a handler carries, by its operation and next statement.            *)
HandlerOK(h) ==
  /\ h.at \in PastRead \union {"readPoll", "readRow"} => h.op \in RowOps
  /\ h.op \in RowOps => h.user \in Users
  /\ h.at = "increment" => h.op = "vote"
  /\ h.at = "decrement" => h.seen.choice # None
  /\ (h.at \in PastRead /\ h.op = "vote") => h.option \in Options /\ (h.seen.done => h.allow)
  /\ (h.at \in PastRead /\ h.op = "retract") => h.allow

ControlOK == \A r \in Reqs : HandlerOK(req[r])

RowOK == \A u \in Users : row[u].done => row[u].here

WorksOn(r, u) == req[r].op \in RowOps /\ req[r].user = u

Solo == \A u \in Users \ overlapped : \A r1, r2 \in Reqs :
          WorksOn(r1, u) /\ WorksOn(r2, u) => r1 = r2

Fresh == \A r \in Reqs :
  (req[r].at \in PastRead /\ req[r].user \notin overlapped) =>
    row[req[r].user] = req[r].seen /\ req[r].seen.here

IInv == TypeOK /\ ControlOK /\ RowOK /\ Solo /\ Fresh /\ TallyExact

------------------------------------------------------------------------------
(* Types *)

LEMMA RowTypes == NoRow \in Rows /\ NewRow \in Rows
  BY DEF NoRow, NewRow, Rows

LEMMA IdleOK == Idle \in Handlers /\ HandlerOK(Idle) /\ Idle.op \notin RowOps /\ Idle.at \notin PastRead
  BY RowTypes DEF Idle, Handlers, Steps, HandlerOK, PastRead, RowOps

LEMMA LocksType ==
  ASSUME TypeOK, NEW r \in Reqs, Release(r)
  PROVE  /\ optionLock' \in [Options -> Reqs \union {None}]
         /\ rowLock' \in [Users -> Reqs \union {None}]
  BY DEF TypeOK, Release

(* How a statement moves its handler: the others stay, and it returns or   *)
(* goes on for the same user, with what it has read or reads now.          *)
Advances(r) ==
  /\ req' \in [Reqs -> Handlers]
  /\ \A x \in Reqs \ {r} : req'[x] = req[x]
  /\ HandlerOK(req'[r])
  /\ req'[r].op \in RowOps => req'[r].op = req[r].op /\ req'[r].user = req[r].user
  /\ req'[r].at \in PastRead =>
       \/ req[r].at \in PastRead /\ req'[r].seen = req[r].seen
       \/ req'[r].seen = row[req'[r].user] /\ req'[r].seen.here

LEMMA FinishAdvances ==
  ASSUME TypeOK, NEW r \in Reqs, Finish(r)
  PROVE  /\ Advances(r)
         /\ optionLock' \in [Options -> Reqs \union {None}]
         /\ rowLock' \in [Users -> Reqs \union {None}]
  <1>1. req' = [req EXCEPT ![r] = Idle] /\ req' \in [Reqs -> Handlers]
    BY IdleOK DEF TypeOK, Finish
  <1>2. req'[r] = Idle /\ \A x \in Reqs \ {r} : req'[x] = req[x]
    BY <1>1 DEF TypeOK
  <1>3. Advances(r)
    BY <1>1, <1>2, IdleOK DEF Advances
  <1>4. QED BY <1>3, LocksType DEF Finish

(* Going on to another statement with nothing new read.                    *)
LEMMA GotoAdvances ==
  ASSUME TypeOK, NEW r \in Reqs, NEW step \in Steps, Goto(r, step),
         HandlerOK([req[r] EXCEPT !.at = step]),
         step \in PastRead => req[r].at \in PastRead
  PROVE  Advances(r)
  <1> DEFINE h == [req[r] EXCEPT !.at = step]
  <1>1. req[r] \in Handlers
    BY DEF TypeOK
  <1>2. h \in Handlers /\ h.op = req[r].op /\ h.user = req[r].user /\ h.seen = req[r].seen
        /\ h.at = step
    BY <1>1 DEF Handlers
  <1>3. req' = [req EXCEPT ![r] = h]
    BY DEF Goto
  <1>4. req'[r] = h /\ (\A x \in Reqs \ {r} : req'[x] = req[x]) /\ req' \in [Reqs -> Handlers]
    BY <1>2, <1>3 DEF TypeOK
  <1>5. HandlerOK(h)
    OBVIOUS
  <1> HIDE DEF h
  <1> QED BY <1>2, <1>4, <1>5 DEF Advances

(* A lock taken on a row is held by a handler of the instance.             *)
LEMMA TakeOptionType ==
  ASSUME TypeOK, NEW r \in Reqs, NEW o \in Options, TakeOption(r, o)
  PROVE  /\ optionLock' \in [Options -> Reqs \union {None}]
         /\ rowLock' \in [Users -> Reqs \union {None}]
  BY DEF TypeOK, TakeOption

LocksOK == /\ optionLock' \in [Options -> Reqs \union {None}]
           /\ rowLock' \in [Users -> Reqs \union {None}]

LEMMA LocksKept == ASSUME TypeOK, UNCHANGED Locks PROVE LocksOK
  BY DEF TypeOK, Locks, LocksOK

LEMMA StatementAdvances ==
  ASSUME TypeOK, ControlOK, RowOK, NEW r \in Reqs, Statement(r) \/ Rollback(r)
  PROVE  Advances(r) /\ LocksOK
  <1>h. req[r] \in Handlers /\ HandlerOK(req[r])
    BY DEF TypeOK, ControlOK
  <1>f. ASSUME Finish(r) PROVE Advances(r) /\ LocksOK
    BY <1>f, FinishAdvances DEF LocksOK
  <1>g. ASSUME NEW step \in Steps, Goto(r, step)
        PROVE  LET h == [req[r] EXCEPT !.at = step] IN
               /\ h.at = step /\ h.op = req[r].op /\ h.user = req[r].user
               /\ h.option = req[r].option /\ h.seen = req[r].seen /\ h.allow = req[r].allow
    BY <1>h DEF Handlers
  <1>1. CASE ReadPoll(r)
    <2>1. CASE poll.deleted
      BY <1>1, <2>1, <1>f DEF ReadPoll
    <2>2. CASE ~poll.deleted
      <3> DEFINE h == [req[r] EXCEPT !.at = "readRow", !.allow = poll.allowVoteChange]
      <3>1. req' = [req EXCEPT ![r] = h] /\ UNCHANGED Locks
        BY <1>1, <2>2 DEF ReadPoll
      <3>2. poll.allowVoteChange \in BOOLEAN
        BY DEF TypeOK, Polls
      <3>3. h \in Handlers /\ h.op = req[r].op /\ h.user = req[r].user /\ h.at = "readRow"
        BY <1>h, <3>2 DEF Handlers, Steps
      <3>4. req[r].op \in RowOps /\ req[r].user \in Users
        BY <1>1, <1>h DEF ReadPoll, At, HandlerOK
      <3> HIDE DEF h
      <3>5. HandlerOK(h)
        BY <3>3, <3>4 DEF HandlerOK, PastRead
      <3>6. req'[r] = h /\ (\A x \in Reqs \ {r} : req'[x] = req[x]) /\ req' \in [Reqs -> Handlers]
        BY <3>1, <3>3 DEF TypeOK
      <3> QED BY <3>1, <3>3, <3>5, <3>6, LocksKept DEF Advances, PastRead
    <2> QED BY <2>1, <2>2
  <1>2. CASE AssertPollOwner(r)
    <2>1. CASE poll.deleted
      BY <1>2, <2>1, <1>f DEF AssertPollOwner
    <2>2. CASE ~poll.deleted
      <3>1. PICK step \in {"readRow", "readExisting", "setPoll"} :
              /\ Goto(r, step) /\ (step = "readRow" => req[r].op = "remove")
              /\ UNCHANGED Locks
        BY <1>2, <2>2 DEF AssertPollOwner
      <3>2. step \in Steps /\ step \notin PastRead
        BY DEF Steps, PastRead
      <3>3. HandlerOK([req[r] EXCEPT !.at = step])
        BY <1>h, <1>g, <3>1, <3>2 DEF HandlerOK, PastRead, RowOps
      <3> QED BY <3>1, <3>2, <3>3, GotoAdvances, LocksKept
    <2> QED BY <2>1, <2>2
  <1>3. CASE ReadRow(r)
    <2> DEFINE p == row[req[r].user]
    <2>0. req[r].op \in RowOps /\ req[r].user \in Users /\ p \in Rows
      BY <1>3, <1>h DEF ReadRow, At, HandlerOK, TypeOK
    <2>1. CASE Refused(req[r], p)
      BY <1>3, <2>1, <1>f DEF ReadRow
    <2>2. CASE ~Refused(req[r], p)
      <3>1. PICK step \in {"decrement", "increment", "writeRow"} :
              /\ req' = [req EXCEPT ![r].seen = p, ![r].at = step]
              /\ step = "decrement" => p.choice # None
              /\ step = "increment" => req[r].op = "vote"
              /\ UNCHANGED Locks
        <4>1. CASE p.done /\ p.choice # None
          BY <1>3, <2>2, <4>1 DEF ReadRow
        <4>2. CASE ~(p.done /\ p.choice # None) /\ req[r].op = "vote"
          BY <1>3, <2>2, <4>2 DEF ReadRow
        <4>3. CASE ~(p.done /\ p.choice # None) /\ req[r].op # "vote"
          BY <1>3, <2>2, <4>3 DEF ReadRow
        <4> QED BY <4>1, <4>2, <4>3
      <3> DEFINE h == [req[r] EXCEPT !.seen = p, !.at = step]
      <3>2. req' = [req EXCEPT ![r] = h]
        BY <3>1
      <3>3. h \in Handlers /\ h.op = req[r].op /\ h.user = req[r].user /\ h.at = step
            /\ h.option = req[r].option /\ h.allow = req[r].allow /\ h.seen = p
        BY <1>h, <2>0 DEF Handlers, Steps
      <3>4. p.here /\ (req[r].op = "vote" => req[r].option \in Options /\ (p.done => req[r].allow))
            /\ (req[r].op = "retract" => req[r].allow)
        BY <2>2, <1>h DEF Refused, Handlers
      <3> HIDE DEF h, p
      <3>5. HandlerOK(h)
        BY <2>0, <3>1, <3>3, <3>4 DEF HandlerOK, PastRead
      <3>6. req'[r] = h /\ (\A x \in Reqs \ {r} : req'[x] = req[x]) /\ req' \in [Reqs -> Handlers]
        BY <3>2, <3>3 DEF TypeOK
      <3>7. h.seen = row[h.user] /\ h.seen.here
        BY <3>3, <3>4 DEF p
      <3> QED BY <3>1, <3>3, <3>5, <3>6, <3>7, LocksKept DEF Advances
    <2> QED BY <2>1, <2>2
  <1>4. CASE DecrementOld(r)
    <2>1. PICK step \in {"increment", "writeRow"} :
            Goto(r, step) /\ (step = "increment" => req[r].op = "vote")
      BY <1>4 DEF DecrementOld
    <2>2. req[r].at = "decrement" /\ req[r].seen.choice \in Options
      BY <1>4, <1>h DEF DecrementOld, At, HandlerOK, Handlers, Rows
    <2>3. HandlerOK([req[r] EXCEPT !.at = step])
      BY <1>h, <1>g, <2>1, <2>2 DEF HandlerOK, PastRead, Steps
    <2>4. Advances(r)
      BY <2>1, <2>2, <2>3, GotoAdvances DEF PastRead, Steps
    <2>5. LocksOK
      BY <1>4, <2>2, TakeOptionType DEF DecrementOld, LocksOK
    <2> QED BY <2>4, <2>5
  <1>5. CASE IncrementNew(r)
    <2>2. req[r].at = "increment" /\ req[r].option \in Options
      BY <1>5, <1>h DEF IncrementNew, At, HandlerOK, PastRead
    <2>3. Goto(r, "writeRow") /\ HandlerOK([req[r] EXCEPT !.at = "writeRow"])
      BY <1>h, <1>g, <1>5, <2>2 DEF IncrementNew, HandlerOK, PastRead, Steps
    <2>4. Advances(r)
      BY <2>2, <2>3, GotoAdvances DEF PastRead, Steps
    <2>5. LocksOK
      BY <1>5, <2>2, TakeOptionType DEF IncrementNew, LocksOK
    <2> QED BY <2>4, <2>5
  <1>6. CASE WriteRow(r)
    <2>1. CASE ~row[req[r].user].here
      BY <1>6, <2>1, <1>f DEF WriteRow
    <2>2. CASE row[req[r].user].here
      <3>1. req[r].at = "writeRow" /\ Goto(r, "commit")
        BY <1>6, <2>2 DEF WriteRow, At
      <3>2. HandlerOK([req[r] EXCEPT !.at = "commit"])
        BY <1>h, <1>g, <3>1 DEF HandlerOK, PastRead, Steps
      <3>3. Advances(r)
        BY <3>1, <3>2, GotoAdvances DEF PastRead, Steps
      <3>4. LocksOK
        BY <1>6, <2>2 DEF WriteRow, TypeOK, LocksOK
      <3> QED BY <3>3, <3>4
    <2> QED BY <2>1, <2>2
  <1>7. CASE Commit(r)
    BY <1>7, <1>f DEF Commit
  <1>8. CASE ReadExisting(r)
    <2> DEFINE new == {u \in req[r].group : ~row[u].here}
    <2>1. CASE new = {}
      BY <1>8, <2>1, <1>f DEF ReadExisting
    <2>2. CASE new # {}
      <3> DEFINE h == [req[r] EXCEPT !.group = new, !.at = "insertRows"]
      <3>1. req' = [req EXCEPT ![r] = h] /\ UNCHANGED Locks
        BY <1>8, <2>2 DEF ReadExisting
      <3>2. new \subseteq Users
        BY <1>h DEF Handlers
      <3> HIDE DEF new
      <3>3. h \in Handlers /\ h.op = req[r].op /\ h.user = req[r].user /\ h.at = "insertRows"
        BY <1>h, <3>2 DEF Handlers, Steps
      <3> HIDE DEF h
      <3>5. HandlerOK(h)
        BY <1>h, <3>3 DEF HandlerOK, PastRead
      <3>6. req'[r] = h /\ (\A x \in Reqs \ {r} : req'[x] = req[x]) /\ req' \in [Reqs -> Handlers]
        BY <3>1, <3>3 DEF TypeOK
      <3> QED BY <3>1, <3>3, <3>5, <3>6, LocksKept DEF Advances, PastRead
    <2> QED BY <2>1, <2>2
  <1>9. CASE InsertRows(r)
    BY <1>9, <1>f DEF InsertRows
  <1>10. CASE SetPoll(r)
    BY <1>10, <1>f DEF SetPoll
  <1>11. CASE Rollback(r)
    BY <1>11, <1>f DEF Rollback
  <1> QED
    BY <1>1, <1>2, <1>3, <1>4, <1>5, <1>6, <1>7, <1>8, <1>9, <1>10, <1>11 DEF Statement
------------------------------------------------------------------------------
(* Calls *)

(* A call takes a free slot; a user who is being worked on is noted.       *)
Calls(r) ==
  /\ req' \in [Reqs -> Handlers]
  /\ \A x \in Reqs \ {r} : req'[x] = req[x]
  /\ HandlerOK(req'[r])
  /\ req'[r].at \notin PastRead
  /\ overlapped \subseteq overlapped' /\ overlapped' \subseteq Users
  /\ req'[r].op \in RowOps => req'[r].user \in overlapped' \/ ~Busy(req'[r].user)
  /\ UNCHANGED <<Tables, Locks>>

LEMMA StartCalls ==
  ASSUME TypeOK, NEW r \in Reqs, NEW op \in OpNames, NEW step \in {"readPoll", "assertOwner"},
         NEW u \in Users \union {None}, NEW o \in Options \union {None},
         NEW g \in SUBSET Users, NEW f \in BOOLEAN,
         Start(r, op, step, u, o, g, f),
         step = "readPoll" => op \in RowOps,
         IF op \in RowOps THEN u \in Users /\ Overlap(u) ELSE UNCHANGED overlapped
  PROVE  Calls(r)
  <1> DEFINE h == [op |-> op, at |-> step, user |-> u, option |-> o, group |-> g,
                   flag |-> f, allow |-> FALSE, seen |-> NoRow]
  <1>1. h \in Handlers /\ h.op = op /\ h.at = step /\ h.user = u
    BY RowTypes DEF Handlers, Steps
  <1>2. req' = [req EXCEPT ![r] = h] /\ UNCHANGED <<Tables, Locks>>
    BY DEF Start
  <1> HIDE DEF h
  <1>3. req'[r] = h /\ (\A x \in Reqs \ {r} : req'[x] = req[x]) /\ req' \in [Reqs -> Handlers]
    BY <1>1, <1>2 DEF TypeOK
  <1>4. HandlerOK(h) /\ h.at \notin PastRead
    BY <1>1 DEF HandlerOK, PastRead
  <1>5. /\ overlapped \subseteq overlapped' /\ overlapped' \subseteq Users
        /\ op \in RowOps => u \in overlapped' \/ ~Busy(u)
    <2>1. CASE op \in RowOps
      <3>1. u \in Users /\ overlapped' = IF Busy(u) THEN overlapped \union {u} ELSE overlapped
        BY <2>1 DEF Overlap
      <3> QED BY <3>1 DEF TypeOK
    <2>2. CASE op \notin RowOps
      BY <2>2 DEF TypeOK
    <2> QED BY <2>1, <2>2
  <1> QED BY <1>1, <1>2, <1>3, <1>4, <1>5 DEF Calls

LEMMA CallCalls ==
  ASSUME TypeOK, NEW r \in Reqs, Call(r)
  PROVE  Calls(r)
  <1> USE DEF OpNames, RowOps, OwnerOps
  <1>1. CASE StartVote(r)
    BY <1>1, StartCalls DEF StartVote
  <1>2. CASE StartRetractVote(r)
    BY <1>2, StartCalls DEF StartRetractVote
  <1>3. CASE StartRemoveParticipant(r)
    BY <1>3, StartCalls DEF StartRemoveParticipant
  <1>4. CASE StartAddParticipants(r)
    <2>1. PICK g \in SUBSET Users :
            Start(r, "add", "assertOwner", None, None, g, FALSE) /\ UNCHANGED overlapped
      BY <1>4 DEF StartAddParticipants
    <2> QED BY <2>1, StartCalls
  <1>5. CASE StartUpdatePoll(r)
    <2>1. PICK f \in BOOLEAN :
            Start(r, "update", "assertOwner", None, None, {}, f) /\ UNCHANGED overlapped
      BY <1>5 DEF StartUpdatePoll
    <2> QED BY <2>1, StartCalls
  <1>6. CASE StartDeletePoll(r)
    BY <1>6, StartCalls DEF StartDeletePoll
  <1> QED BY <1>1, <1>2, <1>3, <1>4, <1>5, <1>6 DEF Call

------------------------------------------------------------------------------
(* The tables *)

(* Taking a member out of a set, putting one in.                           *)
LEMMA CardinalityStep ==
  ASSUME NEW S, NEW T, NEW u, IsFiniteSet(S), IsFiniteSet(T), S \ {u} = T \ {u}
  PROVE  Cardinality(T) = Cardinality(S) - (IF u \in S THEN 1 ELSE 0) + (IF u \in T THEN 1 ELSE 0)
  <1>1. Cardinality(S \ {u}) = IF u \in S THEN Cardinality(S) - 1 ELSE Cardinality(S)
    BY FS_RemoveElement
  <1>2. Cardinality(T \ {u}) = IF u \in T THEN Cardinality(T) - 1 ELSE Cardinality(T)
    BY FS_RemoveElement
  <1>3. Cardinality(S) \in Nat /\ Cardinality(T) \in Nat
    BY FS_CardinalityType
  <1> QED BY <1>1, <1>2, <1>3

LEMMA VotersFinite ==
  ASSUME NEW o \in Options
  PROVE  IsFiniteSet(Voters(o)) /\ IsFiniteSet(Voters(o)')
  BY PollAssumption, FS_Subset DEF Voters

(* What an operation writes is a row with the vote it made, if it made one. *)
LEMMA WrittenType ==
  ASSUME NEW h \in Handlers, h.op = "vote" => h.option \in Options
  PROVE  /\ Written(h) \in Rows
         /\ Written(h).done <=> h.op = "vote"
         /\ Written(h).done <=> Written(h).choice # None
         /\ Written(h).done => Written(h).here /\ Written(h).choice = h.option
  <1>1. CASE h.op = "vote"
    BY <1>1, PollAssumption DEF Written, Rows
  <1>2. CASE h.op = "retract"
    BY <1>2, RowTypes DEF Written, NewRow
  <1>3. CASE h.op \notin {"vote", "retract"}
    BY <1>3, RowTypes DEF Written, NoRow
  <1> QED BY <1>1, <1>2, <1>3

(* What a step may do to the rows and counters: nothing, the commit of a   *)
(* handler, or new rows for users who have none.                           *)
Committed(r) ==
  /\ req[r].at = "commit" /\ req'[r] = Idle
  /\ row' = [row EXCEPT ![req[r].user] = Written(req[r])]
  /\ chosen' = [o \in Options |-> chosen[o] - Lost(req[r], o) + Gained(req[r], o)]

Inserted(g) ==
  /\ \A u \in g : ~row[u].here
  /\ row' = [u \in Users |-> IF u \in g THEN NewRow ELSE row[u]]
  /\ UNCHANGED chosen

LEMMA TableEffect ==
  ASSUME TypeOK, NEW r \in Reqs, Statement(r) \/ Rollback(r)
  PROVE  /\ UNCHANGED <<row, chosen>> \/ Committed(r) \/ \E g : Inserted(g)
         /\ poll' \in Polls
         /\ UNCHANGED overlapped
  <1>0. poll \in Polls
    BY DEF TypeOK
  <1>1. CASE Commit(r)
    BY <1>0, <1>1 DEF Commit, At, Finish, TypeOK, Committed
  <1>2. CASE InsertRows(r)
    BY <1>0, <1>2 DEF InsertRows, Inserted
  <1>3. CASE SetPoll(r)
    <2>1. req[r].flag \in BOOLEAN
      BY DEF TypeOK, Handlers
    <2>2. [poll EXCEPT !.deleted = TRUE] \in Polls /\ [poll EXCEPT !.allowVoteChange = req[r].flag] \in Polls
      BY <1>0, <2>1 DEF Polls
    <2> QED BY <1>3, <2>2 DEF SetPoll
  <1>4. CASE UNCHANGED Tables /\ UNCHANGED overlapped
    BY <1>0, <1>4 DEF Tables
  <1>5. CASE Rollback(r)
    BY <1>4, <1>5 DEF Rollback
  <1>6. CASE ReadPoll(r) \/ AssertPollOwner(r) \/ ReadRow(r) \/ ReadExisting(r)
    BY <1>4, <1>6 DEF ReadPoll, AssertPollOwner, ReadRow, ReadExisting
  <1>7. CASE DecrementOld(r) \/ IncrementNew(r) \/ WriteRow(r)
    BY <1>4, <1>7 DEF DecrementOld, IncrementNew, WriteRow
  <1> QED BY <1>1, <1>2, <1>3, <1>5, <1>6, <1>7 DEF Statement

(* The rows stay rows.                                                     *)
LEMMA RowsPreserved ==
  ASSUME TypeOK, ControlOK, RowOK, NEW r \in Reqs,
         UNCHANGED <<row, chosen>> \/ Committed(r) \/ \E g : Inserted(g)
  PROVE  /\ row' \in [Users -> Rows]
         /\ \A u \in Users : row'[u].done <=> row'[u].choice # None
         /\ \A u \in Users : row'[u].done => row'[u].here
         /\ chosen' \in [Options -> Int]
  <1>1. CASE UNCHANGED <<row, chosen>>
    BY <1>1 DEF TypeOK, RowOK
  <1>2. CASE Committed(r)
    <2>1. req[r] \in Handlers /\ req[r].user \in Users
          /\ (req[r].op = "vote" => req[r].option \in Options)
      BY <1>2 DEF Committed, TypeOK, ControlOK, HandlerOK, PastRead
    <2>2. row' = [row EXCEPT ![req[r].user] = Written(req[r])]
      BY <1>2 DEF Committed
    <2>3. \A o \in Options : Lost(req[r], o) \in {0, 1} /\ Gained(req[r], o) \in {0, 1}
      BY DEF Lost, Gained
    <2>4. chosen' \in [Options -> Int]
      BY <1>2, <2>3 DEF Committed, TypeOK
    <2>5. /\ Written(req[r]) \in Rows
          /\ Written(req[r]).done <=> Written(req[r]).choice # None
          /\ Written(req[r]).done => Written(req[r]).here
      BY <2>1, WrittenType
    <2> QED BY <2>1, <2>2, <2>4, <2>5 DEF TypeOK, RowOK
  <1>3. CASE \E g : Inserted(g)
    <2>1. NewRow.done = FALSE /\ NewRow.choice = None
      BY DEF NewRow
    <2> QED BY <1>3, <2>1, RowTypes DEF Inserted, TypeOK, RowOK
  <1> QED BY <1>1, <1>2, <1>3

(* The counters stay right.                                                *)
LEMMA TallyPreserved ==
  ASSUME IInv, NEW r \in Reqs, overlapped = {},
         UNCHANGED <<row, chosen>> \/ Committed(r) \/ \E g : Inserted(g),
         NEW o \in Options
  PROVE  chosen'[o] = Cardinality(Voters(o)')
  <1>0. chosen[o] = Cardinality(Voters(o)) /\ TypeOK
    BY DEF IInv, TallyExact
  <1>1. CASE UNCHANGED <<row, chosen>>
    BY <1>0, <1>1 DEF Voters
  <1>2. CASE Committed(r)
    <2> DEFINE h == req[r]
               u == req[r].user
    <2>1. /\ h \in Handlers /\ u \in Users
          /\ row[u] = h.seen /\ h.seen.here
          /\ h.op = "vote" => h.option \in Options
      BY <1>2 DEF IInv, Committed, TypeOK, ControlOK, HandlerOK, Fresh, PastRead
    <2>2. row' = [row EXCEPT ![u] = Written(h)] /\ row \in [Users -> Rows]
      BY <1>2, <1>0 DEF Committed, TypeOK
    <2>3. chosen'[o] = chosen[o] - Lost(h, o) + Gained(h, o)
      BY <1>2 DEF Committed
    <2>4. /\ Written(h).done <=> h.op = "vote"
          /\ Written(h).done => Written(h).here /\ Written(h).choice = h.option
      BY <2>1, WrittenType
    <2> HIDE DEF h, u
    <2>5. Voters(o) \ {u} = Voters(o)' \ {u}
      BY <2>1, <2>2 DEF Voters
    <2>6. (IF u \in Voters(o) THEN 1 ELSE 0) = Lost(h, o)
      BY <2>1 DEF Voters, Lost
    <2>7. (IF u \in Voters(o)' THEN 1 ELSE 0) = Gained(h, o)
      BY <2>1, <2>2, <2>4 DEF Voters, Gained
    <2>8. Cardinality(Voters(o)') = Cardinality(Voters(o)) - Lost(h, o) + Gained(h, o)
      BY <2>5, <2>6, <2>7, VotersFinite, CardinalityStep
    <2> QED BY <1>0, <2>3, <2>8
  <1>3. CASE \E g : Inserted(g)
    <2>1. PICK g : Inserted(g)
      BY <1>3
    <2>2. NewRow.done = FALSE
      BY DEF NewRow
    <2>3. Voters(o)' = Voters(o)
      BY <2>1, <2>2 DEF Voters, Inserted
    <2> QED BY <1>0, <2>1, <2>3 DEF Inserted
  <1> QED BY <1>1, <1>2, <1>3

(* What the handlers at work have read stays current.                      *)
LEMMA FreshPreserved ==
  ASSUME IInv, NEW r \in Reqs, Advances(r), UNCHANGED overlapped,
         UNCHANGED <<row, chosen>> \/ Committed(r) \/ \E g : Inserted(g)
  PROVE  Fresh'
  <1> SUFFICES ASSUME NEW x \in Reqs, req'[x].at \in PastRead, req'[x].user \notin overlapped
               PROVE  row'[req'[x].user] = req'[x].seen /\ req'[x].seen.here
    BY DEF Fresh
  <1> DEFINE u == req'[x].user
  <1>1. req'[x].op \in RowOps /\ u \in Users
    BY DEF Advances, HandlerOK, PastRead, IInv, ControlOK
  <1>2. row[u] = req'[x].seen /\ req'[x].seen.here
    <2>1. CASE x # r
      BY <2>1 DEF Advances, IInv, Fresh
    <2>2. CASE x = r
      BY <2>2, <1>1 DEF Advances, IInv, Fresh
    <2> QED BY <2>1, <2>2
  <1>3. row'[u] = row[u]
    <2>1. CASE UNCHANGED <<row, chosen>>
      BY <2>1
    <2>2. CASE Committed(r)
      <3>1. x # r
        BY <2>2, IdleOK DEF Committed
      <3>2. WorksOn(x, u) /\ WorksOn(r, req[r].user) /\ req[r].user \in Users
        BY <1>1, <2>2, <3>1 DEF WorksOn, Advances, Committed, IInv, ControlOK, HandlerOK, PastRead
      <3>3. u # req[r].user
        BY <1>1, <3>1, <3>2 DEF IInv, Solo
      <3> QED BY <1>1, <2>2, <3>2, <3>3 DEF Committed, IInv, TypeOK
    <2>3. CASE \E g : Inserted(g)
      BY <1>1, <1>2, <2>3 DEF Inserted
    <2> QED BY <2>1, <2>2, <2>3
  <1> QED BY <1>2, <1>3

------------------------------------------------------------------------------
(* The invariant *)

LEMMA Initially == Init => IInv
  <1> SUFFICES ASSUME Init PROVE IInv
    OBVIOUS
  <1>1. TypeOK
    <2>1. NoRow.done = FALSE /\ NoRow.choice = None
      BY DEF NoRow
    <2>2. poll \in Polls
      BY DEF Init, Polls
    <2>3. row \in [Users -> Rows] /\ \A u \in Users : row[u].done <=> row[u].choice # None
      BY <2>1, RowTypes DEF Init
    <2>4. chosen \in [Options -> Int] /\ req \in [Reqs -> Handlers]
      BY IdleOK DEF Init
    <2>5. /\ optionLock \in [Options -> Reqs \union {None}]
          /\ rowLock \in [Users -> Reqs \union {None}] /\ overlapped \in SUBSET Users
      BY DEF Init
    <2> QED BY <2>2, <2>3, <2>4, <2>5 DEF TypeOK
  <1>2. ControlOK
    BY IdleOK DEF Init, ControlOK
  <1>3. RowOK
    BY DEF Init, RowOK, NoRow
  <1>4. Solo
    BY IdleOK DEF Init, Solo, WorksOn
  <1>5. Fresh
    BY IdleOK DEF Init, Fresh
  <1>6. TallyExact
    <2> SUFFICES ASSUME NEW o \in Options PROVE chosen[o] = Cardinality(Voters(o))
      BY DEF TallyExact
    <2>1. Voters(o) = {}
      BY DEF Init, Voters, NoRow
    <2> QED BY <2>1, FS_EmptySet DEF Init
  <1> QED BY <1>1, <1>2, <1>3, <1>4, <1>5, <1>6 DEF IInv

LEMMA CallPreserves ==
  ASSUME IInv, NEW r \in Reqs, Call(r)
  PROVE  IInv'
  <1>0. Calls(r) /\ TypeOK
    BY CallCalls DEF IInv
  <1>1. UNCHANGED <<poll, row, chosen, optionLock, rowLock>>
    BY <1>0 DEF Calls, Tables, Locks
  <1>2. TypeOK'
    BY <1>0, <1>1 DEF Calls, TypeOK
  <1>3. ControlOK'
    BY <1>0 DEF Calls, ControlOK, IInv
  <1>4. RowOK'
    BY <1>1 DEF RowOK, IInv
  <1>5. Solo'
    BY <1>0 DEF Calls, Solo, WorksOn, IInv, Busy
  <1>6. Fresh'
    BY <1>0, <1>1 DEF Calls, Fresh, IInv
  <1>7. TallyExact'
    BY <1>0, <1>1 DEF Calls, TallyExact, IInv, Voters
  <1> QED BY <1>2, <1>3, <1>4, <1>5, <1>6, <1>7 DEF IInv

LEMMA StatementPreserves ==
  ASSUME IInv, NEW r \in Reqs, Statement(r) \/ Rollback(r)
  PROVE  IInv'
  <1>0. TypeOK /\ ControlOK /\ RowOK /\ Solo
    BY DEF IInv
  <1>1. Advances(r) /\ LocksOK
    BY <1>0, StatementAdvances
  <1>2. /\ UNCHANGED <<row, chosen>> \/ Committed(r) \/ \E g : Inserted(g)
        /\ poll' \in Polls /\ UNCHANGED overlapped
    BY <1>0, TableEffect
  <1>3. TypeOK' /\ RowOK'
    <2>1. /\ row' \in [Users -> Rows]
          /\ \A u \in Users : row'[u].done <=> row'[u].choice # None
          /\ \A u \in Users : row'[u].done => row'[u].here
          /\ chosen' \in [Options -> Int]
      BY <1>0, <1>2, RowsPreserved
    <2> QED BY <1>0, <1>1, <1>2, <2>1 DEF TypeOK, RowOK, LocksOK, Advances
  <1>4. ControlOK'
    BY <1>0, <1>1 DEF Advances, ControlOK
  <1>5. Solo'
    BY <1>0, <1>1, <1>2 DEF Advances, Solo, WorksOn
  <1>6. Fresh'
    BY <1>1, <1>2, FreshPreserved
  <1>7. TallyExact'
    BY <1>2, TallyPreserved DEF TallyExact
  <1> QED BY <1>3, <1>4, <1>5, <1>6, <1>7 DEF IInv

LEMMA NextPreserves == IInv /\ [Next]_vars => IInv'
  <1> SUFFICES ASSUME IInv, [Next]_vars PROVE IInv'
    OBVIOUS
  <1>1. CASE Next
    BY <1>1, CallPreserves, StatementPreserves DEF Next
  <1>2. CASE UNCHANGED vars
    BY <1>2 DEF vars, IInv, TypeOK, ControlOK, RowOK, Solo, WorksOn, Fresh, TallyExact, Voters
  <1> QED BY <1>1, <1>2

THEOREM Invariance == Spec => []IInv
  BY Initially, NextPreserves, PTL DEF Spec

(* The rows, counters and locks keep their types (createPoll and every     *)
(* handler of polls.service.ts).                                           *)
THEOREM TypeCorrect == Spec => []TypeOK
  <1>1. IInv => TypeOK
    BY DEF IInv
  <1> QED BY <1>1, Invariance, PTL

(* The counters of the options are the votes of the participants as long   *)
(* as no two handlers work on one user's vote at a time (vote, retractVote *)
(* and removeParticipant).                                                 *)
THEOREM TalliesAreExact == Spec => []TallyExact
  <1>1. IInv => TallyExact
    BY DEF IInv
  <1> QED BY <1>1, Invariance, PTL

(* A recorded vote is touched only by the removal of its participant or by *)
(* a handler that read allowVoteChange as true (vote, retractVote).        *)
THEOREM VotesStand == Spec => RecordedVotesStand
  <1> DEFINE Stands == \A u \in Users \ overlapped :
       (row[u].done /\ row'[u] # row[u]) =>
         \E r \in Reqs : req[r].user = u /\ (req[r].op = "remove" \/ req[r].allow)
  <1>1. IInv /\ [Next]_vars => [Stands]_vars
    <2> SUFFICES ASSUME IInv, Next, NEW u \in Users \ overlapped,
                        row[u].done, row'[u] # row[u]
                 PROVE  \E r \in Reqs : req[r].user = u /\ (req[r].op = "remove" \/ req[r].allow)
      BY DEF vars
    <2>0. TypeOK /\ ControlOK /\ RowOK /\ Fresh
      BY DEF IInv
    <2>1. PICK r \in Reqs : Call(r) \/ Statement(r) \/ Rollback(r)
      BY DEF Next
    <2>2. ~Call(r)
      BY <2>0, CallCalls DEF Calls, Tables
    <2>3. Committed(r) \/ \E g : Inserted(g)
      BY <2>0, <2>1, <2>2, TableEffect
    <2>4. ~\E g : Inserted(g)
      BY <2>0 DEF Inserted, RowOK
    <2>5. Committed(r)
      BY <2>3, <2>4
    <2>6. req[r].user = u
      BY <2>0, <2>5 DEF Committed, TypeOK
    <2>7. /\ req[r].op \in RowOps /\ row[u] = req[r].seen
          /\ req[r].op = "vote" => req[r].allow
          /\ req[r].op = "retract" => req[r].allow
      BY <2>0, <2>5, <2>6 DEF Committed, ControlOK, HandlerOK, Fresh, PastRead
    <2> QED BY <2>6, <2>7 DEF RowOps
  <1>2. Spec => [][Stands]_vars
    BY <1>1, Invariance, PTL DEF Spec
  <1> QED BY <1>2 DEF RecordedVotesStand
------------------------------------------------------------------------------
(* Locks *)

(* Who holds an option's row has counted its old vote down, or the new one *)
(* up; who holds a participant's row is about to commit.                   *)
HoldsFit(x) ==
  /\ \A o \in Options : optionLock[o] = x =>
       /\ req[x].at \in {"increment", "writeRow", "commit"}
       /\ req[x].at = "increment" => req[x].seen.done /\ req[x].seen.choice = o
  /\ \A u \in Users : rowLock[u] = x => req[x].at = "commit"
  /\ req[x].at = "decrement" => req[x].seen.done

LocksFit == \A x \in Reqs : HoldsFit(x)

LEMMA OthersHold ==
  ASSUME IInv, LocksFit, NEW r \in Reqs,
         \A x \in Reqs \ {r} : req'[x] = req[x],
         \A o \in Options : optionLock'[o] \in {optionLock[o], r, None},
         \A u \in Users : rowLock'[u] \in {rowLock[u], r, None},
         HoldsFit(r)'
  PROVE  LocksFit'
  <1>1. ASSUME NEW x \in Reqs, x # r PROVE HoldsFit(x)'
    <2>1. x # None /\ req'[x] = req[x] /\ HoldsFit(x)
      BY <1>1, PollAssumption DEF LocksFit
    <2> QED BY <1>1, <2>1 DEF HoldsFit
  <1> QED BY <1>1 DEF LocksFit

LEMMA FinishFrees ==
  ASSUME IInv, LocksFit, NEW r \in Reqs, Finish(r)
  PROVE  LocksFit'
  <1>0. /\ req \in [Reqs -> Handlers] /\ optionLock \in [Options -> Reqs \union {None}]
        /\ rowLock \in [Users -> Reqs \union {None}] /\ r # None
    BY PollAssumption DEF IInv, TypeOK
  <1>1. req'[r] = Idle /\ \A x \in Reqs \ {r} : req'[x] = req[x]
    BY <1>0 DEF Finish
  <1>2. /\ \A o \in Options : optionLock'[o] \in {optionLock[o], None} /\ optionLock'[o] # r
        /\ \A u \in Users : rowLock'[u] \in {rowLock[u], None} /\ rowLock'[u] # r
    BY <1>0 DEF Finish, Release
  <1>3. HoldsFit(r)'
    BY <1>1, <1>2 DEF HoldsFit, Idle
  <1> QED BY <1>1, <1>2, <1>3, OthersHold

(* A statement that takes no lock of an option, and comes before the lock  *)
(* of the participant.                                                     *)
LEMMA MovesFit ==
  ASSUME IInv, LocksFit, NEW r \in Reqs, UNCHANGED Locks,
         req[r].at \in {"idle", "readPoll", "readRow", "assertOwner", "readExisting"},
         \A x \in Reqs \ {r} : req'[x] = req[x],
         req'[r].at = "decrement" => req'[r].seen.done
  PROVE  LocksFit'
  <1>1. HoldsFit(r) /\ UNCHANGED <<optionLock, rowLock>>
    BY DEF LocksFit, Locks
  <1>2. /\ \A o \in Options : optionLock[o] # r
        /\ \A u \in Users : rowLock[u] # r
    BY <1>1 DEF HoldsFit
  <1>3. HoldsFit(r)'
    BY <1>1, <1>2 DEF HoldsFit
  <1> QED BY <1>1, <1>3, OthersHold

LEMMA CallsFit == ASSUME IInv, LocksFit, NEW r \in Reqs, Call(r) PROVE LocksFit'
  <1>1. /\ \A x \in Reqs \ {r} : req'[x] = req[x]
        /\ req'[r].at \notin PastRead /\ UNCHANGED Locks
    BY CallCalls DEF IInv, Calls
  <1>2. req[r] = Idle
    BY DEF Call, Start, StartVote, StartRetractVote, StartRemoveParticipant,
           StartAddParticipants, StartUpdatePoll, StartDeletePoll
  <1> QED BY <1>1, <1>2, MovesFit DEF Idle, PastRead

LEMMA StatementsFit ==
  ASSUME IInv, LocksFit, NEW r \in Reqs, Statement(r) \/ Rollback(r)
  PROVE  LocksFit'
  <1>0. /\ req \in [Reqs -> Handlers] /\ req[r] \in Handlers /\ HandlerOK(req[r])
        /\ optionLock \in [Options -> Reqs \union {None}]
        /\ rowLock \in [Users -> Reqs \union {None}] /\ r # None
        /\ HoldsFit(r)
    BY PollAssumption DEF IInv, TypeOK, ControlOK, LocksFit
  <1>1. \A x \in Reqs \ {r} : req'[x] = req[x]
    BY StatementAdvances DEF IInv, Advances
  <1>2. ASSUME Finish(r) PROVE LocksFit'
    BY <1>2, FinishFrees
  <1>3. CASE ReadPoll(r)
    <2>1. CASE ~poll.deleted
      <3>1. /\ req' = [req EXCEPT ![r].at = "readRow", ![r].allow = poll.allowVoteChange]
            /\ UNCHANGED Locks
        BY <1>3, <2>1 DEF ReadPoll
      <3>2. req'[r].at = "readRow"
        BY <1>0, <3>1 DEF Handlers
      <3> QED BY <1>1, <1>3, <3>1, <3>2, MovesFit DEF ReadPoll, At
    <2> QED BY <1>2, <1>3, <2>1 DEF ReadPoll
  <1>4. CASE AssertPollOwner(r)
    <2>1. CASE ~poll.deleted
      <3> DEFINE step == CASE req[r].op = "remove" -> "readRow"
                           [] req[r].op = "add" -> "readExisting"
                           [] OTHER -> "setPoll"
      <3>1. Goto(r, step) /\ UNCHANGED Locks
        BY <1>4, <2>1 DEF AssertPollOwner
      <3>2. step # "decrement"
        OBVIOUS
      <3> HIDE DEF step
      <3>3. req'[r].at = step
        BY <1>0, <3>1 DEF Goto, Handlers
      <3> QED BY <1>1, <1>4, <3>1, <3>2, <3>3, MovesFit DEF AssertPollOwner, At
    <2> QED BY <1>2, <1>4, <2>1 DEF AssertPollOwner
  <1>5. CASE ReadRow(r)
    <2> DEFINE p == row[req[r].user]
    <2>1. CASE ~Refused(req[r], p)
      <3>1. /\ UNCHANGED Locks
            /\ req' = [req EXCEPT ![r].seen = p,
                      ![r].at = CASE p.done /\ p.choice # None -> "decrement"
                                  [] req[r].op = "vote" -> "increment"
                                  [] OTHER -> "writeRow"]
        BY <1>5, <2>1 DEF ReadRow
      <3>2. /\ req'[r].seen = p
            /\ req'[r].at = CASE p.done /\ p.choice # None -> "decrement"
                              [] req[r].op = "vote" -> "increment"
                              [] OTHER -> "writeRow"
        BY <1>0, <3>1 DEF Handlers
      <3>3. req'[r].at = "decrement" => req'[r].seen.done
        BY <3>2
      <3> QED BY <1>1, <1>5, <3>1, <3>3, MovesFit DEF ReadRow, At
    <2> QED BY <1>2, <1>5, <2>1 DEF ReadRow
  <1>6. CASE ReadExisting(r)
    <2> DEFINE new == {u \in req[r].group : ~row[u].here}
    <2>1. CASE new # {}
      <3>1. req' = [req EXCEPT ![r].group = new, ![r].at = "insertRows"] /\ UNCHANGED Locks
        BY <1>6, <2>1 DEF ReadExisting
      <3>2. req'[r].at = "insertRows"
        BY <1>0, <3>1 DEF Handlers
      <3> QED BY <1>1, <1>6, <3>1, <3>2, MovesFit DEF ReadExisting, At
    <2> QED BY <1>2, <1>6, <2>1 DEF ReadExisting
  <1>7. ASSUME NEW o \in Options, TakeOption(r, o),
               \/ req[r].at = "decrement" /\ o = req[r].seen.choice
               \/ req[r].at = "increment",
               NEW step \in {"increment", "writeRow"}, Goto(r, step),
               step = "increment" => req[r].at = "decrement"
        PROVE  LocksFit'
    <2>1. req'[r].at = step /\ req'[r].seen = req[r].seen
      BY <1>0, <1>7 DEF Goto, Handlers
    <2>2. optionLock' = [optionLock EXCEPT ![o] = r] /\ rowLock' = rowLock
      BY <1>7 DEF TakeOption
    <2>3. \A u \in Users : rowLock[u] # r
      BY <1>0, <1>7 DEF HoldsFit
    <2>4. req[r].at = "decrement" => \A w \in Options : optionLock[w] # r
      BY <1>0 DEF HoldsFit
    <2>5. HoldsFit(r)'
      BY <1>0, <1>7, <2>1, <2>2, <2>3, <2>4 DEF HoldsFit
    <2>6. /\ \A w \in Options : optionLock'[w] \in {optionLock[w], r, None}
          /\ \A u \in Users : rowLock'[u] \in {rowLock[u], r, None}
      BY <1>0, <2>2
    <2> QED BY <1>1, <2>5, <2>6, OthersHold
  <1>8. CASE DecrementOld(r)
    <2>1. req[r].at = "decrement" /\ req[r].seen.choice \in Options
      BY <1>0, <1>8 DEF DecrementOld, At, HandlerOK, Handlers, Rows
    <2> QED BY <1>7, <1>8, <2>1 DEF DecrementOld
  <1>9. CASE IncrementNew(r)
    <2>1. req[r].at = "increment" /\ req[r].option \in Options
      BY <1>0, <1>9 DEF IncrementNew, At, HandlerOK, PastRead
    <2> QED BY <1>7, <1>9, <2>1 DEF IncrementNew
  <1>10. CASE WriteRow(r)
    <2>1. CASE row[req[r].user].here
      <3>1. /\ rowLock' = [rowLock EXCEPT ![req[r].user] = r] /\ Goto(r, "commit")
            /\ UNCHANGED optionLock
        BY <1>10, <2>1 DEF WriteRow
      <3>2. req'[r].at = "commit"
        BY <1>0, <3>1 DEF Goto
      <3>3. HoldsFit(r)'
        BY <3>2 DEF HoldsFit
      <3>4. /\ \A w \in Options : optionLock'[w] \in {optionLock[w], r, None}
            /\ \A u \in Users : rowLock'[u] \in {rowLock[u], r, None}
        BY <1>0, <3>1
      <3> QED BY <1>1, <3>3, <3>4, OthersHold
    <2> QED BY <1>2, <1>10, <2>1 DEF WriteRow
  <1>11. CASE Commit(r) \/ InsertRows(r) \/ SetPoll(r) \/ Rollback(r)
    BY <1>2, <1>11 DEF Commit, InsertRows, SetPoll, Rollback
  <1> QED BY <1>3, <1>4, <1>5, <1>6, <1>8, <1>9, <1>10, <1>11 DEF Statement

LEMMA LocksAreHeld == Spec => [](IInv /\ LocksFit)
  <1>1. Init => LocksFit
    <2> SUFFICES ASSUME Init, NEW x \in Reqs PROVE HoldsFit(x)
      BY DEF LocksFit
    <2> QED BY PollAssumption DEF Init, HoldsFit, Idle
  <1>2. IInv /\ LocksFit /\ [Next]_vars => LocksFit'
    <2> SUFFICES ASSUME IInv, LocksFit, [Next]_vars PROVE LocksFit'
      OBVIOUS
    <2>1. CASE UNCHANGED vars
      BY <2>1 DEF vars, LocksFit, HoldsFit
    <2> QED BY <2>1, CallsFit, StatementsFit DEF Next
  <1> QED BY <1>1, <1>2, Initially, NextPreserves, PTL DEF Spec

------------------------------------------------------------------------------
(* Waits *)

(* The guards of the next statement of a handler hold.                     *)
CanGo(r) ==
  /\ req[r] # Idle
  /\ Blocker(r) \in {None, r}
  /\ At(r, "insertRows") => InsertDecided(r)

(* Whose transactions that statement waits for.                            *)
WaitsFor(r) ==
  {x \in Reqs : \/ Blocker(r) = x /\ x # r
                \/ At(r, "insertRows") /\ \E u \in req[r].group : rowLock[u] = x}

(* Handler r goes on, or among those it waits for, directly or in turn, is *)
(* one that does, or one in a cycle that the database breaks.              *)
ComesToAnEnd(r) ==
  \A T \in SUBSET Reqs :
    (r \in T /\ \A x \in T : WaitsFor(x) \subseteq T) => \E x \in T : CanGo(x) \/ Deadlocked(x)

(* Handler x changes a vote: it holds the row of the old option and is     *)
(* about to write that of the new one.                                     *)
ChangesVote(x) ==
  /\ req[x].op = "vote" /\ At(x, "increment")
  /\ req[x].seen.done /\ req[x].allow
  /\ optionLock[req[x].seen.choice] = x

(* Where a cycle of waits is, there is one of changes of votes.            *)
CycleOfChanges(r) ==
  Deadlocked(r) =>
    \E S \in SUBSET Reqs : S # {} /\ \A x \in S : ChangesVote(x) /\ Blocker(x) \in S \ {x}

(* What a handler waits for is held by a handler in flight, past its       *)
(* reads; one that waits for a participant is the last but one.            *)
LEMMA Blocked ==
  ASSUME IInv, LocksFit, NEW r \in Reqs, NEW b, b = Blocker(r), b # None
  PROVE  /\ b \in Reqs /\ req[b].at \in {"increment", "writeRow", "commit"}
         /\ At(r, "writeRow") => req[b].at = "commit"
         /\ ~At(r, "writeRow") => \E o \in Options : optionLock[o] = b
  <1>0. /\ HandlerOK(req[r]) /\ req[r] \in Handlers
        /\ optionLock \in [Options -> Reqs \union {None}]
        /\ rowLock \in [Users -> Reqs \union {None}]
    BY DEF IInv, TypeOK, ControlOK
  <1>1. ASSUME NEW o \in Options, b = optionLock[o]
        PROVE  b \in Reqs /\ req[b].at \in {"increment", "writeRow", "commit"}
    BY <1>0, <1>1 DEF LocksFit, HoldsFit
  <1>2. CASE At(r, "decrement")
    <2>1. b = optionLock[req[r].seen.choice] /\ req[r].seen.choice \in Options
      BY <1>0, <1>2 DEF Blocker, At, HandlerOK, Handlers, Rows
    <2> QED BY <1>1, <1>2, <2>1 DEF At
  <1>3. CASE At(r, "increment")
    <2>1. b = optionLock[req[r].option] /\ req[r].option \in Options
      BY <1>0, <1>3 DEF Blocker, At, HandlerOK, PastRead
    <2> QED BY <1>1, <1>3, <2>1 DEF At
  <1>4. CASE At(r, "writeRow")
    <2>1. b = rowLock[req[r].user] /\ req[r].user \in Users
      BY <1>0, <1>4 DEF Blocker, At, HandlerOK, PastRead
    <2> QED BY <1>0, <1>4, <2>1 DEF LocksFit, HoldsFit
  <1> QED BY <1>2, <1>3, <1>4 DEF Blocker

LEMMA WaitsEnd ==
  ASSUME IInv, LocksFit, NEW r \in Reqs, req[r] # Idle
  PROVE  ComesToAnEnd(r)
  <1> SUFFICES ASSUME NEW T \in SUBSET Reqs, r \in T, \A x \in T : WaitsFor(x) \subseteq T,
                      \A x \in T : ~CanGo(x)
               PROVE  \E x \in T : Deadlocked(x)
    BY DEF ComesToAnEnd
  <1> DEFINE S == {x \in T : Blocker(x) \notin {None, x}}
  <1>1. ASSUME NEW x \in S PROVE Blocker(x) \in S \ {x}
    <2> DEFINE b == Blocker(x)
    <2>1. b # None /\ b # x /\ x \in T
      BY <1>1
    <2>2. b \in Reqs /\ req[b].at \in {"increment", "writeRow", "commit"}
      BY <2>1, Blocked
    <2>3. b \in T
      BY <2>1, <2>2 DEF WaitsFor
    <2>4. req[b] # Idle /\ ~At(b, "insertRows")
      BY <2>2 DEF Idle, At
    <2>5. Blocker(b) \notin {None, b}
      BY <2>3, <2>4 DEF CanGo
    <2> QED BY <2>1, <2>3, <2>5
  <1>2. S # {}
    <2>1. CASE Blocker(r) \notin {None, r}
      BY <2>1
    <2>2. CASE At(r, "insertRows") /\ ~InsertDecided(r)
      <3>1. PICK u \in req[r].group : rowLock[u] # None
        BY <2>2 DEF InsertDecided
      <3>2. req[r].group \subseteq Users /\ rowLock \in [Users -> Reqs \union {None}]
        BY DEF IInv, TypeOK, Handlers
      <3>3. PICK x \in Reqs : rowLock[u] = x
        BY <3>1, <3>2
      <3>4. x \in T
        BY <2>2, <3>1, <3>3 DEF WaitsFor
      <3>5. req[x].at = "commit"
        BY <3>2, <3>3 DEF LocksFit, HoldsFit
      <3>6. CanGo(x)
        BY <3>5 DEF CanGo, Blocker, At, Idle
      <3> QED BY <3>4, <3>6
    <2> QED BY <2>1, <2>2 DEF CanGo
  <1>3. S \in SUBSET Reqs
    OBVIOUS
  <1>4. PICK x \in S : TRUE
    BY <1>2
  <1>5. Deadlocked(x) /\ x \in T
    BY <1>1, <1>3, <1>4 DEF Deadlocked
  <1> QED BY <1>5

LEMMA CyclesChange ==
  ASSUME IInv, LocksFit, NEW r \in Reqs
  PROVE  CycleOfChanges(r)
  <1> SUFFICES ASSUME Deadlocked(r)
               PROVE  \E S \in SUBSET Reqs :
                        S # {} /\ \A x \in S : ChangesVote(x) /\ Blocker(x) \in S \ {x}
    BY DEF CycleOfChanges
  <1>1. PICK D \in SUBSET Reqs : r \in D /\ \A x \in D : Blocker(x) \in D \ {x}
    BY DEF Deadlocked
  <1> DEFINE S == {x \in D : \E y \in D : Blocker(y) = x}
  <1>2. ASSUME NEW x \in S PROVE ChangesVote(x) /\ Blocker(x) \in S \ {x}
    <2>0. None \notin Reqs /\ x \in Reqs /\ x \in D
      BY <1>1, PollAssumption
    <2>1. PICK y \in D : Blocker(y) = x
      BY <1>2
    <2>2. Blocker(x) \in D \ {x} /\ Blocker(x) # None
      BY <1>1, <2>0
    <2>3. req[x].at \in {"increment", "writeRow", "commit"}
      BY <2>0, <2>1, Blocked
    <2>4. req[x].at # "commit"
      BY <2>2 DEF Blocker, At
    <2>5. req[x].at # "writeRow"
      <3> SUFFICES ASSUME req[x].at = "writeRow" PROVE FALSE
        OBVIOUS
      <3>1. req[Blocker(x)].at = "commit" /\ Blocker(x) \in D
        BY <2>0, <2>2, Blocked DEF At
      <3>2. Blocker(Blocker(x)) = None
        BY <3>1 DEF Blocker, At
      <3> QED BY <1>1, <2>0, <3>1, <3>2
    <2>6. req[x].at = "increment"
      BY <2>3, <2>4, <2>5
    <2>7. ~At(y, "writeRow")
      BY <1>1, <2>0, <2>1, <2>6, Blocked
    <2>8. PICK o \in Options : optionLock[o] = x
      BY <1>1, <2>0, <2>1, <2>7, Blocked
    <2>9. req[x].seen.done /\ req[x].seen.choice = o
      BY <2>0, <2>6, <2>8 DEF LocksFit, HoldsFit
    <2>10. req[x].op = "vote" /\ req[x].allow
      BY <2>0, <2>6, <2>9 DEF IInv, ControlOK, HandlerOK, PastRead
    <2>11. ChangesVote(x)
      BY <2>6, <2>8, <2>9, <2>10 DEF ChangesVote, At
    <2> QED BY <2>0, <2>2, <2>11
  <1>3. Blocker(r) \in S
    BY <1>1
  <1>4. S \in SUBSET Reqs /\ S # {}
    BY <1>3
  <1> QED BY <1>2, <1>4

(* A lock is held by a handler that has taken it and is not done, so that  *)
(* whoever waits for a row waits, in the end, for a handler that goes on   *)
(* or for a cycle the database breaks; and there is a cycle only where     *)
(* voters change their votes, from each other's options.                   *)
THEOREM NobodyWaitsInVain ==
  Spec => [](\A r \in Reqs : (req[r] # Idle => ComesToAnEnd(r)) /\ CycleOfChanges(r))
  <1>1. IInv /\ LocksFit =>
          \A r \in Reqs : (req[r] # Idle => ComesToAnEnd(r)) /\ CycleOfChanges(r)
    BY WaitsEnd, CyclesChange
  <1> QED BY <1>1, LocksAreHeld, PTL

------------------------------------------------------------------------------
(* The order of the statements of every operation.                         *)
Place == [idle |-> 0, readPoll |-> 1, assertOwner |-> 1, readRow |-> 2, readExisting |-> 2,
          setPoll |-> 2, decrement |-> 3, increment |-> 4, writeRow |-> 5, commit |-> 6,
          insertRows |-> 6]

MovesOn(r) ==
  /\ Statement(r) => req'[r] = Idle \/ Place[req'[r].at] > Place[req[r].at]
  /\ ~Statement(r) => req'[r] \in {req[r], Idle}

LEMMA StatementsMoveOn ==
  ASSUME IInv, NEW r \in Reqs, Statement(r), req'[r] # Idle
  PROVE  Place[req'[r].at] > Place[req[r].at]
  <1>0. /\ req \in [Reqs -> Handlers] /\ req[r] \in Handlers
        /\ ~Finish(r)
    BY DEF IInv, TypeOK, Finish
  <1>1. ASSUME NEW step \in Steps, Goto(r, step) PROVE req'[r].at = step
    BY <1>0, <1>1 DEF Goto, Handlers
  <1>2. CASE ReadPoll(r)
    <2>1. req' = [req EXCEPT ![r].at = "readRow", ![r].allow = poll.allowVoteChange]
      BY <1>0, <1>2 DEF ReadPoll
    <2>2. req'[r].at = "readRow"
      BY <1>0, <2>1 DEF Handlers
    <2> QED BY <1>2, <2>2 DEF ReadPoll, At, Place
  <1>3. CASE AssertPollOwner(r)
    <2> DEFINE step == CASE req[r].op = "remove" -> "readRow"
                         [] req[r].op = "add" -> "readExisting"
                         [] OTHER -> "setPoll"
    <2>1. Goto(r, step)
      BY <1>0, <1>3 DEF AssertPollOwner
    <2>2. step \in {"readRow", "readExisting", "setPoll"}
      OBVIOUS
    <2> HIDE DEF step
    <2>3. req'[r].at = step
      BY <1>1, <2>1, <2>2 DEF Steps
    <2> QED BY <1>3, <2>2, <2>3 DEF AssertPollOwner, At, Place
  <1>4. CASE ReadRow(r)
    <2> DEFINE p == row[req[r].user]
               step == CASE p.done /\ p.choice # None -> "decrement"
                         [] req[r].op = "vote" -> "increment"
                         [] OTHER -> "writeRow"
    <2>1. req' = [req EXCEPT ![r].seen = p, ![r].at = step]
      BY <1>0, <1>4 DEF ReadRow
    <2>2. step \in {"decrement", "increment", "writeRow"}
      OBVIOUS
    <2> HIDE DEF step
    <2>3. req'[r].at = step
      BY <1>0, <2>1 DEF Handlers
    <2> QED BY <1>4, <2>2, <2>3 DEF ReadRow, At, Place
  <1>5. CASE DecrementOld(r)
    <2>1. req'[r].at \in {"increment", "writeRow"}
      BY <1>1, <1>5 DEF DecrementOld, Steps
    <2> QED BY <1>5, <2>1 DEF DecrementOld, At, Place
  <1>6. CASE IncrementNew(r)
    <2>1. req'[r].at = "writeRow"
      BY <1>1, <1>6 DEF IncrementNew, Steps
    <2> QED BY <1>6, <2>1 DEF IncrementNew, At, Place
  <1>7. CASE WriteRow(r)
    <2>1. req'[r].at = "commit"
      BY <1>0, <1>1, <1>7 DEF WriteRow, Steps
    <2> QED BY <1>7, <2>1 DEF WriteRow, At, Place
  <1>8. CASE ReadExisting(r)
    <2> DEFINE new == {u \in req[r].group : ~row[u].here}
    <2>1. req' = [req EXCEPT ![r].group = new, ![r].at = "insertRows"]
      BY <1>0, <1>8 DEF ReadExisting
    <2>2. req'[r].at = "insertRows"
      BY <1>0, <2>1 DEF Handlers
    <2> QED BY <1>8, <2>2 DEF ReadExisting, At, Place
  <1>9. CASE Commit(r) \/ InsertRows(r) \/ SetPoll(r)
    BY <1>0, <1>9 DEF Commit, InsertRows, SetPoll
  <1> QED BY <1>2, <1>3, <1>4, <1>5, <1>6, <1>7, <1>8, <1>9 DEF Statement

(* A handler has six statements at most: each brings it further or ends    *)
(* it, and nobody else's step takes it back.  With NobodyWaitsInVain this  *)
(* is what Answered needs besides fairness.                                *)
THEOREM HandlersMoveOn == Spec => [][\A r \in Reqs : req[r] # Idle => MovesOn(r)]_vars
  <1>1. IInv /\ [Next]_vars => [\A r \in Reqs : req[r] # Idle => MovesOn(r)]_vars
    <2> SUFFICES ASSUME IInv, Next, NEW r \in Reqs, req[r] # Idle PROVE MovesOn(r)
      OBVIOUS
    <2>1. PICK x \in Reqs : Call(x) \/ Statement(x) \/ Rollback(x)
      BY DEF Next
    <2>2. CASE Statement(r)
      BY <2>2, StatementsMoveOn DEF MovesOn
    <2>3. CASE ~Statement(r) /\ x # r
      <3>1. Calls(x) \/ Advances(x)
        BY <2>1, CallCalls, StatementAdvances DEF IInv
      <3> QED BY <2>3, <3>1 DEF MovesOn, Calls, Advances
    <2>4. CASE ~Statement(r) /\ x = r
      <3>1. Rollback(r)
        BY <2>1, <2>4 DEF Call, Start, StartVote, StartRetractVote, StartRemoveParticipant,
                          StartAddParticipants, StartUpdatePoll, StartDeletePoll
      <3>2. req'[r] = Idle
        BY <3>1 DEF Rollback, Finish, IInv, TypeOK
      <3> QED BY <2>4, <3>2 DEF MovesOn
    <2> QED BY <2>2, <2>3, <2>4
  <1> QED BY <1>1, Invariance, PTL DEF Spec
==============================================================================
