------------------------------- MODULE Events --------------------------------
(***************************************************************************)
(* One event (events.service.ts): when it takes place and who is invited,  *)
(* with the number and the confirmation of each.  Every statement that     *)
(* reaches the database is an action; the transaction of addParticipants   *)
(* is READ COMMITTED, so others' changes show between its statements.      *)
(*                                                                         *)
(* Requests of users who are not the event's creator, or not the named     *)
(* participant, change nothing and are left out, as are title, text,       *)
(* address and the notifications.                                          *)
(***************************************************************************)
EXTENDS Participation, Integers, FiniteSets

CONSTANTS
  Times,       \* the times an event is given
  Unchanged,   \* a time that an update leaves alone: undefined
  NumberBound  \* invitations fail once the highest number has passed it

ASSUME EventsAssumption ==
  /\ IsFiniteSet(Users)
  /\ Times \subseteq Nat /\ Unchanged \notin Nat /\ NumberBound \in Nat

VARIABLES
  event,       \* the Event: deletedAt, timeStart and timeEnd
  seat,        \* seat[u]: the EventParticipant of u, or NoSeat
  eventReq,    \* eventReq[h]: the request handler h works on
  timesRaced,  \* history: an update has written over times it had not read
  everRemoved  \* history: a participant has been removed

eventVars == <<event, seat, eventReq, timesRaced, everRemoved>>

NoSeat == [number |-> -1, confirmed |-> FALSE]

Seats == [number : Nat \ {0}, confirmed : BOOLEAN]

Seated == {u \in Users : seat[u] # NoSeat}

Numbers == {seat[u].number : u \in Seated}

(* _max.participantNumber ?? 0                                             *)
MaxNumber == IF Numbers = {} THEN 0
             ELSE CHOOSE n \in Numbers : \A m \in Numbers : m <= n

(* who: the users the request is about; from, to: the times it asks for;   *)
(* start, end: the times it has read; last: the highest number it has read.*)
NoEventReq == [op |-> "none", at |-> "idle", who |-> {}, from |-> Unchanged,
               to |-> Unchanged, start |-> 0, end |-> 0, last |-> 0, answer |-> FALSE]

EventReqs ==
  [op : {"none", "update", "delete", "add", "remove", "confirm"},
   at : {"idle", "allowed", "read", "numbered"}, who : SUBSET Users,
   from : Times \union {Unchanged}, to : Times \union {Unchanged},
   start : Nat, end : Nat, last : Nat, answer : BOOLEAN]

FinishEvent(h) == eventReq' = [eventReq EXCEPT ![h] = NoEventReq]

Merged(asked, stored) == IF asked = Unchanged THEN stored ELSE asked

------------------------------------------------------------------------------
(* A request arrives and reads the event: assertEventOwner, or the look at *)
(* the event of deleteEvent and confirmParticipant.                        *)
AssertEvent(h, op, S, from, to, answer) ==
  /\ op \in Ops
  /\ eventReq[h] = NoEventReq
  /\ eventReq' = IF event.deleted THEN eventReq
                 ELSE [eventReq EXCEPT ![h] =
                        [op |-> op, at |-> "allowed", who |-> S, from |-> from, to |-> to,
                         start |-> event.start, end |-> event.end, last |-> 0,
                         answer |-> answer]]
  /\ UNCHANGED <<event, seat, timesRaced, everRemoved>>

EventRequest(h) ==
  \/ \E from, to \in Times \union {Unchanged} : AssertEvent(h, "update", {}, from, to, FALSE)
  \/ AssertEvent(h, "delete", {}, Unchanged, Unchanged, FALSE)
  \/ \E S \in (SUBSET Users) \ {{}} : AssertEvent(h, "add", S, Unchanged, Unchanged, FALSE)
  \/ \E u \in Users : AssertEvent(h, "remove", {u}, Unchanged, Unchanged, FALSE)
  \/ \E u \in Users, answer \in BOOLEAN :
       AssertEvent(h, "confirm", {u}, Unchanged, Unchanged, answer)

(* The times of the request merged with the ones it has read.              *)
OrderedWhenMerged(q) == Merged(q.from, q.start) < Merged(q.to, q.end)

(* updateEvent refuses times out of order and writes those it was given.   *)
UpdateEvent(h) ==
  LET q == eventReq[h] IN
  /\ q.op = "update" /\ q.at = "allowed"
  /\ IF OrderedWhenMerged(q)
     THEN /\ event' = [event EXCEPT !.start = Merged(q.from, event.start),
                                    !.end = Merged(q.to, event.end)]
          /\ timesRaced' = (timesRaced \/ event.start # q.start \/ event.end # q.end)
     ELSE UNCHANGED <<event, timesRaced>>
  /\ FinishEvent(h)
  /\ UNCHANGED <<seat, everRemoved>>

DeleteEvent(h) ==
  /\ eventReq[h].op = "delete" /\ eventReq[h].at = "allowed"
  /\ event' = [event EXCEPT !.deleted = TRUE]
  /\ FinishEvent(h)
  /\ UNCHANGED <<seat, timesRaced, everRemoved>>

------------------------------------------------------------------------------
(* The transaction of addParticipants reads who is there... *)
ReadSeated(h) ==
  /\ eventReq[h].op = "add" /\ eventReq[h].at = "allowed"
  /\ LET toAdd == eventReq[h].who \ Seated IN
     IF toAdd = {} THEN FinishEvent(h)
     ELSE eventReq' = [eventReq EXCEPT ![h].at = "read", ![h].who = toAdd]
  /\ UNCHANGED <<event, seat, timesRaced, everRemoved>>

(* ...and the highest number given...                                      *)
ReadMaxNumber(h) ==
  /\ eventReq[h].op = "add" /\ eventReq[h].at = "read"
  /\ IF MaxNumber > NumberBound THEN FinishEvent(h)
     ELSE eventReq' = [eventReq EXCEPT ![h].at = "numbered", ![h].last = MaxNumber]
  /\ UNCHANGED <<event, seat, timesRaced, everRemoved>>

(* Mutant: the numbering starts at the highest number.                     *)
NumberingsFromLast(S, last) ==
  {f \in [S -> last..(last + Cardinality(S) - 1)] : \A u, v \in S : f[u] = f[v] => u = v}

(* toAdd numbered one after the other, in some order.                      *)
Numberings(S, last) ==
  {f \in [S -> (last + 1)..(last + Cardinality(S))] : \A u, v \in S : f[u] = f[v] => u = v}

(* Mutant: the table has no unique number.                                 *)
ConflictsOnUser(q) == q.who \intersect Seated # {}

(* The primary key and the unique number of EventParticipant.              *)
Conflicts(q) ==
  \/ q.who \intersect Seated # {}
  \/ \E n \in Numbers : q.last < n /\ n <= q.last + Cardinality(q.who)

(* ...and inserts all of them, or fails and inserts none.                  *)
InsertSeats(h) ==
  LET q == eventReq[h] IN
  /\ q.op = "add" /\ q.at = "numbered"
  /\ IF Conflicts(q) THEN UNCHANGED seat
     ELSE \E f \in Numberings(q.who, q.last) :
            seat' = [u \in Users |-> IF u \in q.who THEN [number |-> f[u], confirmed |-> FALSE]
                                     ELSE seat[u]]
  /\ FinishEvent(h)
  /\ UNCHANGED <<event, timesRaced, everRemoved>>

------------------------------------------------------------------------------
ReadSeat(h) ==
  /\ eventReq[h].op \in {"remove", "confirm"} /\ eventReq[h].at = "allowed"
  /\ IF eventReq[h].who \subseteq Seated
     THEN eventReq' = [eventReq EXCEPT ![h].at = "read"]
     ELSE FinishEvent(h)
  /\ UNCHANGED <<event, seat, timesRaced, everRemoved>>

(* By primary key: fails when the participant is gone.                     *)
RemoveSeat(h) ==
  /\ eventReq[h].op = "remove" /\ eventReq[h].at = "read"
  /\ seat' = [u \in Users |-> IF u \in eventReq[h].who THEN NoSeat ELSE seat[u]]
  /\ everRemoved' = TRUE
  /\ FinishEvent(h)
  /\ UNCHANGED <<event, timesRaced>>

ConfirmSeat(h) ==
  LET q == eventReq[h] IN
  /\ q.op = "confirm" /\ q.at = "read"
  /\ seat' = [u \in Users |-> IF u \in q.who /\ u \in Seated
                              THEN [seat[u] EXCEPT !.confirmed = q.answer] ELSE seat[u]]
  /\ FinishEvent(h)
  /\ UNCHANGED <<event, timesRaced, everRemoved>>

------------------------------------------------------------------------------
(* createEvent refuses times out of order.                                 *)
EventInit ==
  /\ event \in [deleted : {FALSE}, start : Times, end : Times]
  /\ event.start < event.end
  /\ seat = [u \in Users |-> NoSeat]
  /\ eventReq = [h \in Handlers |-> NoEventReq]
  /\ timesRaced = FALSE
  /\ everRemoved = FALSE

EventStep(h) ==
  \/ EventRequest(h) \/ UpdateEvent(h) \/ DeleteEvent(h)
  \/ ReadSeated(h) \/ ReadMaxNumber(h) \/ InsertSeats(h)
  \/ ReadSeat(h) \/ RemoveSeat(h) \/ ConfirmSeat(h)

EventNext == \E h \in Handlers : EventStep(h)

EventSpec == EventInit /\ [][EventNext]_eventVars
------------------------------------------------------------------------------
(* Properties *)

(* Rows and requests have the shape the code gives them.                   *)
EventTypeOK ==
  /\ event \in [deleted : BOOLEAN, start : Times, end : Times]
  /\ seat \in [Users -> Seats \union {NoSeat}]
  /\ eventReq \in [Handlers -> EventReqs]
  /\ timesRaced \in BOOLEAN /\ everRemoved \in BOOLEAN

(* "timeEnd must be after timeStart", unless an update has written over    *)
(* times that changed after it had read them.                              *)
OrderedUnlessRaced == ~timesRaced => event.start < event.end

(* Concurrent invitations never give a number twice, and until somebody is *)
(* removed they leave no gap: the numbers are 1 to the number of guests.   *)
NumbersSound ==
  /\ \A u, v \in Seated : seat[u].number = seat[v].number => u = v
  /\ ~everRemoved => Numbers = 1..Cardinality(Seated)

(* The times of an event and the numbers of its guests.                    *)
EventsSound == OrderedUnlessRaced /\ NumbersSound
==============================================================================
