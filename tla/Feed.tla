-------------------------------- MODULE Feed ---------------------------------
(***************************************************************************)
(* What the tab holds of the room it has open, kept up to date by events   *)
(* alone: topics, members, the room itself, pins and read receipts.  Unlike *)
(* message:new (Realtime) these events patch the cache and invalidate      *)
(* nothing (SocketManager.tsx), so what they miss stays until the next     *)
(* query.                                                                  *)
(*                                                                         *)
(* One row is followed, with the services that change it and announce it   *)
(* (topics.service.ts, rooms.service.ts, messages.service.ts), the socket *)
(* with its token (chat.gateway.ts, socketClient.ts) and the query of the  *)
(* entry.  list says what the row is:                                      *)
(*   topic    a topic in getTopics                                         *)
(*   member   somebody's membership in getRoomMembers                      *)
(*   self     the user's own membership                                    *)
(*   room     the room in getRooms and getRoomById                         *)
(*   message  somebody's message in getMessages, read in the list          *)
(*   own      the user's own message                                       *)
(*   reply    a message that getMessages leaves out                        *)
(* The user is an ordinary member, and has no other room to open; the list *)
(* of rooms offers none that is gone.                                      *)
(***************************************************************************)
EXTENDS Naturals, Sequences, FiniteSets

CONSTANTS
  Editors,   \* requests that change the row
  Tab,       \* the one of them that the tab sends
  Sayings,   \* what a row can say: a title, a role, pinned or not
  MaxEdits, MaxLosses, MaxOpenings   \* bounds

ASSUME FeedAssumption ==
  /\ Tab \in Editors
  /\ MaxEdits \in Nat /\ MaxLosses \in Nat /\ MaxOpenings \in Nat

VARIABLES
  list,       \* what the row is
  row,        \* the row
  edit,       \* edit[w]: how far a request has got
  line,       \* the wire: up, down, or barred by the gateway
  pass,       \* the token of the tab: good or expired
  inRoom,     \* has the socket joined the channel of the room
  toGateway,  \* joins and leaves on their way to the gateway
  toTab,      \* events on their way to the tab
  open,       \* is the room selected
  selected,     \* is the topic selected
  held,       \* the row in the cache
  query,      \* the query of the entry
  again,      \* has the entry been invalidated while it was queried
  edits, losses, openings, \* counted up to their bounds
  astray,     \* history: since the last query a change has gone wrong in the cache
  untold      \* history: the tab has not heard that the row is gone

source == <<row, edit, edits>>
wire == <<line, pass, inRoom, toGateway, toTab>>
view == <<open, selected, openings>>
entry == <<held, query, again>>
history == <<astray, untold>>
feedVars == <<list, source, wire, view, entry, losses, history>>

Lists == {"topic", "member", "self", "room", "message", "own", "reply"}

MessageLists == {"message", "own", "reply"}

Author == IF list = "own" THEN "user" ELSE "author"

Readers == {"user", "other", Author}

Unknown == [is |-> "unknown"]
Absent == [is |-> "absent"]
Shown(s, n) == [is |-> "shown", says |-> s, count |-> n]

There == row.state = "there"

(* formatMessage: the author does not count as a reader.                   *)
Count(r) == Cardinality(r.readers \ {Author})

(* What the queries list of a row: a topic that is hidden from the user,   *)
(* and a reply, is left out.                                               *)
ShownOf(r) == IF r.state = "there" /\ ~r.hidden THEN Shown(r.says, Count(r)) ELSE Absent

Current == ShownOf(row)

(* The queries of a room that is gone, or is left, are refused.            *)
Refused == list \in {"room", "self"} /\ ~There

OnScreen == IF list = "topic" THEN selected ELSE open /\ list \in {"room", "self"}

NoQuery == [phase |-> "idle", data |-> Unknown]
Sent == [phase |-> "asked", data |-> Unknown]

------------------------------------------------------------------------------
(* Requests: a check, a change, and an event *)

Ops ==
  CASE list = "topic" -> {"create", "update", "delete", "hide", "show"}
    [] list \in {"member", "self"} -> {"add", "assign", "remove", "purge"}
    [] list = "room" -> {"update", "close"}
    [] list \in MessageLists -> {"pin", "read"}

NoEvent == [op |-> "none", row |-> Absent, by |-> "user", fits |-> TRUE]

Free == [step |-> "free", op |-> "read", says |-> "", by |-> "user", event |-> NoEvent]

UnderWay(op) == \E w \in Editors : edit[w].step # "free" /\ edit[w].op = op

(* What a request finds before it writes: createTopic makes a topic of its *)
(* own, addMember and markTopicRead look for what is there already.        *)
Finds(op, by) ==
  CASE op = "create" -> row.state = "none" /\ ~UnderWay("create")
    [] op = "add"    -> row.state = "none"
    [] op = "read"   -> by \notin row.readers
    [] OTHER         -> There

Check(w) ==
  /\ edit[w] = Free /\ edits < MaxEdits
  /\ w = Tab => open /\ pass = "good"
  /\ \E op \in Ops, s \in Sayings, by \in Readers :
       /\ op # "read" => by = "user"
       /\ op = "read" => (w = Tab <=> by = "user")
       /\ op \in {"create", "add", "update", "assign", "pin"} \/ s = row.says
       /\ Finds(op, by)
       /\ edit' = [edit EXCEPT ![w] = [Free EXCEPT !.step = "checked", !.op = op, !.says = s, !.by = by]]
  /\ edits' = edits + 1
  /\ UNCHANGED <<list, row, wire, view, entry, losses, history>>

(* The database refuses to add a member twice, and to change or remove one *)
(* that is not there; a topic or room that is deleted can still be written.*)
Takes(op) ==
  CASE op = "add" -> ~There
    [] op \in {"assign", "remove"} -> There
    [] OTHER -> TRUE

Changed(e) ==
  CASE e.op \in {"create", "add"} -> [row EXCEPT !.state = "there", !.says = e.says]
    [] e.op \in {"update", "assign", "pin"} -> [row EXCEPT !.says = e.says]
    [] e.op \in {"delete", "close"}  -> [row EXCEPT !.state = "gone"]
    [] e.op \in {"remove", "purge"}  -> [row EXCEPT !.state = "none"]
    [] e.op \in {"hide", "show"}     -> [row EXCEPT !.hidden = (e.op = "hide")]
    [] e.op = "read"                 -> [row EXCEPT !.readers = @ \union {e.by}]

(* The event of a change that has led to row r.  updateMemberRole,         *)
(* bulkRemoveMembers, deleteRoom and the scopes of topics announce nothing.*)
(* fits notes whether the event says what the list of the tab should hold. *)
EventOf(e, r) ==
  CASE e.op \in {"create", "update", "add", "pin"} ->
         [op |-> "put", row |-> Shown(r.says, Count(r)), by |-> e.by, fits |-> ShownOf(r) # Absent]
    [] e.op \in {"delete", "remove"} -> [NoEvent EXCEPT !.op = "drop"]
    [] e.op = "read" -> [op |-> "plus", row |-> Absent, by |-> e.by, fits |-> Count(r) > Count(row)]
    [] OTHER -> NoEvent

(* The tab will not hear of the change from r to s: it is not announced,   *)
(* or the receipt is the user's own, which handleMessagesRead ignores.     *)
Silent(ev, r, s) ==
  /\ ShownOf(r) # ShownOf(s)
  /\ ev.op = "none" \/ (ev.op = "plus" /\ ev.by = "user")

(* The change is made, its event still to come.                            *)
Late(w) == edit[w].step \in {"written", "ready"}

(* A request is answered; only the tab's own matters from there on.        *)
Ended(w, step) == IF w = Tab THEN [edit[w] EXCEPT !.step = step] ELSE Free

Write(w) ==
  /\ edit[w].step = "checked"
  /\ LET e == edit[w]
         r == Changed(e)
         ev == EventOf(e, r)
         reads == list = "room" /\ e.op = "update"
     IN IF Takes(e.op)
        THEN /\ row' = r
             /\ edit' = [edit EXCEPT ![w].step = IF reads THEN "written" ELSE "ready", ![w].event = ev]
             /\ astray' = (astray \/ Silent(ev, row, r) \/ \E v \in Editors \ {w} : Late(v))
             /\ untold' = (r.state # "there" /\ (untold \/ ev.op = "none"))
        ELSE edit' = [edit EXCEPT ![w] = Ended(w, "failed")] /\ UNCHANGED <<row, history>>
  /\ UNCHANGED <<list, edits, wire, view, entry, losses>>

(* updateRoom answers with getRoom, whose unreadCount is that of whoever   *)
(* asked; a room that is gone meanwhile is not announced.                  *)
ReadBack(w) ==
  /\ edit[w].step = "written"
  /\ IF There
     THEN \E n \in 0 .. 1 :
            edit' = [edit EXCEPT ![w].step = "ready", ![w].event =
                       [op |-> "put", row |-> Shown(row.says, n), by |-> edit[w].by, fits |-> n = Count(row)]]
     ELSE edit' = [edit EXCEPT ![w] = Ended(w, "failed")]
  /\ UNCHANGED <<list, row, edits, wire, view, entry, losses, history>>

(* The socket is in the channel an event is sent to.                       *)
Hears == line = "up" /\ inRoom

(* emitToRoom                                                              *)
Emit(w) ==
  /\ edit[w].step = "ready"
  /\ edit' = [edit EXCEPT ![w] = Ended(w, "told")]
  /\ LET ev == edit[w].event IN
     /\ toTab' = IF Hears /\ ev.op # "none" THEN Append(toTab, ev) ELSE toTab
     /\ astray' = (astray \/ (~Hears /\ ev.op # "none"))
     /\ untold' = (untold \/ (~There /\ (ev.op = "put" \/ (ev.op = "drop" /\ ~Hears))))
  /\ UNCHANGED <<list, row, edits, line, pass, inRoom, toGateway, view, entry, losses>>

(* A handler fails, or the server stops, before the event.                 *)
Dies(w) ==
  /\ edit[w].step \in {"checked", "written", "ready"} /\ losses < MaxLosses
  /\ losses' = losses + 1
  /\ edit' = [edit EXCEPT ![w] = Ended(w, "failed")]
  /\ astray' = (astray \/ Late(w))
  /\ untold' = (untold \/ ~There)
  /\ UNCHANGED <<list, row, edits, wire, view, entry>>

------------------------------------------------------------------------------
(* RTK Query: the entry, and the tab's own mutation *)

(* What is invalidated is dropped if nobody uses it, and fetched again, at *)
(* once or after the query under way.                                      *)
Kept(h) == IF open THEN h ELSE Unknown

Refetch ==
  /\ query' = IF query = NoQuery /\ open THEN Sent ELSE query
  /\ again' = (again \/ query # NoQuery)

(* setSelectedRoom(null), and the leave that follows it.                   *)
CloseRoom ==
  /\ open' = FALSE /\ selected' = FALSE
  /\ toGateway' = IF open /\ line = "up" THEN Append(toGateway, "leave") ELSE toGateway

(* markTopicRead invalidates Rooms and Topics, not Messages.               *)
Invalidates(op) == op # "read"

(* The page closes what it has deleted or left, and puts the topic it has  *)
(* renamed into the list.                                                  *)
Answer ==
  /\ edit[Tab].step \in {"told", "failed"}
  /\ edit' = [edit EXCEPT ![Tab] = Free]
  /\ LET op == IF edit[Tab].step = "told" THEN edit[Tab].op ELSE "none"
         renamed == list = "topic" /\ op = "update" /\ held.is = "shown" /\ open
     IN /\ IF op = "close" \/ (list = "self" /\ op = "remove") THEN CloseRoom
           ELSE selected' = (selected /\ op # "delete") /\ UNCHANGED <<open, toGateway>>
        /\ astray' = (astray \/ (renamed /\ edit[Tab].event.row # Current))
        /\ IF Invalidates(edit[Tab].op)
           THEN Refetch /\ held' = IF renamed THEN edit[Tab].event.row ELSE Kept(held)
           ELSE UNCHANGED entry
  /\ UNCHANGED <<list, row, edits, line, pass, inRoom, toTab, openings, losses, untold>>

(* Events that are still to come.                                          *)
Events == {toTab[i] : i \in DOMAIN toTab} \union {edit[w].event : w \in {v \in Editors : Late(v)}}

(* The query reads while the event of a change it sees is still to come:   *)
(* the receipt will be counted again, the row be put back as it was.       *)
Repeats(ev) == ev.op = "plus" \/ (ev.op # "none" /\ ev.row # Current)

NextQuery == IF again /\ open THEN Sent ELSE NoQuery

ServeEntry ==
  /\ query = Sent /\ pass = "good"
  /\ IF Refused
     THEN query' = NextQuery /\ again' = FALSE /\ UNCHANGED astray
     ELSE /\ UNCHANGED again
          /\ query' = [phase |-> "served", data |-> Current]
          /\ astray' = \E ev \in Events : Repeats(ev)
  /\ UNCHANGED <<list, source, wire, view, held, losses, untold>>

HoldAnswer ==
  /\ query.phase = "served"
  /\ held' = IF again THEN Kept(query.data) ELSE query.data
  /\ query' = NextQuery /\ again' = FALSE
  /\ UNCHANGED <<list, source, wire, view, losses, history>>

QueryFails ==
  /\ query # NoQuery /\ losses < MaxLosses
  /\ losses' = losses + 1
  /\ query' = NextQuery /\ again' = FALSE
  /\ held' = IF again THEN Kept(held) ELSE held
  /\ astray' = (astray \/ query.phase = "served")
  /\ UNCHANGED <<list, source, wire, view, untold>>

------------------------------------------------------------------------------
(* Events: handleTopicNew, handleTopicUpdated, handleTopicDeleted,         *)
(* handleMembersAdded, handleMemberRemoved, handleRoomUpdated,             *)
(* handlePinned and handleMessagesRead *)

(* Mutant: an event only updates a row that is there.                      *)
UpdatedThere(ev) ==
  CASE ev.op = "put" /\ held.is = "shown" -> ev.row
    [] ev.op = "drop" -> Absent
    [] ev.op = "plus" /\ held.is = "shown" /\ ev.by # "user" -> [held EXCEPT !.count = @ + 1]
    [] OTHER -> held

(* A row is put into the list once, whatever the list holds of it; a room  *)
(* is updated where it is; a receipt counts for a message that is there.   *)
Updated(ev) ==
  CASE held = Unknown -> held
    [] held # Unknown /\ ev.op = "put"  -> IF list = "room" /\ held = Absent THEN held ELSE ev.row
    [] held # Unknown /\ ev.op = "drop" -> Absent
    [] held # Unknown /\ ev.op = "plus" -> IF held = Absent \/ ev.by = "user" THEN held
                                           ELSE [held EXCEPT !.count = @ + 1]

HandleEvent ==
  /\ toTab # <<>>
  /\ toTab' = Tail(toTab)
  /\ LET ev == Head(toTab) IN
     /\ held' = Updated(ev)
     /\ astray' = (astray \/ ~ev.fits \/ (query.phase = "served" /\ query.data # Current))
     /\ untold' = (untold \/ (ev.op = "drop" /\ query.phase = "served" /\ query.data # Absent))
     /\ IF list = "self" /\ ev.op = "drop" THEN CloseRoom
        ELSE selected' = (selected /\ ev.op # "drop") /\ UNCHANGED <<open, toGateway>>
  /\ UNCHANGED <<list, source, line, pass, inRoom, openings, query, again, losses>>

------------------------------------------------------------------------------
(* The socket and its token *)

(* A connection is gone with what was on its way.                          *)
Cut ==
  /\ line' = "down" /\ inRoom' = FALSE
  /\ toGateway' = <<>> /\ toTab' = <<>>
  /\ astray' = (astray \/ toTab # <<>>)
  /\ untold' = (untold \/ \E i \in DOMAIN toTab : toTab[i].op = "drop")

Lose ==
  /\ line = "up" /\ losses < MaxLosses
  /\ losses' = losses + 1
  /\ Cut
  /\ UNCHANGED <<list, source, pass, view, entry>>

(* handleConnection turns an expired token away, and socket.io does not  *)
(* try again; a connection that is accepted stays when its token expires.  *)
Reconnect ==
  /\ line = "down"
  /\ line' = IF pass = "good" THEN "up" ELSE "barred"
  /\ toGateway' = IF pass = "good" /\ open THEN <<"join">> ELSE <<>>
  /\ UNCHANGED <<list, source, pass, inRoom, toTab, view, entry, losses, history>>

Expire ==
  /\ pass = "good" /\ losses < MaxLosses
  /\ losses' = losses + 1
  /\ pass' = "expired"
  /\ UNCHANGED <<list, source, line, inRoom, toGateway, toTab, view, entry, history>>

(* Some request of the tab is answered 401 and has the token refreshed:    *)
(* connectSocket replaces the socket.                                      *)
Refresh ==
  /\ pass = "expired"
  /\ pass' = "good"
  /\ Cut
  /\ UNCHANGED <<list, source, view, entry, losses>>

ServeChannel ==
  /\ toGateway # <<>>
  /\ inRoom' = (Head(toGateway) = "join")
  /\ toGateway' = Tail(toGateway)
  /\ UNCHANGED <<list, source, line, pass, toTab, view, entry, losses, history>>

------------------------------------------------------------------------------
(* The user *)

OpenRoom ==
  /\ ~open /\ ~Refused /\ openings < MaxOpenings
  /\ openings' = openings + 1
  /\ open' = TRUE
  /\ query' = IF query = NoQuery THEN Sent ELSE query
  /\ toGateway' = IF line = "up" THEN Append(toGateway, "join") ELSE toGateway
  /\ UNCHANGED <<list, source, line, pass, inRoom, toTab, selected, held, again, losses, history>>

LeaveRoom ==
  /\ open
  /\ CloseRoom
  /\ UNCHANGED <<list, source, line, pass, inRoom, toTab, openings, entry, losses, history>>

ChooseTopic ==
  /\ list = "topic" /\ open /\ ~selected /\ held.is = "shown"
  /\ selected' = TRUE
  /\ UNCHANGED <<list, source, wire, open, openings, entry, losses, history>>

FeedInit ==
  /\ list \in Lists
  /\ row \in {[state |-> st, hidden |-> list = "reply", says |-> s, readers |-> {}] :
                st \in {"none", "there"}, s \in Sayings}
  /\ list \notin {"topic", "member"} => There
  /\ edit = [w \in Editors |-> Free]
  /\ line = "up" /\ pass = "good" /\ inRoom = FALSE
  /\ toGateway = <<>> /\ toTab = <<>>
  /\ open = FALSE /\ selected = FALSE
  /\ held = Unknown /\ query = NoQuery /\ again = FALSE
  /\ edits = 0 /\ losses = 0 /\ openings = 0
  /\ astray = FALSE /\ untold = FALSE

FeedNext ==
  \/ \E w \in Editors : Check(w) \/ Write(w) \/ ReadBack(w) \/ Emit(w) \/ Dies(w)
  \/ Answer \/ ServeEntry \/ HoldAnswer \/ QueryFails \/ HandleEvent
  \/ Lose \/ Reconnect \/ Expire \/ Refresh \/ ServeChannel
  \/ OpenRoom \/ LeaveRoom \/ ChooseTopic

FeedSpec == FeedInit /\ [][FeedNext]_feedVars

------------------------------------------------------------------------------
FeedAtRest == query = NoQuery /\ toTab = <<>> /\ edit = [w \in Editors |-> Free]

(* Once nothing is under way, an open room shows what the server would     *)
(* list, unless since its last query changes have overlapped, or one was   *)
(* not announced to the tab, met a query on its way, or was announced as   *)
(* somebody else lists it.                                                 *)
RowExact ==
  FeedAtRest /\ open /\ held # Unknown /\ ~astray => held = Current

(* A topic that is deleted, or a room the user is no longer in, does not   *)
(* stay selected once the tab has heard of it.                             *)
GoneIsClosed == FeedAtRest /\ OnScreen => There \/ untold

FeedSound == RowExact /\ GoneIsClosed
==============================================================================
