------------------------------- MODULE Notices -------------------------------
(***************************************************************************)
(* The notifications of one user: their rows on the server                 *)
(* (notifications.service.ts), the events that announce them to a tab      *)
(* (SocketManager.tsx), the lists the tab holds of them, and the component *)
(* that marks as read what is about the view on the screen                 *)
(* (NotificationRouteSync.tsx).                                            *)
(*                                                                         *)
(* Bounds of the model: MaxMoves of the user, one request of whom is on    *)
(* its way at a time; MaxMishaps, which are a query or request that fails, *)
(* a lost connection, and what another tab does; a request is lost before  *)
(* the server reads it, or its answer after.                               *)
(***************************************************************************)
EXTENDS Naturals, FiniteSets

CONSTANTS
  Notifications,
  Views,   \* what a notice can be about, and the screen can show
  Page,    \* the view that lists the notices
  MaxMoves,
  MaxMishaps

ASSUME NoticesAssumption ==
  /\ IsFiniteSet(Notifications)
  /\ Page \in Views
  /\ MaxMoves \in Nat /\ MaxMishaps \in Nat

VARIABLES
  row,       \* row[n]: is it made, its readAt, is it hidden
  about,     \* about[n]: the room, topic, message, task, event or poll of n
  pushes,    \* events on their way to the tab
  online,    \* is the socket of the tab connected
  entry,     \* entry[e]: what the tab holds of list e
  query,     \* query[e]: a query of list e on its way
  told,      \* tags wait to be invalidated
  view,      \* what the screen shows
  marking,   \* markingRef: notices NotificationRouteSync has asked to mark
  mark,      \* mark[n]: its request for n
  click,     \* the request of the user
  moves,     \* of the user
  mishaps,
  refused,   \* history: notices whose last request of it was refused
  gap        \* history: lists that nothing tells the tab to fetch again

link == <<pushes, online>>
lists == <<entry, query, told, gap>>
sync == <<view, marking, mark, refused>>
bounds == <<moves, mishaps>>
server == <<row, about>>
noticeVars == <<server, link, lists, sync, click, bounds>>

------------------------------------------------------------------------------
(* The lists that every view uses: the badge asks for one row and the      *)
(* total, the other for 100, which is more than there are.  Lists that     *)
(* only a page uses are left out.                                          *)
Lists == {"badge", "unread"}

Limit(e) == IF e = "badge" THEN 1 ELSE Cardinality(Notifications)

Listed == {n \in Notifications : row[n].made /\ ~row[n].hidden /\ row[n].read = "no"}

(* A page of the list has some of them: the newest, which any can be.      *)
IsPageOf(items, e) ==
  LET all == Cardinality(Listed) IN
  /\ items \subseteq Listed
  /\ Cardinality(items) = IF all < Limit(e) THEN all ELSE Limit(e)

NoEntry == [has |-> FALSE, items |-> {}, total |-> 0, pushed |-> FALSE]

NoQuery == [at |-> "none", items |-> {}, total |-> 0]

Asked == [NoQuery EXCEPT !.at = "asked"]

NoMark == [at |-> "none", found |-> "no"]

Sent == [NoMark EXCEPT !.at = "sent"]

NoClick == [op |-> "none", of |-> {}, at |-> "none", found |-> "no"]

Pending(q, m, c) ==
  \/ \E e \in Lists : q[e].at # "none"
  \/ \E n \in Notifications : m[n].at # "none"
  \/ c.at # "none"

(* Mutant: tags are invalidated at once; a query on its way is not sent    *)
(* twice.                                                                  *)
SettledAtOnce(q, m, c, t, g) ==
  /\ told' = FALSE
  /\ query' = [e \in Lists |-> IF t /\ q[e].at = "none" THEN Asked ELSE q[e]]
  /\ gap' = g

(* Tags are invalidated once no request of the slice is pending: the lists *)
(* in use are fetched again.                                               *)
Settled(q, m, c, t, g) ==
  LET now == t /\ ~Pending(q, m, c) IN
  /\ told' = (t /\ ~now)
  /\ query' = [e \in Lists |-> IF now THEN Asked ELSE q[e]]
  /\ gap' = IF now THEN {} ELSE g

(* The effect of NotificationRouteSync, when the view or the items of the  *)
(* unread list are new: each notice about the view is marked, once.        *)
RouteSync(unread, v, m, marked, f) ==
  LET old == entry["unread"]
      IsNew == unread.items # old.items \/ unread.pushed # old.pushed
      due == IF IsNew \/ v # view THEN {n \in unread.items : about[n] = v} \ marked ELSE {}
  IN /\ mark' = [n \in Notifications |-> IF n \in due THEN Sent ELSE m[n]]
     /\ marking' = marked \union due
     /\ refused' = f \ due

Move == moves < MaxMoves /\ moves' = moves + 1 /\ UNCHANGED mishaps

Mishap == mishaps < MaxMishaps /\ mishaps' = mishaps + 1 /\ UNCHANGED moves

------------------------------------------------------------------------------
(* The server.                                                             *)

(* create: the row, then the event, to the sockets connected by then.      *)
Create(n) ==
  /\ ~row[n].made
  /\ row' = [row EXCEPT ![n].made = TRUE]
  /\ pushes' = IF online THEN pushes \union {n} ELSE pushes
  /\ gap' = IF online THEN gap ELSE Lists
  /\ UNCHANGED <<sync, bounds, about, online, entry, query, told, click>>

(* markRead: readAt is looked up, then written: as it was, or now, which   *)
(* is later ("again") if it was first read in between.                     *)
LookedUp(n, q) == [q EXCEPT !.at = "found", !.found = row[n].read]

ReadAt(r, found) ==
  CASE found # "no" -> found
    [] found = "no" /\ r = "no" -> "once"
    [] found = "no" /\ r # "no" -> "again"

FindMark(n) ==
  /\ mark[n].at = "sent"
  /\ mark' = [mark EXCEPT ![n] = LookedUp(n, @)]
  /\ UNCHANGED <<server, link, lists, bounds, view, marking, click, refused>>

UpdateMark(n) ==
  /\ mark[n].at = "found"
  /\ mark' = [mark EXCEPT ![n].at = "done"]
  /\ row' = [row EXCEPT ![n].read = ReadAt(@, mark[n].found)]
  /\ UNCHANGED <<link, lists, bounds, about, view, marking, click, refused>>

FindClick ==
  /\ click.at = "sent" /\ click.op = "mark"
  /\ \E n \in click.of : click' = LookedUp(n, click)
  /\ UNCHANGED <<server, link, lists, sync, bounds>>

(* markRead, markAllRead and hide write.                                   *)
UpdateClick ==
  /\ click.at = IF click.op = "mark" THEN "found" ELSE "sent"
  /\ click.op # "none"
  /\ click' = [click EXCEPT !.at = "done"]
  /\ row' = [n \in Notifications |->
       CASE click.op = "mark" /\ n \in click.of -> [row[n] EXCEPT !.read = ReadAt(@, click.found)]
         [] click.op = "hide" /\ n \in click.of -> [row[n] EXCEPT !.hidden = TRUE]
         [] click.op = "all" /\ n \in Listed -> [row[n] EXCEPT !.read = "once"]
         [] OTHER -> row[n]]
  /\ UNCHANGED <<link, lists, sync, bounds, about>>

(* Another tab of the user marks n; nothing tells this one.                *)
Elsewhere(n) ==
  /\ row[n].made /\ row[n].read = "no"
  /\ row' = [row EXCEPT ![n].read = "once"]
  /\ gap' = Lists
  /\ Mishap
  /\ UNCHANGED <<link, sync, about, entry, query, told, click>>

(* list: the rows and how many there are, which are read together here.    *)
ReadList(e) ==
  /\ query[e].at = "asked"
  /\ \E items \in SUBSET Listed :
       /\ IsPageOf(items, e)
       /\ query' = [query EXCEPT ![e] = [at |-> "served", items |-> items,
                                          total |-> Cardinality(Listed)]]
  /\ UNCHANGED <<server, link, sync, bounds, entry, told, gap, click>>

------------------------------------------------------------------------------
(* The tab.                                                                *)

Disconnect ==
  /\ online /\ online' = FALSE
  /\ pushes' = {}
  /\ gap' = IF pushes = {} THEN gap ELSE Lists
  /\ Mishap
  /\ UNCHANGED <<server, sync, entry, query, told, click>>

(* A reconnect fetches no notices.                                         *)
Connect ==
  /\ ~online /\ online' = TRUE
  /\ UNCHANGED <<server, lists, sync, bounds, pushes, click>>

(* prependUniqueNotification, in a list that has been fetched: the total   *)
(* counts on, and one row is all that the badge asked for.                 *)
Prepended(n, e) ==
  IF ~entry[e].has \/ n \in entry[e].items THEN entry[e]
  ELSE [entry[e] EXCEPT !.items = IF e = "badge" THEN {n} ELSE @ \union {n},
                        !.total = @ + 1, !.pushed = TRUE]

(* handleNotification patches every list, then invalidates.                *)
Receive(n) ==
  /\ n \in pushes /\ pushes' = pushes \ {n}
  /\ entry' = [e \in Lists |-> Prepended(n, e)]
  /\ Settled(query, mark, click, TRUE, gap)
  /\ RouteSync(entry'["unread"], view, mark, marking, refused)
  /\ UNCHANGED <<server, bounds, online, view, click>>

Answer(e) ==
  LET q == [query EXCEPT ![e] = NoQuery] IN
  /\ query[e].at = "served"
  /\ entry' = [entry EXCEPT ![e] = [has |-> TRUE, items |-> query[e].items,
                                     total |-> query[e].total, pushed |-> FALSE]]
  /\ Settled(q, mark, click, told, gap)
  /\ RouteSync(entry'["unread"], view, mark, marking, refused)
  /\ UNCHANGED <<server, link, bounds, view, click>>

AnswerFails(e) ==
  LET q == [query EXCEPT ![e] = NoQuery] IN
  /\ query[e].at # "none"
  /\ Settled(q, mark, click, told, gap \union {e})
  /\ Mishap
  /\ UNCHANGED <<server, link, sync, entry, click>>

(* The user goes elsewhere.  The page that lists the notices shows the     *)
(* count too, and fetches it again (refetchOnMountOrArgChange), unless it  *)
(* is on its way.                                                          *)
See(v) ==
  /\ v # view /\ view' = v
  /\ LET used == {e \in {"badge"} : v = Page /\ query[e].at = "none"}
     IN /\ query' = [e \in Lists |-> IF e \in used THEN Asked ELSE query[e]]
        /\ gap' = gap \ used
  /\ RouteSync(entry["unread"], v, mark, marking, refused)
  /\ Move
  /\ UNCHANGED <<server, link, entry, told, click>>

(* A request of NotificationRouteSync is answered: a notice that was not   *)
(* marked is forgotten, and marked again when the effect runs again.       *)
MarkEnds(n, ok) ==
  LET m == [mark EXCEPT ![n] = NoMark] IN
  /\ mark[n].at = "done" \/ (~ok /\ mark[n].at = "sent")
  /\ mark' = m
  /\ marking' = IF ok THEN marking ELSE marking \ {n}
  /\ refused' = IF ok THEN refused ELSE refused \union {n}
  /\ Settled(query, m, click, TRUE, gap)
  /\ IF ok THEN UNCHANGED bounds ELSE Mishap
  /\ UNCHANGED <<server, link, entry, view, click, moves>>

(* The user clicks a notice that is shown as unread, hides one, or marks   *)
(* all, which is offered while the badge counts any.                       *)
Click(op, of) ==
  /\ view = Page /\ click = NoClick
  /\ op \in {"mark", "hide"} => of \subseteq entry["unread"].items /\ Cardinality(of) = 1
  /\ op = "all" => of = {} /\ entry["badge"].total > 0
  /\ click' = [NoClick EXCEPT !.op = op, !.of = of, !.at = "sent"]
  /\ Move
  /\ UNCHANGED <<server, link, lists, sync>>

(* The request of the user is answered.  A notice that was clicked is then  *)
(* opened, whatever the answer; looking up the room of a topic or message  *)
(* is left out.                                                            *)
ClickEnds(ok) ==
  LET opened == {about[n] : n \in IF click.op = "mark" THEN click.of ELSE {}}
      v == CHOOSE v \in Views : IF opened = {} THEN v = view ELSE v \in opened
  IN
  /\ click.at = "done" \/ (~ok /\ click.at = "sent")
  /\ click' = NoClick
  /\ Settled(query, mark, NoClick, TRUE, gap)
  /\ view' = v /\ RouteSync(entry["unread"], v, mark, marking, refused)
  /\ IF ok THEN UNCHANGED bounds ELSE Mishap
  /\ UNCHANGED <<server, link, entry>>

(* The app has just opened, and nothing has been fetched.                  *)
NoticesInit ==
  /\ about \in [Notifications -> Views \ {Page}] /\ view \in Views
  /\ row \in [Notifications -> [made : BOOLEAN, read : {"no"}, hidden : {FALSE}]]
  /\ pushes = {} /\ online = TRUE
  /\ entry = [e \in Lists |-> NoEntry]
  /\ query = [e \in Lists |-> Asked]
  /\ told = FALSE
  /\ marking = {} /\ mark = [n \in Notifications |-> NoMark] /\ click = NoClick
  /\ moves = 0 /\ mishaps = 0
  /\ refused = {} /\ gap = {}

NoticesNext ==
  \/ \E n \in Notifications :
       \/ Create(n) \/ Receive(n) \/ Elsewhere(n)
       \/ FindMark(n) \/ UpdateMark(n) \/ \E ok \in BOOLEAN : MarkEnds(n, ok)
       \/ \E op \in {"mark", "hide"} : Click(op, {n})
  \/ Click("all", {}) \/ FindClick \/ UpdateClick \/ \E ok \in BOOLEAN : ClickEnds(ok)
  \/ \E e \in Lists : ReadList(e) \/ Answer(e) \/ AnswerFails(e)
  \/ Disconnect \/ Connect
  \/ \E v \in Views : See(v)

NoticesSpec == NoticesInit /\ [][NoticesNext]_noticeVars

------------------------------------------------------------------------------
AtRest == ~Pending(query, mark, click) /\ pushes = {}

(* Once nothing is on its way, what the lists and the badge show is what   *)
(* the server has: a total that was counted on from an older answer, or    *)
(* read apart from its rows, is not left standing.  Not in a list whose    *)
(* query failed, or after an event was missed or another tab acted, until  *)
(* it is fetched again.                                                    *)
CountsRight ==
  AtRest => \A e \in Lists \ gap :
              /\ IsPageOf(entry[e].items, e)
              /\ entry[e].total = Cardinality(Listed)

(* Once nothing is on its way, no notice about the view is left unread,    *)
(* unless the last request to mark it was refused: nothing asks again      *)
(* until the view or the list changes.                                     *)
ViewIsRead ==
  AtRest /\ "unread" \notin gap =>
    \A n \in Listed : about[n] = view => n \in refused

(* The time a notice was first read is kept, unless it was read between    *)
(* the two steps of a request (notifications.service.ts 88).               *)
FirstReadingKept ==
  \A n \in Notifications :
    row[n].read # "no" /\ row'[n].read # row[n].read =>
      \/ mark[n].at = "found" /\ mark[n].found # row[n].read
      \/ click.at = "found" /\ click.of = {n} /\ click.found # row[n].read

NoticesSound == [][CountsRight' /\ ViewIsRead' /\ FirstReadingKept]_noticeVars
==============================================================================
