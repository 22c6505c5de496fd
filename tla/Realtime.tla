------------------------------ MODULE Realtime ------------------------------
(***************************************************************************)
(* One browser tab that watches the chat: the socket of the gateway        *)
(* (chat.gateway.ts) with the events of new messages, the caches of RTK    *)
(* Query (chatApi.ts), which the events patch and invalidate               *)
(* (SocketManager.tsx), and the requests that refetch them.                *)
(*                                                                         *)
(* A cache is a multiset of messages: count[e][m] says how often entry e   *)
(* counts m.  For the list of a topic that is whether m is in it, or, when *)
(* m is a reply, its share in the replyCount of its parent; for the other  *)
(* entries it is the share of m in an unreadCount.                         *)
(*                                                                         *)
(* The chat is the one the user sees: its rooms and topics stay, and other *)
(* tabs of the user post nothing.  Other queries of the chat take no time, *)
(* and a topic has one markTopicRead on its way at most.  Leaving the page *)
(* of the chat is LeaveTopic, and coming back selects the topic again.     *)
(***************************************************************************)
EXTENDS Naturals, Sequences

CONSTANTS
  Rooms, Topics, Messages,  \* ids; those of the chat are all of the user's
  RoomOf,     \* RoomOf[t]: the room of topic t
  OldIn,      \* OldIn[m]: the topic of a message from before, or None
  RoomsList,  \* the entry of getRooms
  None,
  MaxFailures, MaxVisits   \* bounds of failures, and of selections

ASSUME RealtimeAssumption ==
  /\ RoomOf \in [Topics -> Rooms]
  /\ OldIn \in [Messages -> Topics \union {None}]
  /\ Rooms \intersect Topics = {}
  /\ RoomsList \notin Rooms \union Topics
  /\ None \notin Rooms \union Topics \union Messages
  /\ MaxFailures \in Nat /\ MaxVisits \in Nat

VARIABLES
  post,       \* table Message, and how far its handler has got
  seen,       \* messages with a UserReadMessage of the user
  link,       \* is the socket connected
  channels,   \* rooms whose channel the socket has joined
  toServer,   \* events on their way to the gateway
  toClient,   \* messages on their way to the tab (message:new)
  room,       \* selectedRoomId
  topic,      \* selectedTopicId, while its list is on the screen
  active,     \* activeRoomRef
  processed,  \* processedMessageIdsRef
  cached,     \* entries that hold data
  count,      \* what they count
  fetch,      \* fetch[e]: the query of e on its way
  stale,      \* entries invalidated while something was pending
  marking,    \* marking[t]: the markTopicRead of t on its way
  sending,    \* the message whose sendMessage is on its way
  failures, visits, \* counted up to their bounds
  gap,        \* history: entries that a failure has kept from an update
  met         \* history: messages whose announcement met a query of the
              \* unread counts or a visit to their topic

server == <<post, seen>>
socket == <<link, channels, toServer, toClient>>
screen == <<room, topic, active>>
caches == <<cached, count, fetch, stale>>
realtimeVars == <<server, socket, screen, processed, caches, marking, sending, failures, visits, gap, met>>

Entries == Topics \union Rooms \union {RoomsList}

(* Entries with an unreadCount: getRooms, and getTopics of each room.      *)
Badges == Rooms \union {RoomsList}

NoPost == [stage |-> "free", topic |-> None, parent |-> None, own |-> FALSE]

Posts == [stage : {"asked", "written", "told", "mute"}, topic : Topics,
          parent : Messages \union {None}, own : BOOLEAN]

Idle == [phase |-> "idle", data |-> {}]

Asked == [phase |-> "asked", data |-> {}]

Calls == [phase : {"idle", "asked", "served", "written"}, data : SUBSET Messages]

Written == {m \in Messages : post[m].stage \notin {"free", "asked"}}

In(t) == {m \in Messages : post[m].topic = t}

(* What the server answers: listMessages, listTopics and listRooms.        *)
Listed(t) == Written \intersect In(t)

UnreadIn(r) == {m \in Written \ seen : RoomOf[post[m].topic] = r}

Content(e) ==
  CASE e \in Topics  -> Listed(e)
    [] e \in Rooms   -> UnreadIn(e)
    [] e = RoomsList -> Written \ seen

Once(S) == [m \in Messages |-> IF m \in S THEN 1 ELSE 0]

------------------------------------------------------------------------------
(* RTK Query *)

(* Entries a component on the screen, or in the bar above it, uses.        *)
Subscribed == {RoomsList} \union ({room, topic} \ {None})

(* Mutant: invalidationBehavior "immediately".                             *)
PendingNever(f, mk, sd) == FALSE

(* Nothing is invalidated while a query or a mutation is on its way        *)
(* (invalidationBehavior "delayed").                                       *)
Pending(f, mk, sd) ==
  \/ sd # None
  \/ \E e \in Entries : f[e] # Idle
  \/ \E t \in Topics : mk[t] # Idle

(* The entries E become stale once the step has led to queries f, entries  *)
(* k with counts c, and calls mk and sd: they are fetched again, or        *)
(* dropped if nobody uses them, as soon as nothing is pending.             *)
Invalidate(E, f, k, c, mk, sd) ==
  LET s == stale \union E
      pending == Pending(f, mk, sd)
  IN /\ stale'  = IF pending THEN s ELSE {}
     /\ fetch'  = [e \in Entries |-> IF ~pending /\ f[e] = Idle /\ e \in s \intersect Subscribed
                                     THEN Asked ELSE f[e]]
     /\ cached' = IF pending THEN k ELSE k \ (s \ Subscribed)
     /\ count'  = [e \in Entries |-> IF e \in cached' THEN c[e] ELSE Once({})]

(* A component mounts: its entry is fetched unless that is under way.      *)
Mount(e) == fetch' = [fetch EXCEPT ![e] = IF fetch[e] = Idle THEN Asked ELSE fetch[e]]

Serve(e) ==
  /\ fetch[e].phase = "asked"
  /\ fetch' = [fetch EXCEPT ![e] = [phase |-> "served", data |-> Content(e)]]
  /\ gap' = gap \ {e}
  /\ UNCHANGED <<server, socket, screen, processed, cached, count, stale, marking, sending>>

(* The answer replaces whatever the entry holds.                           *)
Settle(e) ==
  /\ fetch[e].phase = "served"
  /\ Invalidate({}, [fetch EXCEPT ![e] = Idle], cached \union {e},
                [count EXCEPT ![e] = Once(fetch[e].data)], marking, sending)
  /\ UNCHANGED <<server, socket, screen, processed, marking, sending, gap>>

FetchFails(e) ==
  /\ fetch[e] # Idle
  /\ Invalidate({}, [fetch EXCEPT ![e] = Idle], cached, count, marking, sending)
  /\ gap' = gap \union {e}
  /\ UNCHANGED <<server, socket, screen, processed, marking, sending>>

------------------------------------------------------------------------------
(* Posting: createMessage inserts the row, then announces it *)

Parents(t) == {m \in Written \intersect In(t) : post[m].parent = None} \union {None}

(* Somebody else's request inserts a message.                              *)
OthersWrite(m) ==
  /\ post[m] = NoPost
  /\ \E t \in Topics, p \in Messages \union {None} :
       /\ p \in Parents(t)
       /\ post' = [post EXCEPT ![m] = [stage |-> "written", topic |-> t, parent |-> p, own |-> FALSE]]
  /\ UNCHANGED <<seen, socket, screen, processed, caches, marking, sending, gap>>

(* handleSend; the input is disabled while a message is on its way.        *)
SendMessage(m) ==
  /\ post[m] = NoPost /\ topic # None /\ sending = None
  /\ \E p \in Messages \union {None} :
       /\ p \in Parents(topic)
       /\ p # None => topic \in cached /\ count[topic][p] = 1
       /\ post' = [post EXCEPT ![m] = [stage |-> "asked", topic |-> topic, parent |-> p, own |-> TRUE]]
  /\ sending' = m
  /\ UNCHANGED <<seen, socket, screen, processed, caches, marking, gap>>

WriteMessage(m) ==
  /\ post[m].stage = "asked"
  /\ post' = [post EXCEPT ![m].stage = "written"]
  /\ UNCHANGED <<seen, socket, screen, processed, caches, marking, sending, gap>>

(* emitToRoom, then emitToUser for the other members: a member who is in   *)
(* the channel of the room gets the event twice.                           *)
Emitted(m) ==
  (IF RoomOf[post[m].topic] \in channels THEN <<m>> ELSE <<>>)
    \o (IF post[m].own THEN <<>> ELSE <<m>>)

Announce(m) ==
  /\ post[m].stage = "written"
  /\ post' = [post EXCEPT ![m].stage = "told"]
  /\ toClient' = IF link THEN toClient \o Emitted(m) ELSE toClient
  /\ gap' = IF link /\ (Emitted(m) # <<>> \/ sending = m) THEN gap ELSE gap \union Entries
  /\ UNCHANGED <<seen, link, channels, toServer, screen, processed, caches, marking, sending>>

(* A handler whose answer nobody in the tab waits for fails between the    *)
(* two.                                                                    *)
AnnounceFails(m) ==
  /\ post[m].stage = "written" /\ sending # m
  /\ post' = [post EXCEPT ![m].stage = "mute"]
  /\ gap' = gap \union Entries
  /\ UNCHANGED <<seen, socket, screen, processed, caches, marking, sending>>

(* What a mutation invalidates: sendMessage the lists it shows up in,      *)
(* markTopicRead every unreadCount.                                        *)
SendTags(t) == {t, RoomsList}

(* Mutant: the tag Topics is forgotten.                                    *)
MarkRooms == {RoomsList}

MarkTags == Badges

(* handleSend goes on to mark the topic as read.                           *)
SendSettles ==
  /\ sending # None /\ post[sending].stage = "told"
  /\ LET t == post[sending].topic IN
     /\ marking[t] = Idle
     /\ marking' = [marking EXCEPT ![t] = Asked]
     /\ Invalidate(SendTags(t), fetch, cached, count, marking, None)
  /\ sending' = None
  /\ UNCHANGED <<server, socket, screen, processed, gap>>

(* Only the answer is lost, or the handler has stopped as well.            *)
SendFails ==
  /\ sending # None
  /\ \/ post' = post
     \/ post[sending].stage = "asked" /\ post' = [post EXCEPT ![sending] = NoPost]
     \/ post[sending].stage = "written" /\ post' = [post EXCEPT ![sending].stage = "mute"]
  /\ Invalidate(SendTags(post[sending].topic), fetch, cached, count, marking, None)
  /\ sending' = None
  /\ gap' = gap \union Entries
  /\ UNCHANGED <<seen, socket, screen, processed, marking>>

------------------------------------------------------------------------------
(* Marking a topic as read: markTopicRead *)

FindUnread(t) ==
  /\ marking[t].phase = "asked"
  /\ marking' = [marking EXCEPT ![t] = [phase |-> "served", data |-> (Written \intersect In(t)) \ seen]]
  /\ UNCHANGED <<server, socket, screen, processed, caches, sending, gap>>

InsertReads(t) ==
  /\ marking[t].phase = "served"
  /\ seen' = seen \union marking[t].data
  /\ marking' = [marking EXCEPT ![t] = [phase |-> "written", data |-> {}]]
  /\ UNCHANGED <<post, socket, screen, processed, caches, sending, gap>>

MarkSettles(t) ==
  /\ marking[t].phase = "written"
  /\ marking' = [marking EXCEPT ![t] = Idle]
  /\ Invalidate(MarkTags, fetch, cached, count, marking', sending)
  /\ UNCHANGED <<server, socket, screen, processed, sending, gap>>

(* A failed call invalidates its tags as well.                             *)
MarkFails(t) ==
  /\ marking[t] # Idle
  /\ marking' = [marking EXCEPT ![t] = Idle]
  /\ Invalidate(MarkTags, fetch, cached, count, marking', sending)
  /\ UNCHANGED <<server, socket, screen, processed, sending, gap>>

------------------------------------------------------------------------------
(* The socket *)

(* Mutant: a new connection joins nothing.                                 *)
RejoinNone == <<>>

(* handleConnect                                                           *)
Rejoin == IF active = None THEN <<>> ELSE <<[op |-> "join", room |-> active]>>

Connect ==
  /\ ~link
  /\ link' = TRUE
  /\ toServer' = Rejoin
  /\ UNCHANGED <<server, channels, toClient, screen, processed, caches, marking, sending, gap>>

(* The connection is lost, or replaced by one with a new token.            *)
Disconnect ==
  /\ link
  /\ link' = FALSE
  /\ channels' = {}
  /\ toServer' = <<>> /\ toClient' = <<>>
  /\ gap' = IF \E i \in DOMAIN toClient : toClient[i] \notin processed
            THEN gap \union Entries ELSE gap
  /\ UNCHANGED <<server, screen, processed, caches, marking, sending>>

(* handleJoinRoom, handleLeaveRoom                                         *)
ServeSocket ==
  /\ toServer # <<>>
  /\ LET ev == Head(toServer) IN
     channels' = IF ev.op = "join" THEN channels \union {ev.room} ELSE channels \ {ev.room}
  /\ toServer' = Tail(toServer)
  /\ UNCHANGED <<server, link, toClient, screen, processed, caches, marking, sending, gap>>

(* The effect of SocketManager that follows selectedRoomId.                *)
FollowRoom ==
  /\ active # room
  /\ active' = room
  /\ toServer' = IF ~link THEN toServer
                 ELSE toServer
                        \o (IF active = None THEN <<>> ELSE <<[op |-> "leave", room |-> active]>>)
                        \o (IF room = None THEN <<>> ELSE <<[op |-> "join", room |-> room]>>)
  /\ UNCHANGED <<server, link, channels, toClient, room, topic, processed, caches, marking, sending, gap>>

------------------------------------------------------------------------------
(* Events: applyIncomingMessage *)

(* upsertMessage puts a message into its list once, with the replyCount of *)
(* the event: none, whatever the list had counted.  A reply adds one to    *)
(* the replyCount of a parent that is there.                               *)
PatchList(m) ==
  LET c == count[post[m].topic]
      p == post[m].parent
  IN IF p = None THEN [x \in Messages |-> IF x = m THEN 1 ELSE IF post[x].parent = m THEN 0 ELSE c[x]]
     ELSE IF c[p] = 0 THEN c
     ELSE [c EXCEPT ![m] = c[m] + 1]

(* An unread message adds one to the counts of its room and topic; one     *)
(* that is the user's own or on the screen clears that of its topic.       *)
Patched(m) ==
  LET p == post[m]
      unread == ~p.own /\ topic # p.topic
      plus(c) == [c EXCEPT ![m] = c[m] + 1]
      cleared(c) == [x \in Messages |-> IF x \in In(p.topic) THEN 0 ELSE c[x]]
  IN [e \in Entries |->
        CASE e \notin cached                -> count[e]
          [] e \in cached /\ e = p.topic          -> PatchList(m)
          [] e \in cached /\ e = RoomOf[p.topic]  -> IF unread THEN plus(count[e]) ELSE cleared(count[e])
          [] e \in cached /\ e = RoomsList        -> IF unread THEN plus(count[e]) ELSE count[e]
          [] OTHER                          -> count[e]]

(* The check of processedMessageIdsRef.                                    *)
Fresh(m) == m \notin processed

(* Mutant: the event only patches.                                         *)
OutdatedNone(m) == {}

(* The tags an event invalidates.                                          *)
Outdated(m) == {post[m].topic}

Deliver ==
  /\ toClient # <<>>
  /\ toClient' = Tail(toClient)
  /\ LET m == Head(toClient) IN
     IF ~Fresh(m)
     THEN UNCHANGED <<processed, caches>>
     ELSE /\ processed' = processed \union {m}
          /\ Invalidate(Outdated(m), fetch, cached, Patched(m), marking, sending)
  /\ UNCHANGED <<server, link, channels, toServer, screen, marking, sending, gap>>

------------------------------------------------------------------------------
(* The user *)

SelectRoom(r) ==
  /\ r # room
  /\ room' = r /\ topic' = None
  /\ IF r = None THEN UNCHANGED fetch ELSE Mount(r)
  /\ UNCHANGED <<server, socket, active, processed, cached, count, stale, marking, sending, gap>>

(* The list is fetched, and the topic marked as read.                      *)
SelectTopic(t) ==
  /\ t # topic /\ RoomOf[t] = room /\ room \in cached
  /\ topic' = t
  /\ Mount(t)
  /\ marking[t] = Idle
  /\ marking' = [marking EXCEPT ![t] = Asked]
  /\ UNCHANGED <<server, socket, room, active, processed, cached, count, stale, sending, gap>>

LeaveTopic ==
  /\ topic # None
  /\ topic' = None
  /\ UNCHANGED <<server, socket, room, active, processed, caches, marking, sending, gap>>

------------------------------------------------------------------------------
(* Every step notes which messages are on their way to the tab while an    *)
(* unreadCount is queried or their topic is visited.                       *)
Watch ==
  met' = met \union
    {m \in Messages \ processed :
       /\ post'[m].stage = "written" \/ \E i \in DOMAIN toClient' : toClient'[i] = m
       /\ \/ \E e \in Badges : fetch[e] # Idle \/ fetch'[e] # Idle
          \/ post'[m].topic \in {topic, topic'}
          \/ \E t \in Topics : t = post'[m].topic /\ (marking[t] # Idle \/ marking'[t] # Idle)}

Old == {m \in Messages : OldIn[m] # None}

(* The chat is opened: the tab is connected and has the list of rooms.     *)
RealtimeInit ==
  /\ post = [m \in Messages |->
       IF OldIn[m] = None THEN NoPost
       ELSE [stage |-> "told", topic |-> OldIn[m], parent |-> None, own |-> FALSE]]
  /\ seen = {} /\ link = TRUE /\ channels = {}
  /\ toServer = <<>> /\ toClient = <<>>
  /\ room = None /\ topic = None /\ active = None
  /\ processed = {}
  /\ cached = {RoomsList} /\ stale = {}
  /\ count = [e \in Entries |-> Once(IF e = RoomsList THEN Old ELSE {})]
  /\ fetch = [e \in Entries |-> Idle]
  /\ marking = [t \in Topics |-> Idle] /\ sending = None
  /\ failures = 0 /\ visits = 0
  /\ gap = {} /\ met = {}

(* What goes on by itself.                                                *)
Progress ==
  \/ \E e \in Entries : Serve(e) \/ Settle(e)
  \/ \E m \in Messages : WriteMessage(m) \/ Announce(m)
  \/ \E t \in Topics : FindUnread(t) \/ InsertReads(t) \/ MarkSettles(t)
  \/ SendSettles \/ Connect \/ ServeSocket \/ FollowRoom \/ Deliver

Failure ==
  \/ \E e \in Entries : FetchFails(e)
  \/ \E m \in Messages : AnnounceFails(m)
  \/ \E t \in Topics : MarkFails(t)
  \/ SendFails \/ Disconnect

Visit ==
  \/ \E r \in Rooms \union {None} : SelectRoom(r)
  \/ \E t \in Topics : SelectTopic(t)

Posting == \E m \in Messages : OthersWrite(m) \/ SendMessage(m)

Unbounded(A) == A /\ Watch /\ UNCHANGED <<failures, visits>>

RealtimeNext ==
  \/ Unbounded(Progress \/ Posting \/ LeaveTopic)
  \/ Failure /\ failures < MaxFailures /\ failures' = failures + 1 /\ Watch /\ UNCHANGED visits
  \/ Visit /\ visits < MaxVisits /\ visits' = visits + 1 /\ Watch /\ UNCHANGED failures

(* Requests are answered, the socket delivers and reconnects by itself,    *)
(* and effects run.                                                        *)
RealtimeFairness ==
  /\ \A e \in Entries : WF_realtimeVars(Unbounded(Serve(e) \/ Settle(e)))
  /\ \A m \in Messages : WF_realtimeVars(Unbounded(WriteMessage(m) \/ Announce(m)))
  /\ \A t \in Topics : WF_realtimeVars(Unbounded(FindUnread(t) \/ InsertReads(t) \/ MarkSettles(t)))
  /\ WF_realtimeVars(Unbounded(SendSettles))
  /\ WF_realtimeVars(Unbounded(Deliver))
  /\ WF_realtimeVars(Unbounded(Connect \/ ServeSocket \/ FollowRoom))

RealtimeSpec == RealtimeInit /\ [][RealtimeNext]_realtimeVars /\ RealtimeFairness

------------------------------------------------------------------------------
AtRest ==
  /\ toClient = <<>> /\ stale = {} /\ sending = None
  /\ \A e \in Entries : fetch[e] = Idle
  /\ \A t \in Topics : marking[t] = Idle
  /\ \A m \in Messages : post[m].stage \notin {"asked", "written"}

(* Once nothing is pending, a list the tab holds has every message of its  *)
(* topic once, and every reply counts once for its parent, whatever the    *)
(* events, answers and invalidations overtook; failures that kept an       *)
(* event or an answer from the list are left aside until the next query.   *)
ListsExact ==
  AtRest => \A t \in (Topics \intersect cached) \ gap : count[t] = Once(Content(t))

(* If nothing failed, the unreadCounts the tab holds are those the server  *)
(* would send, up to the messages whose announcement met a query of the    *)
(* counts, or a visit to their topic: they may be counted twice or not     *)
(* at all until the next query (SocketManager.tsx has no order to go by).  *)
BadgesExact ==
  AtRest /\ failures = 0 =>
    \A e \in Badges \intersect cached, m \in Messages \ met :
      count[e][m] = Once(Content(e))[m]

(* Once the gateway has served what the tab sent, the socket is in the     *)
(* channel of the active room and in no other, across reconnects and       *)
(* changes of the room.                                                    *)
JoinedActive ==
  (link /\ toServer = <<>>) => channels = {active} \ {None}

(* A topic that stays on the screen comes to show exactly its messages,    *)
(* however often it has fallen behind, unless a failure has kept an event  *)
(* or an answer from its list: what is invalidated is not forgotten, and   *)
(* nobody waits for ever for the queries under way.                        *)
ShownEventually ==
  \A t \in Topics :
    topic = t ~> (topic # t \/ t \in gap \/ count[t] = Once(Content(t)))

(* No entry counts a message more than twice, however often the message    *)
(* was announced, and the rest of the state has its type.                  *)
RealtimeTypeOK ==
  /\ post \in [Messages -> Posts \union {NoPost}]
  /\ {seen, processed, met} \subseteq SUBSET Messages
  /\ link \in BOOLEAN /\ channels \subseteq Rooms
  /\ toServer \in Seq([op : {"join", "leave"}, room : Rooms])
  /\ toClient \in Seq(Messages)
  /\ {room, active} \subseteq Rooms \union {None}
  /\ topic \in Topics \union {None}
  /\ cached \subseteq Entries /\ stale \subseteq Entries /\ gap \subseteq Entries
  /\ count \in [Entries -> [Messages -> 0 .. 2]]
  /\ fetch \in [Entries -> Calls]
  /\ marking \in [Topics -> Calls]
  /\ sending \in Messages \union {None}
  /\ failures \in 0 .. MaxFailures /\ visits \in 0 .. MaxVisits

(* What entries count is exact at rest, and never off by more than one     *)
(* repetition.                                                             *)
CountsExact == RealtimeTypeOK /\ BadgesExact
==============================================================================
