----------------------------- MODULE Conversation ----------------------------
(***************************************************************************)
(* The topics of a room, who may see them, and their messages              *)
(* (topics.service.ts, messages.service.ts and their controllers): a topic *)
(* is created, gets a visibility scope, and is deleted with its messages;  *)
(* messages are posted, answered, pinned, listed and marked as read.       *)
(* Every check of a request is a statement of its own, so rooms, topics    *)
(* and scopes change between the checks and what follows from them.        *)
(*                                                                         *)
(* Who is a member of a room, and as what, changes as Membership allows:   *)
(* Rooms implements it.  Scopes by unit or tag work like INCLUDE_MEMBERS,  *)
(* with the users of those units for entries, and are not told apart from  *)
(* it.  Titles, texts and archiving, which no decision reads, are left     *)
(* out; what is sent to the clients changes nothing on the server.         *)
(***************************************************************************)
EXTENDS RoomRoles, Naturals

CONSTANTS
  Topics, Messages, Scopes,  \* row ids
  ChatOps                    \* the operations of this instance

ASSUME ChatOpsAssumption ==
  ChatOps \subseteq {"post", "pin", "list", "markRead", "createTopic", "deleteTopic",
                     "setScope", "patchScope"}

ASSUME RowIdAssumption == None \notin Topics \union Messages \union Scopes

VARIABLES
  standing,  \* standing[r][u]: the role of u in room r (UserRoomMembership)
  topic,     \* table Topic, with the id of its TopicVisibilityScope
  scope,     \* table TopicVisibilityScope with its entries
  message,   \* table Message
  readBy,    \* readBy[m]: users with a UserReadMessage for m
  chatReq,   \* chatReq[h]: the request handler h works on
  since,     \* history: what has been so at some moment of request h
  late       \* history: messages whose insert met the deletion of their topic

chatTables == <<standing, topic, scope, message, readBy>>
chatVars == <<standing, topic, scope, message, readBy, chatReq, since, late>>

NoTopic == [room |-> None, deleted |-> FALSE, scope |-> None]

TopicRows == [room : Rooms, deleted : BOOLEAN, scope : Scopes \union {None}]

ScopeTypes == {"ALL_MEMBERS", "INCLUDE_MEMBERS", "EXCLUDE_MEMBERS"}

NoScope == [type |-> "none", entries |-> {}]

(* A row that has been deleted; its id is not used again.                  *)
GoneScope == [type |-> "gone", entries |-> {}]

ScopeRows == [type : ScopeTypes, entries : SUBSET Users]

NoMessage == [topic |-> None, parent |-> None, level |-> 0, deleted |-> FALSE, pinned |-> FALSE]

MessageRows == [topic : Topics, parent : Messages \union {None}, level : Nat,
                deleted : BOOLEAN, pinned : BOOLEAN]

(* parent: the message answered or pinned; scope, type: the scope the      *)
(* request has read; level: of the message to insert; rows: the messages   *)
(* it has read and is about to write.                                      *)
NoChatReq == [op |-> "none", at |-> "idle", actor |-> None, room |-> None, topic |-> None,
              parent |-> None, scope |-> None, type |-> "none", level |-> 0, rows |-> {}]

ChatReqs ==
  [op : ChatOps \union {"none"},
   at : {"idle", "topic", "member", "scope", "role", "entry", "permission", "exists", "parent",
         "write", "commit"},
   actor : Users \union {None}, room : Rooms \union {None}, topic : Topics \union {None},
   parent : Messages \union {None}, scope : Scopes \union {None},
   type : ScopeTypes \union {"none"}, level : Nat, rows : SUBSET Messages]

(* member, visible: the actor has been a member of the topic's room, the   *)
(* topic was visible to it; replaced: the topic got another scope; gone:   *)
(* topics deleted, news: messages inserted, while the request ran.         *)
Nothing == [member |-> FALSE, visible |-> FALSE, replaced |-> FALSE, gone |-> {}, news |-> {}]

Histories == [member : BOOLEAN, visible : BOOLEAN, replaced : BOOLEAN,
              gone : SUBSET Topics, news : SUBSET Messages]

MembersOf == INSTANCE Membership WITH role <- standing

Exists(t) == topic[t] # NoTopic

Live(m) == message[m] # NoMessage /\ ~message[m].deleted

LiveIn(t) == {m \in Messages : message[m].topic = t /\ Live(m)}

ScopeAllows(s, u) ==
  CASE s.type = "INCLUDE_MEMBERS" -> u \in s.entries
    [] s.type = "EXCLUDE_MEMBERS" -> u \notin s.entries
    [] OTHER                      -> TRUE

(* Whether a user with role x sees a topic that has the scope of id s.     *)
CanSee(u, x, s, scopes) == x \in Managers \/ s = None \/ ScopeAllows(scopes[s], u)

ChatAt(h, ops, at) == chatReq[h].op \in ops /\ chatReq[h].at = at

ChatGo(h, q) == chatReq' = [chatReq EXCEPT ![h] = q]

FinishChat(h) == ChatGo(h, NoChatReq)

ChatProceed(h, at) == ChatGo(h, [chatReq[h] EXCEPT !.at = at])

(* Every step keeps the histories of the requests in flight.               *)
WatchChat ==
  since' = [h \in Handlers |->
    LET q == chatReq'[h]
        old == since[h]
    IN IF q.op = "none" THEN Nothing
       ELSE [member   |-> old.member \/ standing'[q.room][q.actor] # "none",
             visible  |-> old.visible
                            \/ (q.topic # None
                                  /\ CanSee(q.actor, standing'[q.room][q.actor],
                                            topic'[q.topic].scope, scope')),
             replaced |-> old.replaced
                            \/ (chatReq[h].topic # None
                                  /\ topic'[q.topic].scope # topic[q.topic].scope),
             gone     |-> IF chatReq[h].op = "none" THEN {}
                          ELSE old.gone \union
                                 {t \in Topics : topic'[t].deleted /\ ~topic[t].deleted},
             news     |-> IF chatReq[h].op = "none" THEN {}
                          ELSE old.news \union
                                 {m \in Messages : message'[m] # NoMessage /\ message[m] = NoMessage}]]

------------------------------------------------------------------------------
(* Requests arrive.  Those of ManagerOps have passed ChatPermissionGuard.  *)

ManagerOps == {"createTopic", "deleteTopic", "setScope", "patchScope"}

StartChat(h) ==
  /\ chatReq[h] = NoChatReq
  /\ \E op \in ChatOps, u \in Users :
       \/ /\ op \in {"post", "list", "markRead"}
          /\ \E t \in Topics, p \in Messages \union {None} :
               /\ Exists(t)
               /\ p # None => op = "post" /\ message[p] # NoMessage
               /\ ChatGo(h, [NoChatReq EXCEPT !.op = op, !.actor = u, !.room = topic[t].room,
                           !.topic = t, !.parent = p, !.at = IF op = "markRead" THEN "topic" ELSE "member"])
       \/ /\ op = "pin"
          /\ \E m \in Messages :
               /\ message[m] # NoMessage
               /\ ChatGo(h, [NoChatReq EXCEPT !.op = op, !.actor = u, !.topic = message[m].topic,
                           !.room = topic[message[m].topic].room, !.parent = m, !.at = "member"])
       \/ /\ op \in ManagerOps \ {"createTopic"}
          /\ \E t \in Topics :
               /\ Exists(t) /\ standing[topic[t].room][u] \in Managers
               /\ ChatGo(h, [NoChatReq EXCEPT !.op = op, !.actor = u, !.room = topic[t].room,
                           !.topic = t, !.at = "topic"])
       \/ /\ op = "createTopic"
          /\ \E r \in Rooms :
               /\ standing[r][u] \in Managers
               /\ ChatGo(h, [NoChatReq EXCEPT !.op = op, !.actor = u, !.room = r, !.at = "member"])
  /\ UNCHANGED <<chatTables, late>>

------------------------------------------------------------------------------
(* The checks *)

(* assertRoomMember                                                        *)
AssertRoomMember(h) ==
  /\ chatReq[h].at = "member"
  /\ LET q == chatReq[h] IN
     IF standing[q.room][q.actor] = "none" THEN FinishChat(h)
     ELSE ChatProceed(h, CASE q.op = "pin"         -> "permission"
                       [] q.op = "createTopic" -> "write"
                       [] OTHER                -> "scope")
  /\ UNCHANGED <<chatTables, late>>

(* assertTopicVisible reads the topic with the id and type of its scope.   *)
ReadScope(h) ==
  /\ chatReq[h].at = "scope"
  /\ LET q == chatReq[h]
         s == topic[q.topic].scope
     IN IF topic[q.topic].deleted THEN FinishChat(h)
        ELSE ChatGo(h, [q EXCEPT !.at = "role", !.scope = s,
                      !.type = IF s = None THEN "none" ELSE scope[s].type])
  /\ UNCHANGED <<chatTables, late>>

(* Where a request goes when its topic is visible.                         *)
Admitted(q) == [q EXCEPT !.at = IF q.op = "post" THEN "permission" ELSE "write"]

(* computeCanSee: owner and admin of the room see everything; without a    *)
(* scope, or with ALL_MEMBERS, so does everyone.                           *)
ReadPrivilege(h) ==
  /\ chatReq[h].at = "role"
  /\ LET q == chatReq[h] IN
     ChatGo(h, IF \/ standing[q.room][q.actor] \in Managers
              \/ q.type \in {"none", "ALL_MEMBERS"}
           THEN Admitted(q) ELSE [q EXCEPT !.at = "entry"])
  /\ UNCHANGED <<chatTables, late>>

(* Mutant: the look-up of the entry ignores what kind of scope it is of.   *)
ReadEntryAnyType(h) ==
  /\ chatReq[h].at = "entry"
  /\ LET q == chatReq[h]
         listed == q.actor \in scope[q.scope].entries
     IN IF listed THEN ChatGo(h, Admitted(q)) ELSE FinishChat(h)
  /\ UNCHANGED <<chatTables, late>>

(* The entry of the user, looked up by the id of the scope that was read:  *)
(* the entries of a scope that has been replaced are gone.                 *)
ReadEntry(h) ==
  /\ chatReq[h].at = "entry"
  /\ LET q == chatReq[h]
         listed == q.actor \in scope[q.scope].entries
     IN IF listed = (q.type = "INCLUDE_MEMBERS") THEN ChatGo(h, Admitted(q)) ELSE FinishChat(h)
  /\ UNCHANGED <<chatTables, late>>

(* userHasRoomPermission: every role may post, managers may pin.           *)
CheckPermission(h) ==
  /\ chatReq[h].at = "permission"
  /\ LET q == chatReq[h] IN
     IF standing[q.room][q.actor] \in (IF q.op = "pin" THEN Managers ELSE Roles)
     THEN ChatProceed(h, "exists") ELSE FinishChat(h)
  /\ UNCHANGED <<chatTables, late>>

(* The service looks at the topic, or at the message to be pinned.         *)
AssertExists(h) ==
  /\ chatReq[h].at = "exists"
  /\ LET q == chatReq[h] IN
     IF IF q.op = "pin" THEN Live(q.parent) ELSE ~topic[q.topic].deleted
     THEN ChatProceed(h, IF q.op = "post" /\ q.parent # None THEN "parent" ELSE "write")
     ELSE FinishChat(h)
  /\ UNCHANGED <<chatTables, late>>

(* Requests of managers, and markTopicRead, look at the topic first; a     *)
(* patch needs a scope that is not ALL_MEMBERS.                            *)
ReadTopic(h) ==
  /\ chatReq[h].at = "topic"
  /\ LET q == chatReq[h]
         s == topic[q.topic].scope
     IN IF \/ topic[q.topic].deleted
           \/ q.op = "patchScope" /\ (s = None \/ scope[s].type = "ALL_MEMBERS")
        THEN FinishChat(h)
        ELSE ChatGo(h, [q EXCEPT !.at = IF q.op = "markRead" THEN "member" ELSE "write",
                             !.scope = IF q.op = "patchScope" THEN s ELSE None])
  /\ UNCHANGED <<chatTables, late>>

------------------------------------------------------------------------------
(* Messages *)

ReadParent(h) ==
  /\ ChatAt(h, {"post"}, "parent")
  /\ LET q == chatReq[h] IN
     IF Live(q.parent) /\ message[q.parent].topic = q.topic
     THEN ChatGo(h, [q EXCEPT !.at = "write", !.level = message[q.parent].level + 1])
     ELSE FinishChat(h)
  /\ UNCHANGED <<chatTables, late>>

InsertMessage(h) ==
  /\ ChatAt(h, {"post"}, "write")
  /\ \E m \in Messages :
       LET q == chatReq[h] IN
       /\ message[m] = NoMessage
       /\ message' = [message EXCEPT ![m] =
                        [topic |-> q.topic, parent |-> q.parent, level |-> q.level,
                         deleted |-> FALSE, pinned |-> FALSE]]
       /\ late' = IF q.topic \in since[h].gone THEN late \union {m} ELSE late
  /\ FinishChat(h)
  /\ UNCHANGED <<standing, topic, scope, readBy>>

PinMessage(h) ==
  /\ ChatAt(h, {"pin"}, "write")
  /\ \E isPinned \in BOOLEAN :
       message' = [message EXCEPT ![chatReq[h].parent].pinned = isPinned]
  /\ FinishChat(h)
  /\ UNCHANGED <<standing, topic, scope, readBy, late>>

(* listMessages and listReplies answer.                                    *)
ListMessages(h) ==
  /\ ChatAt(h, {"list"}, "write")
  /\ FinishChat(h)
  /\ UNCHANGED <<chatTables, late>>

(* Mutant: as in listMessages, only messages that are no replies.          *)
FindUnreadRoots(h) ==
  /\ ChatAt(h, {"markRead"}, "write")
  /\ LET q == chatReq[h]
         S == {m \in LiveIn(q.topic) : q.actor \notin readBy[m] /\ message[m].level = 0}
     IN IF S = {} THEN FinishChat(h) ELSE ChatGo(h, [q EXCEPT !.at = "commit", !.rows = S])
  /\ UNCHANGED <<chatTables, late>>

FindUnread(h) ==
  /\ ChatAt(h, {"markRead"}, "write")
  /\ LET q == chatReq[h]
         S == {m \in LiveIn(q.topic) : q.actor \notin readBy[m]}
     IN IF S = {} THEN FinishChat(h) ELSE ChatGo(h, [q EXCEPT !.at = "commit", !.rows = S])
  /\ UNCHANGED <<chatTables, late>>

(* createMany with skipDuplicates                                          *)
InsertReads(h) ==
  /\ ChatAt(h, {"markRead"}, "commit")
  /\ LET q == chatReq[h] IN
     readBy' = [m \in Messages |-> IF m \in q.rows THEN readBy[m] \union {q.actor} ELSE readBy[m]]
  /\ FinishChat(h)
  /\ UNCHANGED <<standing, topic, scope, message, late>>

------------------------------------------------------------------------------
(* Topics *)

(* A room that has been deleted refuses the topic, see FailChat.           *)
CreateTopic(h) ==
  /\ ChatAt(h, {"createTopic"}, "write")
  /\ \E t \in Topics :
       /\ topic[t] = NoTopic
       /\ topic' = [topic EXCEPT ![t] =
                      [room |-> chatReq[h].room, deleted |-> FALSE, scope |-> None]]
  /\ FinishChat(h)
  /\ UNCHANGED <<standing, scope, message, readBy, late>>

(* The transaction of deleteTopic: the messages there are, then the topic. *)
(* What is inserted between the two is not among them.                     *)
MarkMessages(h) ==
  /\ ChatAt(h, {"deleteTopic"}, "write")
  /\ ChatGo(h, [chatReq[h] EXCEPT !.at = "commit", !.rows = LiveIn(chatReq[h].topic)])
  /\ UNCHANGED <<chatTables, late>>

(* Mutant: only the messages that are no replies are deleted.              *)
CommitDeletionOfRoots(h) ==
  /\ ChatAt(h, {"deleteTopic"}, "commit")
  /\ LET q == chatReq[h] IN
     /\ topic' = [topic EXCEPT ![q.topic].deleted = TRUE]
     /\ message' = [m \in Messages |-> IF m \in q.rows /\ message[m].level = 0
                                       THEN [message[m] EXCEPT !.deleted = TRUE] ELSE message[m]]
     /\ late' = late \union (since[h].news \intersect LiveIn(q.topic))
  /\ FinishChat(h)
  /\ UNCHANGED <<standing, scope, readBy>>

CommitDeletion(h) ==
  /\ ChatAt(h, {"deleteTopic"}, "commit")
  /\ LET q == chatReq[h] IN
     /\ topic' = [topic EXCEPT ![q.topic].deleted = TRUE]
     /\ message' = [m \in Messages |-> IF m \in q.rows
                                       THEN [message[m] EXCEPT !.deleted = TRUE] ELSE message[m]]
     /\ late' = late \union (since[h].news \intersect LiveIn(q.topic))
  /\ FinishChat(h)
  /\ UNCHANGED <<standing, scope, readBy>>

------------------------------------------------------------------------------
(* Visibility *)

(* setVisibilityScope deletes the scope there is ...                       *)
DropScope(h) ==
  /\ ChatAt(h, {"setScope"}, "write")
  /\ ChatGo(h, [chatReq[h] EXCEPT !.at = "commit", !.scope = topic[chatReq[h].topic].scope])
  /\ UNCHANGED <<chatTables, late>>

(* ... and creates the new one with its entries; a topic has one scope, so *)
(* the transaction fails if another one has been created meanwhile.        *)
CreateScope(h) ==
  /\ ChatAt(h, {"setScope"}, "commit")
  /\ LET q == chatReq[h]
         t == q.topic
     IN IF topic[t].scope # q.scope
        THEN UNCHANGED <<topic, scope>>
        ELSE \E s \in Scopes, type \in ScopeTypes, S \in SUBSET Users :
               /\ scope[s] = NoScope
               /\ topic' = [topic EXCEPT ![t].scope = s]
               /\ scope' = [x \in Scopes |-> IF x = s THEN [type |-> type, entries |-> S]
                                             ELSE IF x = q.scope THEN GoneScope ELSE scope[x]]
  /\ FinishChat(h)
  /\ UNCHANGED <<standing, message, readBy, late>>

(* patchVisibilityScope adds and removes entries of the scope it has read; *)
(* entries of a scope that is gone cannot be added.                        *)
PatchScope(h) ==
  /\ ChatAt(h, {"patchScope"}, "write")
  /\ \E add, remove \in SUBSET Users :
       LET s == chatReq[h].scope IN
       scope' = IF scope[s] = GoneScope THEN scope
                ELSE [scope EXCEPT ![s].entries = (scope[s].entries \union add) \ remove]
  /\ FinishChat(h)
  /\ UNCHANGED <<standing, topic, message, readBy, late>>

(* A handler ends early: a statement fails, or the room has been deleted;  *)
(* what it has not committed is undone.                                    *)
FailChat(h) ==
  /\ chatReq[h] # NoChatReq
  /\ FinishChat(h)
  /\ UNCHANGED <<chatTables, late>>

(* The rooms go on: members join, leave and change their roles.            *)
MembersChange ==
  /\ MembersOf!MembershipNext
  /\ UNCHANGED <<topic, scope, message, readBy, chatReq, late>>

------------------------------------------------------------------------------
(* Rooms have been created with their initial topics, each with a scope    *)
(* that has no entries yet (createRoom), and other topics without one.     *)
ChatInit ==
  /\ standing \in [Rooms -> [Users -> Roles \union {"none"}]]
  /\ \A r \in Rooms : \E u \in Users : {x \in Users : standing[r][x] = "owner"} = {u}
  /\ topic \in [Topics -> {NoTopic} \union [room : Rooms, deleted : {FALSE},
                                           scope : Scopes \union {None}]]
  /\ \A t, x \in Topics : topic[t].scope = topic[x].scope => t = x \/ topic[t].scope = None
  /\ scope \in [Scopes -> {NoScope} \union [type : ScopeTypes, entries : {{}}]]
  /\ \A s \in Scopes : scope[s] # NoScope <=> \E t \in Topics : topic[t].scope = s
  /\ message = [m \in Messages |-> NoMessage]
  /\ readBy = [m \in Messages |-> {}]
  /\ chatReq = [h \in Handlers |-> NoChatReq]
  /\ since = [h \in Handlers |-> Nothing]
  /\ late = {}

ChatStep(h) ==
  \/ StartChat(h)
  \/ AssertRoomMember(h) \/ ReadScope(h) \/ ReadPrivilege(h) \/ ReadEntry(h)
  \/ CheckPermission(h) \/ AssertExists(h) \/ ReadTopic(h)
  \/ ReadParent(h) \/ InsertMessage(h) \/ PinMessage(h) \/ ListMessages(h)
  \/ FindUnread(h) \/ InsertReads(h)
  \/ CreateTopic(h) \/ MarkMessages(h) \/ CommitDeletion(h)
  \/ DropScope(h) \/ CreateScope(h) \/ PatchScope(h)
  \/ FailChat(h)

ChatNext == (MembersChange \/ \E h \in Handlers : ChatStep(h)) /\ WatchChat

ChatSpec == ChatInit /\ [][ChatNext]_chatVars

------------------------------------------------------------------------------
(* Tables, requests and histories keep their types; every scope is of one  *)
(* topic, which has no other (setVisibilityScope).                         *)
ChatTypeOK ==
  /\ standing \in [Rooms -> [Users -> Roles \union {"none"}]]
  /\ topic \in [Topics -> TopicRows \union {NoTopic}]
  /\ scope \in [Scopes -> ScopeRows \union {NoScope, GoneScope}]
  /\ message \in [Messages -> MessageRows \union {NoMessage}]
  /\ readBy \in [Messages -> SUBSET Users]
  /\ chatReq \in [Handlers -> ChatReqs]
  /\ since \in [Handlers -> Histories]
  /\ late \subseteq Messages
  /\ \A s \in Scopes : scope[s] \in ScopeRows <=> \E t \in Topics : topic[t].scope = s
  /\ \A t, x \in Topics : topic[t].scope = topic[x].scope => t = x \/ topic[t].scope = None

(* A thread lies in one topic and its levels count up, and no message      *)
(* outlives its topic, or the message it answers, unless it was inserted   *)
(* while that topic was being deleted (createMessage, deleteTopic).        *)
ThreadsSound ==
  \A m \in Messages :
    LET row == message[m] IN
    Live(m) =>
      /\ ~topic[row.topic].deleted \/ m \in late
      /\ row.parent # None =>
           /\ message[row.parent].topic = row.topic
           /\ row.level = message[row.parent].level + 1
           /\ Live(row.parent) \/ m \in late

(* Topics have a scope of their own, and threads are sound.                *)
ConversationSound == ChatTypeOK /\ ThreadsSound

(* Whoever has passed the checks of a request has been a member of the     *)
(* room while it ran, and the topic was visible to it at some moment,      *)
(* unless its scope was replaced between the two look-ups of computeCanSee *)
(* (ReadScope, ReadEntry), which makes an exclusion list look empty.       *)
SeenWithinWindow ==
  \A h \in Handlers :
    (chatReq[h].op \in {"post", "list", "markRead"}
       /\ chatReq[h].at \in {"permission", "exists", "parent", "write", "commit"})
      => /\ since[h].member
         /\ since[h].visible \/ since[h].replaced

(* Opening a topic marks it read as a whole: the step that marks messages  *)
(* leaves none unread that was there when the request arrived              *)
(* (markTopicRead).                                                        *)
MarksWholeTopic ==
  [][\A h \in Handlers :
       (ChatAt(h, {"markRead"}, "commit") /\ readBy' # readBy /\ chatReq'[h] # chatReq[h]) =>
         \A m \in LiveIn(chatReq[h].topic) \ since[h].news :
           chatReq[h].actor \in readBy'[m]]_chatVars
==============================================================================
