-------------------------- MODULE Conversation_proofs -------------------------
(***************************************************************************)
(* Proofs about Conversation, for every set of users, rooms, topics,       *)
(* messages, scopes, handlers and operations.                              *)
(*                                                                         *)
(* Beside the tables, the invariant says of every request in flight what   *)
(* it carries at each statement (Shape), which rows it stands on (Place),  *)
(* what it knows of who sees its topic (Sight), of the message it is about *)
(* to insert (Answer) and of the rows it is about to write (Covered): each *)
(* of these was true of the tables when the request looked, and stays true *)
(* up to what its history has seen since.  Grown says what no step of      *)
(* anyone undoes; it is why the requests of the others keep what they know.*)
(***************************************************************************)
EXTENDS Conversation, TLAPS

Posts == {"post", "list", "markRead"}

(* Where the requests of an operation can be.                              *)
Stations(op) ==
  CASE op = "post" -> {"member", "scope", "role", "entry", "permission", "exists", "parent", "write"}
    [] op = "list" -> {"member", "scope", "role", "entry", "write"}
    [] op = "markRead" -> {"topic", "member", "scope", "role", "entry", "write", "commit"}
    [] op = "pin" -> {"member", "permission", "exists", "write"}
    [] op = "createTopic" -> {"member", "write"}
    [] op \in {"deleteTopic", "setScope"} -> {"topic", "write", "commit"}
    [] op = "patchScope" -> {"topic", "write"}
    [] OTHER -> {"idle"}

(* What a request carries, by its operation and statement.                 *)
Shape(q) ==
  /\ q.at \in Stations(q.op)
  /\ q.op = "none" => q = NoChatReq
  /\ q.op # "none" => q.actor \in Users
  /\ q.op \notin {"none", "createTopic", "pin"} => q.topic \in Topics
  /\ q.op = "createTopic" => q.room \in Rooms
  /\ q.op = "pin" => q.parent \in Messages
  /\ q.at = "parent" => q.parent \in Messages
  /\ q.at \in {"role", "entry"} => (q.scope = None => q.type = "none")
  /\ q.at = "entry" => q.type \in {"INCLUDE_MEMBERS", "EXCLUDE_MEMBERS"}
  /\ q.op = "patchScope" /\ q.at = "write" => q.scope \in Scopes

(* The rows a request stands on are there.                                 *)
Place(q) ==
  /\ q.op \notin {"none", "createTopic", "pin"} => Exists(q.topic)
  /\ q.op = "pin" => message[q.parent] # NoMessage
  /\ q.op = "patchScope" /\ q.at = "write" => scope[q.scope] # NoScope

(* What a request with history s has found out about who sees its topic.   *)
Sight(q, s) ==
  q.op \in Posts =>
    /\ q.at \notin {"topic", "member"} => s.member
    /\ q.at \in {"role", "entry"} =>
         \/ s.replaced
         \/ /\ topic[q.topic].scope = q.scope
            /\ q.scope # None => scope[q.scope].type = q.type
    /\ q.at = "role" /\ q.type \in {"none", "ALL_MEMBERS"} => s.visible
    /\ q.at \in {"permission", "exists", "parent", "write", "commit"} => s.visible \/ s.replaced

(* The message to insert has its place in a live topic, under a live       *)
(* parent, unless the topic has been deleted since.                        *)
Answer(q, s) ==
  q.op = "post" =>
    /\ q.at \in {"parent", "write"} =>
         (topic[q.topic].deleted => q.topic \in s.gone)
    /\ q.at = "write" /\ q.parent # None =>
         /\ message[q.parent].topic = q.topic
         /\ q.level = message[q.parent].level + 1
         /\ Live(q.parent) \/ q.topic \in s.gone

(* The rows to write are all there are, but for those inserted since.      *)
Covered(q, s) ==
  q.at = "commit" =>
    /\ q.op = "deleteTopic" =>
         /\ \A m \in q.rows : message[m].topic = q.topic
         /\ \A m \in LiveIn(q.topic) : m \in q.rows \/ m \in s.news
    /\ q.op = "markRead" =>
         \A m \in LiveIn(q.topic) : m \in q.rows \/ m \in s.news \/ q.actor \in readBy[m]

Known(q, s) == Place(q) /\ Sight(q, s) /\ Answer(q, s) /\ Covered(q, s)

ShapeOK == \A h \in Handlers : Shape(chatReq[h])

KnownOK == \A h \in Handlers : Known(chatReq[h], since[h])

IInv == ChatTypeOK /\ ShapeOK /\ ThreadsSound /\ KnownOK

------------------------------------------------------------------------------
(* The tables alone: rows have their types and topics a scope each.        *)
TablesOK ==
  /\ standing \in [Rooms -> [Users -> Roles \union {"none"}]]
  /\ topic \in [Topics -> TopicRows \union {NoTopic}]
  /\ scope \in [Scopes -> ScopeRows \union {NoScope, GoneScope}]
  /\ message \in [Messages -> MessageRows \union {NoMessage}]
  /\ readBy \in [Messages -> SUBSET Users]
  /\ late \subseteq Messages
  /\ \A s \in Scopes : scope[s] \in ScopeRows <=> \E t \in Topics : topic[t].scope = s
  /\ \A t, x \in Topics : topic[t].scope = topic[x].scope => t = x \/ topic[t].scope = None

(* What no step undoes: rows stay, a message keeps its place and dies only *)
(* with its topic, a scope keeps its type while its topic keeps the scope. *)
Grown ==
  /\ \A t \in Topics : /\ Exists(t) => Exists(t)'
                       /\ topic[t].deleted => topic'[t].deleted
  /\ \A m \in Messages : message[m] # NoMessage =>
       /\ message'[m] # NoMessage
       /\ message'[m].topic = message[m].topic
       /\ message'[m].parent = message[m].parent
       /\ message'[m].level = message[m].level
       /\ Live(m)' => Live(m)
       /\ Live(m) => Live(m)' \/ topic'[message[m].topic].deleted
  /\ \A m \in Messages : readBy[m] \subseteq readBy'[m]
  /\ \A s \in Scopes : scope[s] # NoScope => scope'[s] # NoScope
  /\ \A t \in Topics :
       (topic'[t].scope = topic[t].scope /\ topic[t].scope # None) =>
         scope'[topic[t].scope].type = scope[topic[t].scope].type

LEMMA AbsentRows ==
  /\ NoTopic \notin TopicRows
  /\ NoScope \notin ScopeRows /\ GoneScope \notin ScopeRows /\ NoScope # GoneScope
  /\ NoMessage \notin MessageRows
BY NoneAssumption, RowIdAssumption
   DEF NoTopic, TopicRows, NoScope, GoneScope, ScopeRows, ScopeTypes, NoMessage, MessageRows

LEMMA NoRequest ==
  NoChatReq \in ChatReqs /\ Shape(NoChatReq) /\ \A s : Known(NoChatReq, s)
<1>1. NoChatReq \in ChatReqs /\ Shape(NoChatReq)
  BY DEF NoChatReq, ChatReqs, Shape, Stations
<1>2. ASSUME NEW s PROVE Known(NoChatReq, s)
  BY DEF NoChatReq, Known, Place, Sight, Posts, Answer, Covered
<1> QED BY <1>1, <1>2

(* A request that goes on to another statement.                            *)
LEMMA Proceeded ==
  ASSUME NEW q \in ChatReqs,
         NEW at \in {"idle", "topic", "member", "scope", "role", "entry", "permission",
                     "exists", "parent", "write", "commit"}
  PROVE  LET w == [q EXCEPT !.at = at] IN
         /\ w \in ChatReqs /\ w.at = at /\ w.op = q.op /\ w.actor = q.actor /\ w.room = q.room
         /\ w.topic = q.topic /\ w.parent = q.parent /\ w.scope = q.scope /\ w.type = q.type
         /\ w.level = q.level /\ w.rows = q.rows
BY DEF ChatReqs

------------------------------------------------------------------------------
(* What the history of a request takes in at every step.                   *)
LEMMA Watched ==
  ASSUME ChatTypeOK, WatchChat, NEW h \in Handlers, chatReq'[h].op # "none"
  PROVE  LET q == chatReq'[h]  s == since'[h] IN
         /\ s \in Histories
         /\ since[h].member => s.member
         /\ since[h].visible => s.visible
         /\ since[h].replaced => s.replaced
         /\ standing'[q.room][q.actor] # "none" => s.member
         /\ (q.topic # None /\ CanSee(q.actor, standing'[q.room][q.actor],
                                      topic'[q.topic].scope, scope')) => s.visible
         /\ (chatReq[h].topic # None /\ topic'[q.topic].scope # topic[q.topic].scope)
              => s.replaced
         /\ chatReq[h].op # "none" =>
              /\ since[h].gone \subseteq s.gone /\ since[h].news \subseteq s.news
              /\ \A t \in Topics : topic'[t].deleted /\ ~topic[t].deleted => t \in s.gone
              /\ \A m \in Messages :
                   message'[m] # NoMessage /\ message[m] = NoMessage => m \in s.news
<1> DEFINE q == chatReq'[h]
           old == since[h]
           member == old.member \/ standing'[q.room][q.actor] # "none"
           sees == CanSee(q.actor, standing'[q.room][q.actor], topic'[q.topic].scope, scope')
           visible == old.visible \/ (q.topic # None /\ sees)
           replaced == old.replaced
                         \/ (chatReq[h].topic # None /\ topic'[q.topic].scope # topic[q.topic].scope)
           gone == IF chatReq[h].op = "none" THEN {}
                   ELSE old.gone \union {t \in Topics : topic'[t].deleted /\ ~topic[t].deleted}
           news == IF chatReq[h].op = "none" THEN {}
                   ELSE old.news \union
                          {m \in Messages : message'[m] # NoMessage /\ message[m] = NoMessage}
<1>1. since'[h] = [member |-> member, visible |-> visible, replaced |-> replaced,
                   gone |-> gone, news |-> news]
  BY DEF WatchChat
<1>2. old \in Histories
  BY DEF ChatTypeOK
<1>3. member \in BOOLEAN /\ replaced \in BOOLEAN
  BY <1>2 DEF Histories
<1>4. visible \in BOOLEAN
  <2>1. sees \in BOOLEAN
    BY DEF CanSee, ScopeAllows
  <2> HIDE DEF sees
  <2> QED BY <1>2, <2>1 DEF Histories
<1>5. gone \subseteq Topics /\ news \subseteq Messages
  BY <1>2 DEF Histories
<1>6. since'[h].member = member /\ since'[h].visible = visible /\ since'[h].replaced = replaced
      /\ since'[h].gone = gone /\ since'[h].news = news
  BY <1>1
<1>7. since'[h] \in Histories
  <2> HIDE DEF member, visible, replaced, gone, news
  <2> QED BY <1>1, <1>3, <1>4, <1>5 DEF Histories
<1> QED BY <1>6, <1>7

LEMMA WatchedType ==
  ASSUME ChatTypeOK, WatchChat
  PROVE  since' \in [Handlers -> Histories]
<1>1. ASSUME NEW h \in Handlers PROVE since'[h] \in Histories
  <2>1. CASE chatReq'[h].op = "none"
    <3>1. since'[h] = Nothing
      BY <2>1 DEF WatchChat
    <3> QED BY <3>1 DEF Nothing, Histories
  <2> QED BY <2>1, Watched
<1>2. DOMAIN since' = Handlers /\ since' = [h \in Handlers |-> since'[h]]
  BY DEF WatchChat
<1> QED BY <1>1, <1>2

------------------------------------------------------------------------------
(* A request that is not touched keeps what it knows, whoever steps.       *)
LEMMA OthersKnow ==
  ASSUME ChatTypeOK, WatchChat, Grown, NEW g \in Handlers,
         Shape(chatReq[g]), chatReq'[g] = chatReq[g], Known(chatReq[g], since[g])
  PROVE  Known(chatReq[g], since[g])'
<1> DEFINE q == chatReq[g]
<1>1. q \in ChatReqs
  BY DEF ChatTypeOK
<1>2. CASE q.op = "none"
  <2>1. q = NoChatReq
    BY <1>2 DEF Shape
  <2> QED BY <2>1, chatReq'[g] = chatReq[g]
         DEF Known, Place, Sight, Posts, Answer, Covered, NoChatReq
<1>3. CASE q.op # "none"
  <2> DEFINE s == since'[g]
  <2>1. /\ since[g].member => s.member
        /\ since[g].visible => s.visible
        /\ since[g].replaced => s.replaced
        /\ (q.topic # None /\ topic'[q.topic].scope # topic[q.topic].scope) => s.replaced
        /\ since[g].gone \subseteq s.gone /\ since[g].news \subseteq s.news
        /\ \A t \in Topics : topic'[t].deleted /\ ~topic[t].deleted => t \in s.gone
        /\ \A m \in Messages :
             message'[m] # NoMessage /\ message[m] = NoMessage => m \in s.news
    BY <1>3, Watched
  <2>2. \A t \in Topics : t # None
    BY RowIdAssumption
  <2>3. \A m \in Messages : message[m].topic \in Topics => message[m] # NoMessage
    BY RowIdAssumption DEF NoMessage
  <2>4. q.op \notin {"createTopic", "pin"} => q.topic \in Topics
    BY <1>3 DEF Shape
  <2> USE chatReq'[g] = chatReq[g]
  <2>5. Place(chatReq[g])'
    <3>1. /\ q.op \notin {"none", "createTopic", "pin"} => Exists(q.topic)'
          /\ q.op = "pin" => message'[q.parent] # NoMessage
          /\ (q.op = "patchScope" /\ q.at = "write") => scope'[q.scope] # NoScope
      BY <2>4, <1>1 DEF Known, Place, Grown, Shape
    <3> QED BY <3>1 DEF Place, Exists
  <2>6. Sight(chatReq[g], since[g])'
    <3> SUFFICES ASSUME q.op \in Posts
                 PROVE  Sight(chatReq[g], since[g])'
      BY DEF Sight
    <3>1. q.topic \in Topics /\ q.topic # None
      BY <2>2, <2>4 DEF Posts
    <3>2. ASSUME q.at \in {"role", "entry"}
          PROVE  \/ s.replaced
                 \/ /\ topic'[q.topic].scope = q.scope
                    /\ q.scope # None => scope'[q.scope].type = q.type
      <4>1. CASE s.replaced
        BY <4>1
      <4>2. CASE ~s.replaced
        <5>1. topic'[q.topic].scope = topic[q.topic].scope /\ ~since[g].replaced
          BY <2>1, <3>1, <4>2
        <5>2. topic[q.topic].scope = q.scope /\ (q.scope # None => scope[q.scope].type = q.type)
          BY <3>2, <5>1 DEF Known, Sight
        <5> QED BY <3>1, <5>1, <5>2 DEF Grown
      <4> QED BY <4>1, <4>2
    <3>3. /\ q.at \notin {"topic", "member"} => s.member
          /\ (q.at = "role" /\ q.type \in {"none", "ALL_MEMBERS"}) => s.visible
          /\ q.at \in {"permission", "exists", "parent", "write", "commit"}
               => s.visible \/ s.replaced
      BY <2>1 DEF Known, Sight
    <3> QED BY <3>2, <3>3 DEF Sight
  <2>7. Answer(chatReq[g], since[g])'
    <3> SUFFICES ASSUME q.op = "post"
                 PROVE  Answer(chatReq[g], since[g])'
      BY DEF Answer
    <3>1. q.topic \in Topics
      BY <2>4
    <3>2. ASSUME q.at \in {"parent", "write"} PROVE topic'[q.topic].deleted => q.topic \in s.gone
      BY <2>1, <3>1, <3>2 DEF Known, Answer
    <3>3. ASSUME q.at = "write", q.parent # None
          PROVE  /\ message'[q.parent].topic = q.topic
                 /\ q.level = message'[q.parent].level + 1
                 /\ Live(q.parent)' \/ q.topic \in s.gone
      <4>1. q.parent \in Messages
        BY <1>1, <3>3 DEF ChatReqs
      <4>2. /\ message[q.parent].topic = q.topic
            /\ q.level = message[q.parent].level + 1
            /\ Live(q.parent) \/ q.topic \in since[g].gone
        BY <3>3 DEF Known, Answer
      <4>3. /\ message'[q.parent].topic = q.topic
            /\ message'[q.parent].level = message[q.parent].level
            /\ Live(q.parent) => Live(q.parent)' \/ topic'[q.topic].deleted
        BY <2>3, <3>1, <4>1, <4>2 DEF Grown
      <4> QED BY <2>1, <3>2, <3>3, <4>2, <4>3
    <3> QED BY <3>2, <3>3 DEF Answer, Live
  <2>8. Covered(chatReq[g], since[g])'
    <3> SUFFICES ASSUME q.at = "commit", q.op \in {"deleteTopic", "markRead"}
                 PROVE  Covered(chatReq[g], since[g])'
      BY DEF Covered
    <3>1. q.topic \in Topics /\ q.rows \subseteq Messages
      BY <1>1, <2>4 DEF ChatReqs
    <3>2. ASSUME NEW m \in Messages, message[m].topic = q.topic PROVE message'[m].topic = q.topic
      BY <2>3, <3>1, <3>2 DEF Grown
    <3>3. ASSUME NEW m \in LiveIn(q.topic)' PROVE m \in s.news \/ m \in LiveIn(q.topic)
      BY <2>1, <3>3 DEF LiveIn, Live, Grown
    <3>4. CASE q.op = "deleteTopic"
      BY <2>1, <3>1, <3>2, <3>3, <3>4 DEF Known, Covered
    <3>5. CASE q.op = "markRead"
      <4>1. ASSUME NEW m \in LiveIn(q.topic)'
            PROVE  m \in q.rows \/ m \in s.news \/ q.actor \in readBy'[m]
        <5>1. m \in Messages
          BY <4>1 DEF LiveIn
        <5> QED BY <2>1, <3>3, <3>5, <4>1, <5>1 DEF Known, Covered, Grown
      <4> QED BY <3>5, <4>1 DEF Covered
    <3> QED BY <3>4, <3>5
  <2> QED BY <2>5, <2>6, <2>7, <2>8 DEF Known
<1> QED BY <1>2, <1>3

(* The invariant carries over a step that grows the tables, if the request *)
(* that has moved knows what it should.                                    *)
LEMMA CarriesOver ==
  ASSUME IInv, WatchChat, Grown, TablesOK', ThreadsSound',
         chatReq' \in [Handlers -> ChatReqs], ShapeOK',
         \A g \in Handlers : chatReq'[g] = chatReq[g] \/ Known(chatReq[g], since[g])'
  PROVE  IInv'
<1>1. ChatTypeOK'
  BY WatchedType DEF IInv, TablesOK, ChatTypeOK
<1>2. ASSUME NEW g \in Handlers PROVE Known(chatReq[g], since[g])'
  BY OthersKnow DEF IInv, ShapeOK, KnownOK
<1> QED BY <1>1, <1>2 DEF IInv, KnownOK

LEMMA GoTyped ==
  ASSUME IInv, NEW h \in Handlers, NEW q \in ChatReqs, Shape(q), ChatGo(h, q)
  PROVE  /\ chatReq' \in [Handlers -> ChatReqs] /\ ShapeOK'
         /\ chatReq'[h] = q
         /\ \A g \in Handlers \ {h} : chatReq'[g] = chatReq[g]
<1>1. /\ chatReq' \in [Handlers -> ChatReqs] /\ chatReq'[h] = q
      /\ \A g \in Handlers \ {h} : chatReq'[g] = chatReq[g]
  BY DEF ChatGo, IInv, ChatTypeOK
<1>2. ASSUME NEW g \in Handlers PROVE Shape(chatReq[g])'
  <2>1. chatReq'[g] = q \/ chatReq'[g] = chatReq[g]
    BY <1>1
  <2> QED BY <2>1 DEF IInv, ShapeOK, Shape
<1> QED BY <1>1, <1>2 DEF ShapeOK

(* A handler that writes ends; nothing else is to be known of it.          *)
LEMMA WrittenOK ==
  ASSUME IInv, WatchChat, NEW h \in Handlers, FinishChat(h), TablesOK', ThreadsSound', Grown
  PROVE  IInv'
<1>1. /\ chatReq' \in [Handlers -> ChatReqs] /\ ShapeOK' /\ chatReq'[h] = NoChatReq
      /\ \A g \in Handlers \ {h} : chatReq'[g] = chatReq[g]
  BY NoRequest, GoTyped DEF FinishChat
<1>2. Known(chatReq[h], since[h])'
  BY <1>1 DEF Known, Place, Sight, Posts, Answer, Covered, NoChatReq
<1> QED BY <1>1, <1>2, CarriesOver

LEMMA StillOK ==
  ASSUME IInv, UNCHANGED <<chatTables, late>>
  PROVE  TablesOK' /\ ThreadsSound' /\ Grown
<1> USE DEF chatTables
<1>1. TablesOK'
  BY DEF IInv, ChatTypeOK, TablesOK
<1>2. ThreadsSound'
  BY DEF IInv, ThreadsSound, Live
<1>3. Grown
  BY DEF Grown, Exists, Live
<1> QED BY <1>1, <1>2, <1>3

(* A handler that has looked at the tables goes on, knowing what it saw.   *)
LEMMA LookedOK ==
  ASSUME IInv, WatchChat, NEW h \in Handlers, NEW q \in ChatReqs, Shape(q), ChatGo(h, q),
         UNCHANGED <<chatTables, late>>, Known(q, since'[h])
  PROVE  IInv'
<1>1. /\ chatReq' \in [Handlers -> ChatReqs] /\ ShapeOK' /\ chatReq'[h] = q
      /\ \A g \in Handlers \ {h} : chatReq'[g] = chatReq[g]
  BY GoTyped
<1>2. Known(chatReq[h], since[h])'
  BY <1>1 DEF Known, Place, Sight, Answer, Covered, Exists, Live, LiveIn, chatTables
<1> QED BY <1>1, <1>2, StillOK, CarriesOver

LEMMA EndedOK ==
  ASSUME IInv, WatchChat, NEW h \in Handlers, FinishChat(h), UNCHANGED <<chatTables, late>>
  PROVE  IInv'
BY StillOK, WrittenOK

------------------------------------------------------------------------------
(* Requests that look at the tables.                                       *)
LEMMA StartOK == ASSUME IInv, WatchChat, NEW h \in Handlers, StartChat(h) PROVE IInv'
<1>0. UNCHANGED <<chatTables, late>>
  BY DEF StartChat
<1>1. ASSUME NEW op \in ChatOps, NEW u \in Users, NEW t \in Topics,
             NEW p \in Messages \union {None}, op \in {"post", "list", "markRead"}, Exists(t),
             ChatGo(h, [NoChatReq EXCEPT !.op = op, !.actor = u, !.room = topic[t].room,
                           !.topic = t, !.parent = p, !.at = IF op = "markRead" THEN "topic" ELSE "member"])
      PROVE  IInv'
  <2> DEFINE q == [NoChatReq EXCEPT !.op = op, !.actor = u, !.room = topic[t].room,
                     !.topic = t, !.parent = p, !.at = IF op = "markRead" THEN "topic" ELSE "member"]
  <2>1. topic[t].room \in Rooms
    BY <1>1 DEF IInv, ChatTypeOK, Exists, TopicRows
  <2>2. q \in ChatReqs
    BY <2>1 DEF NoChatReq, ChatReqs
  <2>3. /\ q.op = op /\ q.actor = u /\ q.topic = t
        /\ q.at = IF op = "markRead" THEN "topic" ELSE "member"
    BY DEF NoChatReq
  <2> HIDE DEF q
  <2>4. Shape(q)
    BY <1>1, <2>3 DEF Shape, Stations
  <2>5. Known(q, since'[h])
    BY <1>1, <2>3 DEF Known, Place, Sight, Answer, Covered
  <2> QED BY <1>0, <1>1, <2>2, <2>4, <2>5, LookedOK DEF q
<1>2. ASSUME NEW u \in Users, NEW m \in Messages, "pin" \in ChatOps, message[m] # NoMessage,
             ChatGo(h, [NoChatReq EXCEPT !.op = "pin", !.actor = u, !.topic = message[m].topic,
                           !.room = topic[message[m].topic].room, !.parent = m, !.at = "member"])
      PROVE  IInv'
  <2> DEFINE q == [NoChatReq EXCEPT !.op = "pin", !.actor = u, !.topic = message[m].topic,
                     !.room = topic[message[m].topic].room, !.parent = m, !.at = "member"]
  <2>1. message[m].topic \in Topics
    BY <1>2 DEF IInv, ChatTypeOK, MessageRows
  <2>2. topic[message[m].topic].room \in Rooms \union {None}
    BY <2>1 DEF IInv, ChatTypeOK, TopicRows, NoTopic
  <2>3. q \in ChatReqs
    BY <1>2, <2>1, <2>2 DEF NoChatReq, ChatReqs
  <2>4. q.op = "pin" /\ q.actor = u /\ q.parent = m /\ q.at = "member"
    BY DEF NoChatReq
  <2> HIDE DEF q
  <2>5. Shape(q)
    BY <2>4 DEF Shape, Stations
  <2>6. Known(q, since'[h])
    BY <1>2, <2>4 DEF Known, Place, Sight, Posts, Answer, Covered
  <2> QED BY <1>0, <1>2, <2>3, <2>5, <2>6, LookedOK DEF q
<1>3. ASSUME NEW op \in ChatOps, NEW u \in Users, NEW t \in Topics,
             op \in ManagerOps \ {"createTopic"}, Exists(t),
             ChatGo(h, [NoChatReq EXCEPT !.op = op, !.actor = u, !.room = topic[t].room,
                           !.topic = t, !.at = "topic"])
      PROVE  IInv'
  <2> DEFINE q == [NoChatReq EXCEPT !.op = op, !.actor = u, !.room = topic[t].room,
                     !.topic = t, !.at = "topic"]
  <2>1. topic[t].room \in Rooms
    BY <1>3 DEF IInv, ChatTypeOK, Exists, TopicRows
  <2>2. q \in ChatReqs
    BY <2>1 DEF NoChatReq, ChatReqs
  <2>3. q.op = op /\ q.actor = u /\ q.topic = t /\ q.at = "topic"
    BY DEF NoChatReq
  <2> HIDE DEF q
  <2>4. Shape(q)
    BY <1>3, <2>3 DEF Shape, Stations, ManagerOps
  <2>5. Known(q, since'[h])
    BY <1>3, <2>3 DEF Known, Place, Sight, Posts, Answer, Covered, ManagerOps
  <2> QED BY <1>0, <1>3, <2>2, <2>4, <2>5, LookedOK DEF q
<1>4. ASSUME NEW u \in Users, NEW r \in Rooms, "createTopic" \in ChatOps,
             ChatGo(h, [NoChatReq EXCEPT !.op = "createTopic", !.actor = u, !.room = r,
                          !.at = "member"])
      PROVE  IInv'
  <2> DEFINE q == [NoChatReq EXCEPT !.op = "createTopic", !.actor = u, !.room = r, !.at = "member"]
  <2>1. q \in ChatReqs
    BY <1>4 DEF NoChatReq, ChatReqs
  <2>2. q.op = "createTopic" /\ q.actor = u /\ q.room = r /\ q.at = "member"
    BY DEF NoChatReq
  <2> HIDE DEF q
  <2>3. Shape(q)
    BY <2>2 DEF Shape, Stations
  <2>4. Known(q, since'[h])
    BY <2>2 DEF Known, Place, Sight, Posts, Answer, Covered
  <2> QED BY <1>0, <1>4, <2>1, <2>3, <2>4, LookedOK DEF q
<1>5. PICK op \in ChatOps, u \in Users :
        \/ /\ op \in {"post", "list", "markRead"}
           /\ \E t \in Topics, p \in Messages \union {None} :
                /\ Exists(t)
                /\ ChatGo(h, [NoChatReq EXCEPT !.op = op, !.actor = u, !.room = topic[t].room,
                           !.topic = t, !.parent = p, !.at = IF op = "markRead" THEN "topic" ELSE "member"])
        \/ /\ op = "pin"
           /\ \E m \in Messages :
                /\ message[m] # NoMessage
                /\ ChatGo(h, [NoChatReq EXCEPT !.op = op, !.actor = u, !.topic = message[m].topic,
                           !.room = topic[message[m].topic].room, !.parent = m, !.at = "member"])
        \/ /\ op \in ManagerOps \ {"createTopic"}
           /\ \E t \in Topics :
                /\ Exists(t)
                /\ ChatGo(h, [NoChatReq EXCEPT !.op = op, !.actor = u, !.room = topic[t].room,
                           !.topic = t, !.at = "topic"])
        \/ /\ op = "createTopic"
           /\ \E r \in Rooms :
                ChatGo(h, [NoChatReq EXCEPT !.op = op, !.actor = u, !.room = r, !.at = "member"])
  BY DEF StartChat
<1>6. CASE op \in {"post", "list", "markRead"}
  BY <1>1, <1>5, <1>6 DEF ManagerOps
<1>7. CASE op = "pin"
  BY <1>2, <1>5, <1>7 DEF ManagerOps
<1>8. CASE op \in ManagerOps \ {"createTopic"}
  BY <1>3, <1>5, <1>8 DEF ManagerOps
<1>9. CASE op = "createTopic"
  BY <1>4, <1>5, <1>9 DEF ManagerOps
<1> QED BY <1>5, <1>6, <1>7, <1>8, <1>9

(* The looks of computeCanSee.  A request that has been admitted knows that*)
(* its topic was visible, or that the scope it looked at was replaced.     *)
LEMMA MemberOK == ASSUME IInv, WatchChat, NEW h \in Handlers, AssertRoomMember(h) PROVE IInv'
<1> DEFINE q == chatReq[h]
           at == CASE q.op = "pin"         -> "permission"
                   [] q.op = "createTopic" -> "write"
                   [] OTHER                -> "scope"
           w == [q EXCEPT !.at = at]
<1>0. q \in ChatReqs /\ Shape(q) /\ Known(q, since[h]) /\ q.at = "member"
  BY DEF IInv, ChatTypeOK, ShapeOK, KnownOK, AssertRoomMember
<1>1. UNCHANGED <<chatTables, late>>
  BY DEF AssertRoomMember
<1>2. CASE FinishChat(h)
  BY <1>1, <1>2, EndedOK
<1>3. CASE standing[q.room][q.actor] # "none" /\ ChatGo(h, w)
  <2>1. q.op \in {"post", "list", "markRead", "pin", "createTopic"} /\ q.op # "none"
    BY <1>0 DEF Shape, Stations
  <2>2. /\ w \in ChatReqs /\ w.at = at /\ w.op = q.op /\ w.actor = q.actor /\ w.room = q.room
        /\ w.topic = q.topic /\ w.parent = q.parent /\ w.scope = q.scope /\ w.type = q.type
    <3>1. at \in {"permission", "write", "scope"}
      OBVIOUS
    <3> HIDE DEF at
    <3> QED BY <1>0, <3>1 DEF ChatReqs
  <2>3. Shape(w)
    <3> HIDE DEF w
    <3> QED BY <1>0, <2>1, <2>2 DEF Shape, Stations
  <2>4. since'[h].member
    <3>1. chatReq'[h] = w
      BY <1>3, <2>2 DEF ChatGo, IInv, ChatTypeOK
    <3>2. standing' = standing
      BY <1>1 DEF chatTables
    <3> HIDE DEF w
    <3> QED BY <1>3, <2>1, <2>2, <3>1, <3>2, Watched DEF IInv
  <2>5. Known(w, since'[h])
    <3> HIDE DEF w
    <3>1. Place(w)
      BY <1>0, <2>1, <2>2 DEF Known, Place
    <3> QED BY <2>1, <2>2, <2>4, <3>1 DEF Known, Sight, Posts, Answer, Covered
  <2> HIDE DEF w
  <2> QED BY <1>1, <1>3, <2>2, <2>3, <2>5, LookedOK
<1> QED BY <1>2, <1>3 DEF AssertRoomMember, ChatProceed

LEMMA ScopeOK == ASSUME IInv, WatchChat, NEW h \in Handlers, ReadScope(h) PROVE IInv'
<1> DEFINE q == chatReq[h]
           s == topic[q.topic].scope
           type == IF s = None THEN "none" ELSE scope[s].type
           w == [q EXCEPT !.at = "role", !.scope = s, !.type = type]
<1>0. q \in ChatReqs /\ Shape(q) /\ Known(q, since[h]) /\ q.at = "scope"
  BY DEF IInv, ChatTypeOK, ShapeOK, KnownOK, ReadScope
<1>1. UNCHANGED <<chatTables, late>>
  BY DEF ReadScope
<1>2. CASE FinishChat(h)
  BY <1>1, <1>2, EndedOK
<1>3. CASE ChatGo(h, w)
  <2>1. q.op \in Posts /\ q.op # "none" /\ q.topic \in Topics /\ q.actor \in Users
    BY <1>0 DEF Shape, Stations, Posts
  <2>2. s \in Scopes \union {None} /\ type \in ScopeTypes \union {"none"}
        /\ (s = None <=> type = "none")
    <3>1. s \in Scopes \union {None}
      BY <2>1 DEF IInv, ChatTypeOK, TopicRows, NoTopic
    <3>2. s # None => scope[s] \in ScopeRows
      BY <2>1, <3>1 DEF IInv, ChatTypeOK
    <3> QED BY <3>1, <3>2 DEF ScopeRows, ScopeTypes
  <2> HIDE DEF s, type
  <2>3. w \in ChatReqs
    BY <1>0, <2>2 DEF ChatReqs
  <2>4. /\ w.op = q.op /\ w.at = "role" /\ w.actor = q.actor /\ w.topic = q.topic
        /\ w.scope = s /\ w.type = type
    BY <1>0 DEF ChatReqs
  <2> HIDE DEF w
  <2>5. Shape(w)
    BY <1>0, <2>1, <2>2, <2>4 DEF Shape, Stations, Posts
  <2>6. chatReq'[h] = w
    BY <1>3 DEF ChatGo, IInv, ChatTypeOK
  <2>7. since'[h].member
    BY <1>0, <2>1, <2>4, <2>6, Watched DEF IInv, Known, Sight
  <2>8. type \in {"none", "ALL_MEMBERS"} => since'[h].visible
    <3>1. SUFFICES ASSUME type \in {"none", "ALL_MEMBERS"} PROVE since'[h].visible
      OBVIOUS
    <3>2. topic'[w.topic].scope = s /\ scope' = scope /\ w.topic # None
      BY <1>1, <2>1, <2>4, RowIdAssumption DEF chatTables, s
    <3>3. CanSee(w.actor, standing'[w.room][w.actor], s, scope)
      BY <2>2, <3>1 DEF CanSee, ScopeAllows, type
    <3> QED BY <2>1, <2>4, <2>6, <3>2, <3>3, Watched DEF IInv
  <2>9. Known(w, since'[h])
    <3>1. Place(w)
      BY <1>0, <2>1, <2>4 DEF Known, Place, Posts
    <3>2. Sight(w, since'[h])
      BY <2>4, <2>7, <2>8 DEF Sight, s, type
    <3> QED BY <2>4, <3>1, <3>2 DEF Known, Answer, Covered
  <2> QED BY <1>1, <1>3, <2>3, <2>5, <2>9, LookedOK
<1> QED BY <1>2, <1>3 DEF ReadScope

(* Admitting a request that is past its look at the scope.                 *)
LEMMA AdmittedOK ==
  ASSUME IInv, WatchChat, NEW h \in Handlers, UNCHANGED <<chatTables, late>>,
         chatReq[h].at \in {"role", "entry"}, ChatGo(h, Admitted(chatReq[h])),
         since[h].visible \/ since[h].replaced
           \/ CanSee(chatReq[h].actor, standing[chatReq[h].room][chatReq[h].actor],
                     topic[chatReq[h].topic].scope, scope)
  PROVE  IInv'
<1> DEFINE q == chatReq[h]
           w == Admitted(q)
<1>0. q \in ChatReqs /\ Shape(q) /\ Known(q, since[h])
  BY DEF IInv, ChatTypeOK, ShapeOK, KnownOK
<1>1. q.op \in Posts /\ q.op # "none" /\ q.topic \in Topics /\ q.actor \in Users
  BY <1>0 DEF Shape, Stations, Posts
<1>2. /\ w \in ChatReqs /\ w.at = (IF q.op = "post" THEN "permission" ELSE "write")
      /\ w.op = q.op /\ w.actor = q.actor /\ w.room = q.room
      /\ w.topic = q.topic /\ w.parent = q.parent /\ w.scope = q.scope /\ w.type = q.type
  <2> DEFINE at == IF q.op = "post" THEN "permission" ELSE "write"
  <2>1. at \in {"permission", "write"}
    OBVIOUS
  <2>2. w = [q EXCEPT !.at = at]
    BY DEF Admitted
  <2> HIDE DEF w
  <2>3. at = IF q.op = "post" THEN "permission" ELSE "write"
    OBVIOUS
  <2> HIDE DEF at
  <2> QED BY <1>0, <2>1, <2>2, <2>3 DEF ChatReqs
<1> HIDE DEF w
<1>3. Shape(w)
  BY <1>0, <1>1, <1>2 DEF Shape, Stations, Posts
<1>4. chatReq'[h] = w
  BY <1>2 DEF ChatGo, IInv, ChatTypeOK, w
<1>5. /\ since[h].member => since'[h].member
      /\ since[h].visible => since'[h].visible
      /\ since[h].replaced => since'[h].replaced
      /\ (w.topic # None /\ CanSee(w.actor, standing'[w.room][w.actor],
                                   topic'[w.topic].scope, scope')) => since'[h].visible
  BY <1>1, <1>2, <1>4, Watched DEF IInv
<1>6. since'[h].visible \/ since'[h].replaced
  BY <1>1, <1>2, <1>5, RowIdAssumption DEF chatTables
<1>7. since'[h].member
  BY <1>0, <1>1, <1>5 DEF Known, Sight
<1>8. Known(w, since'[h])
  <2>1. Place(w)
    BY <1>0, <1>1, <1>2 DEF Known, Place, Posts
  <2>2. Sight(w, since'[h])
    BY <1>2, <1>6, <1>7 DEF Sight
  <2>3. Answer(w, since'[h]) /\ Covered(w, since'[h])
    BY <1>2 DEF Answer, Covered
  <2> QED BY <2>1, <2>2, <2>3 DEF Known
<1> QED BY <1>2, <1>3, <1>8, LookedOK DEF w

LEMMA PrivilegeOK == ASSUME IInv, WatchChat, NEW h \in Handlers, ReadPrivilege(h) PROVE IInv'
<1> DEFINE q == chatReq[h]
           w == [q EXCEPT !.at = "entry"]
<1>0. q \in ChatReqs /\ Shape(q) /\ Known(q, since[h]) /\ q.at = "role"
  BY DEF IInv, ChatTypeOK, ShapeOK, KnownOK, ReadPrivilege
<1>1. UNCHANGED <<chatTables, late>>
  BY DEF ReadPrivilege
<1>2. q.op \in Posts
  BY <1>0 DEF Shape, Stations, Posts
<1>3. CASE /\ standing[q.room][q.actor] \in Managers \/ q.type \in {"none", "ALL_MEMBERS"}
           /\ ChatGo(h, Admitted(q))
  <2>1. standing[q.room][q.actor] \in Managers
          => CanSee(q.actor, standing[q.room][q.actor], topic[q.topic].scope, scope)
    BY DEF CanSee
  <2>2. q.type \in {"none", "ALL_MEMBERS"} => since[h].visible
    BY <1>0, <1>2 DEF Known, Sight
  <2> QED BY <1>0, <1>1, <1>3, <2>1, <2>2, AdmittedOK
<1>4. CASE q.type \notin {"none", "ALL_MEMBERS"} /\ ChatGo(h, w)
  <2>1. /\ w \in ChatReqs /\ w.at = "entry" /\ w.op = q.op /\ w.actor = q.actor
        /\ w.topic = q.topic /\ w.parent = q.parent /\ w.scope = q.scope /\ w.type = q.type
    BY <1>0, Proceeded
  <2> HIDE DEF w
  <2>2. q.type \in {"INCLUDE_MEMBERS", "EXCLUDE_MEMBERS"}
    BY <1>0, <1>4 DEF ChatReqs, ScopeTypes
  <2>3. Shape(w)
    BY <1>0, <1>2, <2>1, <2>2 DEF Shape, Stations, Posts
  <2>4. chatReq'[h] = w
    BY <1>4, <2>1 DEF ChatGo, IInv, ChatTypeOK
  <2>5. /\ since[h].member => since'[h].member
        /\ since[h].replaced => since'[h].replaced
    BY <1>2, <2>1, <2>4, Watched DEF IInv, Posts
  <2>6. Known(w, since'[h])
    <3>1. Place(w)
      BY <1>0, <1>2, <2>1 DEF Known, Place, Posts
    <3>2. Sight(w, since'[h])
      BY <1>0, <1>2, <2>1, <2>5 DEF Known, Sight
    <3> QED BY <2>1, <3>1, <3>2 DEF Known, Answer, Covered
  <2> QED BY <1>1, <1>4, <2>1, <2>3, <2>6, LookedOK
<1> QED BY <1>3, <1>4 DEF ReadPrivilege

LEMMA EntryOK == ASSUME IInv, WatchChat, NEW h \in Handlers, ReadEntry(h) PROVE IInv'
<1> DEFINE q == chatReq[h]
<1>0. q \in ChatReqs /\ Shape(q) /\ Known(q, since[h]) /\ q.at = "entry"
  BY DEF IInv, ChatTypeOK, ShapeOK, KnownOK, ReadEntry
<1>1. UNCHANGED <<chatTables, late>>
  BY DEF ReadEntry
<1>2. CASE FinishChat(h)
  BY <1>1, <1>2, EndedOK
<1>3. CASE /\ (q.actor \in scope[q.scope].entries) = (q.type = "INCLUDE_MEMBERS")
           /\ ChatGo(h, Admitted(q))
  <2>1. q.op \in Posts /\ q.type \in {"INCLUDE_MEMBERS", "EXCLUDE_MEMBERS"} /\ q.scope # None
    BY <1>0 DEF Shape, Stations, Posts
  <2>2. CASE since[h].replaced
    BY <1>0, <1>1, <1>3, <2>2, AdmittedOK
  <2>3. CASE topic[q.topic].scope = q.scope /\ scope[q.scope].type = q.type
    <3>1. CanSee(q.actor, standing[q.room][q.actor], topic[q.topic].scope, scope)
      BY <1>3, <2>1, <2>3 DEF CanSee, ScopeAllows
    <3> QED BY <1>0, <1>1, <1>3, <3>1, AdmittedOK
  <2> QED BY <1>0, <2>1, <2>2, <2>3 DEF Known, Sight
<1> QED BY <1>2, <1>3 DEF ReadEntry

(* A request of another operation than the chat's posts knows nothing of   *)
(* who sees its topic; one that goes on keeps what its history has seen.   *)
LEMMA GoneOn ==
  ASSUME IInv, WatchChat, NEW h \in Handlers, NEW w \in ChatReqs, ChatGo(h, w),
         w.op = chatReq[h].op, w.op # "none"
  PROVE  /\ since[h].member => since'[h].member
         /\ since[h].visible => since'[h].visible
         /\ since[h].replaced => since'[h].replaced
         /\ since[h].gone \subseteq since'[h].gone
<1>1. chatReq'[h] = w
  BY DEF ChatGo, IInv, ChatTypeOK
<1> QED BY <1>1, Watched DEF IInv

LEMMA PermissionOK == ASSUME IInv, WatchChat, NEW h \in Handlers, CheckPermission(h) PROVE IInv'
<1> DEFINE q == chatReq[h]
           w == [q EXCEPT !.at = "exists"]
<1>0. q \in ChatReqs /\ Shape(q) /\ Known(q, since[h]) /\ q.at = "permission"
  BY DEF IInv, ChatTypeOK, ShapeOK, KnownOK, CheckPermission
<1>1. UNCHANGED <<chatTables, late>>
  BY DEF CheckPermission
<1>2. CASE FinishChat(h)
  BY <1>1, <1>2, EndedOK
<1>3. CASE ChatGo(h, w)
  <2>1. q.op \in {"post", "pin"}
    BY <1>0 DEF Shape, Stations
  <2>2. /\ w \in ChatReqs /\ w.at = "exists" /\ w.op = q.op /\ w.actor = q.actor
        /\ w.topic = q.topic /\ w.parent = q.parent
    BY <1>0, Proceeded
  <2> HIDE DEF w
  <2>3. Shape(w)
    BY <1>0, <2>1, <2>2 DEF Shape, Stations
  <2>4. Known(w, since'[h])
    <3>1. Place(w)
      BY <1>0, <2>1, <2>2 DEF Known, Place
    <3>2. Sight(w, since'[h])
      BY <1>0, <1>3, <2>1, <2>2, GoneOn DEF Known, Sight
    <3> QED BY <2>2, <3>1, <3>2 DEF Known, Answer, Covered
  <2> QED BY <1>1, <1>3, <2>2, <2>3, <2>4, LookedOK
<1> QED BY <1>2, <1>3 DEF CheckPermission, ChatProceed

LEMMA ExistsOK == ASSUME IInv, WatchChat, NEW h \in Handlers, AssertExists(h) PROVE IInv'
<1> DEFINE q == chatReq[h]
           at == IF q.op = "post" /\ q.parent # None THEN "parent" ELSE "write"
           w == [q EXCEPT !.at = at]
<1>0. q \in ChatReqs /\ Shape(q) /\ Known(q, since[h]) /\ q.at = "exists"
  BY DEF IInv, ChatTypeOK, ShapeOK, KnownOK, AssertExists
<1>1. UNCHANGED <<chatTables, late>>
  BY DEF AssertExists
<1>2. CASE FinishChat(h)
  BY <1>1, <1>2, EndedOK
<1>3. CASE /\ IF q.op = "pin" THEN Live(q.parent) ELSE ~topic[q.topic].deleted
           /\ ChatGo(h, w)
  <2>1. q.op \in {"post", "pin"}
    BY <1>0 DEF Shape, Stations
  <2>2. /\ at \in {"parent", "write"}
        /\ at = "write" /\ q.op = "post" => q.parent = None
        /\ at = "parent" => q.op = "post" /\ q.parent \in Messages
    BY <1>0 DEF ChatReqs
  <2> HIDE DEF at
  <2>3. /\ w \in ChatReqs /\ w.at = at /\ w.op = q.op /\ w.actor = q.actor
        /\ w.topic = q.topic /\ w.parent = q.parent
    BY <1>0, <2>2 DEF ChatReqs
  <2> HIDE DEF w
  <2>4. Shape(w)
    BY <1>0, <2>1, <2>2, <2>3 DEF Shape, Stations
  <2>5. Known(w, since'[h])
    <3>1. Place(w)
      BY <1>0, <2>1, <2>3 DEF Known, Place
    <3>2. Sight(w, since'[h])
      BY <1>0, <1>3, <2>1, <2>2, <2>3, GoneOn DEF Known, Sight
    <3>3. Answer(w, since'[h])
      BY <1>3, <2>2, <2>3 DEF Answer
    <3> QED BY <2>2, <2>3, <3>1, <3>2, <3>3 DEF Known, Covered
  <2> QED BY <1>1, <1>3, <2>3, <2>4, <2>5, LookedOK
<1> QED BY <1>2, <1>3 DEF AssertExists, ChatProceed

LEMMA TopicOK == ASSUME IInv, WatchChat, NEW h \in Handlers, ReadTopic(h) PROVE IInv'
<1> DEFINE q == chatReq[h]
           s == topic[q.topic].scope
           at == IF q.op = "markRead" THEN "member" ELSE "write"
           x == IF q.op = "patchScope" THEN s ELSE None
           w == [q EXCEPT !.at = at, !.scope = x]
<1>0. q \in ChatReqs /\ Shape(q) /\ Known(q, since[h]) /\ q.at = "topic"
  BY DEF IInv, ChatTypeOK, ShapeOK, KnownOK, ReadTopic
<1>1. UNCHANGED <<chatTables, late>>
  BY DEF ReadTopic
<1>2. CASE FinishChat(h)
  BY <1>1, <1>2, EndedOK
<1>3. CASE ~(q.op = "patchScope" /\ s = None) /\ ChatGo(h, w)
  <2>1. q.op \in {"markRead", "deleteTopic", "setScope", "patchScope"} /\ q.topic \in Topics
    BY <1>0 DEF Shape, Stations
  <2>2. /\ at \in {"member", "write"} /\ (at = "member" <=> q.op = "markRead")
        /\ x \in Scopes \union {None}
        /\ q.op = "patchScope" => x \in Scopes /\ scope[x] # NoScope
    <3>1. s \in Scopes \union {None}
      BY <2>1 DEF IInv, ChatTypeOK, TopicRows, NoTopic
    <3>2. s \in Scopes => scope[s] # NoScope
      BY <2>1, AbsentRows DEF IInv, ChatTypeOK
    <3> QED BY <1>3, <2>1, <3>1, <3>2
  <2> HIDE DEF at, x
  <2>3. /\ w \in ChatReqs /\ w.at = at /\ w.op = q.op /\ w.actor = q.actor
        /\ w.topic = q.topic /\ w.scope = x
    BY <1>0, <2>2 DEF ChatReqs
  <2> HIDE DEF w
  <2>4. Shape(w)
    BY <1>0, <2>1, <2>2, <2>3 DEF Shape, Stations
  <2>5. Known(w, since'[h])
    <3>1. Place(w)
      BY <1>0, <2>1, <2>2, <2>3 DEF Known, Place
    <3>2. Sight(w, since'[h])
      BY <2>1, <2>2, <2>3 DEF Sight, Posts
    <3> QED BY <2>1, <2>2, <2>3, <3>1, <3>2 DEF Known, Answer, Covered
  <2> QED BY <1>1, <1>3, <2>3, <2>4, <2>5, LookedOK
<1> QED BY <1>2, <1>3 DEF ReadTopic

LEMMA ParentOK == ASSUME IInv, WatchChat, NEW h \in Handlers, ReadParent(h) PROVE IInv'
<1> DEFINE q == chatReq[h]
           level == message[q.parent].level + 1
           w == [q EXCEPT !.at = "write", !.level = level]
<1>0. /\ q \in ChatReqs /\ Shape(q) /\ Known(q, since[h]) /\ q.op = "post" /\ q.at = "parent"
  BY DEF IInv, ChatTypeOK, ShapeOK, KnownOK, ReadParent, ChatAt
<1>1. UNCHANGED <<chatTables, late>>
  BY DEF ReadParent
<1>2. CASE FinishChat(h)
  BY <1>1, <1>2, EndedOK
<1>3. CASE Live(q.parent) /\ message[q.parent].topic = q.topic /\ ChatGo(h, w)
  <2>1. level \in Nat
    BY <1>0 DEF Shape, IInv, ChatTypeOK, MessageRows, NoMessage
  <2> HIDE DEF level
  <2>2. /\ w \in ChatReqs /\ w.at = "write" /\ w.op = q.op /\ w.actor = q.actor
        /\ w.topic = q.topic /\ w.parent = q.parent /\ w.level = level
    BY <1>0, <2>1 DEF ChatReqs
  <2> HIDE DEF w
  <2>3. Shape(w)
    BY <1>0, <2>2 DEF Shape, Stations
  <2>4. Known(w, since'[h])
    <3>1. Place(w)
      BY <1>0, <2>2 DEF Known, Place
    <3>2. Sight(w, since'[h])
      BY <1>0, <1>3, <2>2, GoneOn DEF Known, Sight
    <3>3. Answer(w, since'[h])
      BY <1>0, <1>3, <2>2, GoneOn DEF Known, Answer, level
    <3> QED BY <2>2, <3>1, <3>2, <3>3 DEF Known, Covered
  <2> QED BY <1>1, <1>3, <2>2, <2>3, <2>4, LookedOK
<1> QED BY <1>2, <1>3 DEF ReadParent

LEMMA UnreadOK == ASSUME IInv, WatchChat, NEW h \in Handlers, FindUnread(h) PROVE IInv'
<1> DEFINE q == chatReq[h]
           S == {m \in LiveIn(q.topic) : q.actor \notin readBy[m]}
           w == [q EXCEPT !.at = "commit", !.rows = S]
<1>0. q \in ChatReqs /\ Shape(q) /\ Known(q, since[h]) /\ q.op = "markRead" /\ q.at = "write"
  BY DEF IInv, ChatTypeOK, ShapeOK, KnownOK, FindUnread, ChatAt
<1>1. UNCHANGED <<chatTables, late>>
  BY DEF FindUnread
<1>2. CASE FinishChat(h)
  BY <1>1, <1>2, EndedOK
<1>3. CASE ChatGo(h, w)
  <2>1. S \subseteq Messages /\ \A m \in LiveIn(q.topic) : m \in S \/ q.actor \in readBy[m]
    BY DEF LiveIn
  <2> HIDE DEF S
  <2>2. /\ w \in ChatReqs /\ w.at = "commit" /\ w.op = q.op /\ w.actor = q.actor
        /\ w.topic = q.topic /\ w.rows = S
    BY <1>0, <2>1 DEF ChatReqs
  <2> HIDE DEF w
  <2>3. Shape(w)
    BY <1>0, <2>2 DEF Shape, Stations
  <2>4. Known(w, since'[h])
    <3>1. Place(w)
      BY <1>0, <2>2 DEF Known, Place
    <3>2. Sight(w, since'[h])
      BY <1>0, <1>3, <2>2, GoneOn DEF Known, Sight
    <3>3. Covered(w, since'[h])
      BY <1>0, <2>1, <2>2 DEF Covered
    <3> QED BY <1>0, <2>2, <3>1, <3>2, <3>3 DEF Known, Answer
  <2> QED BY <1>1, <1>3, <2>2, <2>3, <2>4, LookedOK
<1> QED BY <1>2, <1>3 DEF FindUnread

LEMMA MarkOK == ASSUME IInv, WatchChat, NEW h \in Handlers, MarkMessages(h) PROVE IInv'
<1> DEFINE q == chatReq[h]
           S == LiveIn(q.topic)
           w == [q EXCEPT !.at = "commit", !.rows = S]
<1>0. q \in ChatReqs /\ Shape(q) /\ Known(q, since[h]) /\ q.op = "deleteTopic" /\ q.at = "write"
  BY DEF IInv, ChatTypeOK, ShapeOK, KnownOK, MarkMessages, ChatAt
<1>1. UNCHANGED <<chatTables, late>> /\ ChatGo(h, w)
  BY DEF MarkMessages
<1>2. S \subseteq Messages /\ \A m \in S : message[m].topic = q.topic
  BY DEF LiveIn
<1>3. S = LiveIn(q.topic)
  OBVIOUS
<1> HIDE DEF S
<1>4. /\ w \in ChatReqs /\ w.at = "commit" /\ w.op = q.op /\ w.actor = q.actor
      /\ w.topic = q.topic /\ w.rows = S
  BY <1>0, <1>2 DEF ChatReqs
<1> HIDE DEF w
<1>5. Shape(w)
  BY <1>0, <1>4 DEF Shape, Stations
<1>6. Known(w, since'[h])
  <2>1. Place(w)
    BY <1>0, <1>4 DEF Known, Place
  <2>2. Covered(w, since'[h])
    BY <1>0, <1>2, <1>3, <1>4 DEF Covered
  <2> QED BY <1>0, <1>4, <2>1, <2>2 DEF Known, Sight, Posts, Answer
<1> QED BY <1>1, <1>4, <1>5, <1>6, LookedOK

LEMMA DropOK == ASSUME IInv, WatchChat, NEW h \in Handlers, DropScope(h) PROVE IInv'
<1> DEFINE q == chatReq[h]
           s == topic[q.topic].scope
           w == [q EXCEPT !.at = "commit", !.scope = s]
<1>0. q \in ChatReqs /\ Shape(q) /\ Known(q, since[h]) /\ q.op = "setScope" /\ q.at = "write"
  BY DEF IInv, ChatTypeOK, ShapeOK, KnownOK, DropScope, ChatAt
<1>1. UNCHANGED <<chatTables, late>> /\ ChatGo(h, w)
  BY DEF DropScope
<1>2. s \in Scopes \union {None}
  BY <1>0 DEF Shape, IInv, ChatTypeOK, TopicRows, NoTopic
<1> HIDE DEF s
<1>3. /\ w \in ChatReqs /\ w.at = "commit" /\ w.op = q.op /\ w.actor = q.actor
      /\ w.topic = q.topic
  BY <1>0, <1>2 DEF ChatReqs
<1> HIDE DEF w
<1>4. Shape(w)
  BY <1>0, <1>3 DEF Shape, Stations
<1>5. Known(w, since'[h])
  BY <1>0, <1>3 DEF Known, Place, Sight, Posts, Answer, Covered
<1> QED BY <1>1, <1>3, <1>4, <1>5, LookedOK

------------------------------------------------------------------------------
(* Requests that write.                                                    *)
LEMMA InsertOK == ASSUME IInv, WatchChat, NEW h \in Handlers, InsertMessage(h) PROVE IInv'
<1> DEFINE q == chatReq[h]
<1>0. q \in ChatReqs /\ Shape(q) /\ Known(q, since[h]) /\ q.op = "post" /\ q.at = "write"
  BY DEF IInv, ChatTypeOK, ShapeOK, KnownOK, InsertMessage, ChatAt
<1>1. PICK m \in Messages :
        /\ message[m] = NoMessage
        /\ message' = [message EXCEPT ![m] =
                         [topic |-> q.topic, parent |-> q.parent, level |-> q.level,
                          deleted |-> FALSE, pinned |-> FALSE]]
        /\ late' = IF q.topic \in since[h].gone THEN late \union {m} ELSE late
  BY DEF InsertMessage
<1>2. FinishChat(h) /\ UNCHANGED <<standing, topic, scope, readBy>>
  BY DEF InsertMessage
<1>3. /\ q.topic \in Topics /\ q.parent \in Messages \union {None} /\ q.level \in Nat
      /\ topic[q.topic].deleted => q.topic \in since[h].gone
      /\ q.parent # None => /\ message[q.parent].topic = q.topic
                            /\ q.level = message[q.parent].level + 1
                            /\ Live(q.parent) \/ q.topic \in since[h].gone
  BY <1>0 DEF Shape, ChatReqs, Known, Answer
<1>4. message \in [Messages -> MessageRows \union {NoMessage}]
  BY DEF IInv, ChatTypeOK
<1> HIDE DEF q
<1> DEFINE row == [topic |-> q.topic, parent |-> q.parent, level |-> q.level,
                   deleted |-> FALSE, pinned |-> FALSE]
<1>5. /\ row \in MessageRows /\ row.topic = q.topic /\ row.parent = q.parent
      /\ row.level = q.level /\ ~row.deleted
  BY <1>3 DEF MessageRows
<1> HIDE DEF row
<1>6. message' = [message EXCEPT ![m] = row]
  BY <1>1 DEF row
<1>7. TablesOK'
  <2>1. message' \in [Messages -> MessageRows \union {NoMessage}]
    BY <1>4, <1>5, <1>6
  <2>2. late' \subseteq Messages
    <3>1. late' \subseteq late \union {m}
      BY <1>1
    <3> QED BY <3>1 DEF IInv, ChatTypeOK
  <2> QED BY <1>2, <2>1, <2>2 DEF IInv, ChatTypeOK, TablesOK
<1>8. Grown
  <2>1. ASSUME NEW x \in Messages, message[x] # NoMessage PROVE message'[x] = message[x]
    BY <1>1, <1>4, <1>6, <2>1
  <2> QED BY <1>2, <2>1 DEF Grown, Exists, Live
<1>9. ThreadsSound'
  <2>1. \A x \in Messages : message[x].topic \in Topics => x # m
    BY <1>1, RowIdAssumption DEF NoMessage
  <2>2. ASSUME NEW x \in Messages, Live(x)'
        PROVE  /\ ~topic'[message'[x].topic].deleted \/ x \in late'
               /\ message'[x].parent # None =>
                    /\ message'[message'[x].parent].topic = message'[x].topic
                    /\ message'[x].level = message'[message'[x].parent].level + 1
                    /\ Live(message[x].parent)' \/ x \in late'
    <3>1. CASE x = m
      <4>1. message'[x] = row
        BY <1>4, <1>6, <3>1
      <4>2. q.parent # None => q.parent \in Messages /\ q.parent # m
        BY <1>3, <2>1
      <4>3. q.parent # None => message'[q.parent] = message[q.parent]
        BY <1>4, <1>6, <4>2
      <4>4. q.topic \in since[h].gone => x \in late'
        BY <1>1, <3>1
      <4> QED BY <1>2, <1>3, <1>5, <4>1, <4>3, <4>4, AbsentRows DEF Live
    <3>2. CASE x # m
      <4>1. message'[x] = message[x] /\ Live(x)
        BY <1>4, <1>6, <2>2, <3>2 DEF Live
      <4>2. message[x] \in MessageRows
        BY <1>4, <4>1 DEF Live
      <4>3. /\ ~topic[message[x].topic].deleted \/ x \in late
            /\ message[x].parent # None =>
                 /\ message[message[x].parent].topic = message[x].topic
                 /\ message[x].level = message[message[x].parent].level + 1
                 /\ Live(message[x].parent) \/ x \in late
        BY <4>1 DEF IInv, ThreadsSound
      <4>4. message[x].parent # None => message'[message[x].parent] = message[message[x].parent]
        BY <1>4, <1>6, <2>1, <4>2, <4>3 DEF MessageRows
      <4>5. late \subseteq late'
        BY <1>1
      <4> QED BY <1>2, <4>1, <4>3, <4>4, <4>5 DEF Live
    <3> QED BY <3>1, <3>2
  <2> QED BY <2>2 DEF ThreadsSound, Live
<1> QED BY <1>2, <1>7, <1>8, <1>9, WrittenOK

LEMMA PinOK == ASSUME IInv, WatchChat, NEW h \in Handlers, PinMessage(h) PROVE IInv'
<1> DEFINE p == chatReq[h].parent
<1>0. p \in Messages /\ message[p] # NoMessage
  BY DEF IInv, ShapeOK, KnownOK, PinMessage, ChatAt, Shape, Known, Place
<1>1. PICK isPinned \in BOOLEAN : message' = [message EXCEPT ![p].pinned = isPinned]
  BY DEF PinMessage
<1>2. FinishChat(h) /\ UNCHANGED <<standing, topic, scope, readBy, late>>
  BY DEF PinMessage
<1>3. message \in [Messages -> MessageRows \union {NoMessage}] /\ message[p] \in MessageRows
  BY <1>0 DEF IInv, ChatTypeOK
<1> HIDE DEF p
<1> DEFINE row == [message[p] EXCEPT !.pinned = isPinned]
<1>4. /\ row \in MessageRows /\ row.topic = message[p].topic /\ row.parent = message[p].parent
      /\ row.level = message[p].level /\ row.deleted = message[p].deleted
  BY <1>3 DEF MessageRows
<1>5. message' = [message EXCEPT ![p] = row]
  BY <1>1, <1>3
<1> HIDE DEF row
<1>6. ASSUME NEW x \in Messages
      PROVE  /\ message'[x] \in MessageRows \union {NoMessage}
             /\ message'[x] = NoMessage <=> message[x] = NoMessage
             /\ message'[x].topic = message[x].topic /\ message'[x].parent = message[x].parent
             /\ message'[x].level = message[x].level /\ Live(x)' = Live(x)
  BY <1>0, <1>3, <1>4, <1>5, AbsentRows DEF Live
<1>7. TablesOK'
  <2>1. message' \in [Messages -> MessageRows \union {NoMessage}]
    BY <1>3, <1>4, <1>5
  <2> QED BY <1>2, <2>1 DEF IInv, ChatTypeOK, TablesOK
<1>8. Grown
  BY <1>2, <1>6 DEF Grown, Exists
<1>9. ThreadsSound'
  <2>1. \A x \in Messages : Live(x) => message[x].parent \in Messages \union {None}
    BY <1>3 DEF Live, MessageRows
  <2> QED BY <1>2, <1>6, <2>1 DEF IInv, ThreadsSound
<1> QED BY <1>2, <1>7, <1>8, <1>9, WrittenOK

LEMMA ReadsOK == ASSUME IInv, WatchChat, NEW h \in Handlers, InsertReads(h) PROVE IInv'
<1> DEFINE q == chatReq[h]
<1>0. q.actor \in Users
  BY DEF IInv, ShapeOK, InsertReads, ChatAt, Shape
<1>1. /\ readBy' = [m \in Messages |-> IF m \in q.rows THEN readBy[m] \union {q.actor} ELSE readBy[m]]
      /\ FinishChat(h) /\ UNCHANGED <<standing, topic, scope, message, late>>
  BY DEF InsertReads
<1> HIDE DEF q
<1>2. TablesOK'
  <2>1. readBy' \in [Messages -> SUBSET Users]
    BY <1>0, <1>1 DEF IInv, ChatTypeOK
  <2> QED BY <1>1, <2>1 DEF IInv, ChatTypeOK, TablesOK
<1>3. Grown
  BY <1>1 DEF Grown, Exists, Live
<1>4. ThreadsSound'
  BY <1>1 DEF IInv, ThreadsSound, Live
<1> QED BY <1>1, <1>2, <1>3, <1>4, WrittenOK

LEMMA CreateOK == ASSUME IInv, WatchChat, NEW h \in Handlers, CreateTopic(h) PROVE IInv'
<1> DEFINE r == chatReq[h].room
           row == [room |-> r, deleted |-> FALSE, scope |-> None]
<1>0. r \in Rooms
  BY DEF IInv, ShapeOK, CreateTopic, ChatAt, Shape
<1>1. PICK t \in Topics : topic[t] = NoTopic /\ topic' = [topic EXCEPT ![t] = row]
  BY DEF CreateTopic
<1>2. FinishChat(h) /\ UNCHANGED <<standing, scope, message, readBy, late>>
  BY DEF CreateTopic
<1>3. topic \in [Topics -> TopicRows \union {NoTopic}]
  BY DEF IInv, ChatTypeOK
<1> HIDE DEF r
<1>4. row \in TopicRows /\ ~row.deleted /\ row.scope = None
  BY <1>0 DEF TopicRows
<1> HIDE DEF row
<1>5. ASSUME NEW x \in Topics
      PROVE  /\ topic'[x] \in TopicRows \union {NoTopic}
             /\ topic[x] # NoTopic => topic'[x] # NoTopic
             /\ topic'[x].scope = topic[x].scope /\ topic'[x].deleted = topic[x].deleted
  <2>1. ~NoTopic.deleted /\ NoTopic.scope = None /\ NoTopic.deleted = FALSE /\ row.deleted = FALSE
    BY DEF NoTopic, row
  <2> QED BY <1>1, <1>3, <1>4, <2>1, AbsentRows
<1>6. TablesOK'
  <2>1. topic' \in [Topics -> TopicRows \union {NoTopic}]
    BY <1>1, <1>3, <1>4
  <2> QED BY <1>2, <1>5, <2>1 DEF IInv, ChatTypeOK, TablesOK
<1>7. Grown
  BY <1>2, <1>5 DEF Grown, Exists, Live
<1>8. ThreadsSound'
  <2>1. \A m \in Messages : Live(m) => message[m].topic \in Topics
    BY DEF IInv, ChatTypeOK, Live, MessageRows
  <2> QED BY <1>2, <1>5, <2>1 DEF IInv, ThreadsSound, Live
<1> QED BY <1>2, <1>6, <1>7, <1>8, WrittenOK

LEMMA CommitOK == ASSUME IInv, WatchChat, NEW h \in Handlers, CommitDeletion(h) PROVE IInv'
<1> DEFINE q == chatReq[h]
           t == q.topic
<1>0. q \in ChatReqs /\ Shape(q) /\ Known(q, since[h]) /\ q.op = "deleteTopic" /\ q.at = "commit"
  BY DEF IInv, ChatTypeOK, ShapeOK, KnownOK, CommitDeletion, ChatAt
<1>1. /\ topic' = [topic EXCEPT ![t].deleted = TRUE]
      /\ message' = [m \in Messages |-> IF m \in q.rows
                                        THEN [message[m] EXCEPT !.deleted = TRUE] ELSE message[m]]
      /\ late' = late \union (since[h].news \intersect LiveIn(t))
      /\ FinishChat(h) /\ UNCHANGED <<standing, scope, readBy>>
  BY DEF CommitDeletion
<1>2. /\ t \in Topics /\ Exists(t) /\ q.rows \subseteq Messages
      /\ \A m \in q.rows : message[m].topic = t
      /\ \A m \in LiveIn(t) : m \in q.rows \/ m \in since[h].news
  BY <1>0 DEF Shape, ChatReqs, Known, Place, Covered
<1> HIDE DEF q, t
<1>3. /\ topic \in [Topics -> TopicRows \union {NoTopic}]
      /\ message \in [Messages -> MessageRows \union {NoMessage}]
      /\ topic[t] \in TopicRows
      /\ \A m \in q.rows : message[m] \in MessageRows
  BY <1>2, RowIdAssumption DEF IInv, ChatTypeOK, Exists, NoMessage
<1>4. ASSUME NEW x \in Topics
      PROVE  /\ topic'[x] \in TopicRows \union {NoTopic}
             /\ topic[x] # NoTopic => topic'[x] # NoTopic
             /\ topic'[x].scope = topic[x].scope
             /\ topic[x].deleted => topic'[x].deleted
             /\ x = t => topic'[x].deleted
             /\ x # t => topic'[x] = topic[x]
  <2> DEFINE row == [topic[t] EXCEPT !.deleted = TRUE]
  <2>1. row \in TopicRows /\ row.scope = topic[t].scope /\ row.deleted
    BY <1>3 DEF TopicRows
  <2>2. topic' = [topic EXCEPT ![t] = row]
    BY <1>1, <1>3
  <2> HIDE DEF row
  <2> QED BY <1>2, <1>3, <2>1, <2>2, AbsentRows
<1>5. ASSUME NEW x \in Messages
      PROVE  /\ message'[x] \in MessageRows \union {NoMessage}
             /\ message[x] # NoMessage => message'[x] # NoMessage
             /\ message'[x].topic = message[x].topic /\ message'[x].parent = message[x].parent
             /\ message'[x].level = message[x].level
             /\ x \in q.rows => message'[x].deleted /\ message[x].topic = t
             /\ x \notin q.rows => message'[x] = message[x]
  <2>1. CASE x \in q.rows
    <3>1. message'[x] = [message[x] EXCEPT !.deleted = TRUE]
      BY <1>1, <2>1
    <3>2. message[x] \in MessageRows
      BY <1>3, <2>1
    <3> DEFINE row == [message[x] EXCEPT !.deleted = TRUE]
    <3>3. /\ row \in MessageRows /\ row.topic = message[x].topic /\ row.parent = message[x].parent
          /\ row.level = message[x].level /\ row.deleted
      BY <3>2 DEF MessageRows
    <3> HIDE DEF row
    <3>4. message'[x] = row
      BY <3>1 DEF row
    <3> QED BY <1>2, <2>1, <3>3, <3>4, AbsentRows
  <2>2. CASE x \notin q.rows
    BY <1>1, <1>3, <2>2
  <2> QED BY <2>1, <2>2
<1>6. TablesOK'
  <2>1. topic' \in [Topics -> TopicRows \union {NoTopic}]
    <3>1. DOMAIN topic' = Topics /\ topic' = [x \in Topics |-> topic'[x]]
      BY <1>1, <1>3
    <3> QED BY <1>4, <3>1
  <2>2. message' \in [Messages -> MessageRows \union {NoMessage}]
    <3>1. message' = [x \in Messages |-> message'[x]]
      BY <1>1
    <3> QED BY <1>5, <3>1
  <2>3. late' \subseteq Messages
    BY <1>1 DEF LiveIn, IInv, ChatTypeOK
  <2>4. /\ \A s \in Scopes : scope'[s] \in ScopeRows <=> \E x \in Topics : topic'[x].scope = s
        /\ \A x, y \in Topics : topic'[x].scope = topic'[y].scope => x = y \/ topic'[x].scope = None
    BY <1>1, <1>4 DEF IInv, ChatTypeOK
  <2> QED BY <1>1, <2>1, <2>2, <2>3, <2>4 DEF IInv, ChatTypeOK, TablesOK
<1>7. Grown
  BY <1>1, <1>2, <1>4, <1>5 DEF Grown, Exists, Live
<1>8. ThreadsSound'
  <2>1. ASSUME NEW x \in Messages, Live(x)'
        PROVE  /\ ~topic'[message'[x].topic].deleted \/ x \in late'
               /\ message'[x].parent # None =>
                    /\ message'[message'[x].parent].topic = message'[x].topic
                    /\ message'[x].level = message'[message'[x].parent].level + 1
                    /\ Live(message[x].parent)' \/ x \in late'
    <3>1. x \notin q.rows /\ message'[x] = message[x] /\ Live(x) /\ message[x] \in MessageRows
      BY <1>3, <1>5, <2>1 DEF Live
    <3>2. /\ ~topic[message[x].topic].deleted \/ x \in late
          /\ message[x].parent # None =>
               /\ message[message[x].parent].topic = message[x].topic
               /\ message[x].level = message[message[x].parent].level + 1
               /\ Live(message[x].parent) \/ x \in late
      BY <3>1 DEF IInv, ThreadsSound
    <3>3. message[x].topic \in Topics /\ message[x].parent \in Messages \union {None}
      BY <3>1 DEF MessageRows
    <3>4. message[x].topic = t => x \in late'
      BY <1>1, <1>2, <3>1 DEF LiveIn
    <3>5. late \subseteq late'
      BY <1>1
    <3>6. ~topic'[message'[x].topic].deleted \/ x \in late'
      BY <1>4, <3>1, <3>2, <3>3, <3>4, <3>5
    <3>7. ASSUME message[x].parent # None, Live(message[x].parent)
          PROVE  Live(message[x].parent)' \/ x \in late'
      BY <1>5, <3>2, <3>3, <3>4, <3>7 DEF Live
    <3> QED BY <1>5, <3>1, <3>2, <3>3, <3>5, <3>6, <3>7 DEF Live
  <2> QED BY <2>1 DEF ThreadsSound, Live
<1> QED BY <1>1, <1>6, <1>7, <1>8, WrittenOK

(* A topic gets a scope nobody has, and the one it had is gone.            *)
LEMMA CreateScopeOK == ASSUME IInv, WatchChat, NEW h \in Handlers, CreateScope(h) PROVE IInv'
<1> DEFINE q == chatReq[h]
           t == q.topic
<1>0. t \in Topics /\ Exists(t) /\ q.scope \in Scopes \union {None}
  BY DEF IInv, ChatTypeOK, ChatReqs, ShapeOK, KnownOK, CreateScope, ChatAt, Shape, Known, Place
<1>1. FinishChat(h) /\ UNCHANGED <<standing, message, readBy, late>>
  BY DEF CreateScope
<1>2. CASE UNCHANGED <<topic, scope>>
  BY <1>1, <1>2, EndedOK DEF chatTables
<1>3. CASE /\ topic[t].scope = q.scope
           /\ \E s \in Scopes, type \in ScopeTypes, S \in SUBSET Users :
                /\ scope[s] = NoScope
                /\ topic' = [topic EXCEPT ![t].scope = s]
                /\ scope' = [x \in Scopes |-> IF x = s THEN [type |-> type, entries |-> S]
                                              ELSE IF x = q.scope THEN GoneScope ELSE scope[x]]
  <2>1. PICK s \in Scopes, type \in ScopeTypes, S \in SUBSET Users :
          /\ scope[s] = NoScope
          /\ topic' = [topic EXCEPT ![t].scope = s]
          /\ scope' = [x \in Scopes |-> IF x = s THEN [type |-> type, entries |-> S]
                                        ELSE IF x = q.scope THEN GoneScope ELSE scope[x]]
    BY <1>3
  <2> DEFINE new == [type |-> type, entries |-> S]
             row == [topic[t] EXCEPT !.scope = s]
  <2>2. /\ topic \in [Topics -> TopicRows \union {NoTopic}]
        /\ scope \in [Scopes -> ScopeRows \union {NoScope, GoneScope}]
        /\ topic[t] \in TopicRows
    BY <1>0 DEF IInv, ChatTypeOK, Exists
  <2> HIDE DEF q, t
  <2>3. new \in ScopeRows
    BY DEF ScopeRows
  <2>4. row \in TopicRows /\ row.scope = s /\ row.deleted = topic[t].deleted
    BY <2>2 DEF TopicRows
  <2>5. /\ topic' = [topic EXCEPT ![t] = row]
        /\ scope' = [x \in Scopes |-> IF x = s THEN new
                                      ELSE IF x = q.scope THEN GoneScope ELSE scope[x]]
    BY <2>1, <2>2
  <2> HIDE DEF new, row
  <2>6. ASSUME NEW x \in Topics
        PROVE  /\ topic[x].scope # s
               /\ x = t => topic'[x].scope = s
               /\ x # t => topic'[x] = topic[x]
               /\ topic[x] # NoTopic => topic'[x] # NoTopic
               /\ topic'[x].deleted = topic[x].deleted
    <3>1. topic[x].scope # s
      BY <2>1, AbsentRows DEF IInv, ChatTypeOK
    <3> QED BY <1>0, <2>2, <2>4, <2>5, <3>1, AbsentRows
  <2>7. TablesOK'
    <3>1. topic' \in [Topics -> TopicRows \union {NoTopic}]
      BY <2>2, <2>4, <2>5
    <3>2. scope' \in [Scopes -> ScopeRows \union {NoScope, GoneScope}]
      BY <2>2, <2>3, <2>5
    <3>3. ASSUME NEW x \in Scopes
          PROVE  scope'[x] \in ScopeRows <=> \E y \in Topics : topic'[y].scope = x
      <4>1. CASE x = s
        BY <1>0, <2>3, <2>5, <2>6, <4>1
      <4>2. CASE x # s /\ x = q.scope
        <5>1. scope'[x] = GoneScope
          BY <2>5, <4>2
        <5>2. ASSUME NEW y \in Topics, topic'[y].scope = x PROVE FALSE
          <6>1. y # t /\ topic[y].scope = x
            BY <2>6, <4>2, <5>2
          <6>2. topic[t].scope = x
            BY <1>3, <4>2
          <6> QED BY <1>0, <6>1, <6>2, RowIdAssumption DEF IInv, ChatTypeOK
        <5> QED BY <5>1, <5>2, AbsentRows
      <4>3. CASE x # s /\ x # q.scope
        <5>1. scope'[x] = scope[x]
          BY <2>5, <4>3
        <5>2. ASSUME NEW y \in Topics PROVE topic'[y].scope = x <=> topic[y].scope = x
          BY <1>3, <2>6, <4>3
        <5> QED BY <5>1, <5>2 DEF IInv, ChatTypeOK
      <4> QED BY <4>1, <4>2, <4>3
    <3>4. ASSUME NEW x \in Topics, NEW y \in Topics, topic'[x].scope = topic'[y].scope
          PROVE  x = y \/ topic'[x].scope = None
      BY <2>6, <3>4 DEF IInv, ChatTypeOK
    <3> QED BY <1>1, <3>1, <3>2, <3>3, <3>4 DEF IInv, ChatTypeOK, TablesOK
  <2>8. Grown
    <3>1. ASSUME NEW x \in Scopes, scope[x] # NoScope PROVE scope'[x] # NoScope
      BY <2>1, <2>5, <3>1, AbsentRows
    <3>2. ASSUME NEW x \in Topics, topic'[x].scope = topic[x].scope, topic[x].scope # None
          PROVE  scope'[topic[x].scope].type = scope[topic[x].scope].type
      <4>1. x # t
        BY <2>6, <3>2
      <4>2. topic[x].scope \in Scopes /\ topic[x].scope # s /\ topic[x].scope # q.scope
        BY <1>0, <1>3, <2>2, <2>6, <3>2, <4>1 DEF IInv, ChatTypeOK, TopicRows, NoTopic
      <4> QED BY <2>5, <4>2
    <3> QED BY <1>1, <2>6, <3>1, <3>2 DEF Grown, Exists, Live
  <2>9. ThreadsSound'
    <3>1. \A m \in Messages : Live(m) => message[m].topic \in Topics
      BY DEF IInv, ChatTypeOK, Live, MessageRows
    <3> QED BY <1>1, <2>6, <3>1 DEF IInv, ThreadsSound, Live
  <2> QED BY <1>1, <2>7, <2>8, <2>9, WrittenOK
<1> QED BY <1>2, <1>3 DEF CreateScope

LEMMA PatchOK == ASSUME IInv, WatchChat, NEW h \in Handlers, PatchScope(h) PROVE IInv'
<1> DEFINE s == chatReq[h].scope
<1>0. s \in Scopes /\ scope[s] # NoScope
  BY DEF IInv, ShapeOK, KnownOK, PatchScope, ChatAt, Shape, Known, Place
<1>1. FinishChat(h) /\ UNCHANGED <<standing, topic, message, readBy, late>>
  BY DEF PatchScope
<1>2. CASE UNCHANGED scope
  BY <1>1, <1>2, EndedOK DEF chatTables
<1>3. ASSUME scope[s] # GoneScope, NEW add \in SUBSET Users, NEW remove \in SUBSET Users,
             scope' = [scope EXCEPT ![s].entries = (scope[s].entries \union add) \ remove]
      PROVE  IInv'
  <2> HIDE DEF s
  <2> DEFINE S == (scope[s].entries \union add) \ remove
             row == [scope[s] EXCEPT !.entries = S]
  <2>1. scope \in [Scopes -> ScopeRows \union {NoScope, GoneScope}] /\ scope[s] \in ScopeRows
    BY <1>0, <1>3 DEF IInv, ChatTypeOK
  <2>2. S \subseteq Users
    BY <2>1 DEF ScopeRows
  <2>3. scope' = [scope EXCEPT ![s] = row]
    BY <1>3, <2>1
  <2> HIDE DEF S
  <2>4. row \in ScopeRows /\ row.type = scope[s].type
    BY <2>1, <2>2 DEF ScopeRows
  <2> HIDE DEF row
  <2>5. ASSUME NEW x \in Scopes
        PROVE  /\ scope'[x] \in ScopeRows <=> scope[x] \in ScopeRows
               /\ scope[x] # NoScope => scope'[x] # NoScope
               /\ scope'[x].type = scope[x].type
    BY <1>0, <2>1, <2>3, <2>4, AbsentRows
  <2>6. TablesOK'
    <3>1. scope' \in [Scopes -> ScopeRows \union {NoScope, GoneScope}]
      BY <2>1, <2>3, <2>4
    <3> QED BY <1>1, <2>5, <3>1 DEF IInv, ChatTypeOK, TablesOK
  <2>7. Grown
    <3>1. \A t \in Topics : topic[t].scope # None => topic[t].scope \in Scopes
      BY DEF IInv, ChatTypeOK, TopicRows, NoTopic
    <3> QED BY <1>1, <2>5, <3>1 DEF Grown, Exists, Live
  <2>8. ThreadsSound'
    BY <1>1 DEF IInv, ThreadsSound, Live
  <2> QED BY <1>1, <2>6, <2>7, <2>8, WrittenOK
<1> QED BY <1>2, <1>3 DEF PatchScope

(* Members come and go as Membership allows; the requests stay.            *)
LEMMA MembersOK == ASSUME IInv, WatchChat, MembersChange PROVE IInv'
<1>1. UNCHANGED <<topic, scope, message, readBy, chatReq, late>>
  BY DEF MembersChange
<1>2. standing' \in [Rooms -> [Users -> Roles \union {"none"}]]
  <2>1. standing \in [Rooms -> [Users -> Roles \union {"none"}]]
    BY DEF IInv, ChatTypeOK
  <2>2. PICK r \in Rooms :
          \/ \E c \in Users, S \in SUBSET Users, x \in Assignable : MembersOf!Found(r, c, S, x)
          \/ \E S \in SUBSET Users, x \in Assignable : MembersOf!Join(r, S, x)
          \/ \E S \in SUBSET Users : MembersOf!Leave(r, S)
          \/ \E u \in Users, x \in Assignable : MembersOf!Promote(r, u, x)
    BY DEF MembersChange, MembersOf!MembershipNext, MembersOf!Assignable, Assignable
  <2>3. ASSUME NEW c \in Users, NEW S \in SUBSET Users, NEW x \in Assignable,
               MembersOf!Found(r, c, S, x)
        PROVE  standing' \in [Rooms -> [Users -> Roles \union {"none"}]]
    BY <2>1, <2>3 DEF MembersOf!Found, Roles
  <2>4. ASSUME NEW S \in SUBSET Users, NEW x \in Assignable, MembersOf!Join(r, S, x)
        PROVE  standing' \in [Rooms -> [Users -> Roles \union {"none"}]]
    BY <2>1, <2>4 DEF MembersOf!Join, Roles
  <2>5. ASSUME NEW S \in SUBSET Users, MembersOf!Leave(r, S)
        PROVE  standing' \in [Rooms -> [Users -> Roles \union {"none"}]]
    BY <2>1, <2>5 DEF MembersOf!Leave
  <2>6. ASSUME NEW u \in Users, NEW x \in Assignable, MembersOf!Promote(r, u, x)
        PROVE  standing' \in [Rooms -> [Users -> Roles \union {"none"}]]
    BY <2>1, <2>6 DEF MembersOf!Promote, Roles
  <2> QED BY <2>2, <2>3, <2>4, <2>5, <2>6
<1>3. TablesOK'
  BY <1>1, <1>2 DEF IInv, ChatTypeOK, TablesOK
<1>4. ThreadsSound'
  BY <1>1 DEF IInv, ThreadsSound, Live
<1>5. Grown
  BY <1>1 DEF Grown, Exists, Live
<1>6. chatReq' \in [Handlers -> ChatReqs] /\ ShapeOK'
  BY <1>1 DEF IInv, ChatTypeOK, ShapeOK, Shape
<1> QED BY <1>1, <1>3, <1>4, <1>5, <1>6, CarriesOver

------------------------------------------------------------------------------
LEMMA InitOK == ChatInit => IInv
<1> SUFFICES ASSUME ChatInit PROVE IInv
  OBVIOUS
<1>1. ChatTypeOK
  <2>1. topic \in [Topics -> TopicRows \union {NoTopic}]
    <3>1. [room : Rooms, deleted : {FALSE}, scope : Scopes \union {None}] \subseteq TopicRows
      BY DEF TopicRows
    <3> QED BY <3>1 DEF ChatInit
  <2>2. /\ scope \in [Scopes -> ScopeRows \union {NoScope, GoneScope}]
        /\ \A s \in Scopes : scope[s] \in ScopeRows <=> scope[s] # NoScope
    <3>1. [type : ScopeTypes, entries : {{}}] \subseteq ScopeRows
      BY DEF ScopeRows
    <3> QED BY <3>1, AbsentRows DEF ChatInit
  <2>3. since \in [Handlers -> Histories] /\ chatReq \in [Handlers -> ChatReqs]
    BY NoRequest DEF ChatInit, Nothing, Histories
  <2> QED BY <2>1, <2>2, <2>3 DEF ChatInit, ChatTypeOK
<1>2. ShapeOK /\ KnownOK
  BY NoRequest DEF ChatInit, ShapeOK, KnownOK
<1>3. ThreadsSound
  BY DEF ChatInit, ThreadsSound, Live
<1> QED BY <1>1, <1>2, <1>3 DEF IInv

LEMMA StepOK == ASSUME IInv, WatchChat, NEW h \in Handlers, ChatStep(h) PROVE IInv'
<1>1. CASE StartChat(h)        BY <1>1, StartOK
<1>2. CASE AssertRoomMember(h) BY <1>2, MemberOK
<1>3. CASE ReadScope(h)        BY <1>3, ScopeOK
<1>4. CASE ReadPrivilege(h)    BY <1>4, PrivilegeOK
<1>5. CASE ReadEntry(h)        BY <1>5, EntryOK
<1>6. CASE CheckPermission(h)  BY <1>6, PermissionOK
<1>7. CASE AssertExists(h)     BY <1>7, ExistsOK
<1>8. CASE ReadTopic(h)        BY <1>8, TopicOK
<1>9. CASE ReadParent(h)       BY <1>9, ParentOK
<1>10. CASE InsertMessage(h)   BY <1>10, InsertOK
<1>11. CASE PinMessage(h)      BY <1>11, PinOK
<1>12. CASE ListMessages(h)    BY <1>12, EndedOK DEF ListMessages
<1>13. CASE FindUnread(h)      BY <1>13, UnreadOK
<1>14. CASE InsertReads(h)     BY <1>14, ReadsOK
<1>15. CASE CreateTopic(h)     BY <1>15, CreateOK
<1>16. CASE MarkMessages(h)    BY <1>16, MarkOK
<1>17. CASE CommitDeletion(h)  BY <1>17, CommitOK
<1>18. CASE DropScope(h)       BY <1>18, DropOK
<1>19. CASE CreateScope(h)     BY <1>19, CreateScopeOK
<1>20. CASE PatchScope(h)      BY <1>20, PatchOK
<1>21. CASE FailChat(h)        BY <1>21, EndedOK DEF FailChat
<1> QED BY <1>1, <1>2, <1>3, <1>4, <1>5, <1>6, <1>7, <1>8, <1>9, <1>10, <1>11, <1>12, <1>13,
           <1>14, <1>15, <1>16, <1>17, <1>18, <1>19, <1>20, <1>21 DEF ChatStep

(* IInv is an inductive invariant of the conversations.                    *)
THEOREM ChatInvariance == ChatSpec => []IInv
<1>1. IInv /\ [ChatNext]_chatVars => IInv'
  <2>1. ASSUME IInv, ChatNext PROVE IInv'
    BY <2>1, MembersOK, StepOK DEF ChatNext
  <2>2. ASSUME IInv, UNCHANGED chatVars PROVE IInv'
    BY <2>2 DEF chatVars, IInv, ChatTypeOK, ShapeOK, Shape, ThreadsSound, Live, KnownOK, Known,
                Place, Exists, Sight, Answer, Covered, LiveIn
  <2> QED BY <2>1, <2>2
<1> QED BY <1>1, InitOK, PTL DEF ChatSpec

(* However posts, deletions and changes of visibility interleave, every    *)
(* scope belongs to one topic, threads stay in their topic with their      *)
(* levels counting up, and only a message inserted while its topic was     *)
(* being deleted outlives it.                                              *)
THEOREM ConversationIsSound == ChatSpec => []ConversationSound
<1>1. IInv => ConversationSound
  BY DEF IInv, ConversationSound
<1> QED BY <1>1, ChatInvariance, PTL

(* Whoever posts, lists or marks as read was a member of the room during   *)
(* the request, and saw the topic during it unless its scope was replaced. *)
THEOREM SeenInWindow == ChatSpec => []SeenWithinWindow
<1>1. IInv => SeenWithinWindow
  BY DEF IInv, KnownOK, Known, Sight, Posts, SeenWithinWindow
<1> QED BY <1>1, ChatInvariance, PTL

(* The step that changes the read marks is the one of the request that     *)
(* ends with it.                                                           *)
LEMMA ReadsByOne ==
  ASSUME IInv, ChatNext, NEW h \in Handlers, readBy' # readBy, chatReq'[h] # chatReq[h]
  PROVE  InsertReads(h)
<1>1. PICK g \in Handlers : ChatStep(g)
  BY DEF ChatNext, MembersChange
<1>2. InsertReads(g)
  BY <1>1 DEF ChatStep, StartChat, AssertRoomMember, ReadScope, ReadPrivilege, ReadEntry,
              CheckPermission, AssertExists, ReadTopic, ReadParent, InsertMessage, PinMessage,
              ListMessages, FindUnread, CreateTopic, MarkMessages, CommitDeletion, DropScope,
              CreateScope, PatchScope, FailChat, chatTables
<1>3. chatReq' = [chatReq EXCEPT ![g] = NoChatReq]
  BY <1>2 DEF InsertReads, FinishChat, ChatGo
<1>4. g = h
  BY <1>3 DEF IInv, ChatTypeOK
<1> QED BY <1>2, <1>4

(* A topic that is opened is marked as read up to what was posted since.   *)
THEOREM WholeTopicIsRead == ChatSpec => MarksWholeTopic
<1>1. ASSUME IInv, [ChatNext]_chatVars, NEW h \in Handlers, ChatAt(h, {"markRead"}, "commit"),
             readBy' # readBy, chatReq'[h] # chatReq[h],
             NEW m \in LiveIn(chatReq[h].topic) \ since[h].news
      PROVE  chatReq[h].actor \in readBy'[m]
  <2> DEFINE q == chatReq[h]
  <2>1. InsertReads(h)
    BY <1>1, ReadsByOne DEF chatVars
  <2>2. m \in Messages
    BY DEF LiveIn
  <2>3. m \in q.rows \/ q.actor \in readBy[m]
    BY <1>1 DEF IInv, KnownOK, Known, Covered, ChatAt
  <2> QED BY <2>1, <2>2, <2>3 DEF InsertReads
<1>2. IInv /\ [ChatNext]_chatVars =>
        \A h \in Handlers :
          (ChatAt(h, {"markRead"}, "commit") /\ readBy' # readBy /\ chatReq'[h] # chatReq[h]) =>
            \A m \in LiveIn(chatReq[h].topic) \ since[h].news :
              chatReq[h].actor \in readBy'[m]
  BY <1>1
<1> QED BY <1>2, ChatInvariance, PTL DEF ChatSpec, MarksWholeTopic
==============================================================================
