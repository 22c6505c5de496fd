--------------------------- MODULE Realtime_proofs ---------------------------
(***************************************************************************)
(* Proofs about the tab that watches the chat, for every value of the      *)
(* constants.                                                              *)
(*                                                                         *)
(* Realtime, for every chat, and any number of failures and visits: its    *)
(* socket follows the room, no message is counted more than twice, lists   *)
(* come to be exact, and unread counts are but for what met a query or a   *)
(* visit.  While anything is pending something can go on, and each step    *)
(* that goes on by itself brings the tab nearer to rest.                   *)
(*                                                                         *)
(* Feed: whatever requests, events, queries and failures meet, the cache   *)
(* of an open room is exact at rest unless astray says why not, and what   *)
(* is gone is closed.  The argument follows what is on its way.  The cache,*)
(* or the answer on its way to it, is the Base; the events on the wire     *)
(* lead from it to some value (Leads), and the changes still to be         *)
(* announced lead from there to the row (Due).  A receipt is the one event *)
(* that says a difference and not a value, so it has to be known that it   *)
(* is on its way only once (PlusOnce), and that an answer does not count it*)
(* already (CountAhead).  A row that is gone has its drop on its way, or is*)
(* closed (GoneOK).                                                        *)
(***************************************************************************)
EXTENDS Realtime, Feed, FiniteSetTheorems, SequenceTheorems, TLAPS

------------------------------------------------------------------------------
(* The channels of the socket *)

(* What the socket is in once the gateway has served the events s: the     *)
(* last one about a room decides.                                          *)
JoinsIn(c, s, r) ==
  \/ \E i \in DOMAIN s : /\ s[i].op = "join" /\ s[i].room = r
                         /\ \A j \in DOMAIN s : j > i => s[j].room # r
  \/ r \in c /\ \A j \in DOMAIN s : s[j].room # r

SocketEvents == [op : {"join", "leave"}, room : Rooms]

JoinedOK ==
  /\ ~link => channels = {} /\ toServer = <<>>
  /\ link => \A r \in Rooms : JoinsIn(channels, toServer, r) <=> r = active

LEMMA JoinsEmpty ==
  ASSUME NEW c, NEW r
  PROVE  JoinsIn(c, <<>>, r) <=> r \in c
BY DEF JoinsIn

LEMMA JoinsPush ==
  ASSUME NEW c, NEW s \in Seq(SocketEvents), NEW ev \in SocketEvents, NEW r \in Rooms
  PROVE  JoinsIn(c, Append(s, ev), r) <=>
           IF ev.room = r THEN ev.op = "join" ELSE JoinsIn(c, s, r)
<1> DEFINE n == Len(s)
           d == Append(s, ev)
<1>1. /\ n \in Nat /\ DOMAIN s = 1..n /\ DOMAIN d = 1..(n + 1)
      /\ d[n + 1] = ev /\ \A i \in 1..n : d[i] = s[i]
  OBVIOUS
<1> HIDE DEF n, d
<1>2. CASE ev.room = r
  <2>1. ASSUME JoinsIn(c, d, r) PROVE ev.op = "join"
    <3>1. PICK i \in 1..(n + 1) : /\ d[i].op = "join"
                                  /\ \A j \in 1..(n + 1) : j > i => d[j].room # r
      BY <1>1, <1>2, <2>1 DEF JoinsIn
    <3>2. i = n + 1
      BY <1>1, <1>2, <3>1
    <3> QED BY <1>1, <3>1, <3>2
  <2>2. ASSUME ev.op = "join" PROVE JoinsIn(c, d, r)
    <3>1. n + 1 \in 1..(n + 1) /\ \A j \in 1..(n + 1) : ~(j > n + 1)
      BY <1>1
    <3> QED BY <1>1, <1>2, <2>2, <3>1 DEF JoinsIn
  <2> QED BY <1>2, <2>1, <2>2 DEF d
<1>3. CASE ev.room # r
  <2>1. ASSUME JoinsIn(c, d, r) PROVE JoinsIn(c, s, r)
    <3>1. CASE r \in c /\ \A j \in 1..(n + 1) : d[j].room # r
      BY <1>1, <3>1 DEF JoinsIn
    <3>2. ASSUME NEW i \in 1..(n + 1), d[i].op = "join", d[i].room = r,
                 \A j \in 1..(n + 1) : j > i => d[j].room # r
          PROVE  JoinsIn(c, s, r)
      <4>1. i \in 1..n
        BY <1>1, <1>3, <3>2
      <4>2. \A j \in 1..n : j > i => s[j].room # r
        BY <1>1, <3>2
      <4> QED BY <1>1, <3>2, <4>1, <4>2 DEF JoinsIn
    <3> QED BY <1>1, <2>1, <3>1, <3>2 DEF JoinsIn
  <2>2. ASSUME JoinsIn(c, s, r) PROVE JoinsIn(c, d, r)
    <3>1. CASE r \in c /\ \A j \in 1..n : s[j].room # r
      <4>1. \A j \in 1..(n + 1) : d[j].room # r
        BY <1>1, <1>3, <3>1
      <4> QED BY <1>1, <3>1, <4>1 DEF JoinsIn
    <3>2. ASSUME NEW i \in 1..n, s[i].op = "join", s[i].room = r,
                 \A j \in 1..n : j > i => s[j].room # r
          PROVE  JoinsIn(c, d, r)
      <4>1. i \in 1..(n + 1) /\ d[i] = s[i]
        BY <1>1
      <4>2. \A j \in 1..(n + 1) : j > i => d[j].room # r
        BY <1>1, <1>3, <3>2
      <4> QED BY <1>1, <3>2, <4>1, <4>2 DEF JoinsIn
    <3> QED BY <1>1, <2>2, <3>1, <3>2 DEF JoinsIn
  <2> QED BY <1>3, <2>1, <2>2 DEF d
<1> QED BY <1>2, <1>3

LEMMA JoinsPop ==
  ASSUME NEW c, NEW s \in Seq(SocketEvents), s # <<>>, NEW r \in Rooms
  PROVE  JoinsIn(IF Head(s).op = "join" THEN c \union {Head(s).room} ELSE c \ {Head(s).room},
                 Tail(s), r)
         <=> JoinsIn(c, s, r)
<1> DEFINE n == Len(s)
           d == Tail(s)
           ev == s[1]
           e == IF ev.op = "join" THEN c \union {ev.room} ELSE c \ {ev.room}
<1>1. /\ n \in Nat /\ 1 <= n /\ DOMAIN s = 1..n /\ DOMAIN d = 1..(n - 1)
      /\ \A i \in 1..(n - 1) : d[i] = s[i + 1]
      /\ Head(s) = ev
  OBVIOUS
<1>2. r \in e <=> IF ev.room = r THEN ev.op = "join" ELSE r \in c
  OBVIOUS
<1> HIDE DEF n, d, ev, e
<1>3. s[1] = ev
  BY DEF ev
<1>4. ASSUME JoinsIn(e, d, r) PROVE JoinsIn(c, s, r)
  <2>1. CASE r \in e /\ \A j \in 1..(n - 1) : d[j].room # r
    <3>1. \A j \in 1..n : j > 1 => s[j].room # r
      <4> SUFFICES ASSUME NEW j \in 1..n, j > 1 PROVE s[j].room # r
        OBVIOUS
      <4>1. j - 1 \in 1..(n - 1) /\ (j - 1) + 1 = j
        BY <1>1
      <4>2. d[j - 1] = s[j]
        BY <1>1, <4>1
      <4> QED BY <2>1, <4>1, <4>2
    <3>2. 1 \in 1..n
      BY <1>1
    <3>3. CASE ev.room = r
      BY <1>1, <1>2, <1>3, <2>1, <3>1, <3>2, <3>3 DEF JoinsIn
    <3>4. CASE ev.room # r
      <4>1. \A j \in 1..n : s[j].room # r
        BY <1>1, <1>3, <3>1, <3>4
      <4> QED BY <1>1, <1>2, <2>1, <3>4, <4>1 DEF JoinsIn
    <3> QED BY <3>3, <3>4
  <2>2. ASSUME NEW i \in 1..(n - 1), d[i].op = "join", d[i].room = r,
               \A j \in 1..(n - 1) : j > i => d[j].room # r
        PROVE  JoinsIn(c, s, r)
    <3>1. i + 1 \in 1..n /\ s[i + 1] = d[i]
      BY <1>1
    <3>2. ASSUME NEW j \in 1..n, j > i + 1 PROVE s[j].room # r
      <4>1. j - 1 \in 1..(n - 1) /\ (j - 1) + 1 = j /\ j - 1 > i
        BY <1>1, <3>2
      <4>2. d[j - 1] = s[j]
        BY <1>1, <4>1
      <4> QED BY <2>2, <4>1, <4>2
    <3> QED BY <1>1, <2>2, <3>1, <3>2 DEF JoinsIn
  <2> QED BY <1>1, <1>4, <2>1, <2>2 DEF JoinsIn
<1>5. ASSUME JoinsIn(c, s, r) PROVE JoinsIn(e, d, r)
  <2>0. \A j \in 1..(n - 1) : j + 1 \in 1..n /\ j + 1 > 1 /\ d[j] = s[j + 1]
    BY <1>1
  <2>1. CASE r \in c /\ \A j \in 1..n : s[j].room # r
    <3>1. \A j \in 1..(n - 1) : d[j].room # r
      BY <2>0, <2>1
    <3>2. ev.room # r
      BY <1>1, <1>3, <2>1
    <3> QED BY <1>1, <1>2, <2>1, <3>1, <3>2 DEF JoinsIn
  <2>2. ASSUME NEW i \in 1..n, s[i].op = "join", s[i].room = r,
               \A j \in 1..n : j > i => s[j].room # r
        PROVE  JoinsIn(e, d, r)
    <3>1. CASE i = 1
      <4>1. \A j \in 1..(n - 1) : d[j].room # r
        BY <2>0, <2>2, <3>1
      <4> QED BY <1>1, <1>2, <1>3, <2>2, <3>1, <4>1 DEF JoinsIn
    <3>2. CASE i # 1
      <4>1. i - 1 \in 1..(n - 1) /\ (i - 1) + 1 = i
        BY <1>1, <3>2
      <4>2. d[i - 1] = s[i]
        BY <1>1, <4>1
      <4>3. \A j \in 1..(n - 1) : j > i - 1 => d[j].room # r
        <5> SUFFICES ASSUME NEW j \in 1..(n - 1), j > i - 1 PROVE d[j].room # r
          OBVIOUS
        <5>1. j + 1 > i
          BY <1>1, <4>1
        <5> QED BY <2>0, <2>2, <5>1
      <4> QED BY <1>1, <2>2, <4>1, <4>2, <4>3 DEF JoinsIn
    <3> QED BY <3>1, <3>2
  <2> QED BY <1>1, <1>5, <2>1, <2>2 DEF JoinsIn
<1> QED BY <1>1, <1>4, <1>5 DEF d, e

(* A connection begins and ends with no channel; what follows the room     *)
(* leaves the old one and joins the new one.                               *)
LEMMA SocketOK ==
  ASSUME RealtimeTypeOK, JoinedOK, Connect \/ Disconnect \/ ServeSocket \/ FollowRoom
  PROVE  JoinedOK' /\ channels' \subseteq Rooms /\ toServer' \in Seq(SocketEvents)
<1>0. /\ toServer \in Seq(SocketEvents) /\ channels \subseteq Rooms /\ link \in BOOLEAN
      /\ active \in Rooms \union {None} /\ room \in Rooms \union {None} /\ None \notin Rooms
  BY RealtimeAssumption DEF RealtimeTypeOK, SocketEvents
<1>1. \A r \in Rooms : \A op \in {"join", "leave"} :
        /\ [op |-> op, room |-> r] \in SocketEvents
        /\ [op |-> op, room |-> r].op = op /\ [op |-> op, room |-> r].room = r
  BY DEF SocketEvents
<1>2. \A s \in Seq(SocketEvents), ev \in SocketEvents :
        s \o <<ev>> = Append(s, ev) /\ Append(s, ev) \in Seq(SocketEvents)
  OBVIOUS
<1>3. <<>> \in Seq(SocketEvents) /\ \A s \in Seq(SocketEvents) : s \o <<>> = s
  OBVIOUS
<1>4. CASE Connect
  <2>1. channels' = {} /\ active' = active /\ link' /\ toServer' = Rejoin
    BY <1>4 DEF Connect, screen, JoinedOK
  <2>2. CASE active = None
    <3>1. toServer' = <<>>
      BY <2>1, <2>2 DEF Rejoin
    <3> QED BY <1>0, <1>3, <2>1, <2>2, <3>1, JoinsEmpty DEF JoinedOK
  <2>3. CASE active # None
    <3> DEFINE ev == [op |-> "join", room |-> active]
    <3>0. ev \in SocketEvents /\ ev.op = "join" /\ ev.room = active
      BY <1>0, <1>1, <2>3
    <3>00. toServer' = <<ev>>
      BY <2>1, <2>3 DEF Rejoin
    <3> HIDE DEF ev
    <3>1. toServer' = Append(<<>>, ev)
      BY <3>00
    <3>2. \A r \in Rooms : JoinsIn({}, Append(<<>>, ev), r) <=>
            IF ev.room = r THEN ev.op = "join" ELSE JoinsIn({}, <<>>, r)
      BY <1>3, <3>0, JoinsPush
    <3>3. \A r \in Rooms : JoinsIn(channels', toServer', r) <=> r = active
      BY <2>1, <3>0, <3>1, <3>2, JoinsEmpty
    <3> QED BY <1>2, <1>3, <2>1, <3>0, <3>1, <3>3 DEF JoinedOK
  <2> QED BY <2>2, <2>3
<1>5. CASE Disconnect
  BY <1>3, <1>5 DEF Disconnect, JoinedOK
<1>6. CASE ServeSocket
  <2>1. /\ toServer # <<>> /\ toServer' = Tail(toServer) /\ UNCHANGED <<link, active>> /\ link
        /\ channels' = IF Head(toServer).op = "join" THEN channels \union {Head(toServer).room}
                       ELSE channels \ {Head(toServer).room}
    BY <1>0, <1>6 DEF ServeSocket, screen, JoinedOK
  <2>2. Head(toServer) \in SocketEvents /\ Tail(toServer) \in Seq(SocketEvents)
    BY <1>0, <2>1
  <2>3. channels' \subseteq Rooms
    BY <1>0, <2>1, <2>2 DEF SocketEvents
  <2>4. \A r \in Rooms : JoinsIn(channels', toServer', r) <=> JoinsIn(channels, toServer, r)
    BY <1>0, <2>1, JoinsPop
  <2> QED BY <2>1, <2>2, <2>3, <2>4 DEF JoinedOK
<1>7. CASE FollowRoom
  <2>1. active # room /\ active' = room /\ UNCHANGED <<link, channels>>
    BY <1>7 DEF FollowRoom
  <2>2. CASE ~link
    BY <1>0, <1>7, <2>1, <2>2 DEF FollowRoom, JoinedOK
  <2>3. CASE link
    <3> DEFINE out == IF active = None THEN <<>> ELSE <<[op |-> "leave", room |-> active]>>
               in == IF room = None THEN <<>> ELSE <<[op |-> "join", room |-> room]>>
               s == toServer \o out
    <3>1. toServer' = s \o in
      BY <1>7, <2>3 DEF FollowRoom
    <3>2. s \in Seq(SocketEvents) /\ \A r \in Rooms : ~JoinsIn(channels, s, r)
      <4>1. CASE active = None
        <5>1. s = toServer
          BY <1>0, <1>3, <4>1
        <5> QED BY <1>0, <2>3, <4>1, <5>1 DEF JoinedOK
      <4>2. CASE active # None
        <5> DEFINE ev == [op |-> "leave", room |-> active]
        <5>1. ev \in SocketEvents /\ ev.op = "leave" /\ ev.room = active
          BY <1>0, <1>1, <4>2
        <5>2. s = toServer \o <<ev>>
          BY <4>2
        <5> HIDE DEF ev, s
        <5>3. s = Append(toServer, ev) /\ s \in Seq(SocketEvents)
          BY <1>0, <1>2, <5>1, <5>2
        <5>4. \A r \in Rooms : JoinsIn(channels, s, r) <=>
                IF ev.room = r THEN ev.op = "join" ELSE JoinsIn(channels, toServer, r)
          BY <1>0, <5>1, <5>3, JoinsPush
        <5> QED BY <2>3, <5>1, <5>3, <5>4 DEF JoinedOK
      <4> QED BY <4>1, <4>2
    <3> HIDE DEF s
    <3>3. CASE room = None
      <4>1. toServer' = s
        BY <1>3, <3>1, <3>2, <3>3
      <4> QED BY <1>0, <2>1, <2>3, <3>2, <3>3, <4>1 DEF JoinedOK
    <3>4. CASE room # None
      <4> DEFINE ev == [op |-> "join", room |-> room]
      <4>1. ev \in SocketEvents /\ ev.op = "join" /\ ev.room = room
        BY <1>0, <1>1, <3>4
      <4>2. toServer' = s \o <<ev>>
        BY <3>1, <3>4
      <4> HIDE DEF ev
      <4>3. toServer' = Append(s, ev) /\ toServer' \in Seq(SocketEvents)
        BY <1>2, <3>2, <4>1, <4>2
      <4>4. \A r \in Rooms : JoinsIn(channels, Append(s, ev), r) <=>
              IF ev.room = r THEN ev.op = "join" ELSE JoinsIn(channels, s, r)
        BY <3>2, <4>1, JoinsPush
      <4>5. \A r \in Rooms : JoinsIn(channels', toServer', r) <=> r = room
        BY <2>1, <3>2, <4>1, <4>3, <4>4
      <4> QED BY <1>0, <2>1, <2>3, <4>3, <4>5 DEF JoinedOK
    <3> QED BY <3>3, <3>4
  <2> QED BY <1>0, <2>2, <2>3
<1> QED BY <1>4, <1>5, <1>6, <1>7

------------------------------------------------------------------------------
(* The caches *)

(* What becomes of each entry when the entries E are invalidated.          *)
LEMMA InvalidateFacts ==
  ASSUME NEW E, NEW f \in [Entries -> Calls], NEW k, NEW c, NEW mk, NEW sd,
         Invalidate(E, f, k, c, mk, sd)
  PROVE  /\ stale' \subseteq stale \union E /\ cached' \subseteq k
         /\ fetch' \in [Entries -> Calls]
         /\ \A e \in Entries :
              /\ fetch'[e] = f[e] \/ (f[e] = Idle /\ fetch'[e] = Asked)
              /\ count'[e] = IF e \in cached' THEN c[e] ELSE Once({})
              /\ e \in stale \union E =>
                   \/ e \in stale' \/ fetch'[e].phase = "asked"
                   \/ e \notin cached' /\ fetch'[e] = Idle
              /\ e \notin stale \union E =>
                   e \notin stale' /\ fetch'[e] = f[e] /\ (e \in cached' <=> e \in k)
<1>0. Asked \in Calls /\ Idle \in Calls /\ Asked.phase = "asked"
  BY DEF Asked, Idle, Calls
<1> DEFINE s == stale \union E
           pending == Pending(f, mk, sd)
<1>1. /\ stale' = IF pending THEN s ELSE {}
      /\ fetch' = [e \in Entries |-> IF ~pending /\ f[e] = Idle /\ e \in s \intersect Subscribed
                                     THEN Asked ELSE f[e]]
      /\ cached' = IF pending THEN k ELSE k \ (s \ Subscribed)
      /\ count' = [e \in Entries |-> IF e \in cached' THEN c[e] ELSE Once({})]
  BY Zenon DEF Invalidate
<1>2. ~pending => \A e \in Entries : f[e] = Idle
  BY DEF Pending
<1> HIDE DEF pending
<1>3. fetch' \in [Entries -> Calls]
  BY <1>0, <1>1
<1> QED BY <1>0, <1>1, <1>2, <1>3

LEMMA InvalidateTypes ==
  ASSUME NEW E \in SUBSET Entries, NEW f \in [Entries -> Calls], NEW k \in SUBSET Entries,
         NEW c \in [Entries -> [Messages -> 0..2]], NEW mk, NEW sd, stale \subseteq Entries,
         Invalidate(E, f, k, c, mk, sd)
  PROVE  /\ cached' \subseteq Entries /\ stale' \subseteq Entries
         /\ count' \in [Entries -> [Messages -> 0..2]] /\ fetch' \in [Entries -> Calls]
<1>1. Once({}) \in [Messages -> 0..2]
  BY DEF Once
<1>2. count' = [e \in Entries |-> IF e \in cached' THEN c[e] ELSE Once({})]
  BY Zenon DEF Invalidate
<1>3. count' \in [Entries -> [Messages -> 0..2]]
  BY <1>1, <1>2
<1> QED BY <1>3, InvalidateFacts

(* An event the tab has not heard counts nothing twice.                    *)
CountBound == \A e \in Entries, m \in Messages \ processed : count[e][m] <= 1

LEMMA InvalidateBound ==
  ASSUME NEW E, NEW f \in [Entries -> Calls], NEW k, NEW c, NEW mk, NEW sd,
         Invalidate(E, f, k, c, mk, sd),
         \A e \in Entries, m \in Messages \ processed' : c[e][m] <= 1
  PROVE  CountBound'
<1>1. \A m \in Messages : Once({})[m] = 0
  BY DEF Once
<1>2. \A e \in Entries : count'[e] = c[e] \/ count'[e] = Once({})
  BY InvalidateFacts
<1>3. ASSUME NEW e \in Entries, NEW m \in Messages \ processed' PROVE count'[e][m] <= 1
  BY <1>1, <1>2, <1>3
<1> QED BY <1>3 DEF CountBound

(* A message that is new to the tab is counted once more, and no other     *)
(* message counts for more than it did.                                    *)
LEMMA PatchedTypes ==
  ASSUME RealtimeTypeOK, CountBound, NEW m \in Messages \ processed
  PROVE  /\ Patched(m) \in [Entries -> [Messages -> 0..2]]
         /\ \A e \in Entries, x \in Messages \ {m} : Patched(m)[e][x] <= count[e][x]
<1> DEFINE p == post[m]
           unread == ~p.own /\ topic # p.topic
           plus(c) == [c EXCEPT ![m] = c[m] + 1]
           cleared(c) == [x \in Messages |-> IF x \in In(p.topic) THEN 0 ELSE c[x]]
           put(c) == [x \in Messages |-> IF x = m THEN 1 ELSE IF post[x].parent = m THEN 0 ELSE c[x]]
           patch(e) ==
             CASE e \notin cached                -> count[e]
               [] e \in cached /\ e = p.topic          -> PatchList(m)
               [] e \in cached /\ e = RoomOf[p.topic]  -> IF unread THEN plus(count[e]) ELSE cleared(count[e])
               [] e \in cached /\ e = RoomsList        -> IF unread THEN plus(count[e]) ELSE count[e]
               [] OTHER                          -> count[e]
<1>1. count \in [Entries -> [Messages -> 0..2]]
  BY DEF RealtimeTypeOK
<1>2. ASSUME NEW c \in [Messages -> 0..2], c[m] <= 1
      PROVE  /\ plus(c) \in [Messages -> 0..2] /\ \A x \in Messages \ {m} : plus(c)[x] = c[x]
             /\ cleared(c) \in [Messages -> 0..2] /\ \A x \in Messages : cleared(c)[x] <= c[x]
             /\ put(c) \in [Messages -> 0..2] /\ \A x \in Messages \ {m} : put(c)[x] <= c[x]
  BY <1>2
<1>3. ASSUME NEW e \in Entries
      PROVE  patch(e) \in [Messages -> 0..2] /\ \A x \in Messages \ {m} : patch(e)[x] <= count[e][x]
  <2>1. count[e] \in [Messages -> 0..2] /\ count[e][m] <= 1
    BY <1>1 DEF CountBound
  <2>2. e = p.topic => \/ PatchList(m) = put(count[e])
                       \/ PatchList(m) = plus(count[e])
                       \/ PatchList(m) = count[e]
    BY DEF PatchList
  <2>3. \A x \in Messages : count[e][x] <= count[e][x]
    BY <2>1
  <2> DEFINE c == count[e]
             a == plus(c)
             b == cleared(c)
             d == put(c)
             l == PatchList(m)
  <2>4. /\ a \in [Messages -> 0..2] /\ \A x \in Messages \ {m} : a[x] <= c[x]
        /\ b \in [Messages -> 0..2] /\ \A x \in Messages : b[x] <= c[x]
        /\ d \in [Messages -> 0..2] /\ \A x \in Messages \ {m} : d[x] <= c[x]
    BY <1>2, <2>1, <2>3
  <2>5. patch(e) = c \/ patch(e) = a \/ patch(e) = b \/ (patch(e) = l /\ e = p.topic)
    OBVIOUS
  <2>6. e = p.topic => l = d \/ l = a \/ l = c
    BY <2>2
  <2> HIDE DEF a, b, c, d, l, patch
  <2>7. c \in [Messages -> 0..2] /\ \A x \in Messages : c[x] <= c[x]
    BY <2>1, <2>3 DEF c
  <2>8. patch(e) \in [Messages -> 0..2] /\ \A x \in Messages \ {m} : patch(e)[x] <= c[x]
    BY <2>4, <2>5, <2>6, <2>7
  <2> QED BY <2>8 DEF c
<1>4. Patched(m) = [e \in Entries |-> patch(e)]
  BY DEF Patched
<1> HIDE DEF patch
<1> QED BY <1>3, <1>4

------------------------------------------------------------------------------
(* Types *)

PostTypes ==
  /\ post \in [Messages -> Posts \union {NoPost}] /\ seen \subseteq Messages
  /\ marking \in [Topics -> Calls] /\ sending \in Messages \union {None}

CacheTypes ==
  /\ cached \subseteq Entries /\ stale \subseteq Entries /\ gap \subseteq Entries
  /\ count \in [Entries -> [Messages -> 0..2]] /\ fetch \in [Entries -> Calls]

ScreenTypes ==
  /\ {room, active} \subseteq Rooms \union {None} /\ topic \in Topics \union {None}
  /\ processed \subseteq Messages

SocketTypes ==
  /\ link \in BOOLEAN /\ channels \subseteq Rooms
  /\ toServer \in Seq(SocketEvents) /\ toClient \in Seq(Messages)

TabTypes == PostTypes /\ CacheTypes /\ ScreenTypes /\ SocketTypes

RealtimeStep == Progress \/ Posting \/ LeaveTopic \/ Failure \/ Visit

(* Rows and calls keep their type whatever happens to their fields.        *)
LEMMA PostFields ==
  ASSUME PostTypes, NEW m \in Messages
  PROVE  /\ post[m] \in Posts \union {NoPost}
         /\ post[m].stage # "free" => post[m] \in Posts
         /\ post[m] \in Posts => post[m].stage # "free" /\ post[m].topic \in Topics
                                 /\ post[m].parent \in Messages \union {None} /\ post[m].own \in BOOLEAN
         /\ NoPost.stage = "free"
         /\ \A s \in {"asked", "written", "told", "mute"} : post[m] \in Posts =>
              /\ [post[m] EXCEPT !.stage = s] \in Posts
              /\ [post[m] EXCEPT !.stage = s].stage = s
              /\ [post[m] EXCEPT !.stage = s].topic = post[m].topic
              /\ [post[m] EXCEPT !.stage = s].parent = post[m].parent
              /\ [post[m] EXCEPT !.stage = s].own = post[m].own
<1>1. post[m] \in Posts \union {NoPost} /\ NoPost.stage = "free"
  BY DEF PostTypes, NoPost
<1>2. \A q \in Posts : /\ q.stage \in {"asked", "written", "told", "mute"} /\ q.topic \in Topics
                       /\ q.parent \in Messages \union {None} /\ q.own \in BOOLEAN
  BY DEF Posts
<1>3. \A q \in Posts, s \in {"asked", "written", "told", "mute"} :
        /\ [q EXCEPT !.stage = s] \in Posts
        /\ [q EXCEPT !.stage = s].stage = s
        /\ [q EXCEPT !.stage = s].topic = q.topic
        /\ [q EXCEPT !.stage = s].parent = q.parent
        /\ [q EXCEPT !.stage = s].own = q.own
  BY DEF Posts
<1> QED BY <1>1, <1>2, <1>3

LEMMA CallFields ==
  /\ Idle \in Calls /\ Asked \in Calls /\ Idle # Asked
  /\ Idle.phase = "idle" /\ Asked.phase = "asked" /\ Idle.data = {} /\ Asked.data = {}
  /\ \A p \in {"served", "written"}, d \in SUBSET Messages :
       /\ [phase |-> p, data |-> d] \in Calls /\ [phase |-> p, data |-> d] # Idle
       /\ [phase |-> p, data |-> d].phase = p /\ [phase |-> p, data |-> d].data = d
  /\ \A c \in Calls : /\ c.data \subseteq Messages
                      /\ c.phase \in {"idle", "asked", "served", "written"}
<1>1. Idle.phase = "idle" /\ Asked.phase = "asked" /\ Idle.data = {} /\ Asked.data = {}
  BY DEF Idle, Asked
<1>2. Idle \in Calls /\ Asked \in Calls
  BY DEF Calls, Idle, Asked
<1>3. \A p \in {"served", "written"}, d \in SUBSET Messages :
       /\ [phase |-> p, data |-> d] \in Calls
       /\ [phase |-> p, data |-> d].phase = p /\ [phase |-> p, data |-> d].data = d
  BY DEF Calls
<1>4. \A c \in Calls : /\ c.data \subseteq Messages
                       /\ c.phase \in {"idle", "asked", "served", "written"}
  BY DEF Calls
<1> QED BY <1>1, <1>2, <1>3, <1>4

LEMMA ContentType ==
  ASSUME NEW e \in Entries
  PROVE  Content(e) \subseteq Messages
BY DEF Entries, Content, Listed, UnreadIn, Written, In

LEMMA OnceType ==
  ASSUME NEW S
  PROVE  Once(S) \in [Messages -> 0..2] /\ \A m \in Messages : Once(S)[m] = IF m \in S THEN 1 ELSE 0
BY DEF Once

(* What the steps of posting and marking leave of the rows and the calls.  *)
LEMMA PostSteps ==
  ASSUME TabTypes, RealtimeStep
  PROVE  PostTypes'
<1> USE DEF TabTypes
<1>1. ASSUME NEW e \in Entries, Serve(e) \/ Settle(e) \/ FetchFails(e) PROVE PostTypes'
  BY <1>1 DEF Serve, Settle, FetchFails, PostTypes, server
<1>2. ASSUME NEW m \in Messages, OthersWrite(m) PROVE PostTypes'
  <2>1. PICK t \in Topics, p \in Messages \union {None} :
          post' = [post EXCEPT ![m] = [stage |-> "written", topic |-> t, parent |-> p, own |-> FALSE]]
    BY <1>2 DEF OthersWrite
  <2>2. [stage |-> "written", topic |-> t, parent |-> p, own |-> FALSE] \in Posts
    BY DEF Posts
  <2> QED BY <1>2, <2>1, <2>2 DEF OthersWrite, PostTypes
<1>3. ASSUME NEW m \in Messages, SendMessage(m) PROVE PostTypes'
  <2>1. PICK p \in Messages \union {None} :
          post' = [post EXCEPT ![m] = [stage |-> "asked", topic |-> topic, parent |-> p, own |-> TRUE]]
    BY <1>3 DEF SendMessage
  <2>2. topic \in Topics
    BY <1>3 DEF SendMessage, ScreenTypes
  <2>3. [stage |-> "asked", topic |-> topic, parent |-> p, own |-> TRUE] \in Posts
    BY <2>2 DEF Posts
  <2> QED BY <1>3, <2>1, <2>3 DEF SendMessage, PostTypes
<1>4. ASSUME NEW m \in Messages, WriteMessage(m) \/ Announce(m) \/ AnnounceFails(m) PROVE PostTypes'
  <2>1. PICK s \in {"written", "told", "mute"} : post' = [post EXCEPT ![m].stage = s]
    BY <1>4 DEF WriteMessage, Announce, AnnounceFails
  <2>2. post[m] \in Posts
    BY <1>4, PostFields DEF WriteMessage, Announce, AnnounceFails
  <2>3. [post[m] EXCEPT !.stage = s] \in Posts
    BY <2>1, <2>2, PostFields
  <2>4. post' = [post EXCEPT ![m] = [post[m] EXCEPT !.stage = s]]
    BY <2>1 DEF PostTypes
  <2> QED BY <1>4, <2>3, <2>4 DEF WriteMessage, Announce, AnnounceFails, PostTypes
<1>5. CASE SendSettles
  <2>1. PICK t \in Topics : marking' = [marking EXCEPT ![t] = Asked]
    <3>1. post[sending] \in Posts
      BY <1>5, PostFields DEF SendSettles, PostTypes
    <3> QED BY <1>5, <3>1, PostFields DEF SendSettles, PostTypes
  <2>2. sending' = None /\ post' = post /\ seen' = seen
    BY <1>5 DEF SendSettles, server
  <2>3. marking' \in [Topics -> Calls]
    BY <2>1, CallFields DEF PostTypes
  <2> QED BY <2>2, <2>3 DEF PostTypes
<1>6. CASE SendFails
  <2>1. sending \in Messages
    BY <1>6 DEF SendFails, PostTypes
  <2>2. post' \in [Messages -> Posts \union {NoPost}]
    <3>1. CASE post' = post
      BY <3>1 DEF PostTypes
    <3>2. CASE post' = [post EXCEPT ![sending] = NoPost]
      BY <3>2 DEF PostTypes
    <3>3. CASE post[sending].stage = "written" /\ post' = [post EXCEPT ![sending].stage = "mute"]
      <4>1. [post[sending] EXCEPT !.stage = "mute"] \in Posts
        BY <2>1, <3>3, PostFields
      <4>2. post' = [post EXCEPT ![sending] = [post[sending] EXCEPT !.stage = "mute"]]
        BY <3>3 DEF PostTypes
      <4> QED BY <2>1, <4>1, <4>2 DEF PostTypes
    <3> QED BY <1>6, <3>1, <3>2, <3>3 DEF SendFails
  <2> QED BY <1>6, <2>2 DEF SendFails, PostTypes
<1>7. ASSUME NEW t \in Topics, FindUnread(t) PROVE PostTypes'
  <2>1. (Written \intersect In(t)) \ seen \in SUBSET Messages
    BY DEF Written
  <2>2. [phase |-> "served", data |-> (Written \intersect In(t)) \ seen] \in Calls
    BY <2>1, CallFields
  <2> QED BY <1>7, <2>2 DEF FindUnread, PostTypes, server
<1>8. ASSUME NEW t \in Topics, InsertReads(t) PROVE PostTypes'
  <2>1. marking[t] \in Calls
    BY DEF PostTypes
  <2>2. [phase |-> "written", data |-> {}] \in Calls
    BY CallFields
  <2> QED BY <1>8, <2>1, <2>2, CallFields DEF InsertReads, PostTypes
<1>9. ASSUME NEW t \in Topics, MarkSettles(t) \/ MarkFails(t) \/ SelectTopic(t) PROVE PostTypes'
  BY <1>9, CallFields DEF MarkSettles, MarkFails, SelectTopic, PostTypes, server
<1>10. CASE Connect \/ Disconnect \/ ServeSocket \/ FollowRoom \/ Deliver \/ LeaveTopic
            \/ \E r \in Rooms \union {None} : SelectRoom(r)
  BY <1>10 DEF Connect, Disconnect, ServeSocket, FollowRoom, Deliver, LeaveTopic, SelectRoom, PostTypes, server
<1> QED
  BY <1>1, <1>2, <1>3, <1>4, <1>5, <1>6, <1>7, <1>8, <1>9, <1>10
     DEF RealtimeStep, Progress, Posting, Failure, Visit

(* What is announced or heard has been told; a message being sent is the   *)
(* user's own, and its handler has not failed.                             *)
PostedOK ==
  /\ \A i \in DOMAIN toClient : post[toClient[i]].stage = "told"
  /\ \A m \in processed : post[m].stage = "told"
  /\ sending # None => post[sending].own /\ post[sending].stage \in {"asked", "written", "told"}
  /\ \A m \in Messages : post[m].stage = "asked" => post[m].own

(* What the steps of queries and events leave of the caches.               *)
LEMMA CacheSteps ==
  ASSUME TabTypes, RealtimeTypeOK, CountBound, PostedOK, RealtimeStep
  PROVE  CacheTypes' /\ CountBound'
<1> USE DEF TabTypes
<1>0. /\ cached \in SUBSET Entries /\ stale \subseteq Entries /\ gap \subseteq Entries
      /\ count \in [Entries -> [Messages -> 0..2]] /\ fetch \in [Entries -> Calls]
      /\ marking \in [Topics -> Calls]
  BY DEF CacheTypes, PostTypes
<1>1. ASSUME NEW e \in Entries, Serve(e) PROVE CacheTypes' /\ CountBound'
  <2>1. fetch' \in [Entries -> Calls]
    BY <1>0, <1>1, ContentType, CallFields DEF Serve
  <2> QED BY <1>0, <1>1, <2>1 DEF Serve, CacheTypes, CountBound
<1>2. ASSUME NEW e \in Entries, Settle(e) PROVE CacheTypes' /\ CountBound'
  <2> DEFINE f == [fetch EXCEPT ![e] = Idle]
             k == cached \union {e}
             c == [count EXCEPT ![e] = Once(fetch[e].data)]
  <2>1. f \in [Entries -> Calls] /\ k \in SUBSET Entries
    BY <1>0, CallFields
  <2>2. c \in [Entries -> [Messages -> 0..2]]
    BY <1>0, OnceType
  <2>3. \A d \in Entries, m \in Messages \ processed : c[d][m] <= 1
    BY <1>0, OnceType DEF CountBound
  <2>4. Invalidate({}, f, k, c, marking, sending) /\ processed' = processed /\ gap' = gap
    BY <1>2 DEF Settle
  <2> HIDE DEF f, k, c
  <2>5. CountBound'
    BY <2>1, <2>3, <2>4, InvalidateBound
  <2>6. {} \in SUBSET Entries
    OBVIOUS
  <2> QED BY <1>0, <2>1, <2>2, <2>4, <2>5, <2>6, InvalidateTypes DEF CacheTypes
<1>3. ASSUME NEW E \in SUBSET Entries, NEW f \in [Entries -> Calls], NEW mk, NEW sd,
             Invalidate(E, f, cached, count, mk, sd), processed' = processed,
             gap' \subseteq Entries
      PROVE  CacheTypes' /\ CountBound'
  <2>1. CountBound'
    BY <1>3, InvalidateBound DEF CountBound
  <2> QED BY <1>0, <1>3, <2>1, InvalidateTypes DEF CacheTypes
<1>4. ASSUME NEW e \in Entries, FetchFails(e) PROVE CacheTypes' /\ CountBound'
  <2>1. [fetch EXCEPT ![e] = Idle] \in [Entries -> Calls] /\ {} \in SUBSET Entries
    BY <1>0, CallFields
  <2> QED BY <1>0, <1>3, <1>4, <2>1 DEF FetchFails
<1>5. ASSUME NEW t \in Topics, MarkSettles(t) \/ MarkFails(t) PROVE CacheTypes' /\ CountBound'
  <2>1. MarkTags \in SUBSET Entries
    BY DEF MarkTags, Badges, Entries
  <2> QED BY <1>0, <1>3, <1>5, <2>1 DEF MarkSettles, MarkFails
<1>6. CASE SendSettles
  <2>1. SendTags(post[sending].topic) \in SUBSET Entries
    BY <1>6, PostFields DEF SendSettles, PostTypes, SendTags, Entries
  <2>2. /\ Invalidate(SendTags(post[sending].topic), fetch, cached, count, marking, None)
        /\ processed' = processed /\ gap' = gap
    BY <1>6 DEF SendSettles
  <2> QED BY <1>0, <1>3, <2>1, <2>2
<1>7. CASE SendFails
  <2>1. SendTags(post[sending].topic) \in SUBSET Entries
    <3>1. sending # None
      BY <1>7 DEF SendFails
    <3>2. sending \in Messages /\ post[sending].stage # "free"
      BY <3>1 DEF PostTypes, PostedOK
    <3>3. post[sending].topic \in Topics
      BY <3>2, PostFields
    <3> QED BY <3>3 DEF SendTags, Entries
  <2>2. /\ Invalidate(SendTags(post[sending].topic), fetch, cached, count, marking, None)
        /\ processed' = processed /\ gap' = gap \union Entries
    BY <1>7 DEF SendFails
  <2> QED BY <1>0, <1>3, <2>1, <2>2
<1>8. CASE Deliver
  <2>1. CASE UNCHANGED <<processed, caches>>
    BY <1>8, <2>1 DEF Deliver, caches, CacheTypes, CountBound
  <2>2. ASSUME NEW m \in Messages, Fresh(m), post[m].stage = "told",
               processed' = processed \union {m},
               Invalidate(Outdated(m), fetch, cached, Patched(m), marking, sending)
        PROVE  CacheTypes' /\ CountBound'
    <3>1. Outdated(m) \in SUBSET Entries
      BY <2>2, PostFields DEF PostTypes, Outdated, Entries
    <3>2. /\ Patched(m) \in [Entries -> [Messages -> 0..2]]
          /\ \A e \in Entries, x \in Messages \ {m} : Patched(m)[e][x] <= count[e][x]
      BY <2>2, PatchedTypes DEF Fresh
    <3>3. \A e \in Entries, x \in Messages \ processed' : Patched(m)[e][x] <= 1
      <4> SUFFICES ASSUME NEW e \in Entries, NEW x \in Messages \ processed'
                   PROVE  Patched(m)[e][x] <= 1
        OBVIOUS
      <4>1. count[e][x] <= 1 /\ Patched(m)[e][x] <= count[e][x]
        BY <2>2, <3>2 DEF CountBound
      <4>2. count[e][x] \in 0..2 /\ Patched(m)[e][x] \in 0..2
        BY <1>0, <3>2
      <4> QED BY <4>1, <4>2
    <3>4. CountBound'
      BY <1>0, <2>2, <3>3, InvalidateBound
    <3> DEFINE c == Patched(m)
               E == Outdated(m)
    <3> HIDE DEF c, E
    <3>5. /\ c \in [Entries -> [Messages -> 0..2]] /\ E \in SUBSET Entries
          /\ Invalidate(E, fetch, cached, c, marking, sending)
      BY <2>2, <3>1, <3>2 DEF c, E
    <3>6. gap' = gap
      BY <1>8 DEF Deliver
    <3> QED BY <1>0, <3>4, <3>5, <3>6, InvalidateTypes DEF CacheTypes
  <2>3. /\ Head(toClient) \in Messages /\ post[Head(toClient)].stage = "told"
    BY <1>8 DEF Deliver, SocketTypes, PostedOK
  <2> QED BY <1>8, <2>1, <2>2, <2>3 DEF Deliver
<1>9. ASSUME NEW e \in Entries, Mount(e), UNCHANGED <<cached, count, stale, gap, processed>>
      PROVE  CacheTypes' /\ CountBound'
  <2>1. fetch' \in [Entries -> Calls]
    BY <1>0, <1>9, CallFields DEF Mount
  <2> QED BY <1>0, <1>9, <2>1 DEF CacheTypes, CountBound
<1>10. ASSUME NEW t \in Topics, SelectTopic(t) PROVE CacheTypes' /\ CountBound'
  <2>1. t \in Entries
    BY DEF Entries
  <2> QED BY <1>9, <1>10, <2>1 DEF SelectTopic
<1>11. ASSUME UNCHANGED <<caches, processed>>, gap' \in SUBSET Entries
       PROVE  CacheTypes' /\ CountBound'
  BY <1>0, <1>11 DEF caches, CacheTypes, CountBound
<1>12. ASSUME NEW r \in Rooms \union {None}, SelectRoom(r) PROVE CacheTypes' /\ CountBound'
  <2>1. r # None => r \in Entries
    BY DEF Entries
  <2> QED BY <1>0, <1>9, <1>11, <1>12, <2>1 DEF SelectRoom, caches
<1>13. ASSUME NEW m \in Messages, \/ OthersWrite(m) \/ SendMessage(m) \/ WriteMessage(m)
                                  \/ Announce(m) \/ AnnounceFails(m)
       PROVE  CacheTypes' /\ CountBound'
  BY <1>0, <1>11, <1>13 DEF OthersWrite, SendMessage, WriteMessage, Announce, AnnounceFails
<1>14. ASSUME NEW t \in Topics, FindUnread(t) \/ InsertReads(t) PROVE CacheTypes' /\ CountBound'
  BY <1>0, <1>11, <1>14 DEF FindUnread, InsertReads
<1>15. CASE Connect \/ Disconnect \/ ServeSocket \/ FollowRoom \/ LeaveTopic
  BY <1>0, <1>11, <1>15 DEF Connect, Disconnect, ServeSocket, FollowRoom, LeaveTopic
<1> QED
  BY <1>1, <1>2, <1>4, <1>5, <1>6, <1>7, <1>8, <1>10, <1>12, <1>13, <1>14, <1>15
     DEF RealtimeStep, Progress, Posting, Failure, Visit

LEMMA SocketSteps ==
  ASSUME TabTypes, RealtimeTypeOK, JoinedOK, RealtimeStep
  PROVE  SocketTypes' /\ ScreenTypes' /\ JoinedOK'
<1> USE DEF TabTypes
<1>1. CASE Connect \/ Disconnect \/ ServeSocket \/ FollowRoom
  <2>1. JoinedOK' /\ channels' \subseteq Rooms /\ toServer' \in Seq(SocketEvents)
    BY <1>1, SocketOK
  <2>2. link' \in BOOLEAN /\ toClient' \in Seq(Messages)
    <3>1. CASE Disconnect
      <4>1. link' = FALSE /\ toClient' = <<>>
        BY <3>1 DEF Disconnect
      <4>2. <<>> \in Seq(Messages) /\ FALSE \in BOOLEAN
        OBVIOUS
      <4> QED BY <4>1, <4>2
    <3>2. CASE Connect \/ ServeSocket \/ FollowRoom
      <4>1. link' \in {link, TRUE} /\ toClient' = toClient
        BY <3>2 DEF Connect, ServeSocket, FollowRoom
      <4> QED BY <4>1 DEF SocketTypes
    <3> QED BY <1>1, <3>1, <3>2
  <2>3. ScreenTypes'
    BY <1>1 DEF Connect, Disconnect, ServeSocket, FollowRoom, ScreenTypes, screen
  <2> QED BY <2>1, <2>2, <2>3 DEF SocketTypes
<1>2. ASSUME UNCHANGED <<link, channels, toServer, active>>, toClient' \in Seq(Messages), ScreenTypes'
      PROVE  SocketTypes' /\ ScreenTypes' /\ JoinedOK'
  BY <1>2 DEF SocketTypes, JoinedOK
<1>3. ASSUME UNCHANGED socket, active' = active, ScreenTypes'
      PROVE  SocketTypes' /\ ScreenTypes' /\ JoinedOK'
  BY <1>2, <1>3 DEF SocketTypes, socket
<1>4. ASSUME UNCHANGED <<screen, processed>> PROVE ScreenTypes' /\ active' = active
  BY <1>4 DEF ScreenTypes, screen
<1>5. ASSUME NEW e \in Entries, Serve(e) \/ Settle(e) \/ FetchFails(e)
      PROVE  SocketTypes' /\ ScreenTypes' /\ JoinedOK'
  BY <1>3, <1>4, <1>5 DEF Serve, Settle, FetchFails
<1>6. ASSUME NEW m \in Messages, OthersWrite(m) \/ SendMessage(m) \/ WriteMessage(m) \/ AnnounceFails(m)
      PROVE  SocketTypes' /\ ScreenTypes' /\ JoinedOK'
  BY <1>3, <1>4, <1>6 DEF OthersWrite, SendMessage, WriteMessage, AnnounceFails
<1>7. ASSUME NEW m \in Messages, Announce(m)
      PROVE  SocketTypes' /\ ScreenTypes' /\ JoinedOK'
  <2>1. Emitted(m) \in Seq(Messages)
    BY DEF Emitted
  <2>2. toClient' \in Seq(Messages) /\ UNCHANGED <<link, channels, toServer>>
    BY <1>7, <2>1 DEF Announce, SocketTypes
  <2>3. UNCHANGED <<screen, processed>>
    BY <1>7 DEF Announce
  <2> QED BY <1>2, <1>4, <2>2, <2>3
<1>8. ASSUME NEW t \in Topics, FindUnread(t) \/ InsertReads(t) \/ MarkSettles(t) \/ MarkFails(t)
      PROVE  SocketTypes' /\ ScreenTypes' /\ JoinedOK'
  BY <1>3, <1>4, <1>8 DEF FindUnread, InsertReads, MarkSettles, MarkFails
<1>9. CASE SendSettles \/ SendFails
  BY <1>3, <1>4, <1>9 DEF SendSettles, SendFails
<1>10. CASE Deliver
  <2>1. UNCHANGED <<link, channels, toServer, screen>> /\ toClient' = Tail(toClient) /\ toClient # <<>>
    BY <1>10 DEF Deliver
  <2>2. toClient' \in Seq(Messages) /\ Head(toClient) \in Messages
    BY <2>1 DEF SocketTypes
  <2>3. processed' \subseteq Messages
    BY <1>10, <2>2 DEF Deliver, ScreenTypes
  <2>4. ScreenTypes' /\ active' = active
    BY <2>1, <2>3 DEF ScreenTypes, screen
  <2> QED BY <1>2, <2>1, <2>2, <2>4
<1>11. ASSUME NEW t \in Topics, SelectTopic(t)
       PROVE  SocketTypes' /\ ScreenTypes' /\ JoinedOK'
  BY <1>3, <1>11 DEF SelectTopic, ScreenTypes
<1>12. ASSUME NEW r \in Rooms \union {None}, SelectRoom(r)
       PROVE  SocketTypes' /\ ScreenTypes' /\ JoinedOK'
  BY <1>3, <1>12 DEF SelectRoom, ScreenTypes
<1>13. CASE LeaveTopic
  BY <1>3, <1>13 DEF LeaveTopic, ScreenTypes
<1> QED
  BY <1>1, <1>5, <1>6, <1>7, <1>8, <1>9, <1>10, <1>11, <1>12, <1>13
     DEF RealtimeStep, Progress, Posting, Failure, Visit

(* The rest of a row stays when its handler gets further.                  *)
LEMMA Restaged ==
  ASSUME PostTypes, NEW m \in Messages, NEW s \in {"asked", "written", "told", "mute"},
         post[m].stage # "free", post' = [post EXCEPT ![m].stage = s]
  PROVE  /\ post'[m].stage = s /\ post'[m].topic = post[m].topic
         /\ post'[m].parent = post[m].parent /\ post'[m].own = post[m].own
         /\ \A x \in Messages : x # m => post'[x] = post[x]
<1> DEFINE q == [post[m] EXCEPT !.stage = s]
<1>1. post' = [post EXCEPT ![m] = q] /\ DOMAIN post = Messages
  BY DEF PostTypes
<1>2. post[m] \in Posts
  BY PostFields
<1>3. q.stage = s /\ q.topic = post[m].topic /\ q.parent = post[m].parent /\ q.own = post[m].own
  BY <1>2, PostFields
<1> HIDE DEF q
<1>4. post'[m] = q /\ \A x \in Messages : x # m => post'[x] = post[x]
  BY <1>1
<1> QED BY <1>3, <1>4

(* The events on their way afterwards are events on their way before, or   *)
(* about the message just announced.                                       *)
LEMMA AnnouncedEvents ==
  ASSUME TabTypes, NEW m \in Messages, Announce(m)
  PROVE  /\ \A i \in DOMAIN toClient' : \/ toClient'[i] = m
                                        \/ i \in DOMAIN toClient /\ toClient'[i] = toClient[i]
         /\ \A i \in DOMAIN toClient : i \in DOMAIN toClient' /\ toClient'[i] = toClient[i]
         /\ link /\ Emitted(m) # <<>> => \E i \in DOMAIN toClient' : toClient'[i] = m
         /\ ~post[m].own => Emitted(m) # <<>>
         /\ \A i \in DOMAIN toClient', j \in DOMAIN toClient : i \notin DOMAIN toClient => j < i
<1> DEFINE a == Emitted(m)
<1>1. a \in Seq(Messages) /\ (\A i \in DOMAIN a : a[i] = m) /\ (~post[m].own => a # <<>>)
  BY DEF Emitted
<1>2. toClient' = IF link THEN toClient \o a ELSE toClient
  BY DEF Announce
<1>3. toClient \in Seq(Messages)
  BY DEF TabTypes, SocketTypes
<1> HIDE DEF a
<1>4. DOMAIN (toClient \o a) = 1..(Len(toClient) + Len(a)) /\ Len(a) \in Nat /\ Len(toClient) \in Nat
      /\ DOMAIN a = 1..Len(a) /\ DOMAIN toClient = 1..Len(toClient)
      /\ (a # <<>> => Len(a) >= 1)
      /\ \A i \in 1..(Len(toClient) + Len(a)) :
           (toClient \o a)[i] = IF i <= Len(toClient) THEN toClient[i] ELSE a[i - Len(toClient)]
  BY <1>1, <1>3
<1>40. \A i \in DOMAIN toClient', j \in DOMAIN toClient : i \notin DOMAIN toClient => j < i
  BY <1>2, <1>4
<1>5. CASE ~link
  BY <1>1, <1>2, <1>40, <1>5 DEF a
<1>6. CASE link
  <2>1. ASSUME NEW i \in DOMAIN toClient'
        PROVE  toClient'[i] = m \/ (i \in DOMAIN toClient /\ toClient'[i] = toClient[i])
    <3>1. CASE i <= Len(toClient)
      BY <1>2, <1>4, <1>6, <2>1, <3>1
    <3>2. CASE ~(i <= Len(toClient))
      <4>1. i - Len(toClient) \in DOMAIN a
        BY <1>2, <1>4, <1>6, <2>1, <3>2
      <4> QED BY <1>1, <1>2, <1>4, <1>6, <2>1, <3>2, <4>1
    <3> QED BY <3>1, <3>2
  <2>2. \A i \in DOMAIN toClient : i \in DOMAIN toClient' /\ toClient'[i] = toClient[i]
    BY <1>2, <1>4, <1>6
  <2>3. ASSUME a # <<>> PROVE \E i \in DOMAIN toClient' : toClient'[i] = m
    <3> DEFINE n == Len(toClient) + 1
    <3>1. n \in 1..(Len(toClient) + Len(a)) /\ ~(n <= Len(toClient)) /\ n - Len(toClient) \in DOMAIN a
      BY <1>1, <1>4, <2>3
    <3> HIDE DEF n
    <3>2. n \in DOMAIN toClient' /\ toClient'[n] = m
      BY <1>1, <1>2, <1>4, <1>6, <3>1
    <3> QED BY <3>2
  <2> QED BY <1>1, <1>40, <2>1, <2>2, <2>3 DEF a
<1> QED BY <1>5, <1>6

(* What is delivered is the first event; the others move up.               *)
LEMMA DeliveredEvents ==
  ASSUME TabTypes, Deliver
  PROVE  /\ toClient # <<>> /\ 1 \in DOMAIN toClient /\ Head(toClient) = toClient[1]
         /\ Head(toClient) \in Messages
         /\ \A i \in DOMAIN toClient' : i + 1 \in DOMAIN toClient /\ toClient'[i] = toClient[i + 1]
         /\ \A i \in DOMAIN toClient : i \in Nat /\
              (i # 1 => i - 1 \in DOMAIN toClient' /\ toClient'[i - 1] = toClient[i])
<1>1. toClient # <<>> /\ toClient' = Tail(toClient) /\ toClient \in Seq(Messages)
  BY DEF Deliver, TabTypes, SocketTypes
<1>2. Len(toClient) \in Nat /\ Len(toClient) >= 1 /\ DOMAIN toClient = 1..Len(toClient)
      /\ DOMAIN Tail(toClient) = 1..(Len(toClient) - 1)
      /\ \A i \in 1..(Len(toClient) - 1) : Tail(toClient)[i] = toClient[i + 1]
  BY <1>1
<1>3. \A i \in DOMAIN toClient : i \in Nat /\ (i # 1 => i - 1 \in 1..(Len(toClient) - 1) /\ (i - 1) + 1 = i)
  BY <1>2
<1> QED BY <1>1, <1>2, <1>3

LEMMA PostedSteps ==
  ASSUME TabTypes, PostedOK, RealtimeStep
  PROVE  PostedOK'
<1> USE DEF TabTypes
<1>0. /\ processed \subseteq Messages /\ \A i \in DOMAIN toClient : toClient[i] \in Messages
      /\ sending \in Messages \union {None} /\ None \notin Messages
  BY RealtimeAssumption DEF ScreenTypes, SocketTypes, PostTypes
<1>1. ASSUME UNCHANGED <<post, toClient, processed>>, sending' = sending \/ sending' = None
      PROVE  PostedOK'
  BY <1>1 DEF PostedOK
<1>2. ASSUME NEW e \in Entries, Serve(e) \/ Settle(e) \/ FetchFails(e) PROVE PostedOK'
  BY <1>1, <1>2 DEF Serve, Settle, FetchFails, server, socket
<1>3. ASSUME NEW m \in Messages, NEW q, post[m] = NoPost, post' = [post EXCEPT ![m] = q],
             UNCHANGED <<toClient, processed>>, q.stage = "asked" => q.own,
             sending' = sending \/ (sending' = m /\ q.own /\ q.stage = "asked")
      PROVE  PostedOK'
  <2>1. post[m].stage = "free"
    BY <1>3 DEF NoPost
  <2>2. post'[m] = q /\ \A x \in Messages : x # m => post'[x] = post[x]
    BY <1>3 DEF PostTypes
  <2> QED BY <1>0, <1>3, <2>1, <2>2 DEF PostedOK
<1>4. ASSUME NEW m \in Messages, OthersWrite(m) PROVE PostedOK'
  <2>1. PICK t \in Topics, p \in Messages \union {None} :
          post' = [post EXCEPT ![m] = [stage |-> "written", topic |-> t, parent |-> p, own |-> FALSE]]
    BY <1>4 DEF OthersWrite
  <2> DEFINE q == [stage |-> "written", topic |-> t, parent |-> p, own |-> FALSE]
  <2>2. q.stage = "written"
    OBVIOUS
  <2>3. post' = [post EXCEPT ![m] = q]
    BY <2>1
  <2> HIDE DEF q
  <2> QED BY <1>3, <1>4, <2>2, <2>3 DEF OthersWrite, socket
<1>5. ASSUME NEW m \in Messages, SendMessage(m) PROVE PostedOK'
  <2>1. PICK p \in Messages \union {None} :
          post' = [post EXCEPT ![m] = [stage |-> "asked", topic |-> topic, parent |-> p, own |-> TRUE]]
    BY <1>5 DEF SendMessage
  <2> DEFINE q == [stage |-> "asked", topic |-> topic, parent |-> p, own |-> TRUE]
  <2>2. q.stage = "asked" /\ q.own
    OBVIOUS
  <2>3. post' = [post EXCEPT ![m] = q]
    BY <2>1
  <2> HIDE DEF q
  <2> QED BY <1>3, <1>5, <2>2, <2>3 DEF SendMessage, socket
<1>6. ASSUME NEW m \in Messages, WriteMessage(m) PROVE PostedOK'
  <2>1. /\ post[m].stage = "asked" /\ post' = [post EXCEPT ![m].stage = "written"]
        /\ UNCHANGED <<toClient, processed, sending>>
    BY <1>6 DEF WriteMessage, socket
  <2>2. /\ post'[m].stage = "written" /\ post'[m].own = post[m].own
        /\ \A x \in Messages : x # m => post'[x] = post[x]
    BY <2>1, Restaged
  <2> QED BY <1>0, <2>1, <2>2 DEF PostedOK
<1>7. ASSUME NEW m \in Messages, AnnounceFails(m) PROVE PostedOK'
  <2>1. /\ post[m].stage = "written" /\ post' = [post EXCEPT ![m].stage = "mute"] /\ sending # m
        /\ UNCHANGED <<toClient, processed, sending>>
    BY <1>7 DEF AnnounceFails, socket
  <2>2. /\ post'[m].stage = "mute" /\ post'[m].own = post[m].own
        /\ \A x \in Messages : x # m => post'[x] = post[x]
    BY <2>1, Restaged
  <2> QED BY <1>0, <2>1, <2>2 DEF PostedOK
<1>8. ASSUME NEW m \in Messages, Announce(m) PROVE PostedOK'
  <2>1. /\ post[m].stage = "written" /\ post' = [post EXCEPT ![m].stage = "told"]
        /\ UNCHANGED <<processed, sending>>
    BY <1>8 DEF Announce
  <2>2. /\ post'[m].stage = "told" /\ post'[m].own = post[m].own
        /\ \A x \in Messages : x # m => post'[x] = post[x]
    BY <2>1, Restaged
  <2>3. \A i \in DOMAIN toClient' : post'[toClient'[i]].stage = "told"
    BY <1>0, <1>8, <2>2, AnnouncedEvents DEF PostedOK
  <2> QED BY <1>0, <2>1, <2>2, <2>3 DEF PostedOK
<1>9. CASE SendSettles
  BY <1>1, <1>9 DEF SendSettles, server, socket
<1>10. CASE SendFails
  <2>1. /\ sending \in Messages /\ sending' = None /\ UNCHANGED <<toClient, processed>>
        /\ \/ post' = post
           \/ post[sending].stage = "asked" /\ post' = [post EXCEPT ![sending] = NoPost]
           \/ post[sending].stage = "written" /\ post' = [post EXCEPT ![sending].stage = "mute"]
    BY <1>0, <1>10 DEF SendFails, socket
  <2>2. CASE post' = post
    BY <2>1, <2>2 DEF PostedOK
  <2>3. CASE post[sending].stage = "asked" /\ post' = [post EXCEPT ![sending] = NoPost]
    <3>1. post'[sending].stage = "free" /\ \A x \in Messages : x # sending => post'[x] = post[x]
      BY <2>1, <2>3 DEF PostTypes, NoPost
    <3> QED BY <1>0, <2>1, <2>3, <3>1 DEF PostedOK
  <2>4. CASE post[sending].stage = "written" /\ post' = [post EXCEPT ![sending].stage = "mute"]
    <3>1. post'[sending].stage = "mute" /\ \A x \in Messages : x # sending => post'[x] = post[x]
      BY <2>1, <2>4, Restaged
    <3> QED BY <1>0, <2>1, <2>4, <3>1 DEF PostedOK
  <2> QED BY <2>1, <2>2, <2>3, <2>4
<1>11. ASSUME NEW t \in Topics, \/ FindUnread(t) \/ InsertReads(t) \/ MarkSettles(t)
                                \/ MarkFails(t) \/ SelectTopic(t)
       PROVE  PostedOK'
  BY <1>1, <1>11 DEF FindUnread, InsertReads, MarkSettles, MarkFails, SelectTopic, server, socket
<1>12. CASE Connect \/ ServeSocket \/ FollowRoom \/ LeaveTopic \/ \E r \in Rooms \union {None} : SelectRoom(r)
  BY <1>1, <1>12 DEF Connect, ServeSocket, FollowRoom, LeaveTopic, SelectRoom, server, socket
<1>13. CASE Disconnect
  <2>1. toClient' = <<>> /\ UNCHANGED <<post, processed, sending>>
    BY <1>13 DEF Disconnect, server
  <2> QED BY <2>1 DEF PostedOK
<1>14. CASE Deliver
  <2>1. UNCHANGED <<post, sending>> /\ (processed' = processed \/ processed' = processed \union {Head(toClient)})
    BY <1>14 DEF Deliver, server
  <2>2. \A i \in DOMAIN toClient' : post'[toClient'[i]].stage = "told"
    BY <1>14, <2>1, DeliveredEvents DEF PostedOK
  <2>3. post[Head(toClient)].stage = "told"
    BY <1>14, DeliveredEvents DEF PostedOK
  <2> QED BY <2>1, <2>2, <2>3 DEF PostedOK
<1> QED
  BY <1>2, <1>4, <1>5, <1>6, <1>7, <1>8, <1>9, <1>10, <1>11, <1>12, <1>13, <1>14
     DEF RealtimeStep, Progress, Posting, Failure, Visit

------------------------------------------------------------------------------
(* The socket follows the room, and no message is counted more than twice *)

BaseInv == RealtimeTypeOK /\ CountBound /\ PostedOK /\ JoinedOK

LEMMA BaseTypes ==
  RealtimeTypeOK <=> /\ TabTypes /\ met \subseteq Messages
                     /\ failures \in 0..MaxFailures /\ visits \in 0..MaxVisits
BY DEF RealtimeTypeOK, TabTypes, PostTypes, CacheTypes, ScreenTypes, SocketTypes, SocketEvents

LEMMA NextFacts ==
  ASSUME RealtimeTypeOK, RealtimeNext
  PROVE  /\ RealtimeStep /\ Watch
         /\ failures' \in 0..MaxFailures /\ visits' \in 0..MaxVisits
         /\ failures' = 0 => failures = 0 /\ (Progress \/ Posting \/ LeaveTopic \/ Visit)
<1>0. /\ failures \in 0..MaxFailures /\ visits \in 0..MaxVisits
      /\ MaxFailures \in Nat /\ MaxVisits \in Nat
  BY RealtimeAssumption DEF RealtimeTypeOK
<1>1. CASE Unbounded(Progress \/ Posting \/ LeaveTopic)
  BY <1>0, <1>1 DEF Unbounded, RealtimeStep
<1>2. CASE Failure /\ failures < MaxFailures /\ failures' = failures + 1 /\ Watch /\ UNCHANGED visits
  BY <1>0, <1>2 DEF RealtimeStep
<1>3. CASE Visit /\ visits < MaxVisits /\ visits' = visits + 1 /\ Watch /\ UNCHANGED failures
  BY <1>0, <1>3 DEF RealtimeStep
<1> QED BY <1>1, <1>2, <1>3 DEF RealtimeNext

LEMMA BaseInit ==
  ASSUME RealtimeInit
  PROVE  BaseInv
<1>1. post \in [Messages -> Posts \union {NoPost}] /\ \A m \in Messages : post[m].stage # "asked"
  <2>1. ASSUME NEW m \in Messages
        PROVE  post[m] \in Posts \union {NoPost} /\ post[m].stage # "asked"
    <3>1. CASE OldIn[m] = None
      BY <3>1 DEF RealtimeInit, NoPost
    <3>2. CASE OldIn[m] # None
      <4>1. OldIn[m] \in Topics
        BY <3>2, RealtimeAssumption
      <4>2. post[m] = [stage |-> "told", topic |-> OldIn[m], parent |-> None, own |-> FALSE]
        BY <3>2 DEF RealtimeInit
      <4> QED BY <4>1, <4>2 DEF Posts
    <3> QED BY <3>1, <3>2
  <2>2. DOMAIN post = Messages /\ post = [m \in Messages |-> post[m]]
    BY DEF RealtimeInit
  <2> QED BY <2>1, <2>2
<1>2. /\ \A S : Once(S) \in [Messages -> 0..2] /\ \A m \in Messages : Once(S)[m] <= 1
  BY DEF Once
<1>3. count \in [Entries -> [Messages -> 0..2]] /\ CountBound
  BY <1>2 DEF RealtimeInit, CountBound
<1>4. fetch \in [Entries -> Calls] /\ marking \in [Topics -> Calls]
  BY CallFields DEF RealtimeInit
<1>5. cached \subseteq Entries /\ RoomsList \in Entries
  BY DEF RealtimeInit, Entries
<1>6. toClient = <<>> /\ toServer = <<>> /\ processed = {} /\ sending = None /\ link
      /\ channels = {} /\ active = None /\ room = None /\ topic = None /\ seen = {} /\ stale = {} /\ gap = {}
      /\ met = {} /\ failures = 0 /\ visits = 0
  BY DEF RealtimeInit
<1>7. PostedOK
  BY <1>1, <1>6 DEF PostedOK
<1>8. JoinedOK
  BY <1>6, JoinsEmpty, RealtimeAssumption DEF JoinedOK
<1>9. TabTypes
  <2>1. PostTypes
    BY <1>1, <1>4, <1>6 DEF PostTypes
  <2>2. CacheTypes
    BY <1>3, <1>4, <1>5, <1>6 DEF CacheTypes
  <2>3. ScreenTypes /\ SocketTypes
    BY <1>6 DEF ScreenTypes, SocketTypes
  <2> QED BY <2>1, <2>2, <2>3 DEF TabTypes
<1> QED BY <1>3, <1>6, <1>7, <1>8, <1>9, BaseTypes, RealtimeAssumption DEF BaseInv

LEMMA BaseNext ==
  ASSUME BaseInv, RealtimeNext
  PROVE  BaseInv'
<1>1. TabTypes /\ RealtimeTypeOK /\ CountBound /\ PostedOK /\ JoinedOK /\ met \subseteq Messages
  BY BaseTypes DEF BaseInv
<1>2. RealtimeStep /\ Watch /\ failures' \in 0..MaxFailures /\ visits' \in 0..MaxVisits
  BY <1>1, NextFacts
<1>3. TabTypes' /\ CountBound' /\ PostedOK' /\ JoinedOK'
  BY <1>1, <1>2, PostSteps, CacheSteps, SocketSteps, PostedSteps DEF TabTypes
<1>4. met' \subseteq Messages
  BY <1>1, <1>2 DEF Watch
<1>5. RealtimeTypeOK'
  BY <1>2, <1>3, <1>4 DEF RealtimeTypeOK, TabTypes, PostTypes, CacheTypes, ScreenTypes, SocketTypes, SocketEvents
<1> QED BY <1>3, <1>5 DEF BaseInv

LEMMA BaseStutter ==
  ASSUME BaseInv, UNCHANGED realtimeVars
  PROVE  BaseInv'
BY DEF BaseInv, realtimeVars, server, socket, screen, caches, RealtimeTypeOK, CountBound, PostedOK,
       JoinedOK, Entries

LEMMA BaseInvariance == RealtimeSpec => []BaseInv
<1>1. RealtimeInit => BaseInv
  BY BaseInit
<1>2. BaseInv /\ [RealtimeNext]_realtimeVars => BaseInv'
  BY BaseNext, BaseStutter
<1> QED BY <1>1, <1>2, PTL DEF RealtimeSpec

(* Whenever the gateway has served what the tab sent, the socket is in the *)
(* channel of the active room and in no other (handleJoinRoom,             *)
(* handleLeaveRoom, and the rejoining of handleConnect), however often the *)
(* connection was lost and the room changed.                               *)
THEOREM SocketFollowsRoom == RealtimeSpec => []JoinedActive
<1>1. BaseInv => JoinedActive
  <2> SUFFICES ASSUME BaseInv, link, toServer = <<>> PROVE channels = {active} \ {None}
    BY DEF JoinedActive
  <2>1. channels \subseteq Rooms /\ active \in Rooms \union {None} /\ None \notin Rooms
    BY RealtimeAssumption DEF BaseInv, RealtimeTypeOK
  <2>2. \A r \in Rooms : r \in channels <=> r = active
    BY JoinsEmpty DEF BaseInv, JoinedOK
  <2> QED BY <2>1, <2>2
<1> QED BY <1>1, BaseInvariance, PTL

------------------------------------------------------------------------------
(* Lists *)

InToClient(m) == \E i \in DOMAIN toClient : toClient[i] = m

(* The tab has yet to hear of m.                                           *)
OnTheWay(m) == post[m].stage = "written" \/ (m \notin processed /\ InToClient(m))

(* The list of t is fetched again, or something will have it fetched.      *)
Behind(t) ==
  \/ t \in stale \/ fetch[t].phase = "asked"
  \/ \E m \in In(t) : OnTheWay(m) \/ sending = m

ListOK(t) ==
  t \notin gap /\ ~Behind(t) =>
    /\ fetch[t].phase = "served" => fetch[t].data = Listed(t)
    /\ fetch[t] = Idle /\ t \in cached => count[t] = Once(Listed(t))

ListsOK == \A t \in Topics : ListOK(t)

LEMMA ListKept ==
  ASSUME NEW t \in Topics, ListOK(t), In(t)' = In(t), Listed(t)' = Listed(t),
         fetch'[t] = fetch[t], count'[t] = count[t], t \in cached' => t \in cached,
         t \in gap => t \in gap', t \in stale => t \in stale',
         \A m \in In(t) : OnTheWay(m) \/ sending = m => OnTheWay(m)' \/ sending' = m
  PROVE  ListOK(t)'
<1> SUFFICES ASSUME t \notin gap', ~Behind(t)'
             PROVE  /\ fetch'[t].phase = "served" => fetch'[t].data = Listed(t)'
                    /\ fetch'[t] = Idle /\ t \in cached' => count'[t] = Once(Listed(t))'
  BY DEF ListOK
<1>1. \A m \in In(t) : ~(OnTheWay(m)' \/ sending' = m)
  BY DEF Behind
<1>2. ~Behind(t)
  BY <1>1 DEF Behind
<1>3. Once(Listed(t))' = Once(Listed(t))
  BY DEF Once
<1> QED BY <1>2, <1>3 DEF ListOK

(* The answer to a query depends on what is asked for.                     *)
LEMMA ContentOf ==
  /\ \A t \in Topics : Content(t) = Listed(t)
  /\ \A r \in Rooms : Content(r) = UnreadIn(r)
  /\ Content(RoomsList) = Written \ seen
BY RealtimeAssumption DEF Content

(* An invalidation leaves a list to be fetched again, or what it was.      *)
LEMMA ListAfter ==
  ASSUME NEW t \in Topics, NEW E, NEW f \in [Entries -> Calls], NEW k, NEW c, NEW mk, NEW sd,
         Invalidate(E, f, k, c, mk, sd),
         /\ t \notin stale \union E /\ t \notin gap' /\ f[t].phase # "asked"
         /\ \A m \in In(t)' : ~OnTheWay(m)' /\ sending' # m
         => /\ f[t].phase = "served" => f[t].data = Listed(t)'
            /\ f[t] = Idle /\ t \in k => c[t] = Once(Listed(t)')
  PROVE  ListOK(t)'
<1> SUFFICES ASSUME t \notin gap', ~Behind(t)'
             PROVE  /\ fetch'[t].phase = "served" => fetch'[t].data = Listed(t)'
                    /\ fetch'[t] = Idle /\ t \in cached' => count'[t] = Once(Listed(t)')
  BY DEF ListOK, Once
<1>1. /\ t \notin stale' /\ fetch'[t].phase # "asked"
      /\ \A m \in In(t)' : ~OnTheWay(m)' /\ sending' # m
  BY DEF Behind
<1>2. t \in Entries
  BY DEF Entries
<1>3. CASE t \in stale \union E
  BY <1>1, <1>2, <1>3, InvalidateFacts, CallFields
<1>4. CASE t \notin stale \union E
  <2>1. fetch'[t] = f[t] /\ (t \in cached' <=> t \in k) /\ (t \in cached' => count'[t] = c[t])
    BY <1>2, <1>4, InvalidateFacts
  <2> QED BY <1>1, <1>4, <2>1
<1> QED BY <1>3, <1>4

(* What is in a list, and on its way, depends on these only.               *)
LEMMA SameRows ==
  ASSUME post' = post
  PROVE  Written' = Written /\ \A t \in Topics : In(t)' = In(t) /\ Listed(t)' = Listed(t)
BY DEF Written, In, Listed

LEMMA SameWay ==
  ASSUME UNCHANGED <<post, processed, toClient>>
  PROVE  \A m \in Messages : OnTheWay(m)' <=> OnTheWay(m)
BY DEF OnTheWay, InToClient

(* A new row is in the list of its topic only.                             *)
LEMMA NewRow ==
  ASSUME TabTypes, PostedOK, NEW m \in Messages, NEW q \in Posts, post[m] = NoPost,
         post' = [post EXCEPT ![m] = q], UNCHANGED <<processed, toClient>>
  PROVE  /\ post[m].stage = "free" /\ post[m].topic = None
         /\ post'[m] = q /\ \A x \in Messages : x # m => post'[x] = post[x]
         /\ ~OnTheWay(m) /\ ~InToClient(m) /\ m \notin processed
         /\ \A x \in Messages : x # m => (OnTheWay(x)' <=> OnTheWay(x))
         /\ \A t \in Topics : t # q.topic => In(t)' = In(t) /\ Listed(t)' = Listed(t)
<1>1. post[m].stage = "free" /\ post[m].topic = None
  BY DEF NoPost
<1>2. post'[m] = q /\ \A x \in Messages : x # m => post'[x] = post[x]
  BY DEF TabTypes, PostTypes
<1>3. ~OnTheWay(m) /\ ~InToClient(m) /\ m \notin processed
  BY <1>1 DEF OnTheWay, InToClient, PostedOK
<1>4. \A x \in Messages : x # m => (OnTheWay(x)' <=> OnTheWay(x))
  BY <1>2 DEF OnTheWay, InToClient
<1>5. ASSUME NEW t \in Topics, t # q.topic PROVE In(t)' = In(t) /\ Listed(t)' = Listed(t)
  <2>1. None # t
    BY RealtimeAssumption
  <2>2. In(t)' = In(t)
    BY <1>1, <1>2, <1>5, <2>1 DEF In
  <2>3. \A x \in In(t) : x \in Written' <=> x \in Written
    BY <1>1, <1>2, <2>1 DEF In, Written
  <2>4. Listed(t)' = Listed(t)
    BY <2>2, <2>3 DEF Listed
  <2> QED BY <2>2, <2>4
<1> QED BY <1>1, <1>2, <1>3, <1>4, <1>5

(* A row that is there stays in the list of its topic.                     *)
LEMMA SameTopics ==
  ASSUME PostTypes, NEW m \in Messages, NEW s \in {"written", "told", "mute"},
         post[m].stage # "free", post' = [post EXCEPT ![m].stage = s]
  PROVE  /\ \A t \in Topics : In(t)' = In(t)
         /\ \A x \in Messages : x # m => (x \in Written' <=> x \in Written)
         /\ m \in Written' /\ (m \in Written <=> post[m].stage # "asked")
<1>1. /\ post'[m].stage = s /\ post'[m].topic = post[m].topic
      /\ \A x \in Messages : x # m => post'[x] = post[x]
  BY Restaged
<1> QED BY <1>1 DEF In, Written

(* A query takes what the server holds, and brings it unless something is  *)
(* on its way meanwhile; what is invalidated is asked for again.           *)
LEMMA ListQueries ==
  ASSUME TabTypes, ListsOK, NEW t \in Topics, NEW e \in Entries,
         Serve(e) \/ Settle(e) \/ FetchFails(e)
  PROVE  ListOK(t)'
<1>0. /\ fetch \in [Entries -> Calls] /\ count \in [Entries -> [Messages -> 0..2]] /\ t \in Entries
      /\ ListOK(t)
  BY DEF TabTypes, CacheTypes, ListsOK, Entries
<1>1. /\ UNCHANGED <<post, processed, toClient, sending>>
      /\ In(t)' = In(t) /\ Listed(t)' = Listed(t)
      /\ \A m \in Messages : OnTheWay(m)' <=> OnTheWay(m)
  <2>1. UNCHANGED <<post, processed, toClient, sending>>
    BY DEF Serve, Settle, FetchFails, server, socket
  <2> QED BY <2>1, SameRows, SameWay
<1>2. In(t) \subseteq Messages
  BY DEF In
<1>3. CASE Serve(e)
  <2>1. UNCHANGED <<cached, count, stale>> /\ gap' = gap \ {e}
    BY <1>3 DEF Serve
  <2>2. CASE e = t
    <3>1. fetch'[t] = [phase |-> "served", data |-> Listed(t)]
      BY <1>0, <1>3, <2>2, ContentOf DEF Serve
    <3>2. fetch'[t].phase = "served" /\ fetch'[t].data = Listed(t) /\ fetch'[t] # Idle
      BY <3>1 DEF Idle
    <3> QED BY <1>1, <3>2 DEF ListOK
  <2>3. CASE e # t
    <3>1. fetch'[t] = fetch[t] /\ (t \in gap => t \in gap')
      BY <1>0, <1>3, <2>1, <2>3 DEF Serve
    <3> QED BY <1>0, <1>1, <1>2, <2>1, <3>1, ListKept
  <2> QED BY <2>2, <2>3
<1>4. CASE Settle(e)
  <2> DEFINE f == [fetch EXCEPT ![e] = Idle]
             k == cached \union {e}
             c == [count EXCEPT ![e] = Once(fetch[e].data)]
  <2>1. fetch[e].phase = "served" /\ gap' = gap /\ Invalidate({}, f, k, c, marking, sending)
    BY <1>4 DEF Settle
  <2>2. f \in [Entries -> Calls]
    BY <1>0, CallFields
  <2>3. \/ e = t /\ f[t] = Idle /\ c[t] = Once(fetch[t].data)
        \/ e # t /\ f[t] = fetch[t] /\ c[t] = count[t] /\ (t \in k => t \in cached)
    BY <1>0
  <2> HIDE DEF f, k, c
  <2>4. ASSUME t \notin stale, t \notin gap', f[t].phase # "asked",
               \A m \in In(t)' : ~OnTheWay(m)' /\ sending' # m
        PROVE  /\ f[t].phase = "served" => f[t].data = Listed(t)'
               /\ f[t] = Idle /\ t \in k => c[t] = Once(Listed(t)')
    <3>1. \A m \in In(t) : ~(OnTheWay(m) \/ sending = m)
      BY <1>1, <1>2, <2>4
    <3>2. fetch[t].phase # "asked" => ~Behind(t)
      BY <2>4, <3>1 DEF Behind
    <3>3. CASE e = t
      <4>1. fetch[t].data = Listed(t)
        BY <1>0, <2>1, <2>4, <3>2, <3>3 DEF ListOK
      <4> QED BY <1>1, <2>3, <3>3, <4>1, CallFields
    <3>4. CASE e # t
      BY <1>0, <1>1, <2>1, <2>3, <2>4, <3>2, <3>4 DEF ListOK
    <3> QED BY <3>3, <3>4
  <2> QED BY <2>1, <2>2, <2>4, ListAfter
<1>5. CASE FetchFails(e)
  <2> DEFINE f == [fetch EXCEPT ![e] = Idle]
  <2>1. gap' = gap \union {e} /\ Invalidate({}, f, cached, count, marking, sending)
    BY <1>5 DEF FetchFails
  <2>2. f \in [Entries -> Calls]
    BY <1>0, CallFields
  <2>3. e = t \/ f[t] = fetch[t]
    BY <1>0
  <2> HIDE DEF f
  <2>4. ASSUME t \notin stale, t \notin gap', f[t].phase # "asked",
               \A m \in In(t)' : ~OnTheWay(m)' /\ sending' # m
        PROVE  /\ f[t].phase = "served" => f[t].data = Listed(t)'
               /\ f[t] = Idle /\ t \in cached => count[t] = Once(Listed(t)')
    <3>1. \A m \in In(t) : ~(OnTheWay(m) \/ sending = m)
      BY <1>1, <1>2, <2>4
    <3>2. ~Behind(t) /\ t \notin gap /\ f[t] = fetch[t]
      BY <2>1, <2>3, <2>4, <3>1 DEF Behind
    <3> QED BY <1>0, <1>1, <3>2 DEF ListOK
  <2> QED BY <2>1, <2>2, <2>4, ListAfter
<1> QED BY <1>3, <1>4, <1>5

(* A message that has been written is on its way until the tab hears of it *)
(* or a failure has kept it from the tab.                                  *)
LEMMA ListPosts ==
  ASSUME TabTypes, PostedOK, ListsOK, NEW t \in Topics, NEW m \in Messages,
         OthersWrite(m) \/ SendMessage(m) \/ WriteMessage(m) \/ Announce(m) \/ AnnounceFails(m)
  PROVE  ListOK(t)'
<1>0. /\ PostTypes /\ t \in Entries /\ ListOK(t) /\ None \notin Messages
      /\ In(t) \subseteq Messages
  BY RealtimeAssumption DEF TabTypes, ListsOK, Entries, In
<1>1. ASSUME OthersWrite(m) PROVE ListOK(t)'
  <2>1. PICK u \in Topics, p \in Messages \union {None} :
          post' = [post EXCEPT ![m] = [stage |-> "written", topic |-> u, parent |-> p, own |-> FALSE]]
    BY <1>1 DEF OthersWrite
  <2> DEFINE q == [stage |-> "written", topic |-> u, parent |-> p, own |-> FALSE]
  <2>2. q \in Posts /\ q.stage = "written" /\ q.topic = u
    BY DEF Posts
  <2>3. post[m] = NoPost /\ post' = [post EXCEPT ![m] = q] /\ UNCHANGED <<processed, toClient, caches, sending, gap>>
    BY <1>1, <2>1 DEF OthersWrite, socket
  <2> HIDE DEF q
  <2>4. /\ post[m].topic = None /\ post'[m] = q
        /\ \A x \in Messages : x # m => (OnTheWay(x)' <=> OnTheWay(x))
        /\ t # u => In(t)' = In(t) /\ Listed(t)' = Listed(t)
    BY <2>2, <2>3, NewRow
  <2>5. CASE t = u
    <3>1. m \in In(t)' /\ OnTheWay(m)'
      BY <2>2, <2>4, <2>5 DEF In, OnTheWay
    <3> QED BY <3>1 DEF ListOK, Behind
  <2>6. CASE t # u
    <3>1. m \notin In(t)
      BY <2>4, RealtimeAssumption DEF In
    <3> QED BY <1>0, <2>3, <2>4, <2>6, <3>1, ListKept DEF caches
  <2> QED BY <2>5, <2>6
<1>2. ASSUME SendMessage(m) PROVE ListOK(t)'
  <2>1. PICK p \in Messages \union {None} :
          post' = [post EXCEPT ![m] = [stage |-> "asked", topic |-> topic, parent |-> p, own |-> TRUE]]
    BY <1>2 DEF SendMessage
  <2> DEFINE q == [stage |-> "asked", topic |-> topic, parent |-> p, own |-> TRUE]
  <2>2. topic \in Topics
    BY <1>2 DEF SendMessage, TabTypes, ScreenTypes
  <2>3. q \in Posts /\ q.topic = topic
    BY <2>2 DEF Posts
  <2>4. /\ post[m] = NoPost /\ post' = [post EXCEPT ![m] = q]
        /\ UNCHANGED <<processed, toClient, caches, gap>> /\ sending = None /\ sending' = m
    BY <1>2, <2>1 DEF SendMessage, socket
  <2> HIDE DEF q
  <2>5. /\ post[m].topic = None /\ post'[m] = q
        /\ \A x \in Messages : x # m => (OnTheWay(x)' <=> OnTheWay(x))
        /\ t # topic => In(t)' = In(t) /\ Listed(t)' = Listed(t)
    BY <2>3, <2>4, NewRow
  <2>6. CASE t = topic
    <3>1. m \in In(t)'
      BY <2>3, <2>5, <2>6 DEF In
    <3> QED BY <2>4, <3>1 DEF ListOK, Behind
  <2>7. CASE t # topic
    <3>1. m \notin In(t)
      BY <2>5, RealtimeAssumption DEF In
    <3> QED BY <1>0, <2>4, <2>5, <2>7, <3>1, ListKept DEF caches
  <2> QED BY <2>6, <2>7
<1>3. ASSUME WriteMessage(m) PROVE ListOK(t)'
  <2>1. /\ post[m].stage = "asked" /\ post' = [post EXCEPT ![m].stage = "written"]
        /\ UNCHANGED <<processed, toClient, caches, gap, sending>>
    BY <1>3 DEF WriteMessage, socket
  <2>2. /\ In(t)' = In(t) /\ \A x \in Messages : x # m => (x \in Written' <=> x \in Written)
        /\ post'[m].stage = "written" /\ \A x \in Messages : x # m => post'[x] = post[x]
    BY <1>0, <2>1, SameTopics, Restaged
  <2>3. CASE m \in In(t)
    BY <2>2, <2>3 DEF ListOK, Behind, OnTheWay
  <2>4. CASE m \notin In(t)
    <3>1. Listed(t)' = Listed(t)
      BY <1>0, <2>2, <2>4 DEF Listed
    <3>2. \A x \in In(t) : OnTheWay(x)' <=> OnTheWay(x)
      BY <1>0, <2>1, <2>2, <2>4 DEF OnTheWay, InToClient
    <3> QED BY <1>0, <2>1, <2>2, <3>1, <3>2, ListKept DEF caches
  <2> QED BY <2>3, <2>4
<1>4. ASSUME Announce(m) PROVE ListOK(t)'
  <2>1. /\ post[m].stage = "written" /\ post' = [post EXCEPT ![m].stage = "told"]
        /\ UNCHANGED <<processed, caches, sending>>
        /\ gap' = IF link /\ (Emitted(m) # <<>> \/ sending = m) THEN gap ELSE gap \union Entries
    BY <1>4 DEF Announce
  <2>2. /\ In(t)' = In(t) /\ \A x \in Messages : x \in Written' <=> x \in Written
        /\ \A x \in Messages : x # m => post'[x] = post[x]
    BY <1>0, <2>1, SameTopics, Restaged
  <2>3. Listed(t)' = Listed(t)
    BY <1>0, <2>2 DEF Listed
  <2>4. \A x \in Messages : x # m => (OnTheWay(x)' <=> OnTheWay(x))
    BY <1>4, <2>1, <2>2, AnnouncedEvents DEF OnTheWay, InToClient
  <2>5. m \notin processed
    BY <2>1 DEF PostedOK
  <2>6. link /\ Emitted(m) # <<>> => OnTheWay(m)'
    BY <1>4, <2>1, <2>5, AnnouncedEvents DEF OnTheWay, InToClient
  <2>7. CASE t \in gap'
    BY <2>7 DEF ListOK
  <2>8. CASE t \notin gap'
    <3>1. gap' = gap /\ (OnTheWay(m)' \/ sending' = m)
      BY <1>0, <2>1, <2>6, <2>8
    <3> QED BY <1>0, <2>1, <2>2, <2>3, <2>4, <3>1, ListKept DEF caches
  <2> QED BY <2>7, <2>8
<1>5. ASSUME AnnounceFails(m) PROVE ListOK(t)'
  BY <1>0, <1>5 DEF AnnounceFails, ListOK
<1> QED BY <1>1, <1>2, <1>3, <1>4, <1>5

(* The tab hears of a message: its list is fetched again.                  *)
LEMMA ListEvents ==
  ASSUME TabTypes, PostedOK, ListsOK, NEW t \in Topics, Deliver
  PROVE  ListOK(t)'
<1> DEFINE m == Head(toClient)
<1>0. /\ fetch \in [Entries -> Calls] /\ t \in Entries /\ ListOK(t)
      /\ In(t) \subseteq Messages /\ t \notin Rooms /\ t # RoomsList
  BY RealtimeAssumption DEF TabTypes, CacheTypes, ListsOK, Entries, In
<1>1. /\ UNCHANGED <<post, sending, gap, marking>> /\ In(t)' = In(t) /\ Listed(t)' = Listed(t)
  <2>1. UNCHANGED <<post, sending, gap, marking>>
    BY DEF Deliver, server
  <2> QED BY <2>1, SameRows
<1>2. m \in Messages /\ m = toClient[1]
  BY DeliveredEvents
<1>3. \A x \in Messages : x # m => (InToClient(x)' <=> InToClient(x))
  <2> SUFFICES ASSUME NEW x \in Messages, x # m PROVE InToClient(x)' <=> InToClient(x)
    OBVIOUS
  <2>1. ASSUME InToClient(x)' PROVE InToClient(x)
    BY <2>1, DeliveredEvents DEF InToClient
  <2>2. ASSUME InToClient(x) PROVE InToClient(x)'
    <3>1. PICK i \in DOMAIN toClient : toClient[i] = x
      BY <2>2 DEF InToClient
    <3>2. i # 1
      BY <1>2, <3>1
    <3>3. i - 1 \in DOMAIN toClient' /\ toClient'[i - 1] = x
      BY <3>1, <3>2, DeliveredEvents
    <3> QED BY <3>3 DEF InToClient
  <2> QED BY <2>1, <2>2
<1>4. IF ~Fresh(m) THEN UNCHANGED <<processed, caches>>
      ELSE /\ processed' = processed \union {m}
           /\ Invalidate(Outdated(m), fetch, cached, Patched(m), marking, sending)
  BY Zenon DEF Deliver
<1> HIDE DEF m
<1>5. CASE ~Fresh(m)
  <2>1. \A x \in Messages : OnTheWay(x)' <=> OnTheWay(x)
    BY <1>1, <1>3, <1>4, <1>5 DEF OnTheWay, Fresh
  <2> QED BY <1>0, <1>1, <1>4, <1>5, <2>1, ListKept DEF caches
<1>6. CASE Fresh(m)
  <2>1. \A x \in Messages : x # m => (OnTheWay(x)' <=> OnTheWay(x))
    BY <1>1, <1>3, <1>4, <1>6 DEF OnTheWay
  <2> DEFINE c == Patched(m)
  <2>2. t # post[m].topic => c[t] = count[t]
    <3>1. post[m].topic \in Topics => RoomOf[post[m].topic] \in Rooms
      BY RealtimeAssumption
    <3>2. post[m].topic \in Topics
      BY <1>2, DeliveredEvents, PostFields DEF PostedOK, TabTypes
    <3> QED BY <1>0, <3>1, <3>2 DEF Patched
  <2>3. Invalidate({post[m].topic}, fetch, cached, c, marking, sending)
    BY <1>4, <1>6 DEF Outdated
  <2> HIDE DEF c
  <2>4. ASSUME t \notin stale, t # post[m].topic, t \notin gap', fetch[t].phase # "asked",
               \A x \in In(t)' : ~OnTheWay(x)' /\ sending' # x
        PROVE  /\ fetch[t].phase = "served" => fetch[t].data = Listed(t)'
               /\ fetch[t] = Idle /\ t \in cached => c[t] = Once(Listed(t)')
    <3>1. m \notin In(t)
      BY <2>4 DEF In
    <3>2. ~Behind(t)
      BY <1>0, <1>1, <2>1, <2>4, <3>1 DEF Behind
    <3> QED BY <1>0, <1>1, <2>2, <2>4, <3>2 DEF ListOK
  <2> QED BY <1>0, <2>3, <2>4, ListAfter
<1> QED BY <1>5, <1>6

(* Nothing else makes a list wrong: what is not fetched again stays.       *)
LEMMA ListOthers ==
  ASSUME TabTypes, PostedOK, ListsOK, NEW t \in Topics, RealtimeStep
  PROVE  ListOK(t)'
<1>0. /\ fetch \in [Entries -> Calls] /\ t \in Entries /\ ListOK(t)
      /\ In(t) \subseteq Messages /\ t \notin Rooms /\ t # RoomsList /\ t # None
      /\ sending \in Messages \union {None} /\ None \notin Messages
  BY RealtimeAssumption DEF TabTypes, CacheTypes, PostTypes, ListsOK, Entries, In
<1>1. ASSUME UNCHANGED <<post, processed, toClient, sending>>, t \in gap => t \in gap',
             fetch'[t] = fetch[t], UNCHANGED <<cached, count, stale>>
      PROVE  ListOK(t)'
  BY <1>0, <1>1, SameRows, SameWay, ListKept
<1>2. ASSUME NEW E, t \notin E, UNCHANGED <<post, processed, toClient, gap>>, NEW mk, NEW sd,
             Invalidate(E, fetch, cached, count, mk, sd),
             sending' = sending \/ sending \notin In(t)
      PROVE  ListOK(t)'
  <2>1. In(t)' = In(t) /\ Listed(t)' = Listed(t) /\ \A x \in Messages : OnTheWay(x)' <=> OnTheWay(x)
    BY <1>2, SameRows, SameWay
  <2>2. ASSUME t \notin stale \union E, t \notin gap', fetch[t].phase # "asked",
               \A x \in In(t)' : ~OnTheWay(x)' /\ sending' # x
        PROVE  /\ fetch[t].phase = "served" => fetch[t].data = Listed(t)'
               /\ fetch[t] = Idle /\ t \in cached => count[t] = Once(Listed(t)')
    <3>1. ~Behind(t)
      BY <1>0, <1>2, <2>1, <2>2 DEF Behind
    <3> QED BY <1>0, <1>2, <2>1, <2>2, <3>1 DEF ListOK
  <2> QED BY <1>0, <1>2, <2>2, ListAfter
<1>3. CASE SendSettles
  <2>1. /\ Invalidate(SendTags(post[sending].topic), fetch, cached, count, marking, None)
        /\ UNCHANGED <<post, processed, toClient, gap>>
    BY <1>3 DEF SendSettles, server, socket
  <2>2. CASE t = post[sending].topic
    <3>1. t \in SendTags(post[sending].topic)
      BY <2>2 DEF SendTags
    <3> QED BY <1>0, <2>1, <3>1, ListAfter
  <2>3. CASE t # post[sending].topic
    <3>1. t \notin SendTags(post[sending].topic) /\ sending \notin In(t)
      BY <1>0, <2>3 DEF SendTags, In
    <3> QED BY <1>2, <2>1, <3>1
  <2> QED BY <2>2, <2>3
<1>4. CASE SendFails
  BY <1>0, <1>4 DEF SendFails, ListOK
<1>5. ASSUME NEW u \in Topics, FindUnread(u) \/ InsertReads(u) PROVE ListOK(t)'
  BY <1>1, <1>5 DEF FindUnread, InsertReads, server, socket, caches
<1>6. ASSUME NEW u \in Topics, MarkSettles(u) \/ MarkFails(u) PROVE ListOK(t)'
  <2>1. t \notin MarkTags
    BY <1>0 DEF MarkTags, Badges
  <2> QED BY <1>2, <1>6, <2>1 DEF MarkSettles, MarkFails, server, socket
<1>7. CASE Connect \/ ServeSocket \/ FollowRoom \/ LeaveTopic
  BY <1>1, <1>7 DEF Connect, ServeSocket, FollowRoom, LeaveTopic, server, socket, caches
<1>8. CASE Disconnect
  <2>1. /\ UNCHANGED <<post, processed, sending, caches>> /\ toClient' = <<>>
        /\ gap' = IF \E i \in DOMAIN toClient : toClient[i] \notin processed
                  THEN gap \union Entries ELSE gap
    BY <1>8 DEF Disconnect, server
  <2>2. CASE \E i \in DOMAIN toClient : toClient[i] \notin processed
    BY <1>0, <2>1, <2>2 DEF ListOK
  <2>3. CASE ~\E i \in DOMAIN toClient : toClient[i] \notin processed
    <3>1. \A x \in Messages : OnTheWay(x) => OnTheWay(x)'
      BY <2>1, <2>3 DEF OnTheWay, InToClient
    <3> QED BY <1>0, <2>1, <2>3, <3>1, SameRows, ListKept DEF caches
  <2> QED BY <2>2, <2>3
<1>9. ASSUME NEW r \in Rooms \union {None}, SelectRoom(r) PROVE ListOK(t)'
  <2>1. fetch'[t] = fetch[t]
    BY <1>0, <1>9 DEF SelectRoom, Mount
  <2> QED BY <1>1, <1>9, <2>1 DEF SelectRoom, server, socket
<1>10. ASSUME NEW u \in Topics, SelectTopic(u) PROVE ListOK(t)'
  <2>1. fetch'[t] = fetch[t] \/ fetch'[t] = Asked
    BY <1>0, <1>10 DEF SelectTopic, Mount
  <2>2. CASE fetch'[t] = Asked
    BY <2>2, CallFields DEF ListOK, Behind
  <2> QED BY <1>1, <1>10, <2>1, <2>2 DEF SelectTopic, server, socket
<1> QED
  BY <1>3, <1>4, <1>5, <1>6, <1>7, <1>8, <1>9, <1>10, ListQueries, ListPosts, ListEvents
     DEF RealtimeStep, Progress, Posting, Failure, Visit

ListInv == BaseInv /\ ListsOK

LEMMA ListInvariance == RealtimeSpec => []ListInv
<1>1. RealtimeInit => ListInv
  <2> SUFFICES ASSUME RealtimeInit PROVE ListsOK
    BY BaseInit DEF ListInv
  <2>1. \A t \in Topics : t \in Entries /\ t # RoomsList
    BY RealtimeAssumption DEF Entries
  <2>2. \A t \in Topics : fetch[t] = Idle /\ t \notin cached
    BY <2>1 DEF RealtimeInit
  <2> QED BY <2>2, CallFields DEF ListsOK, ListOK
<1>2. ListInv /\ [RealtimeNext]_realtimeVars => ListInv'
  <2>1. ASSUME ListInv, RealtimeNext PROVE ListsOK'
    <3>1. TabTypes /\ PostedOK /\ ListsOK /\ RealtimeStep
      BY <2>1, BaseTypes, NextFacts DEF ListInv, BaseInv
    <3>2. \A t \in Topics : ListOK(t)'
      BY <3>1, ListOthers
    <3> QED BY <3>2 DEF ListsOK
  <2>2. ASSUME ListsOK, UNCHANGED realtimeVars PROVE ListsOK'
    BY <2>2 DEF realtimeVars, server, socket, screen, caches, ListsOK, ListOK, Behind, OnTheWay,
                InToClient, In, Listed, Written, Once
  <2> QED BY <2>1, <2>2, BaseNext, BaseStutter DEF ListInv
<1> QED BY <1>1, <1>2, PTL DEF RealtimeSpec

(* The list of a topic holds exactly its messages once nothing is pending, *)
(* whatever the events, the answers and the invalidations have overtaken   *)
(* (applyIncomingMessage and the tags of chatApi.ts), unless a failure has *)
(* kept an event or an answer from it.                                     *)
THEOREM ListsComeOutExact == RealtimeSpec => []ListsExact
<1>1. ListInv => ListsExact
  <2> SUFFICES ASSUME ListInv, AtRest, NEW t \in (Topics \intersect cached) \ gap
               PROVE  count[t] = Once(Content(t))
    BY DEF ListsExact
  <2>1. t \in Topics /\ t \in Entries /\ ListOK(t) /\ Content(t) = Listed(t)
    BY ContentOf DEF ListInv, ListsOK, Entries
  <2>2. stale = {} /\ fetch[t] = Idle /\ sending = None /\ toClient = <<>>
    BY <2>1 DEF AtRest
  <2>3. \A m \in In(t) : ~OnTheWay(m) /\ sending # m
    BY <2>2, RealtimeAssumption DEF AtRest, In, OnTheWay, InToClient
  <2>4. ~Behind(t)
    BY <2>2, <2>3, CallFields DEF Behind
  <2> QED BY <2>1, <2>2, <2>4 DEF ListOK
<1> QED BY <1>1, ListInvariance, PTL

------------------------------------------------------------------------------
(* A tab that is left alone comes to rest *)

(* The tab, a request or the socket can go on: the guards of Progress, but *)
(* for those that only concern the channels.                               *)
CanGoOn ==
  \/ \E e \in Entries : fetch[e].phase \in {"asked", "served"}
  \/ \E m \in Messages : post[m].stage \in {"asked", "written"}
  \/ \E t \in Topics : marking[t].phase \in {"asked", "served", "written"}
  \/ sending # None /\ post[sending].stage = "told" /\ marking[post[sending].topic] = Idle
  \/ toClient # <<>>

(* A query, or a mutation, that is on its way is at some point of it.      *)
PhasesOK ==
  /\ \A e \in Entries : fetch[e] = Idle \/ fetch[e].phase \in {"asked", "served"}
  /\ \A t \in Topics : marking[t] = Idle \/ marking[t].phase \in {"asked", "served", "written"}

(* What is invalidated is not forgotten: something on its way will have it *)
(* fetched.                                                                *)
StaleWaits == stale # {} => Pending(fetch, marking, sending)

(* The tab has the list on the screen, or asks for it, unless that failed. *)
TopicHeld == topic # None => topic \in cached \/ fetch[topic] # Idle \/ topic \in gap

RestInv == BaseInv /\ PhasesOK /\ StaleWaits /\ TopicHeld

(* Queries and mutations under way stay so.                                *)
LEMMA PendingStays ==
  ASSUME StaleWaits, stale' = stale,
         \A e \in Entries : fetch[e] # Idle => fetch'[e] # Idle,
         \A t \in Topics : marking[t] # Idle => marking'[t] # Idle,
         sending # None => sending' # None
  PROVE  StaleWaits'
BY DEF StaleWaits, Pending

LEMMA HeldStays ==
  ASSUME TopicHeld, UNCHANGED <<topic, cached>>, gap \subseteq gap', topic \in Topics \union {None},
         \A e \in Entries : fetch[e] # Idle => fetch'[e] # Idle
  PROVE  TopicHeld'
BY DEF TopicHeld, Entries

(* A query or a mutation ends; the others go on.                           *)
LEMMA InvalidateRests ==
  ASSUME NEW E, NEW f \in [Entries -> Calls], NEW k, NEW c, NEW mk, NEW sd,
         Invalidate(E, f, k, c, mk, sd),
         \A e \in Entries : f[e] = Idle \/ f[e].phase \in {"asked", "served"},
         \A t \in Topics : mk[t] # Idle => marking'[t] # Idle, sd # None => sending' # None,
         topic' = topic, topic \in Topics \union {None}, gap \subseteq gap',
         topic # None => topic \in k \/ f[topic] # Idle \/ topic \in gap'
  PROVE  /\ \A e \in Entries : fetch'[e] = Idle \/ fetch'[e].phase \in {"asked", "served"}
         /\ StaleWaits' /\ TopicHeld'
<1> DEFINE s == stale \union E
           pending == Pending(f, mk, sd)
<1>1. /\ stale' = IF pending THEN s ELSE {}
      /\ fetch' = [e \in Entries |-> IF ~pending /\ f[e] = Idle /\ e \in s \intersect Subscribed
                                     THEN Asked ELSE f[e]]
      /\ cached' = IF pending THEN k ELSE k \ (s \ Subscribed)
  BY Zenon DEF Invalidate
<1>2. pending => \/ sd # None \/ (\E e \in Entries : f[e] # Idle) \/ \E t \in Topics : mk[t] # Idle
  BY DEF Pending
<1> HIDE DEF pending
<1>3. \A e \in Entries : fetch'[e] = f[e] \/ fetch'[e] = Asked
  BY <1>1
<1>4. \A e \in Entries : fetch'[e] = Idle \/ fetch'[e].phase \in {"asked", "served"}
  BY <1>3, CallFields
<1>5. StaleWaits'
  BY <1>1, <1>2, <1>3, CallFields DEF StaleWaits, Pending
<1>6. topic # None => topic \in Entries /\ topic \in Subscribed
  BY DEF Entries, Subscribed
<1>7. TopicHeld'
  BY <1>1, <1>3, <1>6, CallFields DEF TopicHeld
<1> QED BY <1>4, <1>5, <1>7

LEMMA RestSteps ==
  ASSUME RestInv, RealtimeStep
  PROVE  PhasesOK' /\ StaleWaits' /\ TopicHeld'
<1>0. /\ fetch \in [Entries -> Calls] /\ marking \in [Topics -> Calls]
      /\ topic \in Topics \union {None} /\ sending \in Messages \union {None} /\ None \notin Messages
      /\ None \notin Topics /\ Topics \subseteq Entries
      /\ PhasesOK /\ StaleWaits /\ TopicHeld /\ BaseInv
  BY BaseTypes, RealtimeAssumption
     DEF RestInv, BaseInv, TabTypes, CacheTypes, PostTypes, ScreenTypes, Entries
<1>1. /\ \A e \in Entries : fetch[e] = Idle \/ fetch[e].phase \in {"asked", "served"}
      /\ topic # None => topic \in cached \/ fetch[topic] # Idle \/ topic \in gap
      /\ \A t \in Topics : marking[t] = Idle \/ marking[t].phase \in {"asked", "served", "written"}
  BY <1>0 DEF PhasesOK, TopicHeld
<1>2. ASSUME UNCHANGED <<topic, caches, marking>>, sending # None => sending' # None, gap \subseteq gap'
      PROVE  PhasesOK' /\ StaleWaits' /\ TopicHeld'
  BY <1>0, <1>2, PendingStays, HeldStays DEF PhasesOK, caches
<1>3. ASSUME NEW E, NEW k, NEW c, NEW mk, NEW sd, Invalidate(E, fetch, k, c, mk, sd), cached \subseteq k,
             \A t \in Topics : mk[t] # Idle => marking'[t] # Idle, sd # None => sending' # None,
             topic' = topic, gap \subseteq gap',
             \A t \in Topics : marking'[t] = Idle \/ marking'[t].phase \in {"asked", "served", "written"}
      PROVE  PhasesOK' /\ StaleWaits' /\ TopicHeld'
  BY <1>0, <1>1, <1>3, InvalidateRests DEF PhasesOK
<1>4. ASSUME NEW e \in Entries, Serve(e) PROVE PhasesOK' /\ StaleWaits' /\ TopicHeld'
  <2>1. /\ fetch' = [fetch EXCEPT ![e] = [phase |-> "served", data |-> Content(e)]]
        /\ gap' = gap \ {e} /\ UNCHANGED <<topic, cached, stale, marking, sending>>
    BY <1>4 DEF Serve, screen
  <2>2. /\ [phase |-> "served", data |-> Content(e)].phase = "served"
        /\ [phase |-> "served", data |-> Content(e)] # Idle
    BY ContentType, CallFields
  <2>3. /\ fetch'[e].phase = "served" /\ fetch'[e] # Idle
        /\ \A d \in Entries \ {e} : fetch'[d] = fetch[d]
    BY <1>0, <2>1, <2>2
  <2>4. PhasesOK'
    BY <1>1, <2>1, <2>3 DEF PhasesOK
  <2>5. StaleWaits'
    BY <1>0, <2>1, <2>3, PendingStays
  <2>6. TopicHeld'
    BY <1>0, <1>1, <2>1, <2>3 DEF TopicHeld
  <2> QED BY <2>4, <2>5, <2>6
<1>5. ASSUME NEW e \in Entries, Settle(e) \/ FetchFails(e) PROVE PhasesOK' /\ StaleWaits' /\ TopicHeld'
  <2> DEFINE f == [fetch EXCEPT ![e] = Idle]
  <2>1. /\ f \in [Entries -> Calls] /\ f[e] = Idle /\ \A d \in Entries \ {e} : f[d] = fetch[d]
        /\ \A d \in Entries : f[d] = Idle \/ f[d].phase \in {"asked", "served"}
    BY <1>0, <1>1, CallFields
  <2>2. PICK k, c : /\ Invalidate({}, f, k, c, marking, sending) /\ cached \subseteq k
                    /\ e \in k \/ e \in gap'
    BY <1>5 DEF Settle, FetchFails
  <2>3. gap \subseteq gap' /\ UNCHANGED <<topic, marking, sending>>
    BY <1>5 DEF Settle, FetchFails, screen
  <2> HIDE DEF f
  <2>4. topic # None => topic \in k \/ f[topic] # Idle \/ topic \in gap'
    BY <1>0, <1>1, <2>1, <2>2, <2>3
  <2>5. /\ \A d \in Entries : fetch'[d] = Idle \/ fetch'[d].phase \in {"asked", "served"}
        /\ StaleWaits' /\ TopicHeld'
    BY <1>0, <2>1, <2>2, <2>3, <2>4, InvalidateRests
  <2> QED BY <1>1, <2>3, <2>5 DEF PhasesOK
<1>6. ASSUME NEW m \in Messages, \/ OthersWrite(m) \/ SendMessage(m) \/ WriteMessage(m)
                                 \/ Announce(m) \/ AnnounceFails(m)
      PROVE  PhasesOK' /\ StaleWaits' /\ TopicHeld'
  <2>1. /\ UNCHANGED <<topic, caches, marking>> /\ gap \subseteq gap'
        /\ sending' = sending \/ sending' = m
    BY <1>6 DEF OthersWrite, SendMessage, WriteMessage, Announce, AnnounceFails, screen
  <2> QED BY <1>0, <1>2, <2>1
<1>7. CASE SendSettles \/ SendFails
  <2>1. PICK E : Invalidate(E, fetch, cached, count, marking, None)
    BY <1>7 DEF SendSettles, SendFails
  <2>2. UNCHANGED topic /\ gap \subseteq gap'
    BY <1>7 DEF SendSettles, SendFails, screen
  <2>3. marking' = marking \/ \E t \in Topics : marking' = [marking EXCEPT ![t] = Asked]
    <3>1. CASE SendSettles
      <4>1. post[sending].topic \in Topics
        BY <1>0, <3>1, BaseTypes, PostFields DEF SendSettles, BaseInv, TabTypes
      <4> QED BY <3>1, <4>1 DEF SendSettles
    <3>2. CASE SendFails
      BY <3>2 DEF SendFails
    <3> QED BY <1>7, <3>1, <3>2
  <2>4. /\ \A t \in Topics : marking[t] # Idle => marking'[t] # Idle
        /\ \A t \in Topics : marking'[t] = Idle \/ marking'[t].phase \in {"asked", "served", "written"}
    BY <1>0, <1>1, <2>3, CallFields
  <2>5. cached \subseteq cached /\ (None # None => sending' # None)
    OBVIOUS
  <2> QED BY <1>3, <2>1, <2>2, <2>4, <2>5
<1>8. ASSUME NEW t \in Topics, MarkSettles(t) \/ MarkFails(t) PROVE PhasesOK' /\ StaleWaits' /\ TopicHeld'
  <2>1. /\ Invalidate(MarkTags, fetch, cached, count, marking', sending)
        /\ marking' = [marking EXCEPT ![t] = Idle] /\ UNCHANGED <<topic, sending, gap>>
    BY <1>8 DEF MarkSettles, MarkFails, screen
  <2>2. \A u \in Topics : marking'[u] = Idle \/ marking'[u].phase \in {"asked", "served", "written"}
    BY <1>0, <1>1, <2>1
  <2> QED BY <1>3, <2>1, <2>2
<1>9. ASSUME NEW t \in Topics, FindUnread(t) \/ InsertReads(t) PROVE PhasesOK' /\ StaleWaits' /\ TopicHeld'
  <2>1. UNCHANGED <<topic, caches, sending, gap>>
    BY <1>9 DEF FindUnread, InsertReads, screen
  <2>2. PICK p \in {"served", "written"}, d \in SUBSET Messages :
          marking' = [marking EXCEPT ![t] = [phase |-> p, data |-> d]]
    <3>1. CASE FindUnread(t)
      <4>1. (Written \intersect In(t)) \ seen \in SUBSET Messages
        BY DEF Written
      <4> QED BY <3>1, <4>1 DEF FindUnread
    <3>2. CASE InsertReads(t)
      BY <3>2 DEF InsertReads
    <3> QED BY <1>9, <3>1, <3>2
  <2>3. [phase |-> p, data |-> d].phase = p /\ [phase |-> p, data |-> d] # Idle
    BY CallFields
  <2>4. /\ marking'[t].phase = p /\ marking'[t] # Idle
        /\ \A u \in Topics \ {t} : marking'[u] = marking[u]
    BY <1>0, <2>2, <2>3
  <2>5. PhasesOK'
    BY <1>0, <1>1, <2>1, <2>4 DEF PhasesOK, caches
  <2> QED BY <1>0, <2>1, <2>4, <2>5, PendingStays, HeldStays DEF caches
<1>10. CASE Connect \/ Disconnect \/ ServeSocket \/ FollowRoom
  <2>1. UNCHANGED <<topic, caches, marking, sending>> /\ gap \subseteq gap'
    BY <1>10 DEF Connect, Disconnect, ServeSocket, FollowRoom, screen
  <2> QED BY <1>2, <2>1
<1>11. CASE Deliver
  <2>1. UNCHANGED <<topic, marking, sending, gap>>
    BY <1>11 DEF Deliver, screen
  <2>2. CASE UNCHANGED caches
    BY <1>2, <2>1, <2>2
  <2>3. ASSUME NEW E, NEW c, Invalidate(E, fetch, cached, c, marking, sending)
        PROVE  PhasesOK' /\ StaleWaits' /\ TopicHeld'
    BY <1>1, <1>3, <2>1, <2>3
  <2>4. UNCHANGED caches \/ \E E, c : Invalidate(E, fetch, cached, c, marking, sending)
    BY <1>11 DEF Deliver
  <2> QED BY <2>2, <2>3, <2>4
<1>12. ASSUME NEW e \in Entries, Mount(e)
       PROVE  /\ fetch'[e] # Idle
              /\ \A d \in Entries : fetch'[d] = fetch[d] \/ (d = e /\ fetch'[d] = Asked)
  BY <1>0, <1>12, CallFields DEF Mount
<1>13. ASSUME NEW r \in Rooms \union {None}, SelectRoom(r) PROVE PhasesOK' /\ StaleWaits' /\ TopicHeld'
  <2>1. topic' = None /\ UNCHANGED <<stale, marking, sending>>
    BY <1>13 DEF SelectRoom
  <2>2. \A d \in Entries : fetch'[d] = fetch[d] \/ fetch'[d] = Asked
    BY <1>12, <1>13 DEF SelectRoom, Entries
  <2>3. PhasesOK'
    BY <1>1, <2>1, <2>2, CallFields DEF PhasesOK
  <2>4. StaleWaits'
    BY <1>0, <2>1, <2>2, CallFields, PendingStays
  <2> QED BY <2>1, <2>3, <2>4 DEF TopicHeld
<1>14. ASSUME NEW t \in Topics, SelectTopic(t) PROVE PhasesOK' /\ StaleWaits' /\ TopicHeld'
  <2>1. /\ topic' = t /\ Mount(t) /\ marking' = [marking EXCEPT ![t] = Asked]
        /\ UNCHANGED <<stale, sending>>
    BY <1>14 DEF SelectTopic
  <2>2. fetch'[t] # Idle /\ \A d \in Entries : fetch'[d] = fetch[d] \/ fetch'[d] = Asked
    BY <1>0, <1>12, <2>1
  <2>3. marking'[t] = Asked /\ \A u \in Topics \ {t} : marking'[u] = marking[u]
    BY <1>0, <2>1
  <2>4. PhasesOK'
    BY <1>1, <2>2, <2>3, CallFields DEF PhasesOK
  <2>5. StaleWaits'
    BY <1>0, <2>1, <2>2, <2>3, CallFields, PendingStays
  <2> QED BY <2>1, <2>2, <2>4, <2>5 DEF TopicHeld
<1>15. CASE LeaveTopic
  <2>1. topic' = None /\ UNCHANGED <<caches, marking, sending>>
    BY <1>15 DEF LeaveTopic
  <2>2. StaleWaits'
    BY <1>0, <2>1, PendingStays DEF caches
  <2> QED BY <1>0, <2>1, <2>2 DEF PhasesOK, TopicHeld, caches
<1> QED
  BY <1>4, <1>5, <1>6, <1>7, <1>8, <1>9, <1>10, <1>11, <1>13, <1>14, <1>15
     DEF RealtimeStep, Progress, Posting, Failure, Visit

LEMMA RestInvariance == RealtimeSpec => []RestInv
<1>1. RealtimeInit => RestInv
  <2> SUFFICES ASSUME RealtimeInit PROVE PhasesOK /\ StaleWaits /\ TopicHeld
    BY BaseInit DEF RestInv
  <2>1. /\ \A e \in Entries : fetch[e] = Idle
        /\ \A t \in Topics : marking[t] = Idle
        /\ stale = {} /\ topic = None
    BY DEF RealtimeInit
  <2> QED BY <2>1 DEF PhasesOK, StaleWaits, TopicHeld
<1>2. RestInv /\ [RealtimeNext]_realtimeVars => RestInv'
  <2>1. ASSUME RestInv, RealtimeNext PROVE RestInv'
    <3>1. RealtimeStep /\ BaseInv
      BY <2>1, NextFacts DEF RestInv, BaseInv
    <3> QED BY <2>1, <3>1, BaseNext, RestSteps DEF RestInv
  <2>2. ASSUME RestInv, UNCHANGED realtimeVars PROVE RestInv'
    <3>1. UNCHANGED <<fetch, marking, stale, sending, topic, cached, gap>>
      BY <2>2 DEF realtimeVars, screen, caches
    <3> QED BY <2>2, <3>1, BaseStutter DEF RestInv, PhasesOK, StaleWaits, TopicHeld, Pending
  <2> QED BY <2>1, <2>2
<1> QED BY <1>1, <1>2, PTL DEF RealtimeSpec

(* A row, a call or the socket gets further, and no other of its kind goes *)
(* back.                                                                   *)
RowFurther ==
  \E m \in Messages :
    /\ \/ post[m].stage = "asked" /\ post'[m].stage = "written"
       \/ post[m].stage = "written" /\ post'[m].stage = "told"
    /\ \A x \in Messages \ {m} : post'[x] = post[x]

CallFurther(old, new) ==
  \/ old.phase = "asked" /\ new.phase = "served"
  \/ old.phase = "served" /\ new.phase = "written"
  \/ old # Idle /\ new = Idle

MarkFurther ==
  \E t \in Topics : /\ CallFurther(marking[t], marking'[t])
                    /\ \A u \in Topics \ {t} : marking'[u] = marking[u]

FetchFurther ==
  \E e \in Entries : /\ CallFurther(fetch[e], fetch'[e])
                     /\ \A d \in Entries \ {e} : fetch'[d] = fetch[d]

SocketFurther ==
  \/ ~link /\ link'
  \/ UNCHANGED link /\ active # room /\ active' = room
  \/ UNCHANGED <<link, active>> /\ Len(toServer') < Len(toServer)

(* A step of Progress brings the tab nearer to rest: of the rows, the      *)
(* message being sent, the events, the marks, what is stale and the        *)
(* queries, in this order, the first one it touches gets further.          *)
Nearer ==
  /\ UNCHANGED <<room, topic>>
  /\ \/ SocketFurther /\ UNCHANGED <<post, sending, toClient, marking, stale, fetch>>
     \/ /\ UNCHANGED <<link, active, toServer>>
        /\ \/ RowFurther
           \/ UNCHANGED post /\ sending # None /\ sending' = None
           \/ UNCHANGED <<post, sending>> /\ Len(toClient') < Len(toClient)
           \/ UNCHANGED <<post, sending, toClient>> /\ MarkFurther
           \/ UNCHANGED <<post, sending, toClient, marking>> /\ stale # {} /\ stale' = {}
           \/ UNCHANGED <<post, sending, toClient, marking, stale>> /\ FetchFurther

LEMMA TailShorter ==
  ASSUME NEW S, NEW s \in Seq(S), s # <<>>
  PROVE  Len(Tail(s)) < Len(s)
OBVIOUS

LEMMA ProgressNears ==
  ASSUME RestInv, Progress
  PROVE  Nearer
<1>0. /\ fetch \in [Entries -> Calls] /\ marking \in [Topics -> Calls]
      /\ toServer \in Seq(SocketEvents) /\ toClient \in Seq(Messages) /\ link \in BOOLEAN
      /\ TabTypes /\ PostTypes /\ PhasesOK
  BY BaseTypes DEF RestInv, BaseInv, TabTypes, CacheTypes, PostTypes, SocketTypes
<1>1. ASSUME NEW e \in Entries, Serve(e) PROVE Nearer
  <2>1. /\ fetch' = [fetch EXCEPT ![e] = [phase |-> "served", data |-> Content(e)]]
        /\ fetch[e].phase = "asked"
        /\ UNCHANGED <<room, topic, link, active, toServer, post, sending, toClient, marking, stale>>
    BY <1>1 DEF Serve, screen, socket, server
  <2>2. [phase |-> "served", data |-> Content(e)].phase = "served"
    OBVIOUS
  <2>3. fetch'[e].phase = "served" /\ \A d \in Entries \ {e} : fetch'[d] = fetch[d]
    BY <1>0, <2>1, <2>2
  <2> QED BY <2>1, <2>3 DEF Nearer, FetchFurther, CallFurther
<1>2. ASSUME NEW e \in Entries, Settle(e) PROVE Nearer
  <2> DEFINE f == [fetch EXCEPT ![e] = Idle]
             pending == Pending(f, marking, sending)
  <2>1. PICK k, c : Invalidate({}, f, k, c, marking, sending)
    BY <1>2 DEF Settle
  <2>2. /\ UNCHANGED <<room, topic, link, active, toServer, post, sending, toClient, marking>>
        /\ fetch[e].phase = "served"
    BY <1>2 DEF Settle, screen, socket, server
  <2>3. /\ f[e] = Idle /\ fetch[e] # Idle /\ DOMAIN f = Entries
        /\ \A d \in Entries \ {e} : f[d] = fetch[d]
    BY <1>0, <2>2, CallFields
  <2>4. /\ stale' = IF pending THEN stale ELSE {}
        /\ fetch' = [d \in Entries |-> IF ~pending /\ f[d] = Idle /\ d \in (stale \union {}) \intersect Subscribed
                                       THEN Asked ELSE f[d]]
    BY <2>1 DEF Invalidate
  <2> HIDE DEF f, pending
  <2>5. CASE stale' = stale
    <3>1. \A d \in Entries : fetch'[d] = f[d]
      BY <2>4, <2>5
    <3> QED BY <2>2, <2>3, <2>5, <3>1 DEF Nearer, FetchFurther, CallFurther
  <2>6. CASE stale' # stale
    BY <2>2, <2>4, <2>6 DEF Nearer
  <2> QED BY <2>5, <2>6
<1>3. ASSUME NEW m \in Messages, WriteMessage(m) \/ Announce(m) PROVE Nearer
  <2>1. /\ UNCHANGED <<room, topic, link, active, toServer>>
        /\ \/ post[m].stage = "asked" /\ post' = [post EXCEPT ![m].stage = "written"]
           \/ post[m].stage = "written" /\ post' = [post EXCEPT ![m].stage = "told"]
    BY <1>3 DEF WriteMessage, Announce, screen, socket
  <2>2. RowFurther
    BY <1>0, <2>1, Restaged DEF RowFurther
  <2> QED BY <2>1, <2>2 DEF Nearer
<1>4. ASSUME NEW t \in Topics, FindUnread(t) \/ InsertReads(t) \/ MarkSettles(t) PROVE Nearer
  <2>1. UNCHANGED <<room, topic, link, active, toServer, post, sending, toClient>>
    BY <1>4 DEF FindUnread, InsertReads, MarkSettles, screen, socket, server
  <2>2. PICK n : /\ marking' = [marking EXCEPT ![t] = n]
                 /\ \/ marking[t].phase = "asked" /\ n.phase = "served"
                    \/ marking[t].phase = "served" /\ n.phase = "written"
                    \/ marking[t].phase = "written" /\ n = Idle
    <3>1. CASE FindUnread(t)
      <4> DEFINE n == [phase |-> "served", data |-> (Written \intersect In(t)) \ seen]
      <4>1. n.phase = "served" /\ marking' = [marking EXCEPT ![t] = n] /\ marking[t].phase = "asked"
        BY <3>1 DEF FindUnread
      <4> HIDE DEF n
      <4> QED BY <4>1
    <3>2. CASE InsertReads(t)
      <4> DEFINE n == [phase |-> "written", data |-> {}]
      <4>1. n.phase = "written" /\ marking' = [marking EXCEPT ![t] = n] /\ marking[t].phase = "served"
        BY <3>2 DEF InsertReads
      <4> HIDE DEF n
      <4> QED BY <4>1
    <3>3. CASE MarkSettles(t)
      BY <3>3 DEF MarkSettles
    <3> QED BY <1>4, <3>1, <3>2, <3>3
  <2>3. marking'[t] = n /\ \A u \in Topics \ {t} : marking'[u] = marking[u]
    BY <1>0, <2>2
  <2>4. MarkFurther
    BY <2>2, <2>3, CallFields DEF MarkFurther, CallFurther
  <2> QED BY <2>1, <2>4 DEF Nearer
<1>5. CASE SendSettles
  BY <1>5 DEF SendSettles, Nearer, screen, socket, server
<1>6. CASE Deliver
  <2>1. /\ UNCHANGED <<room, topic, link, active, toServer, post, sending>>
        /\ toClient # <<>> /\ toClient' = Tail(toClient)
    BY <1>6 DEF Deliver, screen, server
  <2> QED BY <1>0, <2>1, TailShorter DEF Nearer
<1>7. CASE Connect
  BY <1>7 DEF Connect, Nearer, SocketFurther, screen, caches, server
<1>8. CASE FollowRoom
  BY <1>8 DEF FollowRoom, Nearer, SocketFurther, caches, server
<1>9. CASE ServeSocket
  <2>1. /\ UNCHANGED <<room, topic, link, active, post, sending, toClient, marking, stale, fetch>>
        /\ toServer # <<>> /\ toServer' = Tail(toServer)
    BY <1>9 DEF ServeSocket, screen, caches, server
  <2> QED BY <1>0, <2>1, TailShorter DEF Nearer, SocketFurther
<1> QED BY <1>1, <1>2, <1>3, <1>4, <1>5, <1>6, <1>7, <1>8, <1>9 DEF Progress

LEMMA RestOrOn ==
  ASSUME RestInv
  PROVE  AtRest \/ CanGoOn
<1>1. PhasesOK /\ StaleWaits /\ PostedOK /\ PostTypes
  BY BaseTypes DEF RestInv, BaseInv, TabTypes
<1> SUFFICES ASSUME ~CanGoOn PROVE AtRest
  OBVIOUS
<1>2. /\ \A e \in Entries : fetch[e] = Idle
      /\ \A t \in Topics : marking[t] = Idle
      /\ \A m \in Messages : post[m].stage \notin {"asked", "written"}
      /\ toClient = <<>>
  BY <1>1 DEF CanGoOn, PhasesOK
<1>3. sending = None
  <2> SUFFICES ASSUME sending # None PROVE FALSE
    OBVIOUS
  <2>1. sending \in Messages /\ post[sending].stage = "told"
    BY <1>1, <1>2 DEF PostTypes, PostedOK
  <2>2. post[sending].topic \in Topics
    BY <1>1, <2>1, PostFields
  <2> QED BY <1>2, <2>1, <2>2 DEF CanGoOn
<1>4. stale = {}
  BY <1>1, <1>2, <1>3 DEF StaleWaits, Pending
<1> QED BY <1>2, <1>3, <1>4 DEF AtRest

(* What ShownEventually rests on, besides that what can go on does: while  *)
(* anything is pending, some query, mutation, row or event can go on; the  *)
(* topic on the screen shows exactly its messages, or it is in the gap a   *)
(* failure left, or something can go on; and every step that goes on by    *)
(* itself brings the tab nearer to rest, so left alone it gets there.      *)
THEOREM TabComesToRest ==
  RealtimeSpec =>
    /\ [](/\ AtRest \/ CanGoOn
          /\ topic # None => topic \in gap \/ count[topic] = Once(Content(topic)) \/ CanGoOn)
    /\ [][Progress => Nearer]_realtimeVars
<1>1. RestInv /\ ListsExact =>
        /\ AtRest \/ CanGoOn
        /\ topic # None => topic \in gap \/ count[topic] = Once(Content(topic)) \/ CanGoOn
  <2> SUFFICES ASSUME RestInv, ListsExact, topic # None, AtRest
               PROVE  topic \in gap \/ count[topic] = Once(Content(topic))
    BY RestOrOn
  <2>1. topic \in Topics
    BY DEF RestInv, BaseInv, RealtimeTypeOK
  <2>2. topic \in cached \/ topic \in gap
    BY <2>1 DEF RestInv, TopicHeld, AtRest, Entries
  <2> QED BY <2>1, <2>2 DEF ListsExact
<1>2. RestInv /\ [RealtimeNext]_realtimeVars => [Progress => Nearer]_realtimeVars
  BY ProgressNears
<1>3. RealtimeSpec => [][RealtimeNext]_realtimeVars
  BY DEF RealtimeSpec
<1> QED BY <1>1, <1>2, <1>3, RestInvariance, ListsComeOutExact, PTL

------------------------------------------------------------------------------
(* Unread counts, while nothing fails *)

(* Marking t as read will have m seen.                                     *)
WillSee(t, m) ==
  \/ m \in seen \/ marking[t].phase = "asked"
  \/ marking[t].phase = "served" /\ m \in marking[t].data

(* The tab hears of x after it has heard of m.                             *)
After(x, m) ==
  \/ post[x].stage = "written"
  \/ /\ x \notin processed /\ InToClient(x)
     /\ \A i \in DOMAIN toClient : toClient[i] = x => \E j \in DOMAIN toClient : j < i /\ toClient[j] = m

(* What the user reads is marked as read.                                  *)
ReadsOK ==
  /\ seen \subseteq Written
  /\ \A t \in Topics : marking[t].data \subseteq Listed(t)
  /\ \A m \in Messages \ met : OnTheWay(m) =>
       /\ m \notin seen /\ topic # post[m].topic /\ marking[post[m].topic] = Idle
       /\ \A e \in Badges : fetch[e] = Idle
  /\ topic # None => \A m \in Listed(topic) \ met : WillSee(topic, m)

(* What the user writes is marked as read, with all that came before.      *)
OwnOK(m) ==
  /\ post[m].stage \in {"asked", "written"} => sending = m
  /\ post[m].stage = "told" => sending = m \/ WillSee(post[m].topic, m)
  /\ InToClient(m) /\ m \notin processed /\ sending # m =>
       \A x \in Listed(post[m].topic) \ {m} :
         sending = x \/ WillSee(post[m].topic, x) \/ After(x, m)

OwnsOK == \A m \in Messages : post[m].own => OwnOK(m)

(* The counts of e are fetched again, or a mutation will have them fetched. *)
Renewed(e) ==
  \/ e \in stale \/ fetch[e].phase = "asked" \/ sending # None
  \/ \E t \in Topics : marking[t] # Idle

BadgeOK(e) ==
  ~Renewed(e) => \A m \in Messages \ met :
    /\ fetch[e].phase = "served" => (m \in fetch[e].data <=> m \in Content(e))
    /\ fetch[e] = Idle /\ e \in cached =>
         count[e][m] = IF m \in Content(e) /\ ~OnTheWay(m) THEN 1 ELSE 0

BadgesOK == link /\ ReadsOK /\ OwnsOK /\ \A e \in Badges : BadgeOK(e)

(* What is not a failure.                                                  *)
SmoothStep == Progress \/ Posting \/ LeaveTopic \/ Visit

(* A step that is not a failure, one action at a time.                     *)
LEMMA SmoothCases ==
  ASSUME link, SmoothStep
  PROVE  \/ \E e \in Entries : Serve(e) \/ Settle(e)
         \/ \E m \in Messages : OthersWrite(m) \/ SendMessage(m) \/ WriteMessage(m) \/ Announce(m)
         \/ \E t \in Topics : FindUnread(t) \/ InsertReads(t) \/ MarkSettles(t) \/ SelectTopic(t)
         \/ SendSettles \/ Deliver
         \/ ServeSocket \/ FollowRoom \/ LeaveTopic \/ \E r \in Rooms \union {None} : SelectRoom(r)
BY DEF SmoothStep, Progress, Posting, Visit, Connect

(* What a step that is not a failure does to the rows: what is written     *)
(* stays, and what is new is on its way.                                   *)
RowsGrow ==
  /\ processed \subseteq processed'
  /\ \A m \in Written : /\ m \in Written' /\ post'[m].topic = post[m].topic
                        /\ post'[m].own = post[m].own
  /\ \A m \in Written' \ Written : post'[m].stage = "written"
  /\ \A m \in Messages : OnTheWay(m)' => OnTheWay(m) \/ m \notin Written

(* What it does to the reads: what will be seen is seen in the end, since  *)
(* a call inserts what it has found, and a topic that is selected is asked *)
(* to be marked.                                                           *)
ReadsGrow ==
  /\ seen \subseteq seen'
  /\ \A m \in seen' \ seen : \E t \in Topics : marking[t] # Idle /\ m \in marking[t].data
  /\ \A t \in Topics : marking'[t].data \subseteq Listed(t)
  /\ \A t \in Topics : \A m \in Listed(t) : WillSee(t, m) => WillSee(t, m)'
  /\ topic' \in {topic, None} \/ (topic' \in Topics /\ marking'[topic'].phase = "asked")

LEMMA SmoothRows ==
  ASSUME TabTypes, PostedOK, link, SmoothStep
  PROVE  RowsGrow
<1>0. PostTypes
  BY DEF TabTypes
<1>1. ASSUME UNCHANGED <<post, toClient, processed>>
      PROVE  RowsGrow
  BY <1>1 DEF RowsGrow, Written, OnTheWay, InToClient
<1>2. ASSUME NEW m \in Messages, post[m].stage \in {"free", "asked"}, post'[m].stage \in {"asked", "written"},
             \A x \in Messages : x # m => post'[x] = post[x], UNCHANGED <<toClient, processed>>
      PROVE  RowsGrow
  BY <1>2 DEF RowsGrow, Written, OnTheWay, InToClient
<1>3. ASSUME NEW m \in Messages, OthersWrite(m)
      PROVE  post[m].stage = "free" /\ post'[m].stage = "written"
             /\ (\A x \in Messages : x # m => post'[x] = post[x]) /\ UNCHANGED <<toClient, processed>>
  <2>1. PICK u \in Topics, p \in Messages \union {None} :
          post' = [post EXCEPT ![m] = [stage |-> "written", topic |-> u, parent |-> p, own |-> FALSE]]
    BY <1>3 DEF OthersWrite
  <2> QED BY <1>0, <1>3, <2>1 DEF OthersWrite, NoPost, PostTypes, socket
<1>4. ASSUME NEW m \in Messages, SendMessage(m)
      PROVE  post[m].stage = "free" /\ post'[m].stage = "asked"
             /\ (\A x \in Messages : x # m => post'[x] = post[x]) /\ UNCHANGED <<toClient, processed>>
  <2>1. PICK p \in Messages \union {None} :
          post' = [post EXCEPT ![m] = [stage |-> "asked", topic |-> topic, parent |-> p, own |-> TRUE]]
    BY <1>4 DEF SendMessage
  <2> QED BY <1>0, <1>4, <2>1 DEF SendMessage, NoPost, PostTypes, socket
<1>5. ASSUME NEW m \in Messages, WriteMessage(m)
      PROVE  post[m].stage = "asked" /\ post'[m].stage = "written"
             /\ (\A x \in Messages : x # m => post'[x] = post[x]) /\ UNCHANGED <<toClient, processed>>
  <2>1. post[m].stage = "asked" /\ post' = [post EXCEPT ![m].stage = "written"]
    BY <1>5 DEF WriteMessage
  <2> QED BY <1>0, <1>5, <2>1, Restaged DEF WriteMessage, socket
<1>6. ASSUME NEW m \in Messages, Announce(m)
      PROVE  RowsGrow
  <2>1. post[m].stage = "written" /\ post' = [post EXCEPT ![m].stage = "told"] /\ processed' = processed
    BY <1>6 DEF Announce
  <2>2. /\ post'[m].stage = "told" /\ post'[m].topic = post[m].topic /\ post'[m].own = post[m].own
        /\ \A x \in Messages : x # m => post'[x] = post[x]
    BY <1>0, <2>1, Restaged
  <2>3. \A x \in Messages : OnTheWay(x)' => OnTheWay(x)
    BY <1>6, <2>1, <2>2, AnnouncedEvents DEF OnTheWay, InToClient
  <2> QED BY <2>1, <2>2, <2>3 DEF RowsGrow, Written
<1>7. CASE Deliver
  <2>1. post' = post /\ processed \subseteq processed'
    BY <1>7 DEF Deliver, server
  <2>2. \A x \in Messages : OnTheWay(x)' => OnTheWay(x)
    BY <1>7, <2>1, DeliveredEvents DEF OnTheWay, InToClient
  <2> QED BY <2>1, <2>2, SameRows DEF RowsGrow
<1>8. ASSUME NEW e \in Entries, Serve(e) \/ Settle(e) PROVE UNCHANGED <<post, toClient, processed>>
  BY <1>8 DEF Serve, Settle, server, socket
<1>9. ASSUME NEW t \in Topics, FindUnread(t) \/ InsertReads(t) \/ MarkSettles(t) \/ SelectTopic(t)
      PROVE  UNCHANGED <<post, toClient, processed>>
  BY <1>9 DEF FindUnread, InsertReads, MarkSettles, SelectTopic, server, socket
<1>10. ASSUME SendSettles \/ ServeSocket \/ FollowRoom \/ LeaveTopic \/ \E r \in Rooms \union {None} : SelectRoom(r)
       PROVE  UNCHANGED <<post, toClient, processed>>
  BY <1>10 DEF SendSettles, ServeSocket, FollowRoom, LeaveTopic, SelectRoom, server, socket
<1>11. ASSUME NEW m \in Messages, OthersWrite(m) \/ SendMessage(m) \/ WriteMessage(m)
       PROVE  RowsGrow
  BY <1>2, <1>3, <1>4, <1>5, <1>11
<1> QED BY <1>1, <1>6, <1>7, <1>8, <1>9, <1>10, <1>11, SmoothCases

LEMMA SmoothReads ==
  ASSUME TabTypes, PostedOK, link, SmoothStep, seen \subseteq Written,
         \A t \in Topics : marking[t].data \subseteq Listed(t)
  PROVE  ReadsGrow
<1>0. marking \in [Topics -> Calls] /\ topic \in Topics \union {None}
  BY DEF TabTypes, PostTypes, ScreenTypes
<1>1. ASSUME UNCHANGED <<seen, marking>>, topic' \in {topic, None}
      PROVE  ReadsGrow
  BY <1>1 DEF ReadsGrow, WillSee
<1>2. ASSUME NEW u \in Topics, marking[u] = Idle, marking' = [marking EXCEPT ![u] = Asked],
             seen' = seen, topic' \in {topic, None, u}
      PROVE  ReadsGrow
  <2>1. marking'[u] = Asked /\ \A t \in Topics : t # u => marking'[t] = marking[t]
    BY <1>0, <1>2
  <2> QED BY <1>2, <2>1, CallFields DEF ReadsGrow, WillSee
<1>3. ASSUME NEW u \in Topics, FindUnread(u)
      PROVE  ReadsGrow
  <2>1. seen' = seen /\ topic' = topic
    BY <1>3 DEF FindUnread, server, screen
  <2>2. \A t \in Topics : t # u => marking'[t] = marking[t]
    BY <1>0, <1>3 DEF FindUnread
  <2>3. marking'[u].phase = "served" /\ marking'[u].data = Listed(u) \ seen
    BY <1>0, <1>3 DEF FindUnread, Listed
  <2> QED BY <2>1, <2>2, <2>3 DEF ReadsGrow, WillSee
<1>4. ASSUME NEW u \in Topics, InsertReads(u)
      PROVE  ReadsGrow
  <2>1. seen' = seen \union marking[u].data /\ topic' = topic /\ marking[u].phase = "served"
    BY <1>4 DEF InsertReads, screen
  <2>2. marking'[u].data = {} /\ \A t \in Topics : t # u => marking'[t] = marking[t]
    BY <1>0, <1>4 DEF InsertReads
  <2>3. marking[u] # Idle
    BY <2>1, CallFields
  <2> QED BY <2>1, <2>2, <2>3 DEF ReadsGrow, WillSee
<1>5. ASSUME NEW u \in Topics, MarkSettles(u)
      PROVE  ReadsGrow
  <2>1. seen' = seen /\ topic' = topic /\ marking[u].phase = "written"
    BY <1>5 DEF MarkSettles, server, screen
  <2>2. marking'[u] = Idle /\ \A t \in Topics : t # u => marking'[t] = marking[t]
    BY <1>0, <1>5 DEF MarkSettles
  <2> QED BY <2>1, <2>2, CallFields DEF ReadsGrow, WillSee
<1>6. CASE SendSettles
  <2>1. /\ sending \in Messages /\ post[sending].stage = "told"
    BY <1>6 DEF SendSettles, TabTypes, PostTypes
  <2>2. post[sending].topic \in Topics
    BY <2>1, PostFields DEF TabTypes
  <2>3. marking[post[sending].topic] = Idle /\ marking' = [marking EXCEPT ![post[sending].topic] = Asked]
    BY <1>6 DEF SendSettles
  <2>4. seen' = seen /\ topic' = topic
    BY <1>6 DEF SendSettles, server, screen
  <2> DEFINE u == post[sending].topic
  <2>5. marking[u] = Idle /\ marking' = [marking EXCEPT ![u] = Asked] /\ u \in Topics
    BY <2>2, <2>3
  <2> HIDE DEF u
  <2> QED BY <1>2, <2>4, <2>5
<1>7. ASSUME NEW t \in Topics, SelectTopic(t)
      PROVE  marking[t] = Idle /\ marking' = [marking EXCEPT ![t] = Asked] /\ seen' = seen /\ topic' = t
  BY <1>7 DEF SelectTopic, server
<1>8. ASSUME NEW e \in Entries, Serve(e) \/ Settle(e)
      PROVE  UNCHANGED <<seen, marking>> /\ topic' \in {topic, None}
  BY <1>8 DEF Serve, Settle, server, screen
<1>9. ASSUME NEW m \in Messages, OthersWrite(m) \/ SendMessage(m) \/ WriteMessage(m) \/ Announce(m)
      PROVE  UNCHANGED <<seen, marking>> /\ topic' \in {topic, None}
  BY <1>9 DEF OthersWrite, SendMessage, WriteMessage, Announce, screen
<1>10. ASSUME Deliver \/ ServeSocket \/ FollowRoom \/ LeaveTopic \/ \E r \in Rooms \union {None} : SelectRoom(r)
       PROVE  UNCHANGED <<seen, marking>> /\ topic' \in {topic, None}
  BY <1>10 DEF Deliver, ServeSocket, FollowRoom, LeaveTopic, SelectRoom, server, screen
<1>11. (\E t \in Topics : SelectTopic(t)) => ReadsGrow
  BY <1>2, <1>7
<1> QED BY <1>1, <1>3, <1>4, <1>5, <1>6, <1>8, <1>9, <1>10, <1>11, SmoothCases

(* What is on its way and has met nothing has no query and no visit to     *)
(* meet in this step either.                                               *)
LEMMA WatchFacts ==
  ASSUME TabTypes', PostedOK', processed \subseteq processed', Watch,
         NEW m \in Messages \ met', OnTheWay(m)'
  PROVE  /\ m \notin met /\ post'[m].topic \in Topics
         /\ post'[m].topic # topic /\ post'[m].topic # topic'
         /\ marking[post'[m].topic] = Idle /\ marking'[post'[m].topic] = Idle
         /\ \A e \in Badges : fetch[e] = Idle /\ fetch'[e] = Idle
<1>1. m \notin processed /\ (post'[m].stage = "written" \/ InToClient(m)')
  BY DEF OnTheWay, PostedOK
<1>2. post'[m].stage # "free"
  BY <1>1 DEF PostedOK, InToClient
<1>3. post'[m].topic \in Topics
  <2>1. post'[m] \in Posts \union {NoPost}
    BY DEF TabTypes, PostTypes
  <2>2. post'[m] \in Posts
    BY <1>2, <2>1 DEF NoPost
  <2> QED BY <2>2 DEF Posts
<1> DEFINE meets == \/ \E e \in Badges : fetch[e] # Idle \/ fetch'[e] # Idle
                    \/ post'[m].topic \in {topic, topic'}
                    \/ \E t \in Topics : t = post'[m].topic /\ (marking[t] # Idle \/ marking'[t] # Idle)
<1>4. m \notin met /\ ~meets
  BY <1>1 DEF Watch, InToClient
<1> QED BY <1>3, <1>4

LEMMA ReadsStep ==
  ASSUME TabTypes, TabTypes', PostedOK, PostedOK', link, ReadsOK, SmoothStep, Watch
  PROVE  ReadsOK'
<1>0. RowsGrow /\ ReadsGrow /\ seen \subseteq Written /\ \A t \in Topics : marking[t].data \subseteq Listed(t)
  BY SmoothRows, SmoothReads DEF ReadsOK
<1>1. \A t \in Topics : Listed(t) \subseteq Listed(t)'
  BY <1>0 DEF RowsGrow, Listed, In, Written
<1>2. \A m \in Messages : m \in Written' \ Written => OnTheWay(m)'
  BY <1>0 DEF RowsGrow, OnTheWay
<1>3. seen' \subseteq Written'
  <2> SUFFICES ASSUME NEW m \in seen' PROVE m \in Written'
    OBVIOUS
  <2>1. m \in Written
    BY <1>0 DEF ReadsGrow, Listed
  <2> QED BY <1>0, <2>1 DEF RowsGrow
<1>4. \A t \in Topics : marking'[t].data \subseteq Listed(t)'
  BY <1>0, <1>1 DEF ReadsGrow
<1>5. ASSUME NEW m \in Messages \ met', OnTheWay(m)'
      PROVE  /\ m \notin seen' /\ topic' # post'[m].topic /\ marking'[post'[m].topic] = Idle
             /\ \A e \in Badges : fetch'[e] = Idle
  <2>1. /\ m \notin met /\ topic' # post'[m].topic /\ marking'[post'[m].topic] = Idle
        /\ marking[post'[m].topic] = Idle /\ \A e \in Badges : fetch'[e] = Idle
    BY <1>0, <1>5, WatchFacts DEF RowsGrow
  <2>2. m \notin seen
    BY <1>0, <1>5, <2>1 DEF RowsGrow, ReadsOK
  <2>3. m \notin seen'
    <3> SUFFICES ASSUME m \in seen' PROVE FALSE
      OBVIOUS
    <3>1. PICK t \in Topics : marking[t] # Idle /\ m \in marking[t].data
      BY <2>2 , <1>0 DEF ReadsGrow
    <3>2. m \in Written /\ post[m].topic = t
      BY <1>0, <3>1 DEF Listed, In
    <3>3. post'[m].topic = t
      BY <1>0, <3>2 DEF RowsGrow
    <3> QED BY <2>1, <3>1, <3>3
  <2> QED BY <2>1, <2>3
<1>6. ASSUME topic' # None, NEW m \in Listed(topic)' \ met' PROVE WillSee(topic, m)'
  <2>1. m \in Written' /\ post'[m].topic = topic' /\ m \in Messages
    BY DEF Listed, In, Written
  <2>2. m \in Written
    BY <1>2, <1>5, <2>1
  <2>3. CASE topic' \in Topics /\ marking'[topic'].phase = "asked"
    BY <2>3 DEF WillSee
  <2>4. CASE topic' = topic
    <3>1. topic \in Topics /\ m \in Listed(topic) /\ m \notin met
      BY <1>0, <1>6, <2>1, <2>2, <2>4 DEF RowsGrow, Listed, In, Watch, TabTypes, ScreenTypes
    <3>2. WillSee(topic, m)
      BY <1>6, <2>4, <3>1 DEF ReadsOK
    <3> DEFINE t == topic
    <3>3. t \in Topics /\ m \in Listed(t) /\ WillSee(t, m) /\ t = topic'
      BY <2>4, <3>1, <3>2
    <3> HIDE DEF t
    <3>4. \/ m \in seen' \/ marking'[t].phase = "asked"
          \/ marking'[t].phase = "served" /\ m \in marking'[t].data
      BY <1>0, <3>3 DEF ReadsGrow, WillSee
    <3> QED BY <3>3, <3>4 DEF WillSee
  <2> QED BY <1>0, <1>6, <2>3, <2>4 DEF ReadsGrow
<1> QED BY <1>3, <1>4, <1>5, <1>6 DEF ReadsOK

LEMMA OwnAfter ==
  ASSUME NEW m \in Messages, NEW t \in Topics, t = post'[m].topic,
         post'[m].stage \in {"asked", "written"} => sending' = m,
         post'[m].stage = "told" => sending' = m \/ WillSee(t, m)',
         InToClient(m)' /\ m \notin processed' /\ sending' # m =>
           \A x \in Listed(t)' \ {m} : sending' = x \/ WillSee(t, x)' \/ After(x, m)'
  PROVE  OwnOK(m)'
BY DEF OwnOK, Listed, In, WillSee

LEMMA OwnsAfter ==
  ASSUME TabTypes',
         \A m \in Messages, t \in Topics : post'[m].own /\ t = post'[m].topic => OwnOK(m)'
  PROVE  OwnsOK'
<1> SUFFICES ASSUME NEW m \in Messages, post'[m].own PROVE OwnOK(m)'
  BY DEF OwnsOK
<1>1. post'[m] \in Posts \union {NoPost}
  BY DEF TabTypes, PostTypes
<1>2. post'[m].topic \in Topics
  BY <1>1 DEF Posts, NoPost
<1> QED BY <1>2

(* What the user writes: nothing else of the user is on its way meanwhile, *)
(* and the socket brings it in the order of the announcements.             *)
LEMMA OwnsStep ==
  ASSUME TabTypes, TabTypes', PostedOK, link, ReadsOK, OwnsOK, SmoothStep
  PROVE  OwnsOK'
<1>0. /\ RowsGrow /\ ReadsGrow /\ PostTypes /\ None \notin Messages
      /\ \A t \in Topics : \A x \in Listed(t) : WillSee(t, x) => WillSee(t, x)'
  BY RealtimeAssumption, SmoothRows, SmoothReads DEF TabTypes, ReadsOK, ReadsGrow
<1>1. ASSUME NEW m \in Messages, post[m].own, post[m].stage # "free"
      PROVE  /\ post[m].topic \in Topics /\ OwnOK(m)
             /\ post[m].stage = "told" => m \in Listed(post[m].topic)
  BY <1>0, <1>1, PostFields DEF OwnsOK, Listed, In, Written
<1>2. ASSUME NEW m \in Messages, post[m].own PROVE post[m].stage # "free"
  <2>1. post[m] \in Posts \union {NoPost} /\ ~NoPost.own
    BY <1>0, PostFields DEF NoPost
  <2>2. post[m] # NoPost
    BY <1>2, <2>1
  <2> QED BY <1>0, <2>1, <2>2, PostFields
<1>3. ASSUME UNCHANGED <<post, toClient, processed, sending>> PROVE OwnsOK'
  <2> SUFFICES ASSUME NEW m \in Messages, NEW t \in Topics, post'[m].own, t = post'[m].topic
               PROVE  OwnOK(m)'
    BY OwnsAfter
  <2>1. /\ OwnOK(m) /\ post[m].topic = t
        /\ post[m].stage = "told" => m \in Listed(t)
    BY <1>1, <1>2, <1>3
  <2>2. Listed(t)' = Listed(t) /\ \A x \in Messages : After(x, m)' <=> After(x, m)
    BY <1>3, <2>1, SameRows DEF After, InToClient
  <2>3. \A x \in Listed(t) : x \in Messages
    BY DEF Listed, In
  <2>4. /\ post'[m].stage \in {"asked", "written"} => sending' = m
        /\ post'[m].stage = "told" => sending' = m \/ WillSee(t, m)'
    BY <1>0, <1>3, <2>1 DEF OwnOK
  <2>5. InToClient(m)' /\ m \notin processed' /\ sending' # m =>
           \A x \in Listed(t)' \ {m} : sending' = x \/ WillSee(t, x)' \/ After(x, m)'
    BY <1>0, <1>3, <2>1, <2>2, <2>3 DEF OwnOK, InToClient
  <2> QED BY <2>1, <2>4, <2>5, OwnAfter
<1>4. ASSUME NEW n \in Messages, OthersWrite(n) PROVE OwnsOK'
  <2>1. PICK u \in Topics, p \in Messages \union {None} :
          post' = [post EXCEPT ![n] = [stage |-> "written", topic |-> u, parent |-> p, own |-> FALSE]]
    BY <1>4 DEF OthersWrite
  <2> DEFINE q == [stage |-> "written", topic |-> u, parent |-> p, own |-> FALSE]
  <2>2. q \in Posts /\ q.stage = "written" /\ q.own = FALSE
    BY DEF Posts
  <2>3. post[n] = NoPost /\ post' = [post EXCEPT ![n] = q] /\ UNCHANGED <<processed, toClient, sending>>
    BY <1>4, <2>1 DEF OthersWrite, socket
  <2> HIDE DEF q
  <2>4. post'[n] = q /\ \A x \in Messages : x # n => post'[x] = post[x]
    BY <2>2, <2>3, NewRow
  <2> SUFFICES ASSUME NEW m \in Messages, NEW t \in Topics, post'[m].own, t = post'[m].topic
               PROVE  OwnOK(m)'
    BY OwnsAfter
  <2>5. m # n /\ post'[m] = post[m]
    BY <2>2, <2>4
  <2>6. /\ OwnOK(m) /\ post[m].topic = t
        /\ post[m].stage = "told" => m \in Listed(t)
    BY <1>1, <1>2, <2>5
  <2>7. ASSUME NEW x \in Listed(t)', x # n PROVE x \in Listed(t) /\ (After(x, m) => After(x, m)')
    BY <2>3, <2>4, <2>7 DEF Listed, In, Written, After, InToClient
  <2>8. After(n, m)'
    BY <2>2, <2>4 DEF After
  <2>9. /\ post'[m].stage \in {"asked", "written"} => sending' = m
        /\ post'[m].stage = "told" => sending' = m \/ WillSee(t, m)'
    BY <1>0, <2>3, <2>5, <2>6 DEF OwnOK
  <2>10. InToClient(m)' /\ m \notin processed' /\ sending' # m =>
           \A x \in Listed(t)' \ {m} : sending' = x \/ WillSee(t, x)' \/ After(x, m)'
    BY <1>0, <2>3, <2>6, <2>7, <2>8 DEF OwnOK, InToClient
  <2> QED BY <2>6, <2>9, <2>10, OwnAfter
<1>5. ASSUME NEW n \in Messages, SendMessage(n) PROVE OwnsOK'
  <2>1. PICK p \in Messages \union {None} :
          post' = [post EXCEPT ![n] = [stage |-> "asked", topic |-> topic, parent |-> p, own |-> TRUE]]
    BY <1>5 DEF SendMessage
  <2> DEFINE q == [stage |-> "asked", topic |-> topic, parent |-> p, own |-> TRUE]
  <2>2. topic \in Topics
    BY <1>5 DEF SendMessage, TabTypes, ScreenTypes
  <2>3. q \in Posts /\ q.stage = "asked" /\ q.topic = topic
    BY <2>2 DEF Posts
  <2>4. /\ post[n] = NoPost /\ post' = [post EXCEPT ![n] = q]
        /\ UNCHANGED <<processed, toClient>> /\ sending = None /\ sending' = n
    BY <1>5, <2>1 DEF SendMessage, socket
  <2> HIDE DEF q
  <2>5. post'[n] = q /\ (\A x \in Messages : x # n => post'[x] = post[x]) /\ ~InToClient(n)
    BY <2>3, <2>4, NewRow
  <2> SUFFICES ASSUME NEW m \in Messages, NEW t \in Topics, post'[m].own, t = post'[m].topic
               PROVE  OwnOK(m)'
    BY OwnsAfter
  <2>6. CASE m = n
    BY <2>3, <2>4, <2>5, <2>6 DEF OwnOK
  <2>7. CASE m # n
    <3>1. /\ OwnOK(m) /\ post[m].topic = t /\ post'[m] = post[m]
          /\ post[m].stage = "told" => m \in Listed(t)
      BY <1>1, <1>2, <2>5, <2>7
    <3>2. ASSUME NEW x \in Listed(t)' PROVE x \in Listed(t) /\ (After(x, m) => After(x, m)')
      BY <2>3, <2>4, <2>5, <3>2 DEF Listed, In, Written, After, InToClient
    <3>3. /\ post'[m].stage \notin {"asked", "written"}
          /\ post'[m].stage = "told" => WillSee(t, m)'
      BY <1>0, <2>4, <3>1 DEF OwnOK
    <3>4. InToClient(m)' /\ m \notin processed' /\ sending' # m =>
             \A x \in Listed(t)' \ {m} : sending' = x \/ WillSee(t, x)' \/ After(x, m)'
      <4> SUFFICES ASSUME InToClient(m)', m \notin processed', NEW x \in Listed(t)' \ {m}
                   PROVE  WillSee(t, x)' \/ After(x, m)'
        OBVIOUS
      <4>1. x \in Listed(t) /\ (After(x, m) => After(x, m)') /\ x \in Messages
        BY <3>2 DEF Listed, In
      <4>2. WillSee(t, x) \/ After(x, m)
        BY <1>0, <2>4, <3>1, <4>1 DEF OwnOK, InToClient
      <4> QED BY <1>0, <3>1, <4>1, <4>2
    <3> QED BY <3>1, <3>3, <3>4, OwnAfter
  <2> QED BY <2>6, <2>7
<1>6. ASSUME NEW n \in Messages, WriteMessage(n) PROVE OwnsOK'
  <2>1. /\ post[n].stage = "asked" /\ post' = [post EXCEPT ![n].stage = "written"]
        /\ UNCHANGED <<processed, toClient, sending>>
    BY <1>6 DEF WriteMessage, socket
  <2>2. /\ post'[n].stage = "written" /\ post'[n].topic = post[n].topic /\ post'[n].own = post[n].own
        /\ \A x \in Messages : x # n => post'[x] = post[x]
    BY <1>0, <2>1, Restaged
  <2> SUFFICES ASSUME NEW m \in Messages, NEW t \in Topics, post'[m].own, t = post'[m].topic
               PROVE  OwnOK(m)'
    BY OwnsAfter
  <2>3. /\ OwnOK(m) /\ post[m].topic = t
        /\ post[m].stage = "told" => m \in Listed(t)
    BY <1>1, <1>2, <2>2
  <2>4. ASSUME NEW x \in Listed(t)', x # n PROVE x \in Listed(t) /\ (After(x, m) => After(x, m)')
    BY <2>1, <2>2, <2>4 DEF Listed, In, Written, After, InToClient
  <2>5. After(n, m)'
    BY <2>2 DEF After
  <2>6. /\ post'[m].stage \in {"asked", "written"} => sending' = m
        /\ post'[m].stage = "told" => sending' = m \/ WillSee(t, m)'
    BY <1>0, <2>1, <2>2, <2>3 DEF OwnOK
  <2>7. InToClient(m)' /\ m \notin processed' /\ sending' # m =>
           \A x \in Listed(t)' \ {m} : sending' = x \/ WillSee(t, x)' \/ After(x, m)'
    BY <1>0, <2>1, <2>3, <2>4, <2>5 DEF OwnOK, InToClient
  <2> QED BY <2>3, <2>6, <2>7, OwnAfter
<1>7. ASSUME NEW n \in Messages, Announce(n) PROVE OwnsOK'
  <2>1. /\ post[n].stage = "written" /\ post' = [post EXCEPT ![n].stage = "told"]
        /\ UNCHANGED <<processed, sending>>
    BY <1>7 DEF Announce
  <2>2. /\ post'[n].stage = "told" /\ post'[n].topic = post[n].topic /\ post'[n].own = post[n].own
        /\ \A x \in Messages : x # n => post'[x] = post[x]
    BY <1>0, <2>1, Restaged
  <2>3. n \notin processed /\ ~InToClient(n) /\ (post[n].own => sending = n)
    BY <1>1, <2>1 DEF PostedOK, InToClient, OwnOK
  <2> SUFFICES ASSUME NEW m \in Messages, NEW t \in Topics, post'[m].own, t = post'[m].topic
               PROVE  OwnOK(m)'
    BY OwnsAfter
  <2>4. /\ OwnOK(m) /\ post[m].topic = t
        /\ post[m].stage = "told" => m \in Listed(t)
    BY <1>1, <1>2, <2>2
  <2>5. /\ post'[m].stage \in {"asked", "written"} => sending' = m
        /\ post'[m].stage = "told" => sending' = m \/ WillSee(t, m)'
    BY <1>0, <2>1, <2>2, <2>3, <2>4 DEF OwnOK
  <2>6. ASSUME InToClient(m)', m \notin processed', sending' # m, NEW x \in Listed(t)' \ {m}
        PROVE  sending' = x \/ WillSee(t, x)' \/ After(x, m)'
    <3>1. m # n /\ InToClient(m)
      BY <1>7, <2>1, <2>2, <2>3, <2>6, AnnouncedEvents DEF InToClient
    <3>2. x \in Listed(t) /\ x \in Messages
      BY <1>0, <2>1, <2>2, <2>6 DEF Listed, In, Written
    <3>3. CASE x # n
      <4>1. sending = x \/ WillSee(t, x) \/ After(x, m)
        BY <2>1, <2>4, <2>6, <3>1, <3>2 DEF OwnOK
      <4>2. After(x, m) => After(x, m)'
        <5> SUFFICES ASSUME After(x, m), post[x].stage # "written" PROVE After(x, m)'
          BY <2>2, <3>2, <3>3 DEF After
        <5>1. /\ x \notin processed /\ InToClient(x)
              /\ \A i \in DOMAIN toClient : toClient[i] = x => \E j \in DOMAIN toClient : j < i /\ toClient[j] = m
          BY DEF After
        <5>2. InToClient(x)'
          BY <1>7, <5>1, AnnouncedEvents DEF InToClient
        <5>3. \A i \in DOMAIN toClient' : toClient'[i] = x => \E j \in DOMAIN toClient' : j < i /\ toClient'[j] = m
          BY <1>7, <3>3, <5>1, AnnouncedEvents
        <5> QED BY <2>1, <5>1, <5>2, <5>3 DEF After
      <4> QED BY <1>0, <2>1, <2>4, <3>2, <4>1, <4>2
    <3>4. CASE x = n
      <4>1. CASE post[n].own
        BY <2>1, <2>3, <3>4, <4>1
      <4>2. CASE ~post[n].own
        <5>1. InToClient(n)'
          BY <1>7, <4>2, AnnouncedEvents DEF InToClient
        <5>2. PICK j \in DOMAIN toClient : toClient[j] = m
          BY <3>1 DEF InToClient
        <5>3. j \in DOMAIN toClient' /\ toClient'[j] = m
          BY <1>7, <5>2, AnnouncedEvents
        <5>4. \A i \in DOMAIN toClient' : toClient'[i] = n => j < i
          BY <1>7, <2>3, <5>2, AnnouncedEvents DEF InToClient
        <5> QED BY <2>1, <2>3, <3>4, <5>1, <5>3, <5>4 DEF After
      <4> QED BY <4>1, <4>2
    <3> QED BY <3>3, <3>4
  <2> QED BY <2>4, <2>5, <2>6, OwnAfter
<1>8. CASE SendSettles
  <2>0. PICK n \in Messages : n = sending
    BY <1>0, <1>8 DEF SendSettles, PostTypes
  <2>1. /\ post[n].stage = "told" /\ sending' = None /\ UNCHANGED <<post, toClient, processed>>
    BY <1>8, <2>0 DEF SendSettles, server, socket
  <2>2. PICK u \in Topics : u = post[n].topic
    BY <1>0, <2>1, PostFields
  <2>3. marking' = [marking EXCEPT ![u] = Asked]
    BY <1>8, <2>0, <2>2 DEF SendSettles
  <2>4. marking'[u].phase = "asked"
    BY <1>0, <2>2, <2>3, CallFields DEF PostTypes
  <2>5. \A x \in Messages : WillSee(u, x)'
    BY <2>4 DEF WillSee
  <2> SUFFICES ASSUME NEW m \in Messages, NEW t \in Topics, post'[m].own, t = post'[m].topic
               PROVE  OwnOK(m)'
    BY OwnsAfter
  <2>6. /\ OwnOK(m) /\ post[m].topic = t
        /\ post[m].stage = "told" => m \in Listed(t)
    BY <1>1, <1>2, <2>1
  <2>7. Listed(t)' = Listed(t) /\ \A x \in Messages : After(x, m)' <=> After(x, m)
    BY <2>1, <2>6, SameRows DEF After, InToClient
  <2>8. \A x \in Listed(t) : x \in Messages /\ post[x].topic = t
    BY DEF Listed, In
  <2>9. m = n => t = u
    BY <2>2, <2>6
  <2>10. n \in Listed(t) => t = u
    BY <2>2, <2>8
  <2>11. CASE t = u
    <3>1. post'[m].stage \notin {"asked", "written"}
      BY <2>0, <2>1, <2>6 DEF OwnOK
    <3> QED BY <2>1, <2>5, <2>6, <2>7, <2>8, <2>11, <3>1, OwnAfter
  <2>12. CASE t # u
    <3>1. n # m /\ n \notin Listed(t)
      BY <2>9, <2>10, <2>12
    <3>2. /\ post'[m].stage \notin {"asked", "written"}
          /\ post'[m].stage = "told" => WillSee(t, m)'
      BY <1>0, <2>0, <2>1, <2>6, <3>1 DEF OwnOK
    <3>3. InToClient(m)' /\ m \notin processed' /\ sending' # m =>
             \A x \in Listed(t)' \ {m} : sending' = x \/ WillSee(t, x)' \/ After(x, m)'
      BY <1>0, <2>0, <2>1, <2>6, <2>7, <2>8, <3>1 DEF OwnOK, InToClient
    <3> QED BY <2>6, <3>2, <3>3, OwnAfter
  <2> QED BY <2>11, <2>12
<1>9. CASE Deliver
  <2> DEFINE h == Head(toClient)
  <2>1. /\ UNCHANGED <<post, sending>> /\ (processed' = processed \/ processed' = processed \union {h})
        /\ h \in processed'
    BY <1>9 DEF Deliver, server, Fresh
  <2>2. 1 \in DOMAIN toClient /\ h = toClient[1] /\ h \in Messages
    BY <1>9, DeliveredEvents
  <2> HIDE DEF h
  <2> SUFFICES ASSUME NEW m \in Messages, NEW t \in Topics, post'[m].own, t = post'[m].topic
               PROVE  OwnOK(m)'
    BY OwnsAfter
  <2>3. /\ OwnOK(m) /\ post[m].topic = t
        /\ post[m].stage = "told" => m \in Listed(t)
    BY <1>1, <1>2, <2>1
  <2>4. Listed(t)' = Listed(t)
    BY <2>1, <2>3, SameRows
  <2>5. /\ post'[m].stage \in {"asked", "written"} => sending' = m
        /\ post'[m].stage = "told" => sending' = m \/ WillSee(t, m)'
    BY <1>0, <2>1, <2>3 DEF OwnOK
  <2>6. ASSUME InToClient(m)', m \notin processed', sending' # m, NEW x \in Listed(t)' \ {m}
        PROVE  sending' = x \/ WillSee(t, x)' \/ After(x, m)'
    <3>1. InToClient(m) /\ m \notin processed /\ m # h /\ x \in Listed(t) /\ x \in Messages
      BY <1>9, <2>1, <2>4, <2>6, DeliveredEvents DEF InToClient, Listed, In
    <3>2. sending = x \/ WillSee(t, x) \/ After(x, m)
      BY <2>1, <2>3, <2>6, <3>1 DEF OwnOK
    <3>3. After(x, m) => After(x, m)'
      <4> SUFFICES ASSUME After(x, m), post[x].stage # "written" PROVE After(x, m)'
        BY <2>1 DEF After
      <4>1. /\ x \notin processed /\ InToClient(x)
            /\ \A i \in DOMAIN toClient : toClient[i] = x => \E j \in DOMAIN toClient : j < i /\ toClient[j] = m
        BY DEF After
      <4>2. \A j \in DOMAIN toClient : j \in Nat /\ ~(j < 1)
        BY <1>9 DEF TabTypes, SocketTypes
      <4>3. x # h
        BY <2>2, <4>1, <4>2
      <4>4. x \notin processed' /\ InToClient(x)'
        BY <1>9, <2>1, <2>2, <4>1, <4>3, DeliveredEvents DEF InToClient
      <4>5. ASSUME NEW i \in DOMAIN toClient', toClient'[i] = x
            PROVE  \E j \in DOMAIN toClient' : j < i /\ toClient'[j] = m
        <5>1. i + 1 \in DOMAIN toClient /\ toClient[i + 1] = x
          BY <1>9, <4>5, DeliveredEvents
        <5>2. PICK j \in DOMAIN toClient : j < i + 1 /\ toClient[j] = m
          BY <4>1, <5>1
        <5>3. j # 1
          BY <2>2, <3>1, <5>2
        <5>4. j - 1 \in DOMAIN toClient' /\ toClient'[j - 1] = m
          BY <1>9, <5>2, <5>3, DeliveredEvents
        <5>5. i \in Nat /\ j \in Nat
          <6>1. toClient' \in Seq(Messages)
            BY <1>9 DEF Deliver, TabTypes, SocketTypes
          <6>2. DOMAIN toClient' \subseteq Nat
            BY <6>1
          <6> QED BY <4>2, <5>2, <6>2
        <5>6. j - 1 < i
          BY <5>2, <5>5
        <5> QED BY <5>4, <5>6
      <4> QED BY <4>4, <4>5 DEF After
    <3> QED BY <1>0, <2>1, <2>3, <3>1, <3>2, <3>3
  <2> QED BY <2>3, <2>5, <2>6, OwnAfter
<1>10. ASSUME NEW e \in Entries, Serve(e) \/ Settle(e) PROVE OwnsOK'
  BY <1>3, <1>10 DEF Serve, Settle, server, socket
<1>11. ASSUME NEW t \in Topics, FindUnread(t) \/ InsertReads(t) \/ MarkSettles(t) \/ SelectTopic(t)
       PROVE  OwnsOK'
  BY <1>3, <1>11 DEF FindUnread, InsertReads, MarkSettles, SelectTopic, server, socket
<1>12. ASSUME ServeSocket \/ FollowRoom \/ LeaveTopic \/ \E r \in Rooms \union {None} : SelectRoom(r)
       PROVE  OwnsOK'
  BY <1>3, <1>12 DEF ServeSocket, FollowRoom, LeaveTopic, SelectRoom, server, socket
<1> QED BY <1>4, <1>5, <1>6, <1>7, <1>8, <1>9, <1>10, <1>11, <1>12, SmoothCases

(* The counts of one entry of getRooms or getTopics: a query and the       *)
(* events that it meets are told apart by met, and an event that is new to *)
(* the tab adds one to the counts of the rooms where it is unread.         *)
LEMMA BadgeKept ==
  ASSUME NEW e \in Badges, BadgeOK(e),
         ~Renewed(e)' => ~Renewed(e),
         met \subseteq met',
         \A m \in Messages \ met' : (m \in Content(e)' <=> m \in Content(e)),
         \A m \in Messages \ met' : (OnTheWay(m)' <=> OnTheWay(m)),
         fetch'[e] = fetch[e], count'[e] = count[e], e \in cached' => e \in cached
  PROVE  BadgeOK(e)'
<1> SUFFICES ASSUME ~Renewed(e)', NEW m \in Messages \ met'
             PROVE  /\ fetch'[e].phase = "served" => (m \in fetch'[e].data <=> m \in Content(e)')
                    /\ fetch'[e] = Idle /\ e \in cached' =>
                         count'[e][m] = IF m \in Content(e)' /\ ~OnTheWay(m)' THEN 1 ELSE 0
  BY DEF BadgeOK
<1>1. ~Renewed(e) /\ m \in Messages \ met
  OBVIOUS
<1> QED BY <1>1 DEF BadgeOK

(* An invalidation leaves counts to be fetched again, or what they were.   *)
LEMMA BadgeAfter ==
  ASSUME NEW e \in Badges, NEW E, NEW f \in [Entries -> Calls], NEW k, NEW c, NEW mk, NEW sd,
         Invalidate(E, f, k, c, mk, sd),
         /\ e \notin stale \union E /\ f[e].phase # "asked" /\ sending' = None
         /\ \A t \in Topics : marking'[t] = Idle
         => \A m \in Messages \ met' :
              /\ f[e].phase = "served" => (m \in f[e].data <=> m \in Content(e)')
              /\ f[e] = Idle /\ e \in k => c[e][m] = IF m \in Content(e)' /\ ~OnTheWay(m)' THEN 1 ELSE 0
  PROVE  BadgeOK(e)'
<1> SUFFICES ASSUME ~Renewed(e)', NEW m \in Messages \ met'
             PROVE  /\ fetch'[e].phase = "served" => (m \in fetch'[e].data <=> m \in Content(e)')
                    /\ fetch'[e] = Idle /\ e \in cached' =>
                         count'[e][m] = IF m \in Content(e)' /\ ~OnTheWay(m)' THEN 1 ELSE 0
  BY DEF BadgeOK
<1>1. /\ e \notin stale' /\ fetch'[e].phase # "asked" /\ sending' = None
      /\ \A t \in Topics : marking'[t] = Idle
  BY DEF Renewed
<1>2. e \in Entries
  BY DEF Badges, Entries
<1>3. CASE e \in stale \union E
  <2>1. e \notin cached' /\ fetch'[e] = Idle
    BY <1>1, <1>2, <1>3, InvalidateFacts
  <2>2. fetch'[e].phase # "served"
    BY <2>1, CallFields
  <2> QED BY <2>1, <2>2
<1>4. CASE e \notin stale \union E
  <2>1. fetch'[e] = f[e] /\ (e \in cached' <=> e \in k) /\ (e \in cached' => count'[e] = c[e])
    BY <1>2, <1>4, InvalidateFacts
  <2> QED BY <1>1, <1>4, <2>1
<1> QED BY <1>3, <1>4

(* What is known of an unread count when a step has been taken: the tab    *)
(* has heard of nothing that it still counts as unheard of.                *)
BadgeHyps ==
  /\ TabTypes /\ TabTypes' /\ PostedOK /\ PostedOK' /\ CountBound
  /\ link /\ ReadsOK /\ OwnsOK /\ SmoothStep /\ Watch

LEMMA BadgeFacts ==
  ASSUME BadgeHyps, NEW e \in Badges, BadgeOK(e)
  PROVE  /\ e \in Entries /\ e \notin Topics /\ None \notin Messages /\ PostTypes
         /\ fetch \in [Entries -> Calls] /\ count \in [Entries -> [Messages -> 0..2]]
         /\ marking \in [Topics -> Calls] /\ met \subseteq met' /\ RowsGrow /\ ReadsGrow
         /\ \A m \in Messages \ met' : OnTheWay(m)' =>
              m \notin met /\ \A d \in Badges : fetch[d] = Idle /\ fetch'[d] = Idle
<1>1. RowsGrow /\ ReadsGrow
  BY SmoothRows, SmoothReads DEF BadgeHyps, ReadsOK
<1>2. processed \subseteq processed'
  BY <1>1 DEF RowsGrow
<1>3. \A m \in Messages \ met' : OnTheWay(m)' =>
        m \notin met /\ \A d \in Badges : fetch[d] = Idle /\ fetch'[d] = Idle
  BY <1>2, WatchFacts DEF BadgeHyps
<1> QED BY <1>1, <1>3, RealtimeAssumption DEF BadgeHyps, Badges, Entries, TabTypes, CacheTypes, PostTypes, Watch

LEMMA BadgeContent ==
  ASSUME NEW e \in Badges
  PROVE  /\ \A x \in Messages : x \in Content(e) <=>
              x \in Written /\ x \notin seen /\ (e \in Rooms => RoomOf[post[x].topic] = e)
         /\ \A x \in Messages : x \in Content(e)' <=>
              x \in Written' /\ x \notin seen' /\ (e \in Rooms => RoomOf[post'[x].topic] = e)
<1>1. CASE e \in Rooms
  <2>1. e \notin Topics /\ e # RoomsList
    BY <1>1, RealtimeAssumption
  <2>2. Content(e) = UnreadIn(e) /\ Content(e)' = UnreadIn(e)'
    BY <1>1, <2>1 DEF Content
  <2>3. UnreadIn(e)' = {x \in Written' \ seen' : RoomOf[post'[x].topic] = e}
    BY DEF UnreadIn
  <2> QED BY <1>1, <2>2, <2>3 DEF UnreadIn
<1>2. CASE e = RoomsList
  <2>1. e \notin Topics /\ e \notin Rooms
    BY <1>2, RealtimeAssumption
  <2>2. Content(e) = Written \ seen /\ Content(e)' = Written' \ seen'
    BY <1>2, <2>1 DEF Content
  <2> QED BY <2>1, <2>2
<1> QED BY <1>1, <1>2 DEF Badges

LEMMA BadgeQueries ==
  ASSUME BadgeHyps, NEW e \in Badges, BadgeOK(e), NEW d \in Entries, Serve(d) \/ Settle(d)
  PROVE  BadgeOK(e)'
<1>0. /\ e \in Entries /\ fetch \in [Entries -> Calls] /\ count \in [Entries -> [Messages -> 0..2]]
      /\ met \subseteq met'
      /\ \A m \in Messages \ met' : OnTheWay(m)' => \A b \in Badges : fetch[b] = Idle /\ fetch'[b] = Idle
  BY BadgeFacts
<1>1. /\ UNCHANGED <<post, processed, toClient, sending, marking, seen>>
      /\ Content(e)' = Content(e) /\ \A m \in Messages : OnTheWay(m)' <=> OnTheWay(m)
  <2>1. UNCHANGED <<post, processed, toClient, sending, marking, seen>>
    BY DEF Serve, Settle, server, socket
  <2>2. Content(e)' = Content(e)
    BY <2>1 DEF Content, Listed, UnreadIn, Written, In
  <2> QED BY <2>1, <2>2, SameWay
<1>2. CASE Serve(d)
  <2>1. UNCHANGED <<cached, count, stale>>
    BY <1>2 DEF Serve
  <2>2. CASE d = e
    <3>1. fetch'[e].phase = "served" /\ fetch'[e].data = Content(e) /\ fetch'[e] # Idle
      <4>1. fetch'[e] = [phase |-> "served", data |-> Content(e)]
        BY <1>0, <1>2, <2>2 DEF Serve
      <4> QED BY <4>1 DEF Idle
    <3> QED BY <1>1, <3>1 DEF BadgeOK
  <2>3. CASE d # e
    <3>1. fetch'[e] = fetch[e]
      BY <1>0, <1>2, <2>3 DEF Serve
    <3>2. ~Renewed(e)' => ~Renewed(e)
      BY <1>1, <2>1, <3>1 DEF Renewed
    <3> QED BY <1>0, <1>1, <2>1, <3>1, <3>2, BadgeKept
  <2> QED BY <2>2, <2>3
<1>3. CASE Settle(d)
  <2> DEFINE f == [fetch EXCEPT ![d] = Idle]
             k == cached \union {d}
             c == [count EXCEPT ![d] = Once(fetch[d].data)]
  <2>1. fetch[d].phase = "served" /\ Invalidate({}, f, k, c, marking, sending)
    BY <1>3 DEF Settle
  <2>2. f \in [Entries -> Calls]
    BY <1>0, CallFields
  <2>3. \/ d = e /\ f[e] = Idle /\ c[e] = Once(fetch[e].data)
        \/ d # e /\ f[e] = fetch[e] /\ c[e] = count[e] /\ (e \in k => e \in cached)
    BY <1>0
  <2> HIDE DEF f, k, c
  <2>4. ASSUME e \notin stale, f[e].phase # "asked", sending' = None,
               \A t \in Topics : marking'[t] = Idle, NEW m \in Messages \ met'
        PROVE  /\ f[e].phase = "served" => (m \in f[e].data <=> m \in Content(e)')
               /\ f[e] = Idle /\ e \in k => c[e][m] = IF m \in Content(e)' /\ ~OnTheWay(m)' THEN 1 ELSE 0
    <3>1. fetch[e].phase # "asked" => ~Renewed(e)
      BY <1>1, <2>4 DEF Renewed
    <3>2. CASE d = e
      <4>1. m \in fetch[e].data <=> m \in Content(e)
        BY <1>0, <2>1, <2>4, <3>1, <3>2 DEF BadgeOK
      <4>2. ~OnTheWay(m)'
        BY <1>0, <2>1, <2>4, <3>2, CallFields
      <4>3. c[e][m] = IF m \in fetch[e].data THEN 1 ELSE 0
        BY <2>3, <2>4, <3>2, OnceType
      <4>4. f[e].phase # "served"
        BY <2>3, <3>2, CallFields
      <4> QED BY <1>1, <4>1, <4>2, <4>3, <4>4
    <3>3. CASE d # e
      <4>1. f[e] = fetch[e] /\ c[e] = count[e] /\ (e \in k => e \in cached) /\ ~Renewed(e) /\ m \notin met
        BY <1>0, <2>3, <2>4, <3>1, <3>3
      <4> QED BY <1>1, <2>4, <4>1 DEF BadgeOK
    <3> QED BY <3>2, <3>3
  <2> QED BY <2>1, <2>2, <2>4, BadgeAfter
<1> QED BY <1>2, <1>3

(* A message somebody else writes is on its way until it is heard of.      *)
LEMMA BadgePosts ==
  ASSUME BadgeHyps, NEW e \in Badges, BadgeOK(e), NEW n \in Messages,
         OthersWrite(n) \/ SendMessage(n) \/ WriteMessage(n) \/ Announce(n)
  PROVE  BadgeOK(e)'
<1>0. /\ e \in Entries /\ e \notin Topics /\ None \notin Messages /\ met \subseteq met' /\ PostTypes
      /\ \A m \in Messages \ met' : OnTheWay(m)' => m \notin met /\ fetch[e] = Idle /\ fetch'[e] = Idle
      /\ TabTypes /\ PostedOK
  BY BadgeFacts DEF BadgeHyps
<1>1. CASE SendMessage(n)
  BY <1>0, <1>1 DEF SendMessage, BadgeOK, Renewed
<1>2. CASE WriteMessage(n)
  <2>1. sending' = n
    <3>1. post[n].stage = "asked" /\ sending' = sending
      BY <1>2 DEF WriteMessage
    <3> QED BY <3>1 DEF BadgeHyps, PostedOK, OwnsOK, OwnOK
  <2> QED BY <1>0, <2>1 DEF BadgeOK, Renewed
<1>3. CASE OthersWrite(n)
  <2>1. PICK u \in Topics, p \in Messages \union {None} :
          post' = [post EXCEPT ![n] = [stage |-> "written", topic |-> u, parent |-> p, own |-> FALSE]]
    BY <1>3 DEF OthersWrite
  <2> DEFINE q == [stage |-> "written", topic |-> u, parent |-> p, own |-> FALSE]
  <2>2. q \in Posts /\ q.stage = "written"
    BY DEF Posts
  <2>3. post[n] = NoPost /\ post' = [post EXCEPT ![n] = q]
        /\ UNCHANGED <<seen, processed, toClient, sending, marking, caches>>
    BY <1>3, <2>1 DEF OthersWrite, socket
  <2> HIDE DEF q
  <2>4. /\ post[n].stage = "free" /\ post'[n] = q /\ \A x \in Messages : x # n => post'[x] = post[x]
        /\ \A x \in Messages : x # n => (OnTheWay(x)' <=> OnTheWay(x))
    BY <1>0, <2>2, <2>3, NewRow
  <2>5. \A x \in Messages : x # n => (x \in Content(e)' <=> x \in Content(e))
    BY <1>0, <2>3, <2>4, BadgeContent DEF Written
  <2>6. n \notin Content(e) /\ OnTheWay(n)'
    BY <1>0, <2>2, <2>4, BadgeContent DEF Written, OnTheWay
  <2>7. Renewed(e)' <=> Renewed(e)
    BY <2>3 DEF Renewed, caches
  <2> SUFFICES ASSUME ~Renewed(e)', NEW m \in Messages \ met'
               PROVE  /\ fetch'[e].phase = "served" => (m \in fetch'[e].data <=> m \in Content(e)')
                      /\ fetch'[e] = Idle /\ e \in cached' =>
                           count'[e][m] = IF m \in Content(e)' /\ ~OnTheWay(m)' THEN 1 ELSE 0
    BY DEF BadgeOK
  <2>8. m \notin met /\ ~Renewed(e) /\ UNCHANGED <<fetch, cached, count>>
    BY <1>0, <2>3, <2>7 DEF caches
  <2>9. CASE m = n
    <3>1. fetch'[e] = Idle
      BY <1>0, <2>6, <2>9
    <3> QED BY <2>6, <2>8, <2>9, <3>1, CallFields DEF BadgeOK
  <2>10. CASE m # n
    BY <2>4, <2>5, <2>8, <2>10 DEF BadgeOK
  <2> QED BY <2>9, <2>10
<1>4. CASE Announce(n)
  <2>1. /\ post[n].stage = "written" /\ post' = [post EXCEPT ![n].stage = "told"]
        /\ UNCHANGED <<seen, processed, caches, sending, marking>>
    BY <1>4 DEF Announce
  <2>2. /\ post'[n].stage = "told" /\ post'[n].topic = post[n].topic
        /\ \A x \in Messages : x # n => post'[x] = post[x]
    BY <1>0, <2>1, Restaged
  <2>3. CASE post[n].own
    <3>1. sending' = n
      BY <2>1, <2>3 DEF BadgeHyps, OwnsOK, OwnOK
    <3> QED BY <1>0, <3>1 DEF BadgeOK, Renewed
  <2>4. CASE ~post[n].own
    <3>1. OnTheWay(n) /\ OnTheWay(n)'
      <4>1. n \notin processed /\ InToClient(n)'
        BY <1>0, <1>4, <2>1, <2>4, AnnouncedEvents DEF BadgeHyps, PostedOK, InToClient
      <4> QED BY <2>1, <4>1 DEF OnTheWay
    <3>2. \A x \in Messages : x # n => (OnTheWay(x)' <=> OnTheWay(x))
      BY <1>0, <1>4, <2>1, <2>2, AnnouncedEvents DEF OnTheWay, InToClient
    <3>3. \A x \in Messages : x \in Content(e)' <=> x \in Content(e)
      BY <1>0, <2>1, <2>2, BadgeContent DEF Written
    <3>4. \A x \in Messages : OnTheWay(x)' <=> OnTheWay(x)
      BY <3>1, <3>2
    <3>5. (~Renewed(e)' => ~Renewed(e)) /\ UNCHANGED <<fetch, count, cached>>
      BY <2>1 DEF Renewed, caches
    <3> QED BY <1>0, <3>3, <3>4, <3>5, BadgeKept
  <2> QED BY <2>3, <2>4
<1> QED BY <1>1, <1>2, <1>3, <1>4

(* An event counts where its message is unread; it clears the counts of    *)
(* messages that are seen already, or still to come.                       *)
LEMMA BadgeEvents ==
  ASSUME BadgeHyps, NEW e \in Badges, BadgeOK(e), Deliver
  PROVE  BadgeOK(e)'
<1>0. /\ e \in Entries /\ e \notin Topics /\ None \notin Messages /\ met \subseteq met' /\ PostTypes
      /\ fetch \in [Entries -> Calls] /\ count \in [Entries -> [Messages -> 0..2]]
      /\ TabTypes /\ PostedOK
  BY BadgeFacts DEF BadgeHyps
<1>head. PICK h \in Messages : h = Head(toClient)
  BY <1>0, DeliveredEvents
<1>1. /\ UNCHANGED <<post, seen, sending, marking, topic>>
      /\ \A m \in Messages : m \in Content(e)' <=> m \in Content(e)
  <2>1. UNCHANGED <<post, seen, sending, marking, topic>>
    BY DEF Deliver, server, screen
  <2> QED BY <2>1, BadgeContent DEF Written
<1>2. InToClient(h) /\ post[h].stage = "told"
  BY <1>0, <1>head, DeliveredEvents DEF InToClient, PostedOK
<1>3. IF ~Fresh(h) THEN UNCHANGED <<processed, caches>>
      ELSE /\ processed' = processed \union {h}
           /\ Invalidate(Outdated(h), fetch, cached, Patched(h), marking, sending)
  BY <1>head, Zenon DEF Deliver
<1>4. \A x \in Messages : x # h => (InToClient(x)' <=> InToClient(x))
  <2> SUFFICES ASSUME NEW x \in Messages, x # h PROVE InToClient(x)' <=> InToClient(x)
    OBVIOUS
  <2>1. ASSUME InToClient(x)' PROVE InToClient(x)
    BY <1>0, <1>head, <2>1, DeliveredEvents DEF InToClient
  <2>2. ASSUME InToClient(x) PROVE InToClient(x)'
    <3>1. PICK i \in DOMAIN toClient : toClient[i] = x
      BY <2>2 DEF InToClient
    <3>2. i # 1
      BY <1>0, <1>head, <3>1, DeliveredEvents
    <3>3. i - 1 \in DOMAIN toClient' /\ toClient'[i - 1] = x
      BY <1>0, <3>1, <3>2, DeliveredEvents
    <3> QED BY <3>3 DEF InToClient
  <2> QED BY <2>1, <2>2
<1>5. CASE ~Fresh(h)
  <2>1. \A x \in Messages : OnTheWay(x)' <=> OnTheWay(x)
    BY <1>1, <1>3, <1>4, <1>5 DEF OnTheWay, Fresh
  <2>2. (~Renewed(e)' => ~Renewed(e)) /\ UNCHANGED <<fetch, count, cached>>
    BY <1>1, <1>3, <1>5 DEF Renewed, caches
  <2> QED BY <1>0, <1>1, <2>1, <2>2, BadgeKept
<1>6. CASE Fresh(h)
  <2> DEFINE c == Patched(h)
  <2>0. PICK u \in Topics : u = post[h].topic
    BY <1>0, <1>2, PostFields
  <2>1. /\ processed' = processed \union {h} /\ h \notin processed
        /\ Invalidate({u}, fetch, cached, c, marking, sending)
    BY <1>3, <1>6, <2>0 DEF Outdated, Fresh
  <2>2. RoomOf[u] \in Rooms /\ RoomsList \notin Rooms /\ u # e
    BY <1>0, RealtimeAssumption
  <2>3. /\ \A x \in Messages : x # h => (OnTheWay(x)' <=> OnTheWay(x))
        /\ OnTheWay(h) /\ ~OnTheWay(h)'
    BY <1>1, <1>2, <1>4, <2>1 DEF OnTheWay
  <2>4. \A m \in Messages : post[m].own /\ post[m].stage = "told" => sending = m \/ WillSee(post[m].topic, m)
    BY DEF BadgeHyps, OwnsOK, OwnOK
  <2> DEFINE unread == ~post[h].own /\ topic # u
  <2>5. e \in cached =>
          /\ e = RoomOf[u] /\ unread => c[e] = [count[e] EXCEPT ![h] = count[e][h] + 1]
          /\ e = RoomOf[u] /\ ~unread => c[e] = [x \in Messages |-> IF x \in In(u) THEN 0 ELSE count[e][x]]
          /\ e = RoomsList /\ unread => c[e] = [count[e] EXCEPT ![h] = count[e][h] + 1]
          /\ e = RoomsList /\ ~unread => c[e] = count[e]
          /\ e # RoomOf[u] /\ e # RoomsList => c[e] = count[e]
    BY <1>0, <2>0, <2>2 DEF Patched
  <2> HIDE DEF c
  <2>6. ASSUME e \notin stale, fetch[e].phase # "asked", sending' = None,
               \A t \in Topics : marking'[t] = Idle, NEW m \in Messages \ met'
        PROVE  /\ fetch[e].phase = "served" => (m \in fetch[e].data <=> m \in Content(e)')
               /\ fetch[e] = Idle /\ e \in cached =>
                    c[e][m] = IF m \in Content(e)' /\ ~OnTheWay(m)' THEN 1 ELSE 0
    <3>1. ~Renewed(e) /\ m \notin met
      BY <1>0, <1>1, <2>6 DEF Renewed
    <3>2. fetch[e].phase = "served" => (m \in fetch[e].data <=> m \in Content(e)')
      BY <1>1, <3>1 DEF BadgeOK
    <3>3. ASSUME fetch[e] = Idle, e \in cached
          PROVE  c[e][m] = IF m \in Content(e)' /\ ~OnTheWay(m)' THEN 1 ELSE 0
      <4>1. /\ count[e] \in [Messages -> 0..2]
            /\ count[e][m] = IF m \in Content(e) /\ ~OnTheWay(m) THEN 1 ELSE 0
        BY <1>0, <2>6, <3>1, <3>3 DEF BadgeOK
      <4>2. \A t \in Topics, x \in Messages : WillSee(t, x) => x \in seen
        BY <1>1, <2>6, CallFields DEF WillSee
      <4>3. CASE m = h
        <5>1. h \notin seen /\ topic # u
          BY <2>0, <2>3, <3>1, <4>3 DEF BadgeHyps, ReadsOK
        <5>2. ~post[h].own
          BY <1>0, <1>1, <1>2, <2>0, <2>4, <2>6, <4>2, <5>1
        <5>3. unread /\ h \in Written
          BY <1>2, <5>1, <5>2 DEF Written
        <5>4. h \in Content(e) <=> (e \in Rooms => RoomOf[u] = e)
          BY <2>0, <5>1, <5>3, BadgeContent
        <5>5. count[e][h] = 0
          BY <2>3, <4>1, <4>3
        <5>6. [count[e] EXCEPT ![h] = count[e][h] + 1][h] = 1
          BY <1>2, <4>1, <5>5
        <5>7. e \in Rooms \/ e = RoomsList
          BY DEF Badges
        <5>8. c[e][h] = IF e \in Rooms => RoomOf[u] = e THEN 1 ELSE 0
          <6>1. CASE e = RoomOf[u]
            BY <2>5, <3>3, <5>3, <5>6, <6>1
          <6>2. CASE e = RoomsList
            BY <2>2, <2>5, <3>3, <5>3, <5>6, <6>2
          <6>3. CASE e # RoomOf[u] /\ e # RoomsList
            BY <2>5, <3>3, <5>5, <5>7, <6>3
          <6> QED BY <6>1, <6>2, <6>3
        <5> QED BY <1>1, <2>3, <4>3, <5>4, <5>8
      <4>4. CASE m # h
        <5>1. [count[e] EXCEPT ![h] = count[e][h] + 1][m] = count[e][m]
          BY <2>6, <4>1, <4>4
        <5>2. (OnTheWay(m)' <=> OnTheWay(m)) /\ (m \in Content(e)' <=> m \in Content(e))
          BY <1>1, <2>3, <2>6, <4>4
        <5>3. CASE c[e][m] = count[e][m]
          BY <4>1, <5>2, <5>3
        <5>4. CASE e = RoomOf[u] /\ ~unread /\ m \in In(u)
          <6>1. c[e][m] = 0
            BY <2>5, <2>6, <3>3, <5>4
          <6>2. m \in Content(e) => m \in Listed(u) /\ m \notin seen
            BY <5>4, BadgeContent DEF Listed
          <6>3. ASSUME m \in Content(e) PROVE OnTheWay(m)
            <7>1. CASE topic = u
              <8>1. WillSee(u, m)
                BY <2>2, <3>1, <6>2, <6>3, <7>1, RealtimeAssumption DEF BadgeHyps, ReadsOK
              <8> QED BY <2>2, <2>6, <4>2, <6>2, <6>3, <8>1
            <7>2. CASE post[h].own
              <8>1. sending # h /\ sending # m
                BY <1>0, <1>1, <1>2, <2>6
              <8>2. OwnOK(h)
                BY <1>2, <7>2 DEF BadgeHyps, OwnsOK
              <8>3. WillSee(u, m) \/ After(m, h)
                BY <1>2, <2>0, <2>1, <4>4, <6>2, <6>3, <8>1, <8>2 DEF OwnOK
              <8>4. After(m, h)
                BY <2>2, <2>6, <4>2, <6>2, <6>3, <8>3
              <8> QED BY <8>4 DEF After, OnTheWay
            <7> QED BY <5>4, <7>1, <7>2
          <6> QED BY <5>2, <6>1, <6>3
        <5>5. ~(e = RoomOf[u] /\ ~unread /\ m \in In(u)) => c[e][m] = count[e][m]
          BY <2>5, <2>6, <3>3, <5>1
        <5> QED BY <5>3, <5>4, <5>5
      <4> QED BY <4>3, <4>4
    <3> QED BY <3>2, <3>3
  <2>7. \A m \in Messages \ met' :
          /\ e \notin stale /\ fetch[e].phase # "asked" /\ sending' = None
          /\ \A t \in Topics : marking'[t] = Idle
          => /\ fetch[e].phase = "served" => (m \in fetch[e].data <=> m \in Content(e)')
             /\ fetch[e] = Idle /\ e \in cached =>
                  c[e][m] = IF m \in Content(e)' /\ ~OnTheWay(m)' THEN 1 ELSE 0
    BY <2>6
  <2> QED BY <1>0, <2>1, <2>7, BadgeAfter
<1> QED BY <1>5, <1>6

(* Every mutation has the counts fetched again, and nothing else changes   *)
(* them.                                                                   *)
LEMMA BadgeOthers ==
  ASSUME BadgeHyps, NEW e \in Badges, BadgeOK(e)
  PROVE  BadgeOK(e)'
<1>0. /\ e \in Entries /\ e \notin Topics /\ met \subseteq met' /\ PostTypes
      /\ fetch \in [Entries -> Calls] /\ marking \in [Topics -> Calls]
      /\ TabTypes /\ PostedOK /\ link /\ SmoothStep
  BY BadgeFacts DEF BadgeHyps
<1>1. ASSUME NEW t \in Topics, marking'[t] # Idle PROVE BadgeOK(e)'
  BY <1>1 DEF BadgeOK, Renewed
<1>2. ASSUME NEW t \in Topics, FindUnread(t) \/ InsertReads(t) PROVE BadgeOK(e)'
  <2>1. PICK p \in {"served", "written"}, d \in SUBSET Messages :
          marking' = [marking EXCEPT ![t] = [phase |-> p, data |-> d]]
    <3>1. (Written \intersect In(t)) \ seen \in SUBSET Messages /\ {} \in SUBSET Messages
      BY DEF Written
    <3> QED BY <1>2, <3>1 DEF FindUnread, InsertReads
  <2>2. marking'[t] = [phase |-> p, data |-> d]
    BY <1>0, <2>1
  <2> QED BY <1>1, <2>2, CallFields
<1>3. ASSUME NEW t \in Topics, MarkSettles(t) PROVE BadgeOK(e)'
  <2>1. Invalidate(Badges, fetch, cached, count, marking', sending)
    BY <1>3 DEF MarkSettles, MarkTags
  <2>2. e \in stale' \/ fetch'[e].phase = "asked" \/ (e \notin cached' /\ fetch'[e] = Idle)
    BY <1>0, <2>1, InvalidateFacts
  <2> QED BY <2>2, CallFields DEF BadgeOK, Renewed
<1>4. CASE SendSettles
  <2>1. PICK u \in Topics : u = post[sending].topic
    <3>1. sending \in Messages /\ post[sending].stage = "told"
      BY <1>0, <1>4 DEF SendSettles, PostTypes
    <3> QED BY <1>0, <3>1, PostFields
  <2>2. marking' = [marking EXCEPT ![u] = Asked]
    BY <1>4, <2>1 DEF SendSettles
  <2> QED BY <1>0, <1>1, <2>2, CallFields
<1>5. ASSUME NEW t \in Topics, SelectTopic(t) PROVE BadgeOK(e)'
  <2>1. marking'[t] = Asked
    BY <1>0, <1>5 DEF SelectTopic
  <2> QED BY <1>1, <2>1, CallFields
<1>6. ASSUME UNCHANGED <<post, seen, processed, toClient, cached, count, stale, sending, marking>>,
             fetch'[e] = fetch[e] \/ fetch'[e] = Asked
      PROVE  BadgeOK(e)'
  <2>1. CASE fetch'[e] = Asked
    BY <2>1, CallFields DEF BadgeOK, Renewed
  <2>2. CASE fetch'[e] = fetch[e]
    <3>1. \A x \in Messages : (x \in Content(e)' <=> x \in Content(e)) /\ (OnTheWay(x)' <=> OnTheWay(x))
      BY <1>6, BadgeContent, SameWay, SameRows
    <3>2. ~Renewed(e)' => ~Renewed(e)
      BY <1>6, <2>2 DEF Renewed
    <3> QED BY <1>0, <1>6, <2>2, <3>1, <3>2, BadgeKept
  <2> QED BY <1>6, <2>1, <2>2
<1>7. ASSUME NEW r \in Rooms \union {None}, SelectRoom(r) PROVE BadgeOK(e)'
  <2>1. fetch'[e] = fetch[e] \/ fetch'[e] = Asked
    BY <1>0, <1>7 DEF SelectRoom, Mount
  <2> QED BY <1>6, <1>7, <2>1 DEF SelectRoom, server, socket
<1>8. ASSUME ServeSocket \/ FollowRoom \/ LeaveTopic PROVE BadgeOK(e)'
  BY <1>6, <1>8 DEF ServeSocket, FollowRoom, LeaveTopic, server, socket, caches
<1> QED
  BY <1>0, <1>2, <1>3, <1>4, <1>5, <1>7, <1>8, BadgeQueries, BadgePosts, BadgeEvents, SmoothCases

BadgeInv == BaseInv /\ (failures = 0 => BadgesOK)

LEMMA BadgeInit ==
  ASSUME RealtimeInit
  PROVE  BadgeInv
<1>1. /\ seen = {} /\ link /\ toClient = <<>> /\ topic = None /\ sending = None /\ cached = {RoomsList}
      /\ \A t \in Topics : marking[t] = Idle
      /\ \A e \in Entries : fetch[e] = Idle
  BY DEF RealtimeInit
<1>2. /\ \A m \in Messages : ~post[m].own /\ post[m].stage # "written"
      /\ \A m \in Messages : post[m].stage \notin {"free", "asked"} <=> m \in Old
  <2> SUFFICES ASSUME NEW m \in Messages
               PROVE  /\ ~post[m].own /\ post[m].stage # "written"
                      /\ post[m].stage \notin {"free", "asked"} <=> m \in Old
    OBVIOUS
  <2>1. CASE OldIn[m] = None
    <3>1. post[m] = NoPost
      BY <2>1 DEF RealtimeInit
    <3>2. ~NoPost.own /\ NoPost.stage = "free"
      BY DEF NoPost
    <3> QED BY <2>1, <3>1, <3>2 DEF Old
  <2>2. CASE OldIn[m] # None
    <3> DEFINE q == [stage |-> "told", topic |-> OldIn[m], parent |-> None, own |-> FALSE]
    <3>1. post[m] = q
      BY <2>2 DEF RealtimeInit
    <3>2. ~q.own /\ q.stage = "told"
      OBVIOUS
    <3> HIDE DEF q
    <3> QED BY <2>2, <3>1, <3>2 DEF Old
  <2> QED BY <2>1, <2>2
<1>3. \A m \in Messages : ~OnTheWay(m)
  BY <1>1, <1>2 DEF OnTheWay, InToClient
<1>4. ReadsOK
  BY <1>1, <1>3, CallFields DEF ReadsOK
<1>5. OwnsOK
  BY <1>2 DEF OwnsOK
<1>6. Written = Old
  BY <1>2 DEF Written, Old
<1>7. ASSUME NEW e \in Badges PROVE BadgeOK(e)
  <2>1. e \in Entries
    BY DEF Badges, Entries
  <2>2. CASE e # RoomsList
    BY <1>1, <2>1, <2>2, CallFields DEF BadgeOK
  <2>3. CASE e = RoomsList
    <3>1. count[e] = Once(Old) /\ Content(e) = Old
      BY <1>1, <1>6, <2>1, <2>3, ContentOf DEF RealtimeInit
    <3>2. \A m \in Messages : count[e][m] = IF m \in Old THEN 1 ELSE 0
      BY <3>1, OnceType
    <3> QED BY <1>1, <1>3, <2>1, <3>1, <3>2, CallFields DEF BadgeOK
  <2> QED BY <2>2, <2>3
<1> QED BY <1>1, <1>4, <1>5, <1>7, BaseInit DEF BadgeInv, BadgesOK

LEMMA BadgeNext ==
  ASSUME BadgeInv, RealtimeNext
  PROVE  BadgeInv'
<1>1. BaseInv /\ BaseInv'
  BY BaseNext DEF BadgeInv
<1> SUFFICES ASSUME failures' = 0 PROVE BadgesOK'
  BY <1>1 DEF BadgeInv
<1>2. RealtimeTypeOK /\ TabTypes /\ PostedOK /\ CountBound /\ RealtimeTypeOK' /\ PostedOK'
  BY <1>1, BaseTypes DEF BaseInv
<1>3. failures = 0 /\ SmoothStep /\ Watch /\ RealtimeStep
  BY <1>2, NextFacts DEF SmoothStep
<1>4. TabTypes'
  BY <1>2 DEF RealtimeTypeOK, TabTypes, PostTypes, CacheTypes, ScreenTypes, SocketTypes, SocketEvents
<1>5. BadgesOK
  BY <1>3 DEF BadgeInv
<1>6. BadgeHyps
  BY <1>2, <1>3, <1>4, <1>5 DEF BadgeHyps, BadgesOK
<1>7. ReadsOK' /\ OwnsOK'
  BY <1>6, ReadsStep, OwnsStep DEF BadgeHyps
<1>8. \A e \in Badges : BadgeOK(e)'
  BY <1>5, <1>6, BadgeOthers DEF BadgesOK
<1>9. link'
  <2>1. \A e \in Entries : Serve(e) \/ Settle(e) => link' = link
    BY DEF Serve, Settle, socket
  <2>2. \A m \in Messages : OthersWrite(m) \/ SendMessage(m) \/ WriteMessage(m) \/ Announce(m) => link' = link
    BY DEF OthersWrite, SendMessage, WriteMessage, Announce, socket
  <2>3. \A t \in Topics : FindUnread(t) \/ InsertReads(t) \/ MarkSettles(t) \/ SelectTopic(t) => link' = link
    BY DEF FindUnread, InsertReads, MarkSettles, SelectTopic, socket
  <2>4. SendSettles \/ Deliver \/ ServeSocket \/ FollowRoom \/ LeaveTopic \/ (\E r \in Rooms \union {None} : SelectRoom(r))
          => link' = link
    BY DEF SendSettles, Deliver, ServeSocket, FollowRoom, LeaveTopic, SelectRoom, socket
  <2> QED BY <1>3, <1>5, <2>1, <2>2, <2>3, <2>4, SmoothCases DEF BadgesOK
<1> QED BY <1>7, <1>8, <1>9 DEF BadgesOK

LEMMA BadgeStutter ==
  ASSUME BadgeInv, UNCHANGED realtimeVars
  PROVE  BadgeInv'
<1>1. BaseInv' /\ (failures' = 0 => BadgesOK)
  BY BaseStutter DEF BadgeInv, realtimeVars
<1>2. /\ UNCHANGED <<post, seen, link, toClient, topic, processed>>
      /\ UNCHANGED <<cached, count, fetch, stale, marking, sending, met>>
  BY DEF realtimeVars, server, socket, screen, caches
<1>3. Written' = Written /\ \A t \in Topics : Listed(t)' = Listed(t)
  BY <1>2, SameRows
<1>4. \A m \in Messages : OnTheWay(m)' <=> OnTheWay(m)
  BY <1>2, SameWay
<1>5. \A t \in Topics, m \in Messages : WillSee(t, m)' <=> WillSee(t, m)
  BY <1>2 DEF WillSee
<1>6. \A x, m \in Messages : After(x, m)' <=> After(x, m)
  BY <1>2 DEF After, InToClient
<1>7. \A t \in Topics : Listed(t) \subseteq Messages
  BY DEF Listed, In
<1>8. ASSUME BadgesOK PROVE ReadsOK'
  <2>1. ReadsOK /\ topic' = topic
    BY <1>2, <1>8 DEF BadgesOK
  <2>2. ASSUME topic' # None, NEW m \in Listed(topic)' \ met' PROVE WillSee(topic, m)'
    BY <1>2, <2>1, <2>2 DEF ReadsOK, WillSee, Listed, Written, In
  <2>3. seen' \subseteq Written' /\ \A t \in Topics : marking'[t].data \subseteq Listed(t)'
    BY <1>2, <1>3, <2>1 DEF ReadsOK
  <2>4. ASSUME NEW m \in Messages \ met', OnTheWay(m)'
        PROVE  /\ m \notin seen' /\ topic' # post'[m].topic /\ marking'[post'[m].topic] = Idle
               /\ \A e \in Badges : fetch'[e] = Idle
    BY <1>2, <1>4, <2>1, <2>4 DEF ReadsOK
  <2> QED BY <2>2, <2>3, <2>4 DEF ReadsOK
<1>9. ASSUME BadgesOK PROVE OwnsOK'
  <2> SUFFICES ASSUME NEW m \in Messages, post'[m].own PROVE OwnOK(m)'
    BY DEF OwnsOK
  <2>1. OwnOK(m) /\ post[m].own
    BY <1>2, <1>9 DEF BadgesOK, OwnsOK
  <2> QED BY <1>2, <2>1 DEF OwnOK, WillSee, After, InToClient, Listed, Written, In
<1>10. ASSUME BadgesOK, NEW e \in Badges PROVE BadgeOK(e)'
  <2>1. BadgeOK(e)
    BY <1>10 DEF BadgesOK
  <2>2. Renewed(e)' <=> Renewed(e)
    BY <1>2 DEF Renewed
  <2>3. Content(e)' = Content(e)
    BY <1>2 DEF Content, UnreadIn, Listed, Written, In
  <2> QED BY <1>2, <1>4, <2>1, <2>2, <2>3, BadgeKept
<1>11. BadgesOK => BadgesOK'
  BY <1>2, <1>8, <1>9, <1>10 DEF BadgesOK
<1> QED BY <1>1, <1>11 DEF BadgeInv

(* The unread counts are those the server would send once nothing is       *)
(* pending, up to messages whose announcement met a query of the counts or *)
(* a visit to their topic, if nothing has failed; and no entry ever counts *)
(* a message more than twice (applyIncomingMessage, processedMessageIdsRef *)
(* and the tags of markTopicRead and sendMessage).                         *)
THEOREM CountsComeOutExact == RealtimeSpec => []CountsExact
<1>1. RealtimeInit => BadgeInv
  BY BadgeInit
<1>2. BadgeInv /\ [RealtimeNext]_realtimeVars => BadgeInv'
  BY BadgeNext, BadgeStutter
<1>3. BadgeInv => CountsExact
  <2> SUFFICES ASSUME BadgeInv, AtRest, failures = 0,
                      NEW e \in Badges \intersect cached, NEW m \in Messages \ met
               PROVE  count[e][m] = Once(Content(e))[m]
    BY DEF CountsExact, BadgesExact, BadgeInv, BaseInv
  <2>1. e \in Entries /\ BadgeOK(e)
    BY DEF BadgeInv, BadgesOK, Badges, Entries
  <2>2. fetch[e] = Idle /\ stale = {} /\ sending = None /\ \A t \in Topics : marking[t] = Idle
    BY <2>1 DEF AtRest
  <2>3. ~Renewed(e)
    BY <2>2, CallFields DEF Renewed
  <2>4. ~OnTheWay(m)
    BY DEF AtRest, OnTheWay, InToClient
  <2>5. count[e][m] = IF m \in Content(e) THEN 1 ELSE 0
    BY <2>1, <2>2, <2>3, <2>4 DEF BadgeOK
  <2> QED BY <2>5, OnceType
<1> QED BY <1>1, <1>2, <1>3, PTL DEF RealtimeSpec

(* The feed of an open room                                                *)
------------------------------------------------------------------------------
(* Values of the variables *)

(* The author is one of them in every list.                                *)
Who == {"user", "other", "author"}

ListRows == [state : {"none", "there", "gone"}, hidden : BOOLEAN, says : Sayings, readers : SUBSET Who]

FeedEntries == {Unknown, Absent} \union {Shown(s, n) : s \in Sayings, n \in Nat}

FeedEvents == [op : {"none", "put", "drop", "plus"}, row : FeedEntries, by : Who, fits : BOOLEAN]

Edits ==
  [step : {"free", "checked", "written", "ready", "told", "failed"},
   op : {"create", "update", "delete", "hide", "show", "add", "assign", "remove", "purge",
         "close", "pin", "read"},
   says : Sayings \union {""}, by : Who, event : FeedEvents]

Queries == [phase : {"idle", "asked", "served"}, data : FeedEntries]

FeedTypes ==
  /\ list \in Lists /\ row \in ListRows /\ edit \in [Editors -> Edits]
  /\ toTab \in Seq(FeedEvents) /\ held \in FeedEntries
  /\ query \in Queries
  /\ query.phase = "idle" => query = NoQuery
  /\ query.phase = "asked" => query = Sent
  /\ query.phase = "served" => query.data # Unknown

(* What a list may be told: only topics and memberships are dropped, only  *)
(* messages are read, and a reply is never put where it would be listed.   *)
EventFits(ev) ==
  /\ ev.op = "drop" => list \in {"topic", "member", "self"} /\ ev.row = Absent /\ ev.fits
  /\ ev.op = "plus" => list \in MessageLists
  /\ ev.op = "none" => ev.fits
  /\ ev.op = "put" => ev.row.is = "shown" /\ (list = "reply" => ~ev.fits)

ListOf(w) ==
  /\ edit[w].step # "free" => edit[w].op \in Ops /\ edit[w].says \in Sayings
  /\ edit[w].step = "written" => list = "room"
  /\ EventFits(edit[w].event)

EditShape == \A w \in Editors : ListOf(w)

WireShape == \A i \in DOMAIN toTab : EventFits(toTab[i]) /\ toTab[i].op # "none"

RowShape ==
  /\ list \in MessageLists \union {"room"} => row.state # "none"
  /\ list \in MessageLists => There
  /\ row.hidden => list \in {"topic", "reply"}
  /\ list = "reply" => row.hidden

(* Nobody is told that a room is gone.                                     *)
RoomShape ==
  list = "room" => /\ held # Absent /\ query.data # Absent
                   /\ ~There => astray /\ untold

ListShape == EditShape /\ WireShape /\ RowShape /\ RoomShape

Shaped == FeedTypes /\ ListShape

(* updateRoom has changed the room and will read it again.                 *)
RoomReads ==
  \A w \in Editors : edit[w].step = "written" =>
    edit[w].event.op = "put" /\ (There => edit[w].event.fits)

(* Who reads, as Check picks them.                                         *)
ByReaders == \A w \in Editors : edit[w].by \in Readers

------------------------------------------------------------------------------
(* Events on their way *)

(* An event says the whole row, or that one more has read it.              *)
Over(ev) == ev.op \in {"put", "drop"}
Plus(ev) == ev.op = "plus" /\ ev.by # "user"

FitPlus(ev) == Plus(ev) /\ ev.fits

FitPending ==
  (\E i \in DOMAIN toTab : FitPlus(toTab[i])) \/ (\E w \in Editors : Late(w) /\ FitPlus(edit[w].event))

(* Only "other" makes the count grow for the tab, and does so once.        *)
PlusOnce ==
  /\ \A i \in DOMAIN toTab : FitPlus(toTab[i]) => "other" \in row.readers
  /\ \A w \in Editors : Late(w) /\ FitPlus(edit[w].event) => "other" \in row.readers
  /\ \A i, j \in DOMAIN toTab : FitPlus(toTab[i]) /\ FitPlus(toTab[j]) => i = j
  /\ \A v, w \in Editors : Late(v) /\ Late(w) /\ FitPlus(edit[v].event) /\ FitPlus(edit[w].event) => v = w
  /\ \A i \in DOMAIN toTab, w \in Editors : ~(FitPlus(toTab[i]) /\ Late(w) /\ FitPlus(edit[w].event))

(* A receipt on its way is one the answer on its way does not count.       *)
CountAhead ==
  query.phase = "served" /\ ~astray /\ list # "reply" /\ list \in MessageLists =>
    /\ query.data.is = "shown" /\ query.data.count \in Nat /\ query.data.count <= Count(row)
    /\ FitPending => query.data.count < Count(row)

Fits == /\ \A i \in DOMAIN toTab : toTab[i].fits
        /\ \A w \in Editors : Late(w) => edit[w].event.fits

Inc(v) == IF v.is = "shown" THEN Shown(v.says, v.count + 1) ELSE v

(* What a list says after an event.                                        *)
Heard(v, ev) == IF Over(ev) THEN ev.row ELSE IF Plus(ev) THEN Inc(v) ELSE v

(* After the event i, which says d, the events lead to c: all that say     *)
(* what the row is say the same, and a receipt comes after them.           *)
FromTo(q, i, d, c) ==
  /\ \A j \in DOMAIN q : j > i /\ Over(q[j]) => q[j].row = d
  /\ \/ c = d /\ \A j \in DOMAIN q : j > i => ~Plus(q[j])
     \/ c = Inc(d) /\ \E p \in DOMAIN q : p > i /\ Plus(q[p]) /\ \A j \in DOMAIN q : j > p => ~Over(q[j])

(* A list that says v will say c when it has heard the events q.           *)
Leads(v, q, c) ==
  FromTo(q, 0, v, c) \/ \E i \in DOMAIN q : Over(q[i]) /\ FromTo(q, i, q[i].row, c)

Base == IF query.phase = "served" THEN query.data ELSE held

Effective(w) == Late(w) /\ (Over(edit[w].event) \/ Plus(edit[w].event))

(* A list that says v will say what the row is: when nothing more is to be *)
(* announced, when what is says just that, or after one receipt more.      *)
Due(v) ==
  \/ (\A w \in Editors : ~Effective(w)) /\ Leads(v, toTab, Current)
  \/ \E w \in Editors : Effective(w) /\ \A u \in Editors : Effective(u) =>
       Over(edit[u].event) /\ edit[u].event.row = Current
  \/ \E w \in Editors, c \in FeedEntries :
       /\ \A u \in Editors : Effective(u) <=> u = w
       /\ Plus(edit[w].event) /\ Leads(v, toTab, c) /\ Inc(c) = Current

RowOK == ~astray /\ Fits /\ Base # Unknown /\ list # "reply" => Due(Base)
ReplyOK == list = "reply" /\ ~astray => Base \in {Unknown, Absent}

------------------------------------------------------------------------------
(* What is gone *)

DropAhead ==
  \/ \E i \in DOMAIN toTab : toTab[i].op = "drop" /\ \A j \in DOMAIN toTab : j > i => toTab[j].op # "put"
  \/ \E w \in Editors : Late(w) /\ edit[w].event.op = "drop"

Closed ==
  /\ ~(list = "self" /\ open) /\ ~(list = "topic" /\ selected)
  /\ held.is # "shown" /\ (query.phase = "served" => query.data = Absent)
  /\ \A i \in DOMAIN toTab : toTab[i].op # "put"

(* A topic or membership that is gone is closed, or the tab will hear of it.*)
GoneOK == list \in {"topic", "self"} /\ ~There /\ ~untold => DropAhead \/ Closed

------------------------------------------------------------------------------
(* Rows and counts *)

LEMMA ShownFields ==
  /\ \A s, n : Shown(s, n).is = "shown" /\ Shown(s, n).says = s /\ Shown(s, n).count = n
  /\ Unknown.is = "unknown" /\ Absent.is = "absent"
BY DEF Shown, Unknown, Absent

LEMMA EntryCases ==
  /\ Unknown # Absent
  /\ \A s, n : Shown(s, n) # Unknown /\ Shown(s, n) # Absent
  /\ \A v \in FeedEntries : \/ v = Unknown \/ v = Absent
                        \/ \E s \in Sayings, n \in Nat : v = Shown(s, n)
  /\ Unknown \in FeedEntries /\ Absent \in FeedEntries
  /\ \A s \in Sayings, n \in Nat : Shown(s, n) \in FeedEntries
BY ShownFields DEF FeedEntries

LEMMA ShownAgain ==
  \A s, n, m : [Shown(s, n) EXCEPT !.count = m] = Shown(s, m)
BY DEF Shown

LEMMA WhoFinite == IsFiniteSet(Who)
<1>1. IsFiniteSet({}) /\ IsFiniteSet({} \union {"user"})
  BY FS_EmptySet, FS_AddElement
<1>2. IsFiniteSet(({} \union {"user"}) \union {"other"})
  BY <1>1, FS_AddElement
<1>3. IsFiniteSet((({} \union {"user"}) \union {"other"}) \union {"author"})
  BY <1>2, FS_AddElement
<1>4. Who = (({} \union {"user"}) \union {"other"}) \union {"author"}
  BY DEF Who
<1> QED BY <1>3, <1>4

(* Who reads a message is counted once, and its author not at all.         *)
LEMMA CountRead ==
  ASSUME NEW R \in SUBSET Who, NEW a, NEW b \in Who
  PROVE  /\ Cardinality(R \ {a}) \in Nat
         /\ b \in R \/ b = a => Cardinality((R \union {b}) \ {a}) = Cardinality(R \ {a})
         /\ b \notin R /\ b # a => Cardinality((R \union {b}) \ {a}) = Cardinality(R \ {a}) + 1
<1>1. IsFiniteSet(R \ {a}) /\ Cardinality(R \ {a}) \in Nat
  BY WhoFinite, FS_Subset, FS_CardinalityType, FS_Difference
<1>2. ASSUME b \in R \/ b = a PROVE (R \union {b}) \ {a} = R \ {a}
  BY <1>2
<1>3. ASSUME b \notin R, b # a PROVE (R \union {b}) \ {a} = (R \ {a}) \union {b} /\ b \notin R \ {a}
  BY <1>3
<1>4. ASSUME b \notin R, b # a PROVE Cardinality((R \union {b}) \ {a}) = Cardinality(R \ {a}) + 1
  BY <1>1, <1>3, <1>4, FS_AddElement
<1> QED BY <1>1, <1>2, <1>4

LEMMA CountType == \A r \in ListRows : Count(r) \in Nat
<1> SUFFICES ASSUME NEW r \in ListRows PROVE Count(r) \in Nat
  OBVIOUS
<1>1. r.readers \in SUBSET Who
  BY DEF ListRows
<1>2. "user" \in Who
  BY DEF Who
<1> QED BY <1>1, <1>2, CountRead DEF Count

LEMMA RowFields ==
  ASSUME NEW r \in ListRows
  PROVE  /\ r.state \in {"none", "there", "gone"} /\ r.hidden \in BOOLEAN
         /\ r.says \in Sayings /\ r.readers \in SUBSET Who
BY DEF ListRows

LEMMA ShownOfType == \A r \in ListRows : ShownOf(r) \in FeedEntries /\ ShownOf(r) # Unknown
BY RowFields, CountType, EntryCases DEF ShownOf

LEMMA AuthorType == Author \in Who /\ Readers \subseteq Who
BY DEF Author, Readers, Who

------------------------------------------------------------------------------
(* Types *)

LEMMA EventFields ==
  ASSUME NEW ev \in FeedEvents
  PROVE  /\ ev.op \in {"none", "put", "drop", "plus"} /\ ev.row \in FeedEntries
         /\ ev.by \in Who /\ ev.fits \in BOOLEAN
BY DEF FeedEvents

LEMMA EditFields ==
  ASSUME NEW e \in Edits
  PROVE  /\ e.step \in {"free", "checked", "written", "ready", "told", "failed"}
         /\ e.op \in {"create", "update", "delete", "hide", "show", "add", "assign", "remove", "purge",
                      "close", "pin", "read"}
         /\ e.says \in Sayings \union {""} /\ e.by \in Who /\ e.event \in FeedEvents
BY DEF Edits

LEMMA NoEventType ==
  /\ NoEvent \in FeedEvents /\ NoEvent.op = "none" /\ NoEvent.row = Absent /\ NoEvent.fits
  /\ [NoEvent EXCEPT !.op = "drop"] \in FeedEvents
  /\ [NoEvent EXCEPT !.op = "drop"].op = "drop" /\ [NoEvent EXCEPT !.op = "drop"].row = Absent
  /\ [NoEvent EXCEPT !.op = "drop"].fits
BY EntryCases DEF NoEvent, FeedEvents, Who

LEMMA FreeType ==
  /\ Free \in Edits /\ Free.step = "free" /\ Free.event = NoEvent
BY NoEventType DEF Free, Edits, Who

LEMMA QueryTypes ==
  /\ NoQuery \in Queries /\ NoQuery.phase = "idle" /\ NoQuery.data = Unknown
  /\ Sent \in Queries /\ Sent.phase = "asked" /\ Sent.data = Unknown
  /\ \A q \in Queries : q.phase \in {"idle", "asked", "served"} /\ q.data \in FeedEntries
  /\ \A d \in FeedEntries : /\ [phase |-> "served", data |-> d] \in Queries
                         /\ [phase |-> "served", data |-> d].phase = "served"
                         /\ [phase |-> "served", data |-> d].data = d
BY EntryCases DEF NoQuery, Sent, Queries

(* What an event of the code carries.                                      *)
LEMMA EventType ==
  ASSUME NEW e \in Edits, NEW r \in ListRows
  PROVE  EventOf(e, r) \in FeedEvents
<1>1. e.op \in {"create", "update", "delete", "hide", "show", "add", "assign", "remove", "purge",
                "close", "pin", "read"} /\ e.by \in Who
  BY EditFields
<1>2. CASE e.op \in {"create", "update", "add", "pin"}
  <2>1. EventOf(e, r) = [op |-> "put", row |-> Shown(r.says, Count(r)), by |-> e.by, fits |-> ShownOf(r) # Absent]
    BY <1>2 DEF EventOf
  <2>2. Shown(r.says, Count(r)) \in FeedEntries
    BY RowFields, CountType, EntryCases
  <2> QED BY <1>1, <2>1, <2>2 DEF FeedEvents
<1>3. CASE e.op \in {"delete", "remove"}
  BY <1>3, NoEventType DEF EventOf
<1>4. CASE e.op = "read"
  <2>1. EventOf(e, r) = [op |-> "plus", row |-> Absent, by |-> e.by, fits |-> Count(r) > Count(row)]
    BY <1>4 DEF EventOf
  <2> QED BY <1>1, <2>1, EntryCases DEF FeedEvents
<1>5. CASE e.op \in {"hide", "show", "assign", "purge", "close"}
  BY <1>5, NoEventType DEF EventOf
<1> QED BY <1>1, <1>2, <1>3, <1>4, <1>5

------------------------------------------------------------------------------
(* What events lead to *)

LEMMA TailFacts ==
  ASSUME NEW S, NEW q \in Seq(S), q # <<>>
  PROVE  /\ Head(q) = q[1] /\ 1 \in DOMAIN q /\ Head(q) \in S
         /\ Tail(q) \in Seq(S)
         /\ \A i \in DOMAIN Tail(q) : i + 1 \in DOMAIN q /\ Tail(q)[i] = q[i + 1] /\ i \in Nat
         /\ \A i \in DOMAIN q : i > 1 => i - 1 \in DOMAIN Tail(q) /\ Tail(q)[i - 1] = q[i]
         /\ DOMAIN q = 1 .. Len(q) /\ Len(q) \in Nat
OBVIOUS

LEMMA AppendFacts ==
  ASSUME NEW S, NEW q \in Seq(S), NEW e \in S
  PROVE  /\ Append(q, e) \in Seq(S)
         /\ Len(q) \in Nat /\ DOMAIN q = 1 .. Len(q) /\ DOMAIN Append(q, e) = 1 .. (Len(q) + 1)
         /\ Append(q, e)[Len(q) + 1] = e
         /\ \A i \in DOMAIN q : Append(q, e)[i] = q[i]
OBVIOUS

LEMMA OverOrPlus == \A ev : ~(Over(ev) /\ Plus(ev))
BY DEF Over, Plus

LEMMA LeadsHead ==
  ASSUME NEW q \in Seq(FeedEvents), q # <<>>, NEW v, NEW c, Leads(v, q, c),
         \A i, j \in DOMAIN q : Plus(q[i]) /\ Plus(q[j]) => i = j
  PROVE  Leads(Heard(v, Head(q)), Tail(q), c)
<1> DEFINE t == Tail(q)
<1>1. /\ Head(q) = q[1] /\ 1 \in DOMAIN q
      /\ \A i \in DOMAIN t : i + 1 \in DOMAIN q /\ t[i] = q[i + 1] /\ i \in Nat /\ i > 0
      /\ \A i \in DOMAIN q : i > 1 => i - 1 \in DOMAIN t /\ t[i - 1] = q[i]
      /\ \A i \in DOMAIN q : i \in Nat /\ i > 0
  BY TailFacts
<1> HIDE DEF t
(* The events from i on are those from i - 1 on of the rest.               *)
<1>2. ASSUME NEW i \in Nat, i > 0, NEW d, FromTo(q, i, d, c) PROVE FromTo(t, i - 1, d, c)
  <2>1. \A j \in DOMAIN t : j > i - 1 /\ Over(t[j]) => t[j].row = d
    <3> SUFFICES ASSUME NEW j \in DOMAIN t, j > i - 1, Over(t[j]) PROVE t[j].row = d
      OBVIOUS
    <3>1. j + 1 \in DOMAIN q /\ j + 1 > i /\ t[j] = q[j + 1]
      BY <1>1
    <3> QED BY <1>2, <3>1 DEF FromTo
  <2>2. ASSUME \A j \in DOMAIN q : j > i => ~Plus(q[j])
        PROVE  \A j \in DOMAIN t : j > i - 1 => ~Plus(t[j])
    <3> SUFFICES ASSUME NEW j \in DOMAIN t, j > i - 1 PROVE ~Plus(t[j])
      OBVIOUS
    <3>1. j + 1 \in DOMAIN q /\ j + 1 > i /\ t[j] = q[j + 1]
      BY <1>1
    <3> QED BY <2>2, <3>1
  <2>3. ASSUME NEW p \in DOMAIN q, p > i, Plus(q[p]), \A j \in DOMAIN q : j > p => ~Over(q[j])
        PROVE  \E k \in DOMAIN t : k > i - 1 /\ Plus(t[k]) /\ \A j \in DOMAIN t : j > k => ~Over(t[j])
    <3>1. p - 1 \in DOMAIN t /\ t[p - 1] = q[p] /\ p - 1 > i - 1
      BY <1>1, <1>2, <2>3
    <3>2. \A j \in DOMAIN t : j > p - 1 => ~Over(t[j])
      <4> SUFFICES ASSUME NEW j \in DOMAIN t, j > p - 1 PROVE ~Over(t[j])
        OBVIOUS
      <4>1. j + 1 \in DOMAIN q /\ j + 1 > p /\ t[j] = q[j + 1]
        BY <1>1
      <4> QED BY <2>3, <4>1
    <3> QED BY <2>3, <3>1, <3>2
  <2> QED BY <1>2, <2>1, <2>2, <2>3 DEF FromTo
<1>3. ASSUME NEW i \in DOMAIN q, Over(q[i]), FromTo(q, i, q[i].row, c)
      PROVE  Leads(Heard(v, Head(q)), t, c)
  <2>1. CASE i > 1
    BY <1>1, <1>2, <1>3, <2>1 DEF Leads
  <2>2. CASE i = 1
    <3>1. Heard(v, Head(q)) = q[1].row
      BY <1>1, <1>3, <2>2 DEF Heard
    <3>2. FromTo(t, 0, q[1].row, c)
      BY <1>2, <1>3, <2>2
    <3> QED BY <3>1, <3>2 DEF Leads
  <2> QED BY <1>1, <2>1, <2>2
<1>4. ASSUME FromTo(q, 0, v, c)
      PROVE  Leads(Heard(v, Head(q)), t, c)
  <2>1. CASE Plus(q[1])
    <3>1. ~Over(q[1]) /\ \A j \in DOMAIN q : j > 1 => ~Plus(q[j])
      BY <1>1, <2>1, OverOrPlus
    <3>2. c = Inc(v) /\ \A j \in DOMAIN q : j > 1 => ~Over(q[j])
      BY <1>1, <1>4, <2>1 DEF FromTo
    <3>3. FromTo(q, 1, Inc(v), c)
      BY <3>1, <3>2 DEF FromTo
    <3>4. FromTo(t, 0, Inc(v), c)
      BY <1>2, <3>3
    <3>5. Heard(v, Head(q)) = Inc(v)
      BY <1>1, <2>1, <3>1 DEF Heard
    <3> QED BY <3>4, <3>5 DEF Leads
  <2>2. CASE ~Plus(q[1])
    <3>1. FromTo(q, 1, v, c)
      BY <1>1, <1>4, <2>2 DEF FromTo
    <3>2. FromTo(t, 0, v, c)
      BY <1>2, <3>1
    <3>3. Heard(v, Head(q)) = v
      BY <1>1, <1>4, <2>2 DEF Heard, FromTo
    <3> QED BY <3>2, <3>3 DEF Leads
  <2> QED BY <2>1, <2>2
<1>5. Leads(Heard(v, Head(q)), t, c)
  BY <1>3, <1>4 DEF Leads
<1> QED BY <1>5 DEF t

(* Without receipts a list that says c already is led to c.                *)
LEMMA LeadsAlready ==
  ASSUME NEW q, NEW v, NEW c, Leads(v, q, c), \A i \in DOMAIN q : ~Plus(q[i])
  PROVE  Leads(c, q, c)
BY DEF Leads, FromTo

(* What a list says now does not change with an event that came before.    *)
LEMMA LeadsSkip ==
  ASSUME NEW q \in Seq(FeedEvents), q # <<>>, NEW v, Leads(v, q, v),
         \A i \in DOMAIN q : ~Plus(q[i])
  PROVE  Leads(v, Tail(q), v)
<1>1. Leads(Heard(v, Head(q)), Tail(q), v)
  BY LeadsHead
<1>2. \A i \in DOMAIN Tail(q) : ~Plus(Tail(q)[i])
  BY TailFacts
<1> QED BY <1>1, <1>2, LeadsAlready

LEMMA LeadsOver ==
  ASSUME NEW q \in Seq(FeedEvents), NEW e \in FeedEvents, NEW v, Over(e)
  PROVE  Leads(v, Append(q, e), e.row)
<1> DEFINE a == Append(q, e)
<1>1. /\ Len(q) \in Nat /\ DOMAIN a = 1 .. (Len(q) + 1) /\ a[Len(q) + 1] = e
  BY AppendFacts
<1> HIDE DEF a
<1>2. FromTo(a, Len(q) + 1, e.row, e.row)
  BY <1>1 DEF FromTo
<1>3. Leads(v, a, e.row)
  BY <1>1, <1>2 DEF Leads
<1> QED BY <1>3 DEF a

LEMMA LeadsMore ==
  ASSUME NEW q \in Seq(FeedEvents), NEW e \in FeedEvents, NEW v, NEW c, Leads(v, q, c), ~Over(e),
         Plus(e) => \A i \in DOMAIN q : ~Plus(q[i])
  PROVE  Leads(v, Append(q, e), IF Plus(e) THEN Inc(c) ELSE c)
<1> DEFINE a == Append(q, e)  k == IF Plus(e) THEN Inc(c) ELSE c
<1>1. /\ Len(q) \in Nat /\ DOMAIN q = 1 .. Len(q) /\ DOMAIN a = 1 .. (Len(q) + 1)
      /\ a[Len(q) + 1] = e /\ \A i \in DOMAIN q : a[i] = q[i]
  BY AppendFacts
<1>2. (Plus(e) => k = Inc(c)) /\ (~Plus(e) => k = c)
  OBVIOUS
<1> HIDE DEF a, k
<1>3. PICK n : n = Len(q) + 1
  OBVIOUS
<1>4. /\ DOMAIN a = DOMAIN q \union {n} /\ a[n] = e /\ \A i \in DOMAIN q : a[i] = q[i] /\ i < n /\ i \in Nat
      /\ n \in Nat
  BY <1>1, <1>3
<1>5. ASSUME NEW i \in DOMAIN q \union {0}, NEW d, FromTo(q, i, d, c) PROVE FromTo(a, i, d, k)
  <2>1. \A j \in DOMAIN a : j > i /\ Over(a[j]) => a[j].row = d
    BY <1>4, <1>5 DEF FromTo
  <2>2. i < n
    BY <1>1, <1>3
  <2>3. CASE Plus(e)
    <3>1. c = d
      BY <1>5, <2>3 DEF FromTo
    <3>2. \A j \in DOMAIN a : ~(j > n)
      BY <1>1, <1>3
    <3> QED BY <1>2, <1>4, <2>1, <2>2, <2>3, <3>1, <3>2 DEF FromTo
  <2>4. CASE ~Plus(e)
    BY <1>2, <1>4, <1>5, <2>1, <2>4 DEF FromTo
  <2> QED BY <2>3, <2>4
<1>6. Leads(v, a, k)
  BY <1>4, <1>5 DEF Leads
<1> QED BY <1>6 DEF a, k

------------------------------------------------------------------------------
(* What a request changes *)

LEMMA OpCases ==
  ASSUME list \in Lists
  PROVE  /\ list = "topic" => Ops = {"create", "update", "delete", "hide", "show"}
         /\ list \in {"member", "self"} => Ops = {"add", "assign", "remove", "purge"}
         /\ list = "room" => Ops = {"update", "close"}
         /\ list \in MessageLists => Ops = {"pin", "read"}
BY DEF Lists, Ops, MessageLists

LEMMA ListCases ==
  list \in Lists => \/ list = "topic" \/ list \in {"member", "self"} \/ list = "room" \/ list \in MessageLists
BY DEF Lists, MessageLists

LEMMA ChangedFields ==
  ASSUME NEW e \in Edits, row \in ListRows, e.says \in Sayings
  PROVE  /\ Changed(e) \in ListRows
         /\ Changed(e).readers = IF e.op = "read" THEN row.readers \union {e.by} ELSE row.readers
         /\ Changed(e).hidden = IF e.op \in {"hide", "show"} THEN e.op = "hide" ELSE row.hidden
         /\ Changed(e).says = IF e.op \in {"create", "add", "update", "assign", "pin"} THEN e.says ELSE row.says
         /\ Changed(e).state = IF e.op \in {"create", "add"} THEN "there"
                               ELSE IF e.op \in {"delete", "close"} THEN "gone"
                               ELSE IF e.op \in {"remove", "purge"} THEN "none" ELSE row.state
<1>1. /\ row.readers \in SUBSET Who /\ row.says \in Sayings /\ row.hidden \in BOOLEAN
      /\ row.state \in {"none", "there", "gone"} /\ e.by \in Who
      /\ e.op \in {"create", "update", "delete", "hide", "show", "add", "assign", "remove", "purge",
                   "close", "pin", "read"}
  BY RowFields, EditFields
<1>2. CASE e.op \in {"create", "add"}
  <2>1. Changed(e) = [row EXCEPT !.state = "there", !.says = e.says]
    BY <1>2 DEF Changed
  <2> QED BY <1>1, <1>2, <2>1 DEF ListRows
<1>3. CASE e.op \in {"update", "assign", "pin"}
  <2>1. Changed(e) = [row EXCEPT !.says = e.says]
    BY <1>3 DEF Changed
  <2> QED BY <1>1, <1>3, <2>1 DEF ListRows
<1>4. CASE e.op \in {"delete", "close"}
  <2>1. Changed(e) = [row EXCEPT !.state = "gone"]
    BY <1>4 DEF Changed
  <2> QED BY <1>1, <1>4, <2>1 DEF ListRows
<1>5. CASE e.op \in {"remove", "purge"}
  <2>1. Changed(e) = [row EXCEPT !.state = "none"]
    BY <1>5 DEF Changed
  <2> QED BY <1>1, <1>5, <2>1 DEF ListRows
<1>6. CASE e.op \in {"hide", "show"}
  <2> DEFINE h == (e.op = "hide")
  <2>1. Changed(e) = [row EXCEPT !.hidden = h]
    BY <1>6 DEF Changed
  <2>2. h \in BOOLEAN
    OBVIOUS
  <2> HIDE DEF h
  <2>3. Changed(e) \in ListRows /\ Changed(e).readers = row.readers /\ Changed(e).hidden = h
        /\ Changed(e).says = row.says /\ Changed(e).state = row.state
    BY <1>1, <2>1, <2>2 DEF ListRows
  <2>4. h <=> e.op = "hide"
    BY DEF h
  <2> QED BY <1>6, <2>3, <2>4 DEF h
<1>7. CASE e.op = "read"
  <2>1. Changed(e) = [row EXCEPT !.readers = row.readers \union {e.by}]
    BY <1>7 DEF Changed
  <2> QED BY <1>1, <1>7, <2>1 DEF ListRows
<1> QED BY <1>1, <1>2, <1>3, <1>4, <1>5, <1>6, <1>7

LEMMA EventOps ==
  ASSUME NEW e \in Edits, NEW r \in ListRows, NEW ev, ev = EventOf(e, r)
  PROVE  /\ e.op \in {"create", "update", "add", "pin"} =>
              /\ ev.op = "put" /\ ev.row = Shown(r.says, Count(r)) /\ ev.by = e.by
              /\ (ev.fits <=> ShownOf(r) # Absent)
         /\ e.op \in {"delete", "remove"} => ev.op = "drop" /\ ev.row = Absent /\ ev.fits
         /\ e.op = "read" => ev.op = "plus" /\ ev.by = e.by /\ (ev.fits <=> Count(r) > Count(row))
         /\ e.op \in {"hide", "show", "assign", "purge", "close"} => ev = NoEvent
<1>1. ASSUME e.op \in {"create", "update", "add", "pin"}
      PROVE  EventOf(e, r) = [op |-> "put", row |-> Shown(r.says, Count(r)), by |-> e.by, fits |-> ShownOf(r) # Absent]
  BY <1>1 DEF EventOf
<1>2. ASSUME e.op \in {"delete", "remove"}
      PROVE  EventOf(e, r) = [NoEvent EXCEPT !.op = "drop"]
  BY <1>2 DEF EventOf
<1>3. ASSUME e.op = "read"
      PROVE  EventOf(e, r) = [op |-> "plus", row |-> Absent, by |-> e.by, fits |-> Count(r) > Count(row)]
  BY <1>3 DEF EventOf
<1>4. ASSUME e.op \in {"hide", "show", "assign", "purge", "close"}
      PROVE  EventOf(e, r) = NoEvent
  BY <1>4 DEF EventOf
<1>5. ASSUME e.op \in {"create", "update", "add", "pin"}
      PROVE  /\ ev.op = "put" /\ ev.row = Shown(r.says, Count(r)) /\ ev.by = e.by
             /\ (ev.fits <=> ShownOf(r) # Absent)
  <2> DEFINE b == (ShownOf(r) # Absent)
  <2>1. ev = [op |-> "put", row |-> Shown(r.says, Count(r)), by |-> e.by, fits |-> b]
    BY <1>1, <1>5
  <2> HIDE DEF b
  <2>2. ev.op = "put" /\ ev.row = Shown(r.says, Count(r)) /\ ev.by = e.by /\ ev.fits = b
    BY <2>1
  <2> QED BY <2>2 DEF b
<1>6. ASSUME e.op = "read"
      PROVE  ev.op = "plus" /\ ev.by = e.by /\ (ev.fits <=> Count(r) > Count(row))
  <2> DEFINE b == (Count(r) > Count(row))
  <2>1. ev = [op |-> "plus", row |-> Absent, by |-> e.by, fits |-> b]
    BY <1>3, <1>6
  <2> HIDE DEF b
  <2>2. ev.op = "plus" /\ ev.by = e.by /\ ev.fits = b
    BY <2>1
  <2> QED BY <2>2 DEF b
<1> QED BY <1>2, <1>4, <1>5, <1>6, NoEventType

LEMMA EndedType ==
  ASSUME edit \in [Editors -> Edits], NEW w \in Editors, NEW s \in {"told", "failed"}
  PROVE  /\ Ended(w, s) \in Edits /\ Ended(w, s).step \in {"free", s}
         /\ Ended(w, s).step = s => Ended(w, s).op = edit[w].op /\ Ended(w, s).says = edit[w].says
         /\ Ended(w, s).event \in {edit[w].event, NoEvent}
<1>1. PICK k \in Edits : k = edit[w]
  OBVIOUS
<1>2. CASE w = Tab
  <2>1. Ended(w, s) = [k EXCEPT !.step = s]
    BY <1>1, <1>2 DEF Ended
  <2>2. /\ [k EXCEPT !.step = s] \in Edits /\ [k EXCEPT !.step = s].step = s
        /\ [k EXCEPT !.step = s].op = k.op /\ [k EXCEPT !.step = s].says = k.says
        /\ [k EXCEPT !.step = s].event = k.event
    BY DEF Edits
  <2> QED BY <1>1, <2>1, <2>2
<1>3. CASE w # Tab
  <2>1. Ended(w, s) = Free
    BY <1>3 DEF Ended
  <2> QED BY <2>1, FreeType
<1> QED BY <1>2, <1>3

LEMMA EditChanged ==
  ASSUME edit \in [Editors -> Edits], NEW w \in Editors, NEW e \in Edits,
         edit' = [edit EXCEPT ![w] = e]
  PROVE  /\ edit' \in [Editors -> Edits] /\ edit'[w] = e
         /\ \A v \in Editors \ {w} : edit'[v] = edit[v]
OBVIOUS

(* The statements of a request, in terms of its fields.                    *)
LEMMA CheckStep ==
  ASSUME FeedTypes, NEW w \in Editors, Check(w)
  PROVE  /\ edit[w] = Free /\ edit' \in [Editors -> Edits]
         /\ edit'[w].step = "checked" /\ edit'[w].op \in Ops /\ edit'[w].says \in Sayings
         /\ edit'[w].event = NoEvent
         /\ \A v \in Editors \ {w} : edit'[v] = edit[v]
<1>1. PICK op \in Ops, s \in Sayings, by \in Readers :
        edit' = [edit EXCEPT ![w] = [Free EXCEPT !.step = "checked", !.op = op, !.says = s, !.by = by]]
  BY DEF Check
<1> DEFINE e == [Free EXCEPT !.step = "checked", !.op = op, !.says = s, !.by = by]
<1>2. op \in {"create", "update", "delete", "hide", "show", "add", "assign", "remove", "purge",
              "close", "pin", "read"} /\ by \in Who
  BY OpCases, ListCases, AuthorType DEF FeedTypes
<1>3. e \in Edits /\ e.step = "checked" /\ e.op = op /\ e.says = s /\ e.event = NoEvent
  BY <1>2, FreeType DEF Edits, Free
<1>4. edit' = [edit EXCEPT ![w] = e] /\ edit[w] = Free
  BY <1>1 DEF Check
<1> HIDE DEF e
<1> QED BY <1>3, <1>4, EditChanged DEF FeedTypes

LEMMA WriteStep ==
  ASSUME FeedTypes, ListShape, NEW w \in Editors, Write(w)
  PROVE  /\ edit[w] \in Edits /\ edit[w].step = "checked" /\ edit[w].op \in Ops /\ edit[w].says \in Sayings
         /\ edit' \in [Editors -> Edits] /\ \A v \in Editors \ {w} : edit'[v] = edit[v]
         /\ \/ /\ Takes(edit[w].op) /\ row' = Changed(edit[w]) /\ row' \in ListRows
               /\ edit'[w].step = IF list = "room" /\ edit[w].op = "update" THEN "written" ELSE "ready"
               /\ edit'[w].op = edit[w].op /\ edit'[w].says = edit[w].says
               /\ edit'[w].event = EventOf(edit[w], Changed(edit[w]))
               /\ astray' = (astray \/ Silent(EventOf(edit[w], row'), row, row')
                                    \/ \E v \in Editors \ {w} : Late(v))
               /\ untold' = (row'.state # "there" /\ (untold \/ EventOf(edit[w], row').op = "none"))
            \/ /\ UNCHANGED <<row, astray, untold>>
               /\ edit'[w].step \in {"free", "failed"}
               /\ edit'[w].step # "free" => edit'[w].op = edit[w].op /\ edit'[w].says = edit[w].says
               /\ edit'[w].event \in {edit[w].event, NoEvent}
<1>1. /\ edit[w] \in Edits /\ edit[w].step = "checked" /\ edit[w].op \in Ops /\ edit[w].says \in Sayings
      /\ row \in ListRows /\ edit \in [Editors -> Edits]
  BY DEF Write, FeedTypes, ListShape, EditShape, ListOf
<1>2. CASE Takes(edit[w].op)
  <2> DEFINE ev == EventOf(edit[w], Changed(edit[w]))
             s == IF list = "room" /\ edit[w].op = "update" THEN "written" ELSE "ready"
             e == [edit[w] EXCEPT !.step = s, !.event = ev]
  <2>k. PICK k \in Edits : k = edit[w]
    BY <1>1
  <2>1. Changed(edit[w]) \in ListRows /\ row' = Changed(edit[w])
    BY <1>1, <1>2, ChangedFields DEF Write
  <2>2. ev \in FeedEvents
    BY <1>1, <2>1, EventType
  <2>4. edit' = [edit EXCEPT ![w] = e]
    BY <1>2 DEF Write
  <2>s. s \in {"free", "checked", "written", "ready", "told", "failed"}
    OBVIOUS
  <2>3. e \in Edits /\ e.step = s /\ e.op = edit[w].op /\ e.says = edit[w].says /\ e.event = ev
    <3> HIDE DEF ev, s
    <3>1. e = [k EXCEPT !.step = s, !.event = ev]
      BY <2>k
    <3> HIDE DEF e
    <3> QED BY <2>2, <2>k, <2>s, <3>1 DEF Edits
  <2>5. /\ astray' = (astray \/ Silent(EventOf(edit[w], row'), row, row') \/ \E v \in Editors \ {w} : Late(v))
        /\ untold' = (row'.state # "there" /\ (untold \/ EventOf(edit[w], row').op = "none"))
    BY <1>2, <2>1, Zenon DEF Write
  <2> HIDE DEF e
  <2>6. edit' \in [Editors -> Edits] /\ edit'[w] = e /\ \A v \in Editors \ {w} : edit'[v] = edit[v]
    BY <1>1, <2>3, <2>4, EditChanged
  <2> QED BY <1>1, <1>2, <2>1, <2>3, <2>5, <2>6
<1>3. CASE ~Takes(edit[w].op)
  <2> DEFINE e == Ended(w, "failed")
  <2>1. /\ e \in Edits /\ e.step \in {"free", "failed"} /\ e.event \in {edit[w].event, NoEvent}
        /\ e.step # "free" => e.op = edit[w].op /\ e.says = edit[w].says
    BY <1>1, EndedType
  <2>2. edit' = [edit EXCEPT ![w] = e] /\ UNCHANGED <<row, astray, untold>>
    BY <1>3 DEF Write, history
  <2> HIDE DEF e
  <2>3. edit' \in [Editors -> Edits] /\ edit'[w] = e /\ \A v \in Editors \ {w} : edit'[v] = edit[v]
    BY <1>1, <2>1, <2>2, EditChanged
  <2> QED BY <1>1, <2>1, <2>2, <2>3
<1> QED BY <1>2, <1>3

LEMMA ReadBackStep ==
  ASSUME FeedTypes, NEW w \in Editors, ReadBack(w)
  PROVE  /\ edit[w].step = "written" /\ edit' \in [Editors -> Edits]
         /\ \A v \in Editors \ {w} : edit'[v] = edit[v]
         /\ \/ /\ There /\ edit'[w].step = "ready"
               /\ edit'[w].op = edit[w].op /\ edit'[w].says = edit[w].says
               /\ edit'[w].event.op = "put"
               /\ \E n \in 0 .. 1 : /\ edit'[w].event.row = Shown(row.says, n)
                                    /\ edit'[w].event.fits <=> n = Count(row)
            \/ /\ ~There /\ edit'[w].step \in {"free", "failed"}
               /\ edit'[w].step # "free" => edit'[w].op = edit[w].op /\ edit'[w].says = edit[w].says
               /\ edit'[w].event \in {edit[w].event, NoEvent}
<1>1. edit[w] \in Edits /\ edit \in [Editors -> Edits] /\ row \in ListRows /\ edit[w].step = "written"
  BY DEF FeedTypes, ReadBack
<1>2. CASE There
  <2>1. PICK n \in 0 .. 1 : edit' = [edit EXCEPT ![w].step = "ready", ![w].event =
                 [op |-> "put", row |-> Shown(row.says, n), by |-> edit[w].by, fits |-> n = Count(row)]]
    BY <1>2 DEF ReadBack
  <2> DEFINE ev == [op |-> "put", row |-> Shown(row.says, n), by |-> edit[w].by, fits |-> n = Count(row)]
             e == [edit[w] EXCEPT !.step = "ready", !.event = ev]
  <2>k. PICK k \in Edits : k = edit[w]
    BY <1>1
  <2>a. n \in Nat
    OBVIOUS
  <2>b. row.says \in Sayings
    BY <1>1, RowFields
  <2>c. k.by \in Who
    BY EditFields
  <2>2. Shown(row.says, n) \in FeedEntries /\ edit[w].by \in Who
    BY <2>k, <2>a, <2>b, <2>c, EntryCases
  <2>3. ev \in FeedEvents /\ ev.op = "put" /\ ev.row = Shown(row.says, n) /\ (ev.fits <=> n = Count(row))
    BY <2>2 DEF FeedEvents
  <2>4. edit' = [edit EXCEPT ![w] = e]
    BY <2>1
  <2> HIDE DEF ev
  <2>5. e \in Edits /\ e.step = "ready" /\ e.op = edit[w].op /\ e.says = edit[w].says /\ e.event = ev
    <3>1. e = [k EXCEPT !.step = "ready", !.event = ev]
      BY <2>k
    <3> HIDE DEF e
    <3> QED BY <2>3, <2>k, <3>1 DEF Edits
  <2> HIDE DEF e
  <2>6. edit' \in [Editors -> Edits] /\ edit'[w] = e /\ \A v \in Editors \ {w} : edit'[v] = edit[v]
    BY <1>1, <2>4, <2>5, EditChanged
  <2> QED BY <1>1, <1>2, <2>3, <2>5, <2>6
<1>3. CASE ~There
  <2> DEFINE e == Ended(w, "failed")
  <2>1. /\ e \in Edits /\ e.step \in {"free", "failed"} /\ e.event \in {edit[w].event, NoEvent}
        /\ e.step # "free" => e.op = edit[w].op /\ e.says = edit[w].says
    BY <1>1, EndedType
  <2>2. edit' = [edit EXCEPT ![w] = e]
    BY <1>3 DEF ReadBack
  <2> HIDE DEF e
  <2>3. edit' \in [Editors -> Edits] /\ edit'[w] = e /\ \A v \in Editors \ {w} : edit'[v] = edit[v]
    BY <1>1, <2>1, <2>2, EditChanged
  <2> QED BY <1>1, <1>3, <2>1, <2>3
<1> QED BY <1>2, <1>3

(* Emit, Dies: the request is over.                                        *)
LEMMA OverStep ==
  ASSUME FeedTypes, NEW w \in Editors, Emit(w) \/ Dies(w)
  PROVE  /\ edit[w].step \in {"checked", "written", "ready"} /\ edit' \in [Editors -> Edits]
         /\ \A v \in Editors \ {w} : edit'[v] = edit[v]
         /\ edit'[w].step \in {"free", "told", "failed"}
         /\ edit'[w].step # "free" => edit'[w].op = edit[w].op /\ edit'[w].says = edit[w].says
         /\ edit'[w].event \in {edit[w].event, NoEvent}
<1>1. edit[w] \in Edits /\ edit \in [Editors -> Edits]
  BY DEF FeedTypes
<1>2. PICK s \in {"told", "failed"} : edit' = [edit EXCEPT ![w] = Ended(w, s)]
  BY DEF Emit, Dies
<1> DEFINE e == Ended(w, s)
<1>3. /\ e \in Edits /\ e.step \in {"free", s} /\ e.event \in {edit[w].event, NoEvent}
      /\ e.step = s => e.op = edit[w].op /\ e.says = edit[w].says
  BY <1>1, EndedType
<1>4. edit' = [edit EXCEPT ![w] = e] /\ edit[w].step \in {"checked", "written", "ready"}
  BY <1>2 DEF Emit, Dies
<1> HIDE DEF e
<1>5. edit' \in [Editors -> Edits] /\ edit'[w] = e /\ \A v \in Editors \ {w} : edit'[v] = edit[v]
  BY <1>1, <1>3, <1>4, EditChanged
<1> QED BY <1>3, <1>4, <1>5

------------------------------------------------------------------------------
(* Types and shapes *)

LEMMA EventFitsSame ==
  ASSUME list' = list
  PROVE  \A ev : EventFits(ev)' <=> EventFits(ev)
BY DEF EventFits

LEMMA NoEventFits == EventFits(NoEvent)
BY NoEventType DEF EventFits

(* A request has gone on.                                                  *)
LEMMA EditShapes ==
  ASSUME EditShape, list' = list, NEW w \in Editors, \A v \in Editors \ {w} : edit'[v] = edit[v],
         edit'[w].step # "free" => edit'[w].op \in Ops /\ edit'[w].says \in Sayings,
         edit'[w].step = "written" => list = "room",
         NEW ev, ev = edit'[w].event, EventFits(ev)
  PROVE  EditShape'
<1>1. Ops' = Ops /\ \A e : EventFits(e)' <=> EventFits(e)
  BY EventFitsSame DEF Ops, MessageLists
<1>2. ListOf(w)'
  BY <1>1 DEF ListOf, EventFits
<1>3. ASSUME NEW v \in Editors \ {w} PROVE ListOf(v)'
  BY <1>1, <1>3 DEF EditShape, ListOf, EventFits
<1> QED BY <1>2, <1>3 DEF EditShape

LEMMA EditShapesSame ==
  ASSUME EditShape, UNCHANGED <<list, edit>>
  PROVE  EditShape'
<1>1. Ops' = Ops
  BY DEF Ops, MessageLists
<1> QED BY <1>1 DEF EditShape, ListOf, EventFits

LEMMA WireShapesSame ==
  ASSUME WireShape, UNCHANGED list, toTab' = toTab \/ toTab' = <<>>
  PROVE  WireShape'
BY DEF WireShape, EventFits

LEMMA CheckShape == ASSUME Shaped, NEW w \in Editors, Check(w) PROVE Shaped'
<1>1. UNCHANGED <<list, row, toTab, held, query, astray, untold>>
  BY DEF Check, wire, entry, history
<1>2. /\ edit' \in [Editors -> Edits] /\ edit'[w].step = "checked" /\ edit'[w].op \in Ops
      /\ edit'[w].says \in Sayings /\ edit'[w].event = NoEvent
      /\ \A v \in Editors \ {w} : edit'[v] = edit[v]
  BY CheckStep DEF Shaped
<1>3. EditShape'
  BY <1>1, <1>2, EditShapes, NoEventFits DEF Shaped, ListShape
<1>4. WireShape'
  BY <1>1, WireShapesSame DEF Shaped, ListShape
<1>5. FeedTypes'
  BY <1>1, <1>2 DEF Shaped, FeedTypes
<1> QED BY <1>1, <1>3, <1>4, <1>5 DEF Shaped, ListShape, RowShape, RoomShape, There

LEMMA WriteShape == ASSUME Shaped, NEW w \in Editors, Write(w) PROVE Shaped'
<1>1. UNCHANGED <<list, toTab, held, query>>
  BY DEF Write, wire, entry
<1>2. /\ edit[w] \in Edits /\ edit[w].op \in Ops /\ edit[w].says \in Sayings
      /\ edit' \in [Editors -> Edits] /\ \A v \in Editors \ {w} : edit'[v] = edit[v]
      /\ row \in ListRows /\ list \in Lists
  BY WriteStep DEF Shaped, FeedTypes
<1>3. WireShape'
  BY <1>1, WireShapesSame DEF Shaped, ListShape
<1>4. CASE UNCHANGED <<row, astray, untold>> /\ edit'[w].step \in {"free", "failed"}
           /\ (edit'[w].step # "free" => edit'[w].op = edit[w].op /\ edit'[w].says = edit[w].says)
           /\ edit'[w].event \in {edit[w].event, NoEvent}
  <2>1. EventFits(edit[w].event) /\ EditShape
    BY DEF Shaped, ListShape, EditShape, ListOf
  <2>2. PICK ev : ev = edit'[w].event
    OBVIOUS
  <2>3. EventFits(ev)
    BY <1>4, <2>1, <2>2, NoEventFits
  <2>4. EditShape'
    BY <1>1, <1>2, <1>4, <2>1, <2>2, <2>3, EditShapes
  <2>5. FeedTypes'
    BY <1>1, <1>2, <1>4 DEF Shaped, FeedTypes
  <2> QED BY <1>1, <1>3, <1>4, <2>4, <2>5 DEF Shaped, ListShape, RowShape, RoomShape, There
<1>5. CASE /\ row' = Changed(edit[w]) /\ row' \in ListRows
           /\ edit'[w].step = IF list = "room" /\ edit[w].op = "update" THEN "written" ELSE "ready"
           /\ edit'[w].op = edit[w].op /\ edit'[w].says = edit[w].says
           /\ edit'[w].event = EventOf(edit[w], Changed(edit[w]))
           /\ astray' = (astray \/ Silent(EventOf(edit[w], row'), row, row')
                                \/ \E v \in Editors \ {w} : Late(v))
           /\ untold' = (row'.state # "there" /\ (untold \/ EventOf(edit[w], row').op = "none"))
  <2>1. PICK e, r, ev : e \in Edits /\ r \in ListRows /\ e = edit[w] /\ r = row' /\ ev = EventOf(e, r)
    BY <1>2, <1>5
  <2>2. /\ e.op \in {"create", "update", "add", "pin"} =>
              /\ ev.op = "put" /\ ev.row = Shown(r.says, Count(r)) /\ (ev.fits <=> ShownOf(r) # Absent)
        /\ e.op \in {"delete", "remove"} => ev.op = "drop" /\ ev.row = Absent /\ ev.fits
        /\ e.op = "read" => ev.op = "plus"
        /\ e.op \in {"hide", "show", "assign", "purge", "close"} => ev.op = "none" /\ ev.fits
    BY <2>1, EventOps, NoEventType
  <2>3. /\ r.hidden = IF e.op \in {"hide", "show"} THEN e.op = "hide" ELSE row.hidden
        /\ r.state = IF e.op \in {"create", "add"} THEN "there"
                     ELSE IF e.op \in {"delete", "close"} THEN "gone"
                     ELSE IF e.op \in {"remove", "purge"} THEN "none" ELSE row.state
    BY <1>2, <1>5, <2>1, ChangedFields
  <2>o. /\ list = "topic" => e.op \in {"create", "update", "delete", "hide", "show"}
        /\ list \in {"member", "self"} => e.op \in {"add", "assign", "remove", "purge"}
        /\ list = "room" => e.op \in {"update", "close"}
        /\ list \in MessageLists => e.op \in {"pin", "read"}
        /\ list = "topic" \/ list \in {"member", "self"} \/ list = "room" \/ list \in MessageLists
        /\ "topic" \notin MessageLists /\ "room" \notin MessageLists /\ "reply" \in MessageLists
        /\ "member" \notin MessageLists /\ "self" \notin MessageLists
    BY <1>2, <2>1, OpCases, ListCases DEF MessageLists
  <2>r. list = "reply" => ShownOf(r) = Absent
    <3>1. list = "reply" => row.hidden /\ e.op \in {"pin", "read"}
      BY <2>o DEF Shaped, ListShape, RowShape
    <3> QED BY <2>3, <3>1 DEF ShownOf
  <2>4. EventFits(ev)
    BY <2>2, <2>o, <2>r, ShownFields DEF EventFits
  <2>5. EditShape'
    <3>1. ev = edit'[w].event
      BY <1>5, <2>1
    <3> QED BY <1>1, <1>2, <1>5, <2>4, <3>1, EditShapes DEF Shaped, ListShape
  <2>6. FeedTypes'
    BY <1>1, <1>2, <1>5 DEF Shaped, FeedTypes
  <2>7. RowShape'
    <3>1. RowShape /\ row' = r
      BY <2>1 DEF Shaped, ListShape
    <3> QED BY <1>1, <2>3, <2>o, <3>1 DEF RowShape, There
  <2>8. RoomShape'
    <3> SUFFICES ASSUME list = "room" PROVE RoomShape'
      BY <1>1 DEF RoomShape
    <3>1. held # Absent /\ query.data # Absent /\ (row.state # "there" => astray /\ untold)
      BY DEF Shaped, ListShape, RoomShape, There
    <3>2. CASE e.op = "update"
      <4>1. row'.state = row.state
        BY <2>1, <2>3, <3>2
      <4>2. row'.state # "there" => astray' /\ untold'
        BY <1>5, <3>1, <4>1
      <4> QED BY <1>1, <3>1, <4>2 DEF RoomShape, There
    <3>3. CASE e.op = "close"
      <4>1. ev.op = "none" /\ r.state = "gone"
        BY <2>2, <2>3, <3>3
      <4>2. ShownOf(r) = Absent
        BY <4>1 DEF ShownOf
      <4>3. row.state = "there" => ShownOf(row) # Absent
        <5>1. ~row.hidden
          BY DEF Shaped, ListShape, RowShape
        <5> QED BY <5>1, EntryCases DEF ShownOf
      <4>4. Silent(ev, row, r) \/ astray
        BY <3>1, <4>1, <4>2, <4>3 DEF Silent
      <4>5. astray' /\ untold'
        BY <1>5, <2>1, <4>1, <4>4
      <4> QED BY <1>1, <3>1, <4>5 DEF RoomShape
    <3> QED BY <2>o, <3>2, <3>3
  <2> QED BY <1>3, <2>5, <2>6, <2>7, <2>8 DEF Shaped, ListShape
<1> QED BY <1>4, <1>5, WriteStep DEF Shaped

LEMMA ReadBackShape == ASSUME Shaped, NEW w \in Editors, ReadBack(w) PROVE Shaped'
<1>1. UNCHANGED <<list, row, toTab, held, query, astray, untold>>
  BY DEF ReadBack, wire, entry, history
<1>2. /\ edit[w].step = "written" /\ edit' \in [Editors -> Edits]
      /\ \A v \in Editors \ {w} : edit'[v] = edit[v]
      /\ edit'[w].step \in {"ready", "free", "failed"}
      /\ edit'[w].step # "free" => edit'[w].op = edit[w].op /\ edit'[w].says = edit[w].says
      /\ \/ edit'[w].event.op = "put" /\ \E n \in 0 .. 1 : edit'[w].event.row = Shown(row.says, n)
         \/ edit'[w].event \in {edit[w].event, NoEvent}
  BY ReadBackStep DEF Shaped
<1>3. EditShape /\ edit[w].op \in Ops /\ edit[w].says \in Sayings /\ EventFits(edit[w].event)
  BY <1>2 DEF Shaped, ListShape, EditShape, ListOf
<1>4. PICK ev : ev = edit'[w].event
  OBVIOUS
<1>r. list = "room"
  BY <1>2 DEF Shaped, ListShape, EditShape, ListOf
<1>5. EventFits(ev)
  <2>1. CASE ev \in {edit[w].event, NoEvent}
    BY <1>3, <2>1, NoEventFits
  <2>2. CASE ev.op = "put" /\ \E n \in 0 .. 1 : ev.row = Shown(row.says, n)
    <3>1. ev.row.is = "shown"
      BY <2>2, ShownFields
    <3> QED BY <1>r, <2>2, <3>1 DEF EventFits
  <2> QED BY <1>2, <1>4, <2>1, <2>2
<1>6. EditShape'
  BY <1>1, <1>2, <1>3, <1>4, <1>5, EditShapes
<1>7. WireShape'
  BY <1>1, WireShapesSame DEF Shaped, ListShape
<1>8. FeedTypes'
  BY <1>1, <1>2 DEF Shaped, FeedTypes
<1> QED BY <1>1, <1>6, <1>7, <1>8 DEF Shaped, ListShape, RowShape, RoomShape, There

LEMMA OverShape == ASSUME Shaped, NEW w \in Editors, Emit(w) \/ Dies(w) PROVE Shaped'
<1>1. UNCHANGED <<list, row, held, query>> /\ (astray => astray') /\ (untold => untold')
  BY DEF Emit, Dies, wire, view, entry, history
<1>2. /\ edit[w].step # "free" /\ edit' \in [Editors -> Edits]
      /\ \A v \in Editors \ {w} : edit'[v] = edit[v]
      /\ edit'[w].step \in {"free", "told", "failed"}
      /\ edit'[w].step # "free" => edit'[w].op = edit[w].op /\ edit'[w].says = edit[w].says
      /\ edit'[w].event \in {edit[w].event, NoEvent}
  BY OverStep DEF Shaped
<1>3. EditShape /\ edit[w].op \in Ops /\ edit[w].says \in Sayings /\ EventFits(edit[w].event)
      /\ edit[w].event \in FeedEvents
  BY <1>2, EditFields DEF Shaped, ListShape, EditShape, ListOf, FeedTypes
<1>4. PICK ev, old : ev = edit'[w].event /\ old = edit[w].event
  OBVIOUS
<1>5. EventFits(ev) /\ EventFits(old) /\ old \in FeedEvents
  BY <1>2, <1>3, <1>4, NoEventFits
<1>6. EditShape'
  BY <1>1, <1>2, <1>3, <1>4, <1>5, EditShapes
<1>7. toTab' = toTab \/ (toTab' = Append(toTab, old) /\ old.op # "none")
  BY <1>4 DEF Emit, Dies, wire
<1>8. WireShape' /\ toTab' \in Seq(FeedEvents)
  <2>1. WireShape /\ toTab \in Seq(FeedEvents)
    BY DEF Shaped, ListShape, FeedTypes
  <2>2. CASE toTab' = toTab
    BY <1>1, <2>1, <2>2, WireShapesSame
  <2>3. CASE toTab' = Append(toTab, old) /\ old.op # "none"
    <3>1. /\ toTab' \in Seq(FeedEvents)
          /\ \A i \in DOMAIN toTab' : toTab'[i] = old \/ (i \in DOMAIN toTab /\ toTab'[i] = toTab[i])
      BY <1>5, <2>1, <2>3
    <3> QED BY <1>1, <1>5, <2>1, <2>3, <3>1 DEF WireShape, EventFits
  <2> QED BY <1>7, <2>2, <2>3
<1>9. FeedTypes'
  BY <1>1, <1>2, <1>8 DEF Shaped, FeedTypes
<1> QED BY <1>1, <1>6, <1>8, <1>9 DEF Shaped, ListShape, RowShape, RoomShape, There

LEMMA IncFacts ==
  /\ \A s, n : Inc(Shown(s, n)) = Shown(s, n + 1)
  /\ Inc(Absent) = Absent /\ Inc(Unknown) = Unknown
  /\ \A v \in FeedEntries : Inc(v) \in FeedEntries
<1>1. /\ \A s, n : Inc(Shown(s, n)) = Shown(s, n + 1)
      /\ Inc(Absent) = Absent /\ Inc(Unknown) = Unknown
  BY ShownFields DEF Inc
<1>2. ASSUME NEW v \in FeedEntries PROVE Inc(v) \in FeedEntries
  <2>1. CASE v = Unknown \/ v = Absent
    BY <1>1, <2>1, EntryCases
  <2>2. ASSUME NEW s \in Sayings, NEW n \in Nat, v = Shown(s, n) PROVE Inc(v) \in FeedEntries
    <3>1. Inc(v) = Shown(s, n + 1) /\ n + 1 \in Nat
      BY <1>1, <2>2
    <3> QED BY <3>1, EntryCases
  <2> QED BY <2>1, <2>2, EntryCases
<1> QED BY <1>1, <1>2

(* Updated: what an event makes of a row that is held.                     *)
LEMMA UpdatedHeard ==
  ASSUME Shaped, toTab # <<>>, NEW ev, ev = Head(toTab)
  PROVE  /\ ev \in FeedEvents /\ EventFits(ev) /\ ev.op # "none"
         /\ Updated(ev) = (IF held = Unknown THEN held ELSE Heard(held, ev))
         /\ Updated(ev) \in FeedEntries
         /\ list = "room" => Updated(ev) # Absent
<1>1. toTab \in Seq(FeedEvents) /\ WireShape /\ held \in FeedEntries
  BY DEF Shaped, FeedTypes, ListShape
<1>2. ev = toTab[1] /\ 1 \in DOMAIN toTab /\ ev \in FeedEvents
  BY <1>1, TailFacts
<1>3. EventFits(ev) /\ ev.op \in {"put", "drop", "plus"} /\ ev.row \in FeedEntries
  BY <1>1, <1>2, EventFields DEF WireShape
<1>4. list = "room" => held # Absent
  BY DEF Shaped, ListShape, RoomShape
<1>5. CASE held = Unknown
  BY <1>2, <1>3, <1>5, EntryCases DEF Updated
<1>6. CASE held # Unknown /\ ev.op = "put"
  <2>1. Updated(ev) = ev.row
    BY <1>4, <1>6 DEF Updated
  <2>2. Heard(held, ev) = ev.row
    BY <1>6 DEF Heard, Over
  <2> QED BY <1>2, <1>3, <1>6, <2>1, <2>2, ShownFields DEF EventFits
<1>7. CASE held # Unknown /\ ev.op = "drop"
  <2>1. Updated(ev) = Absent /\ ev.row = Absent
    BY <1>3, <1>7 DEF Updated, EventFits
  <2>2. Heard(held, ev) = ev.row
    BY <1>7 DEF Heard, Over
  <2>3. list # "room"
    BY <1>3, <1>7 DEF EventFits
  <2> QED BY <1>2, <1>3, <1>7, <2>1, <2>2, <2>3, EntryCases
<1>8. CASE held # Unknown /\ ev.op = "plus"
  <2>1. Updated(ev) = IF held = Absent \/ ev.by = "user" THEN held ELSE [held EXCEPT !.count = @ + 1]
    BY <1>8 DEF Updated
  <2>2. Heard(held, ev) = IF ev.by # "user" THEN Inc(held) ELSE held
    BY <1>8 DEF Heard, Over, Plus
  <2>3. CASE held = Absent
    BY <1>2, <1>3, <1>4, <1>8, <2>1, <2>2, <2>3, IncFacts, EntryCases
  <2>4. ASSUME NEW s \in Sayings, NEW n \in Nat, held = Shown(s, n)
        PROVE  Updated(ev) = Heard(held, ev) /\ Updated(ev) \in FeedEntries /\ Updated(ev) # Absent
    <3>1. [held EXCEPT !.count = @ + 1] = Shown(s, n + 1) /\ Inc(held) = Shown(s, n + 1) /\ n + 1 \in Nat
      BY <2>4, ShownAgain, ShownFields, IncFacts
    <3>2. held # Absent
      BY <2>4, EntryCases
    <3>3. Updated(ev) = IF ev.by = "user" THEN held ELSE Shown(s, n + 1)
      BY <2>1, <3>1, <3>2
    <3>4. Updated(ev) = Heard(held, ev)
      BY <2>2, <3>1, <3>3
    <3>5. Updated(ev) = Shown(s, n) \/ Updated(ev) = Shown(s, n + 1)
      BY <2>4, <3>3
    <3>6. Updated(ev) \in FeedEntries /\ Updated(ev) # Absent
      BY <3>1, <3>5, EntryCases
    <3> QED BY <3>4, <3>6
  <2> QED BY <1>1, <1>2, <1>3, <1>8, <2>3, <2>4, EntryCases
<1> QED BY <1>3, <1>5, <1>6, <1>7, <1>8

(* Only the cache, the query and the wire have changed.                    *)
LEMMA ShapedCache ==
  ASSUME Shaped, UNCHANGED <<list, row, edit>>,
         held' \in FeedEntries, query' \in Queries,
         query'.phase = "idle" => query' = NoQuery,
         query'.phase = "asked" => query' = Sent,
         query'.phase = "served" => query'.data # Unknown,
         list = "room" => /\ held' # Absent /\ query'.data # Absent
                          /\ ~There => astray' /\ untold',
         toTab' \in Seq(FeedEvents), WireShape'
  PROVE  Shaped'
<1>1. FeedTypes'
  BY DEF Shaped, FeedTypes
<1>2. EditShape'
  BY EditShapesSame DEF Shaped, ListShape
<1> QED BY <1>1, <1>2 DEF Shaped, ListShape, RowShape, RoomShape, There

LEMMA WireSame ==
  ASSUME Shaped, UNCHANGED list, toTab' = toTab \/ toTab' = <<>>
  PROVE  toTab' \in Seq(FeedEvents) /\ WireShape'
<1>1. toTab \in Seq(FeedEvents) /\ WireShape
  BY DEF Shaped, ListShape, FeedTypes
<1>2. <<>> \in Seq(FeedEvents)
  OBVIOUS
<1>3. toTab' \in Seq(FeedEvents)
  BY <1>1, <1>2
<1> QED BY <1>1, <1>3, WireShapesSame

LEMMA NextQueryType ==
  /\ NextQuery \in {NoQuery, Sent} /\ NextQuery \in Queries /\ NextQuery.data = Unknown
  /\ NextQuery.phase \in {"idle", "asked"}
  /\ NextQuery.phase = "idle" => NextQuery = NoQuery
  /\ NextQuery.phase = "asked" => NextQuery = Sent
BY QueryTypes DEF NextQuery

LEMMA Elementary ==
  ASSUME Shaped
  PROVE  /\ held \in FeedEntries /\ query \in Queries /\ query.data \in FeedEntries
         /\ row \in ListRows /\ edit \in [Editors -> Edits] /\ list \in Lists
         /\ query.phase \in {"idle", "asked", "served"}
         /\ query.phase = "idle" => query = NoQuery
         /\ query.phase = "asked" => query = Sent
         /\ query.phase = "served" => query.data # Unknown
         /\ list = "room" => /\ held # Absent /\ query.data # Absent
                             /\ ~There => astray /\ untold
         /\ Current \in FeedEntries /\ Current # Unknown
         /\ toTab \in Seq(FeedEvents) /\ WireShape
<1>1. query.data \in FeedEntries /\ query.phase \in {"idle", "asked", "served"}
  BY QueryTypes DEF Shaped, FeedTypes
<1>2. Current \in FeedEntries /\ Current # Unknown
  BY ShownOfType DEF Shaped, FeedTypes, Current
<1> QED BY <1>1, <1>2 DEF Shaped, FeedTypes, ListShape, RoomShape

LEMMA ServeShape == ASSUME Shaped, ServeEntry PROVE Shaped'
<1>1. UNCHANGED <<list, row, edit, toTab, held, untold>> /\ query = Sent
  BY DEF ServeEntry, source, wire
<1>2. toTab' \in Seq(FeedEvents) /\ WireShape'
  BY <1>1, WireSame
<1>3. CASE Refused
  <2>1. query' = NextQuery /\ astray' = astray
    BY <1>3 DEF ServeEntry
  <2> QED BY <1>1, <1>2, <2>1, NextQueryType, Elementary, ShapedCache, EntryCases
<1>4. CASE ~Refused
  <2>1. PICK d \in FeedEntries : d = Current
    BY Elementary
  <2>2. query' = [phase |-> "served", data |-> d]
    BY <1>4, <2>1 DEF ServeEntry
  <2>3. query' \in Queries /\ query'.phase = "served" /\ query'.data = d /\ d # Unknown
    BY <2>1, <2>2, QueryTypes, Elementary
  <2>4. list = "room" => There /\ d # Absent
    <3>1. list = "room" => There /\ ~row.hidden
      BY <1>4 DEF Refused, Shaped, ListShape, RowShape
    <3> QED BY <2>1, <3>1, EntryCases DEF Current, ShownOf, There
  <2> QED BY <1>1, <1>2, <2>3, <2>4, Elementary, ShapedCache
<1> QED BY <1>3, <1>4

LEMMA HoldShape == ASSUME Shaped, HoldAnswer PROVE Shaped'
<1>1. UNCHANGED <<list, row, edit, toTab, astray, untold>> /\ query.phase = "served"
  BY DEF HoldAnswer, source, wire, history
<1>2. toTab' \in Seq(FeedEvents) /\ WireShape'
  BY <1>1, WireSame
<1>3. query' = NextQuery /\ held' \in {query.data, Unknown}
  BY DEF HoldAnswer, Kept
<1> QED BY <1>1, <1>2, <1>3, NextQueryType, Elementary, ShapedCache, EntryCases

LEMMA FailShape == ASSUME Shaped, QueryFails PROVE Shaped'
<1>1. UNCHANGED <<list, row, edit, toTab, untold>> /\ (astray => astray')
  BY DEF QueryFails, source, wire
<1>2. toTab' \in Seq(FeedEvents) /\ WireShape'
  BY <1>1, WireSame
<1>3. query' = NextQuery /\ held' \in {held, Unknown}
  BY DEF QueryFails, Kept
<1> QED BY <1>1, <1>2, <1>3, NextQueryType, Elementary, ShapedCache, EntryCases

LEMMA HandleShape == ASSUME Shaped, HandleEvent PROVE Shaped'
<1>1. UNCHANGED <<list, row, edit, query>> /\ (astray => astray') /\ (untold => untold')
      /\ toTab # <<>> /\ toTab' = Tail(toTab)
  BY DEF HandleEvent, source
<1>2. held' = Updated(Head(toTab))
  BY DEF HandleEvent
<1>3. held' \in FeedEntries /\ (list = "room" => held' # Absent)
  BY <1>1, <1>2, UpdatedHeard
<1>4. toTab' \in Seq(FeedEvents) /\ WireShape'
  <2>1. WireShape /\ toTab \in Seq(FeedEvents)
    BY Elementary
  <2>2. PICK t : t = Tail(toTab)
    OBVIOUS
  <2>3. t \in Seq(FeedEvents) /\ \A i \in DOMAIN t : i + 1 \in DOMAIN toTab /\ t[i] = toTab[i + 1]
    BY <1>1, <2>1, <2>2, TailFacts
  <2> QED BY <1>1, <2>1, <2>2, <2>3 DEF WireShape, EventFits
<1> QED BY <1>1, <1>3, <1>4, Elementary, ShapedCache

LEMMA AnswerStep ==
  ASSUME Shaped, Answer
  PROVE  /\ UNCHANGED <<list, row, toTab, untold>> /\ (astray => astray')
         /\ edit' \in [Editors -> Edits] /\ edit'[Tab] = Free
         /\ \A v \in Editors \ {Tab} : edit'[v] = edit[v]
         /\ edit[Tab].step \in {"told", "failed"}
         /\ query' = query \/ (query = NoQuery /\ query' = Sent)
         /\ \/ held' = held \/ held' = Unknown
            \/ /\ list = "topic" /\ held.is = "shown" /\ held' = edit[Tab].event.row
               /\ held' = Current \/ astray'
<1>1. UNCHANGED <<list, row, toTab, untold>> /\ (astray => astray') /\ edit[Tab].step \in {"told", "failed"}
  BY DEF Answer
<1>2. edit' = [edit EXCEPT ![Tab] = Free] /\ Tab \in Editors
  BY FeedAssumption DEF Answer
<1>3. edit' \in [Editors -> Edits] /\ edit'[Tab] = Free /\ \A v \in Editors \ {Tab} : edit'[v] = edit[v]
  BY <1>2, FreeType, EditChanged, Elementary
<1>4. query' = query \/ (query = NoQuery /\ query' = Sent)
  BY DEF Answer, Refetch, entry
<1>5. \/ held' = held \/ held' = Unknown
      \/ /\ list = "topic" /\ held.is = "shown" /\ held' = edit[Tab].event.row
         /\ held' = Current \/ astray'
  BY Zenon DEF Answer, entry, Kept
<1> QED BY <1>1, <1>3, <1>4, <1>5

LEMMA AnswerShape == ASSUME Shaped, Answer PROVE Shaped'
<1>1. /\ UNCHANGED <<list, row, toTab, untold>> /\ (astray => astray')
      /\ edit' \in [Editors -> Edits] /\ edit'[Tab] = Free
      /\ \A v \in Editors \ {Tab} : edit'[v] = edit[v]
      /\ query' = query \/ (query = NoQuery /\ query' = Sent)
      /\ \/ held' = held \/ held' = Unknown
         \/ list = "topic" /\ held' = edit[Tab].event.row
  BY AnswerStep
<1>2. Tab \in Editors /\ edit \in [Editors -> Edits]
  BY FeedAssumption, Elementary
<1>3. EditShape'
  <2>1. Free.step = "free" /\ EventFits(Free.event)
    BY FreeType, NoEventFits
  <2>2. PICK ev : ev = edit'[Tab].event
    OBVIOUS
  <2> QED BY <1>1, <1>2, <2>1, <2>2, EditShapes DEF Shaped, ListShape
<1>4. WireShape'
  BY <1>1, WireSame
<1>5. held' \in FeedEntries /\ (list = "room" => held' # Absent)
  <2>1. edit[Tab].event.row \in FeedEntries
    BY <1>2, EditFields, EventFields
  <2> QED BY <1>1, <2>1, EntryCases, Elementary
<1>6. FeedTypes'
  BY <1>1, <1>5, QueryTypes, Elementary DEF Shaped, FeedTypes
<1>7. list = "room" => query'.data # Absent
  BY <1>1, QueryTypes, EntryCases, Elementary
<1> QED BY <1>1, <1>3, <1>4, <1>5, <1>6, <1>7 DEF Shaped, ListShape, RowShape, RoomShape, There

(* Lose, Refresh                                                           *)
LEMMA CutShape ==
  ASSUME Shaped, Cut, UNCHANGED <<list, row, edit, held, query>>
  PROVE  Shaped'
<1>1. toTab' = <<>> /\ (astray => astray') /\ (untold => untold')
  BY DEF Cut
<1>2. toTab' \in Seq(FeedEvents) /\ WireShape'
  BY <1>1, WireSame
<1> QED BY <1>1, <1>2, Elementary, ShapedCache

LEMMA StillShape ==
  ASSUME Shaped, UNCHANGED <<list, row, edit, toTab, held, query, astray, untold>>
  PROVE  Shaped'
<1>1. toTab' \in Seq(FeedEvents) /\ WireShape'
  BY WireSame
<1> QED BY <1>1, Elementary, ShapedCache

LEMMA OpenShape == ASSUME Shaped, OpenRoom PROVE Shaped'
<1>1. UNCHANGED <<list, row, edit, toTab, held, astray, untold>>
      /\ (query' = query \/ query' = Sent)
  BY DEF OpenRoom, source, history
<1>2. toTab' \in Seq(FeedEvents) /\ WireShape'
  BY <1>1, WireSame
<1> QED BY <1>1, <1>2, QueryTypes, EntryCases, Elementary, ShapedCache

LEMMA QuietStill ==
  ASSUME Reconnect \/ Expire \/ ServeChannel \/ LeaveRoom \/ ChooseTopic \/ UNCHANGED feedVars
  PROVE  UNCHANGED <<list, row, edit, toTab, held, query, astray, untold>>
BY DEF Reconnect, Expire, ServeChannel, LeaveRoom, ChooseTopic, feedVars, source, wire, view, entry, history

LEMMA CutStill ==
  ASSUME Lose \/ Refresh
  PROVE  Cut /\ UNCHANGED <<list, row, edit, held, query, open, selected>>
BY DEF Lose, Refresh, source, view, entry

LEMMA FeedCases ==
  ASSUME [FeedNext]_feedVars
  PROVE  \/ \E w \in Editors : Check(w) \/ Write(w) \/ ReadBack(w) \/ Emit(w) \/ Dies(w)
         \/ Answer \/ ServeEntry \/ HoldAnswer \/ QueryFails \/ HandleEvent
         \/ Lose \/ Refresh \/ OpenRoom
         \/ Reconnect \/ Expire \/ ServeChannel \/ LeaveRoom \/ ChooseTopic \/ UNCHANGED feedVars
BY DEF FeedNext

LEMMA ShapedKept == ASSUME Shaped, [FeedNext]_feedVars PROVE Shaped'
BY FeedCases, CheckShape, WriteShape, ReadBackShape, OverShape, AnswerShape, ServeShape, HoldShape,
   FailShape, HandleShape, CutShape, CutStill, OpenShape, QuietStill, StillShape

LEMMA ShapedInit == ASSUME FeedInit PROVE Shaped
<1>1. /\ list \in Lists /\ edit = [w \in Editors |-> Free] /\ toTab = <<>>
      /\ held = Unknown /\ query = NoQuery
  BY DEF FeedInit
<1>2. row \in ListRows /\ row.state \in {"none", "there"} /\ row.readers = {} /\ (row.hidden <=> list = "reply")
      /\ (list \notin {"topic", "member"} => row.state = "there")
  <2> DEFINE h == (list = "reply")
  <2>1. PICK st \in {"none", "there"}, s \in Sayings :
          row = [state |-> st, hidden |-> h, says |-> s, readers |-> {}]
    BY DEF FeedInit
  <2>2. h \in BOOLEAN
    OBVIOUS
  <2>4. list \notin {"topic", "member"} => row.state = "there"
    BY DEF FeedInit, There
  <2> HIDE DEF h
  <2>3. row \in ListRows /\ row.state = st /\ row.readers = {} /\ row.hidden = h
    BY <2>1, <2>2 DEF ListRows
  <2> QED BY <2>3, <2>4 DEF h
<1>3. FeedTypes
  <2>1. edit \in [Editors -> Edits]
    BY <1>1, FreeType
  <2> QED BY <1>1, <1>2, <2>1, EntryCases, QueryTypes DEF FeedTypes
<1>4. EditShape
  BY <1>1, FreeType, NoEventFits DEF EditShape, ListOf
<1>5. WireShape
  BY <1>1 DEF WireShape
<1>6. RowShape /\ RoomShape
  BY <1>1, <1>2, QueryTypes, EntryCases DEF RowShape, RoomShape, There, MessageLists
<1> QED BY <1>3, <1>4, <1>5, <1>6 DEF Shaped, ListShape

------------------------------------------------------------------------------
(* Receipts *)

LEMMA ByKept == ASSUME Shaped, ByReaders, [FeedNext]_feedVars PROVE ByReaders'
<1>1. list' = list /\ edit \in [Editors -> Edits] /\ Tab \in Editors
  BY Elementary, FeedAssumption, FeedCases, AnswerStep, QuietStill, CutStill
     DEF Check, Write, ReadBack, Emit, Dies, ServeEntry, HoldAnswer, QueryFails, HandleEvent, OpenRoom
<1>2. Readers' = Readers /\ "user" \in Readers /\ Free.by = "user"
  BY <1>1 DEF Readers, Author, Free
<1>3. ASSUME NEW w \in Editors, NEW s PROVE Ended(w, s).by \in Readers
  <2>1. PICK k \in Edits : k = edit[w] /\ k.by \in Readers
    BY <1>1 DEF ByReaders
  <2>2. [k EXCEPT !.step = s].by = k.by
    BY DEF Edits
  <2> QED BY <1>2, <2>1, <2>2 DEF Ended
<1>4. ASSUME NEW w \in Editors, NEW e, edit' = [edit EXCEPT ![w] = e], e.by \in Readers
      PROVE  ByReaders'
  BY <1>1, <1>2, <1>4 DEF ByReaders
<1>5. ASSUME NEW w \in Editors, Check(w) PROVE ByReaders'
  <2>1. PICK op \in Ops, s \in Sayings, by \in Readers :
          edit' = [edit EXCEPT ![w] = [Free EXCEPT !.step = "checked", !.op = op, !.says = s, !.by = by]]
    BY <1>5 DEF Check
  <2>2. [Free EXCEPT !.step = "checked", !.op = op, !.says = s, !.by = by].by = by
    BY DEF Free
  <2> QED BY <1>4, <2>1, <2>2
<1>6. ASSUME NEW w \in Editors, Write(w) PROVE ByReaders'
  <2>1. PICK k \in Edits : k = edit[w] /\ k.by \in Readers
    BY <1>1 DEF ByReaders
  <2>2. CASE Takes(edit[w].op)
    <3> DEFINE s == IF list = "room" /\ edit[w].op = "update" THEN "written" ELSE "ready"
               ev == EventOf(edit[w], Changed(edit[w]))
    <3>1. edit' = [edit EXCEPT ![w] = [edit[w] EXCEPT !.step = s, !.event = ev]]
      BY <1>6, <2>2 DEF Write
    <3> HIDE DEF s, ev
    <3>2. [k EXCEPT !.step = s, !.event = ev].by = k.by
      BY DEF Edits
    <3> QED BY <1>4, <2>1, <3>1, <3>2
  <2>3. CASE ~Takes(edit[w].op)
    BY <1>3, <1>4, <1>6, <2>3 DEF Write
  <2> QED BY <2>2, <2>3
<1>7. ASSUME NEW w \in Editors, ReadBack(w) PROVE ByReaders'
  <2>1. PICK k \in Edits : k = edit[w] /\ k.by \in Readers
    BY <1>1 DEF ByReaders
  <2>2. CASE There
    <3>1. PICK n \in 0 .. 1 : edit' = [edit EXCEPT ![w].step = "ready", ![w].event =
                 [op |-> "put", row |-> Shown(row.says, n), by |-> edit[w].by, fits |-> n = Count(row)]]
      BY <1>7, <2>2 DEF ReadBack
    <3> DEFINE ev == [op |-> "put", row |-> Shown(row.says, n), by |-> edit[w].by, fits |-> n = Count(row)]
    <3>2. edit' = [edit EXCEPT ![w] = [edit[w] EXCEPT !.step = "ready", !.event = ev]]
      BY <3>1
    <3> HIDE DEF ev
    <3>3. [k EXCEPT !.step = "ready", !.event = ev].by = k.by
      BY DEF Edits
    <3> QED BY <1>4, <2>1, <3>2, <3>3
  <2>3. CASE ~There
    BY <1>3, <1>4, <1>7, <2>3 DEF ReadBack
  <2> QED BY <2>2, <2>3
<1>8. ASSUME NEW w \in Editors, Emit(w) \/ Dies(w) PROVE ByReaders'
  BY <1>3, <1>4, <1>8 DEF Emit, Dies
<1>9. ASSUME Answer PROVE ByReaders'
  BY <1>1, <1>2, <1>4, <1>9 DEF Answer
<1>10. ASSUME UNCHANGED edit PROVE ByReaders'
  BY <1>2, <1>10 DEF ByReaders
<1>11. ASSUME ServeEntry \/ HoldAnswer \/ QueryFails \/ HandleEvent \/ OpenRoom PROVE UNCHANGED edit
  BY <1>11 DEF ServeEntry, HoldAnswer, QueryFails, HandleEvent, OpenRoom, source
<1> QED BY <1>5, <1>6, <1>7, <1>8, <1>9, <1>10, <1>11, FeedCases, QuietStill, CutStill

(* A receipt that counts is the one of "other", once.                      *)
LEMMA WritePlus ==
  ASSUME Shaped, ByReaders, NEW w \in Editors, Write(w), NEW r \in ListRows, r = Changed(edit[w]),
         NEW ev, ev = EventOf(edit[w], r), Plus(ev)
  PROVE  /\ edit[w].op = "read" /\ r.readers = row.readers \union {edit[w].by}
         /\ r.state = row.state /\ r.hidden = row.hidden /\ r.says = row.says
         /\ ev.fits <=> Count(r) # Count(row)
         /\ ev.fits => "other" \notin row.readers /\ "other" \in r.readers /\ Count(r) = Count(row) + 1
<1>1. /\ edit[w] \in Edits /\ edit[w].op \in Ops /\ edit[w].says \in Sayings /\ row \in ListRows
      /\ edit[w].by \in Readers /\ edit[w].by \in Who
  BY WriteStep, Elementary, EditFields DEF Shaped, ByReaders
<1>2. PICK e : e = edit[w]
  OBVIOUS
<1>3. e.op = "read" /\ ev.by = e.by /\ (ev.fits <=> Count(r) > Count(row)) /\ e.by # "user"
  <2>1. e.op \in {"create", "update", "delete", "hide", "show", "add", "assign", "remove", "purge",
                  "close", "pin", "read"} /\ e \in Edits
    BY <1>1, <1>2, EditFields
  <2> QED BY <1>2, <2>1, EventOps, NoEventType DEF Plus
<1>4. r.readers = row.readers \union {e.by} /\ r.state = row.state /\ r.hidden = row.hidden /\ r.says = row.says
  BY <1>1, <1>2, <1>3, ChangedFields
<1>5. Author \in {"user", "author"} /\ row.readers \in SUBSET Who
  BY <1>1, RowFields DEF Author
<1>6. /\ Count(r) = Cardinality((row.readers \union {e.by}) \ {Author})
      /\ Count(row) = Cardinality(row.readers \ {Author})
      /\ e.by \in Who
  BY <1>1, <1>2, <1>4 DEF Count
<1>7. /\ Count(row) \in Nat
      /\ e.by \in row.readers \/ e.by = Author => Count(r) = Count(row)
      /\ e.by \notin row.readers /\ e.by # Author => Count(r) = Count(row) + 1
  BY <1>5, <1>6, CountRead
<1>8. e.by # Author => e.by = "other"
  BY <1>1, <1>2, <1>3 DEF Readers
<1> QED BY <1>2, <1>3, <1>4, <1>7, <1>8

(* Requests and events, seen from what is on its way.                      *)
LEMMA PlusSame ==
  ASSUME PlusOnce, row'.readers = row.readers \/ row.readers \subseteq row'.readers,
         toTab' = toTab \/ toTab' = <<>>,
         \A v \in Editors : Late(v)' => \/ Late(v) /\ edit'[v].event = edit[v].event
                                       \/ edit'[v].event.op = "put"
  PROVE  PlusOnce'
<1>1. \A v \in Editors : Late(v)' /\ FitPlus(edit'[v].event) => Late(v) /\ FitPlus(edit[v].event)
  BY DEF FitPlus, Plus
<1>2. /\ \A i \in DOMAIN toTab' : FitPlus(toTab'[i]) => "other" \in row'.readers
      /\ \A w \in Editors : Late(w)' /\ FitPlus(edit'[w].event) => "other" \in row'.readers
      /\ \A i, j \in DOMAIN toTab' : FitPlus(toTab'[i]) /\ FitPlus(toTab'[j]) => i = j
      /\ \A v, w \in Editors : Late(v)' /\ Late(w)' /\ FitPlus(edit'[v].event) /\ FitPlus(edit'[w].event) => v = w
      /\ \A i \in DOMAIN toTab', w \in Editors : ~(FitPlus(toTab'[i]) /\ Late(w)' /\ FitPlus(edit'[w].event))
  <2>1. \A i \in DOMAIN toTab' : i \in DOMAIN toTab /\ toTab'[i] = toTab[i]
    OBVIOUS
  <2> QED BY <1>1, <2>1 DEF PlusOnce
<1> QED BY <1>2 DEF PlusOnce, FitPlus, Plus, Late

LEMMA PlusKept == ASSUME Shaped, ByReaders, PlusOnce, [FeedNext]_feedVars PROVE PlusOnce'
<1>0. toTab \in Seq(FeedEvents) /\ edit \in [Editors -> Edits] /\ row \in ListRows
  BY Elementary
<1>1. ASSUME NEW w \in Editors, Check(w) PROVE PlusOnce'
  <2>1. edit'[w].step = "checked" /\ \A v \in Editors \ {w} : edit'[v] = edit[v]
    BY <1>1, CheckStep DEF Shaped
  <2>2. row' = row /\ toTab' = toTab
    BY <1>1 DEF Check, wire
  <2>3. \A v \in Editors : Late(v)' => Late(v) /\ edit'[v].event = edit[v].event
    BY <2>1 DEF Late
  <2> QED BY <2>2, <2>3, PlusSame
<1>2. ASSUME NEW w \in Editors, Write(w) PROVE PlusOnce'
  <2>1. toTab' = toTab /\ \A v \in Editors \ {w} : edit'[v] = edit[v]
    BY <1>2, WriteStep DEF Shaped, Write, wire
  <2>2. CASE row' = row /\ edit'[w].step \in {"free", "failed"}
    <3>1. \A v \in Editors : Late(v)' => Late(v) /\ edit'[v].event = edit[v].event
      BY <2>1, <2>2 DEF Late
    <3> QED BY <2>1, <2>2, <3>1, PlusSame
  <2>3. CASE row' = Changed(edit[w]) /\ row' \in ListRows
             /\ edit'[w].event = EventOf(edit[w], Changed(edit[w]))
    <3>1. PICK r \in ListRows, ev \in {EventOf(edit[w], Changed(edit[w]))} : r = row'
      BY <2>3
    <3>2. row.readers \subseteq r.readers
      <4>1. edit[w] \in Edits /\ edit[w].says \in Sayings
        BY <1>2, WriteStep DEF Shaped
      <4> QED BY <1>0, <2>3, <3>1, <4>1, ChangedFields
    <3>3. FitPlus(ev) => "other" \notin row.readers /\ "other" \in r.readers
      BY <1>2, <2>3, <3>1, WritePlus DEF FitPlus
    <3>4. /\ \A v \in Editors \ {w} : Late(v)' /\ FitPlus(edit'[v].event) => Late(v) /\ FitPlus(edit[v].event)
          /\ edit'[w].event = ev /\ ~Late(w)
      BY <1>2, <2>1, <2>3, <3>1, WriteStep DEF Late, Shaped
    <3>5. FitPlus(ev) => /\ \A i \in DOMAIN toTab : ~FitPlus(toTab[i])
                         /\ \A v \in Editors : ~(Late(v) /\ FitPlus(edit[v].event))
      BY <3>3 DEF PlusOnce
    <3>6. /\ \A i \in DOMAIN toTab' : FitPlus(toTab'[i]) => "other" \in row'.readers
          /\ \A v \in Editors : Late(v)' /\ FitPlus(edit'[v].event) => "other" \in row'.readers
          /\ \A i, j \in DOMAIN toTab' : FitPlus(toTab'[i]) /\ FitPlus(toTab'[j]) => i = j
          /\ \A u, v \in Editors : Late(u)' /\ Late(v)' /\ FitPlus(edit'[u].event) /\ FitPlus(edit'[v].event) => u = v
          /\ \A i \in DOMAIN toTab', v \in Editors : ~(FitPlus(toTab'[i]) /\ Late(v)' /\ FitPlus(edit'[v].event))
      <4>1. \A i \in DOMAIN toTab' : FitPlus(toTab'[i]) => "other" \in row'.readers
        BY <2>1, <3>1, <3>2 DEF PlusOnce
      <4>2. \A v \in Editors : Late(v)' /\ FitPlus(edit'[v].event) => "other" \in row'.readers
        BY <3>1, <3>2, <3>3, <3>4 DEF PlusOnce
      <4>3. \A i, j \in DOMAIN toTab' : FitPlus(toTab'[i]) /\ FitPlus(toTab'[j]) => i = j
        BY <2>1 DEF PlusOnce
      <4>4. \A u, v \in Editors : Late(u)' /\ Late(v)' /\ FitPlus(edit'[u].event) /\ FitPlus(edit'[v].event) => u = v
        BY <3>4, <3>5 DEF PlusOnce
      <4>5. \A i \in DOMAIN toTab', v \in Editors : ~(FitPlus(toTab'[i]) /\ Late(v)' /\ FitPlus(edit'[v].event))
        BY <2>1, <3>4, <3>5 DEF PlusOnce
      <4> QED BY <4>1, <4>2, <4>3, <4>4, <4>5
    <3> QED BY <3>6 DEF PlusOnce, FitPlus, Plus, Late
  <2> QED BY <1>2, <2>2, <2>3, WriteStep DEF Shaped
<1>3. ASSUME NEW w \in Editors, ReadBack(w) PROVE PlusOnce'
  <2>1. row' = row /\ toTab' = toTab
    BY <1>3 DEF ReadBack, wire
  <2>2. \A v \in Editors : Late(v)' => \/ Late(v) /\ edit'[v].event = edit[v].event
                                      \/ edit'[v].event.op = "put"
    BY <1>3, ReadBackStep DEF Late, Shaped
  <2> QED BY <2>1, <2>2, PlusSame
<1>4. ASSUME NEW w \in Editors, Emit(w) \/ Dies(w) PROVE PlusOnce'
  <2>1. PICK ev \in FeedEvents : ev = edit[w].event
    BY <1>0, EditFields
  <2>2. row' = row /\ ~Late(w)' /\ \A v \in Editors \ {w} : edit'[v] = edit[v]
    BY <1>4, OverStep DEF Late, Shaped, Emit, Dies
  <2>3. \A v \in Editors : Late(v)' => v # w /\ Late(v) /\ edit'[v].event = edit[v].event
    BY <2>2 DEF Late
  <2>4. CASE toTab' = toTab
    BY <2>2, <2>3, <2>4, PlusSame
  <2>5. CASE toTab' = Append(toTab, ev) /\ Late(w)
    <3>1. PICK n : n = Len(toTab) + 1
      OBVIOUS
    <3>2. /\ DOMAIN toTab' = DOMAIN toTab \union {n} /\ n \notin DOMAIN toTab
          /\ toTab'[n] = ev /\ \A i \in DOMAIN toTab : toTab'[i] = toTab[i]
      BY <1>0, <2>5, <3>1, AppendFacts
    <3>3. /\ FitPlus(ev) => "other" \in row.readers
          /\ FitPlus(ev) => \A i \in DOMAIN toTab : ~FitPlus(toTab[i])
          /\ FitPlus(ev) => \A v \in Editors \ {w} : ~(Late(v) /\ FitPlus(edit[v].event))
      BY <2>1, <2>5 DEF PlusOnce
    <3>4. \A i \in DOMAIN toTab' : FitPlus(toTab'[i]) => "other" \in row'.readers
      BY <2>2, <3>2, <3>3 DEF PlusOnce
    <3>5. \A v \in Editors : Late(v)' /\ FitPlus(edit'[v].event) => "other" \in row'.readers
      BY <2>2, <2>3 DEF PlusOnce
    <3>6. \A i, j \in DOMAIN toTab' : FitPlus(toTab'[i]) /\ FitPlus(toTab'[j]) => i = j
      BY <3>2, <3>3 DEF PlusOnce
    <3>7. \A u, v \in Editors : Late(u)' /\ Late(v)' /\ FitPlus(edit'[u].event) /\ FitPlus(edit'[v].event) => u = v
      BY <2>3 DEF PlusOnce
    <3>8. \A i \in DOMAIN toTab', v \in Editors : ~(FitPlus(toTab'[i]) /\ Late(v)' /\ FitPlus(edit'[v].event))
      BY <2>3, <3>2, <3>3 DEF PlusOnce
    <3> QED BY <3>4, <3>5, <3>6, <3>7, <3>8 DEF PlusOnce, FitPlus, Plus, Late
  <2> QED BY <1>4, <2>1, <2>4, <2>5 DEF Emit, Dies, wire, Late
<1>5. ASSUME HandleEvent PROVE PlusOnce'
  <2>1. row' = row /\ edit' = edit /\ toTab # <<>> /\ toTab' = Tail(toTab)
    BY <1>5 DEF HandleEvent, source
  <2>2. PICK t : t = Tail(toTab)
    OBVIOUS
  <2>3. \A i \in DOMAIN t : i + 1 \in DOMAIN toTab /\ t[i] = toTab[i + 1] /\ i \in Nat
    BY <1>0, <2>1, <2>2, TailFacts
  <2>4. /\ \A i \in DOMAIN t : FitPlus(t[i]) => "other" \in row.readers
        /\ \A i \in DOMAIN t, w \in Editors : ~(FitPlus(t[i]) /\ Late(w) /\ FitPlus(edit[w].event))
    BY <2>3 DEF PlusOnce
  <2>5. \A i, j \in DOMAIN t : FitPlus(t[i]) /\ FitPlus(t[j]) => i = j
    <3> SUFFICES ASSUME NEW i \in DOMAIN t, NEW j \in DOMAIN t, FitPlus(t[i]), FitPlus(t[j])
                 PROVE  i = j
      OBVIOUS
    <3>1. i + 1 = j + 1
      BY <2>3 DEF PlusOnce
    <3> QED BY <2>3, <3>1
  <2> QED BY <2>1, <2>2, <2>4, <2>5 DEF PlusOnce, FitPlus, Plus, Late
<1>6. ASSUME row' = row, toTab' = toTab \/ toTab' = <<>>, edit' = edit PROVE PlusOnce'
  BY <1>6, PlusSame DEF Late
<1>7. ASSUME Answer PROVE PlusOnce'
  <2>1. /\ row' = row /\ toTab' = toTab /\ edit'[Tab].step = "free"
        /\ \A v \in Editors \ {Tab} : edit'[v] = edit[v]
    BY <1>7, AnswerStep, FreeType
  <2>2. \A v \in Editors : Late(v)' => Late(v) /\ edit'[v].event = edit[v].event
    BY <2>1 DEF Late
  <2> QED BY <2>1, <2>2, PlusSame
<1>8. ASSUME ServeEntry \/ HoldAnswer \/ QueryFails \/ OpenRoom
      PROVE  row' = row /\ toTab' = toTab /\ edit' = edit
  BY <1>8 DEF ServeEntry, HoldAnswer, QueryFails, OpenRoom, source, wire
<1> QED BY <1>1, <1>2, <1>3, <1>4, <1>5, <1>6, <1>7, <1>8, FeedCases, QuietStill, CutStill DEF Cut

------------------------------------------------------------------------------
(* Replies are never listed *)

LEMMA BaseFacts ==
  /\ query.phase = "served" => Base = query.data
  /\ query.phase # "served" => Base = held
BY DEF Base

LEMMA ReplyCurrent == ASSUME Shaped, list = "reply" PROVE Current = Absent
<1>1. row.hidden
  BY DEF Shaped, ListShape, RowShape
<1> QED BY <1>1 DEF Current, ShownOf

LEMMA ReplyKept ==
  ASSUME Shaped, ReplyOK, [FeedNext]_feedVars
  PROVE  ReplyOK'
<1> SUFFICES ASSUME list = "reply", ~astray' PROVE Base' \in {Unknown, Absent}
  <2>1. list' = list
    BY Elementary, FeedCases, AnswerStep, QuietStill, CutStill
       DEF Check, Write, ReadBack, Emit, Dies, ServeEntry, HoldAnswer, QueryFails, HandleEvent, OpenRoom
  <2> QED BY <2>1 DEF ReplyOK
<1>0. ~astray => /\ query.phase = "served" => query.data \in {Unknown, Absent}
                 /\ query.phase # "served" => held \in {Unknown, Absent}
  BY DEF ReplyOK, Base
<1>1. ASSUME UNCHANGED <<held, query>>, astray => astray' PROVE Base' \in {Unknown, Absent}
  BY <1>0, <1>1 DEF Base
<1>2. ASSUME NEW w \in Editors, Check(w) \/ Write(w) \/ ReadBack(w) \/ Emit(w) \/ Dies(w)
      PROVE  UNCHANGED <<held, query>> /\ (astray => astray')
  <2>1. UNCHANGED <<held, query>>
    BY <1>2 DEF Check, Write, ReadBack, Emit, Dies, entry
  <2>2. CASE Write(w)
    BY <2>1, <2>2, WriteStep DEF Shaped
  <2>3. ASSUME Check(w) \/ ReadBack(w) PROVE astray => astray'
    <3>1. UNCHANGED history
      BY <2>3 DEF Check, ReadBack
    <3> QED BY <3>1 DEF history
  <2>4. ASSUME Emit(w) \/ Dies(w) PROVE astray => astray'
    BY <2>4 DEF Emit, Dies
  <2> QED BY <1>2, <2>1, <2>2, <2>3, <2>4
<1>3. ASSUME Answer PROVE Base' \in {Unknown, Absent}
  <2>1. /\ ~astray /\ (query' = query \/ (query = NoQuery /\ query' = Sent))
        /\ held' = held \/ held' = Unknown
    BY <1>3, AnswerStep
  <2> QED BY <1>0, <2>1, QueryTypes DEF Base
<1>4. ASSUME ServeEntry PROVE Base' \in {Unknown, Absent}
  <2>1. ~Refused
    BY DEF Refused
  <2>2. query' = [phase |-> "served", data |-> Current]
    BY <1>4, <2>1 DEF ServeEntry
  <2> QED BY <2>2, ReplyCurrent DEF Base
<1>5. ASSUME HoldAnswer PROVE Base' \in {Unknown, Absent}
  <2>1. query' = NextQuery /\ held' \in {query.data, Unknown} /\ query.phase = "served" /\ ~astray
    BY <1>5 DEF HoldAnswer, Kept, history
  <2> QED BY <1>0, <2>1, NextQueryType DEF Base
<1>6. ASSUME QueryFails PROVE Base' \in {Unknown, Absent}
  <2>1. query' = NextQuery /\ held' \in {held, Unknown} /\ query.phase # "served" /\ ~astray
    BY <1>6 DEF QueryFails, Kept
  <2> QED BY <1>0, <2>1, NextQueryType DEF Base
<1>7. ASSUME HandleEvent PROVE Base' \in {Unknown, Absent}
  <2>1. /\ ~astray /\ query' = query /\ toTab # <<>> /\ held' = Updated(Head(toTab))
        /\ Head(toTab).fits
    BY <1>7 DEF HandleEvent
  <2>2. PICK ev : ev = Head(toTab)
    OBVIOUS
  <2>3. /\ EventFits(ev) /\ ev \in FeedEvents /\ ev.op # "none"
        /\ held' = (IF held = Unknown THEN held ELSE Heard(held, ev))
    BY <2>1, <2>2, UpdatedHeard
  <2>4. ev.op = "drop" => ev.row = Absent
    BY <2>3 DEF EventFits
  <2>5. ev.op # "put"
    BY <2>1, <2>2, <2>3 DEF EventFits
  <2>6. held \in {Unknown, Absent} => held' \in {Unknown, Absent}
    BY <2>3, <2>4, <2>5, IncFacts DEF Heard, Over, Plus
  <2> QED BY <1>0, <2>1, <2>6 DEF Base
<1>8. ASSUME OpenRoom PROVE Base' \in {Unknown, Absent}
  <2>1. held' = held /\ astray' = astray /\ (query' = query \/ (query = NoQuery /\ query' = Sent))
    BY <1>8 DEF OpenRoom, history
  <2> QED BY <1>0, <2>1, QueryTypes DEF Base
<1>9. ASSUME Cut PROVE astray => astray'
  BY <1>9 DEF Cut
<1> QED BY <1>1, <1>2, <1>3, <1>4, <1>5, <1>6, <1>7, <1>8, <1>9, FeedCases, QuietStill, CutStill

------------------------------------------------------------------------------
(* What is gone is closed *)

LEMMA ShutSame ==
  ASSUME GoneOK, UNCHANGED list, There => There', untold => untold',
         toTab' = toTab,
         \A v \in Editors : Late(v) => Late(v)' /\ edit'[v].event = edit[v].event,
         open' => open \/ list = "topic", selected' => selected,
         held' = held \/ held'.is # "shown",
         query'.phase = "served" => query' = query \/ query'.data = Absent
  PROVE  GoneOK'
<1> SUFFICES ASSUME list \in {"topic", "self"}, ~There', ~untold' PROVE DropAhead' \/ Closed'
  BY DEF GoneOK
<1>1. DropAhead \/ Closed
  BY DEF GoneOK
<1>2. ASSUME NEW i \in DOMAIN toTab, toTab[i].op = "drop", \A j \in DOMAIN toTab : j > i => toTab[j].op # "put"
      PROVE  DropAhead'
  BY <1>2 DEF DropAhead
<1>3. ASSUME NEW w \in Editors, Late(w), edit[w].event.op = "drop" PROVE DropAhead'
  <2>1. Late(w)' /\ edit'[w].event.op = "drop"
    BY <1>3
  <2> QED BY <2>1 DEF DropAhead, Late
<1>4. ASSUME Closed PROVE Closed'
  BY <1>4 DEF Closed
<1> QED BY <1>1, <1>2, <1>3, <1>4 DEF DropAhead

LEMMA GoneWrite ==
  ASSUME Shaped, GoneOK, NEW w \in Editors, Write(w)
  PROVE  GoneOK'
<1>1. /\ UNCHANGED <<list, toTab, open, selected, held, query>>
      /\ edit[w] \in Edits /\ edit[w].op \in Ops /\ edit[w].says \in Sayings /\ edit[w].step = "checked"
      /\ \A v \in Editors \ {w} : edit'[v] = edit[v]
  BY WriteStep DEF Shaped, Write, wire, view, entry
<1>2. \A v \in Editors : Late(v) => Late(v)' /\ edit'[v].event = edit[v].event
  BY <1>1 DEF Late
<1>3. CASE UNCHANGED <<row, untold>>
  BY <1>1, <1>2, <1>3, ShutSame DEF There
<1>4. CASE /\ row' = Changed(edit[w])
           /\ edit'[w].step = IF list = "room" /\ edit[w].op = "update" THEN "written" ELSE "ready"
           /\ edit'[w].event = EventOf(edit[w], Changed(edit[w]))
           /\ untold' = (row'.state # "there" /\ (untold \/ EventOf(edit[w], row').op = "none"))
  <2> SUFFICES ASSUME list \in {"topic", "self"}, ~There', ~untold' PROVE GoneOK'
    BY <1>1 DEF GoneOK
  <2>1. PICK e, r, ev : e = edit[w] /\ r = Changed(e) /\ ev = EventOf(e, r)
    OBVIOUS
  <2>2. row \in ListRows /\ r \in ListRows /\ e \in Edits /\ list \in Lists
    BY <1>1, <2>1, ChangedFields, Elementary
  <2>3. r.state = IF e.op \in {"create", "add"} THEN "there"
                  ELSE IF e.op \in {"delete", "close"} THEN "gone"
                  ELSE IF e.op \in {"remove", "purge"} THEN "none" ELSE row.state
    BY <1>1, <2>1, <2>2, ChangedFields
  <2>4. /\ e.op \in {"delete", "remove"} => ev.op = "drop"
        /\ e.op \in {"hide", "show", "assign", "purge"} => ev.op = "none"
    BY <2>1, <2>2, EventOps, NoEventType
  <2>5. e.op \in {"create", "update", "delete", "hide", "show", "add", "assign", "remove", "purge"}
    BY <1>1, <2>1, <2>2, OpCases
  <2>6. r.state # "there" /\ ~untold /\ ev.op # "none"
    BY <1>4, <2>1 DEF There
  <2>7. CASE e.op \in {"delete", "remove"}
    <3>1. Late(w)' /\ edit'[w].event.op = "drop"
      BY <1>4, <2>1, <2>4, <2>7 DEF Late
    <3> QED BY <3>1 DEF GoneOK, DropAhead, Late
  <2>8. CASE e.op = "update"
    <3>1. row.state # "there"
      BY <2>3, <2>6, <2>8
    <3> QED BY <1>1, <1>2, <2>6, <3>1, ShutSame DEF There
  <2> QED BY <2>3, <2>4, <2>5, <2>6, <2>7, <2>8
<1> QED BY <1>3, <1>4, WriteStep DEF Shaped

LEMMA GoneEmit ==
  ASSUME Shaped, GoneOK, NEW w \in Editors, Emit(w)
  PROVE  GoneOK'
<1> SUFFICES ASSUME list \in {"topic", "self"}, ~There, ~untold' PROVE GoneOK'
  BY DEF Emit, GoneOK, There
<1>1. PICK ev \in FeedEvents : ev = edit[w].event
  BY Elementary, EditFields
<1>2. /\ UNCHANGED <<list, row, open, selected, held, query>>
      /\ ~untold /\ ev.op # "put" /\ (ev.op = "drop" => toTab' = Append(toTab, ev))
      /\ toTab' = toTab \/ (toTab' = Append(toTab, ev) /\ ev.op # "none")
      /\ \A v \in Editors \ {w} : edit'[v] = edit[v]
  BY <1>1, OverStep DEF Emit, view, entry, Shaped
<1>3. EventFits(ev)
  BY <1>1 DEF Shaped, ListShape, EditShape, ListOf
<1>4. ev.op \in {"none", "drop"}
  BY <1>1, <1>2, <1>3, EventFields DEF EventFits, MessageLists
<1>5. CASE ev.op = "drop"
  <2>1. PICK n : n = Len(toTab) + 1
    OBVIOUS
  <2>2. /\ toTab' = Append(toTab, ev) /\ DOMAIN toTab' = 1 .. n /\ n \in Nat /\ n > 0
        /\ toTab'[n] = ev
    BY <1>2, <1>5, <2>1, AppendFacts, Elementary
  <2>3. n \in DOMAIN toTab' /\ toTab'[n].op = "drop" /\ \A j \in DOMAIN toTab' : ~(j > n)
    BY <1>5, <2>2
  <2>4. \E i \in DOMAIN toTab' : toTab'[i].op = "drop" /\ \A j \in DOMAIN toTab' : j > i => toTab'[j].op # "put"
    BY <2>3
  <2> QED BY <2>4 DEF GoneOK, DropAhead
<1>6. CASE ev.op = "none"
  <2>1. toTab' = toTab /\ (DropAhead \/ Closed)
    BY <1>2, <1>6 DEF GoneOK
  <2>2. ASSUME NEW v \in Editors, Late(v), edit[v].event.op = "drop" PROVE DropAhead'
    <3>1. v # w /\ edit'[v] = edit[v]
      BY <1>1, <1>2, <1>6, <2>2
    <3> QED BY <2>2, <3>1 DEF DropAhead, Late
  <2>3. ASSUME NEW i \in DOMAIN toTab, toTab[i].op = "drop", \A j \in DOMAIN toTab : j > i => toTab[j].op # "put"
        PROVE  DropAhead'
    BY <2>1, <2>3 DEF DropAhead
  <2>4. ASSUME Closed PROVE Closed'
    BY <1>2, <2>1, <2>4 DEF Closed
  <2> QED BY <2>1, <2>2, <2>3, <2>4 DEF DropAhead, GoneOK
<1> QED BY <1>4, <1>5, <1>6

LEMMA GoneHandle ==
  ASSUME Shaped, GoneOK, HandleEvent
  PROVE  GoneOK'
<1>1. /\ UNCHANGED <<list, row, edit, query>> /\ toTab # <<>> /\ toTab' = Tail(toTab)
      /\ (untold => untold') /\ (open' => open) /\ (selected' => selected)
  BY DEF HandleEvent, source, CloseRoom
<1> SUFFICES ASSUME list \in {"topic", "self"}, ~There, ~untold' PROVE DropAhead' \/ Closed'
  BY <1>1 DEF GoneOK, There
<1>2. PICK ev, t : ev = Head(toTab) /\ t = Tail(toTab)
  OBVIOUS
<1>3. /\ toTab \in Seq(FeedEvents) /\ ev = toTab[1] /\ 1 \in DOMAIN toTab /\ toTab' = t
      /\ \A i \in DOMAIN t : i + 1 \in DOMAIN toTab /\ t[i] = toTab[i + 1] /\ i \in Nat /\ i > 0
      /\ \A i \in DOMAIN toTab : i > 1 => i - 1 \in DOMAIN t /\ t[i - 1] = toTab[i]
      /\ \A i \in DOMAIN toTab : i \in Nat /\ (i = 1 \/ i > 1)
  BY <1>1, <1>2, TailFacts, Elementary
<1>4. /\ EventFits(ev) /\ ev.op # "none" /\ ev \in FeedEvents
      /\ held' = (IF held = Unknown THEN held ELSE Heard(held, ev))
  BY <1>1, <1>2, UpdatedHeard DEF HandleEvent
<1>5. ev.op \in {"put", "drop"} /\ (ev.op = "drop" => ev.row = Absent)
  BY <1>4, EventFields DEF EventFits, MessageLists
<1>6. ev.op = "drop" => held' \in {Unknown, Absent}
  BY <1>4, <1>5 DEF Heard, Over
<1>7. DropAhead \/ Closed
  BY <1>1 DEF GoneOK
<1>8. ASSUME NEW w \in Editors, Late(w), edit[w].event.op = "drop" PROVE DropAhead'
  BY <1>1, <1>8 DEF DropAhead, Late
<1>9. ASSUME NEW i \in DOMAIN toTab, toTab[i].op = "drop", \A j \in DOMAIN toTab : j > i => toTab[j].op # "put"
      PROVE  DropAhead' \/ Closed'
  <2>1. CASE i > 1
    <3>1. i - 1 \in DOMAIN t /\ t[i - 1].op = "drop"
      BY <1>3, <1>9, <2>1
    <3>2. \A j \in DOMAIN t : j > i - 1 => t[j].op # "put"
      <4> SUFFICES ASSUME NEW j \in DOMAIN t, j > i - 1 PROVE t[j].op # "put"
        OBVIOUS
      <4>1. j + 1 \in DOMAIN toTab /\ j + 1 > i /\ t[j] = toTab[j + 1]
        BY <1>3
      <4> QED BY <1>9, <4>1
    <3>3. \E k \in DOMAIN toTab' : toTab'[k].op = "drop" /\ \A j \in DOMAIN toTab' : j > k => toTab'[j].op # "put"
      BY <1>3, <3>1, <3>2
    <3> QED BY <3>3 DEF DropAhead
  <2>2. CASE i = 1
    <3>1. ev.op = "drop"
      BY <1>3, <1>9, <2>2
    <3>2. /\ query.phase = "served" => query.data = Absent
          /\ list = "self" => ~open'
          /\ list = "topic" => ~selected'
      BY <1>2, <3>1 DEF HandleEvent, CloseRoom
    <3>3. \A j \in DOMAIN t : t[j].op # "put"
      <4> SUFFICES ASSUME NEW j \in DOMAIN t PROVE t[j].op # "put"
        OBVIOUS
      <4>1. j + 1 \in DOMAIN toTab /\ j + 1 > i /\ t[j] = toTab[j + 1]
        BY <1>3, <2>2
      <4> QED BY <1>9, <4>1
    <3>4. held'.is # "shown"
      BY <1>6, <3>1, ShownFields
    <3> QED BY <1>1, <1>3, <3>2, <3>3, <3>4 DEF Closed
  <2> QED BY <1>3, <2>1, <2>2
<1>10. ASSUME Closed PROVE Closed'
  <2>1. ev.op = "drop" /\ \A j \in DOMAIN t : t[j].op # "put"
    <3>1. \A j \in DOMAIN toTab : toTab[j].op # "put"
      BY <1>10 DEF Closed
    <3> QED BY <1>3, <1>5, <3>1
  <2>2. held'.is # "shown"
    BY <1>6, <2>1, ShownFields
  <2> QED BY <1>1, <1>3, <1>10, <2>1, <2>2 DEF Closed
<1> QED BY <1>7, <1>8, <1>9, <1>10 DEF DropAhead

LEMMA GoneCut ==
  ASSUME GoneOK, Cut, UNCHANGED <<list, row, edit, held, query, open, selected>>
  PROVE  GoneOK'
<1> SUFFICES ASSUME list \in {"topic", "self"}, ~There, ~untold' PROVE DropAhead' \/ Closed'
  BY DEF GoneOK, There
<1>1. DropAhead \/ Closed
  BY DEF GoneOK, Cut
<1>2. toTab' = <<>> /\ \A i \in DOMAIN toTab : toTab[i].op # "drop"
  BY DEF Cut
<1>3. ASSUME NEW w \in Editors, Late(w), edit[w].event.op = "drop" PROVE DropAhead'
  BY <1>3 DEF DropAhead, Late
<1>4. ASSUME Closed PROVE Closed'
  <2>1. \A i \in DOMAIN toTab' : toTab'[i].op # "put"
    BY <1>2
  <2> QED BY <1>4, <2>1 DEF Closed
<1> QED BY <1>1, <1>2, <1>3, <1>4 DEF DropAhead

LEMMA GoneKept == ASSUME Shaped, GoneOK, [FeedNext]_feedVars PROVE GoneOK'
<1>1. ASSUME NEW w \in Editors, Check(w) \/ ReadBack(w) PROVE GoneOK'
  <2> SUFFICES ASSUME list \in {"topic", "self"} PROVE GoneOK'
    BY <1>1 DEF Check, ReadBack, GoneOK
  <2>1. ~Late(w) /\ \A v \in Editors \ {w} : edit'[v] = edit[v]
    <3>1. ~ReadBack(w)
      BY DEF ReadBack, Shaped, ListShape, EditShape, ListOf
    <3>2. Check(w) /\ edit[w] = Free
      BY <1>1, <3>1 DEF Check
    <3> QED BY <3>2, CheckStep, FreeType DEF Shaped, Late
  <2>2. \A v \in Editors : Late(v) => Late(v)' /\ edit'[v].event = edit[v].event
    BY <2>1 DEF Late
  <2>3. UNCHANGED <<list, row, toTab, open, selected, held, query, untold>>
    BY <1>1 DEF Check, ReadBack, wire, view, entry, history
  <2> QED BY <2>2, <2>3, ShutSame DEF There
<1>2. ASSUME NEW w \in Editors, Dies(w) PROVE GoneOK'
  BY <1>2 DEF Dies, GoneOK, There
<1>3. ASSUME Answer PROVE GoneOK'
  <2> SUFFICES ASSUME list \in {"topic", "self"}, ~There, ~untold' PROVE DropAhead' \/ Closed'
    BY <1>3 DEF GoneOK, There, Answer
  <2>1. /\ UNCHANGED <<list, row, toTab, untold>> /\ edit[Tab].step \in {"told", "failed"}
        /\ \A v \in Editors \ {Tab} : edit'[v] = edit[v]
        /\ query' = query \/ query' = Sent
        /\ held' = held \/ held' = Unknown \/ held.is = "shown"
    BY <1>3, AnswerStep
  <2>2. (open' => open) /\ (selected' => selected)
    BY <1>3 DEF Answer, CloseRoom
  <2>3. DropAhead \/ Closed
    BY <2>1 DEF GoneOK
  <2>4. ASSUME NEW w \in Editors, Late(w), edit[w].event.op = "drop" PROVE DropAhead'
    <3>1. w # Tab /\ edit'[w] = edit[w]
      BY <2>1, <2>4 DEF Late
    <3> QED BY <2>4, <3>1 DEF DropAhead, Late
  <2>5. ASSUME NEW i \in DOMAIN toTab, toTab[i].op = "drop", \A j \in DOMAIN toTab : j > i => toTab[j].op # "put"
        PROVE  DropAhead'
    BY <2>1, <2>5 DEF DropAhead
  <2>6. ASSUME Closed PROVE Closed'
    <3>1. held'.is # "shown" /\ (query'.phase = "served" => query'.data = Absent)
      BY <2>1, <2>6, QueryTypes, ShownFields DEF Closed
    <3> QED BY <2>1, <2>2, <2>6, <3>1 DEF Closed
  <2> QED BY <2>3, <2>4, <2>5, <2>6 DEF DropAhead
<1>4. ASSUME ServeEntry PROVE GoneOK'
  <2> SUFFICES ASSUME ~There PROVE GoneOK'
    BY <1>4 DEF ServeEntry, GoneOK, There, source
  <2>1. UNCHANGED <<list, row, edit, toTab, open, selected, held, untold>>
    BY <1>4 DEF ServeEntry, source, wire, view
  <2>2. Current = Absent
    BY DEF Current, ShownOf, There
  <2>3. query'.phase = "served" => query'.data = Absent
    <3>1. query' = NextQuery \/ query' = [phase |-> "served", data |-> Current]
      BY <1>4 DEF ServeEntry
    <3> QED BY <2>2, <3>1, NextQueryType
  <2> QED BY <2>1, <2>3, ShutSame DEF There, Late
<1>5. ASSUME HoldAnswer \/ QueryFails PROVE GoneOK'
  <2> SUFFICES ASSUME list \in {"topic", "self"}, ~There, ~untold' PROVE DropAhead' \/ Closed'
    BY <1>5 DEF GoneOK, There, HoldAnswer, QueryFails, source
  <2>1. UNCHANGED <<list, row, edit, toTab, open, selected, untold>> /\ query' = NextQuery
    BY <1>5 DEF HoldAnswer, QueryFails, source, wire, view, history
  <2>2. held' \in {held, Unknown} \/ (query.phase = "served" /\ held' = query.data)
    BY <1>5 DEF HoldAnswer, QueryFails, Kept
  <2>3. DropAhead \/ Closed
    BY <2>1 DEF GoneOK
  <2>4. DropAhead => DropAhead'
    BY <2>1 DEF DropAhead, Late
  <2>5. ASSUME Closed PROVE Closed'
    <3>1. held'.is # "shown" /\ query'.phase # "served"
      BY <2>1, <2>2, <2>5, ShownFields, NextQueryType DEF Closed
    <3> QED BY <2>1, <2>5, <3>1 DEF Closed
  <2> QED BY <2>3, <2>4, <2>5
<1>6. ASSUME OpenRoom PROVE GoneOK'
  <2> SUFFICES ASSUME list \in {"topic", "self"}, ~There PROVE GoneOK'
    BY <1>6 DEF GoneOK, There, OpenRoom, source
  <2>1. /\ UNCHANGED <<list, row, edit, toTab, selected, held, untold>> /\ list = "topic"
        /\ query' = query \/ query' = Sent
    BY <1>6 DEF OpenRoom, Refused, source, history
  <2> QED BY <2>1, ShutSame, QueryTypes DEF There, Late
<1>7. ASSUME Reconnect \/ Expire \/ ServeChannel \/ LeaveRoom \/ UNCHANGED feedVars PROVE GoneOK'
  <2>1. UNCHANGED <<list, row, edit, toTab, held, query, untold>>
    BY <1>7, QuietStill
  <2>2. (open' => open) /\ (selected' => selected)
    BY <1>7 DEF Reconnect, Expire, ServeChannel, LeaveRoom, CloseRoom, feedVars, view
  <2> QED BY <2>1, <2>2, ShutSame DEF There, Late
<1>8. ASSUME ChooseTopic PROVE GoneOK'
  <2> SUFFICES ASSUME ~There, ~untold PROVE GoneOK'
    BY <1>8 DEF GoneOK, There, ChooseTopic, source, history
  <2>1. /\ UNCHANGED <<list, row, edit, toTab, held, query, untold>> /\ list = "topic" /\ held.is = "shown"
    BY <1>8, QuietStill DEF ChooseTopic
  <2>2. DropAhead
    BY <2>1 DEF GoneOK, Closed
  <2> QED BY <2>1, <2>2 DEF GoneOK, DropAhead, Late
<1> QED BY <1>1, <1>2, <1>3, <1>4, <1>5, <1>6, <1>7, <1>8, GoneWrite, GoneEmit, GoneHandle, GoneCut,
           FeedCases, CutStill

------------------------------------------------------------------------------
(* An answer on its way counts no receipt that is still to come *)

LEMMA ListSame == ASSUME Shaped, [FeedNext]_feedVars PROVE list' = list
BY Elementary, FeedCases, AnswerStep, QuietStill, CutStill
   DEF Check, Write, ReadBack, Emit, Dies, ServeEntry, HoldAnswer, QueryFails, HandleEvent, OpenRoom

LEMMA MessageCurrent ==
  ASSUME Shaped, list \in MessageLists, list # "reply"
  PROVE  /\ Current = Shown(row.says, Count(row)) /\ Count(row) \in Nat
         /\ Current.is = "shown" /\ Current.count = Count(row)
<1>1. row.state = "there" /\ ~row.hidden /\ row \in ListRows
  BY Elementary DEF Shaped, ListShape, RowShape, There, MessageLists
<1> QED BY <1>1, CountType, ShownFields DEF Current, ShownOf

(* A message is only read by more.                                         *)
LEMMA CountGrows ==
  ASSUME Shaped, ByReaders, NEW w \in Editors, Write(w)
  PROVE  Count(row) \in Nat /\ Count(row') \in Nat /\ Count(row) <= Count(row')
<1>1. /\ edit[w] \in Edits /\ edit[w].says \in Sayings /\ edit[w].op \in Ops /\ row \in ListRows
      /\ row' = row \/ (row' = Changed(edit[w]) /\ row' \in ListRows)
  BY WriteStep, Elementary DEF Shaped
<1>2. Count(row) \in Nat
  BY <1>1, CountType
<1>3. CASE row' = row
  BY <1>2, <1>3
<1>4. CASE row' = Changed(edit[w]) /\ row' \in ListRows
  <2>1. PICK e \in Edits, r \in ListRows : e = edit[w] /\ r = row' /\ r = Changed(e)
    BY <1>1, <1>4
  <2>2. r.readers = row.readers \/ r.readers = row.readers \union {e.by}
    BY <1>1, <2>1, ChangedFields
  <2>3. row.readers \in SUBSET Who /\ e.by \in Who
    BY <1>1, <2>1, RowFields, EditFields
  <2>4. Count(r) = Count(row) \/ Count(r) = Count(row) + 1
    <3>1. PICK R, b, a : R \in SUBSET Who /\ b \in Who /\ R = row.readers /\ b = e.by /\ a = Author
      BY <2>3
    <3>2. Count(row) = Cardinality(R \ {a}) /\ (r.readers = R => Count(r) = Cardinality(R \ {a}))
          /\ (r.readers = R \union {b} => Count(r) = Cardinality((R \union {b}) \ {a}))
      BY <3>1 DEF Count
    <3>3. \/ Cardinality((R \union {b}) \ {a}) = Cardinality(R \ {a})
          \/ Cardinality((R \union {b}) \ {a}) = Cardinality(R \ {a}) + 1
      BY <3>1, CountRead
    <3> QED BY <2>2, <3>1, <3>2, <3>3
  <2> QED BY <1>2, <2>1, <2>4
<1> QED BY <1>1, <1>3, <1>4

LEMMA CountSame ==
  ASSUME CountAhead, UNCHANGED <<list, row>>, query'.phase = "served" => query' = query,
         astray => astray', FitPending' => FitPending
  PROVE  CountAhead'
BY DEF CountAhead, Count, Author, MessageLists

LEMMA CountKept ==
  ASSUME Shaped, ByReaders, PlusOnce, CountAhead, [FeedNext]_feedVars
  PROVE  CountAhead'
<1>1. ASSUME NEW w \in Editors, Check(w) PROVE CountAhead'
  <2>1. /\ edit[w] = Free /\ edit'[w].step = "checked" /\ \A v \in Editors \ {w} : edit'[v] = edit[v]
    BY <1>1, CheckStep DEF Shaped
  <2>2. UNCHANGED <<list, row, toTab, query, astray>>
    BY <1>1 DEF Check, wire, entry, history
  <2>3. FitPending' => FitPending
    BY <2>1, <2>2 DEF FitPending, FitPlus, Plus, Late
  <2> QED BY <2>2, <2>3, CountSame
<1>2. ASSUME NEW w \in Editors, ReadBack(w) PROVE CountAhead'
  <2>1. list = "room"
    BY <1>2 DEF ReadBack, Shaped, ListShape, EditShape, ListOf
  <2> QED BY <1>2, <2>1, ListSame DEF CountAhead, MessageLists
<1>3. ASSUME NEW w \in Editors, Emit(w) \/ Dies(w) PROVE CountAhead'
  <2>1. /\ edit'[w].step \notin {"written", "ready"} /\ \A v \in Editors \ {w} : edit'[v] = edit[v]
    BY <1>3, OverStep DEF Shaped
  <2>2. UNCHANGED <<list, row, query>> /\ (astray => astray')
    BY <1>3 DEF Emit, Dies, entry
  <2>3. PICK ev \in FeedEvents : ev = edit[w].event
    BY Elementary, EditFields
  <2>4. toTab' = toTab \/ (toTab' = Append(toTab, ev) /\ Late(w))
    BY <1>3, <2>3 DEF Emit, Dies, wire, Late
  <2>5. ASSUME NEW v \in Editors, Late(v)', FitPlus(edit'[v].event) PROVE FitPending
    BY <2>1, <2>5 DEF FitPending, Late
  <2>6. ASSUME NEW i \in DOMAIN toTab', FitPlus(toTab'[i]) PROVE FitPending
    <3>1. CASE toTab' = toTab
      BY <2>6, <3>1 DEF FitPending
    <3>2. CASE toTab' = Append(toTab, ev) /\ Late(w)
      <4>1. toTab'[i] = ev \/ (i \in DOMAIN toTab /\ toTab'[i] = toTab[i])
        <5>1. /\ Len(toTab) \in Nat /\ DOMAIN toTab = 1 .. Len(toTab)
              /\ DOMAIN toTab' = 1 .. (Len(toTab) + 1) /\ toTab'[Len(toTab) + 1] = ev
              /\ \A k \in DOMAIN toTab : toTab'[k] = toTab[k]
          BY <3>2, AppendFacts, Elementary
        <5> QED BY <2>6, <5>1
      <4> QED BY <2>3, <2>6, <3>2, <4>1 DEF FitPending
    <3> QED BY <2>4, <3>1, <3>2
  <2>7. FitPending' => FitPending
    BY <2>5, <2>6 DEF FitPending, FitPlus, Plus, Late
  <2> QED BY <2>2, <2>7, CountSame
<1>4. ASSUME NEW w \in Editors, Write(w) PROVE CountAhead'
  <2> SUFFICES ASSUME query.phase = "served", ~astray', list # "reply", list \in MessageLists
               PROVE  CountAhead'
    BY <1>4, ListSame DEF Write, entry, CountAhead, MessageLists
  <2>1. /\ UNCHANGED <<list, toTab, query>> /\ edit[w].step = "checked" /\ edit[w] \in Edits
        /\ \A v \in Editors \ {w} : edit'[v] = edit[v]
    BY <1>4, WriteStep DEF Shaped, Write, wire, entry
  <2>2. Count(row) \in Nat /\ Count(row') \in Nat /\ Count(row) <= Count(row') /\ Count(row)' = Count(row')
    BY <1>4, <2>1, CountGrows DEF Count, Author
  <2>3. ~astray
    BY <1>4, WriteStep DEF Shaped
  <2>4. /\ query.data.is = "shown" /\ query.data.count \in Nat /\ query.data.count <= Count(row)
        /\ FitPending => query.data.count < Count(row)
    BY <2>3 DEF CountAhead
  <2>5. ASSUME ~FitPending, FitPending' PROVE Count(row') > Count(row)
    <3>1. Late(w)' /\ FitPlus(edit'[w].event)
      BY <2>1, <2>5 DEF FitPending, FitPlus, Plus, Late
    <3>2. row' = Changed(edit[w]) /\ edit'[w].event = EventOf(edit[w], row') /\ row' \in ListRows
      BY <1>4, <3>1, WriteStep DEF Shaped, Late
    <3>3. PICK r \in ListRows, ev \in {EventOf(edit[w], Changed(edit[w]))} : r = row'
      BY <3>2
    <3>4. Plus(ev) /\ ev.fits
      BY <3>1, <3>2, <3>3 DEF FitPlus
    <3>5. Count(r) = Count(row) + 1
      BY <1>4, <3>2, <3>3, <3>4, WritePlus
    <3> QED BY <2>2, <3>3, <3>5
  <2>6. FitPending' => query.data.count < Count(row')
    BY <2>2, <2>4, <2>5
  <2>7. query.data.count <= Count(row')
    BY <2>2, <2>4
  <2> QED BY <2>1, <2>2, <2>4, <2>6, <2>7 DEF CountAhead
<1>5. ASSUME ServeEntry PROVE CountAhead'
  <2> SUFFICES ASSUME ~astray', list # "reply", list \in MessageLists PROVE CountAhead'
    BY <1>5, ListSame DEF CountAhead, MessageLists
  <2>1. UNCHANGED <<list, row, edit, toTab>> /\ ~Refused
    BY <1>5 DEF ServeEntry, source, wire, Refused, MessageLists
  <2>2. query' = [phase |-> "served", data |-> Current] /\ \A ev \in Events : ~Repeats(ev)
    BY <1>5, <2>1 DEF ServeEntry
  <2>3. query'.data = Current
    BY <2>2
  <2>4. ~FitPending
    BY <2>2 DEF FitPending, FitPlus, Plus, Repeats, Events
  <2>5. ~FitPending'
    BY <2>1, <2>4 DEF FitPending, Late
  <2>6. Count(row)' = Count(row)
    BY <2>1 DEF Count, Author
  <2>7. query'.data.is = "shown" /\ query'.data.count \in Nat /\ query'.data.count <= Count(row)
    BY <2>3, MessageCurrent
  <2> QED BY <2>5, <2>6, <2>7 DEF CountAhead
<1>6. ASSUME HoldAnswer \/ QueryFails PROVE CountAhead'
  <2>1. query'.phase # "served"
    BY <1>6, NextQueryType DEF HoldAnswer, QueryFails
  <2> QED BY <2>1 DEF CountAhead
<1>7. ASSUME HandleEvent PROVE CountAhead'
  <2>1. UNCHANGED <<list, row, edit, query>> /\ (astray => astray') /\ toTab # <<>> /\ toTab' = Tail(toTab)
    BY <1>7 DEF HandleEvent, source
  <2>2. PICK t : t = Tail(toTab)
    OBVIOUS
  <2>3. \A i \in DOMAIN t : i + 1 \in DOMAIN toTab /\ t[i] = toTab[i + 1]
    BY <2>1, <2>2, TailFacts, Elementary
  <2>4. FitPending' => FitPending
    BY <2>1, <2>2, <2>3 DEF FitPending, Late, FitPlus, Plus
  <2> QED BY <2>1, <2>4, CountSame
<1>8. ASSUME Answer PROVE CountAhead'
  <2>1. /\ UNCHANGED <<list, row, toTab>> /\ edit'[Tab] = Free /\ (astray => astray')
        /\ \A v \in Editors \ {Tab} : edit'[v] = edit[v]
        /\ query' = query \/ query' = Sent
    BY <1>8, AnswerStep
  <2>2. FitPending' => FitPending
    BY <2>1, FreeType DEF FitPending, FitPlus, Plus, Late
  <2> QED BY <2>1, <2>2, CountSame, QueryTypes
<1>9. ASSUME OpenRoom PROVE CountAhead'
  <2>1. UNCHANGED <<list, row, edit, toTab, astray>> /\ (query' = query \/ query' = Sent)
    BY <1>9 DEF OpenRoom, source, history
  <2>2. FitPending' => FitPending
    BY <2>1 DEF FitPending, Late
  <2> QED BY <2>1, <2>2, CountSame, QueryTypes
<1>10. ASSUME Cut, UNCHANGED <<list, row, edit, query>> PROVE CountAhead'
  <2>1. toTab' = <<>> /\ (astray => astray')
    BY <1>10 DEF Cut
  <2>2. FitPending' => FitPending
    BY <1>10, <2>1 DEF FitPending, Late, FitPlus, Plus
  <2> QED BY <1>10, <2>1, <2>2, CountSame
<1>11. ASSUME UNCHANGED <<list, row, edit, toTab, query, astray>> PROVE CountAhead'
  <2>1. FitPending' => FitPending
    BY <1>11 DEF FitPending, Late
  <2> QED BY <1>11, <2>1, CountSame
<1> QED BY <1>1, <1>2, <1>3, <1>4, <1>5, <1>6, <1>7, <1>8, <1>9, <1>10, <1>11, FeedCases, QuietStill, CutStill

LEMMA ReadsKept == ASSUME Shaped, RoomReads, [FeedNext]_feedVars PROVE RoomReads'
<1> SUFFICES ASSUME NEW v \in Editors, edit'[v].step = "written"
             PROVE  edit'[v].event.op = "put" /\ (There' => edit'[v].event.fits)
  BY DEF RoomReads
<1>1. edit \in [Editors -> Edits] /\ row \in ListRows /\ list \in Lists
  BY Elementary
<1>2. ASSUME edit[v].step = "written", edit'[v].event = edit[v].event, There' => There
      PROVE  edit'[v].event.op = "put" /\ (There' => edit'[v].event.fits)
  BY <1>2 DEF RoomReads
<1>3. ASSUME NEW w \in Editors, Check(w) \/ ReadBack(w) \/ Emit(w) \/ Dies(w)
      PROVE  edit[v].step = "written" /\ edit'[v].event = edit[v].event /\ There' = There
  <2>1. row' = row
    BY <1>3 DEF Check, ReadBack, Emit, Dies
  <2>2. edit'[w].step # "written" /\ \A u \in Editors \ {w} : edit'[u] = edit[u]
    BY <1>3, CheckStep, ReadBackStep, OverStep DEF Shaped
  <2> QED BY <2>1, <2>2 DEF There
<1>4. ASSUME NEW w \in Editors, Write(w) PROVE edit'[v].event.op = "put" /\ (There' => edit'[v].event.fits)
  <2>1. /\ \A u \in Editors \ {w} : edit'[u] = edit[u]
        /\ edit[w] \in Edits /\ edit[w].op \in Ops /\ edit[w].says \in Sayings
    BY <1>4, WriteStep DEF Shaped
  <2>2. list = "room"
    BY <1>4, WriteShape DEF Shaped, ListShape, EditShape, ListOf, Write
  <2>3. CASE /\ row' = Changed(edit[w]) /\ row' \in ListRows
             /\ edit'[w].step = IF list = "room" /\ edit[w].op = "update" THEN "written" ELSE "ready"
             /\ edit'[w].event = EventOf(edit[w], Changed(edit[w]))
    <3>1. PICK e \in Edits, r \in ListRows : e = edit[w] /\ r = row' /\ r = Changed(e)
      BY <2>1, <2>3
    <3>2. PICK ev : ev = EventOf(e, r) /\ ev = edit'[w].event
      BY <2>3, <3>1
    <3>3. e.op \in {"update", "close"} /\ (e.op = "update" => r.state = row.state /\ r.hidden = row.hidden)
          /\ (e.op = "close" => r.state = "gone")
      BY <1>1, <2>1, <2>2, <3>1, OpCases, ChangedFields
    <3>4. ~row.hidden
      BY <2>2 DEF Shaped, ListShape, RowShape
    <3>5. CASE v = w
      <4>1. e.op = "update"
        BY <2>3, <3>1, <3>5
      <4>2. ev.op = "put" /\ (ev.fits <=> ShownOf(r) # Absent)
        BY <3>2, <4>1, EventOps
      <4>3. r.state = "there" => ShownOf(r) # Absent
        BY <3>3, <3>4, <4>1, EntryCases DEF ShownOf
      <4> QED BY <3>1, <3>2, <3>5, <4>2, <4>3 DEF There
    <3>6. CASE v # w
      <4>1. There' => There
        BY <3>1, <3>3 DEF There
      <4> QED BY <1>2, <2>1, <3>6, <4>1
    <3> QED BY <3>5, <3>6
  <2>4. CASE UNCHANGED row /\ edit'[w].step \in {"free", "failed"}
    BY <1>2, <2>1, <2>4 DEF There
  <2> QED BY <1>4, <2>3, <2>4, WriteStep DEF Shaped
<1>5. ASSUME Answer PROVE edit[v].step = "written" /\ edit'[v].event = edit[v].event /\ There' = There
  BY <1>5, AnswerStep, FreeType DEF There
<1>6. ASSUME UNCHANGED <<row, edit>> PROVE edit[v].step = "written" /\ edit'[v].event = edit[v].event /\ There' = There
  BY <1>6 DEF There
<1>7. ASSUME ServeEntry \/ HoldAnswer \/ QueryFails \/ HandleEvent \/ OpenRoom PROVE UNCHANGED <<row, edit>>
  BY <1>7 DEF ServeEntry, HoldAnswer, QueryFails, HandleEvent, OpenRoom, source
<1> QED BY <1>2, <1>3, <1>4, <1>5, <1>6, <1>7, FeedCases, QuietStill, CutStill

------------------------------------------------------------------------------
(* What the tab holds comes to what the row is *)

LEMMA DueSame ==
  ASSUME NEW b, Due(b), UNCHANGED <<list, row, toTab>>,
         \A v \in Editors : (Late(v)' <=> Late(v)) /\ (Late(v) => edit'[v].event = edit[v].event)
  PROVE  Due(b)'
<1>1. Current' = Current
  BY DEF Current, ShownOf, Count, Author
<1>2. \A v \in Editors : /\ Effective(v)' <=> Effective(v)
                         /\ Effective(v) => edit'[v].event = edit[v].event
  BY DEF Effective, Late, Over, Plus
<1>3. CASE (\A w \in Editors : ~Effective(w)) /\ Leads(b, toTab, Current)
  BY <1>1, <1>2, <1>3 DEF Due
<1>4. ASSUME NEW w \in Editors, Effective(w),
             \A u \in Editors : Effective(u) => Over(edit[u].event) /\ edit[u].event.row = Current
      PROVE  Due(b)'
  <2>1. Effective(w)' /\ \A u \in Editors : Effective(u)' => Over(edit'[u].event) /\ edit'[u].event.row = Current'
    BY <1>1, <1>2, <1>4
  <2> QED BY <2>1 DEF Due, Over
<1>5. ASSUME NEW w \in Editors, NEW c \in FeedEntries, \A u \in Editors : Effective(u) <=> u = w,
             Plus(edit[w].event), Leads(b, toTab, c), Inc(c) = Current
      PROVE  Due(b)'
  <2>1. (\A u \in Editors : Effective(u)' <=> u = w) /\ Plus(edit'[w].event) /\ Inc(c) = Current'
    BY <1>1, <1>2, <1>5
  <2> QED BY <1>5, <2>1 DEF Due, Plus
<1> QED BY <1>3, <1>4, <1>5 DEF Due

LEMMA RowNow ==
  ASSUME RowOK, ~astray, Fits, list # "reply", NEW b, b = Base, b # Unknown
  PROVE  Due(b)
BY DEF RowOK, Due

LEMMA RowNext ==
  ASSUME NEW b, b = Base', Due(b)'
  PROVE  RowOK'
BY DEF RowOK, Due

LEMMA RowSame ==
  ASSUME RowOK, UNCHANGED <<list, row, toTab>>, astray => astray', Base' \in {Base, Unknown},
         \A v \in Editors : (Late(v)' <=> Late(v)) /\ (Late(v) => edit'[v].event = edit[v].event)
  PROVE  RowOK'
<1> SUFFICES ASSUME ~astray', Fits', Base' # Unknown, list # "reply" PROVE RowOK'
  BY DEF RowOK
<1>1. Fits
  BY DEF Fits, Late
<1>2. PICK b : b = Base'
  OBVIOUS
<1>3. b = Base /\ b # Unknown
  BY <1>2
<1>4. Due(b)
  BY <1>1, <1>3, RowNow
<1>5. Due(b)'
  BY <1>4, DueSame
<1> QED BY <1>2, <1>5, RowNext

LEMMA RowWrite ==
  ASSUME Shaped, ByReaders, PlusOnce, RowOK, NEW w \in Editors, Write(w)
  PROVE  RowOK'
<1>1. /\ UNCHANGED <<list, toTab, held, query>> /\ edit[w] \in Edits /\ edit[w].step = "checked"
      /\ edit[w].op \in Ops /\ edit[w].says \in Sayings
      /\ \A v \in Editors \ {w} : edit'[v] = edit[v]
  BY WriteStep DEF Shaped, Write, wire, entry
<1>2. Base' = Base
  BY <1>1 DEF Base
<1>3. CASE UNCHANGED <<row, astray, untold>> /\ edit'[w].step \in {"free", "failed"}
  <2>1. \A v \in Editors : (Late(v)' <=> Late(v)) /\ (Late(v) => edit'[v].event = edit[v].event)
    BY <1>1, <1>3 DEF Late
  <2> QED BY <1>1, <1>2, <1>3, <2>1, RowSame
<1>4. CASE /\ row' = Changed(edit[w]) /\ row' \in ListRows
           /\ edit'[w].step = IF list = "room" /\ edit[w].op = "update" THEN "written" ELSE "ready"
           /\ edit'[w].event = EventOf(edit[w], Changed(edit[w]))
           /\ astray' = (astray \/ Silent(EventOf(edit[w], row'), row, row')
                                \/ \E v \in Editors \ {w} : Late(v))
  <2> SUFFICES ASSUME ~astray', Fits', Base' # Unknown, list # "reply" PROVE RowOK'
    BY <1>1 DEF RowOK
  <2>1. PICK e, r, ev, b : e = edit[w] /\ r = Changed(e) /\ ev = EventOf(e, r) /\ b = Base
    OBVIOUS
  <2>2. /\ ~astray /\ ~Silent(ev, row, r) /\ (\A v \in Editors : ~Late(v))
        /\ edit'[w].event = ev /\ Late(w)' /\ row' = r /\ r \in ListRows /\ e \in Edits
        /\ \A v \in Editors \ {w} : ~Late(v)'
    BY <1>1, <1>4, <2>1 DEF Late
  <2>3. Fits /\ ev.fits
    BY <1>1, <2>2 DEF Fits, Late
  <2>4. b = Base' /\ b # Unknown
    BY <1>2, <2>1
  <2>5. Due(b)
    BY <2>1, <2>2, <2>3, <2>4, RowNow
  <2>6. Leads(b, toTab, Current)
    BY <2>2, <2>5 DEF Due, Effective
  <2>7. ShownOf(r)' = ShownOf(r) /\ Current' = ShownOf(r) /\ Current = ShownOf(row)
    BY <1>1, <2>2 DEF Current, ShownOf, Count, Author
  <2>8. /\ e.op \in {"create", "update", "add", "pin"} =>
             ev.op = "put" /\ ev.row = Shown(r.says, Count(r)) /\ (ev.fits <=> ShownOf(r) # Absent)
        /\ e.op \in {"delete", "remove"} => ev.op = "drop" /\ ev.row = Absent
        /\ e.op = "read" => ev.op = "plus"
        /\ e.op \in {"hide", "show", "assign", "purge", "close"} => ev.op = "none"
    BY <2>1, <2>2, EventOps, NoEventType
  <2>9. e.op \in {"create", "update", "delete", "hide", "show", "add", "assign", "remove", "purge",
                  "close", "pin", "read"}
    BY <2>2, EditFields
  <2>10. ASSUME Over(ev), ev.row = ShownOf(r) PROVE Due(b)'
    <3>1. Effective(w)' /\ \A u \in Editors : Effective(u)' => Over(edit'[u].event) /\ edit'[u].event.row = Current'
      BY <2>2, <2>7, <2>10 DEF Effective, Late, Over
    <3> QED BY <3>1 DEF Due, Over
  <2>11. CASE e.op \in {"create", "update", "add", "pin"}
    <3>1. ev.row = ShownOf(r)
      BY <2>3, <2>8, <2>11 DEF ShownOf
    <3>2. Due(b)'
      BY <2>8, <2>10, <2>11, <3>1 DEF Over
    <3> QED BY <2>4, <3>2, RowNext
  <2>12. CASE e.op \in {"delete", "remove"}
    <3>1. r.state # "there"
      BY <1>1, <2>1, <2>12, ChangedFields, Elementary
    <3>2. Due(b)'
      BY <2>8, <2>10, <2>12, <3>1 DEF Over, ShownOf
    <3> QED BY <2>4, <3>2, RowNext
  <2>13. CASE ~Over(ev) /\ ~Plus(ev)
    <3>1. ev.op = "none" \/ (ev.op = "plus" /\ ev.by = "user")
      BY <2>8, <2>9, <2>13 DEF Over, Plus
    <3>2. Current' = Current
      BY <2>2, <2>7, <3>1 DEF Silent
    <3>3. \A u \in Editors : ~Effective(u)'
      BY <2>2, <2>13 DEF Effective, Late, Over, Plus
    <3>4. Due(b)'
      BY <1>1, <2>6, <3>2, <3>3 DEF Due
    <3> QED BY <2>4, <3>4, RowNext
  <2>14. CASE Plus(ev)
    <3>1. /\ r.state = row.state /\ r.hidden = row.hidden /\ r.says = row.says
          /\ Count(r) = Count(row) + 1 /\ e.op = "read"
      BY <2>1, <2>2, <2>3, <2>14, WritePlus
    <3>2. list \in MessageLists
      BY <1>1, <2>1, <3>1, OpCases, ListCases, Elementary
    <3>3. row.state = "there" /\ ~row.hidden
      BY <3>2 DEF Shaped, ListShape, RowShape, There, MessageLists
    <3>4. Current = Shown(row.says, Count(row)) /\ Current' = Shown(row.says, Count(row) + 1)
      BY <2>7, <3>1, <3>3 DEF ShownOf
    <3>5. PICK c \in FeedEntries : c = Current
      BY Elementary
    <3>6. Inc(c) = Current'
      BY <3>4, <3>5, IncFacts
    <3>7. (\A u \in Editors : Effective(u)' <=> u = w) /\ Plus(edit'[w].event)
      BY <2>2, <2>14 DEF Effective, Late, Plus
    <3>8. Leads(b, toTab', c)
      BY <1>1, <2>6, <3>5
    <3>9. Due(b)'
      BY <3>6, <3>7, <3>8 DEF Due, Plus
    <3> QED BY <2>4, <3>9, RowNext
  <2> QED BY <2>8, <2>9, <2>11, <2>12, <2>13, <2>14 DEF Over, Plus
<1> QED BY <1>3, <1>4, WriteStep DEF Shaped

LEMMA RowReadBack ==
  ASSUME Shaped, RoomReads, RowOK, NEW w \in Editors, ReadBack(w)
  PROVE  RowOK'
<1> SUFFICES ASSUME ~astray', Fits', Base' # Unknown, list # "reply" PROVE RowOK'
  BY DEF RowOK, ReadBack
<1>1. UNCHANGED <<list, row, toTab, held, query, astray>> /\ edit[w].step = "written" /\ list = "room"
  BY DEF ReadBack, wire, entry, history, Shaped, ListShape, EditShape, ListOf
<1>2. There /\ ~row.hidden /\ edit[w].event.op = "put" /\ edit[w].event.fits
  BY <1>1 DEF RoomReads, Shaped, ListShape, RoomShape, RowShape
<1>3. /\ edit'[w].step = "ready" /\ edit'[w].event.op = "put"
      /\ \A v \in Editors \ {w} : edit'[v] = edit[v]
      /\ \E n \in 0 .. 1 : edit'[w].event.row = Shown(row.says, n) /\ (edit'[w].event.fits <=> n = Count(row))
  BY <1>2, ReadBackStep DEF Shaped
<1>4. edit'[w].event.fits
  BY <1>3 DEF Fits, Late
<1>5. edit'[w].event.row = Current
  BY <1>2, <1>3, <1>4 DEF Current, ShownOf, There
<1>6. Current' = Current
  BY <1>1 DEF Current, ShownOf, Count, Author
<1>7. Fits
  BY <1>1, <1>2, <1>3 DEF Fits, Late
<1>8. PICK b : b = Base' /\ b = Base /\ b # Unknown
  BY <1>1 DEF Base
<1>9. Due(b)
  BY <1>1, <1>7, <1>8, RowNow
<1>10. Effective(w) /\ ~Plus(edit[w].event)
  BY <1>1, <1>2 DEF Effective, Late, Over, Plus
<1>11. \A u \in Editors : Effective(u) => Over(edit[u].event) /\ edit[u].event.row = Current
  BY <1>9, <1>10 DEF Due
<1>12. Effective(w)' /\ \A u \in Editors : Effective(u)' => Over(edit'[u].event) /\ edit'[u].event.row = Current'
  BY <1>3, <1>5, <1>6, <1>11 DEF Effective, Late, Over, Plus
<1>13. Due(b)'
  BY <1>12 DEF Due, Over
<1> QED BY <1>8, <1>13, RowNext

LEMMA RowEmit ==
  ASSUME Shaped, PlusOnce, RowOK, NEW w \in Editors, Emit(w)
  PROVE  RowOK'
<1> SUFFICES ASSUME ~astray', Fits', Base' # Unknown, list # "reply" PROVE RowOK'
  BY DEF RowOK, Emit
<1>1. PICK ev \in FeedEvents, c \in FeedEntries : ev = edit[w].event /\ c = Current
  BY Elementary, EditFields
<1>2. /\ UNCHANGED <<list, row, held, query>> /\ edit[w].step = "ready" /\ ~astray
      /\ IF ev.op # "none" THEN toTab' = Append(toTab, ev) ELSE toTab' = toTab
  BY <1>1 DEF Emit, entry
<1>3. /\ \A v \in Editors \ {w} : edit'[v] = edit[v]
      /\ ~Late(w)' /\ Late(w) /\ EventFits(ev) /\ toTab \in Seq(FeedEvents)
  BY <1>1, <1>2, OverStep, Elementary DEF Shaped, Late, ListShape, EditShape, ListOf
<1>4. Current' = c
  BY <1>1, <1>2 DEF Current, ShownOf, Count, Author
<1>5. (\A i \in DOMAIN toTab : toTab[i].fits) /\ ev.fits
  <2>1. CASE ev.op = "none"
    BY <1>2, <1>3, <2>1 DEF Fits, EventFits
  <2>2. CASE ev.op # "none"
    <3>1. /\ Len(toTab) \in Nat /\ DOMAIN toTab = 1 .. Len(toTab) /\ DOMAIN toTab' = 1 .. (Len(toTab) + 1)
          /\ toTab'[Len(toTab) + 1] = ev /\ \A i \in DOMAIN toTab : toTab'[i] = toTab[i]
      BY <1>2, <1>3, <2>2, AppendFacts
    <3>2. \A i \in DOMAIN toTab' : toTab'[i].fits
      BY DEF Fits
    <3>3. Len(toTab) + 1 \in DOMAIN toTab' /\ \A i \in DOMAIN toTab : i \in DOMAIN toTab'
      BY <3>1
    <3> QED BY <3>1, <3>2, <3>3
  <2> QED BY <2>1, <2>2
<1>6. Fits
  BY <1>1, <1>3, <1>5 DEF Fits, Late
<1>7. PICK b : b = Base' /\ b = Base /\ b # Unknown
  BY <1>2 DEF Base
<1>8. Due(b)
  BY <1>2, <1>6, <1>7, RowNow
<1>9. \A v \in Editors : /\ Effective(v)' <=> Effective(v) /\ v # w
                         /\ v # w => edit'[v].event = edit[v].event
  BY <1>3 DEF Effective, Late, Over, Plus
<1>10. Effective(w) <=> Over(ev) \/ Plus(ev)
  BY <1>1, <1>3 DEF Effective
<1>11. ASSUME NEW k, Leads(b, toTab, k), ~Over(ev), ~Plus(ev) PROVE Leads(b, toTab', k)
  BY <1>2, <1>3, <1>11, LeadsMore
<1>12. CASE ~Over(ev) /\ ~Plus(ev)
  <2>1. CASE (\A v \in Editors : ~Effective(v)) /\ Leads(b, toTab, Current)
    BY <1>1, <1>4, <1>7, <1>9, <1>11, <1>12, <2>1, RowNext DEF Due
  <2>2. ASSUME NEW v \in Editors, Effective(v),
               \A u \in Editors : Effective(u) => Over(edit[u].event) /\ edit[u].event.row = Current
        PROVE  Due(b)'
    <3>1. Effective(v)' /\ \A u \in Editors : Effective(u)' => Over(edit'[u].event) /\ edit'[u].event.row = Current'
      BY <1>1, <1>4, <1>9, <1>10, <1>12, <2>2
    <3> QED BY <3>1 DEF Due, Over
  <2>3. ASSUME NEW v \in Editors, NEW k \in FeedEntries, \A u \in Editors : Effective(u) <=> u = v,
               Plus(edit[v].event), Leads(b, toTab, k), Inc(k) = Current
        PROVE  Due(b)'
    <3>1. v # w
      BY <1>1, <1>12, <2>3
    <3>2. (\A u \in Editors : Effective(u)' <=> u = v) /\ Plus(edit'[v].event) /\ Inc(k) = Current'
      BY <1>1, <1>4, <1>9, <2>3, <3>1
    <3>3. Leads(b, toTab', k)
      BY <1>11, <1>12, <2>3
    <3> QED BY <3>2, <3>3 DEF Due, Plus
  <2> QED BY <1>7, <1>8, <2>1, <2>2, <2>3, RowNext DEF Due
<1>13. CASE Over(ev)
  <2>1. ~Plus(ev) /\ ev.op # "none"
    BY <1>13 DEF Over, Plus
  <2>2. \A u \in Editors : Effective(u) => Over(edit[u].event) /\ edit[u].event.row = Current
    BY <1>1, <1>8, <1>10, <1>13, <2>1 DEF Due
  <2>3. ev.row = c
    BY <1>1, <1>10, <1>13, <2>2
  <2>4. CASE \E v \in Editors : Effective(v)'
    <3>1. \A u \in Editors : Effective(u)' => Over(edit'[u].event) /\ edit'[u].event.row = Current'
      BY <1>1, <1>4, <1>9, <2>2
    <3>2. Due(b)'
      BY <2>4, <3>1 DEF Due, Over
    <3> QED BY <1>7, <3>2, RowNext
  <2>5. CASE \A v \in Editors : ~Effective(v)'
    <3>1. Leads(b, toTab', c)
      BY <1>2, <1>3, <1>13, <2>1, <2>3, LeadsOver
    <3>2. Due(b)'
      BY <1>4, <2>5, <3>1 DEF Due
    <3> QED BY <1>7, <3>2, RowNext
  <2> QED BY <2>4, <2>5
<1>14. CASE Plus(ev)
  <2>1. ~Over(ev) /\ ev.op # "none"
    BY <1>14 DEF Over, Plus
  <2>2. PICK k \in FeedEntries : Leads(b, toTab, k) /\ Inc(k) = c /\ \A u \in Editors : Effective(u) <=> u = w
    BY <1>1, <1>8, <1>10, <1>14, <2>1 DEF Due
  <2>3. \A i \in DOMAIN toTab : ~Plus(toTab[i])
    BY <1>1, <1>3, <1>5, <1>14 DEF PlusOnce, FitPlus
  <2>4. Leads(b, toTab', c)
    BY <1>2, <1>3, <1>14, <2>1, <2>2, <2>3, LeadsMore
  <2>5. \A v \in Editors : ~Effective(v)'
    BY <1>9, <2>2
  <2>6. Due(b)'
    BY <1>4, <2>4, <2>5 DEF Due
  <2> QED BY <1>7, <2>6, RowNext
<1> QED BY <1>12, <1>13, <1>14

LEMMA RowServe ==
  ASSUME Shaped, RowOK, ServeEntry
  PROVE  RowOK'
<1>1. UNCHANGED <<list, row, edit, toTab, held>> /\ query = Sent
  BY DEF ServeEntry, source, wire
<1>2. CASE Refused
  <2>1. query' = NextQuery /\ astray' = astray
    BY <1>2 DEF ServeEntry
  <2>2. Base' = Base
    BY <1>1, <2>1, NextQueryType, QueryTypes DEF Base
  <2> QED BY <1>1, <2>1, <2>2, RowSame DEF Late
<1>3. CASE ~Refused
  <2> SUFFICES ASSUME ~astray', Fits', Base' # Unknown, list # "reply" PROVE RowOK'
    BY <1>1 DEF RowOK
  <2>1. query' = [phase |-> "served", data |-> Current] /\ \A ev \in Events : ~Repeats(ev)
    BY <1>3 DEF ServeEntry
  <2>2. PICK b \in FeedEntries : b = Current /\ b = Base'
    BY <2>1, Elementary DEF Base
  <2>3. Current' = b
    BY <1>1, <2>2 DEF Current, ShownOf, Count, Author
  <2>4. \A i \in DOMAIN toTab : ~Plus(toTab[i]) /\ (Over(toTab[i]) => toTab[i].row = b)
    BY <2>1, <2>2 DEF Events, Repeats, Plus, Over
  <2>5. \A u \in Editors : Effective(u) => Over(edit[u].event) /\ edit[u].event.row = b
    BY <2>1, <2>2 DEF Events, Repeats, Plus, Over, Effective
  <2>6. CASE \E v \in Editors : Effective(v)
    <3>1. \E v \in Editors : Effective(v)' /\ \A u \in Editors : Effective(u)' => Over(edit'[u].event) /\ edit'[u].event.row = b
      BY <1>1, <2>5, <2>6 DEF Effective, Late
    <3>2. Due(b)'
      BY <2>3, <3>1 DEF Due, Over
    <3> QED BY <2>2, <3>2, RowNext
  <2>7. CASE \A v \in Editors : ~Effective(v)
    <3>1. Leads(b, toTab', b)
      BY <1>1, <2>4 DEF Leads, FromTo
    <3>2. \A v \in Editors : ~Effective(v)'
      BY <1>1, <2>7 DEF Effective, Late
    <3>3. Due(b)'
      BY <2>3, <3>1, <3>2 DEF Due
    <3> QED BY <2>2, <3>3, RowNext
  <2> QED BY <2>6, <2>7
<1> QED BY <1>2, <1>3

LEMMA RowHandle ==
  ASSUME Shaped, PlusOnce, CountAhead, RowOK, HandleEvent
  PROVE  RowOK'
<1> SUFFICES ASSUME ~astray', Fits', Base' # Unknown, list # "reply" PROVE RowOK'
  BY DEF RowOK, HandleEvent
<1>1. UNCHANGED <<list, row, edit, query>> /\ toTab # <<>> /\ toTab' = Tail(toTab)
  BY DEF HandleEvent, source
<1>2. PICK ev, t, c : ev = Head(toTab) /\ t = Tail(toTab) /\ c = Current
  OBVIOUS
<1>3. /\ toTab \in Seq(FeedEvents) /\ ev = toTab[1] /\ 1 \in DOMAIN toTab /\ toTab' = t
      /\ \A i \in DOMAIN t : i + 1 \in DOMAIN toTab /\ t[i] = toTab[i + 1]
      /\ \A i \in DOMAIN toTab : i > 1 => i - 1 \in DOMAIN t /\ t[i - 1] = toTab[i]
      /\ \A i \in DOMAIN toTab : i = 1 \/ i > 1
  BY <1>1, <1>2, TailFacts, Elementary
<1>4. ~astray /\ ev.fits /\ (query.phase = "served" => query.data = c)
  BY <1>2 DEF HandleEvent
<1>5. Fits
  <2>1. \A i \in DOMAIN t : t[i].fits
    BY <1>3 DEF Fits
  <2>2. \A i \in DOMAIN toTab : toTab[i].fits
    BY <1>3, <1>4, <2>1
  <2> QED BY <1>1, <2>2 DEF Fits, Late
<1>6. Current' = c
  BY <1>1, <1>2 DEF Current, ShownOf, Count, Author
<1>7. \A v \in Editors : (Effective(v)' <=> Effective(v)) /\ edit'[v] = edit[v]
  BY <1>1 DEF Effective, Late
<1>8. \A i, j \in DOMAIN toTab : Plus(toTab[i]) /\ Plus(toTab[j]) => i = j
  BY <1>5 DEF Fits, PlusOnce, FitPlus
<1>9. PICK a, b : a = Base /\ b = Base'
  OBVIOUS
<1>10. a # Unknown /\ \A k : Leads(a, toTab, k) /\ (query.phase = "served" => k = c /\ \A i \in DOMAIN toTab : ~Plus(toTab[i]))
                      => Leads(b, t, k)
  <2>1. CASE query.phase # "served"
    <3>1. a = held /\ b = held'
      BY <1>1, <1>9, <2>1 DEF Base
    <3>2. held' = (IF held = Unknown THEN held ELSE Heard(held, ev))
      BY <1>1, <1>2, UpdatedHeard DEF HandleEvent
    <3>3. a # Unknown /\ b = Heard(a, Head(toTab))
      BY <1>2, <1>9, <3>1, <3>2
    <3> QED BY <1>1, <1>2, <1>3, <1>8, <2>1, <3>3, LeadsHead
  <2>2. CASE query.phase = "served"
    <3>1. a = c /\ b = c
      BY <1>1, <1>4, <1>9, <2>2 DEF Base
    <3> QED BY <1>1, <1>2, <1>3, <1>9, <2>2, <3>1, LeadsSkip
  <2> QED BY <2>1, <2>2
<1>11. Due(a)
  BY <1>4, <1>5, <1>9, <1>10, RowNow
<1>12. query.phase = "served" => ~FitPending
  <2> SUFFICES ASSUME query.phase = "served", FitPending PROVE FALSE
    OBVIOUS
  <2>1. PICK f : Plus(f) /\ EventFits(f)
    <3>1. \A i \in DOMAIN toTab : EventFits(toTab[i])
      BY DEF Shaped, ListShape, WireShape
    <3>2. \A w \in Editors : EventFits(edit[w].event)
      BY DEF Shaped, ListShape, EditShape, ListOf
    <3> QED BY <3>1, <3>2 DEF FitPending, FitPlus
  <2>2. list \in MessageLists
    BY <2>1 DEF EventFits, Plus
  <2>3. query.data.count < Count(row) /\ query.data = Current
    BY <1>2, <1>4, <2>2 DEF CountAhead
  <2> QED BY <2>2, <2>3, MessageCurrent
<1>13. query.phase = "served" => \A i \in DOMAIN toTab : ~Plus(toTab[i])
  BY <1>5, <1>12 DEF FitPending, FitPlus, Fits
<1>14. CASE (\A w \in Editors : ~Effective(w)) /\ Leads(a, toTab, Current)
  <2>1. Leads(b, toTab', c)
    BY <1>2, <1>3, <1>10, <1>13, <1>14
  <2>2. Due(b)'
    BY <1>6, <1>7, <1>14, <2>1 DEF Due
  <2> QED BY <1>9, <2>2, RowNext
<1>15. ASSUME NEW w \in Editors, Effective(w),
              \A u \in Editors : Effective(u) => Over(edit[u].event) /\ edit[u].event.row = Current
       PROVE  Due(b)'
  <2>1. Effective(w)' /\ \A u \in Editors : Effective(u)' => Over(edit'[u].event) /\ edit'[u].event.row = Current'
    BY <1>2, <1>6, <1>7, <1>15
  <2> QED BY <2>1 DEF Due, Over
<1>16. ASSUME NEW w \in Editors, NEW k \in FeedEntries, \A u \in Editors : Effective(u) <=> u = w,
              Plus(edit[w].event), Leads(a, toTab, k), Inc(k) = Current
       PROVE  Due(b)'
  <2>1. query.phase # "served"
    <3>1. Effective(w)
      BY <1>16
    <3>2. FitPending
      BY <1>5, <1>16, <3>1 DEF FitPending, FitPlus, Fits, Effective
    <3> QED BY <1>12, <3>2
  <2>2. Leads(b, toTab', k)
    BY <1>3, <1>10, <1>16, <2>1
  <2>3. (\A u \in Editors : Effective(u)' <=> u = w) /\ Plus(edit'[w].event) /\ Inc(k) = Current'
    BY <1>2, <1>6, <1>7, <1>16
  <2> QED BY <2>2, <2>3 DEF Due, Plus
<1> QED BY <1>9, <1>11, <1>14, <1>15, <1>16, RowNext DEF Due

LEMMA RowAnswer ==
  ASSUME Shaped, RowOK, Answer
  PROVE  RowOK'
<1>1. /\ UNCHANGED <<list, row, toTab>> /\ (astray => astray') /\ edit'[Tab] = Free
      /\ edit[Tab].step \in {"told", "failed"}
      /\ \A v \in Editors \ {Tab} : edit'[v] = edit[v]
      /\ query' = query \/ (query = NoQuery /\ query' = Sent)
      /\ \/ held' = held \/ held' = Unknown
         \/ list = "topic" /\ held.is = "shown" /\ (held' = Current \/ astray')
  BY AnswerStep
<1>2. \A v \in Editors : (Late(v)' <=> Late(v)) /\ (Late(v) => edit'[v].event = edit[v].event)
  BY <1>1, FreeType DEF Late
<1>3. (query'.phase = "served" <=> query.phase = "served") /\ (query.phase = "served" => query' = query)
  BY <1>1, QueryTypes
<1>4. CASE held' \in {held, Unknown} \/ query.phase = "served"
  <2>1. Base' \in {Base, Unknown}
    BY <1>3, <1>4 DEF Base
  <2> QED BY <1>1, <1>2, <2>1, RowSame
<1>5. CASE list = "topic" /\ held.is = "shown" /\ (held' = Current \/ astray') /\ query.phase # "served"
  <2> SUFFICES ASSUME ~astray', Fits', Base' # Unknown, list # "reply" PROVE RowOK'
    BY <1>1 DEF RowOK
  <2>1. PICK a, b : a = held /\ b = Current
    OBVIOUS
  <2>2. a = Base /\ b = Base' /\ a # Unknown
    BY <1>3, <1>5, <2>1, ShownFields DEF Base
  <2>3. Fits
    BY <1>1, <1>2 DEF Fits, Late
  <2>4. Due(a)
    BY <1>1, <2>2, <2>3, RowNow
  <2>5. (\A i \in DOMAIN toTab : ~Plus(toTab[i])) /\ \A w \in Editors : ~Plus(edit[w].event)
    BY <1>5 DEF Shaped, ListShape, WireShape, EditShape, ListOf, EventFits, Plus, MessageLists
  <2>6. Leads(a, toTab, Current) => Leads(b, toTab, Current)
    BY <2>1, <2>5, LeadsAlready
  <2>7. Due(b)
    BY <2>4, <2>5, <2>6 DEF Due
  <2>8. Due(b)'
    BY <1>1, <1>2, <2>7, DueSame
  <2> QED BY <2>2, <2>8, RowNext
<1> QED BY <1>1, <1>4, <1>5

LEMMA RowKept ==
  ASSUME Shaped, ByReaders, RoomReads, PlusOnce, CountAhead, RowOK, [FeedNext]_feedVars
  PROVE  RowOK'
<1>1. ASSUME NEW w \in Editors, Check(w) PROVE RowOK'
  <2>1. /\ edit[w] = Free /\ edit'[w].step = "checked" /\ \A v \in Editors \ {w} : edit'[v] = edit[v]
    BY <1>1, CheckStep DEF Shaped
  <2>2. UNCHANGED <<list, row, toTab, held, query, astray>>
    BY <1>1 DEF Check, wire, entry, history
  <2>3. \A v \in Editors : (Late(v)' <=> Late(v)) /\ (Late(v) => edit'[v].event = edit[v].event)
    BY <2>1, FreeType DEF Late
  <2> QED BY <2>2, <2>3, RowSame DEF Base
<1>2. ASSUME NEW w \in Editors, Dies(w) PROVE RowOK'
  <2> SUFFICES ASSUME ~astray' PROVE RowOK'
    BY DEF RowOK
  <2>1. /\ edit'[w].step \in {"free", "told", "failed"} /\ \A v \in Editors \ {w} : edit'[v] = edit[v]
    BY <1>2, OverStep DEF Shaped
  <2>2. UNCHANGED <<list, row, toTab, held, query>> /\ ~Late(w) /\ ~astray
    BY <1>2 DEF Dies, wire, entry
  <2>3. \A v \in Editors : (Late(v)' <=> Late(v)) /\ (Late(v) => edit'[v].event = edit[v].event)
    BY <2>1, <2>2 DEF Late
  <2> QED BY <2>2, <2>3, RowSame DEF Base
<1>3. ASSUME HoldAnswer \/ QueryFails PROVE RowOK'
  <2> SUFFICES ASSUME ~astray' PROVE RowOK'
    BY DEF RowOK
  <2>1. UNCHANGED <<list, row, edit, toTab>> /\ query' = NextQuery /\ ~astray
        /\ \/ held' \in {query.data, Unknown} /\ query.phase = "served"
           \/ held' \in {held, Unknown} /\ query.phase # "served"
    <3>1. CASE HoldAnswer
      BY <3>1 DEF HoldAnswer, Kept, source, wire, history
    <3>2. CASE QueryFails
      BY <3>2 DEF QueryFails, Kept, source, wire
    <3> QED BY <1>3, <3>1, <3>2
  <2>2. Base' \in {Base, Unknown}
    BY <1>3, <2>1, NextQueryType DEF Base
  <2> QED BY <2>1, <2>2, RowSame DEF Late
<1>4. ASSUME OpenRoom PROVE RowOK'
  <2>1. UNCHANGED <<list, row, edit, toTab, held, astray>> /\ (query' = query \/ (query = NoQuery /\ query' = Sent))
    BY <1>4 DEF OpenRoom, source, history
  <2>2. Base' = Base
    BY <2>1, QueryTypes DEF Base
  <2> QED BY <2>1, <2>2, RowSame DEF Late
<1>5. ASSUME Cut, UNCHANGED <<list, row, edit, held, query>> PROVE RowOK'
  <2> SUFFICES ASSUME ~astray' PROVE RowOK'
    BY DEF RowOK
  <2>1. toTab' = toTab /\ ~astray
    BY <1>5 DEF Cut
  <2> QED BY <1>5, <2>1, RowSame DEF Late, Base
<1>6. ASSUME UNCHANGED <<list, row, edit, toTab, held, query, astray>> PROVE RowOK'
  BY <1>6, RowSame DEF Late, Base
<1> QED BY <1>1, <1>2, <1>3, <1>4, <1>5, <1>6, RowWrite, RowReadBack, RowEmit, RowServe, RowHandle, RowAnswer,
           FeedCases, QuietStill, CutStill

------------------------------------------------------------------------------
(* The invariant *)

FeedInv ==
  /\ Shaped /\ ByReaders /\ RoomReads /\ PlusOnce
  /\ CountAhead /\ RowOK /\ ReplyOK /\ GoneOK

LEMMA FeedInvInit == FeedInit => FeedInv
<1> SUFFICES ASSUME FeedInit PROVE FeedInv
  OBVIOUS
<1>1. /\ edit = [w \in Editors |-> Free] /\ toTab = <<>> /\ held = Unknown /\ query = NoQuery
      /\ open = FALSE /\ selected = FALSE
  BY DEF FeedInit
<1>2. \A w \in Editors : edit[w] = Free /\ ~Late(w) /\ edit[w].step = "free"
  BY <1>1, FreeType DEF Late
<1>3. query.phase = "idle" /\ Base = Unknown
  BY <1>1, QueryTypes DEF Base
<1>4. ByReaders
  <2>1. Free.by = "user"
    BY DEF Free
  <2> QED BY <1>2, <2>1 DEF ByReaders, Readers
<1>5. RoomReads /\ PlusOnce
  BY <1>1, <1>2 DEF RoomReads, PlusOnce
<1>6. CountAhead /\ RowOK /\ ReplyOK
  BY <1>3 DEF CountAhead, RowOK, ReplyOK
<1>7. GoneOK
  BY <1>1, <1>3, ShownFields DEF GoneOK, Closed
<1> QED BY <1>4, <1>5, <1>6, <1>7, ShapedInit DEF FeedInv

LEMMA FeedInvNext == FeedInv /\ [FeedNext]_feedVars => FeedInv'
<1> SUFFICES ASSUME FeedInv, [FeedNext]_feedVars PROVE FeedInv'
  OBVIOUS
<1>1. Shaped' /\ ByReaders' /\ RoomReads' /\ PlusOnce'
  BY ShapedKept, ByKept, ReadsKept, PlusKept DEF FeedInv
<1>2. CountAhead' /\ RowOK'
  BY CountKept, RowKept DEF FeedInv
<1>3. ReplyOK' /\ GoneOK'
  BY ReplyKept, GoneKept DEF FeedInv
<1> QED BY <1>1, <1>2, <1>3 DEF FeedInv

LEMMA FeedInvSound == FeedInv => FeedSound
<1> SUFFICES ASSUME FeedInv, FeedAtRest PROVE RowExact /\ GoneIsClosed
  BY DEF FeedSound, RowExact, GoneIsClosed
<1>1. /\ query = NoQuery /\ toTab = <<>> /\ \A w \in Editors : ~Late(w)
      /\ query.phase = "idle" /\ Base = held
  BY FreeType, QueryTypes DEF FeedAtRest, Late, Base
<1>2. RowExact
  <2> SUFFICES ASSUME held # Unknown, ~astray PROVE held = Current
    BY DEF RowExact
  <2>1. CASE list = "reply"
    BY <1>1, <2>1, ReplyCurrent DEF FeedInv, ReplyOK
  <2>2. CASE list # "reply"
    <3>1. Fits
      BY <1>1 DEF Fits
    <3>2. PICK b : b = held
      OBVIOUS
    <3>3. Due(b)
      BY <1>1, <2>2, <3>1, <3>2, RowNow DEF FeedInv
    <3>4. Leads(b, toTab, Current)
      BY <1>1, <3>3 DEF Due, Effective
    <3> QED BY <1>1, <3>2, <3>4 DEF Leads, FromTo
  <2> QED BY <2>1, <2>2
<1>3. GoneIsClosed
  <2> SUFFICES ASSUME OnScreen, ~There, ~untold PROVE FALSE
    BY DEF GoneIsClosed
  <2>1. list \in {"topic", "room", "self"}
    BY DEF OnScreen
  <2>2. list # "room"
    BY DEF FeedInv, Shaped, ListShape, RoomShape
  <2>3. ~DropAhead
    BY <1>1 DEF DropAhead
  <2>4. Closed
    BY <2>1, <2>2, <2>3 DEF FeedInv, GoneOK
  <2> QED BY <2>1, <2>2, <2>4 DEF Closed, OnScreen
<1> QED BY <1>2, <1>3

(* Whatever requests, queries and events meet, and whatever is lost, the   *)
(* cache of an open room is exact at rest unless astray says why not, and  *)
(* a topic or room that is gone is closed once the tab has heard of it     *)
(* (SocketManager.tsx).                                                    *)
THEOREM FeedStaysSound == FeedSpec => []FeedSound
<1>1. FeedInit => FeedInv
  BY FeedInvInit
<1>2. FeedInv /\ [FeedNext]_feedVars => FeedInv'
  BY FeedInvNext
<1>3. FeedInv => FeedSound
  BY FeedInvSound
<1> QED BY <1>1, <1>2, <1>3, PTL DEF FeedSpec
==============================================================================
