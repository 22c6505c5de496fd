------------------------------ MODULE Seeding --------------------------------
(***************************************************************************)
(* The two seed programs: server/prisma/seed.ts (base: rights and the      *)
(* first administrator) and seed_data.ts (demo: an organisation with its   *)
(* rooms, tasks, events and polls).  They are started by hand in the       *)
(* container of the running server, any number of times.  A program is a   *)
(* list of statements, hardly any in a transaction; it may stop after      *)
(* each of them, and users go on working meanwhile.  Of each kind of row   *)
(* the scripts below write one or two.                                     *)
(*                                                                         *)
(* Rows with a unique key (permissions, roles, tags, positions, users and  *)
(* what links them) are upserted, and are known by that key.  Other rows   *)
(* are looked for and then updated or created: these are copies of a thing,*)
(* known by the order in which they are made and what they belong to.      *)
(***************************************************************************)
EXTENDS Integers, FiniteSets, SequencesExt

CONSTANTS
  Runs,        \* processes that run a seed
  Codes,       \* codes of permissions the base seed knows
  DemoCode,    \* a code only the demo seed knows
  Voters, Options,
  VoteOf,      \* the votes of the demo poll: [Voters -> Options \union {Nothing}]
  Guests,      \* users the demo event invites, and others
  Invited,     \* those of them the demo invites
  MaxStarts,   \* bound: how often seeds are started
  MaxChanges   \* bound: what users do meanwhile

Nothing == <<>>

ASSUME SeedAssumption ==
  /\ IsFiniteSet(Codes) /\ IsFiniteSet(Voters) /\ IsFiniteSet(Options) /\ IsFiniteSet(Guests)
  /\ DemoCode \notin Codes /\ Invited \subseteq Guests
  /\ VoteOf \in [Voters -> Options \union {Nothing}]

VARIABLES
  live,      \* keys of rows that are live
  deleted,   \* and of those that are softly deleted
  copy,      \* copies of things
  removed,   \* those that are softly deleted
  dressed,   \* those that have their members, scope, participants or recipients
  seat,      \* <<copy of the event, guest, number>>
  chosen,    \* <<copy of the poll, option, how often chosen>>
  ballot,    \* <<copy of the poll, voter, option>>
  run,       \* what each process is doing
  disturbed, \* runs during or after which someone else wrote
  overlapped,\* two runs have been under way together
  starts, changes

dbVars == <<live, deleted, copy, removed, dressed, seat, chosen, ballot>>
seedVars == <<dbVars, run, disturbed, overlapped, starts, changes>>

------------------------------------------------------------------------------
(* Rows with a unique key *)

AllCodes == Codes \union {DemoCode}
SeedRoles == {"super_admin", "teacher", "owner"}
Code(c) == <<"code", c>>
Role(name) == <<"role", name>>
Grant(name, c) == <<"grant", name, c>>
User(name) == <<"user", name>>
Holds(user, name) == <<"holds", user, name>>

Grants == {Grant(name, c) : name \in SeedRoles, c \in AllCodes}
Named == {Role(name) : name \in SeedRoles} \union {User("super"), User("petrov"), <<"tag">>, <<"position">>}
Links == {Holds("super", "super_admin"), Holds("petrov", "teacher"), <<"positionRole">>}

(* Things looked for by name and by what they belong to; the others belong *)
(* to nothing, or to what cannot differ.                                   *)
ParentOf == [faculty |-> "university", topic |-> "room", message |-> "topic", notice |-> "task"]
Things == {"university", "room", "task", "event", "poll"} \union DOMAIN ParentOf
Unique == {"faculty"}  \* the names of units under one unit, deleted ones included

------------------------------------------------------------------------------
(* Statements *)

Upsert(key, restore) == <<[op |-> "upsert", key |-> key, restore |-> restore]>>
Upserts(S, restore) ==
  LET s == SetToSeq(S) IN [i \in DOMAIN s |-> [op |-> "upsert", key |-> s[i], restore |-> restore]]
ReadCodes(name, needed) == <<[op |-> "read", role |-> name, needed |-> needed]>>
Wipe(name) == <<[op |-> "wipe", role |-> name]>>
Fill(name, codes) == <<[op |-> "fill", role |-> name, all |-> FALSE, codes |-> codes]>>
FillRead(name) == <<[op |-> "fill", role |-> name, all |-> TRUE]>>
FindOrCreate(thing) == <<[op |-> "find", thing |-> thing], [op |-> "write", thing |-> thing]>>
Dress(thing) == <<[op |-> "dress", thing |-> thing]>>
Each(op, S) == LET s == SetToSeq(S) IN [i \in DOMAIN s |-> [op |-> op, of |-> s[i]]]
Do(op) == <<[op |-> op]>>

(* seed.ts.  Every code there is goes to the administrators.               *)
BasePermissions == Upserts({Code(c) : c \in Codes}, FALSE)

(* Mutant: the codes are taken away after they were given. *)
BaseRolesWiped == Upsert(Role("super_admin"), FALSE)
                  \o ReadCodes("super_admin", {}) \o FillRead("super_admin") \o Wipe("super_admin")

BaseRoles == Upsert(Role("super_admin"), FALSE)
             \o ReadCodes("super_admin", {}) \o Wipe("super_admin") \o FillRead("super_admin")
BaseAdministrator == Upsert(User("super"), FALSE) \o Upsert(Holds("super", "super_admin"), FALSE)
BaseRoomRoles == Upsert(Role("owner"), FALSE) \o ReadCodes("owner", {})
                 \o Wipe("owner") \o Fill("owner", Codes)

(* seed_data.ts *)
DemoPermissions == Upserts({Code(c) : c \in AllCodes}, TRUE)
DemoRoles == Upsert(Role("teacher"), TRUE) \o ReadCodes("teacher", Codes) \o Fill("teacher", Codes)
DemoRoomRoles == Upsert(Role("owner"), TRUE) \o ReadCodes("owner", AllCodes) \o Fill("owner", AllCodes)
DemoUnits == FindOrCreate("university") \o FindOrCreate("faculty")
DemoPositions == Upsert(<<"tag">>, TRUE) \o Dress("faculty")
                 \o Upsert(<<"position">>, TRUE) \o Upsert(<<"positionRole">>, FALSE)
DemoUsers == Upsert(User("petrov"), TRUE) \o Upsert(Holds("petrov", "teacher"), TRUE)
DemoRooms == FindOrCreate("room") \o Dress("room") \o FindOrCreate("topic") \o Dress("topic")
DemoMessages == FindOrCreate("message")
DemoTasks == FindOrCreate("task") \o Dress("task")
DemoEvents == FindOrCreate("event") \o Do("highest") \o Each("seat", Invited)
DemoPolls == FindOrCreate("poll") \o Do("reset") \o Each("ballot", Voters)
             \o Do("count") \o Each("tally", Options)
DemoNotifications == FindOrCreate("notice") \o Dress("notice")

Script ==
  [base |-> BasePermissions \o BaseRoles \o BaseAdministrator \o BaseRoomRoles,
   demo |-> DemoPermissions \o DemoRoles \o DemoRoomRoles \o DemoUnits \o DemoPositions
            \o DemoUsers \o DemoRooms \o DemoMessages \o DemoTasks \o DemoEvents
            \o DemoPolls \o DemoNotifications]

NoRun == [script |-> "none", at |-> 0, state |-> "idle", read |-> Nothing, hit |-> Nothing,
          found |-> {}]

Running(r) == run[r].state = "runs"
Entry(r) == Script[run[r].script][run[r].at]
Doing(r, op) == Running(r) /\ Entry(r).op = op

------------------------------------------------------------------------------
SeedInit ==
  /\ live = {} /\ deleted = {}
  /\ copy = {} /\ removed = {} /\ dressed = {}
  /\ seat = {} /\ chosen = {} /\ ballot = {}
  /\ run = [r \in Runs |-> NoRun] /\ disturbed = {} /\ overlapped = FALSE
  /\ starts = 0 /\ changes = 0

(* What a statement leaves r to do: w is r with what it has read or found. *)
Goes(r, w) ==
  /\ run' = [run EXCEPT ![r] =
       [w EXCEPT !.at = @ + 1, !.state = IF w.at = Len(Script[w.script]) THEN "done" ELSE "runs"]]
  /\ disturbed' = disturbed \union
       IF dbVars' = dbVars THEN {} ELSE {s \in Runs \ {r} : run[s].state \in {"runs", "done"}}
  /\ UNCHANGED <<overlapped, starts, changes>>

Throws(r) ==
  /\ run' = [run EXCEPT ![r].state = "failed"]
  /\ UNCHANGED <<dbVars, disturbed, overlapped, starts, changes>>

Start(r, script) ==
  /\ starts < MaxStarts /\ starts' = starts + 1
  /\ ~Running(r)
  /\ run' = [run EXCEPT ![r] = [NoRun EXCEPT !.script = script, !.at = 1, !.state = "runs"]]
  /\ disturbed' = disturbed \ {r}
  /\ overlapped' = (overlapped \/ \E s \in Runs : Running(s))
  /\ UNCHANGED <<dbVars, changes>>

(* The process is killed, or loses the database.                           *)
Stop(r) ==
  /\ Running(r)
  /\ run' = [run EXCEPT ![r] = NoRun]
  /\ UNCHANGED <<dbVars, disturbed, overlapped, starts, changes>>

(* Where a key is taken, restore says whether deletedAt is set back.       *)
UpsertRow(r) ==
  LET key == Entry(r).key IN
  /\ Doing(r, "upsert")
  /\ IF key \in deleted /\ ~Entry(r).restore THEN UNCHANGED <<live, deleted>>
     ELSE live' = live \union {key} /\ deleted' = deleted \ {key}
  /\ UNCHANGED <<copy, removed, dressed, seat, chosen, ballot>>
  /\ Goes(r, run[r])

ReadPermissions(r) ==
  LET there == {c \in AllCodes : Code(c) \in live} IN
  /\ Doing(r, "read")
  /\ IF Entry(r).needed \subseteq there
     THEN UNCHANGED dbVars /\ Goes(r, [run[r] EXCEPT !.read = there])
     ELSE Throws(r)

WipeGrants(r) ==
  /\ Doing(r, "wipe")
  /\ live' = live \ {Grant(Entry(r).role, c) : c \in AllCodes}
  /\ UNCHANGED <<deleted, copy, removed, dressed, seat, chosen, ballot>>
  /\ Goes(r, run[r])

FillGrants(r) ==
  LET codes == IF Entry(r).all THEN run[r].read ELSE Entry(r).codes IN
  /\ Doing(r, "fill")
  /\ live' = live \union {Grant(Entry(r).role, c) : c \in codes}
  /\ UNCHANGED <<deleted, copy, removed, dressed, seat, chosen, ballot>>
  /\ Goes(r, run[r])

Found(r, thing) == CHOOSE c \in run[r].found : c.thing = thing
ParentIn(r, thing) == IF thing \in DOMAIN ParentOf THEN Found(r, ParentOf[thing]) ELSE Nothing

Alike(thing, parent) == {c \in copy : c.thing = thing /\ c.parent = parent}

Matches(thing, parent) == Alike(thing, parent) \ removed

(* Mutant: the update after the search is forgotten, and a row always made. *)
FindNothing(r) ==
  Doing(r, "find") /\ UNCHANGED dbVars /\ Goes(r, [run[r] EXCEPT !.hit = Nothing])

(* findFirst, in no order *)
FindCopy(r) ==
  LET matches == Matches(Entry(r).thing, ParentIn(r, Entry(r).thing)) IN
  /\ Doing(r, "find")
  /\ \E c \in IF matches = {} THEN {Nothing} ELSE matches :
       UNCHANGED dbVars /\ Goes(r, [run[r] EXCEPT !.hit = c])

WriteCopy(r) ==
  LET thing == Entry(r).thing
      parent == ParentIn(r, thing)
      made == {c \in copy : c.thing = thing}
      new == [thing |-> thing, parent |-> parent, number |-> Cardinality(made) + 1]
      Finds(c) == Goes(r, [run[r] EXCEPT !.found = @ \union {c}, !.hit = Nothing])
      taken == thing \in Unique /\ Alike(thing, parent) # {}
  IN
  /\ Doing(r, "write")
  /\ \/ run[r].hit # Nothing /\ UNCHANGED dbVars /\ Finds(run[r].hit)
     \/ /\ run[r].hit = Nothing /\ ~taken
        /\ copy' = copy \union {new}
        /\ UNCHANGED <<live, deleted, removed, dressed, seat, chosen, ballot>>
        /\ Finds(new)
     \/ run[r].hit = Nothing /\ taken /\ Throws(r)

DressCopy(r) ==
  /\ Doing(r, "dress")
  /\ dressed' = dressed \union {Found(r, Entry(r).thing)}
  /\ UNCHANGED <<live, deleted, copy, removed, seat, chosen, ballot>>
  /\ Goes(r, run[r])

(* The event's guests are numbered on from the highest number read.        *)
Numbers(c) == {x[3] : x \in {y \in seat : y[1] = c}}
Seated(c) == {x[2] : x \in {y \in seat : y[1] = c}}
HighestIn(c) == CHOOSE n \in {0} \union Numbers(c) : \A m \in Numbers(c) : m <= n

ReadHighest(r) ==
  /\ Doing(r, "highest")
  /\ UNCHANGED dbVars
  /\ Goes(r, [run[r] EXCEPT !.read = HighestIn(Found(r, "event"))])

SeatGuest(r) ==
  LET c == Found(r, "event")
      g == Entry(r).of
      number == run[r].read + 1
  IN
  /\ Doing(r, "seat")
  /\ \/ g \in Seated(c) /\ UNCHANGED dbVars /\ Goes(r, run[r])
     \/ /\ g \notin Seated(c) /\ number \notin Numbers(c)
        /\ seat' = seat \union {<<c, g, number>>}
        /\ UNCHANGED <<live, deleted, copy, removed, dressed, chosen, ballot>>
        /\ Goes(r, [run[r] EXCEPT !.read = number])
     \/ g \notin Seated(c) /\ number \in Numbers(c) /\ Throws(r)

CountOf(c, o) ==
  LET counts == {x[3] : x \in {y \in chosen : y[1] = c /\ y[2] = o}} IN
  IF counts = {} THEN 0 ELSE CHOOSE n \in counts : TRUE
Recounted(c, count) == {x \in chosen : x[1] # c} \union
                       {<<c, o, count[o]>> : o \in {p \in Options : count[p] # 0}}
Ballots(c, o) == Cardinality({v \in Voters : <<c, v, o>> \in ballot})
BallotOf(c, v) == {x \in ballot : x[1] = c /\ x[2] = v}

ResetCounts(r) ==
  /\ Doing(r, "reset")
  /\ chosen' = Recounted(Found(r, "poll"), [o \in Options |-> 0])
  /\ UNCHANGED <<live, deleted, copy, removed, dressed, seat, ballot>>
  /\ Goes(r, run[r])

SetBallot(r) ==
  LET c == Found(r, "poll")
      v == Entry(r).of
  IN
  /\ Doing(r, "ballot")
  /\ ballot' = (ballot \ BallotOf(c, v)) \union IF VoteOf[v] = Nothing THEN {} ELSE {<<c, v, VoteOf[v]>>}
  /\ UNCHANGED <<live, deleted, copy, removed, dressed, seat, chosen>>
  /\ Goes(r, run[r])

CountBallots(r) ==
  /\ Doing(r, "count")
  /\ UNCHANGED dbVars
  /\ Goes(r, [run[r] EXCEPT !.read = [o \in Options |-> Ballots(Found(r, "poll"), o)]])

(* An option nobody chose is not among the groups counted.                 *)
WriteCount(r) ==
  LET c == Found(r, "poll")
      count == run[r].read[Entry(r).of]
  IN
  /\ Doing(r, "tally")
  /\ IF count = 0 THEN UNCHANGED chosen
     ELSE chosen' = Recounted(c, [o \in Options |-> IF o = Entry(r).of THEN count ELSE CountOf(c, o)])
  /\ UNCHANGED <<live, deleted, copy, removed, dressed, seat, ballot>>
  /\ Goes(r, run[r])

SeedStep(r) ==
  \/ UpsertRow(r) \/ ReadPermissions(r) \/ WipeGrants(r) \/ FillGrants(r)
  \/ FindCopy(r) \/ WriteCopy(r) \/ DressCopy(r)
  \/ ReadHighest(r) \/ SeatGuest(r)
  \/ ResetCounts(r) \/ SetBallot(r) \/ CountBallots(r) \/ WriteCount(r)

------------------------------------------------------------------------------
(* What users do meanwhile: a request of theirs is one step here.          *)
Meanwhile ==
  /\ changes < MaxChanges /\ changes' = changes + 1
  /\ disturbed' = disturbed \union {r \in Runs : run[r].state \in {"runs", "done"}}
  /\ UNCHANGED <<run, overlapped, starts>>

DeleteRow(k) ==
  /\ k \in live \intersect (Named \ {Role("owner")})
  /\ live' = live \ {k} /\ deleted' = deleted \union {k}
  /\ UNCHANGED <<copy, removed, dressed, seat, chosen, ballot>> /\ Meanwhile

RevokeRow(k) ==
  /\ k \in live \intersect (Grants \union Links)
  /\ live' = live \ {k}
  /\ UNCHANGED <<deleted, copy, removed, dressed, seat, chosen, ballot>> /\ Meanwhile

DeleteCopy(c) ==
  /\ c \in copy \ removed /\ c.thing # "notice"
  /\ removed' = removed \union {c}
  /\ UNCHANGED <<live, deleted, copy, dressed, seat, chosen, ballot>> /\ Meanwhile

Vote(c, v, o) ==
  /\ c \in copy \ removed /\ c.thing = "poll" /\ <<c, v, o>> \notin ballot
  /\ ballot' = (ballot \ BallotOf(c, v)) \union {<<c, v, o>>}
  /\ chosen' = Recounted(c, [p \in Options |->
       IF p = o THEN CountOf(c, p) + 1
       ELSE IF <<c, v, p>> \in ballot THEN CountOf(c, p) - 1 ELSE CountOf(c, p)])
  /\ UNCHANGED <<live, deleted, copy, removed, dressed, seat>> /\ Meanwhile

Invite(c, g) ==
  /\ c \in copy \ removed /\ c.thing = "event" /\ g \notin Seated(c)
  /\ seat' = seat \union {<<c, g, HighestIn(c) + 1>>}
  /\ UNCHANGED <<live, deleted, copy, removed, dressed, chosen, ballot>> /\ Meanwhile

UsersMeanwhile ==
  \/ \E k \in live : DeleteRow(k) \/ RevokeRow(k)
  \/ \E c \in copy : \/ DeleteCopy(c)
                     \/ \E v \in Voters, o \in Options : Vote(c, v, o)
                     \/ \E g \in Guests : Invite(c, g)

SeedNext ==
  \/ \E r \in Runs : \/ \E script \in DOMAIN Script : Start(r, script)
                     \/ Stop(r) \/ SeedStep(r)
  \/ UsersMeanwhile

SeedSpec == SeedInit /\ [][SeedNext]_seedVars

------------------------------------------------------------------------------
(* Properties *)

Statements(script) == {Script[script][i] : i \in DOMAIN Script[script]}
UpsertsIn(script) == {e \in Statements(script) : e.op = "upsert"}
FillsIn(script) == {e \in Statements(script) : e.op = "fill"}

RowsThere(script) ==
  /\ \A e \in UpsertsIn(script) : e.key \in IF e.restore THEN live ELSE live \union deleted
  /\ \A e \in FillsIn(script), c \in AllCodes :
       (IF e.all THEN Code(c) \in live ELSE c \in e.codes) => Grant(e.role, c) \in live

CopiesThere(found) ==
  /\ {c.thing : c \in found} = Things /\ found \intersect removed = {}
  /\ \A c \in found : c.thing \in DOMAIN ParentOf => c.parent \in found
  /\ \A c \in found : c.thing \in {"faculty", "room", "topic", "task", "notice"} => c \in dressed

PollThere(c) == \A o \in Options : CountOf(c, o) = Ballots(c, o)
EventThere(c) == Invited \subseteq Seated(c)

(* When a run of a seed has ended well and nobody else has written since it *)
(* began, everything its script names is there: rows it restores are live,  *)
(* the others exist, roles hold their codes, things hang together and have  *)
(* their members, guests are seated, and the counts of the poll are those   *)
(* of its ballots; whatever earlier runs left when they stopped, and        *)
(* whatever users had deleted, revoked or voted before.                     *)
SeededWhenDone ==
  \A r \in Runs : run[r].state = "done" /\ r \notin disturbed =>
    /\ RowsThere(run[r].script)
    /\ run[r].script = "demo" =>
         /\ CopiesThere(run[r].found)
         /\ PollThere(Found(r, "poll")) /\ EventThere(Found(r, "event"))

(* Only runs that overlap make a thing twice, however often seeds are       *)
(* stopped and started again.                                               *)
OneOfEachUnlessOverlapped ==
  overlapped \/ \A t \in Things, p \in copy \union {Nothing} : Cardinality(Matches(t, p)) <= 1

(* A seed fails only because someone wrote while it ran, or because a unit  *)
(* it needs was deleted: its row, which no search finds, still has the name.*)
FailsForCause ==
  \A r \in Runs : run[r].state = "failed" =>
    \/ r \in disturbed
    \/ \E t \in Unique : Alike(t, ParentIn(r, t)) # {} /\ Matches(t, ParentIn(r, t)) = {}

(* How a run of a seed may end: with everything there, or with a cause.     *)
EndsWell == SeededWhenDone /\ FailsForCause
==============================================================================
