# Formal model of the internal communication system

TLA+ specifications of the parts of this repository whose correctness depends
on what happens *between* the statements of a handler: a NestJS server over
PostgreSQL (`src/server`) and a React client (`src/client`). TLC checks the
specifications on small instances; TLAPS proves the main invariants for every
value of the constants.

Run `tlc -workers 2 -config <run>.cfg <module>` for a run of the table below,
`tlapm <module>_proofs.tla` for a proof.

## 1. The system

One Node process serves a REST API and a socket.io gateway; all state is in
PostgreSQL, reached through Prisma. A handler awaits one SQL statement after
another. Between two statements every other handler may run, and several
processes may run at once, so the unit of atomicity is the statement, or the
transaction where the code opens one (`prisma.$transaction`, at PostgreSQL's
default READ COMMITTED). There are no row locks (`SELECT ... FOR UPDATE`), no
optimistic version columns and no serialisable transactions in the code.

The browser holds a short-lived access token in memory and a refresh token in
an http-only cookie that its tabs share; RTK Query caches what the API returned
and the socket patches those caches.

### Inventory

| Component | State it keeps | Operations | Interacts with | Hard behaviour | Correct when |
|---|---|---|---|---|---|
| Authentication, sessions, accounts (`auth.service.ts`, `users.service.ts`) | `User` flags and hash, `RefreshSession`, `PasswordResetRequest` | login, refresh, logout, changePassword, the reset requests, activate / deactivate / block / unblock / softDelete / resetPassword, approval of a registration for a deleted account | browser, administrators, clock | check and write are separate statements; revocation precedes the flag; temporary passwords expire | a grant rests on a good credential of an enabled account; a token and its successor are never both usable; what survives a block overlapped it |
| Registration and account creation | `RegistrationRequest`, `User.email` | register, approve, reject, adminCreateUser, updateUser | authentication | unique email checked before the insert; two administrators on one request | a request is processed once; one live account per address |
| Browser session (`baseQueryWithAuth.ts`, `AuthBootstrap.tsx`, `LoginPage.tsx`, `TopBar.tsx`) | token and user in the store, `refreshPromise`, the shared cookie | call, refresh on 401, open the app, sign in, sign out, reload | authentication | single flight per tab but one cookie for all tabs; lost answers; unmounting | no refresh is refused without a cause; cookie and store agree; every call ends |
| Polls (`polls.service.ts`) | `Poll`, `PollParticipant`, `PollOption.chosenCount` | createPoll, updatePoll, deletePoll, addParticipants, removeParticipant, vote, retractVote | notifications | redundant counters, transactions, row locks, deadlock | counters equal votes; a recorded vote stands |
| Tasks (`tasks.service.ts`) | `Task`, `TaskParticipant` | create, delete, add / remove participants, work status, review | notifications | two transition tables on a row read before the update | rows stay in the states the tables allow together |
| Events (`events.service.ts`) | `Event`, `EventParticipant` with a number | create, update, delete, add / remove guests, confirm | notifications | merged times; the next number is read | end after start; numbers unique |
| Rooms (`rooms.service.ts`) | `Room`, `UserRoomMembership`, `RoomRole` | createRoom, updateRoom, deleteRoom, add / remove / bulk add / bulk remove members, updateMemberRole | topics, gateway, notifications, organisation units | look-up before creation of a direct room; member lists read before bulk writes | one direct room per pair; one owner, who stays |
| Topics and messages (`topics.service.ts`, `messages.service.ts`) | `Topic`, `TopicVisibilityScope`, `Message`, `UserReadMessage` | create, archive, delete, markTopicRead, visibility; createMessage, pin, threads | rooms, gateway | deletion races creation; read marks race new messages | no live message in a deleted topic; a reply stays in its parent's topic |
| Realtime (`chat.gateway.ts`, `SocketManager.tsx`) | channels of the sockets; RTK caches, unread counts, remembered message ids | connect, join, leave, emit; events that patch caches, refetch, reconnect | all services that emit | two channels deliver one message; events race refetches; events are lost while disconnected | each message counted once; caches converge after a refetch |
| Notifications (`notifications.service.ts`) | `Notification`, `NotificationRecipient` | create, list, markRead, markAllRead, hide; the badge, the lists, `NotificationRouteSync` | every service, gateway | events, queries and marks in any order; a mark that is refused | at rest badge and lists are the server's, what the view is about is read, and the first time of reading stays |
| Roles and permissions (`rbac.service.ts`, guards) | roles, permissions and their links to users and positions | create, rename, delete, assign, evaluate | every guarded route | the guard reads rights, the operation runs later | rights come from rights only |
| Organisation units (`org-units.service.ts`) | unit tree, tags, positions, memberships | CRUD, move, membership, resolveByOrgIds | rooms, tasks, events, polls | moves and renames race; the walk over the tree, level by level, races them | siblings have different names; every live unit is shown; a group resolves to those it stands for; the walk ends |
| Seeds (`prisma/seed.ts`, `seed_data.ts`) | every table they write | two programs of many statements | users, each other | stopped half-way, started again, two at once | what a finished run names is there, once |
| API slices (`src/client/src/api`) | caches of nine slices | queries and mutations with tags | every page, the session | invalidations wait for queries on their way; tags that hit nothing; a user who signs out | rows on the screen contain what the tab changed, and belong to its user |
| Pages and forms (`src/client/src/pages`) | fields of the forms, the row that is chosen | open, type, save, close, choose another row | API slices | answers that come late, rows that load, forms that outlive their row | what is sent was shown and typed for the row it goes to, once |
| User directory, DTOs and bootstrap, migrations, deployment | none that lasts | | | | |

`PROJECT.json` lists the same components with their status, and under
`hazards` the lines where each of these difficulties bites.

## 2. What is modelled

### Conventions

* A *handler slot* (`Reqs`, `Handlers`) holds one request in flight and the
  statement it executes next. The number of slots bounds the concurrency and
  nothing else. One action is one awaited SQL statement together with the code
  that runs up to the next `await`; a Prisma read with `include` or nested
  `select` counts as one statement.
* Where the code does several statements in `prisma.$transaction`, the
  statements are still separate actions, because READ COMMITTED lets others'
  commits show between them. What the transaction wrote is published in one
  action (`Commit` of `Polls`, `InsertSeats` of `Events`).
* History variables (`wasEnabled`, `wasGood`, `wasRaced`, `raced`, `overlapped`,
  `disturbed`, `overwritten`, `timesRaced`, `everRemoved`, `managed`, `altered`,
  `since`, `late`, `gap`, `met`, `looped`, `stale`, `made`, `refused`, `astray`,
  `untold`) record what has
  happened; no action's guard reads them. They make it possible to state what
  the code does guarantee next to the races that it does not exclude.
* Bcrypt hashes are the passwords they match; a JWT is the session it names,
  and its expiry is a clock step or, for the access token, a 401 that may come
  at any call. Ids are model values.
* Definitions whose comment starts with *Mutant* are not part of any
  specification. Each is a plausible mistake in the code at the definition that
  follows it, kept to show that a property notices.

### `AuthSessions`, implementing `SessionLedger`

| Variable | Code |
|---|---|
| `account` | table `User`: `deletedAt`, `isActive`, `isBlocked`, `passwordHash` |
| `session` | table `RefreshSession`: free id, live, or `revokedAt` set; `expiresAt` passed; `userId`; the session it replaced |
| `reset` | table `PasswordResetRequest` with its temporary password and two deadlines |
| `req` | the handlers in flight, their arguments and their next statement |

`Start...` actions are the controllers' entry points; the others are the
statements, named after the method or the Prisma call they translate
(`FindUser`, `BuildSessionResponse`, `CreateRefreshSession`, `RevokePresented`,
`WriteHash`, `ApproveResetRequest`, ...). `Fail` ends a handler between any two
statements: what it has written stays. `SessionExpires`, `ResetRequestExpires`
and `TempPasswordExpires` are the clock. The hash comparison on refresh is kept
as the branch `revokeForged`. Two requests may draw the same temporary password.

`SessionLedger` is what the table promises whoever writes to it: a session is
granted once, belongs to one user, is retired once, never returns, and one that
was granted in exchange has a retired parent of the same user. The refinement
maps a session's row to a ledger entry; the property `ImplementsLedger` is
`Ledger!LedgerSpec` under that mapping.

### `BrowserSession`, on top of `SessionLedger`

The server side of this module *is* the ledger (`Server == INSTANCE
SessionLedger`): a login grants, a refresh retires and then grants, a logout
retires, so it uses the abstraction that `AuthSessions` is shown to implement.
The client side is `page`, `user`, `promise` (the tab's `refreshPromise`),
`call` and `exchange` (a login, refresh or logout on its way). `ear` says who
hears the answer to an exchange: the page's code, only the cookie jar (a
component that was unmounted), or nobody (a page that was reloaded).
`JoinRefresh` is the single flight, `SettleRefresh` what happens when the
promise settles for all who wait, `Checked` what `AuthBootstrap` and
`ProtectedRoute` do with its result. `Fail` loses a request or its answer,
`EndSessions` retires sessions on the server, `Reload` and `LeaveBoot` are the
user. A hard navigation (`window.location`) is one step.

### `Polls`

`poll`, `row` and `chosen` are the tables, `optionLock` and `rowLock` the row
locks of PostgreSQL, `req` the handlers. `ReadPoll` runs before the transaction,
`ReadRow`, `DecrementOld`, `IncrementNew`, `WriteRow` and `Commit` inside it; an
update waits for the lock and works on the committed row; locks go at `Finish`.
`Rollback` may end a handler at any point, `BreakDeadlock` must when it waits in
a cycle. `addParticipants` reads who is there and inserts the others in one
statement that fails as a whole on a duplicate.

### `Tasks` and `Events`, sharing `Participation`

`Participation` declares users, slots and operations. `Tasks` has the
participants of one task with both statuses, the two transition tables
(`WorkSteps`, `ReviewSteps`), and the two-step pattern of the service: read and
check (`ReadAssignee`), then update by primary key (`WriteStatus`). `Events` has
the event's times, checked merged with the stored ones by `UpdateEvent`, and the
guests with their numbers: `ReadSeated`, `ReadMaxNumber` and `InsertSeats` are
the statements of the transaction, `Conflicts` the two keys of the table.

### `Rooms`, implementing `Membership`

`RoomRoles` declares what the chat modules share: users, rooms, handlers and the
roles a member can have. `Rooms` has the tables (`room`, `member`), whom the
server has told of being added (`notice`) and the handlers (`roomReq`):

| Action | Code |
|---|---|
| `StartCreate`, `FindDirectRoom`, `InsertRoom` | `createRoom`: the look-up of a direct room, then one transaction of inserts |
| `StartRequest`, `AssertRoomExists`, `AssertCanManageMembers` | `ChatPermissionGuard` in front of the controller, and the checks the service repeats |
| `ReadInvited`, `InsertMember` | `addMember`, and the loop of `batchAddMembers`, which inserts one by one without a transaction |
| `ReadExisting`, `InsertMembers` | `bulkAddMembers`: look, then insert and skip duplicates |
| `TellMembers` | the notifications and events at the end of each |
| `ReadTarget`, `WriteRole`, `ReadRemovable`, `DeleteMembers`, `DeleteRoom` | `updateMemberRole`, `removeMember`, `bulkRemoveMembers`, `deleteRoom` |
| `FailRoom` | a statement fails, or an insert meets a membership that is there by now: what was inserted stays |

`Membership` is what all of it promises about the table
`UserRoomMembership`: the creator of a room is its only owner for ever, joining
touches nobody who is there, and only the others are promoted or leave.

### `Conversation`, on top of `Membership`

Topics, scopes, messages and read marks of `topics.service.ts` and
`messages.service.ts`. The two components meet by assume and guarantee: Rooms is
shown to implement `Membership` (`KeepsMembership`, proved), and `Conversation`
takes *any* behaviour of `Membership` as its environment (`MembersChange`), so
whatever it keeps it keeps together with `Rooms`. Every check of a request is a
step of its own (`AssertRoomMember`, `ReadScope`, `ReadPrivilege`, `ReadEntry`,
`CheckPermission`, `AssertExists`, `ReadParent`), because each is an awaited
statement; `deleteTopic` and `setVisibilityScope` are two steps inside a
transaction and publish at the second. Entries of a scope belong to its id and
vanish with it, which is why `ReadEntry` looks at `scope[q.scope]` and not at
the scope the topic has by then.

### `Realtime`

One browser tab that watches the chat, with the parts of the server it meets.

| Variable | Code |
|---|---|
| `post`, `seen` | `Message` with the progress of `createMessage` (asked for, inserted, announced), and `UserReadMessage` of the user |
| `link`, `channels`, `toServer`, `toClient` | the socket, the channels the gateway has put it in, and the events between the two |
| `room`, `topic`, `active` | `selectedRoomId`, `selectedTopicId` and `activeRoomRef` |
| `processed` | `processedMessageIdsRef` |
| `cached`, `count`, `fetch`, `stale` | the entries of RTK Query, what they count, their queries, and what was invalidated but not yet fetched again |
| `marking`, `sending` | `markTopicRead` and `sendMessage` on their way |

An entry is a multiset of messages: the list of a topic counts the messages in
it and the replies in the `replyCount` of their parents, the entries of
`getTopics` and `getRooms` count the unread ones. That keeps apart what matters
(missing, there, counted twice) and drops texts and order. `Deliver` is
`applyIncomingMessage`, `Patched` its patches. A query is asked, answered by the
server (`Serve`, which reads the tables) and settled (`Settle`, which replaces
the data whatever has been patched since). `Invalidate` is the rule of RTK Query
behind all tags: nothing is refetched while a query or mutation is on its way,
and unused entries are dropped. `FollowRoom` is the effect that joins and leaves
channels, one step after the selection. Failures (`FetchFails`, `MarkFails`,
`SendFails`, `AnnounceFails`, `Disconnect`) are bounded by `MaxFailures`.

### `Feed`

The other events of the chat patch the caches and invalidate nothing
(`SocketManager.tsx`), unlike `message:new`. `Feed` follows one row of the open
room through them; `list` says whether that is a topic, a membership (of somebody
or of the user), the room itself, or a message with its pin and receipts.

| Variable | Code |
|---|---|
| `row` | the row of `Topic`, `UserRoomMembership`, `Room`, or `Message` with its `UserReadMessage` |
| `edit`, `edits` | the requests that change it: checked, written, read back (`updateRoom` answers with `getRoom`), about to emit, answered |
| `line`, `pass`, `inRoom`, `toGateway`, `toTab` | the socket, its token, the channel of the room, joins and leaves, and the events on their way |
| `open`, `selected` | `selectedRoomId`, `selectedTopicId` |
| `held`, `query`, `again` | the row in the cache of RTK Query, the query of its entry, and an invalidation that waits for it |
| `astray`, `untold` | history: why the cache may differ since the last query, and why the user may still look at what is gone |

`Check`, `Write`, `ReadBack` and `Emit` are the statements of the handlers of
`topics.service.ts`, `rooms.service.ts` and `messages.service.ts`; `EventOf` says what
each announces, and that `updateMemberRole`, `bulkRemoveMembers`, `deleteRoom` and the
scopes of topics announce nothing. `HandleEvent` is the handlers of `SocketManager`,
`Updated` what they do to the entry: put the row into the list, take it out, count
a receipt. `Answer` is the tab's own mutation, with its tags and what
`ChatInfoPanel` and `TopicManagementPanel` close. `Expire`, `Reconnect` and `Refresh` are the life
of the socket's token: the gateway turns an expired one away and socket.io does
not try again; the next refresh of the session replaces the socket.

Four effects of the code came out in the model and are causes that `astray`
records, for nothing in the repository says otherwise: an update of a topic that
is deleted or hidden puts it into the list, a pin puts a reply into the list of
root messages, `room:updated` carries the unread count of whoever renamed the room,
and a receipt of a message's own author is counted.

### `OrgTree`, `Staffing`, `OrgGroups`, `Rights`

Each extends the one before; `People` declares the users they share with `Polls`.

* `OrgTree`: `unit`, `tag` and `tagged` are the tables, `unitReq` the requests.
  createOrgUnit, updateOrgUnit and deleteOrgUnit go statement by statement: the
  parent is looked up (`AssertParent`), the siblings' names are compared
  (`FindName`), the row is written (`Store` repeats the unique key, which does not
  hold at the top, where the parent is NULL). Operations on tags are single steps,
  for the reason the header gives. `TreeShown` is what getOrgUnitTree builds of
  its rows.
* `Staffing`: positions, memberships and the roles of positions, each operation a
  step. A position that was deleted comes back with its members and roles.
* `OrgGroups`: resolveByOrgIds and resolveUserIds. `ExpandUnit` begins a subtree,
  `WalkLevel` is one query of getSubtreeIds: the recursion of the code is a loop of
  the state machine. `Meant` is the reference: the users under those units, stated
  with paths and not with a walk.
* `Rights`: `PermissionCodes` is getUserPermissionCodes over roles of the user and
  of the positions of the user; `Admit` is the guard, and the operation follows
  as a step of its own.

### `Registration`

register, approveRegistrationRequest, rejectRegistrationRequest, adminCreateUser
and updateUser statement by statement, softDelete as one step. `desk` are the
handlers; `made` remembers which accounts an application led to.

### `Seeding`

Both seed programs as sequences of statements (`Script`), which an interpreter
runs: `UpsertRow` for rows with a unique key, and look, then create or update, for
the others. `run` has each process with its place in the script and the copies it
has found. A run may stop after any statement; users delete, revoke, vote and
invite (`Meanwhile`).

### `ApiSlices`

The nine slices as data: what each query provides and reads, what each mutation
invalidates and writes. Over this table runs one machine, the rules of RTK Query
for *one* entry of *one* query: any query, watched, while the tab makes mutations
of its slice and of others. `held` are the mutations the rows on the screen
contain, so that "stale" is a mutation that is done, touches the facts of the query
and is not held. `Untold` lists the places where the tags of the code miss a query;
each is needed, and each is named with its line. A mutation fails before the server
has made it, or after, and then its answer is lost; or the tab gives up on it and the
server makes it later (`PerformLate`), which nothing can tell the tab: such a change
is `Untold` too.

### `Editing`

The forms of the client as records that say in what they differ (is the row chosen
or routed, when is the form filled, what do closing and an answer do, can it be
closed while a request is on its way, does it edit the row, create, or either), and
one machine that runs any of them. `Forms` has all of them. Two fields name what the
router does to a page: `rows` is "many" where one element serves whatever row its
route shows, so that its forms outlive the row (the unit page with its three forms,
the panel of a room), and `lags` where the row appears only when it is loaded. The
forms of such an element *follow the user*: what was typed for one row is sent for
the next, and a late answer empties and closes the form as it then is.
`FollowsTheUser` and `OpenMeanwhile` name them, and the properties say that it
happens to no other form. `chosen`, `shown` and `known` tell apart the row the user
asked for, the one the page still shows and what the client knows of each;
`fields` is the form, `request` what it has sent.

### `Notices`

The notifications of one user: `row` is the table, `pushes` the events on their
way, `entry` the badge (one row and a total) and the unread list of the tab.
`Receive` is handleNotification with its patches and its invalidation, `RouteSync`
the effect of `NotificationRouteSync`, which is part of every action that changes
the view or the list. markRead is two statements (`FindMark`, `UpdateMark`; the same
for a click on the page).

## 3. What is checked

`MC...` modules instantiate the specifications. The rows that have several
*scenarios* choose one in the initial state and keep it: the scenario fixes
which operations meet and how large the sets are, so that one run covers several
instances, each small enough to be explored completely. A scenario restricts
requests, never the statements of a request that has begun.

| Run | Instance | Properties and what they show |
|---|---|---|
| `auth_handlers` | 2 handlers; scenarios: login, refresh and logout of 2 users (2 sessions), the same of one user with block and unblock, life of an account, three rotations (3 sessions), password changes (2 passwords), reset requests (1 request, 1 temporary password) | `TypeOK`; `GrantedWithinWindow`: every grant rests on a credential and an account that were good at some moment of that request; `ParentRetired`; `SurvivorsRaced`: a session alive on a disabled account was granted by a request that overlapped the disabling; `ImplementsLedger` |
| `auth_reprocess` | 1 request, 2 administrators | *violated*: `RejectionsStand`: what one administrator has rejected, another approves, from a read made before; the time of the request plays no part in the trace |
| `polls_tally` | 2 users, 2 options, 2 handlers, all operations | `TypeOK`; `TallyExact`; `RecordedVotesStand` |
| `answers` | scenarios: votes and invitations of 2 users; the members of a subtree of a chain of 3 units are asked for while one thing changes | `Answered`, `WalkEnds`, under fairness |
| `polls_vote_change` | 1 voter, twice at a time | *violated*: `NoChangeWhenForbidden` |
| `browser_sessions` | 2 tabs, 2 users, 2 calls, 3 exchanges, 3 sessions, nothing lost | `RefusedForCause`; `SessionsSound`: types, `promise` is set while its refresh is in flight and only then, and a sign-out that nothing disturbs leaves no live session; `CookieMatchesTab` |
| `tab` | scenarios: a session with 1 tab, 2 calls, 2 exchanges and every mishap; the watched entry of any of the queries, with one mutation or a change of the user; any of the forms, with 2 rows of 2 versions | `EverythingEnds` (every call, and the opening of the app), under fairness; `EntriesSound`: with nothing on its way rows contain what the tab has changed, unless their slice is not told or the server made it after the tab had given up, and are those of the user signed in; `EditingSound`: what is saved was shown and typed for that row, an opened form holds what is shown, nothing is created twice, news do not take away what is typed, an answer closes its own form |
| `records` | 2 handlers; scenarios: assignment to a task (2 users), work and review of one participant, the times of an event (3 times), the guests of an event (3 users), names of 2 units by 2 handlers, the shape of 3 units, a group resolved in every tree of 3 units, rights of one user besides the administrator (2 roles), registrations (2 applications, 2 addresses, 2 accounts) | `TaskTypeOK`, `RecordTypes`; `LegalUnlessOverwritten`, `ProgressKept`; `EventsSound`: an event ends after it starts unless two updates raced, and guests have numbers of their own; `OrgSound`: two siblings have one name only at the top and after a race, every live unit is in the tree unless one was put below itself, a group resolves to whom it stands for unless rows changed meanwhile; `SettledUnlessDisturbed`: an application that was approved led to its account and to no other, one that was rejected or is pending to none; `NothingFromNothing` |
| `tasks_review` | 1 participant, 3 handlers | *violated*: `ReviewedIsSubmitted` |
| `rooms` | 3 users, 2 rooms, 2 handlers; scenarios: direct rooms of two users (created, deleted, left), a group that users join one by one, in batches and from units while members leave, roles and removals in a group of three; the notifications of one user (2 of them, 2 views, 3 in all of notifications made, moves and mishaps) | `RoomTypeOK`; `OneDirectRoom`: two direct rooms of one pair exist only if two creations overlapped; `MembersTold`: whoever has joined is told, or the request that added them failed; `KeepsMembership`; `ChangedByManagers`: memberships change at the hand of someone who managed the room during that request; `NoticesSound`: once nothing is on its way the badge and the list are right and the view is read, unless a mark was refused, a query failed or an event was missed; the first time of reading stays unless two requests crossed |
| `conversation` | 2 users, 1 room, 2 topics, 2 messages, 2 scopes, 2 handlers; scenarios: threads under the deletion of their topic, visibility of one topic while scopes and roles change, posting, pinning and reading | `ConversationSound`: types, and a message outlives its topic or its parent only if it was inserted during the deletion; `SeenWithinWindow`; `MarksWholeTopic` |
| `realtime` | scenarios: 1 room, 1 topic with a message, 1 more message of anybody, root or reply, 2 selections, 1 failure; seeds started twice, stopped anywhere, with one change by a user, or two at once; one row of the open room of any kind, with 2 values, and 3 in all of changes (2, one by the tab), openings (2) and failures (1) | `ListsExact`, `ShownEventually`: lists converge to the table; `CountsExact`: so do unread counts, but for messages whose announcement met a query or a visit, and nothing is ever counted more than twice; `JoinedActive`: the socket is in the channel of the active room only; `EndsWell`: what a finished seed names is there and hangs together, and one fails only for a cause; `OneOfEachUnlessOverlapped`; `FeedSound`: at rest the open room shows what the server lists, unless changes overlapped, or one was not announced to the tab, met a query, or was announced as somebody else lists it; a topic that is deleted or a room that is left does not stay on the screen once the tab has heard of it |

The violated properties are sentences of the repository (its README, or the
condition under which it throws); the counterexamples are described under `findings` in
`PROJECT.json`. Next to each, a passing property says what remains true.

### Bounds

* Two handlers: every race found in this code is between two requests, one that
  checks and one that changes what was checked. A third handler would add a
  second racer to the same window, not a new window. Proofs, where there are
  some, hold for any number.
* Sessions: three are what it takes for a session, its successor and the
  successor of that one; `browser_sessions` runs until the three ids are used
  up, which is why it does not check for deadlock. `Narrow`, part of its next-state
  relation, allows a third exchange in flight only while one tab is in use: three
  exchanges of one tab (two refreshes and a logout) are needed for its
  hazards, with two tabs one exchange of each suffices.
* `CounterBound` (`Polls`): no vote starts once a counter has passed it, which
  keeps the drift of the counters after a race finite. Two voters never bring a
  correct counter past 2.
* `NumberBound` (`Events`): an invitation fails once the highest number has
  passed it, so that removing and inviting again ends. 2 leaves room for an
  invitation of two users on top of one that is already there.
* `Assignable`, `Reviewed`: two users can be assigned a task at a time, which is
  what a partly overlapping pair of invitations needs; reviews concern one
  participant at a time, so their scenario has one user with both handlers.
* `rooms`: two rooms are what a second direct room needs, three users what a
  removal by one manager of another needs; the scenarios `joining` and `ruling`
  use one room, as requests on different rooms do not meet. In `joining` only the
  members themselves leave, since `ruling` has the removals by managers.
* `conversation`: two messages make a thread, one posted or deleted under
  the other; two scopes let one be replaced while it is looked at, which is as
  often as two statements of one look-up can tell. Memberships change only in
  `sight`, where they matter to what a request may see.
* `realtime`: it starts when the chat is opened, with the rooms loaded and the
  socket connected. The message that is there (`OldIn`) can be answered and is unread,
  the other takes every way through posting, announcing and fetching. Two
  selections open the room and the topic, or leave the room again; leaving the
  topic is free. One failure shows what each kind does to the rest; a second one
  would only widen what `gap` sets aside. At these bounds the system stops when
  everything has settled, so this run does not check for deadlock.
* `tab`: one mutation is enough for an entry, as changes do not cancel each other
  and the entry is either told of one or not; `Sample` takes one of mutations that
  differ in their names only. The user changes instead of a mutation. Two rows are
  a page's row and the next one; a row changes once, by the user or by another;
  a form has one request on its way.
* `records`: ids of units, roles, accounts and applications are numbers and are
  taken in order, because which one a new row takes is not observed. Three units
  are what a loop and a move below a deleted unit need. In `names` all handlers
  work on two units, none below itself, in `shape` one handler works on three, each
  with a name of its own, since names and shape meet only in the comparison of siblings. In `groups`
  the tree is any, one user serves in one unit (users are resolved independently),
  and tags and units are asked for together with all units only. In `rights` one
  user at most gains and loses; the seed's role keeps its rights. In
  `registration` one handler at most is not processing applications.
* `answers`: the chain is as deep as there are units, and one change to it is
  enough to make a walk meet what it has left.
* `realtime`, seeds: each kind of row is there once or twice; `MaxStarts` and
  `MaxChanges` are named in the module; of two runs at once one is at most `Pace`
  statements ahead, and they make one thing twice.
* `realtime`, feed: the room is opened first, so `MaxHappens` 3 leaves two more:
  two changes, a change and a failure, or a change and another opening. Every cause
  `FeedSound` names takes two of them, and none can be dropped without a
  counterexample.
* `rooms`, notifications: two are what the badge, which asks for one row, can
  confuse; `Pace` counts notifications made, moves of the user and mishaps, so any
  three of them meet. At this bound the system stops, so the run does not check
  for deadlock. (With `Pace` 4 the properties hold as well; that takes longer than
  the run should.)
* Symmetry is used on users, sessions, slots and tabs, and in no run that
  checks liveness. `ImplementsLedger`, `ProgressKept`, `NothingFromNothing`, `NoticesSound`,
  `RecordedVotesStand`, `RejectionsStand`, `KeepsMembership`,
  `ChangedByManagers` and `MarksWholeTopic` are action properties, for which it is sound.

### Fairness

* `Polls!FairSpec`: `SF_vars(Statement(r))`: the server keeps executing a
  handler, and PostgreSQL grants a row lock to its waiters in turn, so a waiting
  update that is possible again and again happens; `WF_vars(BreakDeadlock(r))`:
  the deadlock detector runs. No fairness is assumed of users or of rollbacks.
* `OrgGroups!GroupFairness`: the server keeps executing a resolution. `WalkEnds`
  says so of a tree that is left alone in the end, and has a loop in no case.
* `BrowserSession!Answers`: a request is eventually served or fails, its answer
  is eventually delivered, an API call is eventually answered. The user is never
  obliged to do anything, and may reload for ever.
* `Realtime!RealtimeFairness`: handlers finish, queries and calls are answered
  unless they fail, the socket delivers and reconnects (socket.io does by
  itself), effects run. Neither users nor failures are obliged to do anything.

## 4. What is proved

`tlapm` checks these for every value of the constants that satisfies the named
assumption of the module.

| Module | Theorems | Argument |
|---|---|---|
| `AuthSessions_proofs` | `TypeCorrect`, `GrantsAreJustified`, `RotationRetires`, `OnlyRacersSurvive`, `Implements` | The checks of a handler are long past when it inserts the session, so the properties are not inductive. The invariant adds what a handler carries at each statement (`ControlOK`), that presented tokens were granted (`TokenOK`), that the history sets hold what is true now (`WindowOK`), and what they must hold when a handler is about to grant (`GrantOK`, `RaceOK`). Two lemmas carry the step: how a statement moves its handler, and the four things a step can do to the session table; `Implements` follows from the second. |
| `Polls_proofs` | `TypeCorrect`, `TalliesAreExact`, `VotesStand`, `NobodyWaitsInVain`, `HandlersMoveOn` | The tally is not inductive: a commit subtracts the vote its handler read some statements ago. The invariant adds `Solo` (a user no two handlers have worked on has at most one handler at work) and `Fresh` (what that handler read is still the user's row), `ControlOK` (what a handler carries at each statement) and `RowOK`. The step that matters is `Commit`, which changes counters and row together; the locks are not needed for it. Cardinalities of finite sets come from `FiniteSetTheorems`. Waiting needs the locks: each is held by a handler between the statement that takes it and its end (`LocksFit`), so every set of handlers that only wait for each other has a cycle (`WaitsEnd`), and as the holder of a participant's row has only its commit left, those in a cycle hold one counter and wait for another: each changes a vote (`CyclesChange`). |
| `Rooms_proofs` | `RoomTypeCorrect`, `MembershipKept`, `OnlyManagersChange`, `NobodyJoinsUnheard`, `DirectRoomsAreOne`, `NoticesComeOutRight` | Rooms: `Core` is the inductive part: types, what a request carries at each statement (`ShapeOK`), that a removal or promotion past its check names somebody other than the creator (`TargetOK`) and that the creator is the only owner (`OwnerOK`); the last two need each other, because the check is on a row that may have changed since, and holds on because nobody becomes owner later. `RequestStep` says how a statement moves its request, `TableStep` lists the five things a step can do to rooms and members; each of the five is an action of `Membership` or a stutter, which is the refinement. `ManagedOK` (a request past the guard has seen its actor manage the room) gives the action property, `MissedOK` (which rooms a pending look-up can have missed) the direct rooms. Notices: a list, or the answer on its way to it, is right, or something will have it fetched again (`FreshLists`); what a mark has found read stays read (`MarksOK`), so what the view is about is read, or its mark is on its way, or it was refused (`ViewOK`). |
| `Conversation_proofs` | `ConversationIsSound`, `SeenInWindow`, `WholeTopicIsRead` | A message is inserted statements after its checks, and a reply after its parent was read, so the invariant (`ChatInvariance`) says what each request carries at each statement, and that what it read was there while it ran: of the topic, of its scope and of the member. Levels of a thread follow from the parent's level at the time it was read, since levels never change. |
| `Records_proofs` | `TaskTypeCorrect`, `RowsAreLegal`, `ProgressIsKept`, `SettledIfUndisturbed`, `NothingComesOfNothing`, `EventsAreSound`, `RegInvariance`, `RightsTypes`, `TreeStaysSound`, `OrgIsSound`, `WalksGoOn`, `RecordTypesKept` | Tasks: `LegalUnlessOverwritten` is not inductive: `WriteStatus` writes the status that was asked for. The invariant adds that a request past its check asks for a step the tables allow *from the row it read* (`ChecksOK`, on requests whose kind `WantsOK` fixes). If the row is still the one read, the new row is legal; if it is not, the step records it in `overwritten`. `ProgressIsKept` needs the types only: what each statement may write to a row. Registration: an application nobody disturbed has at most one request past its first statement (`RegIInv`), so that what this request has read and made is what there is. Rights: once nobody holds a managing permission and no request is past the guard, no operation is enabled. Events: what a request has read of the numbers bounds what it inserts; the greatest number of a finite set and the cardinality of an interval carry `NumbersSound`. The tree: every set of live units has one that hangs outside of it (`Grounded`), until a unit is put below itself; a move keeps it because a loop through the moved unit would have to be below that unit. `Below`, a recursive function, is closed under children after as many levels as there are units, since each level that is not closed adds one. Groups: a walk has left no child behind but those of its last level (`Resolving`), so it ends with the least closed set; a unit is in that set exactly when a path leads up from it (`UnderIsReached`, `ReachedIsUnder`), which has no unit twice and so fits the number of units. That a walk ends is the same `Grounded` once more: the part of the tree beneath its last level shrinks with every level, while no unit is below itself (`LevelsEnd`). The composition: the types of every component, and that the handlers of those outside the scenario stay idle (`RecordIInv`). |
| `BrowserSession_proofs` | `SessionsAreSound`, `RefusalsHaveCause`, `CookieFollowsTabs`, `EntriesComeOutRight`, `FormsComeOutRight`, `NobodyIsForgotten` | Sessions: `SessionInv`: types with what an exchange carries by how far it has got (`ExchangeOK`), and, while nothing has disturbed the browser (`Calm`), one exchange in flight at a time. At rest the cookie names the only live session, its user is whom every tab shows, and some tab can still sign out (`Agreed`); while an exchange is in flight, `Holds` says for each of its stages what is true in between: after the revocation no session is live, after the grant only the one on its way. A 401 that finds no `refreshPromise` finds no refresh of its tab in flight, which is the single flight. Slices: `EntriesSound` is about rest; a change that was made is `Covered` before that: its answer is still due, or the server has yet to read the rows or has read them since, or nobody looks at the rows, or a tag that hits them waits, or the slice is not told of it. That a settled mutation leaves a tag behind which hits the rows, or is among the named exceptions, is the tables' doing (`MutationHeard`): every fact a mutation writes is looked up among those a query of its slice reads, slice by slice, and no other slice writes them but the approval of a registration. Tags wait only while something of the slice is pending or nobody uses the entry (`Waits`), which is what `TellKeeps` shows of the invalidation. Forms: what the forms have in common is a table again (`Filling`, `Creating`, shown for each form). The fields are of the row shown unless the form follows the user (`OfShown`), the row shown is the chosen one unless it is loading (`Placed`), a closed form holds what it is to be opened with (`Rested`), and a request keeps matching the fields it was sent from while these change (`RequestFits`); the title of a topic needs that an accepted title differs from what the list has until the list is loaded (`TitleSent`). `ShowFits` does it once for the four steps that show a row. Ends: a call waits only while the `refreshPromise` of its page names a refresh on its way that this page hears (`CallsAwaited`), an app opens only while its boot exchange does (`AppAwaited`); a reload takes the calls with it, and an answer clears both. The server can go on because what an exchange presents was granted (`Presented`) and an id not granted is of nobody (`FreeSids`). |
| `Realtime_proofs` | `SocketFollowsRoom`, `ListsComeOutExact`, `CountsComeOutExact`, `FeedStaysSound`, `TabComesToRest` | `JoinedActive`: the joins and leaves on their way to the gateway lead from the channels it knows to the active room (`SocketOK`, about the last of each kind). `ListsExact`: a list is `Behind` (marked stale, asked for, or one of its messages still on its way or being sent), or the answer on its way is exact, or the list is (`ListOK`); every event and every mutation leaves it behind before it changes the rows. `CountsExact`: the same for the entries with counts (`BadgeOK`), where an announcement patches instead of fetching again. It needs that a message on its way meets no visit to its topic and no query of the counts, or is set aside in `met` (`ReadsOK`), and that a message of the user's own is read, or will be, with all that came before it, because events come in the order they were sent (`OwnOK`). Feed: `FeedSound` is about rest; the invariant says what must be true while things are on their way. The cache, or the answer on its way to it, is the `Base`: the events on the wire lead from it to a value (`Leads`), and the changes still to be announced lead from there to the row (`Due`), or are recorded in `astray`. A read receipt is the one event that says a difference and not a value, so the invariant needs that the receipt that counts is on its way only once (`PlusOnce`) and that an answer on its way does not count it already (`CountAhead`). A topic or membership that is gone has its drop on its way with nothing put after it, or is closed, its row held by no cache, answer or event (`GoneOK`), or is recorded in `untold`. Rest: nothing waits but for something on its way (`StaleWaits`, `PhasesOK`), and what may have made it wait comes before it in one order: rows, then the announcement being made, events, reads, tags, queries (`Nearer`). Each step that goes on by itself lowers one of them and raises only later ones. |
| `Seeding_proofs` | `SeedInvariance`, `SeedsEndWell`, `SeedsMakeOneOfEach` | The properties are about runs that have ended; the invariant says of each run under way what of its statements still stands. For that the scripts are shown to be chains: each is a set of statements, in the order of their places, with none twice (`BaseChain`, `DemoChain`), so that what a run has done is a set (`DoneBy`) and what it is at comes after all of that (`EntryFacts`). Then `RowsOK`, `HeldOK`, `SeatsOK` and `TallyOK` say what each statement done has left, in a run nobody disturbed; a statement of such a run may take away what an earlier one wrote only if a later one brings it back (the wiped codes of a role, the counts of a poll). One of each thing holds because a run that is about to write has just searched and found nothing (`SearchOK`), unless another run was under way too. |

Every proof has one step per action of `Next` and ends in `PTL`.

Where a fact is about all numbers, as that a recursion over levels ends, the
induction is over a set of naturals: the least of those that fail
(`WFMin` and `NatLessThanWellFounded` of the library), since the induction
theorems that take a predicate are out of the provers' reach.

The assumptions are the named `ASSUME`s of the modules: the sets whose members
are counted or gone through one by one (users of polls and events, units, notices, and
of the seeds codes, voters, options and guests) are finite, as tables are, and
the values that stand for a missing one are in none of them. `InstanceAssumption`
of `MCRecords` gives its trees a name for every unit.

### Only model-checked

* Fairness: the prover does not handle it, nor `ENABLED`, so `Answered`, `WalkEnds`,
  `EverythingEnds` and `ShownEventually` are checked by TLC. What they rest on
  besides fairness is proved, for every number of handlers, units, calls, tabs
  and messages: that whoever waits waits for something that can go on, and that
  each step brings it nearer to its end (`NobodyWaitsInVain` and
  `HandlersMoveOn`; `WalksGoOn`; `NobodyIsForgotten`; `TabComesToRest`). The step
  from there to the liveness property, that what can go on does and that a
  finite order has an end, is the part that is only checked.
* The violated properties: a counterexample is the evidence.
* Nothing in the models is a RECURSIVE operator: the walk over the tree of units
  is a loop of a state machine, and what it must find is stated with paths.

## 5. What is left out, and why

* `updateRoom` and `updateTopic` write titles and `archivedAt`, which no decision
  reads; visibility by unit or tag is a set of users to the decision that reads
  it, and the units behind it do not change in the model.
* Of the modelled parts: titles, texts, avatars and other columns no decision
  reads; the notifications a service sends after its work, which nothing waits
  for; the permission checks of the guards before a handler begins (the models
  take the requests that pass). Requests that are refused without a statement
  that writes change nothing.
* `Realtime`: the view of a thread, with its count of unread replies; other
  tabs of the user that post; scopes and memberships (the chat is the one the
  user sees, see `Conversation`); tokens of the socket and the other events, which are
  in `Feed`. A topic has one `markTopicRead` on its way at a time, and queries of
  the chat that are not modelled delay nothing.
* `Feed`: a second room (`handleMemberRemoved` closes whatever room is selected,
  which with one room is the right one), and fairness: nothing promises that what
  has gone astray is fetched again. The events `registration:request:new`
  and `password-reset:request:new`, which only administrators receive.
* What `SignedOutIsRevoked` sets aside is real: after a logout that overlaps a
  refresh or another sign-out, a tab can be back at `/login` while a session of
  its user is live, until it expires.
* `ApiSlices`: a slice that should hear of another's mutation (an approved
  registration is a new user of the slice `users`) does not in the code; `Untold`
  names such places. Two watched entries at once tell nothing more, since an entry
  does not read another.
* `Editing`: a jump over several entries of the history of the browser from one row of a
  route to another, on pages whose own links never lead there directly (from one task
  to another, say; their `rows` is "one"); dialogs that confirm a deletion, which send
  for the row their button was drawn for. A page that is left while a request is on its way (the answer is
  dropped, and the form with it), the validation of fields, and the wording of
  errors. The form of `ChangePasswordPage` has no row and one field; its protocol is
  `changePassword` of `AuthSessions`.
* `Notices`: whom a service notifies (see the services); the lists only one page
  uses; the two reads of a list, rows and count, are one step; which room a topic
  or message belongs to is looked up at once.
* `Rights`: the administration of room roles, which no client calls; what room
  roles permit is in `RoomRoles`.
* The components with status `not_modelled` in `PROJECT.json`: the user
  directory, DTOs, bootstrap, migrations and deployment, which have no protocol of
  their own.

Four difficulties of the code have no property, because what could be stated is
either a restatement of a line or false by design:

* `changePassword` (`auth.service.ts:564`) writes the new hash before it revokes the
  sessions; a failure in between leaves them live under the new password.
  `AuthSessions` contains the state, and calls it an overlap.
* A logout that overlaps a refresh of its tab (`TopBar.tsx:38`): the refresh is granted
  a session after the logout revoked the old one (see `SignedOutIsRevoked`).
* A refresh adopts the user of the cookie (`baseQueryWithAuth.ts:67`), who may have
  signed in from another tab, while the calls it retries were made by the one before.
* A confirmation read for one invitation is written after the guest was removed and
  invited again (`events.service.ts:374`): the row is addressed by user and event, so
  the new invitation is confirmed.

## 6. Plan

All components with a protocol of their own are modelled. What is left, in this
order:

1. `Realtime`, the rest: the view of a thread and its unread counts.
2. Proofs: every safety property is a theorem. What can be added is a
   specification of what a read of a list promises, which `Realtime`, `Feed`,
   `Notices` and `ApiSlices` each state in words of their own.

Runs grow by scenario rather than by number: components that share no state are
scenarios of one run, as tasks, events, units and registrations are in `records`.
