# TLA+ models of Tilezo

Tilezo is a small multiplayer world of isometric rooms: a Bun server (HTTP, WebSockets, PostgreSQL)
and a browser client. Users walk, chat, furnish the rooms they own, befriend and message each other.
The server is one JavaScript process: handlers run to their next `await` without interruption, and
any other handler may run while they wait. Almost every hard question about this code is of that
kind: what is still true after an `await`, in which order statements land in the database, and which
of a user's several sockets speaks for the user.

This directory holds TLA+ modules of the parts where those questions arise, TLC instances of them,
and TLAPS proofs of what matters most.

    tlc -workers 2 -config MCRoomSessions_safety.cfg MCRoomSessions
    tlapm RoomSessions_proofs.tla

## 1. Inventory

| Component | Source | State | Operations | What is hard | Correct when |
|---|---|---|---|---|---|
| Room sessions | `net/handleMessage.ts`, `rooms/Room.ts`, `rooms/RoomManager.ts`, `presence/presence.ts`, `serverRuntime.ts` | membership of each Room, driver of each avatar, `ws.data.roomId`, topics, presence, layouts | upgrade, open and resume, join, leave by joining elsewhere, close, home provisioning, room creation, restart | several sockets per user, a join that awaits the database, sockets superseded or closed meanwhile | one avatar per user, one driving socket, presence and client views agree with the Rooms, access and capacity respected |
| Last-room persistence | `handleMessage.ts` (`saveLastRoomId`), `db/persistence.ts` | a row per user, join versions and targets | save, correct, clear, read at upgrade | statements applied and answered in any order, or failing | the row ends at the newest decision |
| Room furniture | `handleMessage.ts` (item handlers), `Room.ts`, `RoomManager.ts`, `economy.ts`, `persistence.ts` | inventory, `room_items`, the manager's cache, items of Room objects | place, move, pick up, interact | several awaited statements per handler, failures and rollbacks, Room objects dropped and rebuilt meanwhile | no piece lost, copies agree, nothing stacked |
| Room movement | `Room.ts`, `rooms/bots.ts` | positions, movements (path, start time), walkable grid | join, move, sweep, place or pick up furniture, bot tick | positions are derived from the clock; destinations are reserved; furniture changes under walkers | no two avatars end on one tile; nobody jumps or is walled in |
| Avatars on a page | `client/src/game/Avatar.ts`, `RoomScene.ts` | the avatar's tile, segment and path | snapshot, joined, moved, left, frame | paths arrive late and are rerouted; frames are missed | the avatar ends where the Room's does |
| Engine | `packages/engine/src/grid.ts`, `pathfinding.ts` | none between calls | `findPath`, neighbours, priority queue | diagonals past corners, ties, unreachable targets | the path is walkable and shortest, and found when one exists |
| Accounts | `auth/auth.ts` | users, token version, limiter slots and queue | register, login, verify, logout, password tasks | slots and waiters with timeouts; logout against logins in flight | slots bounded and never lost; a logged-out token is refused |
| Appearance | `auth.ts`, `handleMessage.ts`, `Room.ts`, `serverRuntime.ts`, `createApp.ts` | the row, the page's user, `ws.data.appearance`, the room's avatar, what a watcher shows | edit, PUT, socket update, upgrade, join, take over | five copies, saved and applied in different orders, by several sockets | what is shown was saved; copies agree in the end |
| Fixed-window limits | `auth/rateLimit.ts`, `serverRuntime.ts`, `http/router.ts` | a count and an end per key | consume, prune | the clock, the pruning timer, requests with two keys | no more than the limit per window; retry-after is long enough |
| Chat and typing | `handleMessage.ts`, `ChatPanel.ts`, `DirectMessagePanel.ts`, `Avatar.ts` | token buckets, last typing states, panels, bubbles | type, say, refuse, publish, lose the socket, join | changes dropped, refused, lost and overtaken | the rate holds; the indicator is right in the end |
| Friends and blocks | `friends/friends.ts`, `blocks/blocks.ts`, `createApp.ts` | friendship rows, block rows, a lock per pair, the page's panel | add, accept, remove, block, unblock, refresh | up to four awaited statements per request; removals take no lock; refreshes overlap | a row is written as it was read; crossing requests make friends; caps hold; the panel agrees |
| Direct messages | `messaging/messaging.ts`, `handleMessage.ts`, `DirectMessagePanel.ts`, `createApp.ts` | messages, panels, badges | send, edit, delete, read, history, counts | checks before an await, the statement after it, the event after that; history over HTTP beside events | nobody cut off gets through; a deleted message stays deleted; panels and badges agree in the end |
| Economy and room creation | `economy/economy.ts`, `http/router.ts`, `rooms/roomCreation.ts`, `rooms/personalRoom.ts` | money, inventory, rooms, the directory, the page | create a room, buy, personal room, inventory, upgrade | steps that may fail one by one, before or after their effect; restarts; caps checked early | money is accounted for, announced rooms stay, the page shows the tables |
| Bots | `rooms/bots.ts` | seeded users | tick | concurrent with users | as for movement |
| Client session | `client/src/app/createApp.ts`, `game/NetClient.ts`, `game/Game.ts` | user, requests, starts and attempts under way, Games, sockets, timers, dialog | restore, sign in, save a look, create a room, start, reconnect, retry, sign out | timers, promises and late close events; a game may be started while it is started or starting | no dead scene; nothing left after sign-out; a lost connection comes back |
| Not modelled | rendering, protocol schemas, configuration, metrics, migrations, scripts | | | presentation, validation and generated code | |

Interactions: `handleMessage` calls Room and RoomManager synchronously and awaits persistence, economy
and the message service; RoomManager builds Rooms from its layouts and its item cache; broadcasts go
through topics a socket subscribes to when it joins; the HTTP router changes layouts, balances, looks and
friendships under the feet of open sockets; presence is written by the join and close handlers and
read by the friend list; a page hears of one thing over HTTP and over its socket, in either order.
`PROJECT.json` lists every hazard with its line.

## 2. Plan

Modules, in order of weight; all of these are built.

1. `RoomSessions`, implementing the abstract `Whereabouts`, with `RoomSessions_proofs`.
2. `LastRoom` with `Stores_proofs`.
3. `Furniture` with `Furniture_proofs`.
4. `RoomMovement`, and `AvatarView`, which composes it with a page; both with `RoomMovement_proofs`.
5. `PriorityQueue` and `Pathfinding`, whose result is the `FindPaths` that `RoomMovement` assumes, with `RoomMovement_proofs`.
6. `PasswordLimiter`, implementing the abstract `Semaphore`, and `Auth` on top of it, with `Accounts_proofs`.
7. `Friends`, and `FriendsPage`, which composes it with a page; both with `Pages_proofs`.
8. `DirectMessages` with `Stores_proofs`.
9. `RoomCreation` with `RoomCreation_proofs`, and `FixedWindowRateLimiter` with `Typing_proofs`.
10. `Typing` with `Typing_proofs`.
11. `ClientSession` with `Pages_proofs`.
12. `Appearance` with `Accounts_proofs`.

A module of proofs serves one or more components that do not share names. Left: the bots' timetable. Operators are not RECURSIVE anywhere: recursion is by functions.

## 3. The modules

### RoomSessions

One state per copy the server keeps of "who is where":

| Variable | Code |
|---|---|
| `conn` | the life of a WebSocket: the upgrade request, open, closed |
| `roomOf` | `ws.data.roomId` |
| `subs` | room topics the socket is subscribed to |
| `avatar[r][u]` | `Room.users`: present or not, and its `connectionId` |
| `active`, `layouts` | `RoomManager.rooms` and the layouts it can build Rooms from |
| `online`, `presenceRoom` | `PresenceTracker` |
| `pending` | joins that wait in `ensurePersonalRoom` for `seedRoom` |
| `view` | what the client of the socket shows (`RoomScene`) |

Actions are the handlers: `Upgrade` and `UpgradeFails` (the upgrade request up to and after its
last-room lookup), `HandleOpen` with the resumed join, `HandleJoin`, `SeedRoomDone` (the rest of a home
join after its await, successful or not), `HandleClose`, `AddRoom` (room creation over HTTP and homes
provisioned by room listings), `Restart`. `JoinRoom` has the three outcomes of `joinRoom` (rejected,
snapshot sent again, entered) and `EnterRoom` the whole synchronous part: leave the previous room,
remove the user from the others, detach sibling sockets, join or reattach, presence, subscription and
broadcasts. A connection slot is used again only when nothing refers to its previous use, which makes
each use a fresh `connectionId`.

Abstracted: positions, appearance, chat, item contents; bots only count towards capacity; a resume
room may be any room. A removed operator's plausible bug stands next to it, marked `(mutant)`: it is
not part of the specification, and each property is violated when one of them takes the place of its
original (`PROJECT.json`, "mutants"). The same holds in every module.

### Whereabouts

What the server promises about where users are: `inRoom[u]` and the connection on whose behalf, `driver[u]`, with the
connections that are `live`. `Enter` takes a connection's user into a room that admits the user, out of the one
before and over from the driver before; `Close` makes the user nowhere if the connection was the driver, and else
nothing; `Restart` forgets. There are no Room objects, topics, pending joins or presence. `RoomSessions` implements it with
`inRoom[u]` the room that has an avatar of the user (`IsWhereabouts`).

### LastRoom

One user's row in `user_room_sessions`. `Upgrade` reads it, `HandleOpen` resumes from it or is
rejected and clears it, `HandleJoin` saves, `HandleUnknownJoin` clears. A statement is sent
(`Decide`), applied (`Apply`), answered (`Return`, which may send the corrective save) or lost
(`Fail`), and these interleave freely because the statements use a pool of connections. The join
version is the number of the decision. The version test before the first save cannot fail, because no
await separates it from the numbering, and is left out. `wanted`, `overlapped`, `failed` and
`wroteRow` are history variables that the properties need and no action reads.

### Furniture

One owned room and its owner's stock of one item type. Each handler is a record in `ops` that carries
the Room object it started with, the row it writes and the step it waits at. Requests do what the code
does before its first await; `ReserveItem`, `SaveApplied`, `DeleteApplied` and `RefundItem` are the
statements; `SavedInRoom`, `MoveSaved`, `SaveFailed`, `Deleted`, `DeleteFailed` are the continuations.
`LastUserLeaves` and `FirstUserJoins` drop the Room object and build another from the cache while
handlers still hold the old one. Items cover one tile; whether an avatar stands on a tile is open at
each validation; a statement that fails was not applied; a reserve or refund takes effect and is
answered in one step, since nothing else reads the quantity. `overlapped` and `mishap` are history.

### RoomMovement

One Room's avatars and blocking furniture. `pos` is the stored `user.position`, `walk` the movement: its
path and the clock ticks since it started. `Tile` and `Goal` follow from them: where the avatar is, and
where it stops. `SweptPos` and `SweptWalk` are `sweepCompletedMovements`, which `join`, `moveUser`, snapshots
and placements run first; `Resolved` is `resolveUserPosition`. The actions are `Join` with the snapshot it
sends, `GetSnapshot`, `Leave`, `MoveUser` (also what a bot's tick calls), `PlaceItem`, `MoveItem`, `PickupItem` and
the clock. `shown` is the destination the clients were told last. `FindPaths` is a parameter, the set of
paths from which `findPath` returns one: the model does not depend on how ties are broken. Items cover one
tile and block; how they reach the database is the business of `Furniture`, and whose avatars may be there
that of `RoomSessions`.

### Friends

`row[p]` is the row of `friendships` whose key is the pair `p`: none, accepted, or pending with the user who
asked. `chain[p]` is the promise chain of `withAddLock`: the first add in it runs, the others wait. A request is
a record in `ops` with the statement it is about to send; `FindFriendshipStatus`, `CountFriendSlots`,
`FindFriendship`, `InsertFriendship` and `AcceptFriendship` are the statements of an add in the code's order,
`IsBlocked`, `CountBlockedUsers` and `BlockUser` those of a block, each with what follows it up to the next
await. Any of them may fail. `RemoveFriend` and `UnblockUser` are one statement each and take no lock. `asked`,
`void` and `clashed` are history. Looking a name up and the read-only lists are left out; the entry of a
lock that nobody holds stays in the code's map for good, which a lock that is free does not show.

### Semaphore, PasswordLimiter, Auth

`Semaphore` is what a limiter promises: at most `Slots` holders, nobody waits while a slot is free, and
a freed slot goes to a waiter before a newcomer. `PasswordLimiter` is `AuthPasswordLimiter`: the counter
`active` and the `queue` are the code's; `phase` says where each task is, which the code keeps in the
closures of its promises. `Grant`, `Enqueue` and `Refused` are the three outcomes of `acquire`,
`TimeOut` the timer of a waiter, `FreeSlot` and `PassSlot` the two of `release`. It is a component:
`Auth` extends it and takes its actions as parts of handler steps.

`Auth` has a handler record per request slot and one action per stretch of code between two awaits.
`Register` starts at the password step. `Login` reads the row first (`LookedUp`) and keeps the token
version it saw; an unknown name waits for the dummy hash, which is computed outside the limiter and
kept for ever, failed or not. `PasswordDone` is the end of `runPasswordTask` with what follows it up to the
next await; `Inserted`, `Verified` and `IncrementTokenVersion` are the statements, any of which may fail.
`Logout` presents a token that was issued and increments the version only when `verifyToken` accepts it.
`tokens` are the tokens handed out, `revoked` is history: those that existed when a logout of their user
took effect. Expiry, signatures, cookies and the rate limits in front are left out. A restart is left
out too: it empties the limiter and the handlers together, and rows and tokens survive it unchanged.

### AvatarView

Extends `RoomMovement` with what one page shows of one avatar. `link` holds the messages on their way, in
order: `snapshot`, `joined`, `moved` (a path, never a position) and `left`. `avatar` is `Avatar`: its tile, the
tile it walks to, the path after that and the progress. `UnreachedPath`, `SetPath`, `BeginSegment` and
`Update` are the methods of these names. `Time` advances Room and page together, or the Room alone when
the page is in the background and misses a frame. `WatchedJoins`, `WatchedLeaves`, `WatchedMoves`,
`SendSnapshot` and `OthersAct` are the Room's actions with what is published of them. Pixels and interpolation
within a segment are left out.

### PriorityQueue, Pathfinding

`PriorityQueue` is the binary heap in an array with its two comparisons, `BubbleUp` and `BubbleDown` as
recursive functions of an array and a place in it. A cost is a pair `<<a, b>>` for a + b * sqrt(2). The code has doubles: each comes with
the error its additions rounded to, one of `Roundings`, and `Rounds` says which errors a sum may have. `LessAsDoubles` compares as doubles do:
different costs are further apart than all errors (in any room a client can hold), and one cost reached by other additions may look smaller.
`Pathfinding` has one call: `Begin` (the early returns), one action per turn of the outer loop (`TakeBest`), one per
neighbour (`LookAt`), one per tile of the path rebuilt. `ahead` has the neighbours the inner loop still has to look at, by
the number of their direction: `Min(ahead)` is the next one in `getNeighbors`' order. Like the code it does not ask whether a neighbour is
closed, so a tile that looks cheaper by a rounding is rewritten and pushed again after it was closed. The properties compare with
`WalksOf`: where all walks of up to n steps lead and what they cost, by a definition of a step (`IsStep`) that names no
neighbour list and no queue. A path must also come to no tile twice, on which the Room relies.

### FriendsPage

Extends `Friends` with the page of one of the users: the panel's list, the refreshes under way and the
page's own requests, which refresh when they are answered. `Unheard` is what others do: no event tells the
page. `excused` is history: why the list may be old.

### DirectMessages

`messages` is the table for two users' messages, `linked` what the two checks would find now. A request is a record
in `ops` with the statement it waits for; `FindMessage`, `AreFriends`, `IsBlockedEitherDirection`, then
`Save`, `EditMessage`, `DeleteMessage`, `MarkConversationRead`, `ListConversation` or `ListUnreadCounts` take
effect one at a time, and `Publish` is the event after the answer. `later` is the table's order, and a history has the `PageSize`
newest messages. `inbox` carries events in the order of
publication; `OpenPanel` and `ShowUnreadCounts` are answers over HTTP, in any order with these. `view` is the panel's map
of elements (`messageElements`), which edits, deletions and receipts go by. `AppendMessage` adds an element whatever is shown and
points the map at it: the element it pointed at before stands on the panel for good, in `left`, until a history clears the panel.
`unread` is the badge. `Render` is what the panel makes of a row. `hist` remembers which of the
named races happened, so that the properties can leave them out one by one; `early` has the messages that a history brought before
their event. The table's order is taken to be the order of `createdAt`, which the process sets just before the insert.

### RoomCreation

`money`, `stock` and `owner` are the tables, `directory` the manager's layouts, `page` and `told` what the page
shows and was told. A creation is `ListOwnedRooms`, `Spend`, `SeedRoom` or `SeedFails`, `Credit` or
`CreditFails`, `AddRoom`, with the answer last; a purchase `Purchase` and `PublishPurchase`; there are the personal
room, the inventory and the upgrade that carries `dollars` to a socket. A statement takes effect, fails, or
fails for its caller after it took effect. `Restart` keeps the tables and loads the directory, or fails to.
Room ids, templates and names are left out, and item types are one.

### FixedWindowRateLimiter

`buckets` is the limiter's map. `Opens`, `Counts` and `Refuses` are the three ways through `consume`; `OneKey` is a
request with one key, `FirstKey` and `SecondKey` one with two and an await between them. `Prune` is the timer. The clock
advances and is set back. Limiters share nothing, so one is modelled.

### Typing

A writer's panel (`SetTyping`, `TypingTimeout`, `Enter`, `Clear`), the socket that carries `on`, `off` and `say` (`up`), the token
bucket per kind (what is said in a room and in a conversation has one each, typing has one for both), the handlers of a room (at once) and of a conversation (after the friendship check, which
overlaps), and the other page with its bubbles. `Drop`, `CloseSeen`, `Reconnect` and `Join` lose and replace the
socket before or after the server noticed. `place` says which of the two panels is looked at. Texts are left out, and so are edits and
deletions of messages, which take from the bucket of conversations too.

### ClientSession

One action per event or answer of the page; what runs in the same turn of the event loop is one action, with the `catch` and
`finally` of the function that awaited. The state is the code's, one entry per thing that may exist more than once:

| Variable | Code |
|---|---|
| `user`, `gameStarted`, `joinedRoom`, `game`, `reconnecting` | createApp's variables of these names |
| `pending` | requests sent and not answered, by kind; a form that stays open sends another |
| `calls` | who is inside `startGame` or `reconnectAfterDisconnect`, and at which await: the import (`"load"`), `app.init` or `connect` |
| `games` | per Game: initialized, listening, connected, and its NetClient's current socket |
| `sock` | per WebSocket: what it is doing and whose NetClient made it |
| `timers`, `dialog` | reconnect timers that will fire, and what the dialog says |
| `shown` | forms and buttons on offer |
| `out` | the sign-out; once it is `"gone"` the page has a new app, and the old one is followed without its buttons |

Nothing in the code keeps a form from being sent twice or a game from being started while it is started or starting, and nothing does here:
`SubmitCharacter`, `SubmitRoom` and `SubmitLogin` send as often as `MaxAsked` allows, `CharacterSaved` and `RoomCreated` call `StartGame` when the
code does, and `StartGame` has no guard. `GameLoaded` makes a Game per import, of which the last counts. `AppInitialized` dials and
starts listening; `Dial` replaces the NetClient's socket and leaves the one before open. `Opened`, `Fails` and `Throws` end the call that
waited: `Throws` is a Game that has no ticker, because it was stopped or never started, and fails after its socket has opened. `Closes` is
the close event of a socket that had been open. Rooms, panels and logs are left out.

### Appearance

`row`, `page`, `puts`, `conn`, `saves`, `avatar` and `seen` are the copies of a user's look, in the order in which a look
travels. `SubmitEditor` with `PutStored` and `PutAnswered` is the page's save, which then sends the look on its socket;
`UpdateReceived`, `SaveStored` and `SaveAnswered` are `updateAvatarAppearance`. `Upgrade` takes the row along, `JoinRoom` brings
it into a room or takes the avatar over. The parts of a look are one value; a value of `Retired` is one
a former version stored, which `Sanitize` replaces.

### MC modules

`MCFurniture` has a variable `crowd` that does not change: a behaviour has two handlers at once, or one at a
time and also interactions. `MCRoomCreation` has a variable `part`: a behaviour is one of `RoomCreation` or one of
`FixedWindowRateLimiter`, which share nothing, so that one instance serves both. The others give values to constants.
Several properties are conjunctions whose parts stand above them in the module, each with its own comment.

## 4. What the runs check

Every run passes, and every property has at least one plausible bug of the code that violates it.

| Run | Question |
|---|---|
| `sessions_safety` | Do all copies of membership agree, is access and capacity respected, is there one avatar and one driver per user; and do all the steps amount to those of `Whereabouts`? |
| `lastroom_safety` | Is an out-of-order save corrected, and eventually so; do decisions that do not overlap persist? |
| `furniture_safety` | With two handlers at once, failures, dropped Rooms and restarts: is no piece lost, and does no handler stack furniture? With one at a time: do table, cache and Room agree afterwards? |
| `movement_safety` | Can any order of joins, moves, reroutes, stops, furniture edits and clock ticks make an avatar jump, bury a standing one, or send two to one tile; and does a page's avatar go where the Room's goes? |
| `path_safety` | Is what `findPath` returns a walk, a shortest one, and found whenever there is one; does the search end? |
| `auth_safety` | Is no slot lost or handed to a request that is gone, is the limiter a semaphore, is a logout final, and is every request answered? |
| `friends_safety` | Does the lock per pair keep a row as an add read it, do requests that cross make friends, do the caps hold for a user whose own requests do not overlap, and does the panel agree? |
| `messages_safety` | Do those who are cut off reach no statement, is a deletion final and announced once, and do panels and badges agree with the table in the end? |
| `rooms_safety` | Is money accounted for through failures and restarts, do rooms stay, does the cap hold, does the page show the tables; and does a limiter let through what it may? |
| `typing_safety` | Do the buckets hold though the clock is set back, and is the typing indicator right once all is handled? |
| `client_safety` | Is there one timer, a true dialog, no dead scene and nothing left after sign-out, and does a lost connection come back; and how much of it stands when the game is started twice? |
| `appearance_safety` | Is a look saved before it is shown, do room, row and watcher agree, does only the driver change the avatar, does the cap on sockets hold? |

Bounds and why they suffice:

- `sessions_safety`: two users; one has two sockets (supersession needs two sockets of one user, views need
  a second user), the other one; a public room with a bot, a created room with space for one, a room where one must
  knock, and two homes, one of them not yet provisioned; one delayed join.
- `lastroom_safety`: two sockets, two rooms, three decisions: the third overtakes a corrective save; one
  resume and one rejection among them.
- `furniture_safety`: two items, two tiles, two handlers, two Room objects. `MaxStock` cuts off the furniture that
  duplication creates without end. Items, tiles, handlers and Room objects are interchangeable and
  symmetric: the initial room is empty.
- `movement_safety`: five tiles of a 3x2 floor, where a blocked tile forces a detour and forbids diagonals, two
  users, one piece of furniture, and one tile outside. Two ticks per tile let a walker be asked again
  before it has moved on. `FindPaths` is tabulated from all simple paths. One message at a time is on its way to the
  page, and the other user joins, leaves and moves only while the page does not watch: what the page shows
  depends on the watched avatar and on furniture.
- `path_safety`: a room of 5x3 tiles with a door, any set of up to six blocked: enough for walls, gaps between
  corners, detours longer than the estimate, and a target cut off. There are two errors; a straight step brings one, or takes it away, after
  an odd number of diagonal steps, so that sums depend on their order and closed tiles are rewritten.
- `auth_safety`: four requests, one slot, two places in the queue: the smallest instance in which the
  queue has an order, fills up, and has a waiter time out in front of another. One user name suffices,
  because handlers meet only in the limiter or on one row; one logout may take effect, which is
  enough for a second, overlapping one to be stale.
- `friends_safety`: three users, so that one has two others to ask; two requests or refreshes at once, enough for two
  adds of one pair, for one user's request against the acceptance of another, and for refreshes that overlap; caps of
  one; one user who blocks, and whose page is looked at; one user whose own requests overlap (`MaxClashed`), which leaves
  the caps of the two others to be kept. The other users and the slots are interchangeable.
- `messages_safety`: a message of each user, two requests in flight, five in a behaviour (a message is sent,
  edited, deleted, read and listed), and a history of one message, so that the older of two is off the page.
- `rooms_safety`: one user, since users share no state here; money for two rooms, a cap of one, two requests in flight and
  five in a behaviour. For the limiter, a limit of two in a window of three ticks with two ticks to a second,
  which rounds, one address and one name; the clock advances seven ticks in all, over more than two windows.
- `typing_safety`: buckets of one message and of two changes, a clock that advances twice and may be set back between; two messages in each
  direction and two handlers overtake each other.
- `client_safety`: two Games, two sockets, two starts or attempts under way and two requests at once: a second start finds a Game
  loading, loaded, started, being reconnected or stopped, and replaces its socket or makes a second Game with its own. `Followed` cuts off what
  follows a state of which the properties say no more than its types: after `late`, and after `again` with `mixed` or a sign-out; after `lost` no
  request may be under way. What is cut off counts as neither a step nor a stop when liveness is checked.
- `appearance_safety`: two looks and one that is no longer accepted, three connections where the cap is two, which overlapping upgrades exceed, two rooms,
  two requests and two socket updates at once, two edits in a behaviour.

Fairness. `lastroom_safety` assumes weak fairness of the answer to each statement, `auth_safety` of each
statement and each hash. The code awaits every statement, and the database driver answers it or
reports an error when the connection is lost; a hash ends or throws. Nothing is assumed of clients,
and nothing of the limiter's timers: waiters are answered because slots are handed on in order.
`path_safety` assumes that the loop goes on. `client_safety` assumes that each promise a start or attempt awaits settles and timers fire, as
the browser sees to, that each socket that is being opened opens or fails, and, as strong fairness, that a server which is tried again and again
accepts in the end: without this no client recovers. No user is assumed to click, and no request to be answered.

`CHECK_DEADLOCK` is off where a system may really stop: a page that has signed out, a call that has returned, and the
instances whose requests, edits or connections are bounded in number.

## 5. What the code does differently from its documentation, and known weaknesses

The properties hold for the code as it is. Where a property has an exception, the exception is one of the histories
below, and the models contain these. An exception is a case in which the property says nothing: that the caps on friends, blocks and rooms give way
when a user's own requests overlap is read off the code and allowed in the models, and no property bounds by how much.

Against the documentation:

- A home join whose socket closes while `seedRoom` is awaited still adds the avatar and marks the user online
  (`handleMessage.ts:451`), although a close "removes the user from the joined room"
  (docs/realtime-room-loop.md:113): `GhostOnlyAtHome` says that this is the only way to a ghost.
- A superseded socket keeps its `roomId`; when it joins that room again it gets a snapshot and no avatar
  (`handleMessage.ts:498`), although the join "adds the user at the room spawn position"
  (docs/realtime-room-loop.md:41).
- The corrective save of the last room may itself land last, and a resumed join is not numbered
  (`handleMessage.ts:988`, `serverRuntime.ts:230`), although a test says that the newest room is kept "when saves
  finish out of order" (`handleMessage.test.ts:1837`).
- A furniture move that is saved late inserts again the row that a pickup deleted (`handleMessage.ts:807`), although
  "picking an item up refunds it" (docs/persistence.md:53): the piece exists twice.
- A walker that asks for the tile it is passing stops in the Room, and nobody is told: "nothing to move"
  (`handleMessage.ts:133`, `Room.ts:136`); clients walk on.
- A connection that takes an avatar over brings the look its token was verified with, and nobody is told, although the
  avatar is said to be re-pointed "instead of overwriting it" (`handleMessage.ts:549`, `Room.ts:74`).

Races the code leaves open:

- Sessions: the cap on sockets is compared before the last-room lookup, and a socket counts once it is open, so upgrades
  that overlap all pass (`serverRuntime.ts:345`), and `SocketsBelowCap` bounds the excess by their number. A superseded socket
  that joins another room keeps the topic of the
  old one (`handleMessage.ts:520`).
- Furniture: two moves to one tile may both be validated before either is applied (`handleMessage.ts:799`); a crash between
  delete and refund loses the piece (`handleMessage.ts:850`).
- Movement: blocking furniture may be placed where a walker will stop, and since `findPath` refuses a blocked start tile
  that avatar cannot leave until the piece is moved (`Room.ts:344`). A page ignores a path that ends on the tile
  the avatar has just left while it walks (`Avatar.ts:291`).
- Friends: the caps give way when one user's requests overlap (`friends.ts:104`, `blocks.ts:61`); an add whose row is
  removed before its update is answered "accepted" though no row is left (`friends.ts:217`). Blocking leaves the
  friendship, no event tells a page what others did, and a refresh that is answered late shows an older list.
- Direct messages: a message that a history shows before its event arrives stands on the panel twice, since `append` always adds an element
  (`DirectMessagePanel.ts:105`), and edits, deletions and receipts reach the second only: a deleted message's text stays in the first. An
  event that arrives between the reading of a history and its display is overwritten; events of
  overlapping edits, deletions and receipts may be published in another order than their effects; a receipt clears the
  badge whatever it counts by then, and a deletion decrements it though the message had been read.
- Typing: an "off" that the limiter refuses, that is lost with the socket or overtaken at the friendship check leaves the
  indicator until the next accepted change.
- Appearance: updates of several sockets are saved in one order and applied in another; a look that was saved by PUT but
  whose socket update is refused or lost is seen at the next join only.
- Economy: money is lost when the process stops between payment and seed, when the refund fails, or when a payment
  took effect but its answer did not come; a seed that took effect but failed is refunded, and the room appears
  after a restart. Creations that overlap pass the cap together. A server that starts without its database has none of the
  created rooms until the next start.
- Limits: a login or an upgrade that is refused for its user has used up its address's count all the same. Windows live in
  the process and are empty after a restart.
- Client: a game may be started while it is started or starting (`createApp.ts:409`): the form stays open while a save is in flight, and a save
  before a room is joined starts again, as a test expects (`createApp.test.ts:66`). Starts that overlap make a Game each, of which
  one is current and both listen; one after the other, they dial a second socket of the same Game. Either way two sockets live on, and the close
  of the one that is not current counts as a lost connection. A second start that fails says the game is not started though another Game
  runs, and when that one loses its connection nobody retries. An attempt on a Game that was never initialized fails at its ticker, after its
  socket has opened, and the next one opens another.
- Client: signing out during a start or an attempt to reconnect leaves an app behind that goes on retrying; a login that is
  sent while the session is still being restored may lose its user to the restore's failure, and then a dropped
  connection is not retried.
- Engine: the search compares costs that were rounded and does not ask whether a neighbour is closed (`pathfinding.ts:50`). A tile may be
  rewritten after it was closed, with a parent through which it costs the same; it keeps its true cost, and the path stays a shortest one.

## 6. What is proved

All proofs are for arbitrary constants that satisfy the named assumptions of the modules
(`SessionAssumption`, `LastRoomAssumption`, `FurnitureAssumption` and `OpAssumption`, `MovementAssumption`, `ViewAssumption`,
`PathfindingAssumption`, `LimiterAssumption`, `AuthAssumption`, `WindowAssumption`, `RoomCreationAssumption`, `TypingAssumption`, `FriendsAssumption`,
`FriendsPageAssumption`, `ClientSessionAssumption`, `DirectMessagesAssumption`, `AppearanceAssumption`): finite users, each
home private to its owner, a positive number of slots, and nothing about the number of sockets, rooms, statements or
requests, but that they are finite where they are counted. Null values (`NoOp`, `NoAvatar`, `None` and so on) are no values
of the kind they stand in for. `RoomMovement` may have any floor, speed and number of avatars; of `findPath` it assumes
that a path starts and ends where it should, on free tiles, and `AvatarView` that it visits no tile twice: that much
`SearchFindsShortest` proves of `findPath` (`IsPath`), for any finite set of walkable tiles (`PathfindingAssumption`). `MaxStock`, `MaxRequests` and
the other bounds on behaviours are any natural numbers.

`RoomSessions_proofs`. The properties are not inductive one by one: that a user is in one room needs to
know that the room a socket believes to be in is the one it drives in (`DriverIsJoined`), which needs
presence-independent facts about sockets still being upgraded. `IInv` is the conjunction of
`TypeOK`, `OneRoomPerUser`, `DriverIsJoined`, `PresenceMatchesAvatar`, `AccessRespected`,
`GhostOnlyAtHome`, `JoinedIsSubscribed` and the strengthening `UpgradingIsFresh` (a socket that is being
upgraded has no room and no join in flight, so what arrives later on a slot is about its current use).
Lemma `AvatarAfterEnter` carries the argument: leave, remove and join together leave the user in the
joined room and in no other. Each conjunct has its lemma for `EnterRoom`; `JoinRoomInv` adds the two
other outcomes, `RequestJoinInv` the delayed home join, and one lemma per action follows. Three
properties need more than the invariant. `ViewIsTruthful` adds `ViewMatchesRoom` to it, the statement about
open sockets subscribed to their own room alone: every change of a room's members is broadcast to them.
`CapacityIsRespected` counts `Members` before and after a join. `AvatarVanishesWithDriver` is about steps:
`JoinRoomStep` and `EveryStep` state what each does to an avatar whose driver stays open.
`SessionsImplementWhereabouts` maps each of these steps to one of `Whereabouts` or to none: the invariant gives the room a user
is in (`OneRoomPerUser`) and the driver there, `AccessIsRespected` and `CapacityIsRespected` what `Enter` demands.
Theorems: `SessionsInvariant`, `TypeCorrect`, `UserInOneRoom`, `PresenceIsTruthful`, `GhostsStayHome`,
`AccessIsRespected`, `JoinedHears`, `OneSocketDrives`, `ViewIsTruthful`, `CapacityIsRespected`,
`AvatarVanishesWithDriver`, `SessionsImplementWhereabouts`.

`Stores_proofs`. `CorrectionComes`: while the first save of an older join leaves the row stale, some
statement is still to be applied, or the answer that will trigger the correction is out. It needs
`NewestSavesTarget` (a statement with the current version saves the target). From it
`StaleSavesAreCorrected`. `OneAtATime` is a second invariant, for `SequentialDecisionsArePersisted`: as
long as decisions do not overlap at most one statement is out and it is the newest decision's.

For `DirectMessages`, `MessagesInvariant` says what is true of a request in flight and of two. A request that was sent while a
check held the user off cannot get past it: what holds all the time it is on its way it has met (`Allowed`), and it is at
a statement only with both met. What a client, an event or a request knows of has been sent (`OnlySent`, `About`), but for the
one request that is to send it (`Apart`): so no deletion is of a message to come. The request that is about to announce a
deletion or a reading wrote the mark, which is not announced yet and of which no other request is the announcer
(`Unannounced`, `Apart`): so it is announced once. The badge is any natural number here, for nothing in this invariant
bounds it.

`PanelInvariant` says what a panel will show in the end. `Dues(u, m)` are the kinds of events of message m that user u will still
get: those that wait in the inbox, and those of requests that wrote and have not published. The element of a message that the panel's map points at follows its row
but for what is due (`Follows`, `Tracks`): it shows nothing the row has not, and what the row has it shows or will be told
of. That is inductive only with the order of a message's events, as long as none of them crossed: nothing is told of a message before
that it was sent (`SendsFirst`), what happened to it since the sending is told after it (`RestFollows`), and the text of the
last request that writes, then of the last event that waits, is the row's (`TextOfWriter`, `TextOfLast`). The answer of a history that
no event raced is held to the same (`AnswersTrack`): it may replace the panel at any time. When nothing is due, following is
being equal; what was left out of a history is older than its page, and stays so, for what is saved later only pushes it further back. `OneEach`
adds that an element is left behind only where a history was early: a message is announced once, so the panel has it at most
twice. Together that is `PanelConverges`.

`BadgeInvariant` does the same for the badge of a user who never opened the panel (`NeverOpened`: so nothing of theirs is read). The
badge is the number of messages the user was told of and not told deleted since (`InBadge`, `BadgeIsCount`), an answer with counts that
nothing crossed has the same number (`CountsTrack`), and each message adds one and takes one off once (`Once`). The proofs
go by what a step does, not by action: it changes nothing a panel depends on (`QuietStep`), writes rows (`Wrote`), publishes
(`Announced`), or has a client take an event or an answer (`Takes`). There are two users, as in the module; messages, texts and
requests are any. Theorems: `MessagesAreKept`, `DeletionIsFinal`, `PanelsFollowTable`, `PanelsConverge`, `BadgesCount`.

`Furniture_proofs`. `NoHandlerStacks` follows from the validation in the step that writes. `NothingIsLost`
counts pieces, and `NeverLost` is not inductive: a placement's row may be written by its own save or
already by an interaction with the placed item, and the piece must be counted once. The invariant `FInv`
adds `ReservedIsFresh` (the item of a placement that waits for its reserve is nowhere yet), `OnePlacer` (at
most one placement per item) and `Kept`, which counts a row with a placement still to be saved under
the handler only (`Settled`, `Holding`).

`EditsAgree` is about handlers that do not overlap. Its invariant `Sequential` says how far the three copies are apart at
each step of the one handler there is: of the item it is about, which row the table, the cache and the Room have, with the
number of pieces in its hands (`HalfDone`, one line per kind and step); of the others, that they agree. A Room that is
dropped meanwhile cannot be, since its last user would overlap; a statement that fails is rolled back to `AllAgree`.

`RoomMovement_proofs`. The properties are about `Tile` and `Goal`, which no variable holds. The invariant
`MInv` is `TypeOK` and `StoredBehind` with `OnlyPresentWalk` and `ItemsBounded`; `ResolvingMovesNobody` says that
bringing the stored positions of any set of users up to date changes nobody's tile and nobody's goal,
`MoveOutcomes` and `MoverStays` what a move does to the mover and to the others, `EveryStepSettles` that
nothing else gives an avatar a new tile or goal but the clock. Theorems: `MovementTypeCorrect`,
`StoredStaysBehind`, `OnlyTheClockMoves`, `DestinationsAreReserved`, `StandingAvatarsStayFree`.

For the page, `ViewMoves` says that `AvatarView` keeps to `RoomMovement`, so that `MInv` holds there, and `PagesFollow` rests on
`WInv`. `Appears` and `Heads` say it of the last message on its way, or of the avatar when there is none: whether the
page will have an avatar and where it will stop. That is enough to know where it is headed. That it is not ahead of the
Room needs `Trails`: an avatar which was at rest when the walk began stands on a tile the Room has passed, is at rest or on
its way to the `j`-th tile of the walk with a clock that is no further than the Room's (`Leg`), and any path on its way is the
rest of the walk from a tile the Room has reached. `UnreachedPath` looks for the avatar's tile in the path it is sent;
that it finds the right one is where `NoLoops` comes in.

For `findPath`, `SearchInv` is what makes A* right. An entry of the heap scores its tile's cost and estimate (`F`) or is
overtaken and scores worse, and each tile seen but not closed has its entry (`SeenIsOpen`). The tile taken last divides the
scores: none closed scores more, none open less (`Frontier`). Closed tiles have offered their cost to their neighbours
(`Relaxed`), and a tile's cost is its parent's and the step between them, the parent closed (`Parents`), so that parents
have lower costs and the path rebuilt comes to no tile twice (`Rebuilt`). The octile distance never falls by more than a step
costs (`Consistent`): hence no score falls below the frontier, a tile improved after it was closed costs the same through its new parent, which
is closed (`ImprovedIs`), and any
walk to the target is no cheaper than the frontier (`WalksAreBounded`), which is `NoCheaper` once the target is taken.

Under this lie three parts. Costs: `Less` orders a + b * sqrt(2) as real numbers, a total order that sums keep, because no
square is twice another (`NoSquareIsTwice`). The heap: `BubbleUp` and `BubbleDown` restore an order that is broken at one place, and
`Push` and `Rest` add and remove one entry of the set of entries. Both recurse, and so do the walks of n steps: tlapm cannot
instantiate the library's induction theorems, so the recursive functions are shown to exist and each fact about them to hold
by the least n at which it would fail (`LeastExists`). Theorems: `SearchFindsShortest`, `SearchClosesForGood`.

`Accounts_proofs`. `LInv`, the limiter's invariant, is `SlotsAccounted` with the type and the finiteness of the
running tasks. One lemma per action says what it does to the sets of running and waiting tasks; the
invariant and the refinement of `Semaphore` both rest on these, and `StepsOfLimiter` carries them to
`Auth`. `AInv` adds that a handler is in the limiter exactly at its password step, and that versions
read by handlers and given to tokens are never ahead of the row (`HandlersOK`, `TokensOK`), from which
`LogoutIsFinal`. Theorems: `AuthTypeCorrect`, `SlotsNeverLost`, `LimiterIsSemaphore`,
`LimiterHoldsNoDead`, `LogoutIsFinal`, `SlotsServe`.

For `Appearance`, `LooksInvariant` says it while something is under way: the room's look is the row's, or a request whose
statement is done, an update on a socket or one being saved is still to come (`Follows`); a connection that has
read the row since it was last written has its look; the save that wrote last has the row's (`Stored`); the driver of the
avatar is open and in its room (`DriverIsThere`), so that it cannot join the room again and change the look by that; and the
sockets that are open or being upgraded exceed the cap by no more than the upgrades that another one overlapped (`Crowd`).
`OutsideTheRoom` and `StatementIsDone` carry most steps. Theorems: `LooksAlwaysAgree`, `SocketsStayBelowCap`,
`OnlyTheDriverDrives`.

`Typing_proofs`. `WindowsHold` of `FixedWindowRateLimiter` compares counts over all windows with the clock's advance, and is not
inductive. `WindowInv` adds, per key (`Spent`), that what was let in before the present window is at most `Limit` for each
window, that the clock has advanced by a whole window for each one that is over and, in the present one, by what it has run
since the window was opened, and that a window still kept does not end later than a refused client was told. `Product` and
`ProductBefore` carry the multiplication by a variable; `OpensKeeps`, `CountsKeeps` and `RefusesKeeps` are the ways through `consume`.
Theorems: `WindowTypeCorrect`, `WindowsAreLimits`, `RetryAfterIsEnough`, `LimiterKeepsItsWord`.

`RoomCreation_proofs`. Neither half is inductive. `MoneyAccounted` counts a room that is paid for with its request until
the room has a row, so `RInv` adds that a creation has its room to itself, that the room has no row until the creation
writes it (`Creations`), and that personal rooms belong to nobody else (`Homes`); rooms, slots and users are finite, and a
step changes one element of the sets that are counted (`OneElement`). `KInv` is about rooms: a user with two requests in
flight is noted for good (`Sequential`), so the number of rooms `listOwnedRooms` answered is the number there is when the
row is written (`UnderCap`); and the step a creation is at says whether its room has a row and is listed (`Progress`).
`NoRowStep` carries all steps but the two that write a row. `PInv` is about the page: for a user whose requests never overlapped,
what the page will show once the events on their way have come is what the tables have, or differs by what the one request
under way has done and not yet told, stage by stage (`CreateShown`, `PurchaseShown`, `InventoryShown`, `ConnectShown`). Events carry
totals, so the last of a kind decides (`InboxMoney`, `LastBought`). Theorems: `MoneyIsKept`, `RoomsAreAccounted`,
`PagesShowTables`.

For `Typing`, `RateHolds` says nothing of what a bucket still holds. `Budget` does: what it let through, its tokens and
what it will gain at its next use (`Gain`) are together at most the burst and the refill over the clock's advance. A clock
set back lowers `Gain`, one that advances raises it by a refill at most, and `UseOfBucket` turns it into tokens. `VInv` is about
the indicator: a panel's changes alternate, and while none is dropped it follows each from the socket's queue (`Sent`)
through the handler (`Prior`, what the server takes for the state once the handler is done) to the link and the page
(`Heard`). The server passes on only what differs from the last state it has, so the invariant must say that an "off" is next
whenever that state is "on" and the panel's is not (`OffNext`). Theorems: `RateIsKept`, with the queues' types and the panel's
timer, and `IndicatorIsTrue`.

`Pages_proofs`. That an add writes the row it has read (`RowsInv`) rests on the chain of its pair: the first request in it is
past its lock and the others are at it (`LocksHandOver`), so no second add is at a statement; only removals come between, and
those leave a mark on the add (`VoidWhenRemoved`). A user who asked and was answered stands in the row (`AskedStands`), which
makes crossing requests friends. `CapsInv`: a user whose requests do not overlap has one request of a kind
(`OneAtATime`), and where it is past its count there is a place left for what it is going to write (`SlotsLeft`), since others can only
take places of their own. `ServicesInPage` carries both to `FriendsPage`; there `CleanIsAlone` says that a refresh which nothing has
disturbed is the only one under way and has what the table has. Theorems: `ServicesInvariant`, `PairsAreKept`, `CapsAreKept`,
`PanelIsTrue`.

For `ClientSession`, `SessionInvariant` says what holds of any number of Games, sockets and starts, and what is left of it when a game is started again.
A call that waits for a socket has one to itself, which is being dialled or was hung up, and there is one attempt, exactly while
`reconnecting` says so (`CallsWait`). A socket belongs to the Game that dialled it, and a Game listens exactly while it is initialized (`GamesRun`).
Until a game is started again there is at most one start or attempt, one Game and one
socket, and they belong together (`StartsOnce`, `OneOfEach`); a game has its user unless a login overlapped the restore (`HasUser`); after
signing out nothing is left (`NothingRemains`). `DialogIsTrue` and `NoDeadScene` are conjuncts: the others say which event keeps them. The proof goes by
what events have in common: dialling (`DialShape`), stopping a Game (`StopShape`), the end of a call that failed (`FailedStart`,
`FailedAttempt`) or did not (`StartEnds`, `AttemptEnds`). Theorems: `SessionInvariantHolds`, `DialogTells`, `NoGameIsDead`, `NothingIsLeft`.

Each property of a run that is a conjunction and proved has a theorem of its own beside those of its parts: `WhereaboutsAgree`,
`DriversStayTrue`, `RoomsAreHeard`, `RoomsAdmitRightly`, `DecisionsArePersisted`, `PiecesAreKept`, `WalksAreKept`,
`TilesAreRespected`, `SlotsServe`, `LimiterKeepsItsWord`.

Only model-checked: the liveness properties `StaleRowIsRepaired`, `EveryRequestAnswered`, `Recovers` and `Terminates`, which are
out of the prover's reach. Every other property of a run has its theorem.

## 7. Not modelled

Rendering (sprites, camera, animation frames, DOM layout) has no state another part depends on. Protocol schemas are
validation: the models range over messages that passed it. Tokens' signatures and expiry, cookies, CORS and the
decoding of requests stand in front of the handlers that are modelled. The bots' timetable and talk: their walks are
those of users. Migrations, configuration, metrics, logging and the load-test scripts are outside the running protocol.
