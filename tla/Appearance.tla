------------------------------- MODULE Appearance -------------------------------
(***************************************************************************)
(* One user's look: the stored row, the page that edits it, the user's     *)
(* connections that carry it into a room, the room's avatar, and a member  *)
(* of the room who watches it.                                             *)
(*                                                                         *)
(* The page saves a look with PUT /me/appearance and then, if it has been  *)
(* in a room, sends it on its socket, where the server saves it once more  *)
(* before it changes the avatar.  A socket that connects takes the row as  *)
(* it was when its token was verified, and brings that look along to every *)
(* room it joins.  Other clients of the user connect and send looks too.   *)
(*                                                                         *)
(* A statement takes effect at one moment and its answer comes later, or   *)
(* fails to come.  What the server publishes reaches the watcher in order, *)
(* and is heard at once: nothing depends on when.                          *)
(***************************************************************************)
EXTENDS Naturals, Sequences, FiniteSets

CONSTANTS
  Looks,        \* the looks the schema accepts
  Retired,      \* looks a row may hold from former versions
  DefaultLook,
  Conns,        \* bound: the user's connections, over time
  Rooms, Here,  \* the rooms; the one the watcher is in
  Puts, Saves,  \* bound: requests and socket updates being handled at once
  MaxEdits,     \* bound: looks submitted or sent, over time
  MaxSockets,   \* config.maxWebSocketConnectionsPerUser
  None

\* The user in Room.users, as far as his look goes.
AvatarStates == [room : Rooms, driver : Conns, look : Looks]

ASSUME AppearanceAssumption ==
  /\ DefaultLook \in Looks /\ Looks \cap Retired = {} /\ Here \in Rooms
  /\ None \notin Looks \cup Retired \cup Conns \cup Rooms \cup Puts \cup Saves \cup AvatarStates
  /\ Puts \cap Saves = {} /\ IsFiniteSet(Conns) /\ MaxSockets \in Nat

VARIABLES
  row,      \* users.appearance
  page,     \* [look (user.appearance), editor, started, joined, link]
  puts,     \* PUT /me/appearance: [look, step]
  conn,     \* ws.data: [state, look, room, fresh]; fresh is history: see below
  wire,     \* the updates on their way to the server, per connection
  saves,    \* updateAvatarAppearance awaiting the save: [conn, look, step]
  avatar,   \* the user in Room.users (driver is his connectionId), or None
  seen,     \* what the watcher shows: a look, or None
  edits,
  hist      \* history: [writer, stored, astray, silent, crowded]

appearanceVars == <<row, page, puts, conn, wire, saves, avatar, seen, edits, hist>>

Open == {c \in Conns : conn[c].state = "open"}
Upgrading == {c \in Conns : conn[c].state = "upgrading"}
Free(table) == {i \in DOMAIN table : table[i].step = "free"}
Idle == [step |-> "free", conn |-> None, look |-> None]

\* sanitizeAppearance, wherever a row is read.
Unchecked(look) == look                                             \* (mutant)
Sanitize(look) == IF look \in Retired THEN DefaultLook ELSE look

\* A statement writes the row: what connections have read of it is not new.
Write(look, writer) ==
  /\ row' = look
  /\ conn' = [c \in Conns |-> [conn[c] EXCEPT !.fresh = FALSE]]
  /\ hist' = [hist EXCEPT !.writer = writer, !.stored = @ \cup {look}]

---------------------------------------------------------------------------
(* The page.                                                               *)

OpenEditor ==
  /\ ~page.editor /\ page.joined
  /\ page' = [page EXCEPT !.editor = TRUE]
  /\ UNCHANGED <<row, puts, conn, wire, saves, avatar, seen, edits, hist>>

\* After a question if there are unsaved changes.
CancelEditor ==
  /\ page.editor /\ page.joined
  /\ page' = [page EXCEPT !.editor = FALSE]
  /\ UNCHANGED <<row, puts, conn, wire, saves, avatar, seen, edits, hist>>

\* With the look the form's controls are set to; the button stays enabled
\* while a request is under way.
SubmitEditor(p, look) ==
  /\ page.editor /\ edits < MaxEdits /\ p \in Free(puts)
  /\ edits' = edits + 1
  /\ puts' = [puts EXCEPT ![p] = [step |-> "asked", conn |-> None, look |-> look]]
  /\ UNCHANGED <<row, page, conn, wire, saves, avatar, seen, hist>>

PutStored(p) ==
  /\ puts[p].step = "asked"
  /\ Write(puts[p].look, p)
  /\ puts' = [puts EXCEPT ![p].step = "stored"]
  /\ UNCHANGED <<page, wire, saves, avatar, seen, edits>>

\* game.updateAppearance, once the page has been in a room: sendIfConnected.
\* Else the game is started.
PutAnswered(p) ==
  /\ puts[p].step = "stored"
  /\ puts' = [puts EXCEPT ![p] = Idle]
  /\ page' = [page EXCEPT !.look = puts[p].look, !.editor = FALSE, !.started = TRUE]
  /\ IF page.joined /\ page.link # None
     THEN /\ wire' = [wire EXCEPT ![page.link] = Append(@, puts[p].look)]
          /\ UNCHANGED hist
     ELSE hist' = [hist EXCEPT !.astray = TRUE] /\ UNCHANGED wire
  /\ UNCHANGED <<row, conn, saves, avatar, seen, edits>>

\* Refused, or the answer is lost.  The editor stays.
PutFails(p) ==
  /\ puts[p].step # "free"
  /\ puts' = [puts EXCEPT ![p] = Idle]
  /\ hist' = [hist EXCEPT !.astray = @ \/ puts[p].step = "stored"]
  /\ UNCHANGED <<row, page, conn, wire, saves, avatar, seen, edits>>

\* The snapshot of a room the server has put the socket in.
SnapshotArrives ==
  /\ page.link \in Open /\ conn[page.link].room # None /\ ~page.joined
  /\ page' = [page EXCEPT !.joined = TRUE]
  /\ UNCHANGED <<row, puts, conn, wire, saves, avatar, seen, edits, hist>>

\* The page's socket is gone for the page; the server hears of it later.
PageLoses ==
  /\ page.link # None
  /\ page' = [page EXCEPT !.link = None]
  /\ UNCHANGED <<row, puts, conn, wire, saves, avatar, seen, edits, hist>>

---------------------------------------------------------------------------
(* Connections.                                                            *)

\* handleWebSocketUpgrade: the token is verified against the row, the user's
\* sockets are counted, and the last room is read.
NoCap == TRUE                                                       \* (mutant)
BelowCap == Cardinality(Open) < MaxSockets

Upgrade(c) ==
  /\ conn[c].state = "free" /\ BelowCap
  /\ conn' = [conn EXCEPT ![c] = [@ EXCEPT !.state = "upgrading", !.look = Sanitize(row),
                                           !.fresh = TRUE]]
  /\ \/ page.started /\ page.link = None /\ page' = [page EXCEPT !.link = c]
     \/ UNCHANGED page
  /\ hist' = [hist EXCEPT !.crowded = IF @ < Cardinality(Upgrading) THEN Cardinality(Upgrading) ELSE @]
  /\ UNCHANGED <<row, puts, wire, saves, avatar, seen, edits>>

Opens(c) ==
  /\ conn[c].state = "upgrading"
  /\ conn' = [conn EXCEPT ![c].state = "open"]
  /\ UNCHANGED <<row, page, puts, wire, saves, avatar, seen, edits, hist>>

\* RoomScene.handleServerMessage: an avatar that is not there cannot change.
KeepsGone(room, look) ==
  seen' = IF room = Here /\ look # None THEN look ELSE seen         \* (mutant)
Watches(room, look) == seen' = IF room = Here THEN look ELSE seen
WatchesUpdate(room, look) == seen' = IF room = Here /\ seen # None THEN look ELSE seen

\* Room.reattach: the avatar takes the newer connection's look; nobody is told.
KeepsLook(c) == avatar.look                                         \* (mutant)
ReattachedLook(c) == conn[c].look

\* joinRoom.  Of the user's connections that were in the room he is taken out
\* of, none believes any longer that it is in it.
JoinRoom(c, r) ==
  /\ c \in Open /\ conn[c].room # r
  /\ IF avatar # None /\ avatar.room = r
     THEN /\ avatar' = [avatar EXCEPT !.driver = c, !.look = ReattachedLook(c)]
          /\ conn' = [conn EXCEPT ![c].room = r]
          /\ UNCHANGED seen
          /\ hist' = [hist EXCEPT !.astray = ~conn[c].fresh,
                                  !.silent = @ \/ avatar.look # ReattachedLook(c)]
     ELSE /\ avatar' = [room |-> r, driver |-> c, look |-> conn[c].look]
          /\ conn' = [d \in Conns |->
               IF d = c THEN [conn[d] EXCEPT !.room = r]
               ELSE IF avatar # None /\ conn[d].room = avatar.room
               THEN [conn[d] EXCEPT !.room = None] ELSE conn[d]]
          /\ IF avatar # None /\ avatar.room = Here
             THEN Watches(Here, None) ELSE Watches(r, conn[c].look)
          /\ hist' = [hist EXCEPT !.astray = ~conn[c].fresh, !.silent = FALSE]
  /\ UNCHANGED <<row, page, puts, wire, saves, edits>>

\* handleClose.
Closes(c) ==
  /\ conn[c].state # "free" /\ conn[c].state # "closed"
  /\ conn' = [conn EXCEPT ![c] = [state |-> "closed", look |-> None, room |-> None, fresh |-> FALSE]]
  /\ wire' = [wire EXCEPT ![c] = <<>>]
  /\ page' = [page EXCEPT !.link = IF @ = c THEN None ELSE @]
  /\ IF avatar # None /\ avatar.driver = c /\ avatar.room = conn[c].room
     THEN /\ avatar' = None /\ Watches(avatar.room, None)
          /\ hist' = [hist EXCEPT !.silent = FALSE]
     ELSE /\ hist' = [hist EXCEPT !.astray = @ \/ wire[c] # <<>>]
          /\ UNCHANGED <<avatar, seen>>
  /\ UNCHANGED <<row, puts, saves, edits>>

---------------------------------------------------------------------------
(* The socket's update.                                                    *)

\* A client that sends a look without having saved it.
SendLook(c, look) ==
  /\ c \in Open /\ edits < MaxEdits
  /\ edits' = edits + 1
  /\ wire' = [wire EXCEPT ![c] = Append(@, look)]
  /\ UNCHANGED <<row, page, puts, conn, saves, avatar, seen, hist>>

\* getJoinedRoom: the socket drives the avatar of the room it is in.
AnySocket(c) == avatar # None                                       \* (mutant)
Drives(c) == avatar # None /\ avatar.room = conn[c].room /\ avatar.driver = c

\* Too many in a row, or not in a room: refused.
UpdateRefused(c) ==
  /\ wire[c] # <<>> /\ c \in Open
  /\ wire' = [wire EXCEPT ![c] = Tail(@)]
  /\ hist' = [hist EXCEPT !.astray = TRUE]
  /\ UNCHANGED <<row, page, puts, conn, saves, avatar, seen, edits>>

Show(look) ==
  /\ avatar' = [avatar EXCEPT !.look = look]
  /\ WatchesUpdate(avatar.room, look)

ShowsAtOnce(look) == Show(look)                                     \* (mutant)
Waits(look) == UNCHANGED <<avatar, seen>>

UpdateReceived(c, s) ==
  /\ wire[c] # <<>> /\ c \in Open /\ Drives(c) /\ s \in Free(saves)
  /\ wire' = [wire EXCEPT ![c] = Tail(@)]
  /\ saves' = [saves EXCEPT ![s] = [step |-> "asked", conn |-> c, look |-> Head(wire[c])]]
  /\ Waits(Head(wire[c]))
  /\ UNCHANGED <<row, page, puts, conn, edits, hist>>

SaveStored(s) ==
  /\ saves[s].step = "asked"
  /\ Write(saves[s].look, s)
  /\ saves' = [saves EXCEPT ![s].step = "stored"]
  /\ UNCHANGED <<page, puts, wire, avatar, seen, edits>>

NotMirrored(c, look) == conn[c].look                                \* (mutant)
MirroredLook(c, look) == look

\* The socket must still drive the avatar.
SaveAnswered(s) ==
  LET c == saves[s].conn
      look == saves[s].look IN
  /\ saves[s].step = "stored"
  /\ saves' = [saves EXCEPT ![s] = Idle]
  /\ IF Drives(c)
     THEN /\ Show(look)
          /\ conn' = [conn EXCEPT ![c] = [@ EXCEPT !.look = MirroredLook(c, look),
                                                   !.fresh = hist.writer = s]]
          /\ hist' = [hist EXCEPT !.astray = hist.writer # s, !.silent = FALSE]
     ELSE hist' = [hist EXCEPT !.astray = TRUE] /\ UNCHANGED <<conn, avatar, seen>>
  /\ UNCHANGED <<row, page, puts, wire, edits>>

\* The statement fails, or its answer is lost.
SaveFails(s) ==
  /\ saves[s].step # "free"
  /\ saves' = [saves EXCEPT ![s] = Idle]
  /\ hist' = [hist EXCEPT !.astray = TRUE]
  /\ UNCHANGED <<row, page, puts, conn, wire, avatar, seen, edits>>

---------------------------------------------------------------------------

AppearanceInit ==
  /\ row \in {DefaultLook} \cup Retired
  /\ page = [look |-> Sanitize(row), editor |-> TRUE, started |-> FALSE, joined |-> FALSE,
             link |-> None]
  /\ puts = [p \in Puts |-> Idle] /\ saves = [s \in Saves |-> Idle]
  /\ conn = [c \in Conns |-> [state |-> "free", look |-> None, room |-> None, fresh |-> FALSE]]
  /\ wire = [c \in Conns |-> <<>>]
  /\ avatar = None /\ seen = None /\ edits = 0
  /\ hist = [writer |-> None, stored |-> {Sanitize(row)}, astray |-> FALSE, silent |-> FALSE,
             crowded |-> 0]

PageStep ==
  \/ OpenEditor \/ CancelEditor \/ SnapshotArrives \/ PageLoses
  \/ \E p \in Puts : \/ PutStored(p) \/ PutAnswered(p) \/ PutFails(p)
                    \/ \E look \in Looks : SubmitEditor(p, look)

ConnStep(c) ==
  \/ Upgrade(c) \/ Opens(c) \/ Closes(c) \/ UpdateRefused(c)
  \/ \E r \in Rooms : JoinRoom(c, r)
  \/ \E look \in Looks : SendLook(c, look)
  \/ \E s \in Saves : UpdateReceived(c, s)

AppearanceNext ==
  \/ PageStep
  \/ \E c \in Conns : ConnStep(c)
  \/ \E s \in Saves : SaveStored(s) \/ SaveAnswered(s) \/ SaveFails(s)

AppearanceSpec == AppearanceInit /\ [][AppearanceNext]_appearanceVars

---------------------------------------------------------------------------
(* Properties.                                                             *)

Slot == [step : {"free", "asked", "stored"}, conn : Conns \cup {None}, look : Looks \cup {None}]

\* Every variable holds values of its kind; nothing that is shown, or kept
\* outside the row, is a look the schema no longer knows.
AppearanceTypeOK ==
  /\ row \in Looks \cup Retired
  /\ page \in [look : Looks, editor : BOOLEAN, started : BOOLEAN, joined : BOOLEAN,
               link : Conns \cup {None}]
  /\ puts \in [Puts -> Slot] /\ saves \in [Saves -> Slot]
  /\ conn \in [Conns -> [state : {"free", "upgrading", "open", "closed"},
                         look : Looks \cup {None}, room : Rooms \cup {None}, fresh : BOOLEAN]]
  /\ \A c \in Conns : \A i \in DOMAIN wire[c] : wire[c][i] \in Looks
  /\ avatar \in AvatarStates \cup {None}
  /\ seen \in Looks \cup {None}

\* A look that the room has, or that somebody sees, has been saved before
\* (handleMessage.ts, updateAvatarAppearance: "Persist before broadcasting").
SavedBeforeShown ==
  /\ avatar # None => avatar.look \in hist.stored
  /\ seen \in hist.stored \cup {None}

Quiet ==
  /\ \A p \in Puts : puts[p].step = "free"
  /\ \A s \in Saves : saves[s].step = "free"
  /\ \A c \in Conns : wire[c] = <<>>

\* When nothing is under way, the room has the look that is stored, unless
\* since the avatar last took one an update was refused or lost, was overtaken
\* by another between its statement and its answer, or was saved between the
\* verification of the token and the join of the socket that drives the avatar.
RoomAgrees == (Quiet /\ avatar # None /\ ~hist.astray) => avatar.look = Sanitize(row)

\* The watcher sees the user exactly when he is in the room, and with the look
\* the room has, unless a newer socket brought
\* another one when it took the avatar over, which is not published.
WatcherSees ==
  ~hist.silent =>
    seen = IF avatar # None /\ avatar.room = Here THEN avatar.look ELSE None

\* Between two joins only an update that came in on the driving socket changes
\* the avatar: one that was superseded during its save does not.
DriverDrives ==
  [][(avatar # None /\ avatar' # None /\ avatar'.driver = avatar.driver
        /\ avatar'.room = avatar.room /\ avatar'.look # avatar.look) =>
       \E s \in Saves : /\ saves[s].conn = avatar.driver /\ saves[s].look = avatar'.look
                        /\ saves'[s].step = "free"]_appearanceVars

\* The sockets are counted before an await, and open after it: upgrades that
\* overlap may all be let in, and then a user has more sockets than configured,
\* but by no more than the number of upgrades that another one overlapped
\* (hist.crowded: the most that were under way when one was let in).
SocketsBelowCap == Cardinality(Open) <= MaxSockets + hist.crowded

\* The variables keep their types, what is shown was saved, the room agrees with
\* the store, and the watcher with the room.
LooksAgree == AppearanceTypeOK /\ SavedBeforeShown /\ RoomAgrees /\ WatcherSees
=============================================================================
