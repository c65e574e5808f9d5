---------------------------- MODULE ClientSession ----------------------------
(***************************************************************************)
(* The client's session: signing in, starting the game, the sockets that   *)
(* carry it, the reconnect schedule, and signing out.                      *)
(*                                                                         *)
(* Everything runs on one thread; an action is the code from one event or  *)
(* answer to the next await.  What hangs on a promise that an event        *)
(* settles runs before the next event and is part of the same action.      *)
(* Nothing keeps a request from being sent twice or a game from being      *)
(* started twice: starts overlap, load a Game each, or share one.  Each    *)
(* Game has a NetClient of its own, and sockets live on their own: they    *)
(* open, are refused and are dropped at any time, and one that is told to  *)
(* close says so later, as does one that a newer one has replaced.         *)
(*                                                                         *)
(* Signing out replaces the app by a new one; the old one's promises,      *)
(* timers and sockets remain, and are followed here without its buttons.   *)
(* A socket the peer is closing is still "open" until its close event.     *)
(***************************************************************************)
EXTENDS Naturals

CONSTANTS
  Games,      \* bound: Games in use at once
  Sockets,    \* bound: sockets that are not free at once
  Calls,      \* bound: starts and attempts under way at once
  MaxAsked,   \* bound: requests that await their answer at once
  NoGame, NoSocket, NoCall

RequestKinds == {"restore", "login", "character", "room"}

\* Who awaits startGame, or reconnect ("retry"), and which step it awaits.
CallRecords ==
  [by : {"restore", "character", "room", "retry"}, step : {"load", "init", "connect"},
   game : Games \cup {NoGame}, socket : Sockets \cup {NoSocket}]

ASSUME ClientSessionAssumption ==
  /\ NoGame \notin Games /\ NoSocket \notin Sockets /\ NoCall \notin CallRecords
  /\ MaxAsked \in Nat \ {0}

VARIABLES
  user,          \* createApp: somebody is signed in
  pending,       \* [RequestKinds -> how many await their answer]
  calls,         \* [Calls -> the start or attempt under way]
  game,          \* createApp's current Game
  gameStarted, joinedRoom,
  shown,         \* what the page offers: forms and buttons
  timers,        \* reconnect timers that will fire
  reconnecting,
  dialog,        \* DisconnectedDialog
  games,         \* [Games -> the Game's fields, see NewGame]
  sock,          \* [Sockets -> what it is doing, and whose NetClient dialled it]
  out,           \* signOut: "no", "leaving", "gone"
  hist           \* history: [mixed, again, lost, late : BOOLEAN], see the properties

app == <<user, pending, joinedRoom, shown>>
started == <<calls, game, gameStarted>>
schedule == <<timers, reconnecting, dialog>>
net == <<games, sock>>
sessionVars == <<app, started, schedule, net, out, hist>>

HasButtons == out # "gone"
Live == {s \in Sockets : sock[s].is \in {"connecting", "open"}}
AnyCall == \E c \in Calls : calls[c] # NoCall

---------------------------------------------------------------------------
(* NetClient and Game.                                                     *)

\* PIXI is initialized and not destroyed; the handlers are registered.
NewGame == [ready |-> FALSE, listening |-> FALSE, connected |-> FALSE, socket |-> NoSocket]
Free == [is |-> "free", of |-> NoGame]

\* Nothing refers to g any more, or yet.
Unused(g) ==
  /\ g # game /\ ~games[g].listening
  /\ \A c \in Calls : calls[c] # NoCall => calls[c].game # g
  /\ \A s \in Sockets : sock[s].of # g

\* A new call, socket or Game: which name it gets is all the same.
FreeCall(c) == calls[c] = NoCall /\ c = CHOOSE d \in Calls : calls[d] = NoCall
FreeSocket(s) == sock[s] = Free /\ s = CHOOSE q \in Sockets : sock[q] = Free
FreeGame(g) == Unused(g) /\ g = CHOOSE f \in Games : Unused(f)

\* connect: a new socket, the client's current one from now on.  One it had
\* before is not closed, and its events still reach the handlers.
Dial(c, by, g, fields) ==
  \E s \in Sockets :
    /\ FreeSocket(s)
    /\ sock' = [sock EXCEPT ![s] = [is |-> "connecting", of |-> g]]
    /\ games' = [games EXCEPT ![g] = [fields EXCEPT !.socket = s]]
    /\ calls' = [calls EXCEPT ![c] = [by |-> by, step |-> "connect", game |-> g, socket |-> s]]

\* Game.stop: its handlers are taken off, then the current socket is closed.
KeepsListening(g) == games[g].listening                             \* (mutant)
StopsListening(g) == FALSE

StoppedGames(g) == [games EXCEPT ![g] = [NewGame EXCEPT !.listening = StopsListening(g)]]
HungUp(g) == [s \in Sockets |->
                IF s = games[g].socket THEN [sock[s] EXCEPT !.is = "closing"] ELSE sock[s]]

---------------------------------------------------------------------------
(* The reconnect schedule.                                                 *)

LeavesTimer == timers                                               \* (mutant)
ClearReconnectSchedule == 0

ScheduleReconnect ==
  /\ timers' = ClearReconnectSchedule + 1
  /\ dialog' = "countdown"

\* reconnectAfterDisconnect, without a user or beside an attempt, does nothing.
MayTry == user /\ ~reconnecting

Reconnect ==
  /\ MayTry
  /\ reconnecting' = TRUE
  /\ timers' = ClearReconnectSchedule
  /\ dialog' = "retrying"
  /\ \E c \in Calls :
       /\ FreeCall(c)
       /\ IF game # NoGame
          THEN Dial(c, "retry", game, games[game])
          ELSE /\ calls' = [calls EXCEPT ![c] = [by |-> "retry", step |-> "load",
                                                game |-> NoGame, socket |-> NoSocket]]
               /\ UNCHANGED net
  /\ hist' = [hist EXCEPT !.late = @ \/ out # "no"]
  /\ UNCHANGED <<app, game, gameStarted, out>>

RetryTimer ==
  /\ timers > 0
  /\ \/ Reconnect
     \/ /\ ~MayTry
        /\ timers' = timers - 1
        /\ UNCHANGED <<app, started, reconnecting, dialog, net, out, hist>>

\* The dialog's buttons; they are disabled while it says it is retrying.
RetryNow == HasButtons /\ dialog = "countdown" /\ Reconnect

---------------------------------------------------------------------------
(* createApp: requests, and signing in.                                    *)

Awaited == pending["restore"] + pending["login"] + pending["character"] + pending["room"]

Ask(request) ==
  /\ HasButtons /\ Awaited < MaxAsked
  /\ pending' = [pending EXCEPT ![request] = @ + 1]

Answer(request) ==
  /\ pending[request] > 0
  /\ pending' = [pending EXCEPT ![request] = @ - 1]

\* startGame, as far as it goes at once: a Game that is there is started.
StartGame(by) ==
  /\ \E c \in Calls :
       /\ FreeCall(c)
       /\ calls' = [calls EXCEPT ![c] = [by |-> by,
                                         step |-> IF game = NoGame THEN "load" ELSE "init",
                                         game |-> game, socket |-> NoSocket]]
  /\ hist' = [hist EXCEPT !.late = @ \/ out # "no", !.again = @ \/ gameStarted \/ AnyCall]

\* restoreExistingSession runs when the page is built.
SessionRestored ==
  /\ Answer("restore")
  /\ user' = TRUE /\ shown' = (shown \ {"login"}) \cup {"logOut"}
  /\ StartGame("restore")
  /\ UNCHANGED <<joinedRoom, game, gameStarted, schedule, net, out>>
NoSession ==
  /\ Answer("restore")
  /\ UNCHANGED <<user, joinedRoom, shown, started, schedule, net, out, hist>>

SubmitLogin ==
  /\ "login" \in shown /\ Ask("login")
  /\ shown' = shown \ {"login"}
  /\ hist' = [hist EXCEPT !.mixed = @ \/ pending["restore"] > 0]
  /\ UNCHANGED <<user, joinedRoom, started, schedule, net, out>>

LoginAccepted ==
  /\ Answer("login")
  /\ user' = TRUE /\ shown' = shown \cup {"logOut", "editor"}
  /\ UNCHANGED <<joinedRoom, started, schedule, net, out, hist>>
LoginRefused ==
  /\ Answer("login")
  /\ shown' = (shown \ {"logOut"}) \cup {"login"}
  /\ UNCHANGED <<user, joinedRoom, started, schedule, net, out, hist>>

EditCharacter ==
  /\ HasButtons /\ "edit" \in shown /\ user
  /\ shown' = (shown \ {"edit"}) \cup {"editor"}
  /\ UNCHANGED <<user, pending, joinedRoom, started, schedule, net, out, hist>>

\* The editor stays open, and its button works, while a save is in flight.
SubmitCharacter ==
  /\ "editor" \in shown /\ user /\ Ask("character")
  /\ UNCHANGED <<user, joinedRoom, shown, started, schedule, net, out, hist>>

\* In a room the new look is sent; else the game is started, again if it was.
CharacterSaved ==
  /\ Answer("character") /\ user
  /\ IF joinedRoom
     THEN /\ shown' = (shown \ {"editor"}) \cup {"edit"}
          /\ UNCHANGED <<calls, hist>>
     ELSE shown' = shown \ {"editor"} /\ StartGame("character")
  /\ UNCHANGED <<user, joinedRoom, game, gameStarted, schedule, net, out>>

CancelCharacter ==
  /\ HasButtons /\ "editor" \in shown
  /\ shown' = (shown \ {"editor"}) \cup {IF joinedRoom THEN "edit" ELSE "login"}
  /\ UNCHANGED <<user, pending, joinedRoom, started, schedule, net, out, hist>>

\* The dialog comes with its button, and is closed by the answer.
SubmitRoom ==
  /\ "create" \in shown /\ user /\ Ask("room")
  /\ UNCHANGED <<user, joinedRoom, shown, started, schedule, net, out, hist>>

RoomCreated ==
  /\ Answer("room")
  /\ IF gameStarted
     THEN shown' = shown \cup {"logOut", "create", "edit"} /\ UNCHANGED <<calls, hist>>
     ELSE StartGame("room") /\ UNCHANGED shown
  /\ UNCHANGED <<user, joinedRoom, game, gameStarted, schedule, net, out>>

\* A refused save or room only tells so; so does one answered to nobody.
Refused ==
  /\ \E request \in {"character", "room"} : Answer(request)
  /\ UNCHANGED <<user, joinedRoom, shown, started, schedule, net, out, hist>>

---------------------------------------------------------------------------
(* Game.start and reconnect, and what awaits them.                         *)

StaysReconnecting == reconnecting                                   \* (mutant)
AttemptOver == FALSE

Over(c) == calls' = [calls EXCEPT ![c] = NoCall]
Retries(c) == calls[c].by = "retry"

AttemptFails(c) ==
  /\ Over(c)
  /\ reconnecting' = AttemptOver
  /\ ScheduleReconnect
  /\ UNCHANGED <<user, shown, game, gameStarted, hist>>

\* Restoring gives the user up and shows the form; the others only tell so.
StartFails(c) ==
  /\ Over(c)
  /\ IF calls[c].by = "restore"
     THEN user' = FALSE /\ shown' = (shown \ {"logOut"}) \cup {"login"}
     ELSE UNCHANGED <<user, shown>>
  /\ UNCHANGED schedule

\* startGame's catch: whatever else goes on, the game counts as not started.
GivesUp(c) ==
  /\ gameStarted' = FALSE
  /\ game' = IF game = calls[c].game THEN NoGame ELSE game
  /\ hist' = [hist EXCEPT !.lost = @ \/ hist.again]

Awaits(c, step) == calls[c] # NoCall /\ calls[c].step = step

\* ensureGame: each load makes a Game of its own, and the last one counts.
GameLoaded(c) ==
  /\ Awaits(c, "load")
  /\ \/ \E g \in Games :
          /\ FreeGame(g)
          /\ game' = g
          /\ IF Retries(c)
             THEN Dial(c, "retry", g, NewGame)
             ELSE /\ calls' = [calls EXCEPT ![c] = [@ EXCEPT !.step = "init", !.game = g]]
                  /\ games' = [games EXCEPT ![g] = NewGame]
                  /\ UNCHANGED sock
          /\ UNCHANGED <<user, shown, gameStarted, schedule, hist>>
     \/ /\ IF Retries(c) THEN AttemptFails(c)
           ELSE StartFails(c) /\ UNCHANGED <<game, gameStarted, hist>>
        /\ UNCHANGED net
  /\ UNCHANGED <<pending, joinedRoom, out>>

AppInitialized(c) ==
  /\ Awaits(c, "init")
  /\ LET g == calls[c].game
     IN  \/ /\ Dial(c, calls[c].by, g, [games[g] EXCEPT !.ready = TRUE, !.listening = TRUE])
            /\ UNCHANGED <<user, shown, game, gameStarted, schedule, hist>>
         \/ /\ StartFails(c) /\ GivesUp(c)
            /\ games' = StoppedGames(g) /\ sock' = HungUp(g)
  /\ UNCHANGED <<pending, joinedRoom, out>>

---------------------------------------------------------------------------
(* The sockets' events.                                                    *)

Waits(c, s) == Awaits(c, "connect") /\ calls[c].socket = s

\* connect() resolved: the start, or the attempt, goes on to its end.
Opened(s, c) ==
  /\ games[sock[s].of].ready
  /\ games' = [games EXCEPT ![sock[s].of].connected = TRUE]
  /\ sock' = [sock EXCEPT ![s].is = "open"]
  /\ Over(c)
  /\ gameStarted' = TRUE
  /\ shown' = shown \cup {"logOut", "create"}
                    \cup (IF calls[c].by \in {"room", "retry"} THEN {"edit"} ELSE {})
  /\ IF Retries(c)
     THEN reconnecting' = AttemptOver /\ dialog' = "hidden"
     ELSE UNCHANGED <<reconnecting, dialog>>
  /\ UNCHANGED <<user, game, timers, hist>>

\* A Game that was stopped meanwhile, or never started, throws at its ticker.
Throws(s, c) ==
  /\ ~games[sock[s].of].ready
  /\ LET g == sock[s].of
     IN  IF Retries(c)
         THEN /\ AttemptFails(c)
              /\ games' = [games EXCEPT ![g].connected = TRUE]
              /\ sock' = [sock EXCEPT ![s].is = "open"]
         ELSE /\ StartFails(c) /\ GivesUp(c)
              /\ games' = StoppedGames(g)
              /\ sock' = [HungUp(g) EXCEPT ![s].is = IF s = games[g].socket THEN @ ELSE "open"]

Opens(s) ==
  /\ sock[s].is = "connecting"
  /\ \E c \in Calls : Waits(c, s) /\ (Opened(s, c) \/ Throws(s, c))
  /\ UNCHANGED <<pending, joinedRoom, out>>

\* NetClient's close listener.
Forgets(s) == [games[sock[s].of] EXCEPT !.socket = IF @ = s THEN NoSocket ELSE @]

\* connect() rejected.  The handlers do not hear of it: nothing was opened.
Fails(s) ==
  /\ sock[s].is \in {"connecting", "closing"}
  /\ LET g == sock[s].of
     IN  \E c \in Calls :
           /\ Waits(c, s)
           /\ IF Retries(c)
              THEN /\ AttemptFails(c)
                   /\ games' = [games EXCEPT ![g] = Forgets(s)]
                   /\ sock' = [sock EXCEPT ![s] = Free]
              ELSE /\ StartFails(c) /\ GivesUp(c)
                   /\ games' = StoppedGames(g)
                   /\ sock' = [HungUp(g) EXCEPT ![s] = Free]
  /\ UNCHANGED <<pending, joinedRoom, out>>

\* An open socket was dropped, or closed by stop.
InRoomOnly == user /\ joinedRoom                                    \* (mutant)
WantsConnection == user /\ gameStarted

Closes(s) ==
  /\ sock[s].is \in {"open", "closing"} /\ \A c \in Calls : ~Waits(c, s)
  /\ sock' = [sock EXCEPT ![s] = Free]
  /\ LET g == sock[s].of
     IN  IF games[g].listening
         THEN /\ games' = [games EXCEPT ![g] = [Forgets(s) EXCEPT !.connected = FALSE]]
              /\ IF WantsConnection THEN ScheduleReconnect ELSE UNCHANGED <<timers, dialog>>
         ELSE /\ games' = [games EXCEPT ![g] = Forgets(s)]
              /\ UNCHANGED <<timers, dialog>>
  /\ UNCHANGED <<app, started, reconnecting, out, hist>>

\* A snapshot arrives: onRoomJoined.
RoomJoined ==
  /\ \E s \in Sockets : sock[s].is = "open" /\ games[sock[s].of].listening
  /\ joinedRoom' = TRUE /\ shown' = shown \cup {"logOut", "create", "edit"}
  /\ UNCHANGED <<user, pending, started, schedule, net, out, hist>>

---------------------------------------------------------------------------
(* Signing out.                                                            *)

SignOut ==
  /\ "logOut" \in shown /\ out = "no"
  /\ out' = "leaving"
  /\ timers' = ClearReconnectSchedule
  /\ IF gameStarted /\ game # NoGame
     THEN games' = StoppedGames(game) /\ sock' = HungUp(game)
     ELSE UNCHANGED net
  /\ hist' = [hist EXCEPT !.late = @ \/ AnyCall]
  /\ UNCHANGED <<app, started, reconnecting, dialog>>

\* The request was answered, failed or took too long.
LoggedOut ==
  /\ out = "leaving" /\ out' = "gone"
  /\ UNCHANGED <<app, started, schedule, net, hist>>

---------------------------------------------------------------------------

SessionInit ==
  /\ user = FALSE /\ pending = [r \in RequestKinds |-> IF r = "restore" THEN 1 ELSE 0]
  /\ calls = [c \in Calls |-> NoCall] /\ game = NoGame
  /\ gameStarted = FALSE /\ joinedRoom = FALSE /\ shown = {"login"}
  /\ timers = 0 /\ reconnecting = FALSE /\ dialog = "hidden"
  /\ games = [g \in Games |-> NewGame] /\ sock = [s \in Sockets |-> Free]
  /\ out = "no"
  /\ hist = [mixed |-> FALSE, again |-> FALSE, lost |-> FALSE, late |-> FALSE]

Answers ==
  \/ SessionRestored \/ NoSession \/ LoginAccepted \/ LoginRefused
  \/ CharacterSaved \/ RoomCreated \/ Refused \/ LoggedOut

Clicks ==
  \/ SubmitLogin \/ EditCharacter \/ SubmitCharacter \/ CancelCharacter
  \/ SubmitRoom \/ RetryNow \/ SignOut

Proceeds(c) == GameLoaded(c) \/ AppInitialized(c)
Settles(s) == Opens(s) \/ Fails(s)

SessionNext ==
  \/ Answers \/ Clicks \/ RetryTimer \/ RoomJoined
  \/ \E c \in Calls : Proceeds(c)
  \/ \E s \in Sockets : Settles(s) \/ Closes(s)

\* Promises settle, timers fire, a socket opens or fails; and a server that is
\* tried again and again accepts in the end.
Fairness ==
  /\ WF_sessionVars(RetryTimer)
  /\ \A c \in Calls : WF_sessionVars(Proceeds(c))
  /\ \A s \in Sockets : WF_sessionVars(Settles(s))
  /\ SF_sessionVars(\E s \in Sockets : Opens(s))

SessionSpec == SessionInit /\ [][SessionNext]_sessionVars /\ Fairness

---------------------------------------------------------------------------
(* Properties.  hist.again: the game was started while it was started, or  *)
(* while a start or an attempt was under way; hist.lost: a start failed    *)
(* after that; hist.mixed: the login form was sent while the session was   *)
(* still being restored; hist.late: a start or an attempt was under way at *)
(* the sign-out, or began after it.                                        *)

\* Every variable holds values of its kind; there is never a second timer.
SessionTypeOK ==
  /\ {user, gameStarted, joinedRoom, reconnecting} \subseteq BOOLEAN
  /\ pending \in [RequestKinds -> 0 .. MaxAsked]
  /\ calls \in [Calls -> {NoCall} \cup CallRecords]
  /\ game \in Games \cup {NoGame}
  /\ shown \subseteq {"login", "editor", "edit", "logOut", "create"}
  /\ timers \in {0, 1}
  /\ dialog \in {"hidden", "countdown", "retrying"}
  /\ games \in [Games -> [ready : BOOLEAN, listening : BOOLEAN, connected : BOOLEAN,
                          socket : Sockets \cup {NoSocket}]]
  /\ sock \in [Sockets -> [is : {"free", "connecting", "open", "closing"}, of : Games \cup {NoGame}]]
  /\ out \in {"no", "leaving", "gone"}

\* What the dialog says is true: it says it is retrying only during an attempt,
\* and is not left standing without one or a timer.  Until a game is started
\* again it also says all: it counts down exactly when a timer will fire and is
\* retrying exactly during an attempt, and is hidden else.
DialogIsTrue ==
  (out = "no" /\ ~hist.mixed) =>
    /\ dialog = "retrying" => reconnecting
    /\ dialog = "countdown" => timers = 1 \/ reconnecting
    /\ ~hist.again => /\ dialog = "countdown" <=> timers = 1
                      /\ dialog = "retrying" <=> reconnecting

OneTimerAndDialog == SessionTypeOK /\ DialogIsTrue

Heard(s) == sock[s].is = "open" /\ games[sock[s].of].listening
Current(s) == sock[s].of = game /\ games[game].socket = s /\ games[game].connected

\* A started game has an open socket whose close will be heard, or is being
\* reconnected, or a timer will try it; and that socket is the one the current
\* Game sends on, until a game is started again.
NoDeadScene ==
  (gameStarted /\ out = "no" /\ ~hist.mixed) =>
    \/ reconnecting \/ timers = 1
    \/ \E s \in Sockets : Heard(s) /\ (Current(s) \/ hist.again)

\* Until a game is started again, a live socket is the current Game's current
\* one, and no other Game listens; and once the user has signed out there is no
\* socket, no timer and nobody listening.
NothingLeaks ==
  (~hist.late /\ ~hist.again) =>
    /\ \A s \in Live : sock[s].of = game /\ games[game].socket = s
    /\ \A g \in Games : games[g].listening => g = game
    /\ out # "no" => /\ Live = {} /\ timers = 0
                     /\ \A g \in Games : ~games[g].listening

\* A started game whose connection is lost gets it back, or the user leaves, or
\* another start of the game fails and takes it along.
Recovers ==
  (gameStarted /\ ~hist.mixed) ~>
    \/ \E s \in Sockets : Heard(s) /\ (Current(s) \/ hist.again)
    \/ out # "no"
    \/ hist.lost
=============================================================================
