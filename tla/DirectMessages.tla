--------------------------- MODULE DirectMessages ---------------------------
(***************************************************************************)
(* Direct messages between two users: DirectMessageService over its table, *)
(* the handlers that publish what was written, and each user's client with *)
(* its message panel and unread badge.                                     *)
(*                                                                         *)
(* A request is a chain of statements with awaits between them; each       *)
(* action is one statement taking effect.  What is written reaches the     *)
(* clients in an event of its own, published when the statement's answer   *)
(* is back, so events of different requests may be published in another    *)
(* order than they were written.  A client receives events in the order of *)
(* publication, and the history of a conversation over HTTP, beside them.  *)
(***************************************************************************)
EXTENDS Naturals, Sequences, FiniteSets

CONSTANTS
  Users,        \* the two users
  Msgs,
  From,         \* [Msgs -> Users]: who writes the message
  Ops,          \* bound: slots for requests in flight
  PageSize,     \* how many messages a history returns: 50, or up to 100 if asked for
  Texts,        \* 1 is the text as sent, the others are edits; 0 is no message
  MaxRequests,  \* bound: what the users and their relation do in a behaviour
  NoOp

Rows == [text : Texts \cup {0}, read : BOOLEAN, deleted : BOOLEAN]
Checks == {"friends", "unblocked"}
Requests ==
  [kind : {"send", "edit", "delete", "read", "history", "count"}, user : Users,
   about : SUBSET Msgs, text : Texts \cup {0}, met : SUBSET Checks,
   step : {"find", "count", "friends", "blocked", "write", "publish", "show"},
   got : [Msgs -> Rows], missed : BOOLEAN]

ASSUME DirectMessagesAssumption ==
  /\ IsFiniteSet(Users) /\ Cardinality(Users) = 2 /\ IsFiniteSet(Msgs)
  /\ From \in [Msgs -> Users] /\ PageSize \in Nat \ {0}
  /\ Texts \subseteq Nat \ {0} /\ 1 \in Texts
  /\ MaxRequests \in Nat
  /\ NoOp \notin Requests

NoRow == [text |-> 0, read |-> FALSE, deleted |-> FALSE]
Empty == [m \in Msgs |-> NoRow]

VARIABLES
  messages, \* the table: [Msgs -> Rows]
  later,    \* its order: [Msgs -> the messages saved after this one]
  linked,   \* what assertCanMessage asks for and holds now: "friends", "unblocked"
  ops,      \* [Ops -> a request in flight, or NoOp]
  inbox,    \* [Users -> events published to the user's client, not received]
  panel,    \* [Users -> "open", "hidden"]
  view,     \* [Users -> [Msgs -> Rows]]: messageElements, the panel's element of each
            \* message, kept while hidden
  left,     \* [Users -> [Msgs -> SUBSET Rows]]: elements that messageElements has lost
  unread,   \* [Users -> the badge]
  asked,    \* bound: how many requests there were
  hist      \* history: [raced, opened, doubt : users, crossed : messages, early : user ->
            \*           messages shown before their event, deleted, read : message ->
            \*           events about it]

messagesVars == <<messages, later, linked, ops, inbox, panel, view, left, unread, asked, hist>>

Other(u) == CHOOSE v \in Users : v # u
Saved(m) == messages[m].text # 0
Mine(u) == {m \in Msgs : From[m] = u}

Busy == {o \in Ops : ops[o] # NoOp}
Free == Ops \ Busy
At(o, kind, step) == o \in Busy /\ ops[o].kind = kind /\ ops[o].step = step
Goto(o, step) == ops' = [ops EXCEPT ![o].step = step]
End(o) == ops' = [ops EXCEPT ![o] = NoOp]

Msg(o) == CHOOSE m \in ops[o].about : TRUE

\* A request of u as it arrives; met is what held at some moment since.
Request(u, kind, ms, t) ==
  [kind |-> kind, user |-> u, about |-> ms, text |-> t, met |-> linked,
   step |-> CASE kind \in {"edit", "delete"} -> "find"
              [] kind = "count" -> "count"
              [] OTHER -> "friends",
   got |-> Empty, missed |-> FALSE]
Started(table, op) ==
  LET o == CHOOSE p \in Free : TRUE IN [table EXCEPT ![o] = op]

Ask == asked < MaxRequests /\ asked' = asked + 1
AskFor(u, kind, ms, t) ==
  /\ Ask /\ Free # {}
  /\ ops' = Started(ops, Request(u, kind, ms, t))
  /\ UNCHANGED <<messages, later, linked, inbox, panel, view, left, unread, hist>>

---------------------------------------------------------------------------
(* The users: what the panel lets them do, and what happens around them.   *)

Send(u) ==
  /\ panel[u] = "open"
  /\ \E m \in Mine(u) :
       /\ ~Saved(m) /\ \A o \in Busy : m \notin ops[o].about
       /\ AskFor(u, "send", {m}, 1)

\* Edit and Delete are offered on every element of the user's own messages that
\* was not marked deleted; the text to change is that of the element in view.
Offered(u, m) ==
  /\ panel[u] = "open" /\ From[m] = u
  /\ \E e \in left[u][m] \cup {view[u][m]} : e.text # 0 /\ ~e.deleted

Edit(u, m, t) ==
  /\ Offered(u, m) /\ (view[u][m].deleted \/ t # view[u][m].text)
  /\ AskFor(u, "edit", {m}, t)
Delete(u, m) == Offered(u, m) /\ AskFor(u, "delete", {m}, 0)

OpenConversation(u) == AskFor(u, "history", {}, 0)
RefreshFriends(u) == AskFor(u, "count", {}, 0)

Hide(u) ==
  /\ panel[u] = "open" /\ Ask
  /\ panel' = [panel EXCEPT ![u] = "hidden"]
  /\ UNCHANGED <<messages, later, linked, ops, inbox, view, left, unread, hist>>

\* A friendship ends or is made again; one of the two blocks or unblocks.
Relink(c) ==
  /\ Ask
  /\ linked' = IF c \in linked THEN linked \ {c} ELSE linked \cup {c}
  /\ ops' = [o \in Ops |-> IF o \in Busy THEN [ops[o] EXCEPT !.met = @ \cup linked']
                           ELSE NoOp]
  /\ UNCHANGED <<messages, later, inbox, panel, view, left, unread, hist>>

\* The socket is lost with all it had not delivered, and opened again.
Missing(table, u) ==
  [o \in Ops |-> IF o \in Busy /\ table[o].user = u /\ table[o].kind \in {"history", "count"}
                 THEN [table[o] EXCEPT !.missed = TRUE] ELSE table[o]]
Drop(u) ==
  /\ inbox[u] # <<>> /\ Ask
  /\ inbox' = [inbox EXCEPT ![u] = <<>>]
  /\ ops' = Missing(ops, u)
  /\ hist' = [hist EXCEPT !.raced = @ \cup {u}, !.doubt = @ \cup {u}]
  /\ UNCHANGED <<messages, later, linked, panel, view, left, unread>>

---------------------------------------------------------------------------
(* DirectMessageService: the checks.                                       *)

\* requireEditableMessage.
FindMessage(o) ==
  /\ o \in Busy /\ ops[o].step = "find"
  /\ IF messages[Msg(o)].deleted THEN End(o) ELSE Goto(o, "friends")
  /\ UNCHANGED <<messages, later, linked, inbox, panel, view, left, unread, asked, hist>>

\* assertCanMessage; what fails it is left out of the counts, and refused else.
Refused(o) ==
  IF ops[o].kind = "count"
  THEN ops' = [ops EXCEPT ![o].step = "show", ![o].about = {}, ![o].missed = TRUE]
  ELSE End(o)

FriendsOnly(o) ==                                                   \* (mutant)
  /\ o \in Busy /\ ops[o].step = "friends"
  /\ IF "friends" \in linked THEN Goto(o, "write") ELSE Refused(o)
  /\ UNCHANGED <<messages, later, linked, inbox, panel, view, left, unread, asked, hist>>
AreFriends(o) ==
  /\ o \in Busy /\ ops[o].step = "friends"
  /\ IF "friends" \in linked THEN Goto(o, "blocked") ELSE Refused(o)
  /\ UNCHANGED <<messages, later, linked, inbox, panel, view, left, unread, asked, hist>>

IsBlockedEitherDirection(o) ==
  /\ o \in Busy /\ ops[o].step = "blocked"
  /\ IF "unblocked" \in linked
     THEN Goto(o, IF ops[o].kind = "count" THEN "show" ELSE "write") ELSE Refused(o)
  /\ UNCHANGED <<messages, later, linked, inbox, panel, view, left, unread, asked, hist>>

\* A statement fails, or a request is refused: the user gets an error.
Fails(o) ==
  /\ o \in Busy /\ ops[o].step \in {"find", "count", "friends", "blocked", "write"}
  /\ End(o)
  /\ UNCHANGED <<messages, later, linked, inbox, panel, view, left, unread, asked, hist>>

---------------------------------------------------------------------------
(* DrizzleDirectMessageStore: the statements that write.                   *)

Written(o, r) ==
  /\ messages' = [messages EXCEPT ![Msg(o)] = r]
  /\ Goto(o, "publish")
  /\ UNCHANGED <<linked, inbox, panel, view, left, unread, asked, hist>>

Save(o) ==
  /\ At(o, "send", "write")
  /\ Written(o, [NoRow EXCEPT !.text = 1])
  /\ later' = [m \in Msgs |-> IF Saved(m) THEN later[m] \cup ops[o].about ELSE later[m]]

\* Both updates match no row that is deleted, and then fail.
AnyRow(m) == TRUE                                                   \* (mutant)
NotDeleted(m) == ~messages[m].deleted

EditMessage(o) ==
  LET m == Msg(o)
  IN
  /\ At(o, "edit", "write") /\ NotDeleted(m)
  /\ Written(o, [messages[m] EXCEPT !.text = ops[o].text])
  /\ UNCHANGED later

DeleteMessage(o) ==
  LET m == Msg(o)
  IN
  /\ At(o, "delete", "write") /\ NotDeleted(m)
  /\ Written(o, [messages[m] EXCEPT !.deleted = TRUE])
  /\ UNCHANGED later

FindsNoRow(o) ==
  /\ At(o, "edit", "write") \/ At(o, "delete", "write")
  /\ ~NotDeleted(Msg(o))
  /\ End(o)
  /\ UNCHANGED <<messages, later, linked, inbox, panel, view, left, unread, asked, hist>>

\* Marks what the other user wrote; nothing is published when that is nothing.
UnreadAndDeleted(u) ==                                              \* (mutant)
  {m \in Mine(Other(u)) : Saved(m) /\ ~messages[m].deleted}
Unread(u) == {m \in Mine(Other(u)) : Saved(m) /\ ~messages[m].read /\ ~messages[m].deleted}

MarkConversationRead(o) ==
  LET ids == Unread(ops[o].user)
  IN
  /\ At(o, "read", "write")
  /\ messages' = [m \in Msgs |-> IF m \in ids THEN [messages[m] EXCEPT !.read = TRUE] ELSE messages[m]]
  /\ IF ids = {} THEN End(o)
     ELSE ops' = [ops EXCEPT ![o].step = "publish", ![o].about = ids]
  /\ UNCHANGED <<later, linked, inbox, panel, view, left, unread, asked, hist>>

\* The most recent page of the conversation.
Newest == {m \in Msgs : Cardinality(later[m]) < PageSize}
Page == [m \in Msgs |-> IF m \in Newest THEN messages[m] ELSE NoRow]

ListConversation(o) ==
  /\ At(o, "history", "write")
  /\ ops' = [ops EXCEPT ![o].step = "show", ![o].got = Page, ![o].missed = FALSE]
  /\ UNCHANGED <<messages, later, linked, inbox, panel, view, left, unread, asked, hist>>

\* The badge is in doubt if an event is on its way that the counts know of.
ListUnreadCounts(o) ==
  LET u == ops[o].user
      announced == inbox[u] = <<>> /\ \A p \in Busy : ops[p].step # "publish"
  IN
  /\ At(o, "count", "count")
  /\ ops' = [ops EXCEPT ![o].step = "friends", ![o].about = Unread(u),
                        ![o].missed = ~announced]
  /\ UNCHANGED <<messages, later, linked, inbox, panel, view, left, unread, asked, hist>>

---------------------------------------------------------------------------
(* handleMessage: the event, to both users.                                *)

\* Messages with a write that is older than this event and not announced, or
\* with a second edit on its way: their events may be out of order.
Crossing(o) ==
  {m \in ops[o].about : \E p \in Busy \ {o} :
     /\ m \in ops[p].about /\ ops[p].step = "publish"
     /\ ops[p].kind = "send" \/ (ops[p].kind = "edit" /\ ops[o].kind = "edit")}

Counted(f, ms) == [m \in Msgs |-> IF m \in ms THEN f[m] + 1 ELSE f[m]]

Announce(o) ==
  inbox' = [u \in Users |-> Append(inbox[u],
    [type |-> ops[o].kind, by |-> ops[o].user, about |-> ops[o].about, text |-> ops[o].text])]

Publish(o) ==
  /\ o \in Busy /\ ops[o].step = "publish"
  /\ Announce(o)
  /\ End(o)
  /\ hist' = [hist EXCEPT
       !.crossed = @ \cup Crossing(o),
       !.deleted = IF ops[o].kind = "delete" THEN Counted(@, ops[o].about) ELSE @,
       !.read = IF ops[o].kind = "read" THEN Counted(@, ops[o].about) ELSE @]
  /\ UNCHANGED <<messages, later, linked, panel, view, left, unread, asked>>

---------------------------------------------------------------------------
(* The client: DirectMessagePanel and createApp's handlers.                *)

\* renderMessage.
Render(u, m, r) ==
  IF r.text = 0 THEN NoRow ELSE [r EXCEPT !.read = @ /\ From[m] = u]

Shown(u, rows) == [m \in Msgs |-> Render(u, m, rows[m])]

\* The event that brings a message is still to come to the user's client.
SendDue(u, m) ==
  \/ \E p \in Busy : m \in ops[p].about /\ ops[p].kind = "send" /\ ops[p].step = "publish"
  \/ \E i \in DOMAIN inbox[u] : m \in inbox[u][i].about /\ inbox[u][i].type = "send"

OpenPanel(o) ==
  LET u == ops[o].user
  IN
  /\ At(o, "history", "show")
  /\ view' = [view EXCEPT ![u] = Shown(u, ops[o].got)]
  /\ left' = [left EXCEPT ![u] = [m \in Msgs |-> {}]]
  /\ panel' = [panel EXCEPT ![u] = "open"]
  /\ unread' = [unread EXCEPT ![u] = 0]
  /\ ops' = [ops EXCEPT ![o] = Request(u, "read", {}, 0)]
  /\ hist' = [hist EXCEPT !.opened = @ \cup {u},
                !.early[u] = {m \in Msgs : ops[o].got[m].text # 0 /\ SendDue(u, m)},
                !.raced = IF ops[o].missed THEN @ \cup {u} ELSE @ \ {u}]
  /\ UNCHANGED <<messages, later, linked, inbox, asked>>

ShowUnreadCounts(o) ==
  LET u == ops[o].user
  IN
  /\ At(o, "count", "show")
  /\ unread' = [unread EXCEPT ![u] = Cardinality(ops[o].about)]
  /\ End(o)
  /\ hist' = [hist EXCEPT !.doubt = IF ops[o].missed THEN @ \cup {u} ELSE @ \ {u}]
  /\ UNCHANGED <<messages, later, linked, inbox, panel, view, left, asked>>

Receives(u, type) ==
  /\ inbox[u] # <<>> /\ Head(inbox[u]).type = type
  /\ inbox' = [inbox EXCEPT ![u] = Tail(@)]
  /\ UNCHANGED <<messages, later, linked, panel, asked, hist>>
Subject(u) == CHOOSE m \in Head(inbox[u]).about : TRUE

\* The panel shows the message and reports it read.  Whatever it already shows,
\* it adds an element, which edits and deletions reach from now on.
AppendMessage(u, m) ==
  /\ left' = [left EXCEPT ![u][m] = @ \cup ({view[u][m]} \ {NoRow})]
  /\ view' = [view EXCEPT ![u][m] = [NoRow EXCEPT !.text = Head(inbox[u]).text]]
  /\ IF From[m] = u THEN ops' = Missing(ops, u)
     ELSE Free # {} /\ ops' = Started(Missing(ops, u), Request(u, "read", {}, 0))

OnDirectMessage(u) ==
  LET m == Subject(u)
  IN
  /\ Receives(u, "send")
  /\ IF panel[u] = "open" THEN AppendMessage(u, m)
     ELSE ops' = Missing(ops, u) /\ UNCHANGED <<view, left>>
  /\ unread' = IF From[m] = u THEN unread
               ELSE [unread EXCEPT ![u] = IF panel[u] = "open" THEN 0 ELSE @ + 1]

OverDeleted(u, m, t) == IF view[u][m].text = 0 THEN NoRow           \* (mutant)
                        ELSE [view[u][m] EXCEPT !.text = t, !.deleted = FALSE]
UpdateEdited(u, m, t) ==
  IF view[u][m].text = 0 \/ view[u][m].deleted THEN view[u][m]
  ELSE [view[u][m] EXCEPT !.text = t]

OnDirectEdited(u) ==
  LET m == Subject(u)
  IN
  /\ Receives(u, "edit")
  /\ view' = [view EXCEPT ![u][m] = UpdateEdited(u, m, Head(inbox[u]).text)]
  /\ ops' = Missing(ops, u)
  /\ UNCHANGED <<left, unread>>

\* A message without an element is taken out of the badge.
StillCounted(u, m) == unread                                        \* (mutant)
Unclamped(u, m) ==                                                  \* (mutant)
  IF view[u][m].text = 0 /\ From[m] # u THEN [unread EXCEPT ![u] = @ - 1] ELSE unread
Discounted(u, m) ==
  IF view[u][m].text = 0 /\ From[m] # u /\ unread[u] > 0
  THEN [unread EXCEPT ![u] = @ - 1] ELSE unread

OnDirectDeleted(u) ==
  LET m == Subject(u)
  IN
  /\ Receives(u, "delete")
  /\ view' = [view EXCEPT ![u][m].deleted = view[u][m].text # 0]
  /\ unread' = Discounted(u, m)
  /\ ops' = Missing(ops, u)
  /\ UNCHANGED left

\* The reader's own receipt clears the badge, whatever it counts by now.
OnDirectRead(u) ==
  LET e == Head(inbox[u])
  IN
  /\ Receives(u, "read")
  /\ unread' = IF e.by = u THEN [unread EXCEPT ![u] = 0] ELSE unread
  /\ view' = IF e.by = u \/ panel[u] = "hidden" THEN view
             ELSE [view EXCEPT ![u] = [m \in Msgs |->
                     [view[u][m] EXCEPT !.read = @ \/ (m \in e.about /\ view[u][m].text # 0)]]]
  /\ ops' = Missing(ops, u)
  /\ UNCHANGED left

---------------------------------------------------------------------------

MessagesInit ==
  /\ messages = [m \in Msgs |-> NoRow]
  /\ later = [m \in Msgs |-> {}]
  /\ linked = Checks
  /\ ops = [o \in Ops |-> NoOp]
  /\ inbox = [u \in Users |-> <<>>]
  /\ panel = [u \in Users |-> "hidden"]
  /\ view = [u \in Users |-> [m \in Msgs |-> NoRow]]
  /\ left = [u \in Users |-> [m \in Msgs |-> {}]]
  /\ unread = [u \in Users |-> 0]
  /\ asked = 0
  /\ hist = [raced |-> {}, opened |-> {}, doubt |-> {}, crossed |-> {}, early |-> [u \in Users |-> {}],
             deleted |-> [m \in Msgs |-> 0], read |-> [m \in Msgs |-> 0]]

UserStep(u) ==
  \/ Send(u) \/ OpenConversation(u) \/ RefreshFriends(u) \/ Hide(u) \/ Drop(u)
  \/ \E m \in Msgs : Delete(u, m) \/ \E t \in Texts : Edit(u, m, t)

ServerStep(o) ==
  \/ FindMessage(o) \/ AreFriends(o) \/ IsBlockedEitherDirection(o) \/ Fails(o)
  \/ Save(o) \/ EditMessage(o) \/ DeleteMessage(o) \/ FindsNoRow(o)
  \/ MarkConversationRead(o) \/ ListConversation(o) \/ ListUnreadCounts(o)
  \/ Publish(o)

ClientStep(u) ==
  OnDirectMessage(u) \/ OnDirectEdited(u) \/ OnDirectDeleted(u) \/ OnDirectRead(u)

MessagesNext ==
  \/ \E u \in Users : UserStep(u) \/ ClientStep(u)
  \/ \E o \in Ops : ServerStep(o) \/ OpenPanel(o) \/ ShowUnreadCounts(o)
  \/ \E c \in Checks : Relink(c)

MessagesSpec == MessagesInit /\ [][MessagesNext]_messagesVars

---------------------------------------------------------------------------
(* Properties.                                                             *)

\* Every variable holds values of its kind.
Events ==
  [type : {"send", "edit", "delete", "read"}, by : Users, about : SUBSET Msgs,
   text : Texts \cup {0}]
MessagesTypeOK ==
  /\ messages \in [Msgs -> Rows]
  /\ later \in [Msgs -> SUBSET Msgs]
  /\ linked \subseteq Checks
  /\ \A o \in Ops : ops[o] = NoOp \/ ops[o] \in Requests
  /\ \A u \in Users : /\ \A i \in DOMAIN inbox[u] : inbox[u][i] \in Events
                      /\ view[u] \in [Msgs -> Rows]
                      /\ left[u] \in [Msgs -> SUBSET Rows]
  /\ panel \in [Users -> {"open", "hidden"}]
  /\ unread \in [Users -> Nat]
  /\ asked \in 0..MaxRequests

\* A user who was not a friend, or was blocked, for as long as the request has
\* been on its way reaches no statement of the table, whatever its kind.
CutOffStaysOut ==
  \A o \in Busy : (ops[o].step \in {"write", "publish", "show"} /\ ops[o].kind # "count")
                  => ops[o].met = Checks

\* A deleted message never changes again: an edit or a receipt that was
\* checked before the deletion does not reach the row.
DeletedIsFinal == [][\A m \in Msgs : messages[m].deleted => messages'[m] = messages[m]]_messages

\* A message is announced deleted at most once, and is in one receipt at most,
\* however many requests for it overlap.
AnnouncedOnce == \A m \in Msgs : hist.deleted[m] <= 1 /\ hist.read[m] <= 1

\* A message stands twice on a panel only if the history brought it before its
\* event did.  When nothing is on its way, the element in view of every message
\* is as the table has it, unless an event arrived between the reading of the
\* history and its display, the socket was lost, or the message's events crossed;
\* what an open panel does not show was never sent, or is older than the page.
Quiet == Busy = {} /\ \A u \in Users : inbox[u] = <<>>
PanelConverges ==
  /\ \A u \in Users : \A m \in Msgs : left[u][m] # {} => m \in hist.early[u]
  /\ Quiet => \A u \in Users \ hist.raced : panel[u] = "open" =>
       \A m \in Msgs \ hist.crossed :
         LET shown == view[u][m]
             real == Render(u, m, messages[m])
         IN  /\ shown.text = 0 => (real.text = 0 \/ m \notin Newest)
             /\ shown.text # 0 => /\ real.text # 0
                                  /\ shown.deleted = real.deleted /\ shown.read = real.read
                                  /\ ~real.deleted => shown.text = real.text

\* Until a user first opens the panel the badge counts the messages that wait,
\* when nothing is on its way: what was deleted meanwhile is out of it again,
\* and a refresh that no event crossed repairs what a lost socket missed.
BadgeCounts ==
  Quiet => \A u \in Users \ (hist.opened \cup hist.doubt) :
    Mine(Other(u)) \cap hist.crossed = {} => unread[u] = Cardinality(Unread(u))

\* The variables keep their types, nothing is announced twice, and those who
\* are cut off reach no statement.
MessagesKept == MessagesTypeOK /\ AnnouncedOnce /\ CutOffStaysOut
=============================================================================
