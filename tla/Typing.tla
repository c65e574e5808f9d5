------------------------------- MODULE Typing -------------------------------
(***************************************************************************)
(* Who is typing: a user writes in the room's chat or in a conversation,   *)
(* and another user's page shows that they are typing, and what they said. *)
(*                                                                         *)
(* The writer's panel sends a change of its state; the server takes it     *)
(* from the socket's queue, if the user's token bucket has a token, drops  *)
(* what it believes is no change, and tells the room at once or the friend *)
(* after asking the database.  The buckets belong to the user and refill   *)
(* by a clock that may be set back.  A socket may be lost and replaced at  *)
(* any time, before or after the server noticed.                           *)
(***************************************************************************)
EXTENDS Integers, Sequences, FiniteSets, SequencesExt

CONSTANTS
  Burst, Refill,  \* RATE_LIMITS: [Kinds -> tokens, and tokens per tick]
  MaxBubbles,     \* Avatar.maxChatBubbles
  MaxClock,       \* bound: the clock's values
  MaxForward,     \* bound: how far the clock advances in all
  MaxUp, MaxOps, MaxLink   \* bounds: messages sent, in handlers, published

\* Rooms and conversations have a bucket each for what is said, and share the
\* one for typing.
Kinds == {"chat", "dm", "typing"}

ASSUME TypingAssumption ==
  /\ Burst \in [Kinds -> Nat \ {0}] /\ Refill \in [Kinds -> Nat]
  /\ MaxBubbles \in Nat /\ MaxClock \in Nat /\ MaxForward \in Nat
  /\ {MaxUp, MaxOps, MaxLink} \subseteq Nat

VARIABLES
  place,    \* "room" or "conversation": where the user writes
  panel,    \* the writer's panel: has text, isTyping, typingTimeout is set
  online,   \* Game.connected
  due,      \* the snapshot on its way to the writer
  up,       \* messages in the writer's socket: "say", "on" or "off"
  where,    \* the writer's socket: in the room looked at, in another, in none
  stale,    \* the lost socket's user is still in the room
  last,     \* lastTypingState or the friend's lastDirectTypingStates
  ops,      \* handlers at their await
  bucket,   \* UserRateLimitStore: [Kinds -> tokens and time of the last use]
  clock,
  link,     \* messages on their way to the other page
  shown,    \* that page: an avatar or open conversation, isTyping, bubbles
  hist      \* history: see the properties

writer == <<place, panel, online, due>>
server == <<where, stale, last, ops>>
limits == <<bucket, clock>>
vars == <<writer, up, server, limits, link, shown, hist>>

InRoom == place = "room"
Kind(m) == IF m # "say" THEN "typing" ELSE IF InRoom THEN "chat" ELSE "dm"
Lost == hist' = [hist EXCEPT !.lost = TRUE]

---------------------------------------------------------------------------
(* The panel.                                                              *)

Send(ms) ==
  IF online THEN Len(up) + Len(ms) <= MaxUp /\ up' = up \o ms ELSE UNCHANGED up

NeverOff(b) == IF b /\ ~panel.typing THEN <<"on">> ELSE <<>>        \* (mutant)
Change(b) == IF panel.typing = b THEN <<>> ELSE <<IF b THEN "on" ELSE "off">>

KeepsTimer(b, text, before) ==                                    \* (mutant)
  /\ Send(before \o Change(b))
  /\ panel' = [text |-> text, typing |-> b, timer |-> panel.timer \/ b]
  /\ UNCHANGED <<place, online, due, server, limits, link, shown, hist>>
\* A change made without a connection is not sent, and not made up for.
SetTyping(b, text, before) ==
  /\ Send(before \o Change(b))
  /\ panel' = [text |-> text, typing |-> b, timer |-> b]
  /\ IF ~online /\ panel.typing # b THEN Lost ELSE UNCHANGED hist
  /\ UNCHANGED <<place, online, due, server, limits, link, shown>>

HandleInputChanged(text) == SetTyping(text, text, <<>>)

TypingTimeout == panel.timer /\ SetTyping(FALSE, panel.text, <<>>)

\* The handler refuses without a connection, and the text stays.
Enter ==
  /\ panel.text /\ online
  /\ SetTyping(FALSE, FALSE, <<"say">>)

\* chat.clear when a snapshot arrives; or the conversation is hidden.
Clear ==
  /\ IF InRoom THEN due ELSE TRUE
  /\ Send(Change(FALSE))
  /\ panel' = [text |-> panel.text /\ ~InRoom, typing |-> FALSE, timer |-> FALSE]
  /\ due' = FALSE
  /\ IF ~online /\ panel.typing THEN Lost ELSE UNCHANGED hist
  /\ UNCHANGED <<place, online, server, limits, link, shown>>

---------------------------------------------------------------------------
(* consumeRateLimit.                                                       *)

Larger(a, b) == IF a > b THEN a ELSE b
Smaller(a, b) == IF a < b THEN a ELSE b

AnyElapsed(k) ==                                                  \* (mutant)
  Smaller(Burst[k], bucket[k].tokens
     + Larger(clock - bucket[k].at, bucket[k].at - clock) * Refill[k])
Tokens(k) ==
  Smaller(Burst[k], bucket[k].tokens + Larger(0, clock - bucket[k].at) * Refill[k])

ConsumeRateLimit(k) ==
  bucket' = [bucket EXCEPT ![k] =
    [tokens |-> IF Tokens(k) < 1 THEN Tokens(k) ELSE Tokens(k) - 1, at |-> clock]]

\* Date.now(): it advances, or is set back.
ClockAdvances ==
  /\ clock < MaxClock /\ hist.forward < MaxForward
  /\ clock' = clock + 1
  /\ hist' = [hist EXCEPT !.forward = @ + 1]
  /\ UNCHANGED <<writer, up, server, bucket, link, shown>>

ClockSetBack ==
  /\ clock > 0 /\ hist.forward < MaxForward
  /\ clock' = clock - 1
  /\ UNCHANGED <<writer, up, server, bucket, link, shown, hist>>

---------------------------------------------------------------------------
(* The server.                                                             *)

Publish(m) == Len(link) < MaxLink /\ link' = Append(link, m)
PublishToRoom(m) == IF where = "here" THEN Publish(m) ELSE UNCHANGED link

Take(k) ==
  /\ up' = Tail(up)
  /\ ConsumeRateLimit(k)
  /\ UNCHANGED <<writer, clock, where, stale, shown>>

Accepted(k, lost) ==
  hist' = [hist EXCEPT !.accepted[k] = @ + 1, !.lost = lost]

\* What is published is what the panel says, and nothing is behind it.
Current(m, behind) == behind = <<>> /\ panel.typing = (m = "on")

RefusedMessage(k) ==
  /\ up # <<>> /\ k = Kind(Head(up))
  /\ Tokens(k) < 1
  /\ Take(k)
  /\ Lost
  /\ UNCHANGED <<last, ops, link>>

ChatSay ==
  /\ InRoom /\ up # <<>> /\ Head(up) = "say"
  /\ Tokens("chat") >= 1
  /\ Take("chat")
  /\ Accepted("chat", hist.lost)
  /\ PublishToRoom("say")
  /\ UNCHANGED <<last, ops>>

IsChange(b) == last # b

\* A socket in no room is refused; in another room, that room is told.
ChatTyping(b) ==
  /\ InRoom /\ up # <<>> /\ Head(up) = b /\ b \in {"on", "off"}
  /\ Tokens("typing") >= 1
  /\ Take("typing")
  /\ IF where # "none" /\ IsChange(b)
     THEN /\ last' = b /\ PublishToRoom(b)
          /\ Accepted("typing", hist.lost /\ ~(where = "here" /\ Current(b, Tail(up))))
     ELSE UNCHANGED <<last, link>> /\ Accepted("typing", hist.lost \/ where = "none")
  /\ UNCHANGED ops

\* sendDirectMessage and sendDirectTyping up to their await.
StartDirect(k) ==
  LET m == Head(up) IN
  /\ ~InRoom /\ up # <<>> /\ k = Kind(m)
  /\ Tokens(k) >= 1
  /\ Take(k)
  /\ IF m = "say" \/ IsChange(m)
     THEN Len(ops) < MaxOps /\ ops' = Append(ops, [m |-> m, old |-> FALSE]) /\ Accepted(k, hist.lost)
     ELSE UNCHANGED ops /\ Accepted(k, hist.lost \/ ops # <<>>)
  /\ UNCHANGED <<last, link>>

\* The database answers, in any order.  A handler of a socket that is gone goes
\* on, and writes to that socket's states.
DirectDone(i) ==
  LET m == ops[i].m
      alone == Len(ops) = 1
  IN
  /\ i \in DOMAIN ops
  /\ ops' = RemoveAt(ops, i)
  /\ Publish(m)
  /\ last' = IF m = "say" \/ ops[i].old THEN last ELSE m
  /\ hist' = [hist EXCEPT !.lost =
               (@ \/ ~alone) /\ ~(m # "say" /\ ~ops[i].old /\ Current(m, up) /\ alone)]
  /\ UNCHANGED <<writer, up, where, stale, limits, shown>>

\* The friendship ended, or the query failed.
DirectFails(i) ==
  /\ i \in DOMAIN ops
  /\ ops' = RemoveAt(ops, i)
  /\ Lost
  /\ UNCHANGED <<writer, up, where, stale, last, limits, link, shown>>

---------------------------------------------------------------------------
(* The writer's socket and room.                                           *)

\* What was sent and not handled is gone.
Drop ==
  /\ online /\ online' = FALSE
  /\ up' = <<>> /\ due' = FALSE
  /\ stale' = (where = "here") /\ where' = "none"
  /\ last' = "unset"
  /\ ops' = [i \in DOMAIN ops |-> [ops[i] EXCEPT !.old = TRUE]]
  /\ IF up = <<>> /\ ops = <<>> THEN UNCHANGED hist ELSE Lost
  /\ UNCHANGED <<place, panel, limits, link, shown>>

CloseSeen ==
  /\ ~online /\ stale
  /\ stale' = FALSE
  /\ IF InRoom THEN Publish("left") ELSE UNCHANGED link
  /\ UNCHANGED <<writer, up, where, last, ops, limits, shown, hist>>

Reconnect ==
  /\ ~online /\ online' = TRUE
  /\ UNCHANGED <<place, panel, due, up, server, limits, link, shown, hist>>

\* A join, or the resumed one that finds the user still there and announces
\* nobody.  A user changes rooms with the typing state as it is.
Join(room) ==
  /\ online /\ where # room
  /\ where' = room /\ stale' = FALSE
  /\ due' = TRUE
  /\ IF ~InRoom THEN UNCHANGED link
     ELSE IF room = "here" /\ ~stale THEN Publish("joined")
     ELSE IF room = "away" /\ (where = "here" \/ stale) THEN Publish("left")
     ELSE UNCHANGED link
  /\ hist' = [hist EXCEPT !.lost = @ \/ (room = "here" /\ panel.typing)]
  /\ UNCHANGED <<place, panel, online, up, last, ops, limits, shown>>

---------------------------------------------------------------------------
(* The other page.                                                         *)

Nothing == [there |-> FALSE, typing |-> FALSE, bubbles |-> 0]
Fresh == [there |-> TRUE, typing |-> FALSE, bubbles |-> 0]

HandleServerMessage ==
  LET m == Head(link) IN
  /\ link # <<>> /\ link' = Tail(link)
  /\ shown' =
       CASE m = "left" -> Nothing
         [] m = "joined" -> Fresh
         [] m = "say" /\ shown.there ->
              [shown EXCEPT !.typing = FALSE, !.bubbles = Smaller(@ + 1, MaxBubbles)]
         [] m \in {"on", "off"} /\ shown.there -> [shown EXCEPT !.typing = (m = "on")]
         [] OTHER -> shown
  /\ UNCHANGED <<writer, up, server, limits, hist>>

\* The other user joins again, or opens the conversation: nobody is typing.
Reload ==
  /\ shown' = IF ~InRoom \/ where = "here" \/ stale THEN Fresh ELSE Nothing
  /\ link' = <<>>
  /\ Lost
  /\ UNCHANGED <<writer, up, server, limits>>

BubbleExpires ==
  /\ shown.bubbles > 0
  /\ shown' = [shown EXCEPT !.bubbles = @ - 1]
  /\ UNCHANGED <<writer, up, server, limits, link, hist>>

---------------------------------------------------------------------------

Init ==
  /\ place \in {"room", "conversation"}
  /\ panel = [text |-> FALSE, typing |-> FALSE, timer |-> FALSE]
  /\ online = TRUE /\ due = FALSE /\ up = <<>>
  /\ where = "here" /\ stale = FALSE /\ last = "unset" /\ ops = <<>>
  /\ bucket = [k \in Kinds |-> [tokens |-> Burst[k], at |-> 0]]
  /\ clock = 0 /\ link = <<>>
  /\ shown = Fresh
  /\ hist = [lost |-> FALSE, forward |-> 0, accepted |-> [k \in Kinds |-> 0]]

Next ==
  \/ \E text \in BOOLEAN : HandleInputChanged(text)
  \/ TypingTimeout \/ Enter \/ Clear
  \/ ClockAdvances \/ ClockSetBack
  \/ \E k \in Kinds : RefusedMessage(k) \/ StartDirect(k)
  \/ ChatSay \/ \E b \in {"on", "off"} : ChatTyping(b)
  \/ \E i \in 1 .. MaxOps : DirectDone(i) \/ DirectFails(i)
  \/ Drop \/ CloseSeen \/ Reconnect \/ \E room \in {"here", "away"} : Join(room)
  \/ HandleServerMessage \/ Reload \/ BubbleExpires

Spec == Init /\ [][Next]_vars

---------------------------------------------------------------------------
(* Properties.  hist.forward is how far the clock has advanced in all,     *)
(* hist.accepted how many messages passed each bucket; hist.lost is TRUE   *)
(* while a change of the panel was refused, dropped or lost, or overtook   *)
(* another, until a later one is published alone.                          *)

\* Every variable holds values of its kind, and a panel that says its user is
\* typing has a timer that will say otherwise, whatever sent, cleared or lost.
TypeOK ==
  /\ panel.typing = panel.timer
  /\ up \in Seq({"say", "on", "off"})
  /\ ops \in Seq([m : {"say", "on", "off"}, old : BOOLEAN])
  /\ link \in Seq({"say", "on", "off", "joined", "left"})
  /\ where \in {"here", "away", "none"} /\ last \in {"unset", "on", "off"}
  /\ \A k \in Kinds : bucket[k].tokens \in 0 .. Burst[k] /\ bucket[k].at \in 0 .. MaxClock
  /\ shown.bubbles \in 0 .. MaxBubbles

\* No user gets more messages through than the burst and what the clock's
\* advance refills, over any number of sockets, and though the clock is set back.
RateHolds ==
  \A k \in Kinds : hist.accepted[k] <= Burst[k] + Refill[k] * hist.forward

\* When everything sent has been handled, the other page shows the user typing
\* exactly while the panel says so: in the room without a message between.
IndicatorTrue ==
  (/\ online /\ up = <<>> /\ ops = <<>> /\ link = <<>> /\ ~due
   /\ ~hist.lost /\ shown.there /\ (InRoom => where = "here"))
    => shown.typing = panel.typing

\* The variables keep their types, a panel that types has its timer, and the
\* buckets let no more through than they hold and refill.
BucketsHold == TypeOK /\ RateHolds
=============================================================================
