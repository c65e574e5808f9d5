---------------------------- MODULE Typing_proofs ----------------------------
(***************************************************************************)
(* The two rate limits, for any limits and any clock, the token buckets of *)
(* Typing and the fixed windows of FixedWindowRateLimiter, and what the    *)
(* other page shows of who types.                                          *)
(*                                                                         *)
(* None of it is inductive.  What a bucket holds, and what it will hold at *)
(* its next use, has to be counted with what it let through; how far the   *)
(* clock has advanced has to be compared with where the open window is,    *)
(* and, once a window is pruned, with its end; and a change of who types   *)
(* has to be followed from the panel to the page.                          *)
(***************************************************************************)
EXTENDS Typing, FixedWindowRateLimiter, TLAPS

---------------------------------------------------------------------------
(* Typing: the token buckets of chat and typing.                           *)

Messages == {"say", "on", "off"}
Handler == [m : Messages, old : BOOLEAN]
Published == {"say", "on", "off", "joined", "left"}

Queues ==
  /\ up \in Seq(Messages) /\ ops \in Seq(Handler) /\ link \in Seq(Published)
  /\ where \in {"here", "away", "none"} /\ last \in {"unset", "on", "off"}

Panel == panel.typing = panel.timer

Page ==
  /\ shown = [there |-> shown.there, typing |-> shown.typing, bubbles |-> shown.bubbles]
  /\ shown.bubbles \in 0 .. MaxBubbles

Limits ==
  /\ bucket \in [Kinds -> [tokens : Nat, at : 0 .. MaxClock]]
  /\ \A k \in Kinds : bucket[k].tokens <= Burst[k]
  /\ clock \in 0 .. MaxClock
  /\ hist = [lost |-> hist.lost, forward |-> hist.forward, accepted |-> hist.accepted]
  /\ hist.forward \in Nat /\ hist.accepted \in [Kinds -> Nat]

\* What the bucket of a kind gains at its next use, if it does not run over.
Gain(k) == Larger(0, clock - bucket[k].at) * Refill[k]
Budget ==
  \A k \in Kinds :
    hist.accepted[k] + bucket[k].tokens + Gain(k) <= Burst[k] + hist.forward * Refill[k]

TInv == Queues /\ Panel /\ Page /\ Limits /\ Budget

---------------------------------------------------------------------------
(* The buckets.                                                            *)

LEMMA Sizes ==
  ASSUME Limits, NEW k \in Kinds
  PROVE  /\ Burst[k] \in Nat \ {0} /\ Refill[k] \in Nat
         /\ bucket[k].tokens \in Nat /\ bucket[k].at \in Int /\ clock \in Int
         /\ hist.accepted[k] \in Nat /\ hist.forward \in Nat
         /\ Larger(0, clock - bucket[k].at) \in Nat
  BY TypingAssumption DEF Limits, Larger

LEMMA Products ==
  ASSUME NEW a \in Nat, NEW b \in Nat, NEW r \in Nat
  PROVE  /\ a * r \in Nat /\ (a + 1) * r = a * r + r /\ 0 * r = 0
         /\ b <= a => b * r <= a * r
         /\ b <= a + 1 => b * r <= a * r + r
<1>1. a * r \in Nat /\ b * r \in Nat /\ (a + 1) * r = a * r + r /\ 0 * r = 0
  OBVIOUS
<1>2. ASSUME NEW c \in Nat, b <= c
      PROVE  b * r <= c * r
  <2>1. PICK d \in Nat : c = b + d
    <3>1. c - b \in Nat /\ c = b + (c - b)
      BY <1>2
    <3> QED
      BY <3>1
  <2>2. c * r = b * r + d * r /\ d * r \in Nat
    BY <2>1
  <2> QED
    BY <1>1, <2>2
<1>3. b <= a + 1 => b * r <= (a + 1) * r
  BY <1>2
<1> QED
  BY <1>1, <1>2, <1>3

\* One use of a bucket: it fills, up to the burst, and gives a token.
LEMMA UseOfBucket ==
  ASSUME Limits, Budget, NEW k \in Kinds, ConsumeRateLimit(k), clock' = clock,
         hist' = [lost |-> hist'.lost, forward |-> hist'.forward, accepted |-> hist'.accepted],
         hist'.forward = hist.forward,
         \/ hist'.accepted = hist.accepted
         \/ Tokens(k) >= 1 /\ hist'.accepted = [hist.accepted EXCEPT ![k] = @ + 1]
  PROVE  Limits' /\ Budget'
<1> DEFINE left == IF Tokens(k) < 1 THEN Tokens(k) ELSE Tokens(k) - 1
<1>1. /\ Burst[k] \in Nat \ {0} /\ Gain(k) \in Nat /\ bucket[k].tokens \in Nat
      /\ hist.accepted[k] \in Nat /\ hist.forward * Refill[k] \in Nat
  BY Sizes, Products DEF Gain
<1>2. Tokens(k) \in Nat /\ Tokens(k) <= Burst[k] /\ Tokens(k) <= bucket[k].tokens + Gain(k)
  BY <1>1 DEF Tokens, Smaller, Gain
<1>3. left \in Nat /\ left <= Tokens(k) /\ (Tokens(k) >= 1 => left = Tokens(k) - 1)
  BY <1>2
<1>4. bucket' = [bucket EXCEPT ![k] = [tokens |-> left, at |-> clock]]
  BY DEF ConsumeRateLimit
<1> HIDE DEF left
<1>5. /\ bucket' \in [Kinds -> [tokens : Nat, at : 0 .. MaxClock]]
      /\ bucket'[k].tokens = left /\ bucket'[k].at = clock
      /\ \A j \in Kinds \ {k} : bucket'[j] = bucket[j]
  BY <1>3, <1>4 DEF Limits
<1>6. /\ hist'.accepted \in [Kinds -> Nat]
      /\ \A j \in Kinds \ {k} : hist'.accepted[j] = hist.accepted[j]
      /\ \/ hist'.accepted[k] = hist.accepted[k]
         \/ Tokens(k) >= 1 /\ hist'.accepted[k] = hist.accepted[k] + 1
  BY DEF Limits
<1>7. Limits'
  <2>1. \A j \in Kinds : bucket'[j].tokens <= Burst[j]
    BY <1>1, <1>2, <1>3, <1>5 DEF Limits
  <2> QED
    BY <1>5, <1>6, <2>1 DEF Limits
<1>8. Budget'
  <2> SUFFICES ASSUME NEW j \in Kinds
               PROVE  hist'.accepted[j] + bucket'[j].tokens + Gain(j)' <= Burst[j] + hist'.forward * Refill[j]
    BY DEF Budget
  <2>1. CASE j # k
    BY <1>5, <1>6, <2>1 DEF Budget, Gain
  <2>2. CASE j = k
    <3>1. Gain(k)' = 0
      <4>1. Larger(0, clock - clock) = 0
        BY Sizes DEF Larger
      <4> QED
        BY <1>5, <4>1, Sizes, Products DEF Gain
    <3>2. hist.accepted[k] + bucket[k].tokens + Gain(k) <= Burst[k] + hist.forward * Refill[k]
      BY DEF Budget
    <3>3. hist'.accepted[k] + left <= hist.accepted[k] + Tokens(k)
      BY <1>1, <1>2, <1>3, <1>6
    <3>4. hist'.accepted[k] \in Nat
      BY <1>6
    <3> QED
      BY <1>1, <1>2, <1>3, <1>5, <2>2, <3>1, <3>2, <3>3, <3>4
  <2> QED
    BY <2>1, <2>2
<1> QED
  BY <1>7, <1>8

\* Nothing passes a bucket.
LEMMA NoUse ==
  ASSUME Limits, Budget, UNCHANGED limits,
         hist' = [lost |-> hist'.lost, forward |-> hist'.forward, accepted |-> hist'.accepted],
         hist'.forward = hist.forward, hist'.accepted = hist.accepted
  PROVE  Limits' /\ Budget'
<1>1. Limits'
  BY DEF Limits, limits
<1>2. Budget'
  BY DEF Budget, Gain, limits
<1> QED
  BY <1>1, <1>2

LEMMA ClockAdvancesInv ==
  ASSUME Limits, Budget, ClockAdvances
  PROVE  Limits' /\ Budget'
<1>1. /\ clock' = clock + 1 /\ bucket' = bucket /\ clock < MaxClock
      /\ hist' = [hist EXCEPT !.forward = @ + 1]
  BY DEF ClockAdvances
<1>2. /\ hist' = [lost |-> hist'.lost, forward |-> hist'.forward, accepted |-> hist'.accepted]
      /\ hist'.forward = hist.forward + 1 /\ hist'.accepted = hist.accepted
  BY <1>1 DEF Limits
<1>3. Limits'
  BY <1>1, <1>2, TypingAssumption DEF Limits
<1>4. Budget'
  <2> SUFFICES ASSUME NEW k \in Kinds
               PROVE  hist'.accepted[k] + bucket'[k].tokens + Gain(k)' <= Burst[k] + hist'.forward * Refill[k]
    BY DEF Budget
  <2> DEFINE a == Larger(0, clock - bucket[k].at)
             b == Larger(0, (clock + 1) - bucket[k].at)
  <2>1. a \in Nat /\ b \in Nat /\ b <= a + 1
    BY Sizes DEF Larger
  <2>2. Gain(k) = a * Refill[k] /\ Gain(k)' = b * Refill[k]
    BY <1>1 DEF Gain
  <2> HIDE DEF a, b
  <2>3. Gain(k) \in Nat /\ Gain(k)' \in Nat /\ Gain(k)' <= Gain(k) + Refill[k]
    BY <2>1, <2>2, Sizes, Products
  <2>4. hist'.forward * Refill[k] = hist.forward * Refill[k] + Refill[k] /\ hist.forward * Refill[k] \in Nat
    BY <1>2, Sizes, Products
  <2>5. hist.accepted[k] + bucket[k].tokens + Gain(k) <= Burst[k] + hist.forward * Refill[k]
    BY DEF Budget
  <2>6. Burst[k] \in Nat /\ Refill[k] \in Nat /\ hist.accepted[k] \in Nat /\ bucket[k].tokens \in Nat
    BY Sizes
  <2> HIDE DEF Gain
  <2> QED
    BY <1>1, <1>2, <2>3, <2>4, <2>5, <2>6
<1> QED
  BY <1>3, <1>4

LEMMA ClockSetBackInv ==
  ASSUME Limits, Budget, ClockSetBack
  PROVE  Limits' /\ Budget'
<1>1. clock' = clock - 1 /\ bucket' = bucket /\ clock > 0 /\ hist' = hist
  BY DEF ClockSetBack
<1>2. Limits'
  BY <1>1, TypingAssumption DEF Limits
<1>3. Budget'
  <2> SUFFICES ASSUME NEW k \in Kinds
               PROVE  hist'.accepted[k] + bucket'[k].tokens + Gain(k)' <= Burst[k] + hist'.forward * Refill[k]
    BY DEF Budget
  <2> DEFINE a == Larger(0, clock - bucket[k].at)
             b == Larger(0, clock - 1 - bucket[k].at)
  <2>1. a \in Nat /\ b \in Nat /\ b <= a
    BY Sizes DEF Larger
  <2>2. Gain(k) = a * Refill[k] /\ Gain(k)' = b * Refill[k]
    BY <1>1 DEF Gain
  <2> HIDE DEF a, b
  <2>3. Gain(k) \in Nat /\ Gain(k)' \in Nat /\ Gain(k)' <= Gain(k) /\ hist.forward * Refill[k] \in Nat
    <3>1. /\ a * Refill[k] \in Nat /\ b * Refill[k] \in Nat
          /\ b * Refill[k] <= a * Refill[k]
      BY <2>1, Sizes, Products
    <3>2. hist.forward * Refill[k] \in Nat
      BY Sizes, Products
    <3> QED
      BY <2>2, <3>1, <3>2
  <2>4. hist.accepted[k] + bucket[k].tokens + Gain(k) <= Burst[k] + hist.forward * Refill[k]
    BY DEF Budget
  <2>5. Burst[k] \in Nat /\ hist.accepted[k] \in Nat /\ bucket[k].tokens \in Nat
    BY Sizes
  <2> HIDE DEF Gain
  <2> QED
    BY <1>1, <2>3, <2>4, <2>5
<1> QED
  BY <1>2, <1>3

---------------------------------------------------------------------------
(* History.                                                                *)

HistKept ==
  /\ hist' = [lost |-> hist'.lost, forward |-> hist'.forward, accepted |-> hist'.accepted]
  /\ hist'.forward = hist.forward

LEMMA LostIs ==
  ASSUME Limits, UNCHANGED hist \/ Lost
  PROVE  HistKept /\ hist'.accepted = hist.accepted
<1>1. CASE UNCHANGED hist
  BY <1>1 DEF HistKept, Limits
<1>2. CASE Lost
  BY <1>2 DEF HistKept, Limits, Lost
<1> QED
  BY <1>1, <1>2

LEMMA AcceptedIs ==
  ASSUME Limits, NEW k \in Kinds, NEW lost, Accepted(k, lost)
  PROVE  HistKept /\ hist'.accepted = [hist.accepted EXCEPT ![k] = @ + 1]
<1> DEFINE accepted == [hist.accepted EXCEPT ![k] = @ + 1]
<1>1. hist' = [hist EXCEPT !.accepted = accepted, !.lost = lost]
  BY DEF Accepted
<1> HIDE DEF accepted
<1>2. HistKept /\ hist'.accepted = accepted
  BY <1>1 DEF HistKept, Limits
<1> QED
  BY <1>2 DEF accepted

---------------------------------------------------------------------------
(* Queues.                                                                 *)

LEMMA SendIs ==
  ASSUME Queues, NEW ms \in Seq(Messages), Send(ms)
  PROVE  up' \in Seq(Messages)
<1>1. up \in Seq(Messages) /\ up \o ms \in Seq(Messages)
  BY DEF Queues
<1> QED
  BY <1>1 DEF Send

LEMMA ChangeIs ==
  ASSUME NEW b
  PROVE  Change(b) \in Seq(Messages)
<1>1. <<>> \in Seq(Messages) /\ <<"on">> \in Seq(Messages) /\ <<"off">> \in Seq(Messages)
  BY DEF Messages
<1> QED
  BY <1>1 DEF Change

LEMMA TakeIs ==
  ASSUME Queues, up # <<>>, NEW k, Take(k)
  PROVE  up' \in Seq(Messages) /\ Head(up) \in Messages
  BY DEF Queues, Take

LEMMA PublishIs ==
  ASSUME Queues, NEW m \in Published, Publish(m)
  PROVE  link' \in Seq(Published)
  BY DEF Queues, Publish

LEMMA HandlerLeaves ==
  ASSUME Queues, NEW i \in DOMAIN ops, ops' = RemoveAt(ops, i)
  PROVE  ops' \in Seq(Handler) /\ ops[i] \in Handler
<1>1. ops \in Seq(Handler) /\ i \in 1 .. Len(ops)
  BY DEF Queues
<1>2. SubSeq(ops, 1, i - 1) \in Seq(Handler) /\ SubSeq(ops, i + 1, Len(ops)) \in Seq(Handler)
  BY <1>1
<1>3. ops' = SubSeq(ops, 1, i - 1) \o SubSeq(ops, i + 1, Len(ops))
  BY DEF RemoveAt
<1> QED
  BY <1>1, <1>2, <1>3

---------------------------------------------------------------------------
(* The steps.                                                              *)

LEMMA SetTypingInv ==
  ASSUME TInv, NEW b, NEW text, NEW before \in Seq(Messages), SetTyping(b, text, before)
  PROVE  TInv'
<1>1. Queues /\ Page /\ Limits /\ Budget
  BY DEF TInv
<1>2. before \o Change(b) \in Seq(Messages)
  BY ChangeIs
<1>3. up' \in Seq(Messages)
  BY <1>1, <1>2, SendIs DEF SetTyping
<1>4. UNCHANGED <<server, limits, link, shown>> /\ (UNCHANGED hist \/ Lost)
  BY DEF SetTyping
<1>5. Limits' /\ Budget'
  BY <1>1, <1>4, LostIs, NoUse DEF HistKept
<1>6. Queues'
  BY <1>1, <1>3, <1>4 DEF Queues, server
<1>7. Panel'
  BY DEF SetTyping, Panel
<1>8. Page'
  BY <1>1, <1>4 DEF Page
<1> QED
  BY <1>5, <1>6, <1>7, <1>8 DEF TInv

LEMMA PanelInv ==
  ASSUME TInv,
         \/ \E text \in BOOLEAN : HandleInputChanged(text)
         \/ TypingTimeout \/ Enter
  PROVE  TInv'
<1>1. <<>> \in Seq(Messages) /\ <<"say">> \in Seq(Messages)
  BY DEF Messages
<1>2. ASSUME NEW text \in BOOLEAN, HandleInputChanged(text)
      PROVE  TInv'
  BY <1>1, <1>2, SetTypingInv DEF HandleInputChanged
<1>3. CASE TypingTimeout
  BY <1>1, <1>3, SetTypingInv DEF TypingTimeout
<1>4. CASE Enter
  BY <1>1, <1>4, SetTypingInv DEF Enter
<1> QED
  BY <1>2, <1>3, <1>4

LEMMA ClearInv ==
  ASSUME TInv, Clear
  PROVE  TInv'
<1>1. Queues /\ Page /\ Limits /\ Budget
  BY DEF TInv
<1>2. up' \in Seq(Messages)
  BY <1>1, ChangeIs, SendIs DEF Clear
<1>3. UNCHANGED <<server, limits, link, shown>> /\ (UNCHANGED hist \/ Lost)
  BY DEF Clear
<1>4. Limits' /\ Budget'
  BY <1>1, <1>3, LostIs, NoUse DEF HistKept
<1>5. Queues' /\ Panel' /\ Page'
  BY <1>1, <1>2, <1>3 DEF Queues, server, Clear, Panel, Page
<1> QED
  BY <1>4, <1>5 DEF TInv

LEMMA ClockInv ==
  ASSUME TInv, ClockAdvances \/ ClockSetBack
  PROVE  TInv'
<1>1. Queues' /\ Panel' /\ Page'
  BY DEF TInv, Queues, Panel, Page, ClockAdvances, ClockSetBack, writer, server
<1>2. Limits' /\ Budget'
  BY ClockAdvancesInv, ClockSetBackInv DEF TInv
<1> QED
  BY <1>1, <1>2 DEF TInv

\* A message is taken from the socket, and costs a token if it passes.
LEMMA TakeInv ==
  ASSUME TInv, up # <<>>, NEW k \in Kinds, Take(k), HistKept,
         \/ hist'.accepted = hist.accepted
         \/ Tokens(k) >= 1 /\ hist'.accepted = [hist.accepted EXCEPT ![k] = @ + 1],
         ops' \in Seq(Handler), link' \in Seq(Published), last' \in {"unset", "on", "off"}
  PROVE  TInv'
<1>1. Limits' /\ Budget'
  BY UseOfBucket DEF TInv, Take, HistKept
<1>2. Queues'
  BY TakeIs DEF TInv, Queues, Take
<1>3. Panel' /\ Page'
  BY DEF TInv, Panel, Page, Take, writer
<1> QED
  BY <1>1, <1>2, <1>3 DEF TInv

LEMMA MessageInv ==
  ASSUME TInv,
         \/ \E k \in Kinds : RefusedMessage(k) \/ StartDirect(k)
         \/ ChatSay
         \/ \E b \in {"on", "off"} : ChatTyping(b)
  PROVE  TInv'
<1>1. Queues /\ Limits /\ "chat" \in Kinds /\ "typing" \in Kinds
  BY DEF TInv, Kinds
<1>2. /\ ops \in Seq(Handler) /\ link \in Seq(Published) /\ last \in {"unset", "on", "off"}
      /\ \A m \in {"say", "on", "off"} : m \in Published
  BY <1>1 DEF Queues, Published
<1>3. ASSUME NEW k \in Kinds, RefusedMessage(k)
      PROVE  TInv'
  <2>1. HistKept /\ hist'.accepted = hist.accepted
    BY <1>1, <1>3, LostIs DEF RefusedMessage
  <2> QED
    BY <1>2, <1>3, <2>1, TakeInv DEF RefusedMessage
<1>4. ASSUME NEW k \in Kinds, StartDirect(k)
      PROVE  TInv'
  <2>1. up # <<>> /\ Take(k) /\ Tokens(k) >= 1 /\ UNCHANGED <<last, link>>
    BY <1>4 DEF StartDirect
  <2>2. HistKept /\ hist'.accepted = [hist.accepted EXCEPT ![k] = @ + 1]
    BY <1>1, <1>4, AcceptedIs DEF StartDirect
  <2>3. ops' \in Seq(Handler)
    <3>1. Head(up) \in Messages
      BY <1>1, <2>1, TakeIs
    <3>2. [m |-> Head(up), old |-> FALSE] \in Handler
      BY <3>1 DEF Handler
    <3>3. Append(ops, [m |-> Head(up), old |-> FALSE]) \in Seq(Handler)
      BY <1>2, <3>2
    <3>4. \/ ops' = Append(ops, [m |-> Head(up), old |-> FALSE])
          \/ ops' = ops
      BY <1>4 DEF StartDirect
    <3> QED
      BY <1>2, <3>3, <3>4
  <2> QED
    BY <1>2, <2>1, <2>2, <2>3, TakeInv
<1>5. CASE ChatSay
  <2>1. HistKept /\ hist'.accepted = [hist.accepted EXCEPT !["chat"] = @ + 1]
    BY <1>1, <1>5, AcceptedIs DEF ChatSay
  <2>2. link' \in Seq(Published)
    BY <1>1, <1>2, <1>5, PublishIs DEF ChatSay, PublishToRoom
  <2> QED
    BY <1>1, <1>2, <1>5, <2>1, <2>2, TakeInv DEF ChatSay
<1>6. ASSUME NEW b \in {"on", "off"}, ChatTyping(b)
      PROVE  TInv'
  <2>1. HistKept /\ hist'.accepted = [hist.accepted EXCEPT !["typing"] = @ + 1]
    BY <1>1, <1>6, AcceptedIs DEF ChatTyping
  <2>2. link' \in Seq(Published) /\ last' \in {"unset", "on", "off"}
    BY <1>1, <1>2, <1>6, PublishIs DEF ChatTyping, PublishToRoom
  <2> QED
    BY <1>1, <1>2, <1>6, <2>1, <2>2, TakeInv DEF ChatTyping
<1> QED
  BY <1>3, <1>4, <1>5, <1>6

LEMMA DirectInv ==
  ASSUME TInv, NEW i, DirectDone(i) \/ DirectFails(i)
  PROVE  TInv'
<1>1. Queues /\ Limits /\ Budget /\ i \in DOMAIN ops /\ ops' = RemoveAt(ops, i)
  BY DEF TInv, DirectDone, DirectFails
<1>2. ops' \in Seq(Handler) /\ ops[i].m \in Messages
  BY <1>1, HandlerLeaves DEF Handler
<1>3. link' \in Seq(Published) /\ last' \in {"unset", "on", "off"}
  <2>1. ops[i].m \in Published
    BY <1>2 DEF Messages, Published
  <2>2. CASE DirectDone(i)
    BY <1>1, <1>2, <2>1, <2>2, PublishIs DEF DirectDone, Messages, Queues
  <2>3. CASE DirectFails(i)
    BY <1>1, <2>3 DEF DirectFails, Queues
  <2> QED
    BY <2>2, <2>3
<1>4. HistKept /\ hist'.accepted = hist.accepted
  <2>1. CASE DirectDone(i)
    <3>1. PICK lost : hist' = [hist EXCEPT !.lost = lost]
      BY <2>1 DEF DirectDone
    <3> QED
      BY <1>1, <3>1 DEF HistKept, Limits
  <2>2. CASE DirectFails(i)
    BY <1>1, <2>2, LostIs DEF DirectFails
  <2> QED
    BY <2>1, <2>2
<1>5. UNCHANGED <<writer, up, where, limits, shown>>
  BY DEF DirectDone, DirectFails
<1>6. Limits' /\ Budget'
  BY <1>1, <1>4, <1>5, NoUse DEF HistKept
<1>7. Queues' /\ Panel' /\ Page'
  BY <1>2, <1>3, <1>5 DEF TInv, Queues, Panel, Page, writer
<1> QED
  BY <1>6, <1>7 DEF TInv

LEMMA SocketInv ==
  ASSUME TInv, Drop \/ CloseSeen \/ Reconnect \/ \E room \in {"here", "away"} : Join(room)
  PROVE  TInv'
<1>1. Queues /\ Limits /\ Budget
  BY DEF TInv
<1>2. UNCHANGED <<panel, limits, shown>>
  BY DEF Drop, CloseSeen, Reconnect, Join, writer
<1>3. HistKept /\ hist'.accepted = hist.accepted
  <2>1. CASE UNCHANGED hist \/ Lost
    BY <1>1, <2>1, LostIs
  <2>2. ASSUME NEW room, Join(room)
        PROVE  HistKept /\ hist'.accepted = hist.accepted
    <3>1. PICK lost : hist' = [hist EXCEPT !.lost = lost]
      BY <2>2 DEF Join
    <3> QED
      BY <1>1, <3>1 DEF HistKept, Limits
  <2> QED
    BY <2>1, <2>2 DEF Drop, CloseSeen, Reconnect
<1>4. Limits' /\ Budget'
  BY <1>1, <1>2, <1>3, NoUse DEF HistKept
<1>5. Queues'
  <2>1. CASE Drop
    <3>1. ASSUME NEW i \in DOMAIN ops
          PROVE  [ops[i] EXCEPT !.old = TRUE] \in Handler
      <4>1. ops[i] \in Handler
        BY <1>1 DEF Queues
      <4> QED
        BY <4>1 DEF Handler
    <3>2. DOMAIN ops = 1 .. Len(ops) /\ Len(ops) \in Nat
      BY <1>1 DEF Queues
    <3>3. ops' \in Seq(Handler)
      BY <2>1, <3>1, <3>2 DEF Drop
    <3>4. up' \in Seq(Messages)
      BY <2>1 DEF Drop
    <3> QED
      BY <1>1, <2>1, <3>3, <3>4 DEF Drop, Queues
  <2>2. "left" \in Published /\ "joined" \in Published
    BY DEF Published
  <2>3. CASE CloseSeen
    <3>1. link' \in Seq(Published)
      BY <1>1, <2>2, <2>3, PublishIs DEF CloseSeen, Queues
    <3> QED
      BY <1>1, <2>3, <3>1 DEF CloseSeen, Queues
  <2>4. CASE Reconnect
    BY <1>1, <2>4 DEF Reconnect, Queues, server
  <2>5. ASSUME NEW room \in {"here", "away"}, Join(room)
        PROVE  Queues'
    <3>1. link' \in Seq(Published)
      BY <1>1, <2>2, <2>5, PublishIs DEF Join, Queues
    <3> QED
      BY <1>1, <2>5, <3>1 DEF Join, Queues
  <2> QED
    BY <2>1, <2>3, <2>4, <2>5
<1>6. Panel' /\ Page'
  BY <1>2 DEF TInv, Panel, Page
<1> QED
  BY <1>4, <1>5, <1>6 DEF TInv

LEMMA PageInv ==
  ASSUME TInv, HandleServerMessage \/ Reload \/ BubbleExpires
  PROVE  TInv'
<1>1. Queues /\ Page /\ Limits /\ Budget
  BY DEF TInv
<1>2. UNCHANGED <<panel, up, server, limits>> /\ (UNCHANGED hist \/ Lost)
  BY DEF HandleServerMessage, Reload, BubbleExpires, writer
<1>3. Limits' /\ Budget'
  BY <1>1, <1>2, LostIs, NoUse DEF HistKept
<1>4. Queues'
  <2>1. link' \in Seq(Published)
    <3>1. link \in Seq(Published) /\ (link # <<>> => Tail(link) \in Seq(Published)) /\ <<>> \in Seq(Published)
      BY <1>1 DEF Queues
    <3>2. link' = link \/ link' = <<>> \/ (link # <<>> /\ link' = Tail(link))
      BY DEF HandleServerMessage, Reload, BubbleExpires
    <3> QED
      BY <3>1, <3>2
  <2> QED
    BY <1>1, <1>2, <2>1 DEF Queues, server
<1>5. Page'
  <2>1. Nothing.bubbles = 0 /\ Fresh.bubbles = 0 /\ MaxBubbles \in Nat
        /\ Nothing = [there |-> Nothing.there, typing |-> Nothing.typing, bubbles |-> Nothing.bubbles]
        /\ Fresh = [there |-> Fresh.there, typing |-> Fresh.typing, bubbles |-> Fresh.bubbles]
    <3>1. Nothing = [there |-> FALSE, typing |-> FALSE, bubbles |-> 0]
          /\ Fresh = [there |-> TRUE, typing |-> FALSE, bubbles |-> 0]
      BY DEF Nothing, Fresh
    <3>2. MaxBubbles \in Nat
      BY TypingAssumption
    <3> QED
      BY <3>1, <3>2
  <2>2. CASE HandleServerMessage
    <3>1. \/ shown' \in {Nothing, Fresh, shown}
          \/ shown' = [shown EXCEPT !.typing = FALSE, !.bubbles = Smaller(@ + 1, MaxBubbles)]
          \/ shown' = [shown EXCEPT !.typing = (Head(link) = "on")]
      BY <2>2 DEF HandleServerMessage
    <3>2. Smaller(shown.bubbles + 1, MaxBubbles) \in 0 .. MaxBubbles
      BY <1>1, <2>1 DEF Page, Smaller
    <3>3. CASE shown' \in {Nothing, Fresh, shown}
      BY <1>1, <2>1, <3>3 DEF Page
    <3>4. CASE shown' = [shown EXCEPT !.typing = FALSE, !.bubbles = Smaller(@ + 1, MaxBubbles)]
      <4> DEFINE n == Smaller(shown.bubbles + 1, MaxBubbles)
      <4>1. shown' = [shown EXCEPT !.typing = FALSE, !.bubbles = n]
        BY <3>4
      <4>2. n \in 0 .. MaxBubbles
        BY <3>2
      <4> HIDE DEF n
      <4> QED
        BY <1>1, <4>1, <4>2 DEF Page
    <3>5. ASSUME NEW b, shown' = [shown EXCEPT !.typing = b]
          PROVE  Page'
      BY <1>1, <3>5 DEF Page
    <3> QED
      BY <3>1, <3>3, <3>4, <3>5
  <2>3. CASE Reload
    BY <2>1, <2>3 DEF Reload, Page
  <2>4. CASE BubbleExpires
    BY <1>1, <2>1, <2>4 DEF BubbleExpires, Page
  <2> QED
    BY <2>2, <2>3, <2>4
<1>6. Panel'
  BY <1>2 DEF TInv, Panel
<1> QED
  BY <1>3, <1>4, <1>5, <1>6 DEF TInv

---------------------------------------------------------------------------
(* Theorems.                                                               *)

LEMMA InitInv == Init => TInv
<1> SUFFICES ASSUME Init
             PROVE  TInv
  OBVIOUS
<1>1. Queues /\ Panel
  BY DEF Init, Queues, Panel
<1>2. Page
  <2>1. Fresh = [there |-> TRUE, typing |-> FALSE, bubbles |-> 0]
    BY DEF Fresh, Nothing
  <2>2. MaxBubbles \in Nat
    BY TypingAssumption
  <2> QED
    BY <2>1, <2>2 DEF Init, Page
<1>3. Limits
  BY TypingAssumption DEF Init, Limits
<1>4. Budget
  <2> SUFFICES ASSUME NEW k \in Kinds
               PROVE  hist.accepted[k] + bucket[k].tokens + Gain(k) <= Burst[k] + hist.forward * Refill[k]
    BY DEF Budget
  <2>1. Burst[k] \in Nat /\ Refill[k] \in Nat /\ 0 * Refill[k] = 0
    BY TypingAssumption
  <2>2. Gain(k) = 0
    BY <2>1 DEF Init, Gain, Larger
  <2> QED
    BY <2>1, <2>2 DEF Init
<1> QED
  BY <1>1, <1>2, <1>3, <1>4 DEF TInv

LEMMA NextInv == TInv /\ [Next]_vars => TInv'
<1> SUFFICES ASSUME TInv, [Next]_vars
             PROVE  TInv'
  OBVIOUS
<1>1. CASE UNCHANGED vars
  <2>1. Queues' /\ Panel' /\ Page'
    BY <1>1 DEF TInv, Queues, Panel, Page, vars, writer, server
  <2>2. Limits' /\ Budget'
    BY <1>1, LostIs, NoUse DEF TInv, vars, HistKept
  <2> QED
    BY <2>1, <2>2 DEF TInv
<1>2. CASE Next
  BY <1>2, PanelInv, ClearInv, ClockInv, MessageInv, DirectInv, SocketInv, PageInv DEF Next
<1> QED
  BY <1>1, <1>2

LEMMA Holds == TInv => TypeOK /\ RateHolds
<1> SUFFICES ASSUME TInv
             PROVE  TypeOK /\ RateHolds
  OBVIOUS
<1>1. TypeOK
  BY TypingAssumption DEF TInv, Queues, Panel, Page, Limits, TypeOK, Messages, Handler, Published
<1>2. ASSUME NEW k \in Kinds
      PROVE  hist.accepted[k] <= Burst[k] + Refill[k] * hist.forward
  <2>1. hist.accepted[k] + bucket[k].tokens + Gain(k) <= Burst[k] + hist.forward * Refill[k]
    BY DEF TInv, Budget
  <2>2. /\ Gain(k) \in Nat /\ bucket[k].tokens \in Nat /\ hist.accepted[k] \in Nat /\ Burst[k] \in Nat
        /\ hist.forward * Refill[k] \in Nat /\ Refill[k] * hist.forward = hist.forward * Refill[k]
    BY Sizes, Products DEF TInv, Gain
  <2> QED
    BY <2>1, <2>2
<1> QED
  BY <1>1, <1>2 DEF RateHolds

\* Whatever is sent, refused or lost, over however many sockets, and however
\* often the clock is set back: no bucket lets more through than its burst and
\* its refill over the clock's advance, and a panel that types has its timer.
THEOREM RateIsKept == Spec => []BucketsHold
<1>1. Init => TInv
  BY InitInv
<1>2. TInv /\ [Next]_vars => TInv'
  BY NextInv
<1>3. TInv => BucketsHold
  BY Holds DEF BucketsHold
<1> QED
  BY <1>1, <1>2, <1>3, PTL DEF Spec

---------------------------------------------------------------------------
(* What the other page shows.  The panel's changes alternate, and while    *)
(* none is lost each arrives: the invariant follows them from the panel    *)
(* through the socket's queue, the handler at its await and the link.      *)

Flags ==
  /\ panel.typing \in BOOLEAN /\ panel.timer \in BOOLEAN /\ online \in BOOLEAN
  /\ stale \in BOOLEAN /\ hist.lost \in BOOLEAN
  /\ shown.typing \in BOOLEAN /\ shown.there \in BOOLEAN

\* What is in the writer's socket ends in what the panel says.
Sent ==
  /\ ~online => up = <<>>
  /\ \A j \in 1 .. Len(up) : up[j] = "on" => panel.typing \/ \E k \in (j + 1) .. Len(up) : up[k] = "off"
  /\ \A j \in 1 .. Len(up) : up[j] = "off" => ~panel.typing \/ \E k \in (j + 1) .. Len(up) : up[k] = "on"
  /\ \A j \in 1 .. Len(up) : j = Len(up) /\ up[j] = "say" => ~panel.typing
  /\ \A i, j \in 1 .. Len(up) :
       i < j /\ up[i] = "on" /\ up[j] = "on" => \E k \in (i + 1) .. (j - 1) : up[k] = "off"

NoSwitch == \A j \in 1 .. Len(up) : up[j] = "say"

\* The next change in the socket is not "on", and there is one if the panel
\* says that nobody types.
OffNext ==
  /\ panel.typing \/ \E j \in 1 .. Len(up) : up[j] = "off"
  /\ \A j \in 1 .. Len(up) : up[j] = "on" => \E i \in 1 .. (j - 1) : up[i] = "off"

\* What the other page will show once it has heard what is on its way.
Heard(t) ==
  /\ link = <<>> /\ shown.there => (shown.typing <=> t)
  /\ link # <<>> => ((link[Len(link)] = "on") <=> t)

Watched == InRoom => where = "here" \/ stale

\* What the server takes for the user's state once the handler is done.
Prior == IF ops # <<>> /\ ops[1].m # "say" THEN ops[1].m ELSE last

Placed ==
  /\ InRoom => ops = <<>>
  /\ stale => where = "none"
  /\ InRoom /\ where = "none" => last = "unset"

Followed ==
  /\ \A i \in 1 .. Len(ops) : ~ops[i].old
  /\ ops = <<>> /\ Watched /\ NoSwitch => Heard(panel.typing)
  /\ Len(ops) = 1 /\ NoSwitch => (panel.typing <=> ops[1].m = "on")
  /\ ops = <<>> /\ (InRoom => where = "here") /\ last = "off" => Heard(FALSE)
  /\ Len(ops) <= 1 /\ Prior = "on" => OffNext

VInv == Flags /\ Sent /\ Placed /\ (~hist.lost => Followed)

\* A change of the panel, and what it sends.
LEMMA SentSays ==
  ASSUME Queues, Sent, online, panel.typing \in BOOLEAN, UNCHANGED online,
         NEW b \in BOOLEAN, panel'.typing = b,
         \/ panel.typing = b /\ up' = up
         \/ panel.typing # b /\ up' = Append(up, IF b THEN "on" ELSE "off")
         \/ ~b /\ ~panel.typing /\ up' = Append(up, "say")
         \/ ~b /\ panel.typing /\ up' = Append(Append(up, "say"), "off")
  PROVE  /\ Sent'
         /\ NoSwitch' => NoSwitch /\ panel.typing = b
         /\ OffNext => OffNext'
<1>1. up \in Seq(Messages) /\ Len(up) \in Nat
  BY DEF Queues
<1>2. CASE panel.typing = b /\ up' = up
  BY <1>2 DEF Sent, NoSwitch, OffNext
<1>3. CASE panel.typing # b /\ up' = Append(up, IF b THEN "on" ELSE "off")
  <2>1. /\ Len(up') = Len(up) + 1 /\ \A j \in 1 .. Len(up) : up'[j] = up[j]
        /\ up'[Len(up) + 1] = IF b THEN "on" ELSE "off"
    BY <1>1, <1>3
  <2>2. CASE b
    <3>1. up'[Len(up) + 1] = "on" /\ ~panel.typing /\ panel'.typing
      BY <1>3, <2>1, <2>2
    <3>2. Sent'
      BY <1>1, <2>1, <3>1 DEF Sent
    <3>3. ~NoSwitch'
      BY <1>1, <2>1, <3>1 DEF NoSwitch
    <3>4. OffNext => OffNext'
      BY <1>1, <2>1, <3>1 DEF OffNext
    <3> QED
      BY <3>2, <3>3, <3>4
  <2>3. CASE ~b
    <3>1. up'[Len(up) + 1] = "off" /\ panel.typing /\ ~panel'.typing
      BY <1>3, <2>1, <2>3
    <3>2. Sent'
      BY <1>1, <2>1, <3>1 DEF Sent
    <3>3. ~NoSwitch'
      BY <1>1, <2>1, <3>1 DEF NoSwitch
    <3>4. OffNext => OffNext'
      BY <1>1, <2>1, <3>1 DEF OffNext
    <3> QED
      BY <3>2, <3>3, <3>4
  <2> QED
    BY <2>2, <2>3
<1>4. CASE ~b /\ ~panel.typing /\ up' = Append(up, "say")
  <2>1. /\ Len(up') = Len(up) + 1 /\ \A j \in 1 .. Len(up) : up'[j] = up[j]
        /\ up'[Len(up) + 1] = "say" /\ ~panel'.typing
    BY <1>1, <1>4
  <2>2. Sent'
    BY <1>1, <1>4, <2>1 DEF Sent
  <2>3. NoSwitch' => NoSwitch /\ panel.typing = b
    BY <1>1, <1>4, <2>1 DEF NoSwitch
  <2>4. OffNext => OffNext'
    BY <1>1, <1>4, <2>1 DEF OffNext
  <2> QED
    BY <2>2, <2>3, <2>4
<1>5. CASE ~b /\ panel.typing /\ up' = Append(Append(up, "say"), "off")
  <2>1. /\ Len(up') = Len(up) + 2 /\ \A j \in 1 .. Len(up) : up'[j] = up[j]
        /\ up'[Len(up) + 1] = "say" /\ up'[Len(up) + 2] = "off" /\ ~panel'.typing
    BY <1>1, <1>5
  <2>2. Sent'
    BY <1>1, <1>5, <2>1 DEF Sent
  <2>3. ~NoSwitch'
    BY <1>1, <2>1 DEF NoSwitch
  <2>4. OffNext => OffNext'
    BY <1>1, <1>5, <2>1 DEF OffNext
  <2> QED
    BY <2>2, <2>3, <2>4
<1> QED
  BY <1>2, <1>3, <1>4, <1>5

\* The server takes the first message.
LEMMA TakeSays ==
  ASSUME Queues, Sent, UNCHANGED <<online, panel>>, up # <<>>, up' = Tail(up)
  PROVE  /\ Sent'
         /\ NoSwitch' /\ Head(up) # "say" => (panel.typing <=> Head(up) = "on")
         /\ NoSwitch' /\ Head(up) = "say" => NoSwitch /\ ~panel.typing
         /\ Head(up) = "on" => OffNext'
         /\ Head(up) = "say" /\ OffNext => OffNext'
         /\ OffNext => Head(up) # "on"
<1>1. up \in Seq(Messages) /\ Len(up) \in Nat \ {0} /\ Head(up) = up[1] /\ up[1] \in {"say", "on", "off"}
  BY DEF Queues, Messages
<1>2. Len(up') = Len(up) - 1 /\ \A j \in 1 .. Len(up') : up'[j] = up[j + 1]
  BY <1>1
<1>3. \A j \in 2 .. Len(up) : j - 1 \in 1 .. Len(up') /\ up'[j - 1] = up[j]
  BY <1>1, <1>2
<1>4. Sent'
  <2>1. ~online' => up' = <<>>
    BY DEF Sent
  <2>2. ASSUME NEW j \in 1 .. Len(up'), up'[j] = "on"
        PROVE  panel'.typing \/ \E k \in (j + 1) .. Len(up') : up'[k] = "off"
    <3>1. j + 1 \in 1 .. Len(up) /\ up[j + 1] = "on"
      BY <1>1, <1>2, <2>2
    <3>2. panel.typing \/ \E k \in (j + 2) .. Len(up) : up[k] = "off"
      BY <3>1 DEF Sent
    <3> QED
      BY <1>1, <1>2, <1>3, <3>2
  <2>3. ASSUME NEW j \in 1 .. Len(up'), up'[j] = "off"
        PROVE  ~panel'.typing \/ \E k \in (j + 1) .. Len(up') : up'[k] = "on"
    <3>1. j + 1 \in 1 .. Len(up) /\ up[j + 1] = "off"
      BY <1>1, <1>2, <2>3
    <3>2. ~panel.typing \/ \E k \in (j + 2) .. Len(up) : up[k] = "on"
      BY <3>1 DEF Sent
    <3> QED
      BY <1>1, <1>2, <1>3, <3>2
  <2>4. ASSUME NEW j \in 1 .. Len(up'), j = Len(up'), up'[j] = "say"
        PROVE  ~panel'.typing
    <3>1. j + 1 \in 1 .. Len(up) /\ j + 1 = Len(up) /\ up[j + 1] = "say"
      BY <1>1, <1>2, <2>4
    <3> QED
      BY <3>1 DEF Sent
  <2>5. ASSUME NEW i \in 1 .. Len(up'), NEW j \in 1 .. Len(up'), i < j, up'[i] = "on", up'[j] = "on"
        PROVE  \E k \in (i + 1) .. (j - 1) : up'[k] = "off"
    <3>1. i + 1 \in 1 .. Len(up) /\ j + 1 \in 1 .. Len(up) /\ up[i + 1] = "on" /\ up[j + 1] = "on"
      BY <1>1, <1>2, <2>5
    <3>2. PICK k \in (i + 2) .. j : up[k] = "off"
      BY <3>1, <2>5 DEF Sent
    <3>3. k - 1 \in (i + 1) .. (j - 1) /\ up'[k - 1] = "off"
      BY <1>1, <1>2, <1>3, <3>2
    <3> QED
      BY <3>3
  <2>6. \A i, j \in 1 .. Len(up') :
          i < j /\ up'[i] = "on" /\ up'[j] = "on" => \E k \in (i + 1) .. (j - 1) : up'[k] = "off"
    BY <2>5
  <2> QED
    BY <2>1, <2>2, <2>3, <2>4, <2>6, Zenon DEF Sent
<1>5. ASSUME NoSwitch'
      PROVE  \A j \in 2 .. Len(up) : up[j] = "say"
  BY <1>2, <1>3, <1>5 DEF NoSwitch
<1>6. ASSUME NoSwitch', up[1] # "say"
      PROVE  panel.typing <=> up[1] = "on"
  BY <1>1, <1>5, <1>6 DEF Sent
<1>7. ASSUME NoSwitch', up[1] = "say"
      PROVE  NoSwitch /\ ~panel.typing
  <2>1. NoSwitch
    BY <1>1, <1>5, <1>7 DEF NoSwitch
  <2>2. Len(up) \in 1 .. Len(up) /\ up[Len(up)] = "say"
    BY <1>1, <2>1 DEF NoSwitch
  <2> QED
    BY <2>1, <2>2 DEF Sent
<1>8. ASSUME up[1] = "on"
      PROVE  OffNext'
  <2>1. panel'.typing \/ \E j \in 1 .. Len(up') : up'[j] = "off"
    <3>1. panel.typing \/ \E k \in 2 .. Len(up) : up[k] = "off"
      BY <1>1, <1>8 DEF Sent
    <3> QED
      BY <1>3, <3>1
  <2>2. ASSUME NEW j \in 1 .. Len(up'), up'[j] = "on"
        PROVE  \E i \in 1 .. (j - 1) : up'[i] = "off"
    <3>1. 1 \in 1 .. Len(up) /\ j + 1 \in 1 .. Len(up) /\ up[j + 1] = "on" /\ 1 < j + 1
      BY <1>1, <1>2, <2>2
    <3>2. PICK k \in 2 .. j : up[k] = "off"
      BY <1>8, <3>1 DEF Sent
    <3>3. k - 1 \in 1 .. (j - 1) /\ up'[k - 1] = "off"
      BY <1>1, <1>2, <1>3, <3>2
    <3> QED
      BY <3>3
  <2> QED
    BY <2>1, <2>2 DEF OffNext
<1>9. ASSUME up[1] = "say", OffNext
      PROVE  OffNext'
  <2>1. panel'.typing \/ \E j \in 1 .. Len(up') : up'[j] = "off"
    <3>1. panel.typing \/ \E k \in 2 .. Len(up) : up[k] = "off"
      BY <1>1, <1>9 DEF OffNext
    <3> QED
      BY <1>3, <3>1
  <2>2. ASSUME NEW j \in 1 .. Len(up'), up'[j] = "on"
        PROVE  \E i \in 1 .. (j - 1) : up'[i] = "off"
    <3>1. j + 1 \in 1 .. Len(up) /\ up[j + 1] = "on"
      BY <1>1, <1>2, <2>2
    <3>2. PICK k \in 2 .. j : up[k] = "off"
      BY <1>9, <3>1 DEF OffNext
    <3>3. k - 1 \in 1 .. (j - 1) /\ up'[k - 1] = "off"
      BY <1>1, <1>2, <1>3, <3>2
    <3> QED
      BY <3>3
  <2> QED
    BY <2>1, <2>2 DEF OffNext
<1>10. OffNext => up[1] # "on"
  BY <1>1 DEF OffNext
<1> QED
  BY <1>1, <1>4, <1>6, <1>7, <1>8, <1>9, <1>10

LEMMA PublishSays ==
  ASSUME Queues, NEW m \in Published, Publish(m)
  PROVE  \A t \in BOOLEAN : (t <=> m = "on") => Heard(t)'
<1>1. link' = Append(link, m) /\ link \in Seq(Published)
  BY DEF Publish, Queues
<1>2. link' # <<>> /\ link'[Len(link')] = m
  BY <1>1
<1> QED
  BY <1>2 DEF Heard

LEMMA SameHeard ==
  ASSUME UNCHANGED <<link, shown>>
  PROVE  \A t \in BOOLEAN : Heard(t)' <=> Heard(t)
  BY DEF Heard

---------------------------------------------------------------------------
(* The panel's steps.                                                      *)

LEMMA HistLost ==
  ASSUME Limits
  PROVE  /\ Lost => hist'.lost
         /\ \A k, lost : Accepted(k, lost) => hist'.lost = lost
<1>1. Lost => hist'.lost
  BY DEF Limits, Lost
<1>2. ASSUME NEW k, NEW lost, Accepted(k, lost)
      PROVE  hist'.lost = lost
  <2> DEFINE accepted == [hist.accepted EXCEPT ![k] = @ + 1]
  <2>1. hist' = [hist EXCEPT !.accepted = accepted, !.lost = lost]
    BY <1>2 DEF Accepted
  <2> HIDE DEF accepted
  <2> QED
    BY <2>1 DEF Limits
<1> QED
  BY <1>1, <1>2

LEMMA PanelStep ==
  ASSUME TInv, TInv', VInv, NEW b \in BOOLEAN, panel'.typing = b,
         UNCHANGED <<place, online, server, link, shown>>,
         \/ hist' = hist \/ hist'.lost,
         \/ ~online /\ up' = up /\ (panel.typing # b => hist'.lost)
         \/ online /\ panel.typing = b /\ up' = up
         \/ online /\ panel.typing # b /\ up' = Append(up, IF b THEN "on" ELSE "off")
         \/ online /\ ~b /\ ~panel.typing /\ up' = Append(up, "say")
         \/ online /\ ~b /\ panel.typing /\ up' = Append(Append(up, "say"), "off"),
         hist'.lost \in BOOLEAN
  PROVE  VInv'
<1>1. Queues /\ Flags /\ Sent /\ Placed
  BY DEF TInv, VInv
<1>2. Flags'
  BY <1>1 DEF Flags, TInv, Panel, server
<1>3. Placed'
  BY <1>1 DEF Placed, InRoom, server
<1>4. Sent' /\ (~hist'.lost => (NoSwitch' => NoSwitch /\ panel.typing = b) /\ (OffNext => OffNext'))
  <2>1. CASE online
    BY <1>1, <2>1, SentSays DEF Flags
  <2>2. CASE ~online
    <3>1. up = <<>> /\ up' = <<>> /\ up' = up
      BY <1>1, <2>2 DEF Sent
    <3>2. Len(up) = 0
      BY <3>1
    <3> QED
      BY <2>2, <3>1, <3>2 DEF Sent, NoSwitch, OffNext
  <2> QED
    BY <2>1, <2>2
<1>5. ASSUME ~hist'.lost
      PROVE  Followed'
  <2>1. Followed
    BY <1>5 DEF VInv
  <2>2. UNCHANGED <<place, where, stale, last, ops, link, shown>>
    BY DEF server
  <2>3. (Watched' <=> Watched) /\ Prior' = Prior /\ (InRoom' <=> InRoom)
    BY <2>2 DEF Watched, Prior, InRoom
  <2>4. \A t \in BOOLEAN : Heard(t)' <=> Heard(t)
    BY <2>2, SameHeard
  <2>5. ops' = <<>> /\ Watched' /\ NoSwitch' => Heard(panel.typing)'
    <3> SUFFICES ASSUME ops' = <<>>, Watched', NoSwitch'
                 PROVE  Heard(b)'
      BY DEF Heard
    <3>1. Heard(panel.typing) /\ panel.typing = b
      BY <1>4, <1>5, <2>1, <2>2, <2>3 DEF Followed
    <3> QED
      BY <2>4, <3>1
  <2>6. Len(ops') = 1 /\ NoSwitch' => (panel'.typing <=> ops'[1].m = "on")
    BY <1>4, <1>5, <2>1, <2>2 DEF Followed
  <2>7. ops' = <<>> /\ (InRoom' => where' = "here") /\ last' = "off" => Heard(FALSE)'
    BY <2>1, <2>2, <2>3, <2>4 DEF Followed
  <2>8. Len(ops') <= 1 /\ Prior' = "on" => OffNext'
    BY <1>4, <1>5, <2>1, <2>2, <2>3 DEF Followed
  <2>9. \A i \in 1 .. Len(ops') : ~ops'[i].old
    BY <2>1, <2>2 DEF Followed
  <2> QED
    BY <2>5, <2>6, <2>7, <2>8, <2>9 DEF Followed
<1> QED
  BY <1>2, <1>3, <1>4, <1>5 DEF VInv

LEMMA Sendings ==
  ASSUME NEW s \in Seq(Messages), NEW m \in Messages, NEW n \in Messages
  PROVE  /\ s \o <<>> = s /\ s \o (<<>> \o <<>>) = s
         /\ s \o <<m>> = Append(s, m)
         /\ s \o (<<>> \o <<m>>) = Append(s, m) /\ s \o (<<m>> \o <<>>) = Append(s, m)
         /\ s \o (<<m>> \o <<n>>) = Append(Append(s, m), n)
<1>1. \A q \in Seq(Messages) : q \o <<>> = q /\ <<>> \o q = q
  OBVIOUS
<1>2. \A q \in Seq(Messages), x \in Messages : q \o <<x>> = Append(q, x)
  OBVIOUS
<1>3. <<m>> \in Seq(Messages) /\ <<n>> \in Seq(Messages) /\ <<>> \in Seq(Messages)
  OBVIOUS
<1>4. s \o (<<m>> \o <<n>>) = (s \o <<m>>) \o <<n>>
  BY <1>3
<1>5. (s \o <<m>>) = Append(s, m) /\ Append(s, m) \in Seq(Messages)
  BY <1>2
<1> QED
  BY <1>1, <1>2, <1>3, <1>4, <1>5

LEMMA SetTypingShown ==
  ASSUME TInv, TInv', VInv, NEW b \in BOOLEAN, NEW text, NEW before, SetTyping(b, text, before),
         before = <<>> \/ (before = <<"say">> /\ ~b /\ online)
  PROVE  VInv'
<1>1. Limits /\ Flags /\ up \in Seq(Messages) /\ {"say", "on", "off"} = Messages
  BY DEF TInv, VInv, Queues, Messages
<1>2. panel'.typing = b /\ UNCHANGED <<place, online, server, link, shown>>
  BY DEF SetTyping
<1>3. (hist' = hist \/ hist'.lost) /\ (~online /\ panel.typing # b => hist'.lost)
  BY <1>1, HistLost DEF SetTyping
<1>4. hist'.lost \in BOOLEAN
  BY <1>1 DEF SetTyping, Lost, Limits, Flags
<1>5. Change(b) = IF panel.typing = b THEN <<>> ELSE <<IF b THEN "on" ELSE "off">>
  BY DEF Change
<1>6. CASE ~online
  <2>1. up' = up
    BY <1>6 DEF SetTyping, Send
  <2> QED
    BY <1>2, <1>3, <1>4, <1>6, <2>1, PanelStep
<1>7. CASE online
  <2>1. up' = up \o (before \o Change(b))
    BY <1>7 DEF SetTyping, Send
  <2>2. CASE before = <<>> /\ panel.typing = b
    <3>1. up' = up
      BY <1>1, <1>5, <2>1, <2>2, Sendings
    <3> QED
      BY <1>2, <1>3, <1>4, <1>7, <2>2, <3>1, PanelStep
  <2>3. CASE before = <<>> /\ panel.typing # b
    <3>1. up' = Append(up, IF b THEN "on" ELSE "off")
      BY <1>1, <1>5, <2>1, <2>3, Sendings
    <3> QED
      BY <1>2, <1>3, <1>4, <1>7, <2>3, <3>1, PanelStep
  <2>4. CASE before = <<"say">> /\ ~b /\ panel.typing = b
    <3>1. up' = Append(up, "say")
      BY <1>1, <1>5, <2>1, <2>4, Sendings
    <3> QED
      BY <1>2, <1>3, <1>4, <1>7, <2>4, <3>1, PanelStep
  <2>5. CASE before = <<"say">> /\ ~b /\ panel.typing # b
    <3>1. up' = Append(Append(up, "say"), "off") /\ panel.typing
      BY <1>1, <1>5, <2>1, <2>5, Sendings DEF Flags
    <3> QED
      BY <1>2, <1>3, <1>4, <1>7, <2>5, <3>1, PanelStep
  <2> QED
    BY <2>2, <2>3, <2>4, <2>5
<1> QED
  BY <1>6, <1>7

LEMMA PanelShown ==
  ASSUME TInv, TInv', VInv,
         \/ \E text \in BOOLEAN : HandleInputChanged(text)
         \/ TypingTimeout \/ Enter
  PROVE  VInv'
<1>1. ASSUME NEW text \in BOOLEAN, HandleInputChanged(text)
      PROVE  VInv'
  BY <1>1, SetTypingShown DEF HandleInputChanged
<1>2. CASE TypingTimeout
  BY <1>2, SetTypingShown DEF TypingTimeout
<1>3. CASE Enter
  BY <1>3, SetTypingShown DEF Enter
<1> QED
  BY <1>1, <1>2, <1>3

LEMMA ClearShown ==
  ASSUME TInv, TInv', VInv, Clear
  PROVE  VInv'
<1>1. Limits /\ Flags /\ up \in Seq(Messages) /\ {"say", "on", "off"} = Messages
  BY DEF TInv, VInv, Queues, Messages
<1>2. panel'.typing = FALSE /\ UNCHANGED <<place, online, server, link, shown>>
  BY DEF Clear
<1>3. (hist' = hist \/ hist'.lost) /\ (~online /\ panel.typing # FALSE => hist'.lost)
  BY <1>1, HistLost DEF Clear, Flags
<1>4. hist'.lost \in BOOLEAN
  BY <1>1 DEF Clear, Lost, Limits, Flags
<1>5. Change(FALSE) = IF panel.typing = FALSE THEN <<>> ELSE <<"off">>
  BY DEF Change
<1>6. CASE ~online
  <2>1. up' = up
    BY <1>6 DEF Clear, Send
  <2> QED
    BY <1>2, <1>3, <1>4, <1>6, <2>1, PanelStep
<1>7. CASE online /\ panel.typing = FALSE
  <2>1. up' = up
    BY <1>1, <1>5, <1>7, Sendings DEF Clear, Send
  <2> QED
    BY <1>2, <1>3, <1>4, <1>7, <2>1, PanelStep
<1>8. CASE online /\ panel.typing # FALSE
  <2>1. Change(FALSE) = <<"off">>
    BY <1>5, <1>8
  <2>2. up' = up \o <<"off">>
    BY <1>8, <2>1 DEF Clear, Send
  <2>3. up' = Append(up, "off")
    BY <1>1, <2>2, Sendings
  <2>4. up' = Append(up, IF FALSE THEN "on" ELSE "off")
    BY <2>3
  <2> QED
    BY <1>2, <1>3, <1>4, <1>8, <2>4, PanelStep
<1> QED
  BY <1>6, <1>7, <1>8

---------------------------------------------------------------------------
(* The server's steps.                                                     *)

\* A message is taken: what holds of the socket, and of what does not change.
LEMMA Taken ==
  ASSUME TInv, VInv, up # <<>>, NEW k, Take(k), hist'.lost \in BOOLEAN
  PROVE  /\ Flags' /\ Sent'
         /\ UNCHANGED <<place, panel, online, where, stale, shown>>
         /\ Head(up) \in Messages
         /\ NoSwitch' /\ Head(up) # "say" => (panel.typing <=> Head(up) = "on")
         /\ NoSwitch' /\ Head(up) = "say" => NoSwitch /\ ~panel.typing
         /\ Head(up) = "on" => OffNext'
         /\ Head(up) = "say" /\ OffNext => OffNext'
         /\ OffNext => Head(up) # "on"
<1>1. Queues /\ Sent /\ Flags
  BY DEF TInv, VInv
<1>2. UNCHANGED <<place, panel, online, where, stale, shown>> /\ up' = Tail(up)
  BY DEF Take, writer
<1>3. Flags' /\ Head(up) \in Messages
  BY <1>1, <1>2, TakeIs DEF Flags
<1> QED
  BY <1>1, <1>2, <1>3, TakeSays

LEMMA RefusedShown ==
  ASSUME TInv, VInv, NEW k \in Kinds, RefusedMessage(k)
  PROVE  VInv'
<1>1. hist'.lost = TRUE
  BY DEF RefusedMessage, Lost, TInv, Limits
<1>2. Flags' /\ Sent' /\ UNCHANGED <<place, where, stale, last, ops>>
  BY <1>1, Taken DEF RefusedMessage
<1>3. Placed'
  BY <1>2 DEF VInv, Placed, InRoom
<1> QED
  BY <1>1, <1>2, <1>3 DEF VInv

LEMMA ChatSayShown ==
  ASSUME TInv, VInv, ChatSay
  PROVE  VInv'
<1>1. /\ up # <<>> /\ Head(up) = "say" /\ Take("chat") /\ InRoom /\ PublishToRoom("say")
      /\ UNCHANGED <<last, ops>> /\ Accepted("chat", hist.lost)
  BY DEF ChatSay
<1>2. hist'.lost = hist.lost /\ hist'.lost \in BOOLEAN
  BY <1>1, HistLost DEF TInv, VInv, Flags
<1>3. /\ Flags' /\ Sent' /\ UNCHANGED <<place, panel, online, where, stale, shown>>
      /\ NoSwitch' => NoSwitch /\ ~panel.typing
      /\ OffNext => OffNext'
  BY <1>1, <1>2, Taken
<1>4. Placed' /\ ops = <<>> /\ ops' = <<>> /\ Queues
  BY <1>1, <1>3 DEF TInv, VInv, Placed, InRoom
<1>5. ASSUME ~hist'.lost
      PROVE  Followed'
  <2>1. Followed
    BY <1>2, <1>5 DEF VInv
  <2>2. (Watched' <=> Watched) /\ Prior' = Prior /\ (InRoom' <=> InRoom)
    BY <1>1, <1>3 DEF Watched, Prior, InRoom
  <2>3. IF where = "here" THEN Heard(FALSE)' ELSE \A t \in BOOLEAN : Heard(t)' <=> Heard(t)
    <3>1. CASE where = "here"
      BY <1>1, <1>4, <3>1, PublishSays DEF PublishToRoom, Published
    <3>2. CASE where # "here"
      BY <1>1, <1>3, <3>2, SameHeard DEF PublishToRoom
    <3> QED
      BY <3>1, <3>2
  <2>4. Watched' /\ NoSwitch' => Heard(panel.typing)'
    <3> SUFFICES ASSUME Watched', NoSwitch'
                 PROVE  Heard(FALSE)'
      BY <1>3 DEF Heard
    <3>1. Heard(FALSE) \/ where = "here"
      BY <1>3, <1>4, <2>1, <2>2 DEF Followed, Heard
    <3> QED
      BY <2>3, <3>1
  <2>5. (InRoom' => where' = "here") /\ last' = "off" => Heard(FALSE)'
    BY <1>1, <1>3, <1>4, <2>1, <2>2, <2>3 DEF Followed
  <2>6. Prior' = "on" => OffNext'
    BY <1>3, <1>4, <2>1, <2>2 DEF Followed
  <2>7. Len(ops') # 1 /\ 1 .. Len(ops') = {}
    BY <1>4
  <2> QED
    BY <1>4, <2>4, <2>5, <2>6, <2>7 DEF Followed
<1> QED
  BY <1>3, <1>4, <1>5 DEF VInv

LEMMA ChatTypingShown ==
  ASSUME TInv, VInv, NEW b \in {"on", "off"}, ChatTyping(b)
  PROVE  VInv'
<1>1. /\ up # <<>> /\ Head(up) = b /\ Take("typing") /\ InRoom /\ UNCHANGED ops
      /\ up' = Tail(up)
  BY DEF ChatTyping, Take
<1>2. Queues /\ Limits /\ Flags /\ Placed /\ Sent
  BY DEF TInv, VInv
<1>3. ops = <<>> /\ ops' = <<>> /\ Len(ops') # 1 /\ 1 .. Len(ops') = {}
  BY <1>1, <1>2 DEF Placed
<1>4. CASE where # "none" /\ last # b
  <2>1. /\ last' = b /\ PublishToRoom(b)
        /\ Accepted("typing", hist.lost /\ ~(where = "here" /\ Current(b, Tail(up))))
    BY <1>4 DEF ChatTyping, IsChange
  <2>2. hist'.lost = (hist.lost /\ ~(where = "here" /\ Current(b, Tail(up))))
    BY <1>2, <2>1, HistLost
  <2>3. hist'.lost \in BOOLEAN
    BY <2>2
  <2>4. /\ Flags' /\ Sent' /\ UNCHANGED <<place, panel, online, where, stale, shown>>
        /\ NoSwitch' => (panel.typing <=> b = "on")
        /\ b = "on" => OffNext'
    BY <1>1, <2>3, Taken
  <2>5. Placed'
    BY <1>1, <1>2, <1>4, <2>4 DEF Placed, InRoom
  <2>6. where = "here" => \A t \in BOOLEAN : (t <=> b = "on") => Heard(t)'
    BY <1>2, <2>1, PublishSays DEF PublishToRoom, Published
  <2>7. InRoom' /\ Prior' = b /\ (Watched' => where = "here")
    BY <1>1, <1>2, <1>3, <1>4, <2>1, <2>4 DEF InRoom, Prior, Watched, Placed
  <2>8. Followed'
    <3>1. Watched' /\ NoSwitch' => Heard(panel.typing)'
      <4> SUFFICES ASSUME Watched', NoSwitch'
                   PROVE  Heard(panel.typing)'
        OBVIOUS
      <4>1. PICK t \in BOOLEAN : (t <=> b = "on") /\ (panel'.typing <=> t)
        BY <2>4
      <4>2. Heard(t)'
        BY <2>6, <2>7, <4>1
      <4> QED
        BY <4>1, <4>2 DEF Heard
    <3>2. (InRoom' => where' = "here") /\ last' = "off" => Heard(FALSE)'
      BY <2>1, <2>4, <2>6, <2>7
    <3>3. Prior' = "on" => OffNext'
      BY <2>4, <2>7
    <3> QED
      BY <1>3, <3>1, <3>2, <3>3, Zenon DEF Followed
  <2> QED
    BY <2>4, <2>5, <2>8 DEF VInv
<1>5. CASE ~(where # "none" /\ last # b)
  <2>1. UNCHANGED <<last, link>> /\ Accepted("typing", hist.lost \/ where = "none")
    BY <1>5 DEF ChatTyping, IsChange
  <2>2. hist'.lost = (hist.lost \/ where = "none")
    BY <1>2, <2>1, HistLost
  <2>3. hist'.lost \in BOOLEAN
    BY <2>2
  <2>4. /\ Flags' /\ Sent' /\ UNCHANGED <<place, panel, online, where, stale, shown>>
        /\ NoSwitch' => (panel.typing <=> b = "on")
        /\ OffNext => b # "on"
    BY <1>1, <2>3, Taken
  <2>5. Placed'
    BY <1>1, <1>2, <2>1, <2>4 DEF Placed, InRoom
  <2>6. ASSUME ~hist'.lost
        PROVE  Followed'
    <3>1. ~hist.lost /\ where # "none" /\ last = b
      BY <1>2, <1>5, <2>2, <2>6 DEF Flags
    <3>2. Followed /\ Prior = b /\ Prior' = b
      BY <1>3, <2>1, <3>1 DEF VInv, Prior
    <3>3. b = "off"
      BY <1>3, <2>4, <3>2 DEF Followed
    <3>4. \A t \in BOOLEAN : Heard(t)' <=> Heard(t)
      BY <2>1, <2>4, SameHeard
    <3>5. (InRoom' <=> InRoom) /\ (Watched' => where = "here")
      BY <1>1, <1>2, <2>4, <3>1 DEF InRoom, Watched, Placed
    <3>6. where = "here" => Heard(FALSE)'
      BY <1>3, <3>1, <3>2, <3>3, <3>4 DEF Followed
    <3>7. Watched' /\ NoSwitch' => Heard(panel.typing)'
      <4>1. NoSwitch' => ~panel'.typing
        BY <2>4, <3>3
      <4> QED
        BY <3>5, <3>6, <4>1 DEF Heard
    <3>8. (InRoom' => where' = "here") => Heard(FALSE)'
      BY <1>1, <2>4, <3>5, <3>6
    <3>9. Prior' # "on"
      BY <3>2, <3>3
    <3> QED
      BY <1>3, <3>7, <3>8, <3>9, Zenon DEF Followed
  <2> QED
    BY <2>4, <2>5, <2>6 DEF VInv
<1> QED
  BY <1>4, <1>5

LEMMA StartDirectShown ==
  ASSUME TInv, TInv', VInv, NEW k \in Kinds, StartDirect(k)
  PROVE  VInv'
<1> DEFINE m == Head(up)
<1>1. /\ ~InRoom /\ up # <<>> /\ Take(k) /\ UNCHANGED <<last, link>> /\ ops \in Seq(Handler)
      /\ Limits /\ Flags /\ Placed
  BY DEF StartDirect, TInv, VInv, Queues
<1>2. CASE m = "say" \/ IsChange(m)
  <2>1. ops' = Append(ops, [m |-> m, old |-> FALSE]) /\ Accepted(k, hist.lost)
    BY <1>2 DEF StartDirect
  <2>2. hist'.lost = hist.lost /\ hist'.lost \in BOOLEAN
    BY <1>1, <2>1, HistLost DEF Flags
  <2>3. /\ Flags' /\ Sent' /\ UNCHANGED <<place, panel, online, where, stale, shown>>
        /\ m \in Messages
        /\ NoSwitch' /\ m # "say" => (panel.typing <=> m = "on")
        /\ NoSwitch' /\ m = "say" => ~panel.typing
        /\ m = "on" => OffNext'
        /\ m = "say" /\ OffNext => OffNext'
    BY <1>1, <2>2, Taken
  <2> HIDE DEF m
  <2>4. /\ Len(ops) \in Nat /\ Len(ops') = Len(ops) + 1 /\ ops'[Len(ops) + 1] = [m |-> m, old |-> FALSE]
        /\ \A i \in 1 .. Len(ops) : ops'[i] = ops[i]
        /\ ops' # <<>> /\ (Len(ops) = 0 => ops = <<>>)
    BY <1>1, <2>1
  <2>5. Placed'
    BY <1>1, <2>3 DEF Placed, InRoom
  <2>6. ASSUME ~hist'.lost
        PROVE  Followed'
    <3>1. Followed
      BY <2>2, <2>6 DEF VInv
    <3>2. \A i \in 1 .. Len(ops') : ~ops'[i].old
      BY <2>4, <3>1 DEF Followed
    <3>3. ASSUME Len(ops') = 1
          PROVE  ops'[1].m = m /\ ops = <<>>
      <4>1. Len(ops) = 0 /\ Len(ops) + 1 = 1
        <5>1. PICK n \in Nat : n = Len(ops)
          BY <2>4
        <5>2. n + 1 = 1
          BY <2>4, <3>3, <5>1
        <5>3. n = 0
          BY <5>2
        <5> QED
          BY <5>1, <5>3
      <4>2. ops'[1] = [m |-> m, old |-> FALSE]
        BY <2>4, <4>1
      <4> QED
        BY <2>4, <4>1, <4>2
    <3>4. Len(ops') = 1 /\ NoSwitch' => (panel'.typing <=> ops'[1].m = "on")
      BY <2>3, <3>3 DEF Messages
    <3>5. Len(ops') <= 1 /\ Prior' = "on" => OffNext'
      <4> SUFFICES ASSUME Len(ops') <= 1, Prior' = "on"
                   PROVE  OffNext'
        OBVIOUS
      <4>1. Len(ops') = 1
        BY <2>4
      <4>2. ops'[1].m = m /\ ops = <<>>
        BY <3>3, <4>1
      <4>3. CASE m # "say"
        BY <2>3, <2>4, <4>2, <4>3 DEF Prior
      <4>4. CASE m = "say"
        <5>1. last = "on" /\ Prior = "on" /\ Len(ops) <= 1
          BY <1>1, <2>4, <4>2, <4>4 DEF Prior
        <5> QED
          BY <2>3, <3>1, <4>4, <5>1 DEF Followed
      <4> QED
        BY <4>3, <4>4
    <3> QED
      BY <2>4, <3>2, <3>4, <3>5, Zenon DEF Followed
  <2> QED
    BY <2>3, <2>5, <2>6 DEF VInv
<1>3. CASE m # "say" /\ ~IsChange(m)
  <2>1. ops' = ops /\ Accepted(k, hist.lost \/ ops # <<>>) /\ last = m
    BY <1>3 DEF StartDirect, IsChange
  <2>2. hist'.lost = (hist.lost \/ ops # <<>>)
    BY <1>1, <2>1, HistLost
  <2>3. hist'.lost \in BOOLEAN
    BY <2>2
  <2>4. /\ Flags' /\ Sent' /\ UNCHANGED <<place, panel, online, where, stale, shown>>
        /\ NoSwitch' => (panel.typing <=> m = "on")
        /\ m \in Messages /\ (OffNext => m # "on")
    BY <1>1, <1>3, <2>3, Taken
  <2> HIDE DEF m
  <2>5. Placed'
    BY <1>1, <2>4 DEF Placed, InRoom
  <2>6. ASSUME ~hist'.lost
        PROVE  Followed'
    <3>1. ~hist.lost /\ ops = <<>> /\ ops' = <<>> /\ Len(ops') # 1 /\ 1 .. Len(ops') = {}
      <4>1. ~hist.lost /\ ops = <<>>
        BY <2>2, <2>6
      <4>2. ops' = <<>>
        BY <2>1, <4>1
      <4> QED
        BY <4>1, <4>2
    <3>2. Followed /\ Prior = m /\ Prior' = m
      BY <1>1, <2>1, <3>1 DEF VInv, Prior
    <3>3. m = "off"
      BY <1>3, <2>4, <3>1, <3>2 DEF Followed, Messages
    <3>4. Heard(FALSE)'
      BY <1>1, <2>1, <2>4, <3>1, <3>2, <3>3, SameHeard DEF Followed
    <3>5. NoSwitch' => Heard(panel.typing)'
      <4>1. NoSwitch' => ~panel'.typing
        BY <2>4, <3>3
      <4> QED
        BY <3>4, <4>1 DEF Heard
    <3>6. Prior' # "on"
      BY <3>2, <3>3
    <3> QED
      BY <3>1, <3>4, <3>5, <3>6, Zenon DEF Followed
  <2> QED
    BY <2>4, <2>5, <2>6 DEF VInv
<1> QED
  BY <1>2, <1>3

LEMMA DirectDoneShown ==
  ASSUME TInv, TInv', VInv, NEW i, DirectDone(i)
  PROVE  VInv'
<1>1. /\ i \in DOMAIN ops /\ ops' = RemoveAt(ops, i) /\ ops \in Seq(Handler) /\ ops' \in Seq(Handler)
      /\ Publish(ops[i].m) /\ Queues /\ Limits /\ Flags /\ Placed /\ Sent
      /\ UNCHANGED <<place, panel, online, up, where, stale, shown>>
      /\ last' = IF ops[i].m = "say" \/ ops[i].old THEN last ELSE ops[i].m
      /\ hist' = [hist EXCEPT !.lost =
               (@ \/ ~(Len(ops) = 1)) /\ ~(ops[i].m # "say" /\ ~ops[i].old /\ Current(ops[i].m, up) /\ Len(ops) = 1)]
  BY DEF DirectDone, TInv, VInv, Queues, writer
<1>2. PICK m \in Messages : m = ops[i].m
  BY <1>1, HandlerLeaves DEF Handler
<1>3. hist'.lost = ((hist.lost \/ ~(Len(ops) = 1))
                     /\ ~(m # "say" /\ ~ops[i].old /\ Current(m, up) /\ Len(ops) = 1))
  BY <1>1, <1>2 DEF Limits
<1>4. hist'.lost \in BOOLEAN
  BY <1>3
<1>5. Flags' /\ Sent' /\ (NoSwitch' <=> NoSwitch) /\ (OffNext' <=> OffNext)
  BY <1>1, <1>4 DEF Flags, Sent, NoSwitch, OffNext
<1>6. ~InRoom /\ ~InRoom'
  BY <1>1 DEF Placed, InRoom
<1>7. Placed'
  BY <1>1, <1>6 DEF Placed
<1>8. \A t \in BOOLEAN : (t <=> m = "on") => Heard(t)'
  BY <1>1, <1>2, PublishSays DEF Messages, Published
<1>9. ASSUME ~hist'.lost
      PROVE  Followed'
  <2>1. Len(ops) = 1
    BY <1>3, <1>9
  <2>2. i = 1
    BY <1>1, <2>1
  <2>3. ops' = <<>> /\ Len(ops') # 1 /\ 1 .. Len(ops') = {}
    <3>1. SubSeq(ops, 1, 0) = <<>> /\ SubSeq(ops, 2, Len(ops)) = <<>>
      BY <1>1, <2>1
    <3>2. ops' = <<>> \o <<>>
      BY <1>1, <2>2, <3>1 DEF RemoveAt
    <3>3. ops' = <<>>
      BY <3>2
    <3> QED
      BY <3>3
  <2>4. /\ ~ops[1].old
        /\ NoSwitch => (panel.typing <=> m = "on")
        /\ last' = "on" => OffNext
    <3>1. CASE ~hist.lost
      <4>1. Followed /\ 1 \in 1 .. Len(ops) /\ ops # <<>>
        BY <2>1, <3>1 DEF VInv
      <4>2. ~ops[1].old /\ (NoSwitch => (panel.typing <=> m = "on"))
        BY <1>2, <2>1, <2>2, <4>1 DEF Followed
      <4>3. last' = "on" => Prior = "on"
        BY <1>1, <1>2, <2>2, <4>1, <4>2 DEF Prior
      <4> QED
        BY <2>1, <4>1, <4>2, <4>3 DEF Followed
    <3>2. CASE hist.lost
      <4>1. m # "say" /\ ~ops[i].old /\ Current(m, up)
        BY <1>3, <1>9, <3>2
      <4>2. up = <<>> /\ panel.typing = (m = "on") /\ last' = m
        BY <1>1, <1>2, <4>1 DEF Current
      <4>3. 1 .. Len(up) = {}
        BY <4>2
      <4> QED
        BY <2>2, <4>1, <4>2, <4>3 DEF OffNext
    <3> QED
      BY <1>1, <3>1, <3>2 DEF Flags
  <2>5. NoSwitch' => Heard(panel.typing)'
    <3> SUFFICES ASSUME NoSwitch'
                 PROVE  Heard(panel.typing)'
      OBVIOUS
    <3>1. PICK t \in BOOLEAN : (t <=> m = "on") /\ (panel'.typing <=> t)
      BY <1>1, <1>5, <2>4
    <3>2. Heard(t)'
      BY <1>8, <3>1
    <3> QED
      BY <3>1, <3>2 DEF Heard
  <2>6. last' = "off" => Heard(FALSE)'
    <3>1. CASE m = "say"
      BY <1>8, <3>1
    <3>2. CASE m # "say"
      BY <1>1, <1>2, <1>8, <2>2, <2>4, <3>2
    <3> QED
      BY <3>1, <3>2
  <2>7. Prior' = last'
    BY <2>3 DEF Prior
  <2>8. Prior' = "on" => OffNext'
    BY <1>5, <2>4, <2>7
  <2> QED
    BY <2>3, <2>5, <2>6, <2>8, Zenon DEF Followed
<1> QED
  BY <1>5, <1>7, <1>9 DEF VInv

LEMMA DirectFailsShown ==
  ASSUME TInv, VInv, NEW i, DirectFails(i)
  PROVE  VInv'
<1>1. hist'.lost = TRUE
  BY DEF DirectFails, Lost, TInv, Limits
<1>2. i \in DOMAIN ops /\ UNCHANGED <<place, panel, online, up, where, stale, last, shown>> /\ Flags /\ Sent /\ Placed
  BY DEF DirectFails, VInv, writer
<1>3. Flags' /\ Sent'
  <2>1. Sent'
    BY <1>2 DEF Sent
  <2>2. hist'.lost \in BOOLEAN
    BY <1>1
  <2>3. Flags'
    BY <1>2, <2>2 DEF Flags
  <2> QED
    BY <2>1, <2>3
<1>4. ~InRoom
  BY <1>2 DEF Placed
<1>5. Placed'
  BY <1>2, <1>4 DEF Placed, InRoom
<1> QED
  BY <1>1, <1>3, <1>5 DEF VInv

---------------------------------------------------------------------------
(* The socket, the other page, and the clock.                              *)

\* Nothing that is followed moves; the other page may have heard a message.
LEMMA AsideShown ==
  ASSUME VInv, UNCHANGED <<place, panel, up, server>>, hist'.lost = hist.lost,
         online' = online \/ online' = TRUE, shown'.typing \in BOOLEAN, shown'.there \in BOOLEAN,
         \A t \in BOOLEAN : Heard(t) => Heard(t)'
  PROVE  VInv'
<1>1. Flags' /\ Sent' /\ Placed'
  <2>1. UNCHANGED <<place, panel, up, where, stale, last, ops>> /\ Flags /\ Sent /\ Placed
    BY DEF VInv, server
  <2>2. online' \in BOOLEAN /\ (~online' => ~online) /\ hist'.lost \in BOOLEAN
    BY <2>1 DEF Flags
  <2>3. Flags'
    BY <2>1, <2>2 DEF Flags
  <2>4. Sent'
    BY <2>1, <2>2 DEF Sent
  <2>5. Placed'
    BY <2>1 DEF Placed, InRoom
  <2> QED
    BY <2>3, <2>4, <2>5
<1>2. ASSUME ~hist'.lost
      PROVE  Followed'
  <2>1. Followed /\ panel.typing \in BOOLEAN
    BY <1>2 DEF VInv, Flags
  <2>2. /\ UNCHANGED <<ops, last, where>> /\ (Watched' <=> Watched) /\ Prior' = Prior
        /\ (InRoom' <=> InRoom) /\ (NoSwitch' <=> NoSwitch) /\ (OffNext' <=> OffNext)
    BY DEF Watched, Prior, InRoom, NoSwitch, OffNext, server
  <2>3. Heard(panel.typing) => Heard(panel.typing)'
    <3>1. PICK t \in BOOLEAN : t = panel.typing
      BY <2>1
    <3>2. Heard(t) => Heard(t)'
      OBVIOUS
    <3> QED
      BY <3>1, <3>2 DEF Heard
  <2>4. Heard(FALSE) => Heard(FALSE)'
    OBVIOUS
  <2> QED
    BY <2>1, <2>2, <2>3, <2>4 DEF Followed
<1> QED
  BY <1>1, <1>2 DEF VInv

LEMMA DropShown ==
  ASSUME TInv, TInv', VInv, Drop
  PROVE  VInv'
<1>1. /\ online /\ online' = FALSE /\ up' = <<>> /\ stale' = (where = "here") /\ where' = "none"
      /\ last' = "unset" /\ ops' = [i \in DOMAIN ops |-> [ops[i] EXCEPT !.old = TRUE]]
      /\ UNCHANGED <<place, panel, link, shown>>
      /\ Queues /\ Queues' /\ Limits /\ Flags /\ Placed
  BY DEF Drop, TInv, VInv
<1>2. Len(up') = 0 /\ 1 .. Len(up') = {}
  BY <1>1
<1>3. ops = <<>> => ops' = <<>>
  <2> SUFFICES ASSUME ops = <<>>
               PROVE  ops' = <<>>
    OBVIOUS
  <2>1. DOMAIN ops = {} /\ DOMAIN ops' = DOMAIN ops
    BY <1>1
  <2>2. ops' \in Seq(Handler)
    BY <1>1 DEF Queues
  <2> QED
    BY <2>1, <2>2
<1>4. \/ hist' = hist /\ up = <<>> /\ ops = <<>>
      \/ hist'.lost = TRUE
  BY <1>1 DEF Drop, Lost, Limits
<1>5. hist'.lost \in BOOLEAN
  BY <1>1, <1>4 DEF Flags
<1>6. stale' \in BOOLEAN /\ online' \in BOOLEAN
  BY <1>1
<1>7. Flags'
  BY <1>1, <1>5, <1>6 DEF Flags
<1>8. Sent'
  BY <1>1, <1>2 DEF Sent
<1>9. Placed'
  BY <1>1, <1>3 DEF Placed, InRoom
<1>10. ASSUME ~hist'.lost
       PROVE  Followed'
  <2>1. hist' = hist /\ up = <<>> /\ ops = <<>> /\ ops' = <<>> /\ Followed
    BY <1>3, <1>4, <1>10 DEF VInv
  <2>2. Len(ops') # 1 /\ 1 .. Len(ops') = {} /\ NoSwitch
    BY <2>1 DEF NoSwitch
  <2>3. Watched' => Watched
    BY <1>1 DEF Watched, InRoom
  <2>4. Watched' => Heard(panel.typing)'
    <3>1. Watched => Heard(panel.typing)
      BY <2>1, <2>2 DEF Followed
    <3> QED
      BY <1>1, <2>3, <3>1 DEF Heard
  <2>5. last' # "off" /\ Prior' # "on"
    BY <1>1, <2>1 DEF Prior
  <2> QED
    BY <2>1, <2>2, <2>4, <2>5, Zenon DEF Followed
<1> QED
  BY <1>7, <1>8, <1>9, <1>10 DEF VInv

LEMMA CloseSeenShown ==
  ASSUME TInv, VInv, CloseSeen
  PROVE  VInv'
<1>1. /\ stale' = FALSE /\ UNCHANGED <<place, panel, online, up, where, last, ops, shown, hist>>
      /\ (IF InRoom THEN Publish("left") ELSE UNCHANGED link)
      /\ Queues /\ Flags /\ Placed /\ stale
  BY DEF CloseSeen, TInv, VInv, writer
<1>2. stale' \in BOOLEAN
  BY <1>1
<1>3. Flags' /\ Sent' /\ Placed'
  <2>1. Flags'
    BY <1>1, <1>2 DEF Flags
  <2>2. Sent'
    BY <1>1 DEF VInv, Sent
  <2>3. Placed'
    BY <1>1 DEF Placed, InRoom
  <2> QED
    BY <2>1, <2>2, <2>3
<1>4. ASSUME ~hist'.lost
      PROVE  Followed'
  <2>1. Followed
    BY <1>1, <1>4 DEF VInv
  <2>2. CASE InRoom
    <3>1. ops' = <<>> /\ InRoom' /\ where' = "none" /\ ~Watched' /\ last' = "unset"
      BY <1>1, <2>2 DEF Placed, InRoom, Watched
    <3>2. Prior' # "on" /\ Len(ops') # 1 /\ 1 .. Len(ops') = {}
      BY <3>1 DEF Prior
    <3> QED
      BY <3>1, <3>2, Zenon DEF Followed
  <2>3. CASE ~InRoom
    <3>1. UNCHANGED <<place, panel, up, link, shown, ops, last, where>>
      BY <1>1, <2>3
    <3>2. /\ (Watched' <=> Watched) /\ Prior' = Prior /\ (InRoom' <=> InRoom)
          /\ (NoSwitch' <=> NoSwitch) /\ (OffNext' <=> OffNext)
          /\ (Heard(panel.typing)' <=> Heard(panel.typing)) /\ (Heard(FALSE)' <=> Heard(FALSE))
      BY <2>3, <3>1 DEF Watched, Prior, InRoom, NoSwitch, OffNext, Heard
    <3> QED
      BY <2>1, <3>1, <3>2 DEF Followed
  <2> QED
    BY <2>2, <2>3
<1> QED
  BY <1>3, <1>4 DEF VInv

LEMMA JoinShown ==
  ASSUME TInv, VInv, NEW room \in {"here", "away"}, Join(room)
  PROVE  VInv'
<1>1. /\ online /\ where # room /\ where' = room /\ stale' = FALSE
      /\ UNCHANGED <<place, panel, online, up, last, ops, shown>>
      /\ hist' = [hist EXCEPT !.lost = @ \/ (room = "here" /\ panel.typing)]
      /\ Queues /\ Limits /\ Flags /\ Placed /\ Sent
  BY DEF Join, TInv, VInv
<1>2. hist'.lost = (hist.lost \/ (room = "here" /\ panel.typing))
  BY <1>1 DEF Limits
<1>3. hist'.lost \in BOOLEAN /\ stale' \in BOOLEAN
  BY <1>1, <1>2
<1>4. Flags' /\ Sent' /\ Placed'
  <2>1. Flags'
    BY <1>1, <1>3 DEF Flags
  <2>2. Sent'
    BY <1>1 DEF Sent
  <2>3. Placed'
    BY <1>1 DEF Placed, InRoom
  <2> QED
    BY <2>1, <2>2, <2>3
<1>5. ASSUME ~hist'.lost
      PROVE  Followed'
  <2>1. ~hist.lost /\ (room = "here" => ~panel.typing)
    BY <1>2, <1>5
  <2>2. Followed
    BY <2>1 DEF VInv
  <2>3. Prior' = Prior /\ (InRoom' <=> InRoom) /\ (NoSwitch' <=> NoSwitch) /\ (OffNext' <=> OffNext)
    BY <1>1 DEF Prior, InRoom, NoSwitch, OffNext
  <2>4. CASE ~InRoom
    <3>1. link' = link
      BY <2>4 DEF Join
    <3>2. (Heard(panel.typing)' <=> Heard(panel.typing)) /\ (Heard(FALSE)' <=> Heard(FALSE)) /\ Watched
      BY <1>1, <2>4, <3>1 DEF Heard, Watched
    <3> QED
      BY <1>1, <2>2, <2>3, <2>4, <3>2 DEF Followed
  <2>5. CASE InRoom
    <3>1. ops = <<>> /\ ops' = <<>> /\ Len(ops') # 1 /\ 1 .. Len(ops') = {}
      BY <1>1, <2>5 DEF Placed
    <3>2. Prior' = "on" => OffNext'
      BY <2>2, <2>3, <3>1 DEF Followed
    <3>3. CASE room = "away"
      <4>1. ~Watched' /\ ~(InRoom' => where' = "here")
        BY <1>1, <2>3, <2>5, <3>3 DEF Watched
      <4> QED
        BY <3>1, <3>2, <4>1, Zenon DEF Followed
    <3>4. CASE room = "here" /\ ~stale
      <4>1. Publish("joined")
        BY <2>5, <3>4 DEF Join
      <4>2. Heard(FALSE)'
        BY <1>1, <4>1, PublishSays DEF Published
      <4>3. Heard(panel.typing)'
        BY <1>1, <2>1, <3>4, <4>2 DEF Heard
      <4> QED
        BY <3>1, <3>2, <4>2, <4>3, Zenon DEF Followed
    <3>5. CASE room = "here" /\ stale
      <4>1. link' = link /\ Watched /\ where = "none" /\ last' = "unset"
        BY <1>1, <2>5, <3>5 DEF Join, Watched, Placed
      <4>2. NoSwitch' => Heard(panel.typing)'
        <5>1. NoSwitch => Heard(panel.typing)
          BY <2>2, <3>1, <4>1 DEF Followed
        <5> QED
          BY <1>1, <2>3, <4>1, <5>1 DEF Heard
      <4>3. last' # "off"
        BY <4>1
      <4> QED
        BY <3>1, <3>2, <4>2, <4>3, Zenon DEF Followed
    <3> QED
      BY <3>3, <3>4, <3>5
  <2> QED
    BY <2>4, <2>5
<1> QED
  BY <1>4, <1>5 DEF VInv

LEMMA HandleServerMessageShown ==
  ASSUME TInv, VInv, HandleServerMessage
  PROVE  VInv'
<1> DEFINE m == Head(link)
<1>1. /\ link # <<>> /\ link' = Tail(link) /\ link \in Seq(Published)
      /\ UNCHANGED <<place, panel, online, up, server, hist>> /\ Flags /\ Page
  BY DEF HandleServerMessage, TInv, VInv, Queues, writer
<1>2. m \in {"say", "on", "off", "joined", "left"} /\ m = link[1] /\ Len(link) \in Nat \ {0}
  BY <1>1 DEF Published
<1>3. /\ Nothing.typing = FALSE /\ Nothing.there = FALSE
      /\ Fresh.typing = FALSE /\ Fresh.there = TRUE
  BY DEF Nothing, Fresh
<1>4. shown' = CASE m = "left" -> Nothing
                 [] m = "joined" -> Fresh
                 [] m = "say" /\ shown.there ->
                      [shown EXCEPT !.typing = FALSE, !.bubbles = Smaller(@ + 1, MaxBubbles)]
                 [] m \in {"on", "off"} /\ shown.there -> [shown EXCEPT !.typing = (m = "on")]
                 [] OTHER -> shown
  BY DEF HandleServerMessage
<1> HIDE DEF m
<1>5. /\ shown'.typing \in BOOLEAN /\ shown'.there \in BOOLEAN
      /\ shown'.there => (shown'.typing <=> m = "on")
  <2>1. CASE m \in {"left", "joined"}
    <3>1. CASE m = "left"
      <4>1. shown' = Nothing
        BY <1>4, <3>1
      <4> QED
        BY <1>3, <3>1, <4>1
    <3>2. CASE m = "joined"
      <4>1. shown' = Fresh
        BY <1>4, <3>2
      <4> QED
        BY <1>3, <3>2, <4>1
    <3> QED
      BY <2>1, <3>1, <3>2
  <2>2. CASE m = "say" /\ shown.there
    <3> DEFINE n == Smaller(shown.bubbles + 1, MaxBubbles)
    <3>1. shown' = [shown EXCEPT !.typing = FALSE, !.bubbles = n]
      BY <1>4, <2>2
    <3> HIDE DEF n
    <3>2. shown'.typing = FALSE /\ shown'.there = shown.there
      BY <1>1, <3>1 DEF Page
    <3> QED
      BY <1>1, <2>2, <3>2 DEF Flags
  <2>3. CASE m \in {"on", "off"} /\ shown.there
    <3>1. shown' = [shown EXCEPT !.typing = (m = "on")]
      BY <1>4, <2>3
    <3>2. shown'.typing = (m = "on") /\ shown'.there = shown.there
      BY <1>1, <3>1 DEF Page
    <3>3. (m = "on") \in BOOLEAN
      OBVIOUS
    <3> QED
      BY <1>1, <3>2, <3>3 DEF Flags
  <2>4. CASE ~shown.there /\ m \in {"say", "on", "off"}
    <3>1. shown' = shown
      BY <1>4, <2>4
    <3> QED
      BY <1>1, <2>4, <3>1 DEF Flags
  <2> QED
    BY <1>2, <2>1, <2>2, <2>3, <2>4
<1>6. ASSUME NEW t \in BOOLEAN, Heard(t)
      PROVE  Heard(t)'
  <2>1. (link[Len(link)] = "on") <=> t
    BY <1>1, <1>6 DEF Heard
  <2>2. CASE link' = <<>>
    <3>1. Len(link) = 1
      <4>1. Len(link') = Len(link) - 1
        BY <1>1, <1>2
      <4>2. Len(link') = 0
        BY <2>2
      <4>3. Len(link) \in Nat
        BY <1>2
      <4> QED
        BY <4>1, <4>2, <4>3
    <3>2. (m = "on") <=> t
      BY <1>2, <2>1, <3>1
    <3> QED
      BY <1>5, <2>2, <3>2 DEF Heard
  <2>3. CASE link' # <<>>
    <3>1. Len(link') = Len(link) - 1 /\ \A j \in 1 .. Len(link') : link'[j] = link[j + 1]
      BY <1>1, <1>2
    <3>2. link' \in Seq(Published)
      BY <1>1
    <3>3. Len(link') \in Nat \ {0}
      BY <2>3, <3>2
    <3>4. link'[Len(link')] = link[Len(link)]
      BY <1>2, <3>1, <3>3
    <3> QED
      BY <2>1, <2>3, <3>4 DEF Heard
  <2> QED
    BY <2>2, <2>3
<1> QED
  BY <1>1, <1>5, <1>6, AsideShown

LEMMA ReloadShown ==
  ASSUME TInv, VInv, Reload
  PROVE  VInv'
<1>1. /\ hist'.lost = TRUE /\ UNCHANGED <<place, panel, online, up, where, stale, last, ops>>
      /\ shown' \in {Fresh, Nothing} /\ Flags /\ Sent /\ Placed
  BY DEF Reload, Lost, TInv, VInv, Limits, writer, server
<1>2. hist'.lost \in BOOLEAN /\ shown'.typing \in BOOLEAN /\ shown'.there \in BOOLEAN
  <2>1. /\ Nothing.typing = FALSE /\ Nothing.there = FALSE
        /\ Fresh.typing = FALSE /\ Fresh.there = TRUE
    BY DEF Nothing, Fresh
  <2> QED
    BY <1>1, <2>1
<1>3. Flags'
  BY <1>1, <1>2 DEF Flags
<1>4. Sent' /\ Placed'
  BY <1>1 DEF Sent, Placed, InRoom
<1> QED
  BY <1>1, <1>3, <1>4 DEF VInv

LEMMA StillShown ==
  ASSUME TInv, VInv, BubbleExpires \/ Reconnect \/ ClockAdvances \/ ClockSetBack \/ UNCHANGED vars
  PROVE  VInv'
<1>1. /\ UNCHANGED <<place, panel, up, server, link>> /\ (online' = online \/ online' = TRUE)
      /\ Flags /\ Limits /\ Page
  BY DEF BubbleExpires, Reconnect, ClockAdvances, ClockSetBack, vars, writer, TInv, VInv
<1>2. hist'.lost = hist.lost
  <2>1. CASE ClockAdvances
    BY <1>1, <2>1 DEF ClockAdvances, Limits
  <2> QED
    BY <2>1 DEF BubbleExpires, Reconnect, ClockSetBack, vars
<1>3. shown'.typing = shown.typing /\ shown'.there = shown.there
  <2>1. CASE BubbleExpires
    BY <1>1, <2>1 DEF BubbleExpires, Page
  <2> QED
    BY <2>1 DEF Reconnect, ClockAdvances, ClockSetBack, vars
<1>4. \A t \in BOOLEAN : Heard(t) => Heard(t)'
  BY <1>1, <1>3 DEF Heard
<1> QED
  BY <1>1, <1>2, <1>3, <1>4, AsideShown DEF Flags

LEMMA InitShown == Init => VInv
<1> SUFFICES ASSUME Init
             PROVE  VInv
  OBVIOUS
<1>1. up = <<>> /\ ops = <<>> /\ link = <<>> /\ Len(up) = 0 /\ Len(ops) = 0
  BY DEF Init
<1>2. Flags
  BY DEF Init, Flags, Fresh
<1>3. Sent /\ Placed
  BY <1>1 DEF Init, Sent, Placed
<1>4. \A t : ~t => Heard(t)
  BY <1>1 DEF Init, Heard, Fresh
<1>5. Followed
  <2>1. 1 .. Len(ops) = {} /\ Len(ops) # 1 /\ Prior # "on" /\ ~panel.typing /\ panel.typing = FALSE
    BY <1>1 DEF Init, Prior
  <2>2. Heard(FALSE) /\ Heard(panel.typing)
    BY <1>4, <2>1
  <2> QED
    BY <2>1, <2>2, Zenon DEF Followed
<1> QED
  BY <1>2, <1>3, <1>5 DEF VInv

LEMMA NextShown == TInv /\ VInv /\ [Next]_vars => VInv'
<1> SUFFICES ASSUME TInv, VInv, [Next]_vars
             PROVE  VInv'
  OBVIOUS
<1>1. TInv'
  BY NextInv
<1>2. CASE UNCHANGED vars
  BY <1>2, StillShown
<1>3. CASE Next
  BY <1>1, <1>3, PanelShown, ClearShown, RefusedShown, StartDirectShown, ChatSayShown,
     ChatTypingShown, DirectDoneShown, DirectFailsShown, DropShown, CloseSeenShown, JoinShown,
     HandleServerMessageShown, ReloadShown, StillShown DEF Next
<1> QED
  BY <1>2, <1>3

LEMMA ShownAtRest == VInv => IndicatorTrue
<1> SUFFICES ASSUME VInv, up = <<>>, ops = <<>>, link = <<>>, ~hist.lost, shown.there,
                    InRoom => where = "here"
             PROVE  shown.typing = panel.typing
  BY DEF IndicatorTrue
<1>1. Followed /\ Watched /\ NoSwitch /\ shown.typing \in BOOLEAN /\ panel.typing \in BOOLEAN
  BY DEF VInv, Flags, Watched, NoSwitch
<1>2. Heard(panel.typing)
  BY <1>1 DEF Followed
<1> QED
  BY <1>1, <1>2 DEF Heard

\* When nothing is on its way, and no change was lost on the way before, the
\* other page shows that the user types exactly if the user's panel says so:
\* the socket's queue, the server's belief and the link agree in between.
THEOREM IndicatorIsTrue == Spec => []IndicatorTrue
<1>1. Init => TInv /\ VInv
  BY InitInv, InitShown
<1>2. TInv /\ VInv /\ [Next]_vars => TInv' /\ VInv'
  BY NextInv, NextShown
<1>3. VInv => IndicatorTrue
  BY ShownAtRest
<1> QED
  BY <1>1, <1>2, <1>3, PTL DEF Spec

---------------------------------------------------------------------------
(* FixedWindowRateLimiter: the windows of the login and other limits.      *)

Bucket == [count : 1 .. Limit, resetAt : Int]

\* The clock has advanced by a window for each window of the key that is over,
\* and in the open one by what the clock has run since it was opened.
Spent(k) ==
  /\ buckets[k] = NoBucket =>
       /\ passed[k] <= Limit * opened[k]
       /\ Window * opened[k] <= forward
  /\ buckets[k] # NoBucket =>
       /\ opened[k] >= 1
       /\ passed[k] <= Limit * (opened[k] - 1) + buckets[k].count
       /\ Window * (opened[k] - 1) <= forward
       /\ Window * opened[k] + now - buckets[k].resetAt <= forward
       /\ promise[k] > 0 => buckets[k].resetAt <= promise[k]

WindowTypes ==
  /\ buckets \in [Keys -> Bucket \cup {NoBucket}]
  /\ now \in Nat /\ forward \in Nat
  /\ pending \in [Handlers -> Names \cup {NoName}]
  /\ passed \in [Keys -> Nat] /\ opened \in [Keys -> Nat] /\ promise \in [Keys -> Nat]

WindowInv == WindowTypes /\ \A k \in Keys : Spent(k)

LEMMA BucketIsNot == NoBucket \notin Bucket
<1>1. Bucket \subseteq [count : Int, resetAt : Int]
  BY DEF Bucket
<1> QED
  BY <1>1, WindowAssumption

LEMMA Product ==
  ASSUME NEW n \in Nat, NEW c \in Nat
  PROVE  /\ c * (n + 1) = c * n + c
         /\ c * n \in Nat
         /\ c * ((n + 1) - 1) = c * n
BY SMT

LEMMA ProductBefore ==
  ASSUME NEW n \in Nat, NEW c \in Nat, n >= 1
  PROVE  c * (n - 1) = c * n - c /\ c * n \in Nat
BY SMT

LEMMA InitWindows == WindowInit => WindowInv
<1> SUFFICES ASSUME WindowInit PROVE WindowInv
  OBVIOUS
<1>1. WindowTypes
  BY DEF WindowInit, WindowTypes
<1>2. ASSUME NEW k \in Keys PROVE Spent(k)
  <2>1. Limit * 0 = 0 /\ Window * 0 = 0
    BY WindowAssumption
  <2> QED
    BY <2>1 DEF WindowInit, Spent
<1> QED
  BY <1>1, <1>2 DEF WindowInv

---------------------------------------------------------------------------
(* consume, at a key.                                                      *)

LEMMA OpensKeeps ==
  ASSUME WindowInv, NEW k \in Keys, Opens(k), UNCHANGED <<now, forward>>,
         pending' \in [Handlers -> Names \cup {NoName}]
  PROVE  WindowInv'
<1> DEFINE b == [count |-> 1, resetAt |-> now + Window]
<1>1. b \in Bucket
  BY WindowAssumption DEF Bucket, WindowInv, WindowTypes
<1>2. WindowTypes'
  BY <1>1 DEF Opens, WindowInv, WindowTypes
<1>3. /\ buckets'[k] = b /\ passed'[k] = passed[k] + 1
      /\ opened'[k] = opened[k] + 1 /\ promise'[k] = 0
  BY DEF Opens, WindowInv, WindowTypes
<1>4. buckets'[k] # NoBucket
  BY <1>1, <1>3, BucketIsNot
<1>5. opened[k] \in Nat /\ passed[k] \in Nat /\ now \in Nat /\ forward \in Nat
  BY DEF WindowInv, WindowTypes
<1>6. passed[k] <= Limit * opened[k] /\ Window * opened[k] <= forward
  <2>1. CASE buckets[k] = NoBucket
    BY <2>1 DEF WindowInv, Spent
  <2>2. CASE buckets[k] # NoBucket
    <3>1. buckets[k] \in Bucket /\ buckets[k].resetAt <= now
      BY <2>2 DEF Opens, Vacant, WindowInv, WindowTypes
    <3>2. buckets[k].count <= Limit /\ buckets[k].resetAt \in Int /\ buckets[k].count \in Int
      BY <3>1, WindowAssumption DEF Bucket
    <3>3. /\ opened[k] >= 1
          /\ passed[k] <= Limit * (opened[k] - 1) + buckets[k].count
          /\ Window * opened[k] + now - buckets[k].resetAt <= forward
      BY <2>2 DEF WindowInv, Spent
    <3>4. Limit * (opened[k] - 1) = Limit * opened[k] - Limit /\ Limit * opened[k] \in Nat
      BY <1>5, <3>3, ProductBefore, WindowAssumption
    <3>5. Window * opened[k] \in Nat
      BY <1>5, <3>3, ProductBefore, WindowAssumption
    <3> QED
      BY <1>5, <3>1, <3>2, <3>3, <3>4, <3>5, WindowAssumption
  <2> QED
    BY <2>1, <2>2
<1>7. Spent(k)'
  <2>1. /\ Limit * ((opened[k] + 1) - 1) = Limit * opened[k] /\ Limit * opened[k] \in Nat
        /\ Window * ((opened[k] + 1) - 1) = Window * opened[k] /\ Window * opened[k] \in Nat
        /\ Window * (opened[k] + 1) = Window * opened[k] + Window
    BY <1>5, Product, WindowAssumption
  <2>2. passed[k] + 1 <= Limit * ((opened[k] + 1) - 1) + b.count
    BY <1>5, <1>6, <2>1
  <2>3. Window * (opened[k] + 1) + now - b.resetAt <= forward
    BY <1>5, <1>6, <2>1, WindowAssumption
  <2>4. Window * ((opened[k] + 1) - 1) <= forward /\ opened[k] + 1 >= 1
    BY <1>5, <1>6, <2>1
  <2> HIDE DEF b
  <2> QED
    BY <1>3, <1>4, <2>2, <2>3, <2>4 DEF Spent
<1>8. ASSUME NEW l \in Keys, l # k PROVE Spent(l)'
  <2>1. /\ buckets'[l] = buckets[l] /\ passed'[l] = passed[l]
        /\ opened'[l] = opened[l] /\ promise'[l] = promise[l]
    BY <1>8 DEF Opens, WindowInv, WindowTypes
  <2> QED
    BY <2>1 DEF WindowInv, Spent
<1> QED
  BY <1>2, <1>7, <1>8 DEF WindowInv

LEMMA CountsKeeps ==
  ASSUME WindowInv, NEW k \in Keys, Counts(k), UNCHANGED <<now, forward>>,
         pending' \in [Handlers -> Names \cup {NoName}]
  PROVE  WindowInv'
<1>1. buckets[k] \in Bucket /\ buckets[k] # NoBucket /\ buckets[k].count < Limit
  BY DEF Counts, Vacant, Admits, WindowInv, WindowTypes
<1> DEFINE b == [buckets[k] EXCEPT !.count = @ + 1]
<1>2. b \in Bucket /\ b.count = buckets[k].count + 1 /\ b.resetAt = buckets[k].resetAt
  BY <1>1, WindowAssumption DEF Bucket
<1>3. /\ buckets' = [buckets EXCEPT ![k] = b] /\ passed' = [passed EXCEPT ![k] = @ + 1]
      /\ UNCHANGED <<opened, promise>>
  BY DEF Counts
<1> HIDE DEF b
<1>4. WindowTypes'
  BY <1>2, <1>3 DEF WindowInv, WindowTypes
<1>5. buckets'[k] = b /\ b # NoBucket /\ passed'[k] = passed[k] + 1
  BY <1>2, <1>3, BucketIsNot DEF WindowInv, WindowTypes
<1>6. Spent(k)'
  <2>1. passed[k] \in Nat /\ opened[k] \in Nat /\ buckets[k].count \in Int
    BY <1>1 DEF WindowInv, WindowTypes, Bucket
  <2>2. opened[k] >= 1 /\ passed[k] <= Limit * (opened[k] - 1) + buckets[k].count
    BY <1>1 DEF WindowInv, Spent
  <2>3. Limit * (opened[k] - 1) = Limit * opened[k] - Limit /\ Limit * opened[k] \in Nat
    BY <2>1, <2>2, ProductBefore, WindowAssumption
  <2>4. passed[k] + 1 <= Limit * (opened[k] - 1) + b.count
    BY <1>2, <2>1, <2>2, <2>3, WindowAssumption
  <2> QED
    BY <1>1, <1>2, <1>3, <1>5, <2>4 DEF WindowInv, Spent
<1>7. ASSUME NEW l \in Keys, l # k PROVE Spent(l)'
  <2>1. buckets'[l] = buckets[l] /\ passed'[l] = passed[l]
    BY <1>3, <1>7 DEF WindowInv, WindowTypes
  <2> QED
    BY <1>3, <2>1 DEF WindowInv, Spent
<1> QED
  BY <1>4, <1>6, <1>7 DEF WindowInv

\* Rounding up to whole seconds and to at least one gives enough ticks.
LEMMA RetryIsLong ==
  ASSUME WindowInv, NEW k \in Keys, k \notin Vacant
  PROVE  /\ RetryAfter(k) \in Nat
         /\ now + RetryAfter(k) * Second \in Nat
         /\ buckets[k].resetAt <= now + RetryAfter(k) * Second
<1>1. buckets[k] \in Bucket /\ ~(buckets[k].resetAt <= now) /\ now \in Nat
  BY DEF Vacant, WindowInv, WindowTypes
<1> DEFINE d == buckets[k].resetAt - now
           s == (d + Second - 1) \div Second
<1>2. d \in Nat /\ d >= 1
  BY <1>1 DEF Bucket
<1>3. RetryAfter(k) = IF s < 1 THEN 1 ELSE s
  BY DEF RetryAfter
<1> HIDE DEF d
<1>4. s \in Int /\ s * Second >= d
  <2>1. ASSUME NEW n \in Nat, NEW m \in Nat, m >= 1, n >= 1
        PROVE  (n + m - 1) \div m \in Int /\ ((n + m - 1) \div m) * m >= n
    BY <2>1, Z3
  <2> QED
    BY <1>2, <2>1, WindowAssumption
<1> HIDE DEF s
<1>5. s >= 1
  BY <1>2, <1>4, WindowAssumption
<1>6. RetryAfter(k) = s /\ s * Second \in Nat
  BY <1>2, <1>3, <1>4, <1>5, WindowAssumption
<1>7. d = buckets[k].resetAt - now /\ buckets[k].resetAt \in Int
  BY <1>1 DEF d, Bucket
<1> QED
  BY <1>1, <1>2, <1>4, <1>5, <1>6, <1>7

LEMMA RefusesKeeps ==
  ASSUME WindowInv, NEW k \in Keys, Refuses(k), UNCHANGED <<now, forward>>,
         pending' \in [Handlers -> Names \cup {NoName}]
  PROVE  WindowInv'
<1> DEFINE p == now + RetryAfter(k) * Second
<1>1. p \in Nat /\ buckets[k].resetAt <= p
  BY RetryIsLong DEF Refuses
<1>2. promise' = [promise EXCEPT ![k] = p] /\ UNCHANGED <<buckets, passed, opened>>
  BY DEF Refuses
<1> HIDE DEF p
<1>3. WindowTypes'
  BY <1>1, <1>2 DEF WindowInv, WindowTypes
<1>4. ASSUME NEW l \in Keys PROVE Spent(l)'
  <2>1. promise'[l] = IF l = k THEN p ELSE promise[l]
    BY <1>2 DEF WindowInv, WindowTypes
  <2> QED
    BY <1>1, <1>2, <2>1 DEF WindowInv, Spent
<1> QED
  BY <1>3, <1>4 DEF WindowInv

LEMMA AllowsKeeps ==
  ASSUME WindowInv, NEW k \in Keys, Allows(k) \/ Refuses(k), UNCHANGED <<now, forward>>,
         pending' \in [Handlers -> Names \cup {NoName}]
  PROVE  WindowInv'
BY OpensKeeps, CountsKeeps, RefusesKeeps DEF Allows

---------------------------------------------------------------------------
(* Requests, the timer, the clock.                                         *)

LEMMA WindowStep == WindowInv /\ [WindowNext]_windows => WindowInv'
<1> SUFFICES ASSUME WindowInv, [WindowNext]_windows PROVE WindowInv'
  OBVIOUS
<1>0. pending \in [Handlers -> Names \cup {NoName}]
  BY DEF WindowInv, WindowTypes
<1>1. CASE \E k \in Keys : OneKey(k)
  BY <1>0, <1>1, AllowsKeeps DEF OneKey
<1>2. ASSUME NEW h \in Handlers, NEW a \in Addresses, NEW n \in Names, FirstKey(h, a, n)
      PROVE  WindowInv'
  <2>1. a \in Keys /\ pending' \in [Handlers -> Names \cup {NoName}]
    BY <1>0, <1>2 DEF Keys, FirstKey
  <2> QED
    BY <1>2, <2>1, AllowsKeeps DEF FirstKey
<1>3. ASSUME NEW h \in Handlers, SecondKey(h) PROVE WindowInv'
  <2>1. pending[h] \in Keys /\ pending' \in [Handlers -> Names \cup {NoName}]
    BY <1>0, <1>3 DEF Keys, SecondKey
  <2> QED
    BY <1>3, <2>1, AllowsKeeps DEF SecondKey
<1>4. ASSUME NEW h \in Handlers, NoUserFound(h) PROVE WindowInv'
  BY <1>4 DEF NoUserFound, counts, WindowInv, WindowTypes, Spent
<1>5. CASE Prune
  <2>1. WindowTypes'
    BY <1>5 DEF Prune, counts, WindowInv, WindowTypes
  <2>2. ASSUME NEW k \in Keys PROVE Spent(k)'
    <3>1. CASE k \in Expired
      <4>1. buckets'[k] = NoBucket /\ buckets[k] \in Bucket /\ buckets[k] # NoBucket
            /\ buckets[k].resetAt <= now
        BY <1>5, <3>1 DEF Prune, Expired, WindowInv, WindowTypes
      <4>2. opened[k] \in Nat /\ passed[k] \in Nat /\ now \in Nat /\ forward \in Nat
            /\ buckets[k].resetAt \in Int /\ buckets[k].count \in Int /\ buckets[k].count <= Limit
        BY <4>1, WindowAssumption DEF WindowInv, WindowTypes, Bucket
      <4>3. /\ opened[k] >= 1
            /\ passed[k] <= Limit * (opened[k] - 1) + buckets[k].count
            /\ Window * opened[k] + now - buckets[k].resetAt <= forward
        BY <4>1 DEF WindowInv, Spent
      <4>4. /\ Limit * (opened[k] - 1) = Limit * opened[k] - Limit /\ Limit * opened[k] \in Nat
            /\ Window * opened[k] \in Nat
        BY <4>2, <4>3, ProductBefore, WindowAssumption
      <4>5. passed[k] <= Limit * opened[k] /\ Window * opened[k] <= forward
        BY <4>1, <4>2, <4>3, <4>4, WindowAssumption
      <4> QED
        BY <1>5, <4>1, <4>5 DEF Prune, counts, Spent
    <3>2. CASE k \notin Expired
      <4>1. buckets'[k] = buckets[k]
        BY <1>5, <3>2 DEF Prune
      <4> QED
        BY <1>5, <4>1 DEF Prune, counts, WindowInv, Spent
    <3> QED
      BY <3>1, <3>2
  <2> QED
    BY <2>1, <2>2 DEF WindowInv
<1>6. CASE TimeAdvances
  <2>1. WindowTypes'
    BY <1>6 DEF TimeAdvances, counts, WindowInv, WindowTypes
  <2>2. ASSUME NEW k \in Keys PROVE Spent(k)'
    <3>1. now \in Nat /\ forward \in Nat /\ opened[k] \in Nat /\ now' = now + 1 /\ forward' = forward + 1
      BY <1>6 DEF TimeAdvances, WindowInv, WindowTypes
    <3>2. Window * opened[k] \in Nat
      BY <3>1, Product, WindowAssumption
    <3>3. buckets[k] # NoBucket => buckets[k].resetAt \in Int /\ Window * (opened[k] - 1) \in Int
      BY <3>1, WindowAssumption DEF WindowInv, WindowTypes, Bucket
    <3> QED
      BY <1>6, <3>1, <3>2, <3>3 DEF TimeAdvances, counts, WindowInv, Spent
  <2> QED
    BY <2>1, <2>2 DEF WindowInv
<1>7. CASE TimeSetBack
  <2>1. WindowTypes'
    BY <1>7 DEF TimeSetBack, counts, WindowInv, WindowTypes
  <2>2. ASSUME NEW k \in Keys PROVE Spent(k)'
    <3>1. now \in Nat /\ forward \in Nat /\ opened[k] \in Nat /\ now' = now - 1
      BY <1>7 DEF TimeSetBack, WindowInv, WindowTypes
    <3>2. Window * opened[k] \in Nat
      BY <3>1, Product, WindowAssumption
    <3>3. buckets[k] # NoBucket => buckets[k].resetAt \in Int
      BY DEF WindowInv, WindowTypes, Bucket
    <3> QED
      BY <1>7, <3>1, <3>2, <3>3 DEF TimeSetBack, counts, WindowInv, Spent
  <2> QED
    BY <2>1, <2>2 DEF WindowInv
<1>8. CASE UNCHANGED windows
  BY <1>8 DEF windows, counts, WindowInv, WindowTypes, Spent
<1> QED
  BY <1>1, <1>2, <1>3, <1>4, <1>5, <1>6, <1>7, <1>8 DEF WindowNext

---------------------------------------------------------------------------

\* Each property follows from the invariant.
LEMMA WindowInvGives == WindowInv => WindowTypeOK /\ WindowsHold /\ RetryAfterCovers
<1> SUFFICES ASSUME WindowInv PROVE WindowTypeOK /\ WindowsHold /\ RetryAfterCovers
  OBVIOUS
<1>1. WindowTypeOK
  BY DEF WindowInv, WindowTypes, WindowTypeOK, Bucket
<1>2. ASSUME NEW k \in Keys
      PROVE  passed[k] <= Limit * opened[k] /\ (opened[k] > 0 => Window * (opened[k] - 1) <= forward)
  <2>1. opened[k] \in Nat /\ passed[k] \in Nat /\ forward \in Nat
    BY DEF WindowInv, WindowTypes
  <2>2. CASE buckets[k] = NoBucket
    <3>1. passed[k] <= Limit * opened[k] /\ Window * opened[k] <= forward
      BY <2>2 DEF WindowInv, Spent
    <3>2. opened[k] > 0 => Window * (opened[k] - 1) = Window * opened[k] - Window /\ Window * opened[k] \in Nat
      BY <2>1, ProductBefore, WindowAssumption
    <3> QED
      BY <2>1, <3>1, <3>2, WindowAssumption
  <2>3. CASE buckets[k] # NoBucket
    <3>1. buckets[k].count \in Int /\ buckets[k].count <= Limit
      BY <2>3, WindowAssumption DEF WindowInv, WindowTypes, Bucket
    <3>2. /\ opened[k] >= 1
          /\ passed[k] <= Limit * (opened[k] - 1) + buckets[k].count
          /\ Window * (opened[k] - 1) <= forward
      BY <2>3 DEF WindowInv, Spent
    <3>3. Limit * (opened[k] - 1) = Limit * opened[k] - Limit /\ Limit * opened[k] \in Nat
      BY <2>1, <3>2, ProductBefore, WindowAssumption
    <3> QED
      BY <2>1, <3>1, <3>2, <3>3, WindowAssumption
  <2> QED
    BY <2>2, <2>3
<1>3. RetryAfterCovers
  BY DEF WindowInv, Spent, RetryAfterCovers
<1> QED
  BY <1>1, <1>2, <1>3 DEF WindowsHold

\* The limiter's windows hold at most the limit: WindowTypeOK.
THEOREM WindowTypeCorrect == WindowSpec => []WindowTypeOK
<1> QED
  BY InitWindows, WindowStep, WindowInvGives, PTL DEF WindowSpec

\* For any limit, window and clock, a key gets no more through than its limit
\* for each window of the clock's advance and one more.
THEOREM WindowsAreLimits == WindowSpec => []WindowsHold
<1> QED
  BY InitWindows, WindowStep, WindowInvGives, PTL DEF WindowSpec

\* retry-after is never too short, whatever the window is in seconds.
THEOREM RetryAfterIsEnough == WindowSpec => []RetryAfterCovers
<1> QED
  BY InitWindows, WindowStep, WindowInvGives, PTL DEF WindowSpec

\* The property of the run: everything the limiter promises.
THEOREM LimiterKeepsItsWord == WindowSpec => []LimiterHolds
BY WindowTypeCorrect, WindowsAreLimits, RetryAfterIsEnough, PTL DEF LimiterHolds
=============================================================================
