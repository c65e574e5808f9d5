------------------------------ MODULE FriendsPage ------------------------------
(***************************************************************************)
(* The friends panel of one user's page, on top of the services.           *)
(*                                                                         *)
(* The panel shows the list of the last refresh that answered.  The page   *)
(* refreshes when the panel is opened, when its button is pressed, and     *)
(* after each of its own requests; nobody tells it what others do.         *)
(* Refreshes overlap, and nothing orders their answers.  The panel's       *)
(* buttons act on the friends it shows, stale or not.  All requests of     *)
(* this user come from this page; unblocking has no button.                *)
(*                                                                         *)
(* The unread counts a refresh also loads belong to DirectMessages; here   *)
(* they are one more reason for it to fail.                                *)
(***************************************************************************)
EXTENDS Friends

CONSTANTS
  Me,
  Fetches,   \* bound: refreshes under way at once
  MaxAtOnce  \* bound: requests and refreshes under way at once

ASSUME FriendsPageAssumption == Me \in Users /\ MaxAtOnce \in Nat

VARIABLES
  panel,     \* FriendsPanel.friends
  fetch,     \* refreshFriends: [step, list, clean]; clean is history
  excused    \* history: see PanelAgrees

page == <<panel, fetch, excused>>

Idle == [step |-> "idle", list |-> {}, clean |-> FALSE]
UnderWay == {f \in Fetches : fetch[f].step # "idle"}

HasRoom == Cardinality(Busy) + Cardinality(UnderWay) < MaxAtOnce

FriendsOf(u) == {v \in Users \ {u} : row[{u, v}] = "accepted"}

---------------------------------------------------------------------------
(* refreshFriends.                                                         *)

\* One that overlaps another may answer before it.
Begin(f) ==
  /\ fetch[f].step = "idle"
  /\ fetch' = [g \in Fetches |->
       IF g = f THEN [step |-> "asked", list |-> {}, clean |-> UnderWay = {}]
       ELSE IF g \in UnderWay THEN [fetch[g] EXCEPT !.clean = FALSE]
       ELSE fetch[g]]
  /\ UNCHANGED panel

Refresh(f) == HasRoom /\ Begin(f) /\ UNCHANGED <<vars, excused>>

\* GET /friends: the statement that lists them takes effect.
BothOfEachRow == UNION {p \in Pairs : Me \in p /\ row[p] = "accepted"} \* (mutant)
ListFriends == FriendsOf(Me)

FriendsListed(f) ==
  /\ fetch[f].step = "asked"
  /\ fetch' = [fetch EXCEPT ![f].step = "listed", ![f].list = ListFriends]
  /\ UNCHANGED <<vars, panel, excused>>

\* setFriends.
RefreshAnswered(f) ==
  /\ fetch[f].step = "listed"
  /\ panel' = fetch[f].list
  /\ excused' = ~fetch[f].clean
  /\ fetch' = [fetch EXCEPT ![f] = Idle]
  /\ UNCHANGED vars

\* showError: the list stays as it is.
RefreshFails(f) ==
  /\ fetch[f].step # "idle"
  /\ fetch' = [fetch EXCEPT ![f] = Idle]
  /\ excused' = TRUE
  /\ UNCHANGED <<vars, panel>>

---------------------------------------------------------------------------
(* The page's own requests.                                                *)

\* Friendships change without a refresh to follow: lists read before are old.
Missed ==
  /\ excused' = TRUE
  /\ fetch' = [f \in Fetches |->
       IF fetch[f].step = "listed" THEN [fetch[f] EXCEPT !.clean = FALSE] ELSE fetch[f]]
  /\ UNCHANGED panel

\* The answer has come and the list is refreshed; or it is lost, and the page
\* shows an error for a request that has taken effect.
LeavesList == UNCHANGED page                                        \* (mutant)
ThenRefresh ==
  \/ HasRoom /\ (\E f \in Fetches : Begin(f)) /\ UNCHANGED excused
  \/ Missed

\* The buttons of a friend in the list.
Offers(v) == v \in panel

\* A name is typed into the form; nothing holds it against the list.
PageAdds(o, v) == HasRoom /\ RequestAdd(o, Me, v) /\ UNCHANGED page
PageBlocks(o, v) == HasRoom /\ Offers(v) /\ RequestBlock(o, Me, v) /\ UNCHANGED page
PageRemoves(v) == Offers(v) /\ RemoveFriend(Me, v) /\ ThenRefresh

\* Statements at whose end the page's request is answered without an error.
AnswersPage(o) ==
  /\ ops[o].user = Me
  /\ \/ FindFriendshipStatus(o) \/ FindFriendship(o) \/ AcceptFriendship(o) \/ BlockUser(o)
     \/ InsertFriendship(o) /\ row' # row
  /\ ops'[o] = NoOp

PageStatement(o) ==
  /\ ops[o] # NoOp /\ ops[o].user = Me
  /\ Statement(o)
  /\ IF AnswersPage(o) THEN ThenRefresh ELSE UNCHANGED page

---------------------------------------------------------------------------
(* What others do: the page does not hear of it.                           *)

Unheard == IF FriendsOf(Me)' = FriendsOf(Me) THEN UNCHANGED page ELSE Missed

OthersStep ==
  /\ \/ \E o \in Busy : ops[o].user # Me /\ Statement(o)
     \/ /\ HasRoom
        /\ \E o \in Ops, u \in Users \ {Me}, v \in Users : RequestAdd(o, u, v) \/ RequestBlock(o, u, v)
     \/ \E u \in Users \ {Me}, v \in Users : RemoveFriend(u, v)
     \/ \E u, v \in Users : UnblockUser(u, v)
  /\ Unheard

---------------------------------------------------------------------------

PageInit == Init /\ panel = {} /\ fetch = [f \in Fetches |-> Idle] /\ excused = FALSE

PageNext ==
  \/ OthersStep
  \/ \E o \in Ops : PageStatement(o) \/ \E v \in Users : PageAdds(o, v) \/ PageBlocks(o, v)
  \/ \E v \in Users : PageRemoves(v)
  \/ \E f \in Fetches : Refresh(f) \/ FriendsListed(f) \/ RefreshAnswered(f) \/ RefreshFails(f)

PageSpec == PageInit /\ [][PageNext]_<<vars, page>>

---------------------------------------------------------------------------
\* The panel and the refreshes hold users other than the page's own.
PageTypeOK ==
  /\ panel \subseteq Users \ {Me}
  /\ fetch \in [Fetches -> [step : {"idle", "asked", "listed"}, list : SUBSET (Users \ {Me}),
                            clean : BOOLEAN]]
  /\ excused \in BOOLEAN

\* When no refresh is under way the panel shows the user's friends, whatever
\* the page has added, removed and blocked: unless another user made or ended a
\* friendship since the list was read, the last refresh overlapped another or
\* failed, or the answer to a request that took effect was lost.
PanelAgrees == (UnderWay = {} /\ ~excused) => panel = FriendsOf(Me)

\* The variables of the services keep their types, an add writes what it has
\* read, and requests that cross make friends.
PairsKept == TypeOK /\ WritesWhatItRead /\ CrossedRequestsMeet

\* The page's variables keep their types, and the panel agrees.
PanelTrue == PageTypeOK /\ PanelAgrees
=============================================================================
