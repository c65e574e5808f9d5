--------------------------- MODULE MCClientSession ---------------------------
(* A page with two Games, two sockets, two starts or attempts and two       *)
(* requests at once: a second start finds a Game loading, loaded, started,  *)
(* being reconnected or stopped, and a socket that it replaces.             *)
EXTENDS ClientSession

\* Bounds: a state of which no property says more than its types is reached,
\* and what comes after it is not followed; and once a second start has failed
\* what goes on is followed, but no request that is answered after it.
Followed ==
  /\ ~hist.late
  /\ ~(hist.again /\ (hist.mixed \/ out # "no"))
  /\ hist.lost => Awaited = 0
=============================================================================
