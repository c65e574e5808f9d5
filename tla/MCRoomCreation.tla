--------------------------- MODULE MCRoomCreation ---------------------------
(* One user, since users meet nowhere here, whose cap is one room; or, in  *)
(* other behaviours, the limiter that lets such requests in.               *)
EXTENDS RoomCreation, FixedWindowRateLimiter, TLC

CONSTANTS ada, home

MCHome == ada :> home

VARIABLE part

MCInit == Init /\ WindowInit /\ part \in {"rooms", "limiter"}

MCNext ==
  /\ \/ part = "rooms" /\ Next /\ UNCHANGED windows
     \/ part = "limiter" /\ WindowNext /\ UNCHANGED vars
  /\ UNCHANGED part

MCSpec == MCInit /\ [][MCNext]_<<vars, windows, part>>
=============================================================================
