----------------------------- MODULE MCFriends -----------------------------
(* The services with one user's page: the other users, the request slots  *)
(* and the refreshes are interchangeable.                                  *)
EXTENDS FriendsPage, TLC

MCFollowed == {Users \ Blockers}
SlotSymmetry ==
  Permutations(Users \ Blockers) \cup Permutations(Ops) \cup Permutations(Fetches)
===========================================================================
