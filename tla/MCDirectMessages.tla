-------------------------- MODULE MCDirectMessages --------------------------
(* Ada and Bob, with a message of each, and two requests in flight. *)
EXTENDS DirectMessages, TLC

CONSTANTS ada, bob, m1, m2

MCFrom == (m1 :> ada) @@ (m2 :> bob)
=============================================================================
