---------------------------- MODULE MCLastRoom ----------------------------
(* Instances of LastRoom for TLC. *)
EXTENDS LastRoom, TLC
===========================================================================
