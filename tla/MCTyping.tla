------------------------------ MODULE MCTyping ------------------------------
(* Instances of Typing for TLC. *)
EXTENDS Typing, TLC

MCBurst == ("chat" :> 1) @@ ("dm" :> 1) @@ ("typing" :> 2)
MCRefill == ("chat" :> 1) @@ ("dm" :> 1) @@ ("typing" :> 1)
=============================================================================
