----------------------------- MODULE Semaphore -----------------------------
(***************************************************************************)
(* What a limiter of concurrent work promises: at most Slots tasks hold a  *)
(* slot, nobody waits while a slot is free, and a freed slot goes to a     *)
(* task that waits before it goes to one that comes later.                 *)
(***************************************************************************)
EXTENDS Naturals, FiniteSets

CONSTANTS Tasks, Slots

VARIABLES holders, waiters

Idle == Tasks \ (holders \cup waiters)

Enter(t) ==
  /\ t \in Idle
  /\ waiters = {} /\ Cardinality(holders) < Slots
  /\ holders' = holders \cup {t}
  /\ UNCHANGED waiters

Wait(t) ==
  /\ t \in Idle
  /\ Cardinality(holders) = Slots
  /\ waiters' = waiters \cup {t}
  /\ UNCHANGED holders

GiveUp(t) ==
  /\ t \in waiters
  /\ waiters' = waiters \ {t}
  /\ UNCHANGED holders

HandOver(t, w) ==
  /\ t \in holders /\ w \in waiters
  /\ holders' = (holders \ {t}) \cup {w}
  /\ waiters' = waiters \ {w}

Leave(t) ==
  /\ t \in holders /\ waiters = {}
  /\ holders' = holders \ {t}
  /\ UNCHANGED waiters

Init == holders = {} /\ waiters = {}

Next ==
  \E t \in Tasks :
    \/ Enter(t) \/ Wait(t) \/ GiveUp(t) \/ Leave(t)
    \/ \E w \in waiters : HandOver(t, w)

Spec == Init /\ [][Next]_<<holders, waiters>>
=============================================================================
