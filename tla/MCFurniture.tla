---------------------------- MODULE MCFurniture ----------------------------
(* An empty room where items and tiles, handlers and Room objects are      *)
(* interchangeable, in two sizes: two handlers at once that place, move    *)
(* and pick up, or one at a time that toggles as well.                     *)
EXTENDS Furniture, TLC

VARIABLE crowd

MCInit == Init /\ crowd \in BOOLEAN
MCNext ==
  /\ Next
  /\ IF crowd THEN \A o \in Busy' : ops'[o].kind # "interact" ELSE Cardinality(Busy') <= 1
  /\ UNCHANGED crowd
MCSpec == MCInit /\ [][MCNext]_<<vars, crowd>>

FullSymmetry ==
  Permutations(Ops) \cup Permutations(Insts) \cup Permutations(Items) \cup Permutations(Tiles)
===========================================================================
