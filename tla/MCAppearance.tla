------------------------------ MODULE MCAppearance ------------------------------
(* The user's looks, connections and rooms for TLC.                        *)
EXTENDS Appearance, TLC

CONSTANTS l1, l2, old, c1, c2, c3, r1, r2, p1, p2, s1, s2

MCLooks == {l1, l2}
MCRetired == {old}
MCConns == {c1, c2, c3}
MCRooms == {r1, r2}
MCPuts == {p1, p2}
MCSaves == {s1, s2}

Symmetry == Permutations(MCConns) \cup Permutations(MCPuts) \cup Permutations(MCSaves)
=============================================================================
