---------------------------- MODULE MCNodeStore -----------------------------
(***************************************************************************)
(* A small instance of NodeStore: two requests at a time, and two         *)
(* subscriptions and the user, who may all have the same two nodes.        *)
(***************************************************************************)
EXTENDS NodeStore, TLC

CONSTANTS r1, r2, s1, s2, a, b, x, y

MCReqs == {r1, r2}
MCSubs == {s1, s2}
MCIds == {a, b}
MCNames == {x, y}
MCSymmetry ==
  Permutations(MCReqs) \cup Permutations(MCSubs) \cup Permutations(MCIds) \cup Permutations(MCNames)
=============================================================================
