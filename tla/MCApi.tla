------------------------------- MODULE MCApi --------------------------------
(* Small instances of Api. *)
EXTENDS Api

CONSTANTS r1, r2, p1, p2, n1, a1, d1, x1, x2

MCOneReq == {r1}
MCTwoReqs == {r1, r2}
MCOneProc == {p1}
MCTwoProcs == {p1, p2}
MCNodes == {n1, a1}
MCOneNode == {n1}
MCAwgNodes == {a1}
MCDefault == {d1}
MCOneRule == {x1}
MCTwoRules == {x1, x2}
=============================================================================
