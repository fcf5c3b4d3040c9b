------------------------------- MODULE MCBoot -------------------------------
(***************************************************************************)
(* A small instance of Boot: three node ids, of which an older version got *)
(* one wrong, one subscription, the template beside another .conf, and the *)
(* configuration of an AWG node.                                           *)
(***************************************************************************)
EXTENDS Boot, TLC

CONSTANTS wrong, right, other, s1, work, tunnel

MCIds == {wrong, right, other}
MCHealed == wrong :> right
MCSubs == {s1}
MCConfs == {Default, work}
MCAwgs == {tunnel}

\* The node that was got wrong is selected or not, is the user's or not, and
\* is there beside the right one or not.
MCLegacies ==
  {[state |-> [node |-> sel, conf |-> conf], nodes |-> nodes, subs |-> {s1},
    confs |-> {Default, work}, awgs |-> {tunnel}] :
     sel \in {wrong, other}, conf \in {work, None},
     nodes \in {{[id |-> wrong, sub |-> NoSub], [id |-> other, sub |-> s1]},
                {[id |-> wrong, sub |-> s1], [id |-> right, sub |-> NoSub], [id |-> other, sub |-> NoSub]}}}
=============================================================================
