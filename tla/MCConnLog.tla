------------------------------ MODULE MCConnLog ------------------------------
(***************************************************************************)
(* Small instances of ConnLog: two connections to one address, as behind a *)
(* CDN, and a third to another address of the same domain.                 *)
(***************************************************************************)
EXTENDS ConnLog

CONSTANTS c1, c2, c3, i1, i2, d1, d2, x1, x2, x3

MCConns == {c1, c2, c3}
MCIp == c1 :> i1 @@ c2 :> i1 @@ c3 :> i2
MCDomain == c1 :> d1 @@ c2 :> d2 @@ c3 :> d1
MCRuleOf == c1 :> x1 @@ c2 :> x2 @@ c3 :> x3
MCPolicy == c1 :> "proxy" @@ c2 :> "direct" @@ c3 :> "reject"
=============================================================================
