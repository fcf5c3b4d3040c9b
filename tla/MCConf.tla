------------------------------- MODULE MCConf -------------------------------
(***************************************************************************)
(* Small instances of Conf.  The files: one as the wild has them, with     *)
(* skip-proxy, a rule-set, a second [Rule], a rule that names a group and  *)
(* one under another section; and one without any [Rule].                  *)
(***************************************************************************)
EXTENDS Conf, TLC

CONSTANTS d1, d2, q1, u1

D1 == [type |-> "DOMAIN", arg |-> d1]
D2 == [type |-> "DOMAIN", arg |-> d2]
Q1 == [type |-> "DST-PORT", arg |-> q1]
MCConds == {D1, D2, Q1}
MCBad == {Q1}
MCSetRules == u1 :> <<D2, Q1>>
MCPolicies == {"PROXY", "DIRECT", "REJECT", "direct", "AUTO"}
MCUpper == [p \in MCPolicies |-> IF p = "direct" THEN "DIRECT" ELSE p]

Rule(cond, policy) == [at |-> "rule", cond |-> cond, policy |-> policy]
RuleSet(url, policy) == [at |-> "rule-set", url |-> url, policy |-> policy]
Final(policy) == [at |-> "final", policy |-> policy]
Skip(conds) == [at |-> "skip-proxy", conds |-> conds]
Group(name) == [at |-> "group", name |-> name]

MCWild ==
  <<Section("general"), Skip(<<D1>>), Skip(<<Q1>>), Section("host"), Rule(D1, "PROXY"),
    Section("proxy group"), Group("AUTO"), Section("rule"), Rule(D1, "AUTO"), Comment,
    RuleSet(u1, "direct"), Section("rule"), Final("REJECT")>>
MCBare == <<Section("proxy group"), Group("AUTO"), Comment>>
MCTexts == {MCWild, MCBare}
=============================================================================
