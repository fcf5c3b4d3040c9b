-------------------------------- MODULE Conf --------------------------------
(***************************************************************************)
(* The routing rules: the lines of the active .conf, the edits of its      *)
(* [Rule] section (src/daemon/srconf.go), and the route rules of sing-box  *)
(* that buildSingbox makes of them in mode config.                         *)
(*                                                                         *)
(* A line is kept apart from another by what ParseConf makes of it.  A     *)
(* condition is a type and an argument, the argument standing for what     *)
(* ruleToSB puts in the route rule; Bad holds those it refuses.  A packet  *)
(* is the set of conditions it meets, so any set of them may be one.       *)
(* One request edits at a time: what two at once do is in module Api.      *)
(***************************************************************************)
EXTENDS Integers, Sequences, FiniteSets, SequencesExt, Slices

CONSTANTS
  Conds,     \* conditions: [type, arg], the type none of RULE-SET and FINAL
  Bad,       \* conditions that ruleToSB returns an error for
  SetRules,  \* the list each RULE-SET address holds, as a sequence of Conds
  Policies,  \* policies as the file spells them
  Upper,     \* the upper-case form of each
  Texts,     \* files a device may start with
  MaxRules   \* bound on the rules of a file

VARIABLE raw  \* c.Raw of the active .conf, as saved

Mergeable == {"DOMAIN", "DOMAIN-SUFFIX", "DOMAIN-KEYWORD", "IP-CIDR", "SRC-IP-CIDR"}
UiPolicies == {"PROXY", "DIRECT", "REJECT"}
Rejecting == {"REJECT", "REJECT-TINYGIF", "REJECT-DICT", "REJECT-200", "REJECT-IMG"}

BuiltIn == {"DIRECT", "PROXY"} \cup Rejecting

Section(name) == [at |-> "section", name |-> name]
Blank == [at |-> "blank"]
Comment == [at |-> "comment"]

Line ==
  [at : {"section"}, name : {"general", "proxy group", "rule", "host"}]
    \cup {Blank, Comment}
    \cup [at : {"skip-proxy"}, conds : Seq(Conds)]
    \cup [at : {"group"}, name : Policies]
    \cup [at : {"rule"}, cond : Conds, policy : Policies]
    \cup [at : {"rule-set"}, url : DOMAIN SetRules, policy : Policies]
    \cup [at : {"final"}, policy : Policies]

\* "all" is no argument of a condition: it is what RejectRest matches.
ASSUME CondsAssumption ==
  \A c \in Conds :
    c = [type |-> c.type, arg |-> c.arg] /\ c.type \notin {"RULE-SET", "FINAL"} /\ c.arg # "all"
ASSUME SetRulesAssumption == SetRules \in [DOMAIN SetRules -> Seq(Conds)]
ASSUME UpperAssumption == \A p \in UiPolicies : p \in Policies /\ Upper[p] = p
ASSUME TextsAssumption == Texts \subseteq Seq(Line)

TypeOK == raw \in Seq(Line)

Init == raw \in Texts

-----------------------------------------------------------------------------
(* ParseConf *)

Smallest(S) == CHOOSE x \in S : \A y \in S : x <= y
Largest(S) == CHOOSE x \in S : \A y \in S : x >= y

\* The lines of one section, a section being all that comes under its name.
InSection(lines, name) ==
  LET heads == {j \in DOMAIN lines : lines[j].at = "section"}
  IN  {i \in DOMAIN lines \ heads :
        \E h \in heads :
          h < i /\ lines[h].name = name /\ \A g \in heads : g < i => g <= h}

\* c.Rules, as line numbers.
RuleLines(lines) ==
  {i \in InSection(lines, "rule") : lines[i].at \in {"rule", "rule-set", "final"}}

\* Conf.Final: FINAL counts wherever it stands.
FinalPolicy(lines) ==
  LET finals == {i \in RuleLines(lines) : lines[i].at = "final"}
  IN  IF finals = {} THEN "DIRECT" ELSE Upper[lines[Smallest(finals)].policy]

\* General["skip-proxy"]: a later line of the key replaces an earlier one.
SkipProxy(lines) ==
  LET keys == {i \in InSection(lines, "general") : lines[i].at = "skip-proxy"}
  IN  IF keys = {} THEN <<>> ELSE lines[Largest(keys)].conds

GroupNames(lines) ==
  {lines[i].name : i \in {j \in InSection(lines, "proxy group") : lines[j].at = "group"}}

-----------------------------------------------------------------------------
(* buildSingbox, with an active node or without one *)

\* policyTag, given a policy as parseRuleLine leaves it.
Outcome(lines, policy, active) ==
  LET proxyTag == IF active THEN "proxy" ELSE "direct"
  IN  CASE policy = "DIRECT" -> "direct"
        [] policy \in Rejecting -> "reject"
        [] active /\ policy \in GroupNames(lines) \ BuiltIn -> policy
        [] OTHER -> proxyTag

RouteRule(cond, out) == [key |-> cond.type, args |-> {cond.arg}, out |-> out]

\* The route rules of one line; a rule-set that cannot be had is skipped.
\* have: the addresses the cache or the network has an answer for.
FromLine(lines, line, have, active) ==
  LET conds == CASE line.at = "rule" -> <<line.cond>>
                 [] line.at = "rule-set" /\ line.url \in have -> SetRules[line.url]
                 [] OTHER -> <<>>
      usable == Picked(conds, {i \in DOMAIN conds : conds[i] \notin Bad})
  IN  [k \in DOMAIN usable |->
        RouteRule(usable[k], Outcome(lines, Upper[line.policy], active))]

\* FINAL,REJECT cannot be an outbound: a last rule takes everything.
RejectRest(lines) ==
  IF FinalPolicy(lines) \in Rejecting
    THEN <<[key |-> "IP-CIDR", args |-> {"all"}, out |-> "reject"]>>
    ELSE <<>>

\* Bug: the outcome of the two is not compared.
BugMergeRule(rules, r) ==
  IF rules # <<>> /\ Last(rules).key = r.key /\ r.key \in Mergeable
    THEN [rules EXCEPT ![Len(rules)].args = @ \cup r.args]
    ELSE Append(rules, r)

\* mergeRules: a rule joins the one before it, if of one key and outcome.
MergeRule(rules, r) ==
  IF rules # <<>> /\ Last(rules).key = r.key /\ r.key \in Mergeable /\ Last(rules).out = r.out
    THEN [rules EXCEPT ![Len(rules)].args = @ \cup r.args]
    ELSE Append(rules, r)

RouteRules(lines, have, active) ==
  LET skips == SkipProxy(lines)
      written == Picked(lines, RuleLines(lines))
      unmerged ==
        [k \in DOMAIN skips |-> RouteRule(skips[k], "direct")]
          \o FlattenSeq([k \in DOMAIN written |-> FromLine(lines, written[k], have, active)])
          \o RejectRest(lines)
  IN  FoldLeft(MergeRule, <<>>, unmerged)

\* route.rules and route.final of singbox.json.
Route(lines, have, active) ==
  [rules |-> RouteRules(lines, have, active),
   final |-> IF FinalPolicy(lines) \in Rejecting
               THEN "direct"
               ELSE Outcome(lines, FinalPolicy(lines), active)]

-----------------------------------------------------------------------------
(* Edits, by line number *)

\* parseRuleInput: what the rule editor may send.
RuleInputs ==
  {[type |-> r.cond.type, arg |-> r.cond.arg, policy |-> r.policy] :
    r \in [cond : Conds \ Bad, policy : UiPolicies]}
    \cup [type : {"FINAL"}, arg : {""}, policy : UiPolicies]

\* What ParseConf makes of the line ruleText writes.  An argument stands for
\* one without a comma, a line break or a comment sign: parseRuleInput does
\* not refuse those, and the line would be read as another rule.
RuleText(r) ==
  IF r.type = "FINAL"
    THEN [at |-> "final", policy |-> r.policy]
    ELSE [at |-> "rule", cond |-> [type |-> r.type, arg |-> r.arg], policy |-> r.policy]

\* Bug: only the bounds of the file are checked.
BugRuleAt(line) == line \in DOMAIN raw

RuleAt(line) == line \in RuleLines(raw)

\* Bug: a [Rule] that is there is not looked for.
BugInserted(r) == raw \o <<Section("rule"), RuleText(r)>>

\* InsertRule: first of the first [Rule], or of one added at the end.
Inserted(r) ==
  LET heads == {i \in DOMAIN raw : raw[i] = Section("rule")}
      gap == IF raw # <<>> /\ Last(raw) # Blank THEN <<Blank>> ELSE <<>>
  IN  IF heads = {}
        THEN raw \o gap \o <<Section("rule"), RuleText(r)>>
        ELSE InsertAt(raw, Smallest(heads) + 1, RuleText(r))

AddRule(r) ==
  /\ Cardinality(RuleLines(raw)) < MaxRules
  /\ raw' = Inserted(r)

UpdateRule(line, r) ==
  /\ RuleAt(line)
  /\ raw' = [raw EXCEPT ![line] = RuleText(r)]

DeleteRule(line) ==
  /\ RuleAt(line)
  /\ raw' = RemoveAt(raw, line)

\* Bug: the neighbour is the next line of the file.
BugNeighbours(line, up) ==
  {j \in DOMAIN raw : j = IF up THEN line - 1 ELSE line + 1}

\* The rule a rule changes places with, if there is one on that side.
Neighbours(line, up) ==
  LET above == {j \in RuleLines(raw) : j < line}
      below == {j \in RuleLines(raw) : j > line}
  IN  IF up THEN {Largest(above) : x \in above} ELSE {Smallest(below) : x \in below}

MoveRule(line, up) ==
  /\ RuleAt(line)
  /\ \E j \in Neighbours(line, up) :
       raw' = [raw EXCEPT ![line] = raw[j], ![j] = raw[line]]

\* The number is whatever the client sends, a row of a list it read earlier;
\* RuleAt refuses one past the end of the file.
Next ==
  \/ \E r \in RuleInputs : AddRule(r)
  \/ \E line \in DOMAIN raw :
       \/ \E r \in RuleInputs : UpdateRule(line, r)
       \/ DeleteRule(line)
       \/ \E up \in BOOLEAN : MoveRule(line, up)

Spec == Init /\ [][Next]_raw

-----------------------------------------------------------------------------
(* What the rules promise *)

Packets == SUBSET Conds

Catches(rule, packet) ==
  \/ "all" \in rule.args
  \/ \E arg \in rule.args : [type |-> rule.key, arg |-> arg] \in packet

\* What sing-box does with a packet: the first route rule, else the default.
Routed(route, packet) ==
  LET hits == {k \in DOMAIN route.rules : Catches(route.rules[k], packet)}
  IN  IF hits = {} THEN route.final ELSE route.rules[Smallest(hits)].out

Meets(line, packet, have) ==
  \/ line.at = "rule" /\ line.cond \in packet \ Bad
  \/ line.at = "rule-set" /\ line.url \in have /\ Range(SetRules[line.url]) \cap (packet \ Bad) # {}

Hits(lines, packet, have) == {i \in RuleLines(lines) : Meets(lines[i], packet, have)}

Skipped(lines, packet) == Range(SkipProxy(lines)) \cap packet # {}

\* No other rule stands below a FINAL.
FinalLast(lines) ==
  \A i, j \in RuleLines(lines) : lines[i].at = "final" /\ lines[j].at # "final" => j < i

\* Where the lines of a file send a packet: skip-proxy comes first, then the
\* first line of [Rule] that the packet meets, and it meets every FINAL.
Told(lines, have, active, packet) ==
  LET hits == Hits(lines, packet, have) \cup {i \in RuleLines(lines) : lines[i].at = "final"}
      policy == IF hits = {} THEN "DIRECT" ELSE Upper[lines[Smallest(hits)].policy]
  IN  IF Skipped(lines, packet) THEN "direct" ELSE Outcome(lines, policy, active)

\* srconf.go:523: the order in [Rule] is priority, the first match wins; so
\* of FINAL too, which the editor adds as the first rule and moves like any.
FirstMatchWins ==
  \A have \in SUBSET DOMAIN SetRules, active \in BOOLEAN :
    LET route == Route(raw, have, active)
    IN  \A packet \in Packets : Routed(route, packet) = Told(raw, have, active, packet)

\* As long as no rule stands below a FINAL, every packet goes where the lines
\* say: expanding the rule-sets, leaving out what sing-box cannot express and
\* merging rules changes nothing of the first match.
RoutesAsWritten == FinalLast(raw) => FirstMatchWins

\* What a new rule is for: the packets that meet its condition, or with FINAL
\* those that no other rule is for; skip-proxy comes before both.
For(r, packet, have) ==
  /\ ~Skipped(raw', packet)
  /\ IF r.type = "FINAL"
       THEN Hits(raw', packet, have) = {}
       ELSE [type |-> r.type, arg |-> r.arg] \in packet

\* A rule just added decides every packet it is for, whatever rules are there
\* already.
AddedWins ==
  [][\A r \in RuleInputs : AddRule(r) =>
       \A have \in SUBSET DOMAIN SetRules, active \in BOOLEAN :
         LET route == Route(raw', have, active)
         IN  \A packet \in {p \in Packets : For(r, p, have)} :
               Routed(route, packet) = Outcome(raw', r.policy, active)]_raw

Rules(lines) == Picked(lines, RuleLines(lines))
Others(lines) == Picked(lines, DOMAIN lines \ RuleLines(lines))

\* Whatever line number it names, an edit leaves every other line of the file
\* as it was and in its place among the others, but for a [Rule] it adds.
OthersKept ==
  [][\E added \in {<<>>, <<Section("rule")>>, <<Blank, Section("rule")>>} :
       Others(raw') = Others(raw) \o added]_raw

\* An edit adds one rule as the first, takes one out, replaces one, or swaps
\* two neighbours: the order of the rest, their priority, stays.
OneRuleEdited ==
  [][LET old == Rules(raw)
         new == Rules(raw')
     IN  \/ new # <<>> /\ Tail(new) = old
         \/ \E i \in DOMAIN old : new = RemoveAt(old, i)
         \/ \E i \in DOMAIN old \cap DOMAIN new :
              new[i] # old[i] /\ new = [old EXCEPT ![i] = new[i]]
         \/ \E i \in 1..Len(old) - 1 :
              new = [old EXCEPT ![i] = old[i + 1], ![i + 1] = old[i]]]_raw
=============================================================================
