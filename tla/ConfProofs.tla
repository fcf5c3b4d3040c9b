----------------------------- MODULE ConfProofs -----------------------------
(***************************************************************************)
(* Proofs about Conf, for any file, any conditions, rule-sets and policies *)
(* and any number of edits: that sing-box routes as the file says, and     *)
(* what an edit leaves alone.                                              *)
(***************************************************************************)
EXTENDS Conf, SliceLemmas

\* The route rules buildSingbox can make.
SbRule ==
  [key : {c.type : c \in Conds} \cup {"IP-CIDR"},
   args : SUBSET ({c.arg : c \in Conds} \cup {"all"}),
   out : {"direct", "reject", "proxy"} \cup Policies]

\* The place of the first rule that catches a packet, in a set.
FirstCatch(rules, packet) ==
  {k \in 1..Len(rules) :
    /\ Catches(rules[k], packet)
    /\ \A j \in 1..Len(rules) : j < k => ~Catches(rules[j], packet)}

\* Its outcome, in a set that is empty if there is no such rule.
Chosen(rules, packet) == {rules[k].out : k \in FirstCatch(rules, packet)}

-----------------------------------------------------------------------------
(* The first rule that catches a packet *)

LEMMA SmallestIs ==
  ASSUME NEW T, T \subseteq Nat, T # {}
  PROVE  Smallest(T) \in T /\ \A y \in T : Smallest(T) <= y
BY Least DEF Smallest

LEMMA FirstCatchThere ==
  ASSUME NEW rules \in Seq(SbRule), NEW packet,
         NEW k \in 1..Len(rules), Catches(rules[k], packet)
  PROVE  FirstCatch(rules, packet) # {}
<1> DEFINE T == {j \in 1..Len(rules) : Catches(rules[j], packet)}
<1>1. T \subseteq Nat /\ T # {}
  OBVIOUS
<1>2. PICK i \in T : \A j \in T : i <= j
  <2> HIDE DEF T
  <2> QED BY <1>1, Least
<1>3. \A j \in 1..Len(rules) : j < i => ~Catches(rules[j], packet)
  BY <1>2
<1>4. i \in FirstCatch(rules, packet)
  BY <1>2, <1>3 DEF FirstCatch
<1> QED BY <1>4

LEMMA FirstCatchOne ==
  ASSUME NEW rules \in Seq(SbRule), NEW packet,
         NEW j \in FirstCatch(rules, packet), NEW k \in FirstCatch(rules, packet)
  PROVE  j = k
BY DEF FirstCatch

\* What sing-box does with a packet is the outcome chosen, or the default.
LEMMA RoutedIs ==
  ASSUME NEW rules \in Seq(SbRule), NEW final, NEW packet,
         NEW route, route = [rules |-> rules, final |-> final]
  PROVE  /\ Chosen(rules, packet) = {} => Routed(route, packet) = final
         /\ Chosen(rules, packet) # {} => Routed(route, packet) \in Chosen(rules, packet)
<1> DEFINE hits == {k \in 1..Len(rules) : Catches(rules[k], packet)}
<1>1. Routed(route, packet) = IF hits = {} THEN final ELSE rules[Smallest(hits)].out
  <2>1. DOMAIN rules = 1..Len(rules)
    OBVIOUS
  <2> QED BY <2>1 DEF Routed
<1>2. hits = {} => Chosen(rules, packet) = {}
  BY DEF Chosen, FirstCatch
<1>3. ASSUME hits # {} PROVE Chosen(rules, packet) = {rules[Smallest(hits)].out}
  <2>1. hits \subseteq Nat
    OBVIOUS
  <2>2. Smallest(hits) \in hits /\ \A y \in hits : Smallest(hits) <= y
    <3> HIDE DEF hits
    <3> QED BY <1>3, <2>1, SmallestIs
  <2> DEFINE k == Smallest(hits)
  <2>3. k \in FirstCatch(rules, packet)
    <3>1. k \in hits /\ \A y \in hits : k <= y
      BY <2>2
    <3> HIDE DEF k
    <3>2. ASSUME NEW j \in 1..Len(rules), j < k PROVE ~Catches(rules[j], packet)
      BY <3>1, <3>2
    <3> QED BY <3>1, <3>2 DEF FirstCatch
  <2> HIDE DEF k
  <2>4. FirstCatch(rules, packet) = {k}
    BY <2>3, FirstCatchOne
  <2> QED BY <2>4 DEF Chosen, k
<1> HIDE DEF hits
<1>4. Chosen(rules, packet) = {} => Routed(route, packet) = final
  BY <1>1, <1>3
<1>5. Chosen(rules, packet) # {} => Routed(route, packet) \in Chosen(rules, packet)
  BY <1>1, <1>2, <1>3
<1> QED BY <1>4, <1>5

\* Of two lists of rules the first has its say first.
LEMMA ChosenConcat ==
  ASSUME NEW a \in Seq(SbRule), NEW b \in Seq(SbRule), NEW packet
  PROVE  Chosen(a \o b, packet) = IF Chosen(a, packet) # {} THEN Chosen(a, packet) ELSE Chosen(b, packet)
<1> DEFINE m == Len(a)
           n == Len(b)
           ab == a \o b
<1>1. m \in Nat /\ n \in Nat
  OBVIOUS
<1>2. /\ ab \in Seq(SbRule) /\ Len(ab) = m + n
      /\ \A k \in 1..(m + n) : ab[k] = IF k <= m THEN a[k] ELSE b[k - m]
  BY ConcatProperties
<1> HIDE DEF m, n, ab
<1>3. \A k \in 1..m : k \in 1..(m + n) /\ ab[k] = a[k]
  BY <1>1, <1>2
<1>4. \A k \in 1..n : k + m \in 1..(m + n) /\ k + m - m = k /\ ~(k + m <= m) /\ ab[k + m] = b[k]
  BY <1>1, <1>2
<1>5. CASE Chosen(a, packet) # {}
  <2>1. PICK k \in 1..m : k \in FirstCatch(a, packet)
    BY <1>5 DEF Chosen, FirstCatch, m
  <2>2. \A j \in 1..(m + n) : j < k => j \in 1..m
    BY <1>1, <2>1
  <2>3. k \in FirstCatch(ab, packet)
    BY <1>2, <1>3, <2>1, <2>2 DEF FirstCatch, m
  <2>4. FirstCatch(ab, packet) = {k}
    <3>1. ab \in Seq(SbRule)
      BY <1>2
    <3>2. \A j \in FirstCatch(ab, packet) : j = k
      BY <2>3, <3>1, FirstCatchOne
    <3> QED BY <2>3, <3>2
  <2>5. FirstCatch(a, packet) = {k}
    <3>1. \A j \in FirstCatch(a, packet) : j = k
      BY <2>1, FirstCatchOne
    <3> QED BY <2>1, <3>1
  <2> QED BY <1>3, <1>5, <2>1, <2>4, <2>5 DEF Chosen, ab
<1>6. CASE Chosen(a, packet) = {}
  <2>1. \A k \in 1..m : ~Catches(a[k], packet)
    BY <1>6, FirstCatchThere DEF Chosen, m
  <2>2. \A k \in 1..(m + n) : Catches(ab[k], packet) => k > m /\ k - m \in 1..n /\ ab[k] = b[k - m]
    <3> TAKE k \in 1..(m + n)
    <3>1. CASE k <= m
      BY <1>1, <1>3, <2>1, <3>1
    <3>2. CASE k > m
      BY <1>1, <1>2, <3>2
    <3> QED BY <1>1, <3>1, <3>2
  <2>3. ASSUME NEW k \in FirstCatch(ab, packet)
        PROVE  k - m \in FirstCatch(b, packet) /\ ab[k] = b[k - m]
    <3>1. k \in 1..(m + n) /\ Catches(ab[k], packet)
          /\ \A j \in 1..(m + n) : j < k => ~Catches(ab[j], packet)
      BY <1>2 DEF FirstCatch
    <3>2. k - m \in 1..n /\ ab[k] = b[k - m]
      BY <2>2, <3>1
    <3>3. ASSUME NEW j \in 1..n, j < k - m PROVE ~Catches(b[j], packet)
      <4>1. j + m < k
        BY <1>1, <3>1, <3>3
      <4> QED BY <1>4, <3>1, <4>1
    <3> QED BY <3>1, <3>2, <3>3 DEF FirstCatch, n
  <2>4. ASSUME NEW k \in FirstCatch(b, packet)
        PROVE  k + m \in FirstCatch(ab, packet) /\ ab[k + m] = b[k]
    <3>1. k \in 1..n /\ Catches(b[k], packet)
          /\ \A j \in 1..n : j < k => ~Catches(b[j], packet)
      BY DEF FirstCatch, n
    <3>2. k + m \in 1..(m + n) /\ ab[k + m] = b[k]
      BY <1>4, <3>1
    <3>3. ASSUME NEW j \in 1..(m + n), j < k + m PROVE ~Catches(ab[j], packet)
      <4> SUFFICES ASSUME Catches(ab[j], packet) PROVE FALSE
        OBVIOUS
      <4>1. j - m \in 1..n /\ ab[j] = b[j - m]
        BY <2>2
      <4>2. j - m < k
        BY <1>1, <3>1, <3>3
      <4> QED BY <3>1, <4>1, <4>2
    <3> QED BY <1>2, <3>1, <3>2, <3>3 DEF FirstCatch
  <2>5. Chosen(ab, packet) = Chosen(b, packet)
    BY <2>3, <2>4 DEF Chosen
  <2> QED BY <1>6, <2>5 DEF ab
<1> QED BY <1>5, <1>6

\* One rule.
LEMMA ChosenOne ==
  ASSUME NEW r \in SbRule, NEW packet
  PROVE  /\ One(r) \in Seq(SbRule)
         /\ Chosen(One(r), packet) = IF Catches(r, packet) THEN {r.out} ELSE {}
<1>1. One(r) \in Seq(SbRule) /\ Len(One(r)) = 1 /\ One(r)[1] = r
  BY OneIs
<1>2. FirstCatch(One(r), packet) = IF Catches(r, packet) THEN {1} ELSE {}
  BY <1>1 DEF FirstCatch
<1> QED BY <1>1, <1>2 DEF Chosen

\* Rules that all have the one outcome.
LEMMA ChosenAlike ==
  ASSUME NEW rules \in Seq(SbRule), NEW out, \A k \in 1..Len(rules) : rules[k].out = out, NEW packet
  PROVE  Chosen(rules, packet) =
           IF \E k \in 1..Len(rules) : Catches(rules[k], packet) THEN {out} ELSE {}
<1>1. FirstCatch(rules, packet) \subseteq 1..Len(rules)
      /\ \A k \in FirstCatch(rules, packet) : Catches(rules[k], packet)
  BY DEF FirstCatch
<1>2. CASE \E k \in 1..Len(rules) : Catches(rules[k], packet)
  <2>1. FirstCatch(rules, packet) # {}
    BY <1>2, FirstCatchThere
  <2>2. Chosen(rules, packet) = {out}
    BY <1>1, <2>1 DEF Chosen
  <2> QED BY <1>2, <2>2
<1>3. CASE ~\E k \in 1..Len(rules) : Catches(rules[k], packet)
  <2>1. FirstCatch(rules, packet) = {}
    BY <1>1, <1>3
  <2> QED BY <1>3, <2>1 DEF Chosen
<1> QED BY <1>2, <1>3

-----------------------------------------------------------------------------
(* mergeRules *)

\* A rule that is merged says what it would have said behind the others.
LEMMA MergeRuleKeeps ==
  ASSUME NEW rules \in Seq(SbRule), NEW r \in SbRule, NEW packet
  PROVE  /\ MergeRule(rules, r) \in Seq(SbRule)
         /\ Chosen(MergeRule(rules, r), packet) = Chosen(rules \o One(r), packet)
<1> DEFINE n == Len(rules)
<1>0. One(r) \in Seq(SbRule) /\ Chosen(One(r), packet) = IF Catches(r, packet) THEN {r.out} ELSE {}
  BY ChosenOne
<1>1. CASE rules # <<>> /\ Last(rules).key = r.key /\ r.key \in Mergeable /\ Last(rules).out = r.out
  <2> DEFINE last == rules[n]
             both == [key |-> last.key, args |-> last.args \cup r.args, out |-> last.out]
             front == SubSeq(rules, 1, n - 1)
             changed == [rules EXCEPT ![n] = both]
  <2>1. n \in Nat /\ n >= 1 /\ last \in SbRule /\ last.key = r.key /\ last.out = r.out
    BY <1>1 DEF Last
  <2>2. front \in Seq(SbRule) /\ Len(front) = n - 1 /\ \A k \in 1..(n - 1) : front[k] = rules[k]
    <3> DEFINE m == n - 1
    <3>1. m \in Nat /\ \A k \in 1..m : rules[k] \in SbRule
      BY <2>1, ElementOfSeq
    <3> HIDE DEF m
    <3>2. /\ SubSeq(rules, 1, m) \in Seq(SbRule) /\ Len(SubSeq(rules, 1, m)) = m
          /\ \A k \in 1..m : SubSeq(rules, 1, m)[k] = rules[k]
      BY <3>1, SubSeqProperties
    <3> QED BY <3>2 DEF m
  <2>3. both \in SbRule
    BY <2>1 DEF SbRule
  <2>4. MergeRule(rules, r) = changed
    <3> DEFINE args == last.args \cup r.args
               K == {c.type : c \in Conds} \cup {"IP-CIDR"}
               A == SUBSET ({c.arg : c \in Conds} \cup {"all"})
               O == {"direct", "reject", "proxy"} \cup Policies
    <3>1. last \in [key : K, args : A, out : O]
      BY <2>1 DEF SbRule
    <3>2. both = [key |-> last.key, args |-> args, out |-> last.out]
      OBVIOUS
    <3> HIDE DEF last, args, K, A, O
    <3>3. [last EXCEPT !.args = args] = [key |-> last.key, args |-> args, out |-> last.out]
      BY <3>1
    <3>4. [rules EXCEPT ![n].args = @ \cup r.args] = [rules EXCEPT ![n] = [last EXCEPT !.args = args]]
      BY DEF last, args
    <3>5. MergeRule(rules, r) = [rules EXCEPT ![n].args = @ \cup r.args]
      BY <1>1 DEF MergeRule
    <3> QED BY <3>2, <3>3, <3>4, <3>5, Zenon DEF changed
  <2>5. /\ changed \in Seq(SbRule) /\ Len(changed) = n /\ changed[n] = both
        /\ \A k \in 1..(n - 1) : changed[k] = rules[k]
    <3> HIDE DEF both
    <3>1. /\ changed \in Seq(SbRule) /\ Len(changed) = n
          /\ \A k \in 1..n : changed[k] = IF k = n THEN both ELSE rules[k]
      BY <2>1, <2>3, ExceptSeq
    <3> HIDE DEF changed, n
    <3> QED BY <2>1, <3>1
  <2>6. Catches(both, packet) <=> Catches(last, packet) \/ Catches(r, packet)
    BY <2>1 DEF Catches
  <2>7. both.out = last.out
    OBVIOUS
  <2> HIDE DEF front, both, changed
  <2>8. rules = front \o One(last)
    <3>1. Len(rules) = Len(front) + 1 /\ \A k \in 1..Len(front) : front[k] = rules[k]
      BY <2>1, <2>2
    <3>2. rules = front \o One(rules[Len(rules)])
      BY <2>2, <3>1, SplitLast
    <3> QED BY <3>2
  <2>9. changed = front \o One(both)
    <3>1. Len(changed) = Len(front) + 1 /\ \A k \in 1..Len(front) : front[k] = changed[k]
      BY <2>1, <2>2, <2>5
    <3>2. changed = front \o One(changed[Len(changed)])
      BY <2>2, <2>5, <3>1, SplitLast
    <3>3. changed[Len(changed)] = both
      BY <2>5
    <3> QED BY <3>2, <3>3
  <2> HIDE DEF last
  <2>10. /\ Chosen(One(last), packet) = IF Catches(last, packet) THEN {last.out} ELSE {}
         /\ Chosen(One(both), packet) = IF Catches(both, packet) THEN {both.out} ELSE {}
         /\ One(last) \in Seq(SbRule) /\ One(both) \in Seq(SbRule)
    BY <2>1, <2>3, ChosenOne
  <2>11. Chosen(rules, packet) =
           IF Chosen(front, packet) # {} THEN Chosen(front, packet) ELSE Chosen(One(last), packet)
    BY <2>2, <2>8, <2>10, ChosenConcat
  <2>12. Chosen(changed, packet) =
           IF Chosen(front, packet) # {} THEN Chosen(front, packet) ELSE Chosen(One(both), packet)
    BY <2>2, <2>9, <2>10, ChosenConcat
  <2>13. Chosen(rules \o One(r), packet) =
           IF Chosen(rules, packet) # {} THEN Chosen(rules, packet) ELSE Chosen(One(r), packet)
    BY <1>0, ChosenConcat
  <2>14. Chosen(changed, packet) = Chosen(rules \o One(r), packet)
    <3> DEFINE a == Chosen(front, packet)
               b == Chosen(changed, packet)
               d == Chosen(rules, packet)
               e == Chosen(rules \o One(r), packet)
    <3>1. /\ d = IF a # {} THEN a ELSE IF Catches(last, packet) THEN {last.out} ELSE {}
          /\ b = IF a # {} THEN a ELSE IF Catches(both, packet) THEN {both.out} ELSE {}
          /\ e = IF d # {} THEN d ELSE IF Catches(r, packet) THEN {r.out} ELSE {}
      BY <1>0, <2>10, <2>11, <2>12, <2>13
    <3> HIDE DEF a, b, d, e
    <3>2. b = e
      BY <2>1, <2>6, <2>7, <3>1
    <3> QED BY <3>2 DEF b, e
  <2> QED BY <2>4, <2>5, <2>14
<1>2. CASE ~(rules # <<>> /\ Last(rules).key = r.key /\ r.key \in Mergeable /\ Last(rules).out = r.out)
  <2>1. MergeRule(rules, r) = Append(rules, r)
    BY <1>2, Zenon DEF MergeRule
  <2> QED BY <2>1, AppendOne, Zenon
<1> QED BY <1>1, <1>2

\* What the loop of FoldLeft makes of the rules at a set of places.
Merging(list, k) ==
  CHOOSE f : f = [s \in SUBSET (1..k) |->
                   IF s = {} THEN <<>> ELSE MergeRule(f[s \ {Max(s)}], list[Max(s)])]

LEMMA MergingDef ==
  ASSUME NEW list, NEW k \in Nat
  PROVE  Merging(list, k) = [s \in SUBSET (1..k) |->
           IF s = {} THEN <<>>
           ELSE MergeRule(Merging(list, k)[s \ {Max(s)}], list[Max(s)])]
<1> DEFINE Loop(f, n) ==
      f = [s \in SUBSET (1..n) |->
            IF s = {} THEN <<>> ELSE MergeRule(f[s \ {Max(s)}], list[Max(s)])]
           T == {n \in Nat : \E f : Loop(f, n)}
<1>1. 0 \in T
  <2>1. SUBSET (1..0) = {{}}
    OBVIOUS
  <2>2. Loop([s \in SUBSET (1..0) |-> <<>>], 0)
    BY <2>1
  <2> HIDE DEF Loop
  <2> QED BY <2>2
<1>2. ASSUME NEW n \in Nat, n \in T PROVE n + 1 \in T
  <2>1. PICK f : Loop(f, n)
    BY <1>2
  <2> DEFINE g == [s \in SUBSET (1..(n + 1)) |->
                    IF n + 1 \in s THEN MergeRule(f[s \ {n + 1}], list[n + 1]) ELSE f[s]]
  <2>2. ASSUME NEW s \in SUBSET (1..(n + 1))
        PROVE  g[s] = IF s = {} THEN <<>> ELSE MergeRule(g[s \ {Max(s)}], list[Max(s)])
    <3>1. CASE n + 1 \in s
      <4>1. Max(s) = n + 1
        BY <3>1, MaxIs
      <4>2. s \ {n + 1} \in SUBSET (1..(n + 1)) /\ n + 1 \notin s \ {n + 1}
        OBVIOUS
      <4>3. g[s \ {n + 1}] = f[s \ {n + 1}]
        BY <4>2
      <4>4. g[s] = MergeRule(f[s \ {n + 1}], list[n + 1])
        BY <3>1
      <4> HIDE DEF g
      <4> QED BY <3>1, <4>1, <4>3, <4>4
    <3>2. CASE n + 1 \notin s
      <4>1. s \in SUBSET (1..n) /\ g[s] = f[s]
        BY <3>2
      <4>2. n + 1 \notin s \ {Max(s)} /\ s \ {Max(s)} \in SUBSET (1..(n + 1))
        BY <3>2
      <4>3. g[s \ {Max(s)}] = f[s \ {Max(s)}]
        BY <4>2
      <4>4. f[s] = IF s = {} THEN <<>> ELSE MergeRule(f[s \ {Max(s)}], list[Max(s)])
        BY <2>1, <4>1
      <4> HIDE DEF g
      <4> QED BY <4>1, <4>3, <4>4
    <3> QED BY <3>1, <3>2
  <2>3. g = [s \in SUBSET (1..(n + 1)) |-> g[s]]
    OBVIOUS
  <2> HIDE DEF g
  <2>4. Loop(g, n + 1)
    BY <2>2, <2>3
  <2> HIDE DEF Loop
  <2> QED BY <2>4
<1> HIDE DEF Loop
<1>3. Nat \subseteq T
  <2> HIDE DEF T
  <2> QED BY <1>1, <1>2, Induction
<1>4. \E f : Loop(f, k)
  BY <1>3
<1> QED BY <1>4 DEF Merging, Loop

\* Merging changes the outcome of no packet.
LEMMA MergedKeeps ==
  ASSUME NEW list \in Seq(SbRule), NEW packet
  PROVE  /\ FoldLeft(MergeRule, <<>>, list) \in Seq(SbRule)
         /\ Chosen(FoldLeft(MergeRule, <<>>, list), packet) = Chosen(list, packet)
<1> DEFINE n == Len(list)
           f == Merging(list, n)
           part(k) == SubSeq(list, 1, k)
           T == {k \in Nat : k <= n =>
                  f[1..k] \in Seq(SbRule) /\ Chosen(f[1..k], packet) = Chosen(part(k), packet)}
<1>1. FoldLeft(MergeRule, <<>>, list) = f[1..n]
  <2>1. DOMAIN list = 1..n
    OBVIOUS
  <2> QED BY <2>1 DEF FoldLeft, MapThenFoldSet, Merging
<1>2. n \in Nat /\ \A k \in 1..n : list[k] \in SbRule
  OBVIOUS
<1>3. \A s \in SUBSET (1..n) : f[s] = IF s = {} THEN <<>> ELSE MergeRule(f[s \ {Max(s)}], list[Max(s)])
  <2> HIDE DEF n
  <2>1. f = [s \in SUBSET (1..n) |->
              IF s = {} THEN <<>> ELSE MergeRule(f[s \ {Max(s)}], list[Max(s)])]
    BY <1>2, MergingDef
  <2> HIDE DEF f
  <2> QED BY <2>1
<1>4. part(0) = <<>> /\ part(n) = list /\ <<>> \in Seq(SbRule)
  OBVIOUS
<1>5. ASSUME NEW k \in Nat, k + 1 <= n
      PROVE  part(k) \in Seq(SbRule) /\ part(k + 1) = part(k) \o One(list[k + 1])
  BY <1>5, SubSeqNext
<1> HIDE DEF f, n, part
<1>6. 0 \in T
  <2>1. f[1..0] = <<>>
    <3>1. 1..0 = {} /\ {} \in SUBSET (1..n)
      OBVIOUS
    <3> QED BY <1>3, <3>1
  <2> QED BY <1>4, <2>1
<1>7. ASSUME NEW k \in Nat, k \in T PROVE k + 1 \in T
  <2> SUFFICES ASSUME k + 1 <= n
               PROVE  /\ f[1..(k + 1)] \in Seq(SbRule)
                      /\ Chosen(f[1..(k + 1)], packet) = Chosen(part(k + 1), packet)
    OBVIOUS
  <2>1. f[1..k] \in Seq(SbRule) /\ Chosen(f[1..k], packet) = Chosen(part(k), packet)
    BY <1>2, <1>7
  <2>2. /\ 1..(k + 1) \in SUBSET (1..n) /\ k + 1 \in 1..(k + 1) /\ 1..(k + 1) # {}
        /\ (1..(k + 1)) \ {k + 1} = 1..k
    <3>1. k + 1 \in Nat /\ n \in Nat /\ k + 1 <= n
      BY <1>2
    <3> QED BY <3>1
  <2>3. Max(1..(k + 1)) = k + 1
    <3>1. k + 1 \in Nat
      OBVIOUS
    <3> QED BY <2>2, <3>1, MaxIs
  <2>4. f[1..(k + 1)] = MergeRule(f[1..k], list[k + 1])
    BY <1>3, <2>2, <2>3
  <2>5. list[k + 1] \in SbRule /\ One(list[k + 1]) \in Seq(SbRule)
    <3>1. k + 1 \in 1..n
      BY <1>2
    <3> QED BY <1>2, <3>1, ChosenOne
  <2>6. part(k) \in Seq(SbRule) /\ part(k + 1) = part(k) \o One(list[k + 1])
    BY <1>5
  <2>7. /\ f[1..(k + 1)] \in Seq(SbRule)
        /\ Chosen(f[1..(k + 1)], packet) = Chosen(f[1..k] \o One(list[k + 1]), packet)
    BY <2>1, <2>4, <2>5, MergeRuleKeeps
  <2>8. Chosen(f[1..k] \o One(list[k + 1]), packet) = Chosen(part(k) \o One(list[k + 1]), packet)
    BY <2>1, <2>5, <2>6, ChosenConcat
  <2> QED BY <2>6, <2>7, <2>8
<1>8. n \in T
  <2> HIDE DEF T
  <2> QED BY <1>2, <1>6, <1>7, Induction
<1> QED BY <1>1, <1>2, <1>4, <1>8

-----------------------------------------------------------------------------
(* The rules of several lines *)

\* The first k lists, joined one after the other.
Joined(lists, k) ==
  CHOOSE f : f = [i \in 1..k |-> IF i = 1 THEN lists[i] ELSE f[i - 1] \o lists[i]]

LEMMA JoinedDef ==
  ASSUME NEW lists, NEW k \in Nat
  PROVE  Joined(lists, k) =
           [i \in 1..k |-> IF i = 1 THEN lists[i] ELSE Joined(lists, k)[i - 1] \o lists[i]]
<1> DEFINE Loop(f, n) == f = [i \in 1..n |-> IF i = 1 THEN lists[i] ELSE f[i - 1] \o lists[i]]
           T == {n \in Nat : \E f : Loop(f, n)}
<1>1. 0 \in T
  <2>1. Loop([i \in 1..0 |-> lists[i]], 0)
    OBVIOUS
  <2> HIDE DEF Loop
  <2> QED BY <2>1
<1>2. ASSUME NEW n \in Nat, n \in T PROVE n + 1 \in T
  <2>1. PICK f : Loop(f, n)
    BY <1>2
  <2> DEFINE g == [i \in 1..(n + 1) |->
                    IF i = n + 1 THEN IF i = 1 THEN lists[i] ELSE f[n] \o lists[i] ELSE f[i]]
  <2>2. ASSUME NEW i \in 1..(n + 1)
        PROVE  g[i] = IF i = 1 THEN lists[i] ELSE g[i - 1] \o lists[i]
    <3>1. CASE i = n + 1 /\ i # 1
      <4>1. n \in 1..(n + 1) /\ n # n + 1 /\ i - 1 = n
        BY <3>1
      <4>2. g[n] = f[n] /\ g[i] = f[n] \o lists[i]
        BY <3>1, <4>1
      <4> HIDE DEF g
      <4> QED BY <3>1, <4>1, <4>2
    <3>2. CASE i = n + 1 /\ i = 1
      BY <3>2
    <3>3. CASE i # n + 1
      <4>1. i \in 1..n /\ g[i] = f[i]
        BY <3>3
      <4>2. f[i] = IF i = 1 THEN lists[i] ELSE f[i - 1] \o lists[i]
        BY <2>1, <4>1
      <4>3. i # 1 => i - 1 \in 1..(n + 1) /\ i - 1 # n + 1
        BY <3>3
      <4>4. i # 1 => g[i - 1] = f[i - 1]
        BY <4>3
      <4> HIDE DEF g
      <4> QED BY <4>1, <4>2, <4>4
    <3> QED BY <3>1, <3>2, <3>3
  <2>3. g = [i \in 1..(n + 1) |-> g[i]]
    OBVIOUS
  <2> HIDE DEF g
  <2>4. Loop(g, n + 1)
    BY <2>2, <2>3
  <2> HIDE DEF Loop
  <2> QED BY <2>4
<1> HIDE DEF Loop
<1>3. Nat \subseteq T
  <2> HIDE DEF T
  <2> QED BY <1>1, <1>2, Induction
<1>4. \E f : Loop(f, k)
  BY <1>3
<1> QED BY <1>4 DEF Joined, Loop

\* Of several lists the first that catches the packet has its say.
LEMMA ChosenFlat ==
  ASSUME NEW lists \in Seq(Seq(SbRule)), NEW packet
  PROVE  /\ FlattenSeq(lists) \in Seq(SbRule)
         /\ (\A i \in 1..Len(lists) : Chosen(lists[i], packet) = {}) => Chosen(FlattenSeq(lists), packet) = {}
         /\ \A i \in 1..Len(lists) :
              /\ Chosen(lists[i], packet) # {}
              /\ \A j \in 1..Len(lists) : j < i => Chosen(lists[j], packet) = {}
              => Chosen(FlattenSeq(lists), packet) = Chosen(lists[i], packet)
<1> DEFINE n == Len(lists)
           f == Joined(lists, n)
           Right(rules, k) ==
             /\ rules \in Seq(SbRule)
             /\ (\A i \in 1..k : Chosen(lists[i], packet) = {}) => Chosen(rules, packet) = {}
             /\ \A i \in 1..k :
                  /\ Chosen(lists[i], packet) # {}
                  /\ \A j \in 1..k : j < i => Chosen(lists[j], packet) = {}
                  => Chosen(rules, packet) = Chosen(lists[i], packet)
           T == {k \in Nat : k + 1 <= n => Right(f[k + 1], k + 1)}
<1>1. n \in Nat /\ \A i \in 1..n : lists[i] \in Seq(SbRule)
  BY ElementOfSeq
<1>2. FlattenSeq(lists) = IF n = 0 THEN lists ELSE f[n]
  BY DEF FlattenSeq, Joined
<1>3. \A i \in 1..n : f[i] = IF i = 1 THEN lists[i] ELSE f[i - 1] \o lists[i]
  <2> HIDE DEF n
  <2>1. f = [i \in 1..n |-> IF i = 1 THEN lists[i] ELSE f[i - 1] \o lists[i]]
    BY <1>1, JoinedDef
  <2> HIDE DEF f
  <2> QED BY <2>1
<1>4. CASE n = 0
  <2>1. FlattenSeq(lists) = <<>>
    BY <1>2, <1>4
  <2>2. <<>> \in Seq(SbRule) /\ Len(<<>>) = 0
    OBVIOUS
  <2>3. Chosen(<<>>, packet) = {}
    BY <2>2 DEF Chosen, FirstCatch
  <2> QED BY <1>4, <2>1, <2>2, <2>3
<1> HIDE DEF n, f
<1>5. CASE n # 0
  <2>1. 0 \in T
    <3>1. 0 + 1 = 1 /\ 1 \in 1..n
      BY <1>1, <1>5
    <3>2. f[1] = lists[1]
      BY <1>3, <3>1
    <3>3. \A i \in 1..1 : i = 1
      OBVIOUS
    <3>4. Right(f[1], 1)
      BY <1>1, <3>1, <3>2, <3>3
    <3> HIDE DEF Right
    <3> QED BY <3>1, <3>4
  <2>2. ASSUME NEW k \in Nat, k \in T PROVE k + 1 \in T
    <3> SUFFICES ASSUME k + 2 <= n PROVE Right(f[k + 2], k + 2)
      <4>1. k + 1 \in Nat /\ (k + 1) + 1 = k + 2
        OBVIOUS
      <4> HIDE DEF Right
      <4> QED BY <4>1
    <3> DEFINE m == k + 1
    <3>1. m \in Nat /\ m + 1 = k + 2 /\ m + 1 \in 1..n /\ m + 1 # 1 /\ (m + 1) - 1 = m /\ m + 1 <= n /\ m <= n
      BY <1>1
    <3>2. Right(f[m], m)
      <4> HIDE DEF Right
      <4> QED BY <2>2, <3>1
    <3> HIDE DEF m
    <3>3. f[m + 1] = f[m] \o lists[m + 1] /\ lists[m + 1] \in Seq(SbRule) /\ f[m] \in Seq(SbRule)
      BY <1>1, <1>3, <3>1, <3>2
    <3>4. /\ f[m + 1] \in Seq(SbRule)
          /\ Chosen(f[m + 1], packet) =
               IF Chosen(f[m], packet) # {} THEN Chosen(f[m], packet) ELSE Chosen(lists[m + 1], packet)
      BY <3>3, ChosenConcat, ConcatProperties
    <3>5. \A i \in 1..m : i \in 1..(m + 1) /\ i < m + 1
      BY <3>1
    <3>6. \A i \in 1..(m + 1) : i = m + 1 \/ i \in 1..m
      BY <3>1
    <3>7. ASSUME \A i \in 1..(m + 1) : Chosen(lists[i], packet) = {}
          PROVE  Chosen(f[m + 1], packet) = {}
      <4>1. \A i \in 1..m : Chosen(lists[i], packet) = {}
        BY <3>5, <3>7
      <4>2. Chosen(f[m], packet) = {}
        BY <3>2, <4>1, Zenon
      <4>3. m + 1 \in 1..(m + 1)
        BY <3>1
      <4>4. Chosen(lists[m + 1], packet) = {}
        BY <3>7, <4>3
      <4> QED BY <3>4, <4>2, <4>4
    <3>8. ASSUME NEW i \in 1..(m + 1), Chosen(lists[i], packet) # {},
                 \A j \in 1..(m + 1) : j < i => Chosen(lists[j], packet) = {}
          PROVE  Chosen(f[m + 1], packet) = Chosen(lists[i], packet)
      <4>1. CASE i \in 1..m
        <5>1. Chosen(f[m], packet) = Chosen(lists[i], packet)
          BY <3>2, <3>5, <3>8, <4>1
        <5> QED BY <3>4, <3>8, <5>1
      <4>2. CASE i = m + 1
        <5>1. Chosen(f[m], packet) = {}
          BY <3>2, <3>5, <3>8, <4>2
        <5> QED BY <3>4, <4>2, <5>1
      <4> QED BY <3>6, <4>1, <4>2
    <3>9. Right(f[m + 1], m + 1)
      BY <3>4, <3>7, <3>8
    <3> HIDE DEF Right
    <3> QED BY <3>1, <3>9
  <2> HIDE DEF Right
  <2>3. n - 1 \in T /\ (n - 1) + 1 = n
    <3>1. Nat \subseteq T
      <4> HIDE DEF T
      <4> QED BY <2>1, <2>2, Induction
    <3>2. n - 1 \in Nat /\ (n - 1) + 1 = n
      BY <1>1, <1>5
    <3> QED BY <3>1, <3>2
  <2>4. Right(f[n], n)
    BY <1>1, <2>3
  <2> QED BY <1>2, <1>5, <2>4 DEF Right, n
<1> QED BY <1>4, <1>5

-----------------------------------------------------------------------------
(* Lines *)

LEMMA LineIs ==
  ASSUME NEW line \in Line
  PROVE  /\ line.at = "rule" => line.cond \in Conds /\ line.policy \in Policies
         /\ line.at = "rule-set" => line.url \in DOMAIN SetRules /\ line.policy \in Policies
         /\ line.at = "final" => line.policy \in Policies
         /\ line.at = "skip-proxy" => line.conds \in Seq(Conds)
         /\ line.at = "group" => line.name \in Policies
<1>1. CASE line \in [at : {"section"}, name : {"general", "proxy group", "rule", "host"}]
  BY <1>1
<1>2. CASE line = Blank \/ line = Comment
  BY <1>2 DEF Blank, Comment
<1>3. CASE line \in [at : {"skip-proxy"}, conds : Seq(Conds)]
  BY <1>3
<1>4. CASE line \in [at : {"group"}, name : Policies]
  BY <1>4
<1>5. CASE line \in [at : {"rule"}, cond : Conds, policy : Policies]
  BY <1>5
<1>6. CASE line \in [at : {"rule-set"}, url : DOMAIN SetRules, policy : Policies]
  BY <1>6
<1>7. CASE line \in [at : {"final"}, policy : Policies]
  BY <1>7
<1> QED BY <1>1, <1>2, <1>3, <1>4, <1>5, <1>6, <1>7 DEF Line

LEMMA LargestIs ==
  ASSUME NEW n \in Nat, NEW T, T \subseteq 1..n, T # {}
  PROVE  Largest(T) \in T /\ \A y \in T : y <= Largest(T)
<1>1. T \subseteq Nat /\ \A x \in T : x <= n
  OBVIOUS
<1>2. \E x \in T : \A y \in T : x >= y
  BY <1>1, Greatest
<1>3. Largest(T) \in T /\ \A y \in T : Largest(T) >= y
  BY <1>2 DEF Largest
<1> QED BY <1>1, <1>3

LEMMA RuleLinesAre ==
  ASSUME NEW lines \in Seq(Line)
  PROVE  /\ DOMAIN lines = 1..Len(lines) /\ Len(lines) \in Nat
         /\ RuleLines(lines) \subseteq 1..Len(lines)
         /\ \A i \in RuleLines(lines) :
              lines[i] \in Line /\ lines[i].at \in {"rule", "rule-set", "final"}
<1>1. DOMAIN lines = 1..Len(lines) /\ Len(lines) \in Nat
  OBVIOUS
<1>2. RuleLines(lines) \subseteq 1..Len(lines)
  BY <1>1 DEF RuleLines, InSection
<1>3. \A i \in 1..Len(lines) : lines[i] \in Line
  BY ElementOfSeq
<1> QED BY <1>1, <1>2, <1>3 DEF RuleLines

LEMMA SkipProxyIs ==
  ASSUME NEW lines \in Seq(Line) PROVE SkipProxy(lines) \in Seq(Conds)
<1> DEFINE keys == {i \in InSection(lines, "general") : lines[i].at = "skip-proxy"}
<1>1. DOMAIN lines = 1..Len(lines) /\ Len(lines) \in Nat /\ \A i \in 1..Len(lines) : lines[i] \in Line
  BY ElementOfSeq
<1>2. keys \subseteq 1..Len(lines)
  BY <1>1 DEF InSection
<1>3. SkipProxy(lines) = IF keys = {} THEN <<>> ELSE lines[Largest(keys)].conds
  BY DEF SkipProxy
<1>4. \A i \in keys : lines[i].at = "skip-proxy"
  OBVIOUS
<1> HIDE DEF keys
<1>5. CASE keys # {}
  <2>1. Largest(keys) \in keys
    BY <1>1, <1>2, <1>5, LargestIs
  <2>2. lines[Largest(keys)].conds \in Seq(Conds)
    BY <1>1, <1>2, <1>4, <2>1, LineIs
  <2> QED BY <1>3, <1>5, <2>2
<1>6. CASE keys = {}
  BY <1>3, <1>6
<1> QED BY <1>5, <1>6

\* What policyTag can answer.
Outs == {"direct", "reject", "proxy"} \cup Policies

LEMMA OutcomeIs ==
  ASSUME NEW lines \in Seq(Line), NEW policy, NEW active \in BOOLEAN
  PROVE  /\ Outcome(lines, policy, active) \in Outs
         /\ policy \in Rejecting => Outcome(lines, policy, active) = "reject"
<1>1. GroupNames(lines) \subseteq Policies
  <2>1. DOMAIN lines = 1..Len(lines) /\ \A i \in 1..Len(lines) : lines[i] \in Line
    BY ElementOfSeq
  <2>2. \A i \in InSection(lines, "proxy group") : lines[i] \in Line
    BY <2>1 DEF InSection
  <2> QED BY <2>2, LineIs DEF GroupNames
<1>2. policy \in Rejecting => policy # "DIRECT" /\ policy \in BuiltIn
  BY DEF Rejecting, BuiltIn
<1>3. \/ Outcome(lines, policy, active) \in {"direct", "reject", "proxy"}
      \/ policy \in GroupNames(lines) /\ Outcome(lines, policy, active) = policy
  BY DEF Outcome
<1>4. policy \in Rejecting => Outcome(lines, policy, active) = "reject"
  BY <1>2 DEF Outcome
<1> QED BY <1>1, <1>3, <1>4 DEF Outs

LEMMA RouteRuleIs ==
  ASSUME NEW cond \in Conds, NEW out \in Outs
  PROVE  /\ RouteRule(cond, out) \in SbRule /\ RouteRule(cond, out).out = out
         /\ \A packet \in Packets : Catches(RouteRule(cond, out), packet) <=> cond \in packet
<1> DEFINE r == RouteRule(cond, out)
<1>1. r = [key |-> cond.type, args |-> {cond.arg}, out |-> out]
  BY DEF RouteRule
<1>2. cond = [type |-> cond.type, arg |-> cond.arg] /\ cond.arg # "all"
  BY CondsAssumption
<1> HIDE DEF r
<1>3. r \in SbRule /\ r.out = out
  BY <1>1 DEF SbRule, Outs
<1>4. r.key = cond.type /\ r.args = {cond.arg}
  BY <1>1
<1>5. ASSUME NEW packet \in Packets PROVE Catches(r, packet) <=> cond \in packet
  BY <1>2, <1>4 DEF Catches
<1> QED BY <1>3, <1>5 DEF r

\* The route rules of conditions with one policy.
RulesOf(conds, out) == [k \in DOMAIN conds |-> RouteRule(conds[k], out)]

LEMMA RulesOfConds ==
  ASSUME NEW conds \in Seq(Conds), NEW out \in Outs, NEW packet \in Packets
  PROVE  /\ RulesOf(conds, out) \in Seq(SbRule)
         /\ Chosen(RulesOf(conds, out), packet) = IF Range(conds) \cap packet # {} THEN {out} ELSE {}
<1> DEFINE rules == RulesOf(conds, out)
           n == Len(conds)
<1>1. n \in Nat /\ DOMAIN conds = 1..n /\ \A k \in 1..n : conds[k] \in Conds
  BY ElementOfSeq
<1>2. \A k \in 1..n : rules[k] = RouteRule(conds[k], out)
  BY <1>1 DEF RulesOf
<1>3. rules = [k \in 1..n |-> rules[k]]
  BY <1>1 DEF RulesOf
<1> HIDE DEF rules, n
<1>4. \A k \in 1..n : rules[k] \in SbRule /\ rules[k].out = out /\ (Catches(rules[k], packet) <=> conds[k] \in packet)
  BY <1>1, <1>2, RouteRuleIs
<1>5. rules \in [1..n -> SbRule]
  BY <1>3, <1>4
<1>6. rules \in Seq(SbRule) /\ Len(rules) = n
  BY <1>1, <1>5, SeqDef, LenProperties
<1>7. Chosen(rules, packet) = IF \E k \in 1..Len(rules) : Catches(rules[k], packet) THEN {out} ELSE {}
  BY <1>4, <1>6, ChosenAlike
<1>8. (\E k \in 1..n : Catches(rules[k], packet)) <=> Range(conds) \cap packet # {}
  BY <1>1, <1>4 DEF Range
<1> QED BY <1>6, <1>7, <1>8 DEF rules

\* The route rules of one line.
LEMMA FromLineIs ==
  ASSUME NEW lines \in Seq(Line), NEW line \in Line, line.at \in {"rule", "rule-set", "final"},
         NEW have \in SUBSET DOMAIN SetRules, NEW active \in BOOLEAN, NEW packet \in Packets
  PROVE  /\ FromLine(lines, line, have, active) \in Seq(SbRule)
         /\ Chosen(FromLine(lines, line, have, active), packet) =
              IF Meets(line, packet, have) THEN {Outcome(lines, Upper[line.policy], active)} ELSE {}
<1> DEFINE conds == CASE line.at = "rule" -> <<line.cond>>
                      [] line.at = "rule-set" /\ line.url \in have -> SetRules[line.url]
                      [] OTHER -> <<>>
           good == {i \in DOMAIN conds : conds[i] \notin Bad}
           usable == Picked(conds, good)
           out == Outcome(lines, Upper[line.policy], active)
<1>1. conds \in Seq(Conds)
  <2>1. CASE line.at = "rule"
    BY <2>1, LineIs
  <2>2. CASE line.at = "rule-set" /\ line.url \in have
    BY <2>2, SetRulesAssumption
  <2>3. CASE line.at # "rule" /\ ~(line.at = "rule-set" /\ line.url \in have)
    BY <2>3
  <2> QED BY <2>1, <2>2, <2>3
<1>2. FromLine(lines, line, have, active) = RulesOf(usable, out)
  BY DEF FromLine, RulesOf
<1>3. Meets(line, packet, have) <=> \E i \in DOMAIN conds : conds[i] \in packet \ Bad
  <2>1. CASE line.at = "rule"
    <3>1. conds = <<line.cond>>
      BY <2>1
    <3>2. DOMAIN conds = {1} /\ conds[1] = line.cond
      BY <3>1
    <3> HIDE DEF conds
    <3> QED BY <2>1, <3>2 DEF Meets
  <2>2. CASE line.at = "rule-set" /\ line.url \in have
    <3>1. conds = SetRules[line.url]
      BY <2>2
    <3> HIDE DEF conds
    <3> QED BY <2>2, <3>1 DEF Meets, Range
  <2>3. CASE line.at # "rule" /\ ~(line.at = "rule-set" /\ line.url \in have)
    <3>1. conds = <<>>
      BY <2>3
    <3>2. DOMAIN conds = {}
      BY <3>1
    <3> HIDE DEF conds
    <3> QED BY <2>3, <3>2 DEF Meets
  <2> QED BY <2>1, <2>2, <2>3
<1> HIDE DEF conds
<1>4. good \subseteq 1..Len(conds) /\ DOMAIN conds = 1..Len(conds)
  BY <1>1
<1>5. usable \in Seq(Conds) /\ Picks(usable, conds, good)
  <2> HIDE DEF good
  <2> QED BY <1>1, <1>4, PickedPicks
<1>6. Range(usable) \cap packet # {} <=> \E i \in DOMAIN conds : conds[i] \in packet \ Bad
  <2>1. PICK e : Enumerates(e, Len(usable), good) /\ \A k \in 1..Len(usable) : usable[k] = conds[e[k]]
    BY <1>5 DEF Picks
  <2>2. /\ \A k \in 1..Len(usable) : e[k] \in good
        /\ \A i \in good : \E k \in 1..Len(usable) : e[k] = i
    BY <2>1 DEF Enumerates
  <2>3. DOMAIN usable = 1..Len(usable)
    BY <1>5
  <2> HIDE DEF usable
  <2>4. Range(usable) = {conds[i] : i \in good}
    BY <2>1, <2>2, <2>3 DEF Range
  <2> QED BY <2>4
<1>7. out \in Outs
  BY OutcomeIs
<1> HIDE DEF usable, out
<1>8. /\ RulesOf(usable, out) \in Seq(SbRule)
      /\ Chosen(RulesOf(usable, out), packet) = IF Range(usable) \cap packet # {} THEN {out} ELSE {}
  BY <1>5, <1>7, RulesOfConds
<1> QED BY <1>2, <1>3, <1>6, <1>8 DEF out

-----------------------------------------------------------------------------
(* The rules of a file *)

\* The route rules of each line of [Rule], before they are merged.
ByLine(lines, have, active) ==
  [k \in DOMAIN Rules(lines) |-> FromLine(lines, Rules(lines)[k], have, active)]

LEMMA ByLineIs ==
  ASSUME NEW lines \in Seq(Line), NEW have \in SUBSET DOMAIN SetRules, NEW active \in BOOLEAN,
         NEW packet \in Packets
  PROVE  LET hits == Hits(lines, packet, have)
             rules == FlattenSeq(ByLine(lines, have, active))
         IN  /\ rules \in Seq(SbRule)
             /\ hits = {} => Chosen(rules, packet) = {}
             /\ hits # {} => Chosen(rules, packet) =
                               {Outcome(lines, Upper[lines[Smallest(hits)].policy], active)}
<1> DEFINE written == Rules(lines)
           n == Len(written)
           hits == Hits(lines, packet, have)
           Out(i) == Outcome(lines, Upper[lines[i].policy], active)
<1>1. /\ DOMAIN lines = 1..Len(lines) /\ Len(lines) \in Nat /\ RuleLines(lines) \subseteq 1..Len(lines)
      /\ \A i \in RuleLines(lines) : lines[i] \in Line /\ lines[i].at \in {"rule", "rule-set", "final"}
  BY RuleLinesAre
<1>2. written \in Seq(Line) /\ Picks(written, lines, RuleLines(lines))
  BY <1>1, PickedPicks DEF Rules
<1>3. n \in Nat /\ DOMAIN written = 1..n
  BY <1>2
<1>4. PICK e : Enumerates(e, n, RuleLines(lines)) /\ \A k \in 1..n : written[k] = lines[e[k]]
  BY <1>2 DEF Picks
<1>5. /\ \A k \in 1..n : e[k] \in RuleLines(lines)
      /\ \A j, k \in 1..n : j < k => e[j] < e[k]
      /\ \A i \in RuleLines(lines) : \E k \in 1..n : e[k] = i
  BY <1>4 DEF Enumerates
<1>6. hits \subseteq RuleLines(lines)
      /\ \A i \in RuleLines(lines) : i \in hits <=> Meets(lines[i], packet, have)
  BY DEF Hits
<1> HIDE DEF written, n, hits
<1> DEFINE all == ByLine(lines, have, active)
<1>7. all = [k \in 1..n |-> FromLine(lines, written[k], have, active)]
  BY <1>3 DEF ByLine, written
<1> HIDE DEF all
<1>8. \A k \in 1..n : /\ all[k] \in Seq(SbRule)
                      /\ Chosen(all[k], packet) = IF e[k] \in hits THEN {Out(e[k])} ELSE {}
  <2> TAKE k \in 1..n
  <2>1. all[k] = FromLine(lines, lines[e[k]], have, active) /\ e[k] \in RuleLines(lines)
    BY <1>4, <1>5, <1>7
  <2>2. /\ FromLine(lines, lines[e[k]], have, active) \in Seq(SbRule)
        /\ Chosen(FromLine(lines, lines[e[k]], have, active), packet) =
             IF Meets(lines[e[k]], packet, have) THEN {Out(e[k])} ELSE {}
    BY <1>1, <2>1, FromLineIs
  <2> HIDE DEF Out
  <2> QED BY <1>6, <2>1, <2>2
<1> HIDE DEF Out
<1>9. all \in Seq(Seq(SbRule)) /\ Len(all) = n
  <2>1. all \in [1..n -> Seq(SbRule)]
    BY <1>7, <1>8
  <2> QED BY <1>3, <2>1, SeqDef, LenProperties
<1>10. FlattenSeq(all) \in Seq(SbRule)
  BY <1>9, ChosenFlat
<1>11. ASSUME hits = {} PROVE Chosen(FlattenSeq(all), packet) = {}
  <2>1. \A k \in 1..Len(all) : Chosen(all[k], packet) = {}
    BY <1>8, <1>9, <1>11
  <2> QED BY <1>9, <2>1, ChosenFlat
<1>12. ASSUME hits # {} PROVE Chosen(FlattenSeq(all), packet) = {Out(Smallest(hits))}
  <2>1. hits \subseteq Nat
    BY <1>1, <1>6
  <2>2. Smallest(hits) \in hits /\ \A y \in hits : Smallest(hits) <= y
    BY <1>12, <2>1, SmallestIs
  <2>3. PICK k \in 1..n : e[k] = Smallest(hits)
    BY <1>5, <1>6, <2>2
  <2>4. Chosen(all[k], packet) = {Out(Smallest(hits))}
    BY <1>8, <2>2, <2>3
  <2>5. ASSUME NEW j \in 1..Len(all), j < k PROVE Chosen(all[j], packet) = {}
    <3>1. j \in 1..n /\ e[j] < e[k] /\ e[j] \in Int /\ e[k] \in Int
      BY <1>1, <1>5, <1>9, <2>5
    <3>2. e[j] \notin hits
      BY <2>2, <2>3, <3>1
    <3> QED BY <1>8, <3>1, <3>2
  <2>6. k \in 1..Len(all) /\ Chosen(all[k], packet) # {}
    BY <1>9, <2>4
  <2>7. Chosen(FlattenSeq(all), packet) = Chosen(all[k], packet)
    BY <1>9, <2>5, <2>6, ChosenFlat
  <2> QED BY <2>4, <2>7
<1> QED BY <1>10, <1>11, <1>12 DEF all, hits, Out

LEMMA RejectRestIs ==
  ASSUME NEW lines \in Seq(Line), NEW packet
  PROVE  /\ RejectRest(lines) \in Seq(SbRule)
         /\ Chosen(RejectRest(lines), packet) =
              IF FinalPolicy(lines) \in Rejecting THEN {"reject"} ELSE {}
<1> DEFINE r == [key |-> "IP-CIDR", args |-> {"all"}, out |-> "reject"]
<1>1. r \in SbRule /\ r.out = "reject" /\ Catches(r, packet)
  BY DEF SbRule, Catches
<1>2. RejectRest(lines) = IF FinalPolicy(lines) \in Rejecting THEN One(r) ELSE <<>>
  BY DEF RejectRest, One
<1> HIDE DEF r
<1>3. One(r) \in Seq(SbRule) /\ Chosen(One(r), packet) = {"reject"}
  BY <1>1, ChosenOne
<1>4. <<>> \in Seq(SbRule) /\ Len(<<>>) = 0
  OBVIOUS
<1>5. Chosen(<<>>, packet) = {}
  BY <1>4 DEF Chosen, FirstCatch
<1>6. CASE FinalPolicy(lines) \in Rejecting
  BY <1>2, <1>3, <1>6
<1>7. CASE FinalPolicy(lines) \notin Rejecting
  BY <1>2, <1>4, <1>5, <1>7
<1> QED BY <1>6, <1>7

\* Where sing-box is to send a packet: FINAL counts wherever it stands.
Said(lines, have, active, packet) ==
  LET hits == Hits(lines, packet, have)
      policy == IF hits = {} THEN FinalPolicy(lines) ELSE Upper[lines[Smallest(hits)].policy]
  IN  IF Skipped(lines, packet) THEN "direct" ELSE Outcome(lines, policy, active)

LEMMA RoutesAsSaid ==
  ASSUME NEW lines \in Seq(Line), NEW have \in SUBSET DOMAIN SetRules, NEW active \in BOOLEAN,
         NEW packet \in Packets
  PROVE  Routed(Route(lines, have, active), packet) = Said(lines, have, active, packet)
<1> DEFINE skips == RulesOf(SkipProxy(lines), "direct")
           flat == FlattenSeq(ByLine(lines, have, active))
           rest == RejectRest(lines)
           unmerged == (skips \o flat) \o rest
           rules == FoldLeft(MergeRule, <<>>, unmerged)
           hits == Hits(lines, packet, have)
           final == IF FinalPolicy(lines) \in Rejecting THEN "direct"
                    ELSE Outcome(lines, FinalPolicy(lines), active)
           byLine == Outcome(lines, Upper[lines[Smallest(hits)].policy], active)
<1>1. Route(lines, have, active) = [rules |-> rules, final |-> final]
  BY DEF Route, RouteRules, RulesOf, ByLine, Rules
<1>2. /\ skips \in Seq(SbRule)
      /\ Chosen(skips, packet) = IF Skipped(lines, packet) THEN {"direct"} ELSE {}
  <2>1. "direct" \in Outs /\ SkipProxy(lines) \in Seq(Conds)
    BY SkipProxyIs DEF Outs
  <2> QED BY <2>1, RulesOfConds DEF Skipped
<1>3. /\ flat \in Seq(SbRule)
      /\ hits = {} => Chosen(flat, packet) = {}
      /\ hits # {} => Chosen(flat, packet) = {byLine}
  BY ByLineIs
<1>4. /\ rest \in Seq(SbRule)
      /\ Chosen(rest, packet) = IF FinalPolicy(lines) \in Rejecting THEN {"reject"} ELSE {}
  BY RejectRestIs
<1>5. Said(lines, have, active, packet) =
        IF Skipped(lines, packet) THEN "direct"
        ELSE IF hits = {} THEN Outcome(lines, FinalPolicy(lines), active) ELSE byLine
  BY DEF Said
<1>6. FinalPolicy(lines) \in Rejecting => Outcome(lines, FinalPolicy(lines), active) = "reject"
  BY OutcomeIs
<1> HIDE DEF skips, flat, rest, rules, final, hits, byLine
<1>7. /\ skips \o flat \in Seq(SbRule)
      /\ Chosen(skips \o flat, packet) =
           IF Chosen(skips, packet) # {} THEN Chosen(skips, packet) ELSE Chosen(flat, packet)
  <2>1. skips \in Seq(SbRule) /\ flat \in Seq(SbRule)
    BY <1>2, <1>3
  <2> QED BY <2>1, ChosenConcat, ConcatProperties
<1> DEFINE front == skips \o flat
<1> HIDE DEF front
<1>8. /\ front \o rest \in Seq(SbRule)
      /\ Chosen(front \o rest, packet) =
           IF Chosen(front, packet) # {} THEN Chosen(front, packet) ELSE Chosen(rest, packet)
  <2>1. front \in Seq(SbRule)
    BY <1>7 DEF front
  <2> QED BY <1>4, <2>1, ChosenConcat, ConcatProperties
<1>9. rules \in Seq(SbRule) /\ Chosen(rules, packet) = Chosen(front \o rest, packet)
  <2>1. unmerged \in Seq(SbRule) /\ unmerged = front \o rest
    BY <1>8 DEF front
  <2> HIDE DEF unmerged
  <2> QED BY <2>1, MergedKeeps DEF rules
<1>10. /\ Chosen(rules, packet) = {} => Routed(Route(lines, have, active), packet) = final
       /\ Chosen(rules, packet) # {} =>
            Routed(Route(lines, have, active), packet) \in Chosen(rules, packet)
  <2>1. rules \in Seq(SbRule)
    BY <1>9
  <2> DEFINE route == Route(lines, have, active)
  <2>2. route = [rules |-> rules, final |-> final]
    BY <1>1
  <2> HIDE DEF route
  <2>3. Chosen(rules, packet) = {} => Routed(route, packet) = final
    BY <2>1, <2>2, RoutedIs
  <2>4. Chosen(rules, packet) # {} => Routed(route, packet) \in Chosen(rules, packet)
    BY <2>1, <2>2, RoutedIs
  <2> QED BY <2>3, <2>4 DEF route
<1>11. CASE Skipped(lines, packet)
  <2>1. Chosen(front, packet) = {"direct"}
    BY <1>2, <1>7, <1>11 DEF front
  <2>2. Chosen(rules, packet) = {"direct"}
    BY <1>8, <1>9, <2>1
  <2> QED BY <1>5, <1>10, <1>11, <2>2
<1>12. CASE ~Skipped(lines, packet) /\ hits # {}
  <2>1. Chosen(front, packet) = {byLine}
    BY <1>2, <1>3, <1>7, <1>12 DEF front
  <2>2. Chosen(rules, packet) = {byLine}
    BY <1>8, <1>9, <2>1
  <2> QED BY <1>5, <1>10, <1>12, <2>2
<1>13. CASE ~Skipped(lines, packet) /\ hits = {}
  <2>1. Chosen(front, packet) = {}
    BY <1>2, <1>3, <1>7, <1>13 DEF front
  <2>2. Chosen(rules, packet) = IF FinalPolicy(lines) \in Rejecting THEN {"reject"} ELSE {}
    BY <1>4, <1>8, <1>9, <2>1
  <2>3. CASE FinalPolicy(lines) \in Rejecting
    BY <1>5, <1>6, <1>10, <1>13, <2>2, <2>3
  <2>4. CASE FinalPolicy(lines) \notin Rejecting
    BY <1>5, <1>10, <1>13, <2>2, <2>4 DEF final
  <2> QED BY <2>3, <2>4
<1> QED BY <1>11, <1>12, <1>13

-----------------------------------------------------------------------------
(* The file stays a file *)

LEMMA TextIs ==
  ASSUME NEW r \in RuleInputs
  PROVE  /\ RuleText(r) \in Line /\ RuleText(r).at \in {"rule", "final"}
         /\ RuleText(r).policy = r.policy /\ Upper[r.policy] = r.policy
         /\ r.type = "FINAL" => RuleText(r).at = "final"
         /\ r.type # "FINAL" => /\ RuleText(r).at = "rule"
                               /\ RuleText(r).cond = [type |-> r.type, arg |-> r.arg]
                               /\ RuleText(r).cond \in Conds \ Bad
<1>1. CASE r \in [type : {"FINAL"}, arg : {""}, policy : UiPolicies]
  <2>1. r.type = "FINAL" /\ r.policy \in Policies /\ Upper[r.policy] = r.policy
    BY <1>1, UpperAssumption
  <2>2. RuleText(r) = [at |-> "final", policy |-> r.policy]
    BY <2>1 DEF RuleText
  <2>3. RuleText(r) \in Line
    BY <2>1, <2>2 DEF Line
  <2> QED BY <2>1, <2>2, <2>3
<1>2. CASE r \notin [type : {"FINAL"}, arg : {""}, policy : UiPolicies]
  <2>1. PICK c \in Conds \ Bad, p \in UiPolicies : r = [type |-> c.type, arg |-> c.arg, policy |-> p]
    <3>1. PICK s \in [cond : Conds \ Bad, policy : UiPolicies] :
                 r = [type |-> s.cond.type, arg |-> s.cond.arg, policy |-> s.policy]
      BY <1>2 DEF RuleInputs
    <3> QED BY <3>1
  <2>2. c = [type |-> c.type, arg |-> c.arg] /\ c.type # "FINAL"
    BY CondsAssumption
  <2>3. r.type = c.type /\ r.arg = c.arg /\ r.policy = p
    BY <2>1
  <2>4. [type |-> r.type, arg |-> r.arg] = c /\ p \in Policies /\ Upper[p] = p
    BY <2>2, <2>3, UpperAssumption
  <2>5. RuleText(r) = [at |-> "rule", cond |-> c, policy |-> p]
    BY <2>2, <2>3, <2>4 DEF RuleText
  <2>6. RuleText(r) \in Line
    <3>1. c \in Conds /\ p \in Policies
      BY <2>4
    <3>2. RuleText(r) \in [at : {"rule"}, cond : Conds, policy : Policies]
      BY <2>5, <3>1
    <3> QED BY <3>2, Zenon DEF Line
  <2> QED BY <2>2, <2>3, <2>4, <2>5, <2>6
<1> QED BY <1>1, <1>2

\* The places of the [Rule] headings.
Headings(lines) == {i \in DOMAIN lines : lines[i] = Section("rule")}

\* What InsertRule puts at the end of a file without [Rule].
Added(lines) ==
  IF lines # <<>> /\ Last(lines) # Blank THEN <<Blank, Section("rule")>> ELSE <<Section("rule")>>

LEMMA AddedIs ==
  ASSUME NEW lines \in Seq(Line)
  PROVE  /\ Added(lines) \in Seq(Line) /\ Len(Added(lines)) \in 1..2
         /\ Added(lines)[Len(Added(lines))] = Section("rule")
<1>1. Section("rule") \in Line /\ Blank \in Line
  BY DEF Section, Line
<1>2. <<Blank, Section("rule")>> \in Seq(Line) /\ <<Section("rule")>> \in Seq(Line)
  BY <1>1
<1> QED BY <1>2 DEF Added

\* InsertRule on a file without a [Rule] heading, and on one with a heading.
LEMMA InsertedIs ==
  ASSUME NEW r \in RuleInputs, raw \in Seq(Line)
  PROVE  /\ Headings(raw) = {} =>
              Inserted(r) = (raw \o Added(raw)) \o One(RuleText(r))
         /\ Headings(raw) # {} =>
              Inserted(r) = InsertAt(raw, Smallest(Headings(raw)) + 1, RuleText(r))
<1>1. ASSUME Headings(raw) # {}
      PROVE  Inserted(r) = InsertAt(raw, Smallest(Headings(raw)) + 1, RuleText(r))
  BY <1>1 DEF Inserted, Headings
<1>2. ASSUME Headings(raw) = {} PROVE Inserted(r) = (raw \o Added(raw)) \o One(RuleText(r))
  <2> DEFINE gap == IF raw # <<>> /\ Last(raw) # Blank THEN <<Blank>> ELSE <<>>
             text == RuleText(r)
  <2>1. Inserted(r) = raw \o gap \o <<Section("rule"), text>>
    BY <1>2 DEF Inserted, Headings
  <2>2. Section("rule") \in Line /\ Blank \in Line /\ text \in Line
    BY TextIs DEF Section, Line
  <2>3. gap \in Seq(Line) /\ One(text) \in Seq(Line) /\ One(Section("rule")) \in Seq(Line)
    BY <2>2, OneIs
  <2>4. gap \o One(Section("rule")) = Added(raw)
    <3>1. CASE raw # <<>> /\ Last(raw) # Blank
      <4>1. <<Blank, Section("rule")>> = One(Blank) \o One(Section("rule"))
        BY <2>2 DEF One
      <4>2. gap = One(Blank)
        BY <3>1 DEF One
      <4> HIDE DEF gap
      <4> QED BY <3>1, <4>1, <4>2 DEF Added
    <3>2. CASE ~(raw # <<>> /\ Last(raw) # Blank)
      <4>1. <<>> \o One(Section("rule")) = One(Section("rule"))
        BY <2>3, ConcatEmptySeq
      <4> QED BY <3>2, <4>1 DEF Added, One
    <3> QED BY <3>1, <3>2
  <2>5. <<Section("rule"), text>> = One(Section("rule")) \o One(text)
    BY <2>2 DEF One
  <2> HIDE DEF gap, text
  <2>6. Inserted(r) = (raw \o gap) \o (One(Section("rule")) \o One(text))
    BY <2>1, <2>5
  <2> DEFINE head == One(Section("rule"))
  <2> HIDE DEF head
  <2>7. raw \o gap \in Seq(Line) /\ head \in Seq(Line)
    BY <2>3, ConcatProperties DEF head
  <2>8. (raw \o gap) \o (head \o One(text)) = ((raw \o gap) \o head) \o One(text)
    <3> DEFINE base == raw \o gap
               last == One(text)
    <3>1. base \in Seq(Line) /\ last \in Seq(Line)
      BY <2>3, <2>7
    <3> HIDE DEF base, last
    <3>2. base \o (head \o last) = (base \o head) \o last
      <4>1. head \in Seq(Line)
        BY <2>7
      <4> QED BY <3>1, <4>1, ConcatAssociative
    <3> QED BY <3>2 DEF base, last
  <2>9. (raw \o gap) \o head = raw \o (gap \o head)
    BY <2>3, <2>7, ConcatAssociative
  <2> QED BY <2>4, <2>6, <2>8, <2>9 DEF head, text
<1> QED BY <1>1, <1>2

LEMMA InsertedType ==
  ASSUME NEW r \in RuleInputs, raw \in Seq(Line)
  PROVE  Inserted(r) \in Seq(Line)
<1>1. RuleText(r) \in Line
  BY TextIs
<1>2. CASE Headings(raw) = {}
  <2>1. Added(raw) \in Seq(Line) /\ One(RuleText(r)) \in Seq(Line)
    BY <1>1, AddedIs, OneIs
  <2>2. raw \o Added(raw) \in Seq(Line)
    BY <2>1, ConcatProperties
  <2>3. (raw \o Added(raw)) \o One(RuleText(r)) \in Seq(Line)
    BY <2>1, <2>2, ConcatProperties
  <2> QED BY <1>2, <2>3, InsertedIs
<1>3. CASE Headings(raw) # {}
  <2>1. Headings(raw) \subseteq 1..Len(raw) /\ Len(raw) \in Nat
    BY DEF Headings
  <2>2. Smallest(Headings(raw)) \in 1..Len(raw)
    BY <1>3, <2>1, SmallestIs
  <2> DEFINE q == Smallest(Headings(raw)) + 1
  <2>3. q \in 1..(Len(raw) + 1)
    BY <2>1, <2>2
  <2> HIDE DEF q
  <2>4. InsertAt(raw, q, RuleText(r)) \in Seq(Line)
    BY <1>1, <2>3, InsertAtIs
  <2> QED BY <1>3, <2>4, InsertedIs DEF q
<1> QED BY <1>2, <1>3

LEMMA NeighbourIs ==
  ASSUME raw \in Seq(Line), NEW line \in RuleLines(raw), NEW up \in BOOLEAN,
         NEW j \in Neighbours(line, up)
  PROVE  /\ j \in RuleLines(raw)
         /\ up => j < line /\ \A x \in RuleLines(raw) : x < line => x <= j
         /\ ~up => line < j /\ \A x \in RuleLines(raw) : line < x => j <= x
<1> DEFINE above == {x \in RuleLines(raw) : x < line}
           below == {x \in RuleLines(raw) : x > line}
<1>1. Len(raw) \in Nat /\ RuleLines(raw) \subseteq 1..Len(raw)
  BY RuleLinesAre
<1>2. above \subseteq 1..Len(raw) /\ below \subseteq Nat
  BY <1>1
<1>3. CASE up
  <2>1. j = Largest(above) /\ above # {}
    BY <1>3 DEF Neighbours
  <2>2. Largest(above) \in above /\ \A y \in above : y <= Largest(above)
    <3> HIDE DEF above
    <3> QED BY <1>1, <1>2, <2>1, LargestIs
  <2> QED BY <1>3, <2>1, <2>2
<1>4. CASE ~up
  <2>1. j = Smallest(below) /\ below # {}
    BY <1>4 DEF Neighbours
  <2>2. Smallest(below) \in below /\ \A y \in below : Smallest(below) <= y
    <3> HIDE DEF below
    <3> QED BY <1>2, <2>1, SmallestIs
  <2>3. line < j
    BY <1>1, <2>1, <2>2
  <2>4. ASSUME NEW x \in RuleLines(raw), line < x PROVE j <= x
    <3>1. x \in below
      BY <1>1, <2>4
    <3> QED BY <2>1, <2>2, <3>1
  <2> QED BY <1>4, <2>1, <2>2, <2>3, <2>4
<1> QED BY <1>3, <1>4

LEMMA SwappedIs ==
  ASSUME NEW S, NEW list \in Seq(S), NEW i \in 1..Len(list), NEW j \in 1..Len(list)
  PROVE  LET new == [list EXCEPT ![i] = list[j], ![j] = list[i]]
         IN  /\ new \in Seq(S) /\ Len(new) = Len(list)
             /\ \A k \in 1..Len(list) :
                  new[k] = IF k = j THEN list[i] ELSE IF k = i THEN list[j] ELSE list[k]
<1> DEFINE mid == [list EXCEPT ![i] = list[j]]
           new == [mid EXCEPT ![j] = list[i]]
<1>1. list[i] \in S /\ list[j] \in S
  BY ElementOfSeq
<1>2. /\ mid \in Seq(S) /\ Len(mid) = Len(list)
      /\ \A k \in 1..Len(list) : mid[k] = IF k = i THEN list[j] ELSE list[k]
  BY <1>1, ExceptSeq
<1>3. new = [list EXCEPT ![i] = list[j], ![j] = list[i]]
  OBVIOUS
<1> DEFINE value == list[i]
<1> HIDE DEF mid, value
<1>4. /\ [mid EXCEPT ![j] = value] \in Seq(S) /\ Len([mid EXCEPT ![j] = value]) = Len(mid)
      /\ \A k \in 1..Len(mid) : [mid EXCEPT ![j] = value][k] = IF k = j THEN value ELSE mid[k]
  BY <1>1, <1>2, ExceptSeq DEF value
<1>5. new = [mid EXCEPT ![j] = value]
  BY DEF value
<1> HIDE DEF new
<1> QED BY <1>2, <1>3, <1>4, <1>5 DEF value

\* Every edit leaves a file of lines.  The invariant the theorems below use.
THEOREM TypeCorrect == Spec => []TypeOK
<1>1. Init => TypeOK
  BY TextsAssumption DEF Init, TypeOK
<1>2. TypeOK /\ [Next]_raw => TypeOK'
  <2> SUFFICES ASSUME TypeOK, [Next]_raw PROVE TypeOK'
    OBVIOUS
  <2>1. raw \in Seq(Line) /\ DOMAIN raw = 1..Len(raw)
    BY DEF TypeOK
  <2>2. ASSUME NEW r \in RuleInputs, AddRule(r) PROVE TypeOK'
    BY <2>1, <2>2, InsertedType DEF AddRule, TypeOK
  <2>3. ASSUME NEW line \in DOMAIN raw, NEW r \in RuleInputs, UpdateRule(line, r) PROVE TypeOK'
    <3>1. RuleText(r) \in Line /\ line \in 1..Len(raw)
      BY <2>1, TextIs
    <3> QED BY <2>1, <2>3, <3>1, ExceptSeq DEF UpdateRule, TypeOK
  <2>4. ASSUME NEW line \in DOMAIN raw, DeleteRule(line) PROVE TypeOK'
    <3>1. RemoveAt(raw, line) \in Seq(Line)
      BY <2>1, RemoveAtIs
    <3> QED BY <2>4, <3>1 DEF DeleteRule, TypeOK
  <2>5. ASSUME NEW line \in DOMAIN raw, NEW up \in BOOLEAN, MoveRule(line, up) PROVE TypeOK'
    <3>1. line \in RuleLines(raw)
      BY <2>5 DEF MoveRule, RuleAt
    <3>2. PICK j \in Neighbours(line, up) : raw' = [raw EXCEPT ![line] = raw[j], ![j] = raw[line]]
      BY <2>5 DEF MoveRule
    <3>3. j \in RuleLines(raw)
      BY <2>1, <3>1, NeighbourIs
    <3>4. line \in 1..Len(raw) /\ j \in 1..Len(raw)
      BY <2>1, <3>1, <3>3, RuleLinesAre
    <3> QED BY <2>1, <3>2, <3>4, SwappedIs DEF TypeOK
  <2>6. CASE UNCHANGED raw
    BY <2>6 DEF TypeOK
  <2> QED BY <2>2, <2>3, <2>4, <2>5, <2>6 DEF Next
<1> QED BY <1>1, <1>2, PTL DEF Spec

\* With every FINAL below the other rules, the first line that a packet meets
\* is the first of the others, or the first FINAL.
LEMMA ToldIsSaid ==
  ASSUME NEW lines \in Seq(Line), FinalLast(lines), NEW have, NEW active, NEW packet
  PROVE  Told(lines, have, active, packet) = Said(lines, have, active, packet)
<1> DEFINE others == Hits(lines, packet, have)
           finals == {i \in RuleLines(lines) : lines[i].at = "final"}
           hits == others \cup finals
<1>1. RuleLines(lines) \subseteq Nat
  BY RuleLinesAre
<1>2. /\ others \subseteq RuleLines(lines) /\ finals \subseteq RuleLines(lines)
      /\ \A i \in others : lines[i].at # "final"
      /\ \A i \in finals : lines[i].at = "final"
  BY DEF Hits, Meets
<1>3. \A i \in finals, j \in others : j < i
  BY <1>2 DEF FinalLast
<1>4. FinalPolicy(lines) = IF finals = {} THEN "DIRECT" ELSE Upper[lines[Smallest(finals)].policy]
  BY DEF FinalPolicy
<1> HIDE DEF others, finals
<1>5. CASE others = {}
  <2>1. hits = finals
    BY <1>5
  <2> QED BY <1>4, <1>5, <2>1 DEF Told, Said, others, finals
<1>6. CASE others # {}
  <2>1. /\ Smallest(others) \in others /\ \A y \in others : Smallest(others) <= y
        /\ others \subseteq Nat /\ finals \subseteq Nat
    BY <1>1, <1>2, <1>6, SmallestIs
  <2>2. hits \subseteq Nat /\ hits # {}
    BY <1>6, <2>1
  <2>3. \A y \in hits : Smallest(others) <= y
    <3> DEFINE t == Smallest(others)
    <3>1. t \in others /\ t \in Nat /\ \A y \in others : t <= y
      BY <2>1
    <3>2. \A y \in finals : t < y
      BY <1>3, <3>1
    <3> HIDE DEF t
    <3>3. \A y \in finals : t <= y
      BY <2>1, <3>1, <3>2
    <3>4. \A y \in hits : t <= y
      BY <3>1, <3>3
    <3> QED BY <3>4 DEF t
  <2>4. Smallest(hits) \in hits /\ \A y \in hits : Smallest(hits) <= y
    BY <2>2, SmallestIs
  <2>5. Smallest(hits) = Smallest(others)
    <3> DEFINE s == Smallest(hits)
               t == Smallest(others)
    <3>1. s \in Nat /\ t \in Nat /\ s <= t /\ t <= s
      BY <2>1, <2>2, <2>3, <2>4
    <3> HIDE DEF s, t
    <3>2. s = t
      BY <3>1
    <3> QED BY <3>2 DEF s, t
  <2>6. hits # {}
    BY <1>6
  <2> QED BY <1>6, <2>5, <2>6 DEF Told, Said, others, finals
<1> QED BY <1>5, <1>6

\* Whatever edits the rules went through, with a node or without one and with
\* any of the rule-sets missing: as long as no rule stands below a FINAL,
\* sing-box sends every packet where the first line it meets says.
THEOREM RoutesRight == Spec => []RoutesAsWritten
<1>1. TypeOK => RoutesAsWritten
  <2> SUFFICES ASSUME raw \in Seq(Line), FinalLast(raw),
                      NEW have \in SUBSET DOMAIN SetRules, NEW active \in BOOLEAN,
                      NEW packet \in Packets
               PROVE  Routed(Route(raw, have, active), packet) = Told(raw, have, active, packet)
    BY DEF TypeOK, RoutesAsWritten, FirstMatchWins
  <2> QED BY RoutesAsSaid, ToldIsSaid
<1> QED BY <1>1, TypeCorrect, PTL

-----------------------------------------------------------------------------
(* Which lines are rules *)

Kinds == {"rule", "rule-set", "final"}

\* The lines that come under a [Rule] heading.
Under(lines) ==
  {i \in 1..Len(lines) :
    \E j \in 1..(i - 1) : lines[j] = Section("rule") /\ \A k \in (j + 1)..i : lines[k].at # "section"}

LEMMA HeadingIs ==
  ASSUME NEW line \in Line, line.at = "section", line.name = "rule"
  PROVE  line = Section("rule")
<1>1. CASE line \in [at : {"section"}, name : {"general", "proxy group", "rule", "host"}]
  BY <1>1 DEF Section
<1>2. CASE line \in {Blank, Comment}
  BY <1>2 DEF Blank, Comment
<1>3. CASE line \in [at : {"skip-proxy"}, conds : Seq(Conds)]
  BY <1>3
<1>4. CASE line \in [at : {"group"}, name : Policies]
  BY <1>4
<1>5. CASE line \in [at : {"rule"}, cond : Conds, policy : Policies]
  BY <1>5
<1>6. CASE line \in [at : {"rule-set"}, url : DOMAIN SetRules, policy : Policies]
  BY <1>6
<1>7. CASE line \in [at : {"final"}, policy : Policies]
  BY <1>7
<1> QED BY <1>1, <1>2, <1>3, <1>4, <1>5, <1>6, <1>7 DEF Line

LEMMA RuleLinesUnder ==
  ASSUME NEW lines \in Seq(Line)
  PROVE  RuleLines(lines) = {i \in Under(lines) : lines[i].at \in Kinds}
<1>1. DOMAIN lines = 1..Len(lines) /\ Len(lines) \in Nat /\ \A i \in 1..Len(lines) : lines[i] \in Line
  BY ElementOfSeq
<1>2. Section("rule").at = "section" /\ Section("rule").name = "rule"
  BY DEF Section
<1>3. ASSUME NEW i \in 1..Len(lines), lines[i].at # "section"
      PROVE  i \in InSection(lines, "rule") <=> i \in Under(lines)
  <2> DEFINE heads == {j \in 1..i : lines[j].at = "section"}
             g == Largest(heads)
  <2>1. i \in InSection(lines, "rule")
          <=> \E h \in heads : lines[h].name = "rule" /\ \A y \in heads : y <= h
    BY <1>1, <1>3 DEF InSection
  <2>2. heads \subseteq 1..i /\ i \in Nat /\ i <= Len(lines)
    BY <1>1
  <2>3. heads # {} => g \in heads /\ \A y \in heads : y <= g
    <3> HIDE DEF heads
    <3> QED BY <2>2, LargestIs
  <2>4. i \in InSection(lines, "rule") <=> heads # {} /\ lines[g].name = "rule"
    <3>1. ASSUME NEW h \in heads, \A y \in heads : y <= h PROVE h = g
      <4> HIDE DEF heads, g
      <4>1. g \in heads /\ h <= g /\ g <= h
        BY <2>3, <3>1
      <4>2. g \in 1..i /\ h \in 1..i
        BY <2>2, <4>1
      <4> QED BY <2>2, <4>1, <4>2
    <3> HIDE DEF heads, g
    <3> QED BY <2>1, <2>3, <3>1
  <2>5. ASSUME heads # {}, lines[g].name = "rule" PROVE i \in Under(lines)
    <3>1. g \in 1..(i - 1) /\ lines[g].at = "section" /\ lines[g] \in Line
      BY <1>1, <1>3, <2>2, <2>3, <2>5
    <3>2. lines[g] = Section("rule")
      BY <2>5, <3>1, HeadingIs
    <3>3. ASSUME NEW k \in (g + 1)..i PROVE lines[k].at # "section"
      <4>1. k \in 1..i /\ ~(k <= g)
        BY <2>2, <3>1
      <4> QED BY <2>3, <2>5, <4>1
    <3> HIDE DEF g
    <3> QED BY <3>1, <3>2, <3>3 DEF Under
  <2>6. ASSUME i \in Under(lines) PROVE heads # {} /\ lines[g].name = "rule"
    <3>1. PICK j \in 1..(i - 1) : lines[j] = Section("rule") /\ \A k \in (j + 1)..i : lines[k].at # "section"
      BY <2>6 DEF Under
    <3>2. j \in heads
      BY <1>2, <2>2, <3>1
    <3>3. g \in heads /\ j <= g
      BY <2>3, <3>2
    <3>4. g = j
      <4>1. g \in 1..i /\ lines[g].at = "section"
        BY <3>3
      <4>2. g \notin (j + 1)..i
        BY <3>1, <4>1
      <4> HIDE DEF g, heads
      <4> QED BY <3>3, <4>1, <4>2
    <3> HIDE DEF g, heads
    <3> QED BY <1>2, <3>1, <3>2, <3>4
  <2> HIDE DEF heads, g
  <2> QED BY <2>4, <2>5, <2>6
<1>4. /\ RuleLines(lines) \subseteq 1..Len(lines) /\ Under(lines) \subseteq 1..Len(lines)
      /\ \A i \in 1..Len(lines) :
           i \in RuleLines(lines) <=> i \in InSection(lines, "rule") /\ lines[i].at \in Kinds
  BY <1>1 DEF RuleLines, InSection, Under, Kinds
<1>5. \A i \in 1..Len(lines) : lines[i].at \in Kinds => lines[i].at # "section"
  BY DEF Kinds
<1> QED BY <1>3, <1>4, <1>5

\* One line more that is no heading leaves the others under their headings.
LEMMA UnderPast ==
  ASSUME NEW lines \in Seq(Line), NEW less \in Seq(Line), NEW q, OneMore(lines, less, q),
         lines[q].at # "section", NEW i \in 1..Len(less)
  PROVE  i \in Under(less) <=> Past(q, i) \in Under(lines)
<1> DEFINE n == Len(less)
<1>1. /\ n \in Nat /\ Len(lines) = n + 1 /\ q \in 1..(n + 1)
      /\ \A k \in 1..n : lines[Past(q, k)] = less[k]
  BY DEF OneMore
<1> HIDE DEF n
<1>2. /\ \A k \in 1..n : Past(q, k) \in 1..(n + 1) /\ Past(q, k) # q
      /\ \A j, k \in 1..n : j < k <=> Past(q, j) < Past(q, k)
      /\ \A k \in 1..(n + 1) : k # q => \E j \in 1..n : Past(q, j) = k
  BY <1>1, PastIs
<1>3. Section("rule").at = "section" /\ i \in 1..n
  BY DEF Section, n
<1>4. ASSUME i \in Under(less) PROVE Past(q, i) \in Under(lines)
  <2>1. PICK j \in 1..(i - 1) : less[j] = Section("rule") /\ \A k \in (j + 1)..i : less[k].at # "section"
    BY <1>4 DEF Under
  <2>2. j \in 1..n /\ j < i
    BY <1>1, <1>3
  <2>3. Past(q, j) \in 1..(Past(q, i) - 1)
    BY <1>1, <1>2, <1>3, <2>2
  <2>4. ASSUME NEW k \in (Past(q, j) + 1)..Past(q, i) PROVE lines[k].at # "section"
    <3>1. k \in 1..(n + 1) /\ Past(q, j) < k /\ k <= Past(q, i)
      BY <1>1, <1>2, <1>3, <2>2
    <3>2. CASE k # q
      <4>1. PICK m \in 1..n : Past(q, m) = k
        BY <1>2, <3>1, <3>2
      <4>2. j < m
        BY <1>2, <2>2, <3>1, <4>1
      <4>3. ~(i < m)
        BY <1>1, <1>2, <1>3, <3>1, <4>1
      <4>4. m \in (j + 1)..i
        BY <1>1, <1>3, <2>2, <4>2, <4>3
      <4> QED BY <1>1, <2>1, <4>1, <4>4
    <3> QED BY <3>2
  <2>5. lines[Past(q, j)] = Section("rule") /\ Past(q, i) \in 1..Len(lines)
    BY <1>1, <1>2, <1>3, <2>1, <2>2
  <2> QED BY <2>3, <2>4, <2>5 DEF Under
<1>5. ASSUME Past(q, i) \in Under(lines) PROVE i \in Under(less)
  <2>1. PICK h \in 1..(Past(q, i) - 1) :
               lines[h] = Section("rule") /\ \A k \in (h + 1)..Past(q, i) : lines[k].at # "section"
    BY <1>5 DEF Under
  <2>2. h \in 1..(n + 1) /\ h # q /\ h < Past(q, i)
    BY <1>1, <1>2, <1>3, <2>1
  <2>3. PICK j \in 1..n : Past(q, j) = h
    BY <1>2, <2>2
  <2>4. j < i
    BY <1>2, <1>3, <2>2, <2>3
  <2>5. ASSUME NEW k \in (j + 1)..i PROVE less[k].at # "section"
    <3>1. k \in 1..n /\ j < k /\ ~(i < k)
      BY <1>1, <1>3, <2>3
    <3>2. h < Past(q, k) /\ ~(Past(q, i) < Past(q, k))
      BY <1>2, <1>3, <2>3, <3>1
    <3>3. Past(q, k) \in (h + 1)..Past(q, i)
      <4>1. Past(q, k) \in Int /\ Past(q, i) \in Int /\ h \in Int
        BY <1>1, <1>2, <1>3, <2>2, <3>1
      <4> QED BY <3>2, <4>1
    <3> QED BY <1>1, <2>1, <3>1, <3>3
  <2>6. less[j] = Section("rule") /\ j \in 1..(i - 1) /\ i \in 1..Len(less)
    BY <1>1, <1>3, <2>1, <2>3, <2>4
  <2> QED BY <2>5, <2>6 DEF Under
<1> QED BY <1>4, <1>5

\* One rule more: the other rules, and the lines that are none, stay.
LEMMA OneRuleMore ==
  ASSUME NEW lines \in Seq(Line), NEW less \in Seq(Line), NEW q, OneMore(lines, less, q),
         q \in RuleLines(lines)
  PROVE  /\ Others(lines) = Others(less)
         /\ Rules(lines) \in Seq(Line) /\ Rules(less) \in Seq(Line)
         /\ \E k \in 1..Len(Rules(lines)) :
              /\ Rules(less) = RemoveAt(Rules(lines), k)
              /\ (\A i \in RuleLines(lines) : q <= i) => k = 1
<1> DEFINE n == Len(less)
           I == RuleLines(less)
           J == RuleLines(lines)
           O == DOMAIN less \ I
           P == DOMAIN lines \ J
<1>1. /\ n \in Nat /\ Len(lines) = n + 1 /\ q \in 1..(n + 1)
      /\ \A k \in 1..n : lines[Past(q, k)] = less[k]
      /\ DOMAIN less = 1..n /\ DOMAIN lines = 1..(n + 1)
  BY DEF OneMore
<1>2. /\ I \subseteq 1..n /\ J \subseteq 1..(n + 1)
      /\ lines[q].at \in Kinds
  BY <1>1, RuleLinesAre DEF Kinds
<1>3. lines[q].at # "section"
  BY <1>2 DEF Kinds
<1>4. \A i \in 1..n : i \in I <=> Past(q, i) \in J
  <2> TAKE i \in 1..n
  <2>1. i \in Under(less) <=> Past(q, i) \in Under(lines)
    BY <1>3, UnderPast
  <2> QED BY <1>1, <2>1, RuleLinesUnder
<1> HIDE DEF n
<1>5. /\ \A k \in 1..n : Past(q, k) \in 1..(n + 1) /\ Past(q, k) # q
      /\ \A j, k \in 1..n : j < k <=> Past(q, j) < Past(q, k)
      /\ \A k \in 1..(n + 1) : k # q => \E j \in 1..n : Past(q, j) = k
  BY <1>1, PastIs
<1>6. /\ Rules(lines) \in Seq(Line) /\ Picks(Rules(lines), lines, J)
      /\ Rules(less) \in Seq(Line) /\ Picks(Rules(less), less, I)
      /\ Others(lines) \in Seq(Line) /\ Picks(Others(lines), lines, P)
      /\ Others(less) \in Seq(Line) /\ Picks(Others(less), less, O)
  <2>1. I \in SUBSET DOMAIN less /\ O \in SUBSET DOMAIN less
    BY <1>1, <1>2
  <2>2. J \in SUBSET DOMAIN lines /\ P \in SUBSET DOMAIN lines
    BY <1>1, <1>2
  <2>3. /\ Picked(lines, J) \in Seq(Line) /\ Picks(Picked(lines, J), lines, J)
        /\ Picked(lines, P) \in Seq(Line) /\ Picks(Picked(lines, P), lines, P)
    <3> HIDE DEF J, P
    <3> QED BY <2>2, PickedPicks
  <2>4. /\ Picked(less, I) \in Seq(Line) /\ Picks(Picked(less, I), less, I)
        /\ Picked(less, O) \in Seq(Line) /\ Picks(Picked(less, O), less, O)
    <3> HIDE DEF I, O
    <3> QED BY <2>1, PickedPicks
  <2> QED BY <2>3, <2>4 DEF Rules, Others
<1> DEFINE h == [i \in I |-> Past(q, i)]
           g == [i \in O |-> Past(q, i)]
           rest == J \ {q}
<1>7. Picks(Rules(less), lines, rest)
  <2>1. h \in [I -> rest]
    BY <1>2, <1>4, <1>5
  <2>2. \A i, j \in I : i < j => h[i] < h[j]
    BY <1>2, <1>5
  <2>3. \A j \in rest : \E i \in I : h[i] = j
    <3> TAKE j \in rest
    <3>1. PICK i \in 1..n : Past(q, i) = j
      BY <1>2, <1>5
    <3>2. i \in I
      BY <1>4, <3>1
    <3> QED BY <3>1, <3>2
  <2>4. \A i \in I : lines[h[i]] = less[i]
    BY <1>1, <1>2
  <2>5. Picks(Rules(less), less, I)
    BY <1>6
  <2> HIDE DEF h, I, rest
  <2> QED BY <2>1, <2>2, <2>3, <2>4, <2>5, PicksMoved
<1>8. Picks(Others(less), lines, P)
  <2>1. g \in [O -> P]
    BY <1>1, <1>4, <1>5
  <2>2. \A i, j \in O : i < j => g[i] < g[j]
    BY <1>1, <1>5
  <2>3. \A j \in P : \E i \in O : g[i] = j
    <3> TAKE j \in P
    <3>1. PICK i \in 1..n : Past(q, i) = j
      BY <1>1, <1>5
    <3>2. i \in O
      BY <1>1, <1>4, <3>1
    <3> QED BY <3>1, <3>2
  <2>4. \A i \in O : lines[g[i]] = less[i]
    BY <1>1
  <2>5. Picks(Others(less), less, O)
    BY <1>6
  <2> HIDE DEF g, O, P
  <2> QED BY <2>1, <2>2, <2>3, <2>4, <2>5, PicksMoved
<1>9. Others(lines) = Others(less)
  <2>1. P \subseteq Int
    BY <1>1
  <2> HIDE DEF P
  <2> QED BY <1>6, <1>8, <2>1, PicksUnique
<1> DEFINE t == Rules(lines)
<1>10. PICK e : Enumerates(e, Len(t), J) /\ \A k \in 1..Len(t) : t[k] = lines[e[k]]
  BY <1>6 DEF Picks
<1>11. /\ Len(t) \in Nat /\ \A k \in 1..Len(t) : e[k] \in J
       /\ \A i, k \in 1..Len(t) : i < k => e[i] < e[k]
       /\ \A i \in J : \E k \in 1..Len(t) : e[k] = i
  BY <1>10 DEF Enumerates
<1>12. PICK k \in 1..Len(t) : e[k] = q
  BY <1>11
<1>13. Rules(less) = RemoveAt(t, k)
  <2>1. J \subseteq Int /\ rest \subseteq Int
    BY <1>2
  <2>2. t \in Seq(Line)
    BY <1>6
  <2>3. RemoveAt(t, k) \in Seq(Line) /\ Picks(RemoveAt(t, k), lines, J \ {e[k]})
    <3> HIDE DEF t, J
    <3> QED BY <1>10, <2>1, <2>2, PicksWithout
  <2>4. Picks(RemoveAt(t, k), lines, rest)
    BY <1>12, <2>3
  <2> HIDE DEF t, rest
  <2> QED BY <1>6, <1>7, <2>1, <2>3, <2>4, PicksUnique
<1>14. ASSUME \A i \in J : q <= i PROVE k = 1
  <2> SUFFICES ASSUME 1 < k PROVE FALSE
    BY <1>11
  <2>1. 1 \in 1..Len(t) /\ e[1] < e[k] /\ e[1] \in J
    BY <1>11
  <2>2. q <= e[1] /\ e[1] \in Int /\ q \in Int
    BY <1>2, <1>14, <2>1
  <2> QED BY <1>12, <2>1, <2>2
<1> QED BY <1>6, <1>9, <1>13, <1>14

-----------------------------------------------------------------------------
(* What a new rule does *)

\* Where it is put: under the first [Rule], before all other rules.
LEMMA InsertedWhere ==
  ASSUME NEW r \in RuleInputs, raw \in Seq(Line), NEW lines, lines = Inserted(r)
  PROVE  \E q \in RuleLines(lines) :
           /\ lines[q] = RuleText(r)
           /\ \A i \in RuleLines(lines) : q <= i
           /\ Headings(raw) # {} => OneMore(lines, raw, q)
           /\ Headings(raw) = {} => RuleLines(raw) = {} /\ q = Len(lines)
<1>1. /\ RuleText(r) \in Line /\ RuleText(r).at \in Kinds
      /\ lines \in Seq(Line) /\ Len(raw) \in Nat /\ Len(lines) \in Nat
  <2>1. lines \in Seq(Line)
    BY InsertedType
  <2>2. RuleText(r) \in Line /\ RuleText(r).at \in Kinds
    BY TextIs DEF Kinds
  <2> QED BY <2>1, <2>2
<1>2. Section("rule").at = "section" /\ RuleText(r).at # "section"
  BY <1>1 DEF Section, Kinds
<1>3. /\ RuleLines(lines) = {i \in Under(lines) : lines[i].at \in Kinds}
      /\ RuleLines(lines) \subseteq 1..Len(lines)
  BY <1>1, RuleLinesUnder, RuleLinesAre
<1>4. CASE Headings(raw) # {}
  <2> DEFINE p == Smallest(Headings(raw))
  <2>1. p \in 1..Len(raw) /\ raw[p] = Section("rule") /\ \A j \in Headings(raw) : p <= j
    <3>1. Headings(raw) \subseteq Nat /\ Headings(raw) \subseteq 1..Len(raw)
      BY DEF Headings
    <3>2. p \in Headings(raw) /\ \A j \in Headings(raw) : p <= j
      BY <1>4, <3>1, SmallestIs
    <3> HIDE DEF p
    <3> QED BY <3>1, <3>2 DEF Headings
  <2>2. lines = InsertAt(raw, p + 1, RuleText(r))
    BY <1>4, InsertedIs
  <2> HIDE DEF p
  <2> DEFINE q == p + 1
  <2>3. q \in 1..(Len(raw) + 1)
    BY <1>1, <2>1
  <2>4. OneMore(lines, raw, q) /\ lines[q] = RuleText(r)
    <3> HIDE DEF q
    <3>1. lines = InsertAt(raw, q, RuleText(r))
      BY <2>2 DEF q
    <3> QED BY <1>1, <2>3, <3>1, InsertAtIs
  <2>5. Len(lines) = Len(raw) + 1 /\ \A i \in 1..Len(raw) : lines[Past(q, i)] = raw[i]
    BY <2>4 DEF OneMore
  <2>6. lines[p] = Section("rule")
    <3>1. Past(q, p) = p
      BY <2>1 DEF Past
    <3> QED BY <2>1, <2>5, <3>1
  <2>7. q \in Under(lines)
    <3>1. p \in 1..(q - 1) /\ q \in 1..Len(lines) /\ \A k \in (p + 1)..q : k = q
      BY <1>1, <2>1, <2>3, <2>5
    <3> HIDE DEF q
    <3> QED BY <1>2, <2>4, <2>6, <3>1 DEF Under
  <2>8. ASSUME NEW i \in RuleLines(lines) PROVE q <= i
    <3>1. PICK j \in 1..(i - 1) : lines[j] = Section("rule")
      BY <1>3, <2>8 DEF Under
    <3>2. i \in 1..(Len(raw) + 1) /\ j \in 1..(Len(raw) + 1) /\ j < i
      BY <1>1, <1>3, <2>5
    <3>3. j # q
      BY <1>2, <2>4, <3>1
    <3>4. PICK m \in 1..Len(raw) : Past(q, m) = j
      <4> HIDE DEF q
      <4> QED BY <1>1, <2>3, <3>2, <3>3, PastIs
    <3>5. m \in Headings(raw)
      BY <2>5, <3>1, <3>4 DEF Headings
    <3>6. p <= m /\ m <= j
      BY <2>1, <3>2, <3>4, <3>5 DEF Past
    <3> QED BY <2>1, <3>2, <3>6
  <2>9. q \in RuleLines(lines)
    BY <1>1, <1>3, <2>4, <2>7
  <2> HIDE DEF q
  <2> QED BY <1>4, <2>4, <2>8, <2>9
<1>5. CASE Headings(raw) = {}
  <2> DEFINE added == Added(raw)
             text == One(RuleText(r))
             front == raw \o added
             n == Len(lines)
  <2>1. lines = front \o text
    BY <1>5, InsertedIs
  <2>2. added \in Seq(Line) /\ Len(added) \in 1..2 /\ added[Len(added)] = Section("rule")
    BY AddedIs
  <2>3. text \in Seq(Line) /\ Len(text) = 1 /\ text[1] = RuleText(r)
    BY <1>1, OneIs
  <2>4. Len(added) = 2 => added[1] = Blank
    BY DEF Added
  <2> HIDE DEF added, text
  <2>5. /\ front \in Seq(Line) /\ Len(front) = Len(raw) + Len(added)
        /\ \A i \in 1..(Len(raw) + Len(added)) :
             front[i] = IF i <= Len(raw) THEN raw[i] ELSE added[i - Len(raw)]
    BY <2>2, ConcatProperties
  <2> HIDE DEF front
  <2>6. /\ lines \in Seq(Line) /\ Len(lines) = Len(front) + Len(text)
        /\ \A i \in 1..(Len(front) + Len(text)) :
             lines[i] = IF i <= Len(front) THEN front[i] ELSE text[i - Len(front)]
    <3>1. /\ front \o text \in Seq(Line) /\ Len(front \o text) = Len(front) + Len(text)
          /\ \A i \in 1..(Len(front) + Len(text)) :
               (front \o text)[i] = IF i <= Len(front) THEN front[i] ELSE text[i - Len(front)]
      <4>1. front \in Seq(Line) /\ text \in Seq(Line)
        BY <2>3, <2>5
      <4> QED BY <4>1, ConcatProperties
    <3> QED BY <2>1, <3>1
  <2> HIDE DEF n
  <2>7. n = Len(lines) /\ n \in Nat /\ n = Len(raw) + Len(added) + 1 /\ Len(front) = n - 1
    BY <1>1, <2>2, <2>3, <2>5, <2>6 DEF n
  <2>8. lines[n] = RuleText(r)
    <3>1. n \in 1..(Len(front) + Len(text)) /\ ~(n <= Len(front)) /\ n - Len(front) = 1
      BY <1>1, <2>2, <2>3, <2>7
    <3> QED BY <2>3, <2>6, <3>1
  <2>9. lines[n - 1] = Section("rule") /\ n - 1 \in 1..n
    <3> DEFINE m == n - 1
    <3>1. /\ m \in Nat /\ m >= 1 /\ m <= n /\ m = Len(front) /\ m = Len(raw) + Len(added)
          /\ Len(added) \in Nat /\ Len(added) >= 1
      <4>1. Len(added) \in Nat /\ Len(added) >= 1
        <5> DEFINE l == Len(added)
        <5>1. l \in 1..2
          BY <2>2
        <5> HIDE DEF l
        <5>2. l \in Nat /\ l >= 1
          BY <5>1
        <5> QED BY <5>2 DEF l
      <4>2. n \in Nat /\ n = Len(raw) + Len(added) + 1 /\ Len(front) = n - 1 /\ Len(raw) \in Nat
        BY <1>1, <2>7
      <4>3. n - 1 \in Nat /\ n - 1 = Len(raw) + Len(added)
        BY <4>1, <4>2
      <4>4. m \in Nat /\ m = Len(raw) + Len(added) /\ m = Len(front) /\ n = m + 1
        BY <4>2, <4>3
      <4> HIDE DEF m
      <4> QED BY <4>1, <4>2, <4>4
    <3> HIDE DEF m
    <3>2. /\ m \in 1..(Len(front) + Len(text)) /\ m <= Len(front)
          /\ m \in 1..(Len(raw) + Len(added)) /\ ~(m <= Len(raw))
          /\ m - Len(raw) = Len(added)
      BY <1>1, <2>3, <3>1
    <3>3. lines[m] = Section("rule")
      BY <2>2, <2>5, <2>6, <3>2
    <3>4. m \in 1..n
      BY <2>7, <3>1
    <3> QED BY <3>3, <3>4 DEF m
  <2>10. ASSUME NEW j \in 1..n, j < n - 1 PROVE lines[j] # Section("rule")
    <3>1. lines[j] = front[j] /\ j \in 1..(Len(raw) + Len(added))
      BY <1>1, <2>2, <2>3, <2>6, <2>7, <2>10
    <3>2. CASE j <= Len(raw)
      <4>1. j \in DOMAIN raw /\ lines[j] = raw[j]
        BY <1>1, <2>5, <3>1, <3>2
      <4> QED BY <1>5, <4>1 DEF Headings
    <3>3. CASE ~(j <= Len(raw))
      <4>1. j - Len(raw) = 1 /\ Len(added) = 2
        BY <1>1, <2>2, <2>7, <2>10, <3>3
      <4>2. lines[j] = Blank
        BY <2>4, <2>5, <3>1, <3>3, <4>1
      <4> QED BY <1>2, <4>2 DEF Blank
    <3> QED BY <3>2, <3>3
  <2>11. n \in RuleLines(lines)
    <3>1. \A k \in ((n - 1) + 1)..n : k = n
      BY <2>7
    <3>2. n \in Under(lines)
      <4>1. n - 1 \in 1..(n - 1) /\ n \in 1..Len(lines)
        BY <2>7, <2>9
      <4>2. \A k \in ((n - 1) + 1)..n : lines[k].at # "section"
        BY <1>2, <2>8, <3>1
      <4> QED BY <2>9, <4>1, <4>2 DEF Under
    <3> QED BY <1>1, <1>3, <2>8, <3>2
  <2>12. ASSUME NEW i \in RuleLines(lines) PROVE n <= i
    <3>1. PICK j \in 1..(i - 1) : lines[j] = Section("rule")
      BY <1>3, <2>12 DEF Under
    <3>2. i \in 1..n /\ j \in 1..n /\ j < i
      BY <1>3, <2>7
    <3>3. ~(j < n - 1)
      BY <2>10, <3>1, <3>2
    <3> QED BY <2>7, <3>2, <3>3
  <2>13. RuleLines(raw) = {}
    <3>1. \A i \in 1..Len(raw) : \A j \in 1..(i - 1) : j \in DOMAIN raw
      BY <1>1
    <3>2. Under(raw) = {}
      BY <1>5, <3>1 DEF Under, Headings
    <3> QED BY <3>2, RuleLinesUnder
  <2> QED BY <1>5, <2>7, <2>8, <2>11, <2>12, <2>13
<1> QED BY <1>4, <1>5

\* It decides the packets it is for.
LEMMA InsertedWins ==
  ASSUME NEW r \in RuleInputs, raw \in Seq(Line), raw' = Inserted(r),
         NEW have \in SUBSET DOMAIN SetRules, NEW active \in BOOLEAN,
         NEW packet \in Packets, For(r, packet, have)
  PROVE  Routed(Route(raw', have, active), packet) = Outcome(raw', r.policy, active)
<1> DEFINE lines == Inserted(r)
           hits == Hits(lines, packet, have)
           finals == {i \in RuleLines(lines) : lines[i].at = "final"}
<1>1. /\ lines \in Seq(Line) /\ RuleLines(lines) \subseteq 1..Len(lines) /\ Len(lines) \in Nat
  BY InsertedType, RuleLinesAre
<1>2. PICK q \in RuleLines(lines) :
           lines[q] = RuleText(r) /\ \A i \in RuleLines(lines) : q <= i
  BY InsertedWhere
<1>3. /\ ~Skipped(lines, packet)
      /\ r.type = "FINAL" => hits = {}
      /\ r.type # "FINAL" => [type |-> r.type, arg |-> r.arg] \in packet
  BY DEF For
<1>4. Routed(Route(lines, have, active), packet) =
        Outcome(lines, IF hits = {} THEN FinalPolicy(lines) ELSE Upper[lines[Smallest(hits)].policy], active)
  BY <1>1, <1>3, RoutesAsSaid DEF Said
<1> HIDE DEF lines
<1>5. \A T : T \subseteq RuleLines(lines) /\ q \in T => Smallest(T) = q
  <2> SUFFICES ASSUME NEW T, T \subseteq RuleLines(lines), q \in T PROVE Smallest(T) = q
    OBVIOUS
  <2>1. T \subseteq Nat /\ T # {} /\ q \in Nat
    BY <1>1
  <2>2. Smallest(T) \in T /\ Smallest(T) <= q
    BY <2>1, SmallestIs
  <2>3. q <= Smallest(T) /\ Smallest(T) \in Nat
    BY <1>2, <2>1, <2>2
  <2> QED BY <2>1, <2>2, <2>3
<1>6. lines[q].policy = r.policy /\ Upper[r.policy] = r.policy
  BY <1>2, TextIs
<1>7. CASE r.type = "FINAL"
  <2>1. q \in finals /\ finals \subseteq RuleLines(lines)
    BY <1>2, <1>7, TextIs
  <2>2. Smallest(finals) = q /\ finals # {}
    <3> HIDE DEF finals
    <3> QED BY <1>5, <2>1
  <2>3. FinalPolicy(lines) = r.policy
    BY <1>6, <2>2 DEF FinalPolicy
  <2> HIDE DEF hits
  <2> QED BY <1>3, <1>4, <1>7, <2>3 DEF lines
<1>8. CASE r.type # "FINAL"
  <2>1. lines[q].at = "rule" /\ lines[q].cond \in packet \ Bad
    BY <1>2, <1>3, <1>8, TextIs
  <2>2. q \in hits /\ hits \subseteq RuleLines(lines)
    BY <2>1 DEF Hits, Meets
  <2>3. Smallest(hits) = q /\ hits # {}
    <3> HIDE DEF hits
    <3> QED BY <1>5, <2>2
  <2> HIDE DEF hits
  <2> QED BY <1>4, <1>6, <2>3 DEF lines
<1> QED BY <1>7, <1>8

\* A rule added with the editor decides every packet it is for, whatever file,
\* headings, rules and FINAL it comes to.
THEOREM NewRuleWins == Spec => AddedWins
<1>1. TypeOK /\ [Next]_raw =>
        [\A r \in RuleInputs : AddRule(r) =>
          \A have \in SUBSET DOMAIN SetRules, active \in BOOLEAN :
            LET route == Route(raw', have, active)
            IN  \A packet \in {p \in Packets : For(r, p, have)} :
                  Routed(route, packet) = Outcome(raw', r.policy, active)]_raw
  <2> SUFFICES ASSUME TypeOK, NEW r \in RuleInputs, AddRule(r),
                      NEW have \in SUBSET DOMAIN SetRules, NEW active \in BOOLEAN,
                      NEW packet \in Packets, For(r, packet, have)
               PROVE  Routed(Route(raw', have, active), packet) = Outcome(raw', r.policy, active)
    OBVIOUS
  <2> QED BY InsertedWins DEF AddRule, TypeOK
<1> QED BY <1>1, TypeCorrect, PTL DEF Spec, AddedWins

-----------------------------------------------------------------------------
(* What an edit leaves alone *)

LEMMA RulesPicks ==
  ASSUME NEW lines \in Seq(Line)
  PROVE  /\ Rules(lines) \in Seq(Line) /\ Picks(Rules(lines), lines, RuleLines(lines))
         /\ Others(lines) \in Seq(Line)
         /\ Picks(Others(lines), lines, (1..Len(lines)) \ RuleLines(lines))
<1> DEFINE I == RuleLines(lines)
           O == (1..Len(lines)) \ I
<1>1. DOMAIN lines = 1..Len(lines) /\ I \in SUBSET DOMAIN lines /\ O \in SUBSET DOMAIN lines
  BY RuleLinesAre
<1>2. Rules(lines) = Picked(lines, I) /\ Others(lines) = Picked(lines, O)
  BY <1>1 DEF Rules, Others
<1> HIDE DEF I, O
<1>3. /\ Picked(lines, I) \in Seq(Line) /\ Picks(Picked(lines, I), lines, I)
      /\ Picked(lines, O) \in Seq(Line) /\ Picks(Picked(lines, O), lines, O)
  BY <1>1, PickedPicks
<1> QED BY <1>2, <1>3 DEF I, O

\* Rules in the places of rules: the same places hold rules.
LEMMA RulesInPlace ==
  ASSUME NEW lines \in Seq(Line), NEW other \in Seq(Line), Len(other) = Len(lines),
         \A i \in 1..Len(lines) :
           other[i] = lines[i] \/ (i \in RuleLines(lines) /\ other[i].at \in Kinds)
  PROVE  /\ Others(other) = Others(lines)
         /\ Len(Rules(other)) = Len(Rules(lines))
         /\ \E e : /\ Enumerates(e, Len(Rules(lines)), RuleLines(lines))
                  /\ \A k \in 1..Len(Rules(lines)) :
                       Rules(lines)[k] = lines[e[k]] /\ Rules(other)[k] = other[e[k]]
<1> DEFINE n == Len(lines)
           I == RuleLines(lines)
           O == (1..n) \ I
<1>1. /\ n \in Nat /\ n = Len(other) /\ I \subseteq 1..n
      /\ \A i \in I : lines[i].at \in Kinds
  BY RuleLinesAre DEF Kinds
<1>2. \A i \in 1..n : other[i] = lines[i] \/ (i \in I /\ other[i].at \in Kinds)
  OBVIOUS
<1>3. I = {i \in Under(lines) : lines[i].at \in Kinds}
      /\ RuleLines(other) = {i \in Under(other) : other[i].at \in Kinds}
  BY RuleLinesUnder
<1> HIDE DEF n, I
<1>4. Section("rule").at = "section" /\ "section" \notin Kinds
  BY DEF Section, Kinds
<1>5. \A i \in 1..n : /\ other[i].at = "section" <=> lines[i].at = "section"
                      /\ other[i] = Section("rule") <=> lines[i] = Section("rule")
                      /\ other[i].at \in Kinds <=> lines[i].at \in Kinds
  BY <1>1, <1>2, <1>4
<1>6. Under(other) = Under(lines)
  <2>1. \A i \in 1..n : \A j \in 1..(i - 1) : j \in 1..n /\ \A k \in (j + 1)..i : k \in 1..n
    BY <1>1
  <2>2. /\ Under(other) = {i \in 1..n : \E j \in 1..(i - 1) : other[j] = Section("rule") /\
                              \A k \in (j + 1)..i : other[k].at # "section"}
        /\ Under(lines) = {i \in 1..n : \E j \in 1..(i - 1) : lines[j] = Section("rule") /\
                              \A k \in (j + 1)..i : lines[k].at # "section"}
    BY <1>1 DEF Under, n
  <2>3. ASSUME NEW i \in 1..n PROVE i \in Under(other) <=> i \in Under(lines)
    <3>1. ASSUME NEW j \in 1..(i - 1)
          PROVE  (other[j] = Section("rule") /\ \A k \in (j + 1)..i : other[k].at # "section")
                   <=> (lines[j] = Section("rule") /\ \A k \in (j + 1)..i : lines[k].at # "section")
      BY <1>5, <2>1
    <3> QED BY <2>2, <3>1
  <2> QED BY <2>2, <2>3
<1>7. RuleLines(other) = I
  <2>1. Under(lines) \subseteq 1..n
    BY DEF Under, n
  <2> QED BY <1>3, <1>5, <1>6, <2>1
<1>8. /\ Rules(lines) \in Seq(Line) /\ Picks(Rules(lines), lines, I)
      /\ Others(lines) \in Seq(Line) /\ Picks(Others(lines), lines, O)
  BY RulesPicks DEF I, n
<1>9. /\ Rules(other) \in Seq(Line) /\ Picks(Rules(other), other, I)
      /\ Others(other) \in Seq(Line) /\ Picks(Others(other), other, O)
  <2>1. (1..Len(other)) \ RuleLines(other) = O
    BY <1>1, <1>7
  <2> HIDE DEF O
  <2> QED BY <1>7, <2>1, RulesPicks
<1>10. I \subseteq Int /\ O \subseteq Int /\ \A i \in O : other[i] = lines[i]
  BY <1>1, <1>2
<1> HIDE DEF O
<1>11. Others(other) = Others(lines)
  <2>1. Picks(Others(lines), other, O)
    BY <1>8, <1>10, PicksSame
  <2> QED BY <1>8, <1>9, <1>10, <2>1, PicksUnique
<1>12. PICK e : /\ Enumerates(e, Len(Rules(lines)), I)
                /\ \A k \in 1..Len(Rules(lines)) : Rules(lines)[k] = lines[e[k]]
  BY <1>8 DEF Picks
<1>13. PICK d : /\ Enumerates(d, Len(Rules(other)), I)
                /\ \A k \in 1..Len(Rules(other)) : Rules(other)[k] = other[d[k]]
  BY <1>9 DEF Picks
<1>14. Len(Rules(other)) = Len(Rules(lines)) /\ d = e
  BY <1>10, <1>12, <1>13, EnumerationUnique
<1> QED BY <1>11, <1>12, <1>13, <1>14 DEF I

\* t is s with another value at one place.
Renewed(s, t) ==
  \E i \in DOMAIN s \cap DOMAIN t : t[i] # s[i] /\ t = [s EXCEPT ![i] = t[i]]

\* The text of a rule is replaced.
LEMMA UpdatedIs ==
  ASSUME raw \in Seq(Line), NEW line \in RuleLines(raw), NEW r \in RuleInputs,
         NEW lines, lines = [raw EXCEPT ![line] = RuleText(r)]
  PROVE  /\ Others(lines) = Others(raw)
         /\ lines # raw => Renewed(Rules(raw), Rules(lines))
<1>1. RuleText(r) \in Line /\ RuleText(r).at \in Kinds
  BY TextIs DEF Kinds
<1>2. line \in 1..Len(raw)
  BY RuleLinesAre
<1>3. /\ lines \in Seq(Line) /\ Len(lines) = Len(raw)
      /\ \A i \in 1..Len(raw) : lines[i] = IF i = line THEN RuleText(r) ELSE raw[i]
  BY <1>1, <1>2, ExceptSeq
<1>4. \A i \in 1..Len(raw) : lines[i] = raw[i] \/ (i \in RuleLines(raw) /\ lines[i].at \in Kinds)
  BY <1>1, <1>3
<1> DEFINE old == Rules(raw)
           new == Rules(lines)
<1>5. Others(lines) = Others(raw) /\ Len(new) = Len(old)
  BY <1>3, <1>4, RulesInPlace
<1>6. PICK e : /\ Enumerates(e, Len(old), RuleLines(raw))
               /\ \A k \in 1..Len(old) : old[k] = raw[e[k]] /\ new[k] = lines[e[k]]
  BY <1>3, <1>4, RulesInPlace
<1>7. old \in Seq(Line) /\ new \in Seq(Line)
  BY <1>3, RulesPicks
<1>8. DOMAIN old = 1..Len(old) /\ DOMAIN new = 1..Len(new) /\ Len(old) \in Nat
  BY <1>7
<1> HIDE DEF old, new
<1>9. ASSUME lines # raw
      PROVE  Renewed(old, new)
  <2>1. RuleText(r) # raw[line]
    <3> SUFFICES ASSUME RuleText(r) = raw[line] PROVE lines = raw
      BY <1>9
    <3>1. \A i \in 1..Len(lines) : lines[i] = raw[i]
      BY <1>3
    <3> QED BY <1>3, <3>1, SeqEqual
  <2>2. PICK k \in 1..Len(old) : e[k] = line
    BY <1>6 DEF Enumerates
  <2>3. new[k] # old[k] /\ new[k] \in Line
    BY <1>2, <1>3, <1>6, <1>1, <2>1, <2>2
  <2>4. ASSUME NEW i \in 1..Len(old), i # k PROVE new[i] = old[i]
    <3>1. e[i] \in RuleLines(raw) /\ (e[i] < e[k] \/ e[k] < e[i])
      BY <1>6, <1>8, <2>4 DEF Enumerates
    <3>2. e[i] \in 1..Len(raw) /\ e[i] # line
      BY <1>2, <2>2, <3>1, RuleLinesAre
    <3> QED BY <1>3, <1>6, <3>2
  <2> DEFINE put == [old EXCEPT ![k] = new[k]]
  <2>5. /\ put \in Seq(Line) /\ Len(put) = Len(old)
        /\ \A i \in 1..Len(old) : put[i] = IF i = k THEN new[k] ELSE old[i]
    BY <1>7, <2>3, ExceptSeq
  <2> HIDE DEF put
  <2>6. new = put
    <3>1. \A i \in 1..Len(new) : new[i] = put[i]
      BY <1>5, <2>4, <2>5 DEF old, new
    <3>2. Len(new) = Len(put)
      BY <1>5, <2>5 DEF old, new
    <3> QED BY <1>7, <2>5, <3>1, <3>2, SeqEqual
  <2>7. k \in DOMAIN old \cap DOMAIN new
    BY <1>5, <1>8 DEF old, new
  <2> QED BY <2>3, <2>6, <2>7 DEF put, Renewed
<1> QED BY <1>5, <1>9 DEF old, new

\* A rule changes places with the next one.
LEMMA MovedIs ==
  ASSUME raw \in Seq(Line), NEW lo \in RuleLines(raw), NEW hi \in RuleLines(raw), lo < hi,
         \A x \in RuleLines(raw) : x <= lo \/ hi <= x,
         NEW lines \in Seq(Line), Len(lines) = Len(raw),
         \A k \in 1..Len(raw) :
           lines[k] = IF k = lo THEN raw[hi] ELSE IF k = hi THEN raw[lo] ELSE raw[k]
  PROVE  /\ Others(lines) = Others(raw)
         /\ \E i \in 1..Len(Rules(raw)) - 1 :
              Rules(lines) = [Rules(raw) EXCEPT ![i] = Rules(raw)[i + 1], ![i + 1] = Rules(raw)[i]]
<1>1. /\ RuleLines(raw) \subseteq 1..Len(raw) /\ Len(raw) \in Nat
      /\ raw[lo].at \in Kinds /\ raw[hi].at \in Kinds
  BY RuleLinesAre DEF Kinds
<1>2. \A i \in 1..Len(raw) : lines[i] = raw[i] \/ (i \in RuleLines(raw) /\ lines[i].at \in Kinds)
  BY <1>1
<1> DEFINE old == Rules(raw)
           new == Rules(lines)
<1>3. Others(lines) = Others(raw) /\ Len(new) = Len(old)
  BY <1>2, RulesInPlace
<1>4. PICK e : /\ Enumerates(e, Len(old), RuleLines(raw))
               /\ \A k \in 1..Len(old) : old[k] = raw[e[k]] /\ new[k] = lines[e[k]]
  BY <1>2, RulesInPlace
<1>5. old \in Seq(Line) /\ new \in Seq(Line)
  BY RulesPicks
<1>6. Len(old) \in Nat
  BY <1>5
<1>7. /\ \A k \in 1..Len(old) : e[k] \in RuleLines(raw) /\ e[k] \in Int
      /\ \A i, k \in 1..Len(old) : i < k => e[i] < e[k]
      /\ \A i \in RuleLines(raw) : \E k \in 1..Len(old) : e[k] = i
  <2> DEFINE I == RuleLines(raw)
             n == Len(old)
  <2>1. Enumerates(e, n, I) /\ I \subseteq Int
    BY <1>1, <1>4
  <2> HIDE DEF I, n
  <2>2. /\ \A k \in 1..n : e[k] \in I /\ e[k] \in Int
        /\ \A i, k \in 1..n : i < k => e[i] < e[k]
        /\ \A i \in I : \E k \in 1..n : e[k] = i
    BY <2>1 DEF Enumerates
  <2> QED BY <2>2 DEF I, n
<1> HIDE DEF old, new
<1>8. PICK a \in 1..Len(old) : e[a] = lo
  BY <1>7
<1>9. PICK b \in 1..Len(old) : e[b] = hi
  BY <1>7
<1>10. b = a + 1
  <2>1. lo \in Int /\ hi \in Int
    BY <1>1
  <2>2. a < b
    <3> SUFFICES ASSUME b <= a PROVE FALSE
      BY <1>6
    <3>1. b = a \/ e[b] < e[a]
      BY <1>6, <1>7
    <3> QED BY <1>8, <1>9, <2>1, <3>1
  <2>3. ~(a + 1 < b)
    <3> SUFFICES ASSUME a + 1 < b PROVE FALSE
      OBVIOUS
    <3>1. a + 1 \in 1..Len(old) /\ a < a + 1
      BY <1>6
    <3>2. e[a] < e[a + 1] /\ e[a + 1] < e[b] /\ e[a + 1] \in RuleLines(raw) /\ e[a + 1] \in Int
      BY <1>7, <3>1
    <3>3. e[a + 1] <= lo \/ hi <= e[a + 1]
      BY <3>2
    <3> QED BY <1>8, <1>9, <2>1, <3>2, <3>3
  <2> QED BY <1>6, <2>2, <2>3
<1>11. old[a] = raw[lo] /\ old[b] = raw[hi] /\ new[a] = raw[hi] /\ new[b] = raw[lo]
  <2>1. lo \in 1..Len(raw) /\ hi \in 1..Len(raw) /\ lo # hi
    BY <1>1
  <2>2. lines[lo] = raw[hi] /\ lines[hi] = raw[lo]
    BY <2>1
  <2> QED BY <1>4, <1>8, <1>9, <2>2 DEF old, new
<1>12. ASSUME NEW k \in 1..Len(old), k # a, k # b PROVE new[k] = old[k]
  <2>1. (e[k] < e[a] \/ e[a] < e[k]) /\ (e[k] < e[b] \/ e[b] < e[k])
    BY <1>6, <1>7, <1>12
  <2>2. e[k] # lo /\ e[k] # hi /\ e[k] \in 1..Len(raw)
    BY <1>1, <1>7, <1>8, <1>9, <2>1
  <2>3. lines[e[k]] = raw[e[k]]
    BY <2>2
  <2> QED BY <1>4, <2>3 DEF old, new
<1> DEFINE put == [old EXCEPT ![a] = old[b], ![b] = old[a]]
<1>13. /\ put \in Seq(Line) /\ Len(put) = Len(old)
       /\ \A k \in 1..Len(old) : put[k] = IF k = b THEN old[a] ELSE IF k = a THEN old[b] ELSE old[k]
  BY <1>5, SwappedIs
<1> HIDE DEF put
<1>14. new = put
  <2>1. Len(new) = Len(put)
    BY <1>3, <1>13 DEF old, new
  <2>2. ASSUME NEW k \in 1..Len(new) PROVE new[k] = put[k]
    <3>1. k \in 1..Len(old)
      BY <1>13, <2>1
    <3> QED BY <1>10, <1>11, <1>12, <1>13, <3>1
  <2> QED BY <1>5, <1>13, <2>1, <2>2, SeqEqual
<1>15. a \in 1..Len(old) - 1 /\ new = [old EXCEPT ![a] = old[a + 1], ![a + 1] = old[a]]
  BY <1>6, <1>10, <1>14 DEF put
<1> QED BY <1>3, <1>15 DEF old, new

\* A rule taken out.
LEMMA DeletedIs ==
  ASSUME raw \in Seq(Line), NEW line \in RuleLines(raw), NEW lines, lines = RemoveAt(raw, line)
  PROVE  /\ Others(lines) = Others(raw)
         /\ \E i \in DOMAIN Rules(raw) : Rules(lines) = RemoveAt(Rules(raw), i)
<1>1. line \in 1..Len(raw)
  BY RuleLinesAre
<1>2. lines \in Seq(Line) /\ OneMore(raw, lines, line)
  BY <1>1, RemoveAtIs
<1>3. /\ Others(raw) = Others(lines) /\ Rules(raw) \in Seq(Line)
      /\ \E k \in 1..Len(Rules(raw)) : Rules(lines) = RemoveAt(Rules(raw), k)
  BY <1>2, OneRuleMore
<1>4. DOMAIN Rules(raw) = 1..Len(Rules(raw))
  BY <1>3
<1> QED BY <1>3, <1>4

LEMMA TailIs ==
  ASSUME NEW S, NEW t \in Seq(S), t # <<>>
  PROVE  Tail(t) = RemoveAt(t, 1)
<1>1. SubSeq(t, 1, 1 - 1) = <<>>
  BY SubSeqEmpty
<1>2. Tail(t) = SubSeq(t, 2, Len(t)) /\ Tail(t) \in Seq(S)
  BY TailIsSubSeq, HeadTailProperties
<1> DEFINE tail == Tail(t)
<1>3. RemoveAt(t, 1) = <<>> \o tail
  BY <1>1, <1>2 DEF RemoveAt
<1> HIDE DEF tail
<1>4. tail \in Seq(S)
  BY <1>2 DEF tail
<1>5. <<>> \o tail = tail
  BY <1>4, ConcatEmptySeq
<1> QED BY <1>3, <1>5 DEF tail

\* All of a list, as the beginning of another.
LEMMA PicksFront ==
  ASSUME NEW S, NEW t \in Seq(S), NEW list, \A k \in 1..Len(t) : list[k] = t[k]
  PROVE  Picks(t, list, 1..Len(t))
<1> DEFINE e == [k \in 1..Len(t) |-> k]
<1>1. Len(t) \in Nat
  OBVIOUS
<1>2. Enumerates(e, Len(t), 1..Len(t)) /\ \A k \in 1..Len(t) : t[k] = list[e[k]]
  BY <1>1 DEF Enumerates
<1> HIDE DEF e
<1> QED BY <1>2 DEF Picks

LEMMA AddedRuleIs ==
  ASSUME raw \in Seq(Line), NEW r \in RuleInputs, NEW lines, lines = Inserted(r)
  PROVE  /\ Others(lines) = Others(raw) \/ Others(lines) = Others(raw) \o Added(raw)
         /\ Rules(lines) # <<>> /\ Tail(Rules(lines)) = Rules(raw)
<1>1. lines \in Seq(Line)
  BY InsertedType
<1>2. PICK q \in RuleLines(lines) :
           /\ \A i \in RuleLines(lines) : q <= i
           /\ Headings(raw) # {} => OneMore(lines, raw, q)
           /\ Headings(raw) = {} => RuleLines(raw) = {} /\ q = Len(lines)
  BY InsertedWhere
<1>3. CASE Headings(raw) # {}
  <2>1. PICK k \in 1..Len(Rules(lines)) : Rules(raw) = RemoveAt(Rules(lines), k) /\ k = 1
    BY <1>1, <1>2, <1>3, OneRuleMore
  <2>2. Rules(lines) \in Seq(Line) /\ Others(lines) = Others(raw)
    BY <1>1, <1>2, <1>3, OneRuleMore
  <2>3. Rules(lines) # <<>>
    BY <2>1, <2>2
  <2>4. Tail(Rules(lines)) = RemoveAt(Rules(lines), 1)
    BY <2>2, <2>3, TailIs
  <2> QED BY <2>1, <2>2, <2>3, <2>4
<1>4. CASE Headings(raw) = {}
  <2> DEFINE front == raw \o Added(raw)
             text == One(RuleText(r))
             n == Len(lines)
  <2>1. lines = front \o text
    BY <1>4, InsertedIs
  <2>2. text \in Seq(Line) /\ Len(text) = 1
    BY TextIs, OneIs
  <2>3. front \in Seq(Line)
    BY AddedIs, ConcatProperties
  <2> HIDE DEF front, text, n
  <2>4. /\ Len(lines) = Len(front) + Len(text)
        /\ \A i \in 1..(Len(front) + Len(text)) :
             lines[i] = IF i <= Len(front) THEN front[i] ELSE text[i - Len(front)]
    <3>1. /\ Len(front \o text) = Len(front) + Len(text)
          /\ \A i \in 1..(Len(front) + Len(text)) :
               (front \o text)[i] = IF i <= Len(front) THEN front[i] ELSE text[i - Len(front)]
      <4>1. text \in Seq(Line)
        BY <2>2
      <4> QED BY <2>3, <4>1, ConcatProperties
    <3> QED BY <2>1, <3>1
  <2>5. /\ n \in Nat /\ Len(front) \in Nat /\ n = Len(front) + 1
        /\ \A i \in 1..Len(front) : lines[i] = front[i]
    BY <2>2, <2>3, <2>4 DEF n
  <2>6. RuleLines(lines) = {n}
    <3>1. RuleLines(lines) \subseteq 1..n /\ q = n
      BY <1>1, <1>2, <1>4, RuleLinesAre DEF n
    <3>2. \A i \in RuleLines(lines) : i = n
      BY <1>2, <2>5, <3>1
    <3> QED BY <1>2, <3>1, <3>2
  <2>7. Others(lines) = front
    <3>1. (1..n) \ {n} = 1..Len(front) /\ 1..Len(front) \subseteq Int
      BY <2>5
    <3>2. Picks(front, lines, 1..Len(front))
      BY <2>3, <2>5, PicksFront
    <3>3. Others(lines) \in Seq(Line) /\ Picks(Others(lines), lines, 1..Len(front))
      BY <1>1, <2>6, <3>1, RulesPicks DEF n
    <3> QED BY <2>3, <3>1, <3>2, <3>3, PicksUnique
  <2>8. Others(raw) = raw
    <3>1. (1..Len(raw)) \ RuleLines(raw) = 1..Len(raw) /\ 1..Len(raw) \subseteq Int
      BY <1>2, <1>4
    <3>2. Picks(raw, raw, 1..Len(raw))
      BY PicksFront
    <3>3. Others(raw) \in Seq(Line) /\ Picks(Others(raw), raw, 1..Len(raw))
      BY <3>1, RulesPicks
    <3> QED BY <3>1, <3>2, <3>3, PicksUnique
  <2>9. Rules(raw) = <<>>
    <3>1. Rules(raw) \in Seq(Line) /\ Picks(Rules(raw), raw, {})
      BY <1>2, <1>4, RulesPicks
    <3>2. PICK e : Enumerates(e, Len(Rules(raw)), {})
      BY <3>1 DEF Picks
    <3>3. Len(Rules(raw)) = 0
      <4>1. \A k \in 1..Len(Rules(raw)) : e[k] \in {}
        BY <3>2 DEF Enumerates
      <4>2. Len(Rules(raw)) \in Nat
        BY <3>1
      <4>3. Len(Rules(raw)) # 0 => 1 \in 1..Len(Rules(raw))
        BY <4>2
      <4> QED BY <4>1, <4>3
    <3> QED BY <3>1, <3>3
  <2>10. Rules(lines) # <<>> /\ Tail(Rules(lines)) = <<>>
    <3> DEFINE last == One(lines[n])
    <3>1. Picks(last, lines, {n})
      <4>1. n \in Int
        BY <2>5
      <4> QED BY <4>1, PicksOne, Zenon DEF One
    <3>2. Rules(lines) \in Seq(Line) /\ Picks(Rules(lines), lines, {n})
      BY <1>1, <2>6, RulesPicks
    <3>3. last \in Seq(Line) /\ Len(last) = 1 /\ {n} \subseteq Int
      <4>1. n \in 1..Len(lines)
        BY <2>5 DEF n
      <4>2. lines[n] \in Line
        BY <1>1, <4>1, ElementOfSeq
      <4>3. last \in Seq(Line) /\ Len(last) = 1
        BY <4>2, OneIs
      <4> QED BY <2>5, <4>3
    <3> HIDE DEF last
    <3>4. Rules(lines) = last
      BY <3>1, <3>2, <3>3, PicksUnique
    <3>5. last # <<>>
      <4>1. Len(last) # Len(<<>>)
        BY <3>3
      <4> QED BY <4>1
    <3>6. Tail(last) \in Seq(Line) /\ Len(Tail(last)) = 0
      BY <3>3, <3>5, HeadTailProperties
    <3>7. Tail(last) = <<>>
      <4>1. \A t \in Seq(Line) : Len(t) = 0 => t = <<>>
        BY EmptySeq
      <4> QED BY <3>6, <4>1
    <3> QED BY <3>4, <3>5, <3>7
  <2> QED BY <2>7, <2>8, <2>9, <2>10 DEF front
<1> QED BY <1>3, <1>4

\* What each action does, for the two theorems below.
LEMMA EditIs ==
  ASSUME TypeOK, Next, raw' # raw
  PROVE  /\ \E added \in {<<>>, <<Section("rule")>>, <<Blank, Section("rule")>>} :
              Others(raw') = Others(raw) \o added
         /\ LET old == Rules(raw)
                new == Rules(raw')
            IN  \/ new # <<>> /\ Tail(new) = old
                \/ \E i \in DOMAIN old : new = RemoveAt(old, i)
                \/ \E i \in DOMAIN old \cap DOMAIN new :
                     new[i] # old[i] /\ new = [old EXCEPT ![i] = new[i]]
                \/ \E i \in 1..Len(old) - 1 :
                     new = [old EXCEPT ![i] = old[i + 1], ![i + 1] = old[i]]
<1> DEFINE old == Rules(raw)
           new == Rules(raw')
           Added1 == \E added \in {<<>>, <<Section("rule")>>, <<Blank, Section("rule")>>} :
                       Others(raw') = Others(raw) \o added
           First == new # <<>> /\ Tail(new) = old
           Out == \E i \in DOMAIN old : new = RemoveAt(old, i)
           Replaced == \E i \in DOMAIN old \cap DOMAIN new :
                         new[i] # old[i] /\ new = [old EXCEPT ![i] = new[i]]
           Swapped == \E i \in 1..Len(old) - 1 :
                        new = [old EXCEPT ![i] = old[i + 1], ![i + 1] = old[i]]
<1>1. raw \in Seq(Line) /\ Others(raw) \in Seq(Line)
  BY RulesPicks DEF TypeOK
<1>2. Others(raw) \o <<>> = Others(raw)
  BY <1>1, ConcatEmptySeq
<1>3. Others(raw') = Others(raw) => Added1
  <2>1. <<>> \in {<<>>, <<Section("rule")>>, <<Blank, Section("rule")>>}
    OBVIOUS
  <2> QED BY <1>2, <2>1
<1>4. Others(raw') = Others(raw) \o Added(raw) => Added1
  <2>1. Added(raw) \in {<<>>, <<Section("rule")>>, <<Blank, Section("rule")>>}
    BY DEF Added
  <2> QED BY <2>1
<1> SUFFICES Added1 /\ (First \/ Out \/ Replaced \/ Swapped)
  OBVIOUS
<1> HIDE DEF Added1
<1>5. ASSUME NEW r \in RuleInputs, AddRule(r) PROVE Added1 /\ First
  <2>1. raw' = Inserted(r)
    BY <1>5 DEF AddRule
  <2>2. /\ Others(raw') = Others(raw) \/ Others(raw') = Others(raw) \o Added(raw)
        /\ Rules(raw') # <<>> /\ Tail(Rules(raw')) = Rules(raw)
    BY <1>1, <2>1, AddedRuleIs
  <2> QED BY <1>3, <1>4, <2>2
<1>6. ASSUME NEW line \in DOMAIN raw, NEW r \in RuleInputs, UpdateRule(line, r) PROVE Added1 /\ Replaced
  <2>1. line \in RuleLines(raw) /\ raw' = [raw EXCEPT ![line] = RuleText(r)]
    BY <1>6 DEF UpdateRule, RuleAt
  <2>2. Others(raw') = Others(raw) /\ Renewed(Rules(raw), Rules(raw'))
    BY <1>1, <2>1, UpdatedIs
  <2>3. Replaced
    BY <2>2 DEF Renewed
  <2> QED BY <1>3, <2>2, <2>3
<1>7. ASSUME NEW line \in DOMAIN raw, DeleteRule(line) PROVE Added1 /\ Out
  <2>1. line \in RuleLines(raw) /\ raw' = RemoveAt(raw, line)
    BY <1>7 DEF DeleteRule, RuleAt
  <2>2. Others(raw') = Others(raw) /\ \E i \in DOMAIN Rules(raw) : Rules(raw') = RemoveAt(Rules(raw), i)
    BY <1>1, <2>1, DeletedIs
  <2> QED BY <1>3, <2>2
<1>8. ASSUME NEW line \in DOMAIN raw, NEW up \in BOOLEAN, MoveRule(line, up) PROVE Added1 /\ Swapped
  <2>1. line \in RuleLines(raw)
    BY <1>8 DEF MoveRule, RuleAt
  <2>2. PICK j \in Neighbours(line, up) : raw' = [raw EXCEPT ![line] = raw[j], ![j] = raw[line]]
    BY <1>8 DEF MoveRule
  <2>3. /\ j \in RuleLines(raw)
        /\ up => j < line /\ \A x \in RuleLines(raw) : x < line => x <= j
        /\ ~up => line < j /\ \A x \in RuleLines(raw) : line < x => j <= x
    BY <1>1, <2>1, NeighbourIs
  <2>4. RuleLines(raw) \subseteq 1..Len(raw) /\ Len(raw) \in Nat
    BY <1>1, RuleLinesAre
  <2>5. /\ raw' \in Seq(Line) /\ Len(raw') = Len(raw)
        /\ \A k \in 1..Len(raw) :
             raw'[k] = IF k = j THEN raw[line] ELSE IF k = line THEN raw[j] ELSE raw[k]
    BY <1>1, <2>1, <2>2, <2>3, <2>4, SwappedIs
  <2> DEFINE lo == IF up THEN j ELSE line
             hi == IF up THEN line ELSE j
  <2>6. /\ lo \in RuleLines(raw) /\ hi \in RuleLines(raw) /\ lo < hi
        /\ \A x \in RuleLines(raw) : x <= lo \/ hi <= x
        /\ \A k \in 1..Len(raw) :
             raw'[k] = IF k = lo THEN raw[hi] ELSE IF k = hi THEN raw[lo] ELSE raw[k]
    <3>1. CASE up
      BY <2>1, <2>3, <2>4, <2>5, <3>1
    <3>2. CASE ~up
      BY <2>1, <2>3, <2>4, <2>5, <3>2
    <3> QED BY <3>1, <3>2
  <2> HIDE DEF lo, hi
  <2>7. /\ Others(raw') = Others(raw)
        /\ \E i \in 1..Len(Rules(raw)) - 1 :
             Rules(raw') = [Rules(raw) EXCEPT ![i] = Rules(raw)[i + 1], ![i + 1] = Rules(raw)[i]]
    BY <1>1, <2>5, <2>6, MovedIs
  <2> QED BY <1>3, <2>7
<1> HIDE DEF First, Out, Replaced, Swapped
<1> QED BY <1>5, <1>6, <1>7, <1>8 DEF Next

\* No edit of the rules, whatever line number a client sends, changes a line
\* that is no rule, or its place among those.
THEOREM OthersStay == Spec => OthersKept
<1>1. TypeOK /\ [Next]_raw =>
        [\E added \in {<<>>, <<Section("rule")>>, <<Blank, Section("rule")>>} :
          Others(raw') = Others(raw) \o added]_raw
  BY EditIs
<1> QED BY <1>1, TypeCorrect, PTL DEF Spec, OthersKept

\* An edit adds, takes out or replaces one rule, or swaps two neighbours: the
\* priority of the other rules never changes.
THEOREM OneRuleAtATime == Spec => OneRuleEdited
<1>1. TypeOK /\ [Next]_raw =>
        [LET old == Rules(raw)
             new == Rules(raw')
         IN  \/ new # <<>> /\ Tail(new) = old
             \/ \E i \in DOMAIN old : new = RemoveAt(old, i)
             \/ \E i \in DOMAIN old \cap DOMAIN new :
                  new[i] # old[i] /\ new = [old EXCEPT ![i] = new[i]]
             \/ \E i \in 1..Len(old) - 1 :
                  new = [old EXCEPT ![i] = old[i + 1], ![i + 1] = old[i]]]_raw
  BY EditIs
<1> QED BY <1>1, TypeCorrect, PTL DEF Spec, OneRuleEdited
=============================================================================
