--------------------------- MODULE SingboxProofs ----------------------------
(***************************************************************************)
(* Proofs about outbounds, groups and DNS servers, for any number of       *)
(* entries of each, and about fixed addresses, for any name.               *)
(*                                                                         *)
(* For the names the encoder of the code is run beside the decoder of the  *)
(* RFC: RoundInv says that at every round of the encoder the decoder,      *)
(* whatever it is given after what is written so far, has made of that the *)
(* code points below the one of the round, and stands where the next       *)
(* number has to count from.                                               *)
(***************************************************************************)
EXTENDS Hosts, SliceLemmas

-----------------------------------------------------------------------------
(* The types *)

LEMMA TypeInit == Init => TypeOK
<1>1. <<>> \in Seq(Specs) /\ <<>> \in Seq(Groups)
  OBVIOUS
<1> QED
  BY <1>1 DEF Init, TypeOK

LEMMA TypeNext ==
  ASSUME TypeOK, [Next]_vars
  PROVE  TypeOK'
<1> USE DEF TypeOK
<1>1. ASSUME NEW spec \in Specs, AddServer(spec) PROVE TypeOK'
  <2>1. specs' \in Seq(Specs)
    BY <1>1, AppendProperties DEF AddServer
  <2> QED
    BY <1>1, <2>1 DEF AddServer
<1>2. ASSUME NEW g \in Groups, AddGroup(g) PROVE TypeOK'
  <2>1. groups' \in Seq(Groups)
    BY <1>2, AppendProperties DEF AddGroup
  <2> QED
    BY <1>2, <2>1 DEF AddGroup
<1>3. ASSUME NEW name \in Names, NEW isIP \in BOOLEAN, AddHost(name, isIP) PROVE TypeOK'
  BY <1>3 DEF AddHost
<1>4. CASE SwitchIpv6
  BY <1>4 DEF SwitchIpv6
<1>5. ASSUME NEW n \in Nodes \cup {NoNode}, Select(n) PROVE TypeOK'
  BY <1>5 DEF Select
<1>6. CASE UNCHANGED vars
  BY <1>6 DEF vars
<1> QED
  BY <1>1, <1>2, <1>3, <1>4, <1>5, <1>6 DEF Next

\* Every variable has its type in every state of every behavior.
THEOREM TypeCorrect == Spec => []TypeOK
BY TypeInit, TypeNext, PTL DEF Spec

-----------------------------------------------------------------------------
(* Outbounds *)

\* How many outbounds there are before those of groups.
Heads == IF node = NoNode THEN 1 ELSE 2

\* The first outbounds are direct and the node, the others the groups.
LEMMA OutboundsAre ==
  ASSUME TypeOK
  PROVE  LET n == IF node = NoNode THEN 0 ELSE Len(groups)
         IN  /\ Heads + n \in Nat /\ n \in Nat
             /\ DOMAIN Outbounds = 1..(Heads + n)
             /\ Outbounds[1] = Outbound("direct", <<>>)
             /\ node # NoNode => Outbounds[2] = Outbound(ProxyTag, <<>>)
             /\ \A i \in 1..n :
                  Outbounds[Heads + i] = Outbound(GroupTag(groups[i].name), Members(groups[i]))
<1> DEFINE list == IF node = NoNode THEN <<>> ELSE groups
           n == IF node = NoNode THEN 0 ELSE Len(groups)
           first == Outbound("direct", <<>>)
           second == Outbound(ProxyTag, <<>>)
           others == [i \in DOMAIN list |-> Outbound(GroupTag(list[i].name), Members(list[i]))]
           O == {first, second} \cup {others[i] : i \in DOMAIN others}
           heads == IF node = NoNode THEN One(first) ELSE One(first) \o One(second)
<1>1. n \in Nat /\ DOMAIN list = 1..n
  BY DEF TypeOK
<1>2. others \in Seq(O) /\ Len(others) = n
  <2>1. DOMAIN others = 1..n /\ \A i \in 1..n : others[i] \in O
    BY <1>1
  <2>2. others = [i \in 1..n |-> others[i]]
    BY <1>1
  <2> HIDE DEF others, O, n, list
  <2> QED
    BY <1>1, <2>1, <2>2
<1>3. first \in O /\ second \in O
  OBVIOUS
<1>4. heads \in Seq(O) /\ Len(heads) = Heads /\ heads[1] = first
        /\ (node # NoNode => heads[2] = second)
  <2> HIDE DEF first, second, O
  <2>1. One(first) \in Seq(O) /\ Len(One(first)) = 1 /\ One(first)[1] = first
    BY <1>3, OneIs
  <2>2. One(second) \in Seq(O) /\ Len(One(second)) = 1 /\ One(second)[1] = second
    BY <1>3, OneIs
  <2>3. /\ One(first) \o One(second) \in Seq(O)
        /\ Len(One(first) \o One(second)) = 2
        /\ (One(first) \o One(second))[1] = first
        /\ (One(first) \o One(second))[2] = second
    BY <2>1, <2>2, ConcatProperties
  <2> QED
    BY <2>1, <2>3 DEF Heads
<1>5. Outbounds = heads \o others
  <2>1. CASE node = NoNode
    <3>1. Outbounds = (One(first) \o <<>>) \o others
      BY <2>1 DEF Outbounds, One
    <3>2. One(first) \in Seq(O)
      BY <1>3, OneIs
    <3>3. One(first) \o <<>> = One(first)
      <4> HIDE DEF first, O
      <4> QED
        BY <3>2, ConcatEmptySeq
    <3> QED
      BY <2>1, <3>1, <3>3
  <2>2. CASE node # NoNode
    BY <2>2 DEF Outbounds, One
  <2> QED
    BY <2>1, <2>2
<1>6. Heads \in Nat /\ Heads >= 1 /\ (node # NoNode => Heads = 2)
  BY DEF Heads
<1>7. \A i \in 1..n : others[i] = Outbound(GroupTag(groups[i].name), Members(groups[i]))
  BY <1>1
<1> HIDE DEF heads, others, O, first, second, n
<1>8. /\ Outbounds \in Seq(O) /\ Len(Outbounds) = Heads + n
      /\ \A i \in 1..Heads : Outbounds[i] = heads[i]
      /\ \A i \in 1..n : Outbounds[Heads + i] = others[i]
  <2>1. heads \in Seq(O) /\ others \in Seq(O)
    BY <1>2, <1>4
  <2>2. /\ heads \o others \in Seq(O)
        /\ Len(heads \o others) = Len(heads) + Len(others)
        /\ \A i \in 1..Len(heads) : (heads \o others)[i] = heads[i]
        /\ \A i \in 1..Len(others) : (heads \o others)[Len(heads) + i] = others[i]
    BY <2>1, ConcatAt
  <2> QED
    BY <1>2, <1>4, <1>5, <2>2
<1>9. DOMAIN Outbounds = 1..(Heads + n)
  BY <1>8
<1> QED
  BY <1>1, <1>4, <1>6, <1>7, <1>8, <1>9 DEF first, second, n

\* The tags of the file: those of direct, of the node and of the groups.
LEMMA TagsAre ==
  ASSUME TypeOK
  PROVE  /\ {"direct", ProxyTag} \subseteq Tags(Outbounds)
         /\ \A m \in GroupSet : GroupTag(m) \in Tags(Outbounds)
<1> DEFINE n == IF node = NoNode THEN 0 ELSE Len(groups)
<1>1. /\ Heads + n \in Nat /\ n \in Nat
      /\ DOMAIN Outbounds = 1..(Heads + n)
      /\ Outbounds[1] = Outbound("direct", <<>>)
      /\ node # NoNode => Outbounds[2] = Outbound(ProxyTag, <<>>)
      /\ \A i \in 1..n :
           Outbounds[Heads + i] = Outbound(GroupTag(groups[i].name), Members(groups[i]))
  BY OutboundsAre
<1>2. \A j \in 1..(Heads + n) : Outbounds[j].tag \in Tags(Outbounds)
  BY <1>1 DEF Tags
<1>3. Heads \in Nat /\ Heads >= 1 /\ (node # NoNode => Heads = 2)
  BY DEF Heads
<1>4. "direct" \in Tags(Outbounds)
  BY <1>1, <1>2, <1>3 DEF Outbound
<1>5. ProxyTag \in Tags(Outbounds)
  <2>1. CASE node = NoNode
    BY <1>4, <2>1 DEF ProxyTag
  <2>2. CASE node # NoNode
    <3>1. 2 \in 1..(Heads + n) /\ Outbounds[2].tag = ProxyTag
      BY <1>1, <1>3, <2>2 DEF Outbound
    <3> QED
      BY <1>2, <3>1
  <2> QED
    BY <2>1, <2>2
<1>6. ASSUME NEW m \in GroupSet PROVE GroupTag(m) \in Tags(Outbounds)
  <2>1. node # NoNode
    BY DEF GroupSet
  <2>2. PICK i \in DOMAIN groups : groups[i].name = m
    BY <2>1 DEF GroupSet
  <2>3. i \in 1..n
    BY <2>1, <2>2 DEF TypeOK
  <2>4. Outbounds[Heads + i].tag = GroupTag(m)
    <3>1. Outbounds[Heads + i] = Outbound(GroupTag(groups[i].name), Members(groups[i]))
      BY <1>1, <2>3
    <3> QED
      BY <2>2, <3>1 DEF Outbound
  <2>5. Heads + i \in 1..(Heads + n)
    <3> HIDE DEF n
    <3> QED
      BY <1>1, <1>3, <2>3
  <2> QED
    BY <1>2, <2>4, <2>5
<1> QED
  BY <1>4, <1>5, <1>6

\* What a group chooses from is what its known members stand for, and never
\* nothing.
LEMMA MembersAre ==
  ASSUME TypeOK, NEW g \in Groups
  PROVE  LET known == {"DIRECT", "PROXY"} \cup GroupSet
         IN  /\ Members(g) # <<>>
             /\ \A t \in Range(Members(g)) :
                  \/ \E m \in Range(g.members) \cap known : t = MemberTag(m)
                  \/ t = ProxyTag /\ Range(g.members) \cap known = {}
             /\ \A m \in Range(g.members) \cap known : MemberTag(m) \in Range(Members(g))
<1> DEFINE known == {"DIRECT", "PROXY"} \cup GroupSet
           places == {i \in DOMAIN g.members : g.members[i] \in known}
           list == Picked(g.members, places)
           tags == [i \in DOMAIN list |-> MemberTag(list[i])]
<1>1. g.members \in Seq(STRING)
  BY GroupsAssumption
<1>2. list \in Seq(STRING) /\ Picks(list, g.members, places)
  <2>1. places \in SUBSET DOMAIN g.members
    OBVIOUS
  <2> HIDE DEF places
  <2> QED
    BY <1>1, <2>1, PickedPicks
<1>3. Members(g) = IF list = <<>> THEN <<ProxyTag>> ELSE tags
  BY DEF Members
<1> HIDE DEF list
<1>4. PICK e : Enumerates(e, Len(list), places) /\ \A k \in 1..Len(list) : list[k] = g.members[e[k]]
  BY <1>2 DEF Picks
<1>5. DOMAIN list = 1..Len(list) /\ Len(list) \in Nat
  BY <1>2
<1>6. \A k \in DOMAIN list : list[k] \in Range(g.members) \cap known
  BY <1>4, <1>5 DEF Enumerates, Range
<1>7. \A m \in Range(g.members) \cap known : \E k \in DOMAIN list : list[k] = m
  <2> TAKE m \in Range(g.members) \cap known
  <2>1. PICK i \in DOMAIN g.members : g.members[i] = m
    BY DEF Range
  <2>2. i \in places
    BY <2>1
  <2>3. PICK k \in 1..Len(list) : e[k] = i
    BY <1>4, <2>2 DEF Enumerates
  <2> QED
    BY <1>4, <1>5, <2>1, <2>3
<1> HIDE DEF places, known
<1>8. CASE list = <<>>
  <2>1. Members(g) = <<ProxyTag>>
    BY <1>3, <1>8
  <2>2. Members(g) # <<>> /\ Range(Members(g)) = {ProxyTag}
    BY <2>1 DEF Range
  <2>3. Range(g.members) \cap known = {}
    BY <1>7, <1>8
  <2> QED
    BY <2>2, <2>3 DEF known
<1>9. CASE list # <<>>
  <2>1. Members(g) = tags
    BY <1>3, <1>9
  <2>2. DOMAIN tags = DOMAIN list /\ \A k \in DOMAIN list : tags[k] = MemberTag(list[k])
    OBVIOUS
  <2>3. 1 \in DOMAIN list
    BY <1>2, <1>5, <1>9, EmptySeq
  <2>4. tags # <<>>
    BY <2>2, <2>3
  <2>5. \A t \in Range(tags) : \E k \in DOMAIN list : t = MemberTag(list[k])
    BY <2>2 DEF Range
  <2>6. \A k \in DOMAIN list : MemberTag(list[k]) \in Range(tags)
    BY <2>2 DEF Range
  <2> HIDE DEF tags
  <2> QED
    BY <1>6, <1>7, <2>1, <2>4, <2>5, <2>6 DEF known
<1> QED
  BY <1>8, <1>9

LEMMA OutboundsThereHolds ==
  ASSUME TypeOK
  PROVE  OutboundsThere
<1>1. /\ {"direct", ProxyTag} \subseteq Tags(Outbounds)
      /\ \A m \in GroupSet : GroupTag(m) \in Tags(Outbounds)
  BY TagsAre
<1>2. \A p \in Policies : PolicyTag(p) \in Tags(Outbounds)
  BY <1>1 DEF PolicyTag
<1>3. \A m \in {"DIRECT", "PROXY"} \cup GroupSet : MemberTag(m) \in Tags(Outbounds)
  BY <1>1 DEF MemberTag
<1>4. ASSUME NEW g \in Groups
      PROVE  Members(g) # <<>> /\ Range(Members(g)) \subseteq Tags(Outbounds)
  <2>1. /\ Members(g) # <<>>
        /\ \A t \in Range(Members(g)) :
             t = ProxyTag \/ \E m \in {"DIRECT", "PROXY"} \cup GroupSet : t = MemberTag(m)
    BY MembersAre
  <2> QED
    BY <1>1, <1>3, <2>1
<1> DEFINE n == IF node = NoNode THEN 0 ELSE Len(groups)
<1>5. /\ Heads + n \in Nat /\ n \in Nat
      /\ DOMAIN Outbounds = 1..(Heads + n)
      /\ Outbounds[1] = Outbound("direct", <<>>)
      /\ node # NoNode => Outbounds[2] = Outbound(ProxyTag, <<>>)
      /\ \A i \in 1..n :
           Outbounds[Heads + i] = Outbound(GroupTag(groups[i].name), Members(groups[i]))
  BY OutboundsAre
<1>6. \A i \in 1..n : groups[i] \in Groups
  BY DEF TypeOK
<1>7. ProxyTag \in {"direct", "proxy", "awg"}
  BY DEF ProxyTag
<1> HIDE DEF n
<1>8. ASSUME NEW j \in DOMAIN Outbounds
      PROVE  /\ Range(Outbounds[j].members) \subseteq Tags(Outbounds)
             /\ Outbounds[j].tag \notin {"direct", "proxy", "awg"} => Outbounds[j].members # <<>>
  <2>1. CASE j <= Heads
    <3>1. Outbounds[j].members = <<>> /\ Outbounds[j].tag \in {"direct", "proxy", "awg"}
      BY <1>5, <1>7, <2>1 DEF Heads, Outbound
    <3>2. Range(<<>>) = {}
      BY DEF Range
    <3> QED
      BY <3>1, <3>2
  <2>2. CASE ~(j <= Heads)
    <3>1. Heads \in Nat
      BY DEF Heads
    <3>2. j - Heads \in 1..n /\ Heads + (j - Heads) = j
      BY <1>5, <2>2, <3>1
    <3> DEFINE i == j - Heads
    <3>3. Outbounds[j] = Outbound(GroupTag(groups[i].name), Members(groups[i]))
      <4>1. i \in 1..n /\ Heads + i = j
        BY <3>2
      <4> HIDE DEF i
      <4> QED
        BY <1>5, <4>1
    <3>4. Outbounds[j].members = Members(groups[i]) /\ groups[i] \in Groups
      BY <1>6, <3>2, <3>3 DEF Outbound
    <3> QED
      BY <1>4, <3>4
  <2> QED
    BY <2>1, <2>2 DEF Heads
<1> QED
  BY <1>2, <1>8 DEF OutboundsThere

\* Rules and groups lead to outbounds of the file only, whatever groups it
\* has and whatever node is selected.
THEOREM NothingDangles == Spec => []OutboundsThere
<1>1. TypeOK => OutboundsThere
  BY OutboundsThereHolds
<1> QED
  BY <1>1, TypeCorrect, PTL

-----------------------------------------------------------------------------
(* Groups *)

\* A known name means the same on the line of a rule and on that of a group.
LEMMA NamesAgree ==
  ASSUME NEW m \in {"DIRECT", "PROXY"} \cup GroupSet
  PROVE  PolicyTag(m) = MemberTag(m)
BY DEF PolicyTag, MemberTag

LEMMA GroupsMeantHolds ==
  ASSUME TypeOK
  PROVE  GroupsMeant
<1> SUFFICES ASSUME NEW i \in DOMAIN groups,
                    node # NoNode,
                    groups[i].name \in Policies \ {"DIRECT", "PROXY"},
                    Cardinality({j \in DOMAIN groups : Safe[groups[j].name] = Safe[groups[i].name]}) = 1
             PROVE  LET g == groups[i]
                        named == {j \in DOMAIN Outbounds : Outbounds[j].tag = PolicyTag(g.name)}
                    IN  /\ Cardinality(named) = 1
                        /\ \A j \in named :
                             /\ \A m \in Range(g.members) \cap Policies \cap (GroupSet \cup {"DIRECT", "PROXY"}) :
                                  PolicyTag(m) \in Range(Outbounds[j].members)
                             /\ \A t \in Range(Outbounds[j].members) :
                                  \E m \in Range(g.members) : t = PolicyTag(m)
  BY DEF GroupsMeant
<1> DEFINE g == groups[i]
           twins == {j \in DOMAIN groups : Safe[groups[j].name] = Safe[g.name]}
           named == {j \in DOMAIN Outbounds : Outbounds[j].tag = PolicyTag(g.name)}
           n == Len(groups)
<1>1. n \in Nat /\ DOMAIN groups = 1..n /\ i \in 1..n /\ g \in Groups
  BY DEF TypeOK
<1>2. \A k \in 1..n : Safe[groups[k].name] \notin {"direct", "proxy", "awg"}
  <2> TAKE k \in 1..n
  <2>1. groups[k] \in Groups
    BY DEF TypeOK
  <2> QED
    BY <2>1, GroupsAssumption, SafeAssumption
<1>3. \A k \in 1..n : Safe[groups[k].name] = Safe[g.name] => k = i
  <2>1. IsFiniteSet(twins)
    <3>1. IsFiniteSet(1..n) /\ twins \subseteq 1..n
      BY <1>1, FS_Interval
    <3> HIDE DEF twins, n
    <3> QED
      BY <3>1, FS_Subset
  <2>2. Cardinality(twins) = 1 /\ i \in twins
    OBVIOUS
  <2>3. \E x : twins = {x}
    <3> HIDE DEF twins
    <3> QED
      BY <2>1, <2>2, FS_Singleton
  <2>4. twins = {i}
    <3> HIDE DEF twins
    <3> QED
      BY <2>2, <2>3
  <2> QED
    BY <1>1, <2>4
<1>4. g.name \in GroupSet
  BY DEF GroupSet
<1>5. PolicyTag(g.name) = Safe[g.name]
  BY <1>4 DEF PolicyTag, GroupTag
<1>6. /\ DOMAIN Outbounds = 1..(2 + n)
      /\ Outbounds[1] = Outbound("direct", <<>>)
      /\ Outbounds[2] = Outbound(ProxyTag, <<>>)
      /\ \A k \in 1..n : Outbounds[2 + k] = Outbound(GroupTag(groups[k].name), Members(groups[k]))
  BY OutboundsAre DEF Heads
<1>7. Outbounds[2 + i].tag = Safe[g.name] /\ Outbounds[2 + i].members = Members(g)
  <2>1. Outbounds[2 + i] = Outbound(GroupTag(g.name), Members(g))
    <3> HIDE DEF n
    <3> QED
      BY <1>1, <1>6
  <2> HIDE DEF g
  <2> QED
    BY <2>1 DEF Outbound, GroupTag
<1>8. named = {2 + i}
  <2>1. 2 + i \in named
    <3>1. Outbounds[2 + i].tag = Safe[g.name]
      BY <1>7
    <3>2. 2 + i \in 1..(2 + n)
      BY <1>1
    <3> QED
      BY <1>5, <1>6, <3>1, <3>2
  <2>2. ASSUME NEW j \in named PROVE j = 2 + i
    <3>1. j \in 1..(2 + n) /\ Outbounds[j].tag = Safe[g.name]
      BY <1>5, <1>6
    <3>2. j # 1 /\ j # 2
      BY <1>1, <1>2, <1>6, <3>1 DEF Outbound, ProxyTag
    <3> DEFINE k == j - 2
    <3>3. k \in 1..n /\ j = 2 + k
      BY <1>1, <3>1, <3>2
    <3> HIDE DEF k, n, g
    <3>4. Outbounds[2 + k] = Outbound(GroupTag(groups[k].name), Members(groups[k]))
      BY <1>6, <3>3
    <3>5. Outbounds[j].tag = Safe[groups[k].name]
      BY <3>3, <3>4 DEF Outbound, GroupTag
    <3> QED
      BY <1>3, <3>1, <3>3, <3>5
  <2> HIDE DEF named
  <2> QED
    BY <2>1, <2>2
<1>9. ASSUME NEW m \in Range(g.members) \cap Policies \cap (GroupSet \cup {"DIRECT", "PROXY"})
      PROVE  PolicyTag(m) \in Range(Members(g))
  <2>1. \A x \in Range(g.members) \cap ({"DIRECT", "PROXY"} \cup GroupSet) :
          MemberTag(x) \in Range(Members(g))
    <3> HIDE DEF g
    <3> QED
      BY <1>1, MembersAre
  <2>2. PolicyTag(m) = MemberTag(m)
    BY NamesAgree
  <2> QED
    BY <2>1, <2>2
<1>10. Cardinality(named) = 1
  BY <1>8, FS_Singleton
<1>11. ASSUME NEW t \in Range(Members(g))
       PROVE  \E m \in Range(g.members) : t = PolicyTag(m)
  <2> DEFINE known == {"DIRECT", "PROXY"} \cup GroupSet
  <2>1. \/ \E m \in Range(g.members) \cap known : t = MemberTag(m)
        \/ t = ProxyTag /\ Range(g.members) \cap known = {}
    <3> HIDE DEF g
    <3> QED
      BY <1>1, <1>11, MembersAre
  <2>2. CASE \E m \in Range(g.members) \cap known : t = MemberTag(m)
    BY <2>2, NamesAgree
  <2>3. CASE t = ProxyTag /\ Range(g.members) \cap known = {}
    <3>1. g.members \in Seq(STRING) /\ g.members # <<>>
      BY <1>1, GroupsAssumption
    <3>2. g.members[1] \in Range(g.members)
      <4> HIDE DEF g
      <4>1. 1 \in DOMAIN g.members
        BY <3>1, EmptySeq
      <4> QED
        BY <4>1 DEF Range
    <3>3. PolicyTag(g.members[1]) = ProxyTag
      BY <2>3, <3>2 DEF PolicyTag
    <3> QED
      BY <2>3, <3>2, <3>3
  <2> QED
    BY <2>1, <2>2, <2>3
<1> HIDE DEF named, g
<1> QED
  BY <1>7, <1>8, <1>9, <1>10, <1>11 DEF named, g

\* A rule whose policy is a group that is alone with its tag reaches it, and
\* through it the groups and built-in policies on the line of the group, and
\* nothing that no name on that line leads to.
THEOREM GroupsReached == Spec => []GroupsMeant
<1>1. TypeOK => GroupsMeant
  BY GroupsMeantHolds
<1> QED
  BY <1>1, TypeCorrect, PTL

-----------------------------------------------------------------------------
(* DNS *)

\* The servers of the file before one gets a resolver.
Entries ==
  [tag : {"dns", "dns-remote", "dns-bootstrap"} \X Nat, host : {"name", "ipv4", "ipv6"},
   form : {"bare", "port", "brackets"}, resolver : {<<"none", 0>>}]

\* An address that is in use: one of IPv6 only while that is on.
Reached(s) == IsIP(s) => ipv6 \/ s.host = "ipv4"

\* No two servers of a list have the same tag.
Apart(list) == \A j, k \in DOMAIN list : list[j].tag = list[k].tag => j = k

\* Every entry of the file as a server: of its own tag.
LEMMA WrittenIs ==
  ASSUME TypeOK
  PROVE  /\ Written \in Seq(Entries)
         /\ DOMAIN Written = DOMAIN specs
         /\ \A i \in DOMAIN Written : Written[i].tag = <<"dns", i>>
<1>1. DOMAIN specs = 1..Len(specs) /\ Len(specs) \in Nat
  BY DEF TypeOK
<1>2. ASSUME NEW i \in DOMAIN specs
      PROVE  Written[i] \in Entries /\ Written[i].tag = <<"dns", i>>
  <2>1. specs[i] \in Specs
    BY DEF TypeOK
  <2>2. /\ specs[i].host \in {"name", "ipv4", "ipv6"}
        /\ specs[i].form \in {"bare", "port", "brackets"}
    BY <2>1, SpecsAssumption
  <2>3. Written[i] = DnsServer(specs[i], <<"dns", i>>)
    BY DEF Written
  <2>4. <<"dns", i>> \in {"dns", "dns-remote", "dns-bootstrap"} \X Nat
    BY <1>1
  <2> QED
    BY <2>2, <2>3, <2>4 DEF DnsServer, Server, Entries
<1>3. Written = [i \in 1..Len(specs) |-> Written[i]]
  BY <1>1 DEF Written
<1>4. Written \in Seq(Entries)
  BY <1>1, <1>2, <1>3
<1>5. DOMAIN Written = DOMAIN specs
  BY DEF Written
<1> QED
  BY <1>2, <1>4, <1>5

\* Those taken over can be reached if they are addresses, and have a tag of
\* their own, which is not that of an added server.
LEMMA ServersAre ==
  ASSUME TypeOK
  PROVE  /\ Servers \in Seq(Entries)
         /\ \A k \in DOMAIN Servers : Reached(Servers[k]) /\ Servers[k].tag[1] = "dns"
         /\ Apart(Servers)
<1> DEFINE before(i) == {j \in Usable : j < i}
           kept == {i \in Usable : Cardinality(before(i)) < MaxServers}
<1>1. /\ Written \in Seq(Entries)
      /\ DOMAIN Written = DOMAIN specs
      /\ \A i \in DOMAIN Written : Written[i].tag = <<"dns", i>>
  BY WrittenIs
<1>2. kept \in SUBSET DOMAIN Written
  BY <1>1 DEF Usable
<1>3. Servers = Picked(Written, kept)
  BY DEF Servers
<1>4. \A i \in kept : Reached(Written[i])
  <2> TAKE i \in kept
  <2>1. ipv6 \/ ~(IsIP(Written[i]) /\ Written[i].host = "ipv6")
    BY DEF Usable
  <2>2. Written[i] \in Entries
    BY <1>1, <1>2
  <2>3. Written[i].host \in {"name", "ipv4", "ipv6"}
    BY <2>2 DEF Entries
  <2> QED
    BY <2>1, <2>3 DEF Reached, IsIP
<1> HIDE DEF kept
<1>5. Servers \in Seq(Entries) /\ Picks(Servers, Written, kept)
  BY <1>1, <1>2, <1>3, PickedPicks
<1>6. PICK e : /\ Enumerates(e, Len(Servers), kept)
               /\ \A k \in 1..Len(Servers) : Servers[k] = Written[e[k]]
  BY <1>5 DEF Picks
<1>7. DOMAIN Servers = 1..Len(Servers) /\ Len(Servers) \in Nat
  BY <1>5
<1>8. \A k \in DOMAIN Servers : e[k] \in kept /\ Servers[k] = Written[e[k]]
  BY <1>6, <1>7 DEF Enumerates
<1>9. \A k \in DOMAIN Servers : Servers[k].tag = <<"dns", e[k]>>
  BY <1>1, <1>2, <1>8
<1>10. ASSUME NEW j \in DOMAIN Servers, NEW k \in DOMAIN Servers, Servers[j].tag = Servers[k].tag
       PROVE  j = k
  <2>1. e[j] = e[k]
    <3>1. <<"dns", e[j]>> = <<"dns", e[k]>>
      BY <1>9, <1>10
    <3> QED
      BY <3>1
  <2>2. \A x, y \in 1..Len(Servers) : x < y => e[x] < e[y]
    BY <1>6 DEF Enumerates
  <2>3. e[j] \in Int /\ e[k] \in Int
    <3>1. DOMAIN Written \subseteq Int
      BY <1>1
    <3> QED
      BY <1>2, <1>8, <3>1
  <2> QED
    BY <1>7, <2>1, <2>2, <2>3
<1>11. \A k \in DOMAIN Servers : Reached(Servers[k]) /\ Servers[k].tag[1] = "dns"
  BY <1>4, <1>8, <1>9
<1> QED
  BY <1>5, <1>10, <1>11 DEF Apart

\* What Dns makes its servers of, in three steps.
List == IF Servers = <<>> THEN <<Remote>> ELSE Servers
Literal == {i \in DOMAIN List : IsIP(List[i])}
All == IF Literal = {} THEN <<Bootstrap>> \o List ELSE List
Resolver == IF Literal = {} THEN Bootstrap ELSE List[Min(Literal)]

LEMMA DnsIs ==
  Dns = [servers |-> [i \in DOMAIN All |->
                       IF IsIP(All[i]) THEN All[i] ELSE [All[i] EXCEPT !.resolver = Resolver.tag]],
         final |-> List[1].tag]
BY DEF Dns, List, Literal, All, Resolver

\* There is a server, and the added one is not the other added one.
LEMMA ListIs ==
  ASSUME TypeOK
  PROVE  /\ List \in Seq(Entries)
         /\ List # <<>>
         /\ \A k \in DOMAIN List : Reached(List[k]) /\ List[k].tag[1] # "dns-bootstrap"
         /\ Apart(List)
<1>1. /\ Servers \in Seq(Entries)
      /\ \A k \in DOMAIN Servers : Reached(Servers[k]) /\ Servers[k].tag[1] = "dns"
      /\ Apart(Servers)
  BY ServersAre
<1>2. CASE Servers = <<>>
  <2>1. Remote \in Entries
    BY DEF Remote, Server, Entries
  <2>2. List = One(Remote)
    BY <1>2 DEF List, One
  <2>3. One(Remote) \in Seq(Entries) /\ Len(One(Remote)) = 1 /\ One(Remote)[1] = Remote
    BY <2>1, OneIs
  <2>4. DOMAIN List = {1} /\ List # <<>>
    BY <2>2, <2>3
  <2>5. Reached(Remote) /\ Remote.tag[1] # "dns-bootstrap"
    BY DEF Remote, Server, Reached
  <2> QED
    BY <2>2, <2>3, <2>4, <2>5 DEF Apart
<1>3. CASE Servers # <<>>
  BY <1>1, <1>3 DEF List
<1> QED
  BY <1>2, <1>3

\* Beside what holds of List there is an address to resolve names by.
LEMMA AllIs ==
  ASSUME TypeOK
  PROVE  /\ All \in Seq(Entries)
         /\ \A k \in DOMAIN All : Reached(All[k])
         /\ Apart(All)
         /\ \E k \in DOMAIN All : IsIP(All[k]) /\ All[k].tag = Resolver.tag
         /\ \E k \in DOMAIN All : All[k].tag = List[1].tag
<1>1. /\ List \in Seq(Entries)
      /\ List # <<>>
      /\ \A k \in DOMAIN List : Reached(List[k]) /\ List[k].tag[1] # "dns-bootstrap"
      /\ Apart(List)
  BY ListIs
<1>2. DOMAIN List = 1..Len(List) /\ Len(List) \in Nat /\ 1 \in DOMAIN List
  <2>1. Len(List) \in Nat \ {0}
    BY <1>1, EmptySeq
  <2> QED
    BY <1>1, <2>1
<1>3. CASE Literal # {}
  <2>1. Literal \subseteq Nat
    BY <1>2 DEF Literal
  <2>2. \E x \in Literal : \A y \in Literal : x <= y
    BY <1>3, <2>1, Least
  <2>3. Min(Literal) \in Literal
    BY <2>2 DEF Min
  <2>4. Min(Literal) \in DOMAIN List /\ IsIP(List[Min(Literal)])
    BY <2>3 DEF Literal
  <2> QED
    BY <1>1, <1>2, <1>3, <2>4 DEF All, Resolver
<1>4. CASE Literal = {}
  <2>1. Bootstrap \in Entries
    BY DEF Bootstrap, Server, Entries
  <2>2. One(Bootstrap) \in Seq(Entries) /\ Len(One(Bootstrap)) = 1 /\ One(Bootstrap)[1] = Bootstrap
    BY <2>1, OneIs
  <2>3. /\ One(Bootstrap) \o List \in Seq(Entries)
        /\ Len(One(Bootstrap) \o List) = Len(One(Bootstrap)) + Len(List)
        /\ \A i \in 1..Len(One(Bootstrap)) : (One(Bootstrap) \o List)[i] = One(Bootstrap)[i]
        /\ \A i \in 1..Len(List) : (One(Bootstrap) \o List)[Len(One(Bootstrap)) + i] = List[i]
    <3>1. List \in Seq(Entries) /\ One(Bootstrap) \in Seq(Entries)
      BY <1>1, <2>2
    <3> QED
      BY <3>1, ConcatAt
  <2>4. All = One(Bootstrap) \o List
    BY <1>4 DEF All, One
  <2>5. /\ All \in Seq(Entries)
        /\ DOMAIN All = 1..(Len(List) + 1)
        /\ All[1] = Bootstrap
        /\ \A i \in 1..Len(List) : All[1 + i] = List[i]
    BY <1>2, <2>2, <2>3, <2>4
  <2>6. \A k \in 1..(Len(List) + 1) : k # 1 => All[k] = List[k - 1] /\ k - 1 \in DOMAIN List
    <3> TAKE k \in 1..(Len(List) + 1)
    <3> HAVE k # 1
    <3> DEFINE i == k - 1
    <3>1. i \in 1..Len(List) /\ k = 1 + i
      BY <1>2
    <3> HIDE DEF i
    <3>2. All[k] = List[i]
      BY <2>5, <3>1
    <3> QED
      BY <1>2, <3>1, <3>2 DEF i
  <2>7. IsIP(Bootstrap) /\ Reached(Bootstrap) /\ Bootstrap.tag = <<"dns-bootstrap", 0>>
    BY DEF Bootstrap, Server, IsIP, Reached
  <2>8. 1 \in DOMAIN All /\ 1 + 1 \in DOMAIN All /\ All[1 + 1] = List[1]
    BY <1>2, <2>5
  <2>9. \A k \in DOMAIN All : Reached(All[k])
    BY <1>1, <2>5, <2>6, <2>7
  <2>10. \A k \in DOMAIN All : k # 1 => All[k].tag[1] # "dns-bootstrap"
    BY <1>1, <2>5, <2>6
  <2>11. ASSUME NEW j \in DOMAIN All, NEW k \in DOMAIN All, All[j].tag = All[k].tag
         PROVE  j = k
    <3>1. All[1].tag[1] = "dns-bootstrap"
      BY <2>5, <2>7
    <3>2. j = 1 <=> k = 1
      BY <2>10, <2>11, <3>1
    <3>3. CASE j # 1
      <4>1. j - 1 \in DOMAIN List /\ k - 1 \in DOMAIN List
              /\ List[j - 1].tag = List[k - 1].tag
        BY <2>5, <2>6, <2>11, <3>2, <3>3
      <4>2. j - 1 = k - 1
        BY <1>1, <4>1 DEF Apart
      <4> QED
        BY <2>5, <4>2
    <3> QED
      BY <3>2, <3>3
  <2>12. Resolver = Bootstrap
    BY <1>4 DEF Resolver
  <2>13. \E k \in DOMAIN All : IsIP(All[k]) /\ All[k].tag = Resolver.tag
    BY <2>5, <2>7, <2>8, <2>12
  <2> QED
    BY <2>5, <2>8, <2>9, <2>11, <2>13 DEF Apart
<1> QED
  BY <1>3, <1>4

\* Tags that are all different are as many as the servers.
LEMMA TagsCounted ==
  ASSUME NEW S, NEW list \in Seq(S), Apart(list)
  PROVE  Cardinality(Tags(list)) = Len(list)
<1> DEFINE g == [i \in 1..Len(list) |-> list[i].tag]
<1>1. DOMAIN list = 1..Len(list) /\ Len(list) \in Nat
  OBVIOUS
<1>2. g \in [1..Len(list) -> Tags(list)]
  BY <1>1 DEF Tags
<1>3. \A j, k \in 1..Len(list) : g[j] = g[k] => j = k
  BY <1>1 DEF Apart
<1>4. \A t \in Tags(list) : \E k \in 1..Len(list) : g[k] = t
  BY <1>1 DEF Tags
<1> HIDE DEF g
<1>5. g \in Bijection(1..Len(list), Tags(list))
  BY <1>2, <1>3, <1>4 DEF Bijection, Injection, Surjection, IsInjective
<1>6. IsFiniteSet(1..Len(list)) /\ Cardinality(1..Len(list)) = Len(list)
  BY <1>1, FS_Interval
<1> QED
  BY <1>5, <1>6, FS_Bijection DEF ExistsBijection

LEMMA ResolvableHolds ==
  ASSUME TypeOK
  PROVE  Resolvable
<1> DEFINE server == [i \in DOMAIN All |->
                       IF IsIP(All[i]) THEN All[i] ELSE [All[i] EXCEPT !.resolver = Resolver.tag]]
           Direct(tag) == \E i \in DOMAIN server :
                            server[i].tag = tag /\ IsIP(server[i]) /\ (ipv6 \/ server[i].host = "ipv4")
<1>1. /\ All \in Seq(Entries)
      /\ \A k \in DOMAIN All : Reached(All[k])
      /\ Apart(All)
  BY AllIs
<1>2. PICK b \in DOMAIN All : IsIP(All[b]) /\ All[b].tag = Resolver.tag
  BY AllIs
<1>3. PICK f \in DOMAIN All : All[f].tag = List[1].tag
  BY AllIs
<1>4. DOMAIN All = 1..Len(All) /\ Len(All) \in Nat
  BY <1>1
<1>5. Dns.servers = server /\ Dns.final = List[1].tag
  BY DnsIs
<1>6. ASSUME NEW i \in DOMAIN All
      PROVE  /\ server[i].tag = All[i].tag
             /\ IsIP(All[i]) => server[i] = All[i]
             /\ ~IsIP(All[i]) => server[i].resolver = Resolver.tag
  <2>1. All[i] \in Entries
    BY <1>1, <1>4, ElementOfSeq
  <2>2. All[i] = [tag |-> All[i].tag, host |-> All[i].host, form |-> All[i].form,
                  resolver |-> All[i].resolver]
    BY <2>1 DEF Entries
  <2>3. server[i] = IF IsIP(All[i]) THEN All[i] ELSE [All[i] EXCEPT !.resolver = Resolver.tag]
    OBVIOUS
  <2> HIDE DEF server
  <2> QED
    BY <2>2, <2>3
<1>7. DOMAIN server = DOMAIN All
  OBVIOUS
<1> HIDE DEF server
<1>8. \A i \in DOMAIN All : IsIP(All[i]) => Direct(All[i].tag)
  BY <1>1, <1>6, <1>7 DEF Reached
<1>9. Direct(Resolver.tag)
  BY <1>2, <1>8
<1>10. \A i \in DOMAIN server : Direct(server[i].tag) \/ Direct(server[i].resolver)
  <2> TAKE i \in DOMAIN server
  <2> HIDE DEF Direct
  <2> QED
    BY <1>6, <1>7, <1>8, <1>9
<1>11. Tags(server) = Tags(All)
  BY <1>6, <1>7 DEF Tags
<1>12. Dns.final \in Tags(server)
  BY <1>3, <1>5, <1>11 DEF Tags
<1>13. Len(server) = Len(All)
  BY <1>1, <1>4, <1>7
<1>14. Cardinality(Tags(server)) = Len(server)
  BY <1>1, <1>11, <1>13, TagsCounted
<1> QED
  BY <1>5, <1>10, <1>12, <1>14 DEF Resolvable

\* Of any list of DNS servers: those named by host are resolved through one
\* that is an address in use, so sing-box starts.
THEOREM NamesResolved == Spec => []Resolvable
<1>1. TypeOK => Resolvable
  BY ResolvableHolds
<1> QED
  BY <1>1, TypeCorrect, PTL

-----------------------------------------------------------------------------
(* The bias *)

\* Quotients as a loop.
LEMMA QuotientsDef ==
  ASSUME NEW delta \in Nat, NEW d \in Nat \ {0}
  PROVE  LET f == Quotients(delta, d)
         IN  f \in [0..delta -> Nat] /\ f[0] = delta /\ \A j \in 1..delta : f[j] = f[j - 1] \div d
<1> DEFINE turn == [m \in 1..delta |-> [q \in Nat |-> q \div d]]
<1>1. \A q \in Nat : q \div d \in Nat
  BY DivMod
<1>2. StaysIn(Nat, turn, delta)
  BY <1>1 DEF StaysIn
<1>3. PICK f : Follows(f, Nat, delta, turn, delta)
  <2> HIDE DEF turn
  <2> QED
    BY <1>2, LoopExists, Zenon
<1>4. \A m \in 1..delta : f[m] = f[m - 1] \div d
  <2>1. \A m \in 1..delta : f[m - 1] \in Nat
    BY <1>3 DEF Follows
  <2> QED
    BY <1>3, <2>1 DEF Follows
<1>5. f = [j \in 0..delta |-> IF j = 0 THEN delta ELSE f[j - 1] \div d]
  BY <1>3, <1>4 DEF Follows
<1> DEFINE g == Quotients(delta, d)
<1>6. g = [j \in 0..delta |-> IF j = 0 THEN delta ELSE g[j - 1] \div d]
  BY <1>5 DEF Quotients
<1> HIDE DEF g
<1>7. g[0] = delta /\ \A j \in 1..delta : g[j] = g[j - 1] \div d
  BY <1>6
<1>8. \A m \in 0..delta : g[m] \in Nat
  <2>1. g[0] \in Nat /\ \A m \in 1..delta : g[m - 1] \in Nat => g[m] \in Nat
    BY <1>1, <1>7
  <2> QED
    BY <2>1, LoopKeeps, Zenon
<1>9. g \in [0..delta -> Nat]
  BY <1>6, <1>8
<1> QED
  BY <1>7, <1>9 DEF g

\* A loop ends that makes a number smaller in every turn.
LEMMA UntilExists ==
  ASSUME NEW n \in Nat, NEW f \in [0..n -> Nat], NEW m \in Nat \ {0}, f[0] = n,
         \A j \in 1..n : f[j - 1] > 0 => f[j] < f[j - 1],
         \A j \in 1..n : f[j - 1] = 0 => f[j] = 0
  PROVE  Until(f, m) \in 0..n
<1> DEFINE S == {j \in 0..n : f[j] <= m}
           T == {j \in Nat : j <= n => f[j] <= n - j}
<1>1. n \in S
  <2>1. 0 \in T
    OBVIOUS
  <2>2. ASSUME NEW k \in Nat, k \in T PROVE k + 1 \in T
    <3> SUFFICES ASSUME k + 1 <= n PROVE f[k + 1] <= n - (k + 1)
      OBVIOUS
    <3>1. k + 1 \in 1..n /\ (k + 1) - 1 = k /\ f[k] <= n - k /\ f[k] \in Nat /\ f[k + 1] \in Nat
      BY <2>2
    <3>2. (f[k] > 0 => f[k + 1] < f[k]) /\ (f[k] = 0 => f[k + 1] = 0)
      BY <3>1
    <3> QED
      BY <3>1, <3>2
  <2>3. n \in T
    <3> HIDE DEF T
    <3> QED
      BY <2>1, <2>2, Induction
  <2>4. f[n] <= 0
    BY <2>3
  <2> QED
    BY <2>4
<1>2. PICK j \in S : \A i \in S : j <= i
  <2> HIDE DEF T
  <2>1. S \subseteq Nat
    OBVIOUS
  <2> HIDE DEF S
  <2>2. S # {}
    BY <1>1
  <2> QED
    BY <2>1, <2>2, Least
<1>3. j \in DOMAIN f /\ f[j] <= m /\ \A i \in 0..(j - 1) : f[i] > m
  <2>1. j \in 0..n /\ f[j] <= m
    OBVIOUS
  <2>2. ASSUME NEW i \in 0..(j - 1) PROVE f[i] > m
    <3>1. i \in 0..n /\ ~(j <= i)
      BY <2>1
    <3>2. f[i] \in Nat /\ ~(f[i] <= m)
      BY <1>2, <3>1
    <3> QED
      BY <3>2
  <2> QED
    BY <2>1, <2>2
<1>4. Until(f, m) \in DOMAIN f
  BY <1>3 DEF Until
<1> QED
  BY <1>4

\* Halved and Reduced are the same loop, with the numbers of the RFC and
\* those of the code.
LEMMA HalvedIsReduced ==
  ASSUME NEW delta
  PROVE  Halved(delta) = Reduced(delta)
<1>1. Base = 36 /\ Base - TMin = 35 /\ Base - TMin + 1 = 36 /\ Skew = 38
  BY DEF Base, TMin, Skew
<1>2. ((Base - TMin) * TMax) \div 2 = 455
  BY DEF Base, TMin, TMax
<1> DEFINE f == Quotients(delta, 35)
           k == Until(f, 455)
<1>3. Quotients(delta, Base - TMin) = f
  BY <1>1
<1>4. Until(Quotients(delta, Base - TMin), ((Base - TMin) * TMax) \div 2) = k
  BY <1>2, <1>3
<1> HIDE DEF f, k
<1>5. Reduced(delta) = Base * k + ((Base - TMin + 1) * f[k]) \div (f[k] + Skew)
  BY <1>3, <1>4, Zenon DEF Reduced
<1>6. Reduced(delta) = 36 * k + (36 * f[k]) \div (f[k] + 38)
  BY <1>1, <1>5, Zenon
<1> QED
  BY <1>6, Zenon DEF Halved, f, k

\* What the loop of punyAdapt returns is a number.
LEMMA ReducedIsNat ==
  ASSUME NEW delta \in Nat
  PROVE  Halved(delta) \in Nat
<1> DEFINE f == Quotients(delta, 35)
           k == Until(f, 455)
<1>1. /\ f \in [0..delta -> Nat] /\ f[0] = delta
      /\ \A j \in 1..delta : f[j] = f[j - 1] \div 35
  BY QuotientsDef
<1> HIDE DEF f
<1>2. ASSUME NEW j \in 1..delta
      PROVE  (f[j - 1] > 0 => f[j] < f[j - 1]) /\ (f[j - 1] = 0 => f[j] = 0)
  <2>1. f[j - 1] \in Nat /\ f[j] = f[j - 1] \div 35
    BY <1>1
  <2> QED
    BY <2>1
<1>3. k \in 0..delta
  <2>1. /\ \A j \in 1..delta : f[j - 1] > 0 => f[j] < f[j - 1]
        /\ \A j \in 1..delta : f[j - 1] = 0 => f[j] = 0
    BY <1>2
  <2>2. f \in [0..delta -> Nat] /\ f[0] = delta /\ 455 \in Nat \ {0}
    BY <1>1
  <2> QED
    BY <2>1, <2>2, UntilExists, Zenon
<1> HIDE DEF k
<1>4. f[k] \in Nat
  BY <1>1, <1>3
<1>5. f[k] + 38 \in Nat \ {0} /\ 36 * f[k] \in Nat
  BY <1>4
<1>6. (36 * f[k]) \div (f[k] + 38) \in Nat
  <2> DEFINE a == 36 * f[k]
             b == f[k] + 38
  <2>1. a \in Int /\ a >= 0 /\ b \in Nat \ {0}
    BY <1>5
  <2> HIDE DEF a, b
  <2>2. a \div b \in Int /\ a \div b >= 0
    BY <2>1, DivMod
  <2>3. a \div b \in Nat
    BY <2>2
  <2> QED
    BY <2>3 DEF a, b
<1> QED
  BY <1>3, <1>6 DEF Halved, f, k

\* The bias that punyAdapt computes is that of the RFC.
LEMMA AdaptIsBias ==
  ASSUME NEW delta \in Nat, NEW length \in Nat \ {0}, NEW first \in BOOLEAN
  PROVE  Bias(delta, length, first) = PunyAdapt(delta, length, first)
         /\ PunyAdapt(delta, length, first) \in Nat
<1> DEFINE d == IF first THEN delta \div 700 ELSE delta \div 2
<1>1. d \in Nat /\ d = delta \div (IF first THEN Damp ELSE 2)
  BY DEF Damp
<1> HIDE DEF d
<1>2. d + d \div length \in Nat
  BY <1>1, DivMod
<1>3. Halved(d + d \div length) \in Nat
  BY <1>2, ReducedIsNat
<1>4. Bias(delta, length, first) = Halved(d + d \div length)
  BY DEF Bias, d
<1>5. PunyAdapt(delta, length, first) = Reduced(d + d \div length)
  BY <1>1, Zenon DEF PunyAdapt
<1> QED
  BY <1>3, <1>4, <1>5, HalvedIsReduced

-----------------------------------------------------------------------------
(* Numbers *)

\* A threshold is one of punyTMin to punyTMax.
LEMMA ThresholdRange ==
  ASSUME NEW k \in Int, NEW bias \in Int
  PROVE  Threshold(k, bias) \in 1..26
BY DEF Threshold, TMin, TMax

\* The threshold of punyLabel is that of the RFC.
LEMMA LimitIsThreshold ==
  ASSUME NEW j \in Int, NEW bias \in Int
  PROVE  Limit(j, bias) = Threshold(Base * j, bias)
BY DEF Threshold, TMin, TMax, Limit, Base

\* The threshold of the digit j.
T(j, bias) == Threshold(Base * j, bias)

\* The threshold of a digit is that of the RFC.
LEMMA TRange ==
  ASSUME NEW j \in Int, NEW bias \in Int
  PROVE  T(j, bias) \in 1..26 /\ T(j, bias) = Limit(j, bias)
<1>1. Base * j \in Int
  BY DEF Base
<1> QED
  BY <1>1, ThresholdRange, LimitIsThreshold DEF T

\* Left as a loop.
LEMMA LeftDef ==
  ASSUME NEW delta \in Nat, NEW bias \in Int
  PROVE  LET q == Left(delta, bias)
         IN  /\ q \in [0..delta -> Int] /\ q[0] = delta
             /\ \A j \in 1..delta : q[j] = (q[j - 1] - T(j, bias)) \div (36 - T(j, bias))
<1> DEFINE turn == [m \in 1..delta |-> [q \in Int |-> (q - T(m, bias)) \div (36 - T(m, bias))]]
<1>1. ASSUME NEW q \in Int, NEW m \in 1..delta
      PROVE  (q - T(m, bias)) \div (36 - T(m, bias)) \in Int
  <2>1. T(m, bias) \in 1..26
    BY TRange
  <2>2. q - T(m, bias) \in Int /\ 36 - T(m, bias) \in Nat \ {0}
    BY <2>1
  <2> QED
    BY <2>2, DivMod
<1>2. StaysIn(Int, turn, delta)
  BY <1>1 DEF StaysIn
<1>3. PICK f : Follows(f, Int, delta, turn, delta)
  <2> HIDE DEF turn
  <2>1. delta \in Int
    OBVIOUS
  <2> QED
    BY <1>2, <2>1, LoopExists, Zenon
<1>4. \A m \in 1..delta : f[m] = (f[m - 1] - T(m, bias)) \div (36 - T(m, bias))
  <2>1. \A m \in 1..delta : f[m - 1] \in Int
    BY <1>3 DEF Follows
  <2> QED
    BY <1>3, <2>1 DEF Follows
<1>5. Base = 36
  BY DEF Base
<1>6. f = [j \in 0..delta |->
            IF j = 0 THEN delta
            ELSE LET t == Threshold(Base * j, bias) IN (f[j - 1] - t) \div (Base - t)]
  BY <1>3, <1>4, <1>5 DEF Follows, T
<1> DEFINE g == Left(delta, bias)
<1>7. g = [j \in 0..delta |->
            IF j = 0 THEN delta
            ELSE LET t == Threshold(Base * j, bias) IN (g[j - 1] - t) \div (Base - t)]
  BY <1>6, Zenon DEF Left
<1> HIDE DEF g
<1>8. g[0] = delta /\ \A j \in 1..delta : g[j] = (g[j - 1] - T(j, bias)) \div (36 - T(j, bias))
  BY <1>5, <1>7 DEF T
<1>9. \A m \in 0..delta : g[m] \in Int
  <2>1. g[0] \in Int
    BY <1>8
  <2>2. \A m \in 1..delta : g[m - 1] \in Int => g[m] \in Int
    BY <1>1, <1>8
  <2> QED
    BY <2>1, <2>2, LoopKeeps, Zenon
<1>10. g \in [0..delta -> Int]
  BY <1>7, <1>9
<1> QED
  BY <1>8, <1>10 DEF g

\* While its number is above the threshold the loop goes on, and makes it less.
LEMMA TurnsAre ==
  ASSUME NEW delta \in Nat, NEW bias \in Int
  PROVE  LET q == Left(delta, bias)
             turns == Turns(delta, bias)
         IN  /\ turns \in 0..delta
             /\ q[turns] < T(turns + 1, bias)
             /\ \A i \in 1..turns : q[i - 1] >= T(i, bias)
             /\ \A i \in 0..turns : q[i] \in Nat
<1> DEFINE q == Left(delta, bias)
           S == {j \in Nat : j \in 0..delta /\ q[j] < T(j + 1, bias)}
<1>1. /\ q \in [0..delta -> Int] /\ q[0] = delta
      /\ \A j \in 1..delta : q[j] = (q[j - 1] - T(j, bias)) \div (36 - T(j, bias))
  BY LeftDef
<1> HIDE DEF q
<1>2. ASSUME NEW j \in 1..delta, q[j - 1] >= T(j, bias)
      PROVE  q[j] \in Nat /\ q[j] <= q[j - 1] - 1
  <2>1. T(j, bias) \in 1..26 /\ q[j - 1] \in Int
    BY <1>1, TRange
  <2> DEFINE a == q[j - 1] - T(j, bias)
             b == 36 - T(j, bias)
  <2>2. a \in Int /\ a >= 0 /\ b \in Nat \ {0} /\ b > 1 /\ a <= q[j - 1] - 1
    BY <1>2, <2>1
  <2>3. q[j] = a \div b
    BY <1>1
  <2> HIDE DEF a, b
  <2>4. a \div b \in Int /\ a \div b >= 0 /\ (a > 0 => a \div b < a)
    BY <2>2, DivMod
  <2>5. a = 0 => a \div b = 0
    BY <2>2
  <2> QED
    BY <2>1, <2>2, <2>3, <2>4, <2>5
<1>3. S # {}
  <2> SUFFICES ASSUME \A j \in 0..delta : ~(q[j] < T(j + 1, bias)) PROVE FALSE
    OBVIOUS
  <2>1. ASSUME NEW j \in 1..delta PROVE q[j] <= q[j - 1] - 1
    <3>1. j - 1 \in 0..delta /\ (j - 1) + 1 = j /\ q[j - 1] \in Int /\ T(j, bias) \in 1..26
      BY <1>1, TRange
    <3>2. q[j - 1] >= T(j, bias)
      BY <3>1
    <3> QED
      BY <1>2, <3>2
  <2> DEFINE U == {k \in Nat : k <= delta => q[k] <= delta - k}
  <2>2. 0 \in U
    BY <1>1
  <2>3. ASSUME NEW k \in Nat, k \in U PROVE k + 1 \in U
    <3> SUFFICES ASSUME k + 1 <= delta PROVE q[k + 1] <= delta - (k + 1)
      OBVIOUS
    <3>1. k + 1 \in 1..delta /\ (k + 1) - 1 = k /\ q[k] <= delta - k
      BY <2>3
    <3>2. q[k] \in Int /\ q[k + 1] \in Int
      BY <1>1, <3>1
    <3>3. q[k + 1] <= q[k] - 1
      BY <2>1, <3>1
    <3> QED
      BY <3>1, <3>2, <3>3
  <2>4. delta \in U
    <3> HIDE DEF U
    <3> QED
      BY <2>2, <2>3, Induction
  <2>5. q[delta] <= 0 /\ q[delta] \in Int /\ T(delta + 1, bias) \in 1..26
    BY <1>1, <2>4, TRange
  <2> QED
    BY <2>5
<1>4. PICK j \in S : \A i \in S : j <= i
  <2>1. S \subseteq Nat
    OBVIOUS
  <2> HIDE DEF S
  <2> QED
    BY <1>3, <2>1, Least
<1>5. j \in 0..delta /\ q[j] < T(j + 1, bias) /\ \A i \in 1..j : q[i - 1] >= T(i, bias)
  <2>1. j \in 0..delta /\ q[j] < T(j + 1, bias)
    OBVIOUS
  <2>2. ASSUME NEW i \in 1..j PROVE q[i - 1] >= T(i, bias)
    <3>1. i - 1 \in Nat /\ i - 1 \in 0..delta /\ (i - 1) + 1 = i /\ ~(j <= i - 1)
      BY <2>1
    <3>2. i - 1 \notin S
      <4> HIDE DEF S
      <4> QED
        BY <1>4, <3>1
    <3>3. ~(q[i - 1] < T(i, bias))
      BY <3>1, <3>2
    <3>4. q[i - 1] \in Int
      BY <1>1, <3>1
    <3>5. T(i, bias) \in 1..26
      <4>1. i \in Int
        BY <2>1
      <4> QED
        BY <4>1, TRange
    <3> QED
      BY <3>3, <3>4, <3>5
  <2> QED
    BY <2>1, <2>2
<1> DEFINE turns == Turns(delta, bias)
<1>6. turns \in 0..delta /\ q[turns] < T(turns + 1, bias) /\ \A i \in 1..turns : q[i - 1] >= T(i, bias)
  BY <1>5, Zenon DEF Turns, T, q
<1> HIDE DEF turns
<1>7. ASSUME NEW i \in 0..turns PROVE q[i] \in Nat
  <2>1. CASE i = 0
    BY <1>1, <2>1
  <2>2. CASE i # 0
    <3>1. i \in 1..turns /\ i \in 1..delta
      BY <1>6, <2>2
    <3> QED
      BY <1>2, <1>6, <3>1
  <2> QED
    BY <2>1, <2>2
<1> QED
  BY <1>6, <1>7 DEF q, turns

\* What a digit is worth that punyDigit writes.
IsDigit(c) == c \in 97..122 \/ c \in 48..57

\* What punyDigit writes, the decoder reads.
LEMMA DigitOfValue ==
  ASSUME NEW d \in 0..35
  PROVE  DigitValue(PunyDigit(d)) = d /\ IsDigit(PunyDigit(d)) /\ PunyDigit(d) \in Nat
BY DEF DigitValue, PunyDigit, IsDigit

\* The digits of a number, and what each of them is worth.
LEMMA DigitsAre ==
  ASSUME NEW delta \in Nat, NEW bias \in Int
  PROVE  LET q == Left(delta, bias)
             turns == Turns(delta, bias)
             digits == Digits(delta, bias)
         IN  /\ digits \in Seq(Nat) /\ Len(digits) = turns + 1
             /\ \A j \in 1..(turns + 1) : IsDigit(digits[j])
             /\ \A j \in 1..turns :
                  /\ DigitValue(digits[j]) \in T(j, bias)..35
                  /\ q[j - 1] = DigitValue(digits[j]) + (36 - T(j, bias)) * q[j]
             /\ DigitValue(digits[turns + 1]) = q[turns]
<1> DEFINE q == Left(delta, bias)
           turns == Turns(delta, bias)
           digits == Digits(delta, bias)
           v(j) == IF j > turns THEN q[turns] ELSE T(j, bias) + ((q[j - 1] - T(j, bias)) % (36 - T(j, bias)))
<1>1. /\ q \in [0..delta -> Int] /\ q[0] = delta
      /\ \A j \in 1..delta : q[j] = (q[j - 1] - T(j, bias)) \div (36 - T(j, bias))
  BY LeftDef
<1>2. /\ turns \in 0..delta /\ q[turns] < T(turns + 1, bias)
      /\ \A i \in 1..turns : q[i - 1] >= T(i, bias)
      /\ \A i \in 0..turns : q[i] \in Nat
  BY TurnsAre
<1>3. digits = [j \in 1..(turns + 1) |-> PunyDigit(v(j))]
  <2>1. Base = 36
    BY DEF Base
  <2> QED
    BY <2>1 DEF Digits, T
<1> HIDE DEF q, turns, digits
<1>4. ASSUME NEW j \in 1..turns
      PROVE  v(j) \in T(j, bias)..35 /\ q[j - 1] = v(j) + (36 - T(j, bias)) * q[j]
  <2> DEFINE t == T(j, bias)
             a == q[j - 1] - t
             b == 36 - t
  <2>1. j \in 1..delta /\ ~(j > turns) /\ j - 1 \in 0..delta
    BY <1>2
  <2>2. t \in 1..26 /\ q[j - 1] \in Int
    BY <1>1, <2>1, TRange
  <2>3. q[j] = a \div b /\ v(j) = t + (a % b)
    BY <1>1, <2>1
  <2> HIDE DEF v, t
  <2>4. a \in Int /\ b \in Nat \ {0}
    BY <2>2
  <2>5. q[j - 1] = a + t /\ b = 36 - t
    BY <2>2
  <2> HIDE DEF a, b
  <2>6. a = b * (a \div b) + (a % b) /\ a % b \in 0..(b - 1) /\ a \div b \in Int
    BY <2>4, DivMod
  <2>7. v(j) \in t..35
    BY <2>2, <2>3, <2>4, <2>5, <2>6
  <2>8. q[j - 1] = v(j) + b * q[j]
    BY <2>2, <2>3, <2>4, <2>5, <2>6
  <2> QED
    BY <2>5, <2>7, <2>8 DEF t
<1>5. v(turns + 1) = q[turns] /\ q[turns] \in 0..25
  <2>1. T(turns + 1, bias) \in 1..26 /\ turns \in 0..turns
    BY <1>2, TRange
  <2>2. q[turns] \in Nat
    BY <1>2, <2>1
  <2>3. turns + 1 > turns
    BY <1>2
  <2> QED
    BY <1>2, <2>1, <2>2, <2>3
<1>6. ASSUME NEW j \in 1..(turns + 1) PROVE v(j) \in 0..35
  <2>1. CASE j = turns + 1
    BY <1>5, <2>1
  <2>2. CASE j # turns + 1
    <3>1. j \in 1..turns
      BY <1>2, <2>2
    <3>2. T(j, bias) \in 1..26
      BY <3>1, TRange
    <3>3. v(j) \in T(j, bias)..35
      BY <1>4, <3>1
    <3> HIDE DEF v
    <3> QED
      BY <3>2, <3>3
  <2> QED
    BY <2>1, <2>2
<1> HIDE DEF v
<1>7. ASSUME NEW j \in 1..(turns + 1)
      PROVE  digits[j] \in Nat /\ IsDigit(digits[j]) /\ DigitValue(digits[j]) = v(j)
  <2>1. digits[j] = PunyDigit(v(j))
    BY <1>3
  <2>2. v(j) \in 0..35
    BY <1>6
  <2> QED
    BY <2>1, <2>2, DigitOfValue
<1>8. digits \in Seq(Nat) /\ Len(digits) = turns + 1
  <2>1. turns + 1 \in Nat /\ \A j \in 1..(turns + 1) : PunyDigit(v(j)) \in Nat
    BY <1>2, <1>3, <1>7
  <2> QED
    BY <1>3, <2>1
<1>9. ASSUME NEW j \in 1..turns
      PROVE  /\ DigitValue(digits[j]) \in T(j, bias)..35
             /\ q[j - 1] = DigitValue(digits[j]) + (36 - T(j, bias)) * q[j]
  <2>1. j \in 1..(turns + 1)
    BY <1>2
  <2> QED
    BY <1>4, <1>7, <2>1
<1>10. DigitValue(digits[turns + 1]) = q[turns]
  <2>1. turns + 1 \in 1..(turns + 1)
    BY <1>2
  <2> QED
    BY <1>5, <1>7, <2>1
<1> QED
  BY <1>7, <1>8, <1>9, <1>10 DEF q, turns, digits

\* Worth as a loop.
LEMMA WorthDef ==
  ASSUME NEW text \in Seq(Nat), NEW at \in 1..(Len(text) + 1), NEW bias \in Int
  PROVE  LET f == Worth(text, at, bias)
             n == Len(text) + 1 - at
         IN  /\ f \in [0..n -> [value : Int, weight : Int]]
             /\ f[0] = [value |-> 0, weight |-> 1]
             /\ \A j \in 1..n :
                  /\ f[j].value = f[j - 1].value + DigitValue(text[at + j - 1]) * f[j - 1].weight
                  /\ f[j].weight = f[j - 1].weight * (36 - Limit(j, bias))
<1> DEFINE n == Len(text) + 1 - at
           S == [value : Int, weight : Int]
           a == [value |-> 0, weight |-> 1]
           next(m, x) == [value |-> x.value + DigitValue(text[at + m - 1]) * x.weight,
                          weight |-> x.weight * (36 - Limit(m, bias))]
           turn == [m \in 1..n |-> [x \in S |-> next(m, x)]]
<1>1. n \in Nat /\ a \in S
  OBVIOUS
<1>2. ASSUME NEW m \in 1..n, NEW x \in S PROVE next(m, x) \in S
  <2>1. Limit(m, bias) \in Int
    <3>1. m \in Int
      OBVIOUS
    <3> DEFINE t == T(m, bias)
               limit == Limit(m, bias)
    <3>2. t \in 1..26 /\ t = limit
      BY <3>1, TRange
    <3> HIDE DEF t, limit
    <3>3. limit \in Int
      BY <3>2
    <3> QED
      BY <3>3 DEF limit
  <2>2. at + m - 1 \in 1..Len(text)
    OBVIOUS
  <2>3. DigitValue(text[at + m - 1]) \in Int
    BY <2>2 DEF DigitValue
  <2>4. x.value \in Int /\ x.weight \in Int
    OBVIOUS
  <2>5. /\ x.value + DigitValue(text[at + m - 1]) * x.weight \in Int
        /\ x.weight * (36 - Limit(m, bias)) \in Int
    BY <2>1, <2>3, <2>4
  <2> QED
    BY <2>5
<1> HIDE DEF n, S, a, next
<1>3. StaysIn(S, turn, n)
  BY <1>2 DEF StaysIn
<1>4. PICK f : Follows(f, S, a, turn, n)
  <2> HIDE DEF turn
  <2> QED
    BY <1>1, <1>3, LoopExists, Zenon
<1>5. \A m \in 1..n : f[m] = next(m, f[m - 1])
  <2>1. \A m \in 1..n : f[m - 1] \in S
    BY <1>1, <1>4 DEF Follows
  <2> QED
    BY <1>4, <2>1 DEF Follows
<1>6. f = [j \in 0..n |-> IF j = 0 THEN a ELSE next(j, f[j - 1])]
  BY <1>1, <1>4, <1>5 DEF Follows
<1> DEFINE g == Worth(text, at, bias)
<1>7. g = [j \in 0..n |-> IF j = 0 THEN a ELSE next(j, g[j - 1])]
  BY <1>6, Zenon DEF Worth, n, a, next
<1> HIDE DEF g
<1>8. g[0] = a /\ \A j \in 1..n : g[j] = next(j, g[j - 1])
  BY <1>1, <1>7
<1>9. \A m \in 0..n : g[m] \in S
  <2>1. g[0] \in S /\ \A m \in 1..n : g[m - 1] \in S => g[m] \in S
    BY <1>1, <1>2, <1>8
  <2> QED
    BY <1>1, <2>1, LoopKeeps, Zenon
<1>10. g \in [0..n -> S]
  BY <1>7, <1>9
<1>11. g[0] = [value |-> 0, weight |-> 1]
  BY <1>8 DEF a
<1>12. ASSUME NEW j \in 1..n
       PROVE  /\ g[j].value = g[j - 1].value + DigitValue(text[at + j - 1]) * g[j - 1].weight
              /\ g[j].weight = g[j - 1].weight * (36 - Limit(j, bias))
  <2>1. g[j] = next(j, g[j - 1])
    BY <1>8
  <2> DEFINE x == g[j - 1]
             y == g[j]
  <2>2. y = [value |-> x.value + DigitValue(text[at + j - 1]) * x.weight,
             weight |-> x.weight * (36 - Limit(j, bias))]
    BY <2>1 DEF next
  <2> HIDE DEF x, y
  <2>3. /\ y.value = x.value + DigitValue(text[at + j - 1]) * x.weight
        /\ y.weight = x.weight * (36 - Limit(j, bias))
    BY <2>2
  <2> QED
    BY <2>3 DEF x, y
<1> QED
  BY <1>10, <1>11, <1>12, Zenon DEF n, S, g

\* s stands in text from position at on.
Stands(s, text, at) ==
  at + Len(s) - 1 <= Len(text) /\ \A j \in 1..Len(s) : text[at + j - 1] = s[j]

\* By the decoder the digits of a number are as many as the encoder has
\* written, and worth the number.
LEMMA NumberRead ==
  ASSUME NEW delta \in Nat, NEW bias \in Int,
         NEW text \in Seq(Nat), NEW at \in Nat \ {0}, Stands(Digits(delta, bias), text, at)
  PROVE  LET length == Length(text, at, bias)
         IN  /\ length = Len(Digits(delta, bias))
             /\ Worth(text, at, bias)[length].value = delta
<1> DEFINE q == Left(delta, bias)
           turns == Turns(delta, bias)
           digits == Digits(delta, bias)
           n == Len(text) + 1 - at
           w == Worth(text, at, bias)
           digit(j) == DigitValue(text[at + j - 1])
<1>1. /\ digits \in Seq(Nat) /\ Len(digits) = turns + 1
      /\ \A j \in 1..turns :
           /\ DigitValue(digits[j]) \in T(j, bias)..35
           /\ q[j - 1] = DigitValue(digits[j]) + (36 - T(j, bias)) * q[j]
      /\ DigitValue(digits[turns + 1]) = q[turns]
  BY DigitsAre
<1>2. turns \in Nat /\ q[turns] < T(turns + 1, bias) /\ \A i \in 0..turns : q[i] \in Nat
  <2>1. turns \in 0..delta /\ q[turns] < T(turns + 1, bias) /\ \A i \in 0..turns : q[i] \in Nat
    BY TurnsAre
  <2> QED
    BY <2>1
<1>3. q[0] = delta
  BY LeftDef
<1> HIDE DEF q, turns, digits
<1>4. at + turns <= Len(text) /\ \A j \in 1..(turns + 1) : text[at + j - 1] = digits[j]
  <2>1. at + Len(digits) - 1 <= Len(text) /\ \A j \in 1..Len(digits) : text[at + j - 1] = digits[j]
    BY DEF Stands, digits
  <2>2. at + (turns + 1) - 1 = at + turns
    BY <1>2
  <2> QED
    BY <1>1, <2>1, <2>2
<1>5. Len(text) \in Nat /\ at \in 1..(Len(text) + 1) /\ n \in Nat /\ turns + 1 \in 1..n
  <2>1. Len(text) \in Nat
    OBVIOUS
  <2> QED
    BY <1>2, <1>4, <2>1
<1>6. ASSUME NEW j \in 1..turns
      PROVE  digit(j) \in T(j, bias)..35 /\ q[j - 1] = digit(j) + (36 - T(j, bias)) * q[j]
  <2>1. j \in 1..(turns + 1)
    BY <1>2
  <2>2. digit(j) = DigitValue(digits[j])
    BY <1>4, <2>1
  <2> HIDE DEF digit
  <2> QED
    BY <1>1, <2>2
<1>7. digit(turns + 1) = q[turns]
  <2>1. turns + 1 \in 1..(turns + 1)
    BY <1>2
  <2> QED
    BY <1>1, <1>4, <2>1
<1> HIDE DEF digit
<1>8. \A j \in Int : Limit(j, bias) = T(j, bias) /\ T(j, bias) \in 1..26
  BY TRange
<1> DEFINE P(j) == digit(j) < Limit(j, bias) /\ \A i \in 1..(j - 1) : digit(i) >= Limit(i, bias)
<1>9. P(turns + 1)
  <2>1. digit(turns + 1) < Limit(turns + 1, bias)
    BY <1>2, <1>7, <1>8
  <2>2. ASSUME NEW i \in 1..((turns + 1) - 1) PROVE digit(i) >= Limit(i, bias)
    <3>1. i \in 1..turns /\ i \in Int
      BY <1>2
    <3> QED
      BY <1>6, <1>8, <3>1
  <2> QED
    BY <2>1, <2>2
<1>10. ASSUME NEW j \in 1..n, P(j) PROVE j = turns + 1
  <2>1. ~(j < turns + 1)
    <3> SUFFICES ASSUME j < turns + 1 PROVE FALSE
      OBVIOUS
    <3>1. j \in 1..turns /\ j \in Int
      BY <1>2
    <3>2. digit(j) \in T(j, bias)..35 /\ Limit(j, bias) = T(j, bias) /\ T(j, bias) \in 1..26
      BY <1>6, <1>8, <3>1
    <3>3. digit(j) < T(j, bias)
      BY <1>10, <3>2
    <3> DEFINE t == T(j, bias)
               d == digit(j)
    <3>4. d \in t..35 /\ t \in 1..26 /\ d < t
      BY <3>2, <3>3
    <3> HIDE DEF t, d
    <3> QED
      BY <3>4
  <2>2. ~(turns + 1 < j)
    <3> SUFFICES ASSUME turns + 1 < j PROVE FALSE
      OBVIOUS
    <3>1. turns + 1 \in 1..(j - 1) /\ turns + 1 \in Int
      BY <1>2, <1>5
    <3>2. digit(turns + 1) >= Limit(turns + 1, bias)
      BY <1>10, <3>1
    <3>3. Limit(turns + 1, bias) = T(turns + 1, bias) /\ T(turns + 1, bias) \in 1..26
      BY <1>8, <3>1
    <3>4. q[turns] \in Nat
      BY <1>2
    <3>5. q[turns] >= T(turns + 1, bias)
      BY <1>7, <3>2, <3>3
    <3> DEFINE t == T(turns + 1, bias)
               d == q[turns]
    <3>6. t \in 1..26 /\ d \in Nat /\ d >= t /\ d < t
      BY <1>2, <3>3, <3>4, <3>5
    <3> HIDE DEF t, d
    <3> QED
      BY <3>6
  <2> QED
    BY <1>2, <1>5, <2>1, <2>2
<1>11. Length(text, at, bias) = turns + 1
  <2> DEFINE length == Length(text, at, bias)
  <2>1. length = CHOOSE j \in 1..n : P(j)
    BY DEF Length, digit
  <2> HIDE DEF P, length, n
  <2>2. length \in 1..n /\ P(length)
    BY <1>5, <1>9, <2>1, Zenon
  <2>3. length = turns + 1
    BY <1>10, <2>2
  <2> QED
    BY <2>3 DEF length
<1>12. /\ w \in [0..n -> [value : Int, weight : Int]]
       /\ w[0] = [value |-> 0, weight |-> 1]
       /\ \A j \in 1..n : /\ w[j].value = w[j - 1].value + digit(j) * w[j - 1].weight
                          /\ w[j].weight = w[j - 1].weight * (36 - Limit(j, bias))
  BY <1>5, WorthDef DEF digit
<1> HIDE DEF w, n, P
<1>13. ASSUME NEW j \in 0..n PROVE w[j].value \in Int /\ w[j].weight \in Int
  BY <1>12
<1> DEFINE U == {j \in Nat : j <= turns => w[j].value + w[j].weight * q[j] = delta}
<1>14. 0 \in U
  BY <1>3, <1>12
<1>15. ASSUME NEW k \in Nat, k \in U PROVE k + 1 \in U
  <2> SUFFICES ASSUME k + 1 <= turns PROVE w[k + 1].value + w[k + 1].weight * q[k + 1] = delta
    OBVIOUS
  <2> DEFINE j == k + 1
             v == digit(j)
             t == T(j, bias)
  <2>1. j \in 1..n /\ j \in 1..turns /\ j - 1 = k /\ j \in Int /\ k \in 0..n /\ k \in 0..turns /\ j \in 0..turns
    BY <1>2, <1>5
  <2>2. w[k].value \in Int /\ w[k].weight \in Int /\ q[k] \in Nat /\ q[j] \in Nat
    BY <1>2, <1>13, <2>1
  <2>3. v \in Int /\ t \in Int /\ Limit(j, bias) = t
    <3> HIDE DEF j
    <3>1. Limit(j, bias) = t /\ t \in 1..26 /\ v \in t..35
      BY <1>6, <1>8, <2>1
    <3> HIDE DEF t, v
    <3> QED
      BY <3>1
  <2>4. q[k] = v + (36 - t) * q[j]
    BY <1>6, <2>1
  <2>5. w[j].value = w[k].value + v * w[k].weight /\ w[j].weight = w[k].weight * (36 - t)
    BY <1>12, <2>1, <2>3
  <2>6. w[k].value + w[k].weight * q[k] = delta
    BY <1>15, <2>1
  <2> DEFINE x == w[k].value
             y == w[k].weight
             z == q[j]
  <2>7. w[j].value + w[j].weight * z = (x + v * y) + (y * (36 - t)) * z
    BY <2>5
  <2>8. x + y * (v + (36 - t) * z) = delta
    BY <2>4, <2>6
  <2>9. x \in Int /\ y \in Int /\ z \in Int
    BY <2>2
  <2> HIDE DEF v, t, x, y, z
  <2>10. (x + v * y) + (y * (36 - t)) * z = x + y * (v + (36 - t) * z)
    BY <2>3, <2>9
  <2> QED
    BY <2>7, <2>8, <2>10 DEF z
<1>16. w[turns].value + w[turns].weight * q[turns] = delta
  <2>1. turns \in U
    <3> HIDE DEF U
    <3> QED
      BY <1>2, <1>14, <1>15, Induction
  <2> QED
    BY <1>2, <2>1
<1>17. w[turns + 1].value = delta
  <2>1. turns + 1 \in 1..n /\ (turns + 1) - 1 = turns /\ turns \in 0..n /\ turns \in 0..turns
    BY <1>2, <1>5
  <2>2. w[turns + 1].value = w[turns].value + q[turns] * w[turns].weight
    BY <1>7, <1>12, <2>1
  <2>3. w[turns].value \in Int /\ w[turns].weight \in Int /\ q[turns] \in Nat
    BY <1>2, <1>13, <2>1
  <2>4. q[turns] * w[turns].weight = w[turns].weight * q[turns]
    BY <2>3
  <2> QED
    BY <1>16, <2>2, <2>4
<1> QED
  BY <1>1, <1>11, <1>17 DEF w, digits

-----------------------------------------------------------------------------
(* The loop of the decoder *)

\* Insertions as a loop.
LEMMA InsertionsDef ==
  ASSUME NEW text \in Seq(Nat), NEW at, NEW basic
  PROVE  LET f == Insertions(text, at, basic)
         IN  /\ f[0] = [at |-> at, out |-> basic, n |-> 128, i |-> 0, bias |-> 72]
             /\ \A j \in 1..Len(text) :
                  f[j] = IF f[j - 1].at > Len(text) THEN f[j - 1] ELSE Insertion(text, f[j - 1])
<1> DEFINE n == Len(text)
           a == [at |-> at, out |-> basic, n |-> 128, i |-> 0, bias |-> 72]
           next(s) == IF s.at > Len(text) THEN s ELSE Insertion(text, s)
           Loop(f, k) == f = [m \in 0..k |-> IF m = 0 THEN a ELSE next(f[m - 1])]
           U == {k \in Nat : \E f : Loop(f, k)}
<1> HIDE DEF a, next
<1>1. 0 \in U
  <2>1. Loop([m \in 0..0 |-> a], 0)
    OBVIOUS
  <2> HIDE DEF Loop
  <2> QED
    BY <2>1
<1>2. ASSUME NEW k \in Nat, k \in U PROVE k + 1 \in U
  <2>1. PICK f : Loop(f, k)
    BY <1>2
  <2> DEFINE g == [m \in 0..(k + 1) |-> IF m = k + 1 THEN next(f[k]) ELSE f[m]]
  <2>2. ASSUME NEW m \in 0..(k + 1)
        PROVE  g[m] = IF m = 0 THEN a ELSE next(g[m - 1])
    <3>1. CASE m = k + 1
      BY <3>1
    <3>2. CASE m # k + 1
      <4>1. m \in 0..k /\ g[m] = f[m] /\ (m # 0 => g[m - 1] = f[m - 1])
        BY <3>2
      <4> QED
        BY <2>1, <4>1
    <3> QED
      BY <3>1, <3>2
  <2>3. Loop(g, k + 1)
    <3>1. DOMAIN g = 0..(k + 1) /\ g = [m \in 0..(k + 1) |-> g[m]]
      OBVIOUS
    <3> HIDE DEF g
    <3> QED
      BY <2>2, <3>1
  <2> HIDE DEF Loop, g
  <2> QED
    BY <2>3
<1>3. n \in Nat
  OBVIOUS
<1>4. \E f : Loop(f, n)
  <2> HIDE DEF Loop, n
  <2>1. Nat \subseteq U
    <3> HIDE DEF U
    <3> QED
      BY <1>1, <1>2, Induction
  <2> QED
    BY <1>3, <2>1
<1> DEFINE g == Insertions(text, at, basic)
<1>5. Loop(g, n)
  BY <1>4, Zenon DEF Insertions, a, next
<1> HIDE DEF g, n
<1>6. g[0] = a /\ \A j \in 1..n : g[j] = next(g[j - 1])
  BY <1>3, <1>5
<1> QED
  BY <1>6 DEF g, n, a, next

-----------------------------------------------------------------------------
(* The loops of the encoder *)

\* The variables of punyLabel.
EncState == [out : Seq(Nat), n : Nat, bias : Nat, delta : Nat, handled : Nat]

\* A number is written as at least one digit.
LEMMA DigitsType ==
  ASSUME NEW delta \in Nat, NEW bias \in Nat
  PROVE  /\ Digits(delta, bias) \in Seq(Nat) /\ Len(Digits(delta, bias)) \in Nat \ {0}
         /\ \A j \in 1..Len(Digits(delta, bias)) : IsDigit(Digits(delta, bias)[j])
<1>1. bias \in Int
  OBVIOUS
<1> DEFINE turns == Turns(delta, bias)
           digits == Digits(delta, bias)
<1>2. turns \in 0..delta
  BY <1>1, TurnsAre
<1>3. digits \in Seq(Nat) /\ Len(digits) = turns + 1 /\ \A j \in 1..(turns + 1) : IsDigit(digits[j])
  BY <1>1, DigitsAre
<1> HIDE DEF turns, digits
<1>4. Len(digits) \in Nat \ {0} /\ \A j \in 1..Len(digits) : IsDigit(digits[j])
  BY <1>2, <1>3
<1> QED
  BY <1>3, <1>4 DEF digits

\* What a turn does for a code point of the round.
LEMMA RuneIs ==
  ASSUME NEW label, NEW s \in EncState
  PROVE  Rune(label, s, s.n) =
           [out |-> s.out \o Digits(s.delta, s.bias), n |-> s.n,
            bias |-> PunyAdapt(s.delta, s.handled + 1, s.handled = Len(Basic(label))),
            delta |-> 0, handled |-> s.handled + 1]
<1>1. s.n \in Nat /\ s = [out |-> s.out, n |-> s.n, bias |-> s.bias, delta |-> s.delta, handled |-> s.handled]
  BY DEF EncState
<1>2. ~(s.n < s.n)
  BY <1>1
<1>3. Rune(label, s, s.n) =
        [s EXCEPT !.out = @ \o Digits(s.delta, s.bias),
                  !.bias = PunyAdapt(s.delta, s.handled + 1, s.handled = Len(Basic(label))),
                  !.delta = 0,
                  !.handled = @ + 1]
  BY <1>2 DEF Rune
<1> QED
  BY <1>1, <1>3

\* A turn of the loop over a label leaves n alone.
LEMMA RuneKeeps ==
  ASSUME NEW label, NEW s \in EncState, NEW c \in Nat
  PROVE  Rune(label, s, c) \in EncState /\ Rune(label, s, c).n = s.n
<1>1. /\ s.out \in Seq(Nat) /\ s.n \in Nat /\ s.bias \in Nat /\ s.delta \in Nat /\ s.handled \in Nat
      /\ s = [out |-> s.out, n |-> s.n, bias |-> s.bias, delta |-> s.delta, handled |-> s.handled]
  BY DEF EncState
<1>2. CASE c < s.n
  <2>1. Rune(label, s, c) = [s EXCEPT !.delta = @ + 1]
    BY <1>1, <1>2 DEF Rune
  <2> QED
    BY <1>1, <2>1 DEF EncState
<1>3. CASE c = s.n
  <2> DEFINE r == Rune(label, s, c)
  <2>1. r = [out |-> s.out \o Digits(s.delta, s.bias), n |-> s.n,
             bias |-> PunyAdapt(s.delta, s.handled + 1, s.handled = Len(Basic(label))),
             delta |-> 0, handled |-> s.handled + 1]
    BY <1>3, RuneIs
  <2>2. s.out \o Digits(s.delta, s.bias) \in Seq(Nat)
    <3>1. Digits(s.delta, s.bias) \in Seq(Nat)
      BY <1>1, DigitsType
    <3> QED
      BY <1>1, <3>1, ConcatProperties
  <2>3. PunyAdapt(s.delta, s.handled + 1, s.handled = Len(Basic(label))) \in Nat
    <3> DEFINE first == s.handled = Len(Basic(label))
    <3>1. s.handled + 1 \in Nat \ {0} /\ first \in BOOLEAN
      BY <1>1
    <3> HIDE DEF first
    <3>2. PunyAdapt(s.delta, s.handled + 1, first) \in Nat
      BY <1>1, <3>1, AdaptIsBias
    <3> QED
      BY <3>2 DEF first
  <2> HIDE DEF r
  <2>4. s.handled + 1 \in Nat
    BY <1>1
  <2>5. r \in EncState /\ r.n = s.n
    BY <1>1, <2>1, <2>2, <2>3, <2>4 DEF EncState
  <2> QED
    BY <2>5 DEF r
<1>4. CASE c > s.n
  <2>1. Rune(label, s, c) = s
    BY <1>1, <1>4 DEF Rune
  <2> QED
    BY <2>1
<1> QED
  BY <1>1, <1>2, <1>3, <1>4

\* Runes as a loop.
LEMMA RunesDef ==
  ASSUME NEW label \in Seq(Nat), NEW s \in EncState
  PROVE  LET f == Runes(label, s)
         IN  /\ f \in [0..Len(label) -> EncState] /\ f[0] = s
             /\ \A p \in 1..Len(label) : f[p] = Rune(label, f[p - 1], label[p])
<1> DEFINE n == Len(label)
           turn == [p \in 1..n |-> [x \in EncState |-> Rune(label, x, label[p])]]
<1>1. n \in Nat /\ \A p \in 1..n : label[p] \in Nat
  OBVIOUS
<1>2. \A p \in 1..n : \A x \in EncState : Rune(label, x, label[p]) \in EncState
  BY <1>1, RuneKeeps
<1> HIDE DEF n
<1>3. StaysIn(EncState, turn, n)
  BY <1>2 DEF StaysIn
<1>4. PICK f : Follows(f, EncState, s, turn, n)
  <2> HIDE DEF turn
  <2> QED
    BY <1>1, <1>3, LoopExists, Zenon
<1>5. \A p \in 1..n : f[p] = Rune(label, f[p - 1], label[p])
  <2>1. \A p \in 1..n : f[p - 1] \in EncState
    BY <1>1, <1>4 DEF Follows
  <2> QED
    BY <1>4, <2>1 DEF Follows
<1>6. f = [p \in 0..n |-> IF p = 0 THEN s ELSE Rune(label, f[p - 1], label[p])]
  BY <1>1, <1>4, <1>5 DEF Follows
<1> DEFINE g == Runes(label, s)
<1>7. g = [p \in 0..n |-> IF p = 0 THEN s ELSE Rune(label, g[p - 1], label[p])]
  BY <1>6, Zenon DEF Runes, n
<1> HIDE DEF g
<1>8. g[0] = s /\ \A p \in 1..n : g[p] = Rune(label, g[p - 1], label[p])
  BY <1>1, <1>7
<1>9. \A p \in 0..n : g[p] \in EncState
  <2>1. g[0] \in EncState /\ \A p \in 1..n : g[p - 1] \in EncState => g[p] \in EncState
    BY <1>2, <1>8
  <2> QED
    BY <1>1, <2>1, LoopKeeps, Zenon
<1>10. g \in [0..n -> EncState]
  BY <1>7, <1>9
<1> QED
  BY <1>8, <1>10 DEF g, n

-----------------------------------------------------------------------------
(* What the decoder has read when the encoder has written so much *)

\* The first place after the hyphen.
First(label) == Len(Basic(label)) + (IF Basic(label) # <<>> THEN 2 ELSE 1)

\* text begins with what follows xn-- in out.
Continues(text, out) == Len(out) - 4 <= Len(text) /\ \A j \in 5..Len(out) : text[j - 4] = out[j]

\* The state of the decoder after the first k numbers.
After(text, label, k) == Insertions(text, First(label), Basic(label))[k]

\* What is written is the beginning and some digits.
Emitted(label, out) ==
  /\ Len(out) >= First(label) + 3
  /\ \A j \in 1..(First(label) + 3) : out[j] = Begun(label).out[j]
  /\ \A j \in (First(label) + 4)..Len(out) : IsDigit(out[j])

\* The encoder is in state s, has come past c of the places E, which are the
\* ones it has written, and the decoder is in state d.
Agrees(d, label, s, E, c) ==
  /\ d.at = Len(s.out) - 3
  /\ d.out = Picked(label, E)
  /\ d.n \in 0..s.n
  /\ d.i \in 0..s.handled
  /\ d.i = 0 <=> s.handled = Len(Basic(label))
  /\ d.bias = s.bias
  /\ s.delta = (s.n - d.n) * (s.handled + 1) + c - d.i

\* Whatever will be written, the decoder makes the entries at the places E of
\* what is written now.
Matches(label, s, E, c) ==
  /\ E \in SUBSET (1..Len(label))
  /\ s.handled = Cardinality(E)
  /\ s.handled >= Len(Basic(label))
  /\ Len(s.out) >= First(label) + 3 + (s.handled - Len(Basic(label)))
  /\ Emitted(label, s.out)
  /\ \A text \in Seq(Nat) :
       Continues(text, s.out)
         => Agrees(After(text, label, s.handled - Len(Basic(label))), label, s, E, c)

\* The decoder inserts the code point of the round at its place.
Placed(text, d, label, s, E, p) ==
  LET c == Cardinality(E \cap (1..(p - 1)))
  IN  /\ c \in 0..s.handled
      /\ Insertion(text, d) =
           [at |-> Len(s.out) - 3 + Len(Digits(s.delta, s.bias)),
            out |-> Picked(label, E \cup {p}), n |-> s.n, i |-> c + 1,
            bias |-> PunyAdapt(s.delta, s.handled + 1, s.handled = Len(Basic(label)))]

\* One number read.
LEMMA NumberPlaced ==
  ASSUME NEW label \in Seq(Nat), NEW s \in EncState, NEW E \in SUBSET (1..Len(label)),
         NEW p \in 1..Len(label), p \notin E, label[p] = s.n, s.handled = Cardinality(E),
         NEW d, Agrees(d, label, s, E, Cardinality(E \cap (1..(p - 1)))),
         NEW text \in Seq(Nat), d.at >= 1, Stands(Digits(s.delta, s.bias), text, d.at)
  PROVE  Placed(text, d, label, s, E, p)
<1> DEFINE A == E \cap (1..(p - 1))
           c == Cardinality(A)
           h == s.handled
           size == h + 1
           length == Length(text, d.at, d.bias)
           value == Worth(text, d.at, d.bias)[length].value
           first == h = Len(Basic(label))
<1>1. /\ s.out \in Seq(Nat) /\ s.n \in Nat /\ s.bias \in Nat /\ s.delta \in Nat /\ h \in Nat
      /\ Len(s.out) \in Nat
  BY DEF EncState
<1>2. /\ Picked(label, E) \in Seq(Nat) /\ Len(Picked(label, E)) = h
      /\ c \in Nat /\ c <= h
  <2>1. Picked(label, E) \in Seq(Nat) /\ IsFiniteSet(E) /\ Len(Picked(label, E)) = Cardinality(E)
    BY PickedLength
  <2>2. A \in SUBSET E
    OBVIOUS
  <2> HIDE DEF A
  <2>3. IsFiniteSet(A) /\ Cardinality(A) <= Cardinality(E)
    BY <2>1, <2>2, FS_Subset
  <2>4. Cardinality(A) \in Nat
    BY <2>3, FS_CardinalityType
  <2> QED
    BY <2>1, <2>3, <2>4
<1>3. /\ d.at = Len(s.out) - 3 /\ d.out = Picked(label, E)
      /\ d.n \in 0..s.n /\ d.i \in 0..h /\ (d.i = 0 <=> first) /\ d.bias = s.bias
      /\ s.delta = (s.n - d.n) * size + c - d.i
  BY DEF Agrees
<1> HIDE DEF c, A, first
<1> DEFINE at == d.at
           i == d.i
           dn == d.n
           n == s.n
           delta == s.delta
           bias == s.bias
           len == Len(s.out)
           e == n - dn
           place == i + value
<1>11. /\ at = len - 3 /\ dn \in 0..n /\ i \in 0..h /\ delta = (n - dn) * size + c - i /\ at >= 1
       /\ len \in Nat /\ n \in Nat /\ delta \in Nat /\ bias \in Nat /\ h \in Nat /\ d.bias = bias
  BY <1>1, <1>3
<1>4. length = Len(Digits(delta, bias)) /\ value = delta
  <2>1. at \in Nat \ {0} /\ bias \in Int
    <3> HIDE DEF at, i, dn, n, delta, bias, len, e, place
    <3> QED
      BY <1>11
  <2>2. Stands(Digits(delta, bias), text, at) /\ delta \in Nat
    BY <1>11
  <2>3. length = Length(text, at, bias) /\ value = Worth(text, at, bias)[length].value
    BY <1>11
  <2> HIDE DEF length, value, delta, at, bias
  <2>4. /\ Length(text, at, bias) = Len(Digits(delta, bias))
        /\ Worth(text, at, bias)[Length(text, at, bias)].value = delta
    BY <2>1, <2>2, NumberRead
  <2> QED
    BY <2>3, <2>4
<1> HIDE DEF length, value, h
<1>5. place = size * e + c /\ e \in Int /\ size \in Nat \ {0} /\ c \in 0..(size - 1)
  <2> HIDE DEF i, dn, n, delta, bias, len
  <2>1. e \in Int /\ i \in Int /\ size \in Nat \ {0} /\ c \in Int /\ c \in 0..(size - 1)
    BY <1>2, <1>11
  <2>2. place = i + (e * size + c - i)
    BY <1>4, <1>11
  <2>3. e * size \in Int /\ e * size = size * e
    BY <2>1
  <2> HIDE DEF place, e, size
  <2> QED
    BY <2>1, <2>2, <2>3
<1>6. place \div size = e /\ place % size = c
  <2> HIDE DEF place, e, size
  <2> QED
    BY <1>5, DivModUnique
<1>7. dn + place \div size = n
  <2>1. dn \in Int /\ n \in Int
    <3> HIDE DEF i, dn, n, delta, bias, len
    <3> QED
      BY <1>11
  <2>2. dn + place \div size = dn + (n - dn)
    <3> HIDE DEF place, size
    <3> QED
      BY <1>6
  <2> HIDE DEF place, size, dn, n
  <2> QED
    BY <2>1, <2>2
<1>8. Insertion(text, d) =
        [at |-> d.at + length, out |-> InsertAt(d.out, (place % size) + 1, d.n + place \div size),
         n |-> d.n + place \div size, i |-> (place % size) + 1,
         bias |-> Bias(value, size, d.i = 0)]
  <2>1. Len(d.out) + 1 = size
    BY <1>2, <1>3
  <2> QED
    BY <2>1 DEF Insertion, length, value
<1>9. InsertAt(d.out, c + 1, s.n) = Picked(label, E \cup {p})
  <2>1. InsertAt(Picked(label, E), Cardinality(E \cap (1..(p - 1))) + 1, label[p]) = Picked(label, E \cup {p})
    BY PickedInserted
  <2> QED
    BY <1>3, <2>1 DEF c, A
<1>10. Bias(value, size, d.i = 0) = PunyAdapt(s.delta, size, first)
  <2>1. (d.i = 0) = first /\ first \in BOOLEAN
    BY <1>3 DEF first
  <2>2. size \in Nat \ {0}
    BY <1>5
  <2> HIDE DEF size
  <2>3. Bias(s.delta, size, first) = PunyAdapt(s.delta, size, first)
    BY <1>1, <2>1, <2>2, AdaptIsBias
  <2> QED
    BY <1>4, <2>1, <2>3
<1> HIDE DEF place
<1>12. Insertion(text, d) =
        [at |-> d.at + length, out |-> Picked(label, E \cup {p}), n |-> s.n, i |-> c + 1,
         bias |-> PunyAdapt(s.delta, size, first)]
  BY <1>6, <1>7, <1>8, <1>9, <1>10
<1>13. c \in 0..h
  BY <1>1, <1>2
<1>14. Insertion(text, d) =
         [at |-> len - 3 + Len(Digits(delta, bias)), out |-> Picked(label, E \cup {p}), n |-> s.n,
          i |-> c + 1, bias |-> PunyAdapt(s.delta, size, first)]
  <2>1. d.at + length = len - 3 + Len(Digits(delta, bias))
    BY <1>4, <1>11
  <2> QED
    BY <1>12, <2>1
<1> QED
  BY <1>13, <1>14, Zenon DEF Placed, first, h, c, A

\* A loop of the decoder.
Inserts(f, text) ==
  \A j \in 1..Len(text) :
    f[j] = IF f[j - 1].at > Len(text) THEN f[j - 1] ELSE Insertion(text, f[j - 1])

\* Insertions is a loop of the decoder.
LEMMA InsertionsInsert ==
  ASSUME NEW text \in Seq(Nat), NEW at, NEW basic
  PROVE  /\ Inserts(Insertions(text, at, basic), text)
         /\ Insertions(text, at, basic)[0] = [at |-> at, out |-> basic, n |-> 128, i |-> 0, bias |-> 72]
<1> DEFINE f == Insertions(text, at, basic)
<1>1. /\ f[0] = [at |-> at, out |-> basic, n |-> 128, i |-> 0, bias |-> 72]
      /\ \A j \in 1..Len(text) :
           f[j] = IF f[j - 1].at > Len(text) THEN f[j - 1] ELSE Insertion(text, f[j - 1])
  BY InsertionsDef
<1> HIDE DEF f
<1>2. Inserts(f, text)
  BY <1>1, Zenon DEF Inserts
<1> QED
  BY <1>1, <1>2 DEF f

\* How long the part in ASCII is.
LEMMA BasicType ==
  ASSUME NEW label \in Seq(Nat)
  PROVE  /\ Basic(label) \in Seq(Nat) /\ Len(Basic(label)) \in Nat
         /\ First(label) \in Nat \ {0} /\ First(label) >= Len(Basic(label)) + 1
<1> DEFINE I == {i \in DOMAIN label : label[i] < InitialN}
<1>1. I \in SUBSET DOMAIN label
  OBVIOUS
<1> HIDE DEF I
<1>2. Picked(label, I) \in Seq(Nat)
  BY <1>1, PickedPicks
<1>3. Basic(label) \in Seq(Nat)
  BY <1>2 DEF Basic, I
<1>4. Len(Basic(label)) \in Nat
  BY <1>3
<1> QED
  BY <1>3, <1>4 DEF First

\* A step that writes nothing.
LEMMA MatchesMoved ==
  ASSUME NEW label \in Seq(Nat), NEW s \in EncState, NEW t \in EncState, NEW E,
         NEW c \in Int, NEW b \in Int, Matches(label, s, E, b),
         t.out = s.out, t.handled = s.handled, t.bias = s.bias, t.n >= s.n,
         t.delta = s.delta + (t.n - s.n) * (s.handled + 1) + c - b
  PROVE  Matches(label, t, E, c)
<1>1. ASSUME NEW d, Agrees(d, label, s, E, b) PROVE Agrees(d, label, t, E, c)
  <2> DEFINE h == s.handled
             m == t.n
             n == s.n
             dn == d.n
             di == d.i
             size == h + 1
  <2>1. h \in Nat /\ m \in Nat /\ n \in Nat /\ m >= n /\ dn \in 0..n /\ di \in 0..h
    BY <1>1 DEF Agrees, EncState
  <2>2. t.delta = ((n - dn) * size + b - di) + (m - n) * size + c - b
    BY <1>1 DEF Agrees
  <2>3. dn \in 0..m
    <3> HIDE DEF h, m, n, dn, di
    <3> QED
      BY <2>1
  <2>4. t.delta = (m - dn) * size + c - di
    <3> DEFINE x == m - n
               y == n - dn
    <3>1. x \in Int /\ y \in Int /\ size \in Int /\ di \in Int /\ m - dn = x + y
      <4> HIDE DEF h, m, n, dn, di
      <4> QED
        BY <2>1
    <3>2. t.delta = (y * size + b - di) + x * size + c - b
      BY <2>2
    <3> HIDE DEF x, y, size, di, m, n, dn
    <3>3. (x + y) * size = x * size + y * size /\ x * size \in Int /\ y * size \in Int
      BY <3>1
    <3> QED
      BY <3>1, <3>2, <3>3
  <2> HIDE DEF m, dn, di
  <2>5. /\ d.at = Len(t.out) - 3 /\ d.out = Picked(label, E)
        /\ d.i = 0 <=> t.handled = Len(Basic(label))
        /\ d.bias = t.bias
    BY <1>1 DEF Agrees
  <2> QED
    BY <2>1, <2>3, <2>4, <2>5 DEF Agrees, m, dn, di, h
<1> QED
  BY <1>1 DEF Matches

\* The number that a code point of the round is written as.
LEMMA Emits ==
  ASSUME NEW label \in Seq(Nat), NEW s \in EncState, NEW E,
         NEW p \in 1..Len(label), p \notin E, label[p] = s.n,
         Matches(label, s, E, Cardinality(E \cap (1..(p - 1))))
  PROVE  Matches(label, Rune(label, s, s.n), E \cup {p}, Cardinality(E \cap (1..(p - 1))) + 1)
<1> DEFINE c == Cardinality(E \cap (1..(p - 1)))
           r == Rune(label, s, s.n)
           digits == Digits(s.delta, s.bias)
           basic == Len(Basic(label))
           first == First(label)
           h == s.handled
           k == h - basic
           len == Len(s.out)
           bias == PunyAdapt(s.delta, h + 1, h = basic)
<1>1. r = [out |-> s.out \o digits, n |-> s.n, bias |-> bias, delta |-> 0, handled |-> h + 1]
  BY RuneIs
<1>2. /\ s.out \in Seq(Nat) /\ s.n \in Nat /\ s.bias \in Nat /\ s.delta \in Nat /\ h \in Nat
      /\ len \in Nat
  BY DEF EncState
<1>3. basic \in Nat /\ first \in Nat \ {0} /\ first >= basic + 1
  BY BasicType
<1>4. digits \in Seq(Nat) /\ Len(digits) \in Nat \ {0} /\ \A j \in 1..Len(digits) : IsDigit(digits[j])
  BY <1>2, DigitsType
<1>5. /\ E \in SUBSET (1..Len(label)) /\ h = Cardinality(E) /\ h >= basic
      /\ len >= first + 3 + k /\ Emitted(label, s.out)
      /\ \A text \in Seq(Nat) : Continues(text, s.out) => Agrees(After(text, label, k), label, s, E, c)
  BY DEF Matches
<1> HIDE DEF c, r, digits, basic, first, bias
<1>6. /\ s.out \o digits \in Seq(Nat) /\ Len(s.out \o digits) = len + Len(digits)
      /\ \A i \in 1..len : (s.out \o digits)[i] = s.out[i]
      /\ \A i \in 1..Len(digits) : (s.out \o digits)[len + i] = digits[i]
  BY <1>2, <1>4, ConcatAt
<1> DEFINE out == s.out \o digits
<1> HIDE DEF out, h, len
<1>7. /\ r.out = out /\ r.n = s.n /\ r.bias = bias /\ r.delta = 0 /\ r.handled = h + 1
      /\ Len(out) = len + Len(digits)
      /\ \A i \in 1..len : out[i] = s.out[i]
      /\ \A i \in 1..Len(digits) : out[len + i] = digits[i]
  BY <1>1, <1>6 DEF out
<1>8. E \cup {p} \in SUBSET (1..Len(label)) /\ h + 1 = Cardinality(E \cup {p})
  <2>1. IsFiniteSet(E)
    BY <1>5, PickedLength
  <2>2. Cardinality(E \cup {p}) = Cardinality(E) + 1
    BY <2>1, FS_AddElement
  <2> QED
    BY <1>5, <2>2
<1> DEFINE ld == Len(digits)
           lo == Len(out)
<1>n. /\ len \in Nat /\ ld \in Nat \ {0} /\ lo = len + ld /\ basic \in Nat /\ h \in Nat /\ h >= basic
      /\ first \in Nat \ {0} /\ first >= basic + 1 /\ len >= first + 3 + k
  BY <1>2, <1>3, <1>4, <1>5, <1>7
<1> HIDE DEF ld, lo
<1>9. h + 1 >= basic /\ lo >= first + 3 + ((h + 1) - basic) /\ k \in Nat
  BY <1>n
<1>10. Emitted(label, out)
  <2>1. /\ len >= first + 3
        /\ \A j \in 1..(first + 3) : s.out[j] = Begun(label).out[j]
        /\ \A j \in (first + 4)..len : IsDigit(s.out[j])
    BY <1>5 DEF Emitted, first, len
  <2>2. Len(out) >= first + 3
    BY <1>2, <1>3, <1>4, <1>7, <2>1
  <2>3. ASSUME NEW j \in 1..(first + 3) PROVE out[j] = Begun(label).out[j]
    <3>1. j \in 1..len
      BY <1>2, <1>3, <2>1
    <3> QED
      BY <1>7, <2>1, <3>1
  <2>4. ASSUME NEW j \in (first + 4)..Len(out) PROVE IsDigit(out[j])
    <3>1. CASE j <= len
      <4>1. j \in (first + 4)..len /\ j \in 1..len
        BY <1>2, <1>3, <1>4, <1>7, <3>1
      <4> QED
        BY <1>7, <2>1, <4>1
    <3>2. CASE j > len
      <4> DEFINE i == j - len
      <4>1. i \in 1..Len(digits) /\ j = len + i
        BY <1>2, <1>3, <1>4, <1>7, <3>2
      <4> HIDE DEF i
      <4> QED
        BY <1>4, <1>7, <4>1
    <3> QED
      BY <1>2, <1>3, <3>1, <3>2
  <2> QED
    BY <2>2, <2>3, <2>4 DEF Emitted, first
<1>11. ASSUME NEW text \in Seq(Nat), Continues(text, out)
       PROVE  Agrees(After(text, label, k + 1), label, r, E \cup {p}, c + 1)
  <2> DEFINE d == After(text, label, k)
             lt == Len(text)
  <2>0. lt \in Nat
    BY <1>11
  <2>1. lt \in Nat /\ lo - 4 <= lt /\ \A j \in 5..lo : text[j - 4] = out[j]
    <3> HIDE DEF d
    <3>1. lo - 4 <= lt /\ \A j \in 5..lo : text[j - 4] = out[j]
      BY <1>11, Zenon DEF Continues, lo, lt
    <3> HIDE DEF lt
    <3> QED
      BY <2>0, <3>1
  <2> HIDE DEF lt
  <2>2. Continues(text, s.out)
    <3>1. len - 4 <= lt
      BY <1>n, <2>1
    <3>2. ASSUME NEW j \in 5..len PROVE text[j - 4] = s.out[j]
      <4>1. j \in 5..lo /\ j \in 1..len
        BY <1>n
      <4> QED
        BY <1>7, <2>1, <4>1
    <3> QED
      BY <3>1, <3>2 DEF Continues, len, lt
  <2>3. Agrees(d, label, s, E, c)
    BY <1>5, <2>2
  <2> HIDE DEF d
  <2>4. d.at = len - 3 /\ d.at >= 1 /\ d.at \in Nat
    <3>1. d.at = len - 3
      BY <2>3 DEF Agrees, len
    <3>2. len - 3 >= 1 /\ len - 3 \in Nat
      BY <1>n, <1>9
    <3> QED
      BY <3>1, <3>2
  <2>5. Stands(digits, text, d.at) /\ d.at <= lt
    <3>1. d.at + ld - 1 = lo - 4
      BY <1>n, <2>4
    <3>2. ASSUME NEW j \in 1..Len(digits) PROVE text[d.at + j - 1] = digits[j]
      <4>0. j \in 1..ld
        BY DEF ld
      <4>1. (len - 3) + j - 1 = (len + j) - 4 /\ len + j \in 5..lo
        BY <1>n, <1>9, <4>0
      <4>2. out[len + j] = digits[j]
        <5>1. j \in 1..Len(digits)
          OBVIOUS
        <5> QED
          BY <1>7, <5>1, Zenon
      <4>3. text[(len + j) - 4] = out[len + j]
        BY <2>1, <4>1, Zenon
      <4>4. d.at + j - 1 = (len + j) - 4
        BY <2>4, <4>1
      <4> QED
        BY <4>2, <4>3, <4>4
    <3>3. len - 3 <= lt
      BY <1>n, <2>1
    <3> QED
      BY <2>1, <2>4, <3>1, <3>2, <3>3 DEF Stands, lt, ld
  <2>6. k + 1 \in 1..lt
    BY <1>n, <1>9, <2>1
  <2>7. After(text, label, k + 1) = Insertion(text, d)
    <3> DEFINE f == Insertions(text, First(label), Basic(label))
    <3>0. \A j \in 1..Len(text) :
             f[j] = IF f[j - 1].at > Len(text) THEN f[j - 1] ELSE Insertion(text, f[j - 1])
      <4>1. Inserts(f, text)
        BY InsertionsInsert, Zenon
      <4> HIDE DEF f
      <4> QED
        BY <4>1, Zenon DEF Inserts
    <3> HIDE DEF f
    <3>1. f[k + 1] = IF f[(k + 1) - 1].at > Len(text) THEN f[(k + 1) - 1] ELSE Insertion(text, f[(k + 1) - 1])
      <4>1. k + 1 \in 1..Len(text)
        BY <2>6 DEF lt
      <4> HIDE DEF k
      <4> QED
        BY <3>0, <4>1
    <3>2. d = f[(k + 1) - 1]
      <4>1. (k + 1) - 1 = k
        BY <1>9
      <4> QED
        BY <4>1 DEF d, After, f
    <3>3. ~(d.at > Len(text))
      BY <2>1, <2>4, <2>5 DEF lt
    <3>4. f[k + 1] = Insertion(text, d)
      BY <3>1, <3>2, <3>3
    <3> QED
      BY <3>4 DEF After, f
  <2>8. /\ c \in 0..h
        /\ Insertion(text, d) =
             [at |-> len - 3 + Len(digits), out |-> Picked(label, E \cup {p}), n |-> s.n, i |-> c + 1,
              bias |-> bias]
    <3>1. Stands(Digits(s.delta, s.bias), text, d.at)
      BY <2>5 DEF digits
    <3>2. Agrees(d, label, s, E, Cardinality(E \cap (1..(p - 1))))
      BY <2>3 DEF c
    <3>3. E \in SUBSET (1..Len(label)) /\ s.handled = Cardinality(E) /\ d.at >= 1
      BY <1>5, <2>4 DEF h
    <3> HIDE DEF k
    <3>4. Placed(text, d, label, s, E, p)
      BY <3>1, <3>2, <3>3, NumberPlaced, Zenon
    <3> QED
      BY <3>4 DEF Placed, c, len, bias, digits, h, basic
  <2> DEFINE x == Insertion(text, d)
  <2>9. /\ x.at = len - 3 + Len(digits) /\ x.out = Picked(label, E \cup {p}) /\ x.n = s.n
        /\ x.i = c + 1 /\ x.bias = bias
    BY <2>8
  <2> HIDE DEF x
  <2>10. x.at = Len(r.out) - 3
    <3>1. len - 3 + ld = lo - 3
      BY <1>n
    <3> QED
      BY <1>7, <2>9, <3>1 DEF ld, lo
  <2>11. x.n \in 0..r.n
    BY <1>2, <1>7, <2>9
  <2>12. x.i \in 0..r.handled /\ ~(x.i = 0) /\ ~(r.handled = basic)
    <3>1. c + 1 \in 0..(h + 1) /\ ~(c + 1 = 0) /\ ~(h + 1 = basic)
      BY <1>n, <2>8
    <3> QED
      BY <1>7, <2>9, <3>1
  <2>13. r.delta = (r.n - x.n) * (r.handled + 1) + (c + 1) - x.i
    <3>1. r.n - x.n = 0 /\ r.handled + 1 \in Int
      BY <1>2, <1>7, <2>9
    <3>2. (r.n - x.n) * (r.handled + 1) = 0
      BY <3>1
    <3>3. 0 = 0 + (c + 1) - (c + 1)
      BY <2>8
    <3> QED
      BY <1>7, <2>9, <3>2, <3>3
  <2>14. Agrees(x, label, r, E \cup {p}, c + 1)
    BY <1>7, <2>9, <2>10, <2>11, <2>12, <2>13 DEF Agrees, basic
  <2> QED
    BY <2>7, <2>14 DEF x
<1>12. (h + 1) - basic = k + 1
  BY <1>n
<1>13. Matches(label, r, E \cup {p}, c + 1)
  BY <1>7, <1>8, <1>9, <1>10, <1>11, <1>12 DEF Matches, basic, first, lo
<1> QED
  BY <1>13 DEF r, c

\* The places that are written when the round of n is past place p.
Done(label, n, p) == {q \in 1..Len(label) : label[q] < n \/ (label[q] = n /\ q <= p)}

\* A set of places can be counted.
LEMMA DoneFinite ==
  ASSUME NEW label \in Seq(Nat), NEW E \in SUBSET (1..Len(label)), NEW P
  PROVE  IsFiniteSet(E) /\ IsFiniteSet(E \cap P) /\ Cardinality(E \cap P) \in Nat
<1>1. IsFiniteSet(1..Len(label))
  <2>1. Len(label) \in Int
    OBVIOUS
  <2> QED
    BY <2>1, FS_Interval
<1>2. IsFiniteSet(E)
  BY <1>1, FS_Subset
<1>3. IsFiniteSet(E \cap P)
  <2>1. E \cap P \in SUBSET E
    OBVIOUS
  <2> QED
    BY <1>2, <2>1, FS_Subset
<1> QED
  BY <1>2, <1>3, FS_CardinalityType

\* One more place is passed.
LEMMA CountNext ==
  ASSUME NEW label \in Seq(Nat), NEW E \in SUBSET (1..Len(label)), NEW p \in Nat
  PROVE  Cardinality(E \cap (1..(p + 1))) =
           IF p + 1 \in E THEN Cardinality(E \cap (1..p)) + 1 ELSE Cardinality(E \cap (1..p))
<1> DEFINE A == E \cap (1..p)
<1>1. CASE p + 1 \in E
  <2>1. E \cap (1..(p + 1)) = A \cup {p + 1} /\ p + 1 \notin A
    BY <1>1
  <2>2. IsFiniteSet(A)
    BY DoneFinite
  <2> HIDE DEF A
  <2>3. Cardinality(A \cup {p + 1}) = Cardinality(A) + 1
    BY <2>1, <2>2, FS_AddElement
  <2> QED
    BY <1>1, <2>1, <2>3 DEF A
<1>2. CASE p + 1 \notin E
  <2>1. E \cap (1..(p + 1)) = A
    BY <1>2
  <2> QED
    BY <1>2, <2>1
<1> QED
  BY <1>1, <1>2

\* One turn of the loop over a label.
LEMMA RuneMatches ==
  ASSUME NEW label \in Seq(Nat), NEW s \in EncState, NEW p \in Nat, p + 1 \in 1..Len(label),
         Matches(label, s, Done(label, s.n, p), Cardinality(Done(label, s.n, p) \cap (1..p)))
  PROVE  LET t == Rune(label, s, label[p + 1])
             E == Done(label, s.n, p + 1)
         IN  t \in EncState /\ t.n = s.n /\ Matches(label, t, E, Cardinality(E \cap (1..(p + 1))))
<1> DEFINE m == s.n
           x == label[p + 1]
           t == Rune(label, s, x)
           E == Done(label, m, p)
           F == Done(label, m, p + 1)
           c == Cardinality(E \cap (1..p))
<1>1. m \in Nat /\ x \in Nat /\ s.delta \in Nat /\ s.handled \in Nat
  BY DEF EncState
<1>2. t \in EncState /\ t.n = m
  BY <1>1, RuneKeeps
<1>3. E \in SUBSET (1..Len(label)) /\ F \in SUBSET (1..Len(label)) /\ c \in Nat
  <2>1. E \in SUBSET (1..Len(label)) /\ F \in SUBSET (1..Len(label))
    BY DEF Done
  <2> QED
    BY <2>1, DoneFinite
<1>4. /\ p + 1 \in E <=> x < m
      /\ F = IF x = m THEN E \cup {p + 1} ELSE E
  <2>1. \A q \in 1..Len(label) : q <= p + 1 <=> (q <= p \/ q = p + 1)
    OBVIOUS
  <2>2. ~(p + 1 <= p) /\ ~(m < m)
    BY <1>1
  <2>3. p + 1 \in E <=> x < m
    BY <2>2 DEF Done
  <2>4. \A q : q \in F <=> q \in E \/ (q = p + 1 /\ x = m)
    <3> SUFFICES ASSUME NEW q \in 1..Len(label) PROVE q \in F <=> q \in E \/ (q = p + 1 /\ x = m)
      BY DEF Done
    <3> QED
      BY <2>1 DEF Done
  <2> HIDE DEF E, F, m, x
  <2> QED
    BY <2>3, <2>4
<1>5. Matches(label, s, E, c)
  OBVIOUS
<1>6. CASE x < m
  <2>1. F = E /\ Cardinality(F \cap (1..(p + 1))) = c + 1
    <3>1. F = E /\ p + 1 \in E
      BY <1>1, <1>4, <1>6
    <3> HIDE DEF E, F
    <3> QED
      BY <1>3, <3>1, CountNext
  <2>2. t = [s EXCEPT !.delta = @ + 1]
    BY <1>1, <1>6 DEF Rune
  <2>3. t.out = s.out /\ t.handled = s.handled /\ t.bias = s.bias /\ t.n = s.n /\ t.delta = s.delta + 1
    BY <2>2 DEF EncState
  <2>4. t.n >= s.n /\ t.delta = s.delta + (t.n - s.n) * (s.handled + 1) + (c + 1) - c
    <3>1. (t.n - s.n) * (s.handled + 1) = 0
      <4>1. t.n - s.n = 0 /\ s.handled + 1 \in Int
        BY <1>1, <2>3
      <4> QED
        BY <4>1
    <3> HIDE DEF c, t
    <3> QED
      BY <1>1, <1>3, <2>3, <3>1
  <2>5. c \in Int /\ c + 1 \in Int
    BY <1>3
  <2> HIDE DEF t, E, F, c
  <2>6. Matches(label, t, E, c + 1)
    BY <1>2, <1>5, <2>3, <2>4, <2>5, MatchesMoved
  <2> QED
    BY <1>2, <2>1, <2>6 DEF t, F, x, m
<1>7. CASE x = m
  <2>1. F = E \cup {p + 1} /\ p + 1 \notin E
    BY <1>1, <1>4, <1>7
  <2>2. Cardinality(F \cap (1..(p + 1))) = c + 1
    <3>1. F \cap (1..p) = E \cap (1..p) /\ p + 1 \in F
      BY <2>1
    <3> HIDE DEF E, F
    <3> QED
      BY <1>3, <3>1, CountNext
  <2>3. (p + 1) - 1 = p /\ label[p + 1] = s.n
    BY <1>7
  <2>4. Matches(label, Rune(label, s, s.n), E \cup {p + 1}, c + 1)
    <3> DEFINE y == p + 1
    <3>1. y \in 1..Len(label) /\ y \notin E /\ label[y] = s.n /\ y - 1 = p
      BY <2>1, <2>3
    <3>2. Matches(label, s, E, Cardinality(E \cap (1..(y - 1))))
      BY <1>5, <3>1
    <3> HIDE DEF y, E
    <3>3. Matches(label, Rune(label, s, s.n), E \cup {y}, Cardinality(E \cap (1..(y - 1))) + 1)
      BY <3>1, <3>2, Emits
    <3> QED
      BY <3>1, <3>3 DEF y
  <2> HIDE DEF E, F, c
  <2> QED
    BY <1>2, <2>1, <2>2, <2>3, <2>4 DEF F, m
<1>8. CASE x > m
  <2>1. F = E /\ Cardinality(F \cap (1..(p + 1))) = c
    <3>1. F = E /\ p + 1 \notin E
      BY <1>1, <1>4, <1>8
    <3> HIDE DEF E, F
    <3> QED
      BY <1>3, <3>1, CountNext
  <2>2. t = s
    BY <1>1, <1>8 DEF Rune
  <2> HIDE DEF E, F, c
  <2> QED
    BY <1>2, <1>5, <2>1, <2>2 DEF F, t, x, m
<1> QED
  BY <1>1, <1>6, <1>7, <1>8

\* The loop over a label.
LEMMA RunesMatch ==
  ASSUME NEW label \in Seq(Nat), NEW s \in EncState,
         Matches(label, s, Done(label, s.n, 0), 0)
  PROVE  LET t == Runes(label, s)[Len(label)]
             E == Done(label, s.n, Len(label))
         IN  t \in EncState /\ t.n = s.n /\ Matches(label, t, E, Cardinality(E))
<1> DEFINE f == Runes(label, s)
           m == s.n
           L == Len(label)
           c(p) == Cardinality(Done(label, m, p) \cap (1..p))
           U == {p \in Nat : p <= L => f[p] \in EncState /\ f[p].n = m /\ Matches(label, f[p], Done(label, m, p), c(p))}
<1>1. f[0] = s /\ \A p \in 1..L : f[p] = Rune(label, f[p - 1], label[p])
  BY RunesDef
<1>2. L \in Nat
  OBVIOUS
<1>3. 0 \in U
  <2>1. Done(label, m, 0) \cap (1..0) = {}
    OBVIOUS
  <2>2. c(0) = 0
    BY <2>1, FS_EmptySet
  <2> HIDE DEF c, f
  <2> QED
    BY <1>1, <2>2
<1> HIDE DEF f, L
<1>4. ASSUME NEW p \in Nat, p \in U PROVE p + 1 \in U
  <2> SUFFICES ASSUME p + 1 <= L
               PROVE  f[p + 1] \in EncState /\ f[p + 1].n = m /\ Matches(label, f[p + 1], Done(label, m, p + 1), c(p + 1))
    OBVIOUS
  <2>1. p <= L /\ p + 1 \in 1..L /\ (p + 1) - 1 = p
    BY <1>2
  <2> DEFINE u == f[p]
  <2>2. u \in EncState /\ u.n = m /\ Matches(label, u, Done(label, u.n, p), Cardinality(Done(label, u.n, p) \cap (1..p)))
    BY <1>4, <2>1
  <2>3. f[p + 1] = Rune(label, u, label[p + 1])
    BY <1>1, <2>1
  <2>4. p + 1 \in 1..Len(label)
    BY <2>1 DEF L
  <2> HIDE DEF u, m
  <2>5. LET t == Rune(label, u, label[p + 1])
            E == Done(label, u.n, p + 1)
        IN  t \in EncState /\ t.n = u.n /\ Matches(label, t, E, Cardinality(E \cap (1..(p + 1))))
    BY <2>2, <2>4, RuneMatches
  <2> QED
    BY <2>2, <2>3, <2>5
<1>5. L \in U
  <2> HIDE DEF U
  <2> QED
    BY <1>2, <1>3, <1>4, Induction
<1>6. f[L] \in EncState /\ f[L].n = m /\ Matches(label, f[L], Done(label, m, L), c(L))
  BY <1>2, <1>5
<1>7. c(L) = Cardinality(Done(label, m, L))
  <2>1. Done(label, m, L) \cap (1..L) = Done(label, m, L)
    BY DEF Done, L
  <2> QED
    BY <2>1
<1> HIDE DEF c
<1> QED
  BY <1>6, <1>7 DEF f, L

\* Between two rounds.
RoundInv(label, s) == s \in EncState /\ Matches(label, s, Done(label, s.n, 0), 0)

\* What is left, and the least of it.
LEMMA LeftOver ==
  ASSUME NEW label \in Seq(Nat), NEW s, RoundInv(label, s), s.handled # Len(label)
  PROVE  LET m == Min({c \in Range(label) : c >= s.n})
         IN  /\ m \in Nat /\ m >= s.n
             /\ \E q \in 1..Len(label) : label[q] = m
             /\ Done(label, m, 0) = Done(label, s.n, 0)
<1> DEFINE n == s.n
           R == {c \in Range(label) : c >= n}
           m == Min(R)
           E == Done(label, n, 0)
<1>1. n \in Nat /\ s.handled = Cardinality(E)
  BY DEF RoundInv, EncState, Matches
<1>2. PICK q \in 1..Len(label) : label[q] >= n
  <2> SUFFICES ASSUME \A q \in 1..Len(label) : ~(label[q] >= n) PROVE FALSE
    OBVIOUS
  <2>1. \A q \in 1..Len(label) : label[q] \in Nat
    OBVIOUS
  <2>2. E = 1..Len(label)
    BY <1>1, <2>1 DEF Done
  <2>3. Len(label) \in Nat
    OBVIOUS
  <2>4. Cardinality(1..Len(label)) = Len(label)
    <3>1. Len(label) \in Int /\ 1 \in Int
      BY <2>3
    <3>2. Cardinality(1..Len(label)) = IF 1 > Len(label) THEN 0 ELSE Len(label) - 1 + 1
      BY <3>1, FS_Interval
    <3> QED
      BY <2>3, <3>2
  <2> QED
    BY <1>1, <2>2, <2>4
<1>3. \A c : c \in R <=> c >= n /\ \E i \in 1..Len(label) : c = label[i]
  <2>1. Range(label) = {label[i] : i \in 1..Len(label)}
    BY DEF Range
  <2> QED
    BY <2>1
<1>4. label[q] \in R /\ R \subseteq Nat
  BY <1>2, <1>3
<1> HIDE DEF R
<1>5. m \in R /\ \A c \in R : m <= c
  <2>1. PICK x \in R : \A c \in R : x <= c
    <3>1. R # {}
      BY <1>4
    <3> QED
      BY <1>4, <3>1, Least
  <2>2. m = CHOOSE y \in R : \A z \in R : y <= z
    BY Zenon DEF Min
  <2> HIDE DEF m
  <2> QED
    BY <2>1, <2>2, Zenon
<1>6. m \in Nat /\ m >= n /\ \E i \in 1..Len(label) : label[i] = m
  <2> HIDE DEF m
  <2> QED
    BY <1>3, <1>4, <1>5
<1>7. Done(label, m, 0) = E
  <2> HIDE DEF m
  <2>1. ASSUME NEW i \in 1..Len(label) PROVE i \in Done(label, m, 0) <=> i \in E
    <3>1. label[i] \in Nat /\ ~(i <= 0)
      OBVIOUS
    <3>2. label[i] >= n => m <= label[i]
      BY <1>3, <1>5
    <3>3. label[i] < m <=> label[i] < n
      BY <1>1, <1>6, <3>1, <3>2
    <3> QED
      BY <3>1, <3>3 DEF Done
  <2>2. Done(label, m, 0) \subseteq 1..Len(label) /\ E \subseteq 1..Len(label)
    BY DEF Done
  <2> HIDE DEF E
  <2> QED
    BY <2>1, <2>2
<1> QED
  BY <1>6, <1>7 DEF R

\* The assignments after the loop over a label.
LEMMA RoundEnds ==
  ASSUME NEW u \in EncState
  PROVE  [u EXCEPT !.delta = @ + 1, !.n = @ + 1] =
           [out |-> u.out, n |-> u.n + 1, bias |-> u.bias, delta |-> u.delta + 1, handled |-> u.handled]
<1>1. u = [out |-> u.out, n |-> u.n, bias |-> u.bias, delta |-> u.delta, handled |-> u.handled]
  BY DEF EncState
<1>2. [u EXCEPT !.delta = @ + 1] =
        [out |-> u.out, n |-> u.n, bias |-> u.bias, delta |-> u.delta + 1, handled |-> u.handled]
  BY <1>1
<1> DEFINE w == [u EXCEPT !.delta = @ + 1]
<1>3. [u EXCEPT !.delta = @ + 1, !.n = @ + 1] = [w EXCEPT !.n = @ + 1]
  OBVIOUS
<1> HIDE DEF w
<1>4. w = [out |-> u.out, n |-> u.n, bias |-> u.bias, delta |-> u.delta + 1, handled |-> u.handled]
  BY <1>2 DEF w
<1>5. [w EXCEPT !.n = @ + 1] = 
        [out |-> u.out, n |-> u.n + 1, bias |-> u.bias, delta |-> u.delta + 1, handled |-> u.handled]
  BY <1>4
<1> QED
  BY <1>3, <1>5

\* A round keeps the invariant and writes something.
LEMMA RoundKeeps ==
  ASSUME NEW label \in Seq(Nat), NEW s, RoundInv(label, s), s.handled # Len(label)
  PROVE  RoundInv(label, Round(label, s)) /\ Round(label, s).handled > s.handled
<1> DEFINE n == s.n
           m == Min({c \in Range(label) : c >= n})
           h == s.handled
           t == [s EXCEPT !.delta = @ + (m - n) * (h + 1), !.n = m]
           u == Runes(label, t)[Len(label)]
           v == [u EXCEPT !.delta = @ + 1, !.n = @ + 1]
           E == Done(label, n, 0)
           F == Done(label, m, Len(label))
<1>1. /\ s \in EncState /\ Matches(label, s, E, 0)
      /\ n \in Nat /\ h \in Nat /\ s.delta \in Nat /\ h = Cardinality(E)
  BY DEF RoundInv, EncState, Matches
<1>2. /\ m \in Nat /\ m >= n
      /\ \E q \in 1..Len(label) : label[q] = m
      /\ Done(label, m, 0) = E
  BY LeftOver
<1>3. Round(label, s) = v
  BY DEF Round
<1> HIDE DEF m
<1>4. /\ t \in EncState /\ t.n = m /\ t.out = s.out /\ t.handled = s.handled /\ t.bias = s.bias
      /\ t.delta = s.delta + (m - n) * (h + 1)
  <2> DEFINE delta == s.delta + (m - n) * (h + 1)
  <2>1. delta \in Nat
    <3> DEFINE x == m - n
               y == h + 1
    <3>1. x \in Nat /\ y \in Nat
      BY <1>1, <1>2
    <3> HIDE DEF x, y
    <3>2. x * y \in Nat
      BY <3>1
    <3> QED
      BY <1>1, <3>2 DEF x, y
  <2>2. t = [s EXCEPT !.delta = delta, !.n = m]
    OBVIOUS
  <2> HIDE DEF delta, t, n, h
  <2>3. /\ t \in EncState /\ t.n = m /\ t.out = s.out /\ t.handled = s.handled /\ t.bias = s.bias
        /\ t.delta = delta
    BY <1>1, <1>2, <2>1, <2>2 DEF EncState
  <2> QED
    BY <2>3 DEF delta, n, h
<1> HIDE DEF t
<1>5. Matches(label, t, E, 0)
  <2>1. t.n >= s.n /\ t.delta = s.delta + (t.n - s.n) * (s.handled + 1) + 0 - 0
    <3> DEFINE z == (m - n) * (h + 1)
    <3>1. z \in Int
      <4>1. m - n \in Int /\ h + 1 \in Int
        BY <1>1, <1>2
      <4> QED
        BY <4>1
    <3>2. t.delta = s.delta + z
      BY <1>4
    <3> HIDE DEF z
    <3>3. t.delta = s.delta + z + 0 - 0
      BY <1>1, <3>1, <3>2
    <3> QED
      BY <1>2, <1>4, <3>3 DEF z
  <2> HIDE DEF E, n, h
  <2>2. 0 \in Int
    OBVIOUS
  <2> QED
    BY <1>1, <1>4, <2>1, <2>2, MatchesMoved
<1>6. u \in EncState /\ u.n = m /\ Matches(label, u, F, Cardinality(F))
  <2>1. Matches(label, t, Done(label, t.n, 0), 0)
    BY <1>2, <1>4, <1>5
  <2>2. LET x == Runes(label, t)[Len(label)]
            D == Done(label, t.n, Len(label))
        IN  x \in EncState /\ x.n = t.n /\ Matches(label, x, D, Cardinality(D))
    BY <1>4, <2>1, RunesMatch
  <2> QED
    BY <1>4, <2>2
<1> HIDE DEF u
<1>7. /\ u.delta \in Nat /\ u.handled \in Nat /\ u.handled = Cardinality(F)
      /\ v \in EncState /\ v.n = m + 1 /\ v.out = u.out /\ v.handled = u.handled /\ v.bias = u.bias
      /\ v.delta = u.delta + 1
  <2>1. u.handled = Cardinality(F)
    BY <1>6 DEF Matches
  <2>2. /\ u.out \in Seq(Nat) /\ u.bias \in Nat /\ u.delta \in Nat /\ u.handled \in Nat
        /\ u = [out |-> u.out, n |-> u.n, bias |-> u.bias, delta |-> u.delta, handled |-> u.handled]
    BY <1>6 DEF EncState
  <2>3. v = [out |-> u.out, n |-> m + 1, bias |-> u.bias, delta |-> u.delta + 1, handled |-> u.handled]
    <3>1. v = [out |-> u.out, n |-> u.n + 1, bias |-> u.bias, delta |-> u.delta + 1, handled |-> u.handled]
      BY <1>6, RoundEnds
    <3> HIDE DEF v
    <3> QED
      BY <1>6, <3>1
  <2>4. m + 1 \in Nat /\ u.delta + 1 \in Nat
    BY <1>2, <2>2
  <2> HIDE DEF v, F
  <2>5. v \in EncState
    BY <2>2, <2>3, <2>4 DEF EncState
  <2> QED
    BY <2>1, <2>2, <2>3, <2>5
<1> HIDE DEF v
<1>8. F = Done(label, m + 1, 0)
  <2>1. ASSUME NEW i \in 1..Len(label) PROVE i \in F <=> i \in Done(label, m + 1, 0)
    <3>1. label[i] \in Nat /\ ~(i <= 0) /\ i <= Len(label)
      OBVIOUS
    <3>2. label[i] < m + 1 <=> label[i] < m \/ label[i] = m
      BY <1>2, <3>1
    <3> QED
      BY <3>1, <3>2 DEF Done
  <2>2. F \subseteq 1..Len(label) /\ Done(label, m + 1, 0) \subseteq 1..Len(label)
    BY DEF Done
  <2> HIDE DEF F
  <2> QED
    BY <2>1, <2>2
<1>9. Matches(label, v, F, 0)
  <2> DEFINE b == Cardinality(F)
  <2>1. v.n >= u.n /\ v.delta = u.delta + (v.n - u.n) * (u.handled + 1) + 0 - b
    <3>1. v.n - u.n = 1 /\ v.n >= u.n
      BY <1>2, <1>6, <1>7
    <3>2. (v.n - u.n) * (u.handled + 1) = u.handled + 1
      BY <1>7, <3>1
    <3> HIDE DEF F
    <3>3. u.delta + 1 = u.delta + (u.handled + 1) + 0 - b
      BY <1>7
    <3> QED
      BY <1>7, <3>1, <3>2, <3>3
  <2>2. 0 \in Int /\ b \in Int
    BY <1>7
  <2> HIDE DEF F, b
  <2>3. Matches(label, u, F, b)
    BY <1>6 DEF b
  <2> QED
    BY <1>6, <1>7, <2>1, <2>2, <2>3, MatchesMoved
<1>10. u.handled > h
  <2>1. PICK q \in 1..Len(label) : label[q] = m
    BY <1>2
  <2>2. q \in F /\ q \notin E
    <3>1. q <= Len(label) /\ q \in F
      BY <2>1 DEF Done
    <3>2. q \notin E
      BY <1>1, <1>2, <2>1 DEF Done
    <3> QED
      BY <3>1, <3>2
  <2>3. E \subseteq F
    <3>1. ASSUME NEW i \in E PROVE i \in F
      <4>1. i \in 1..Len(label) /\ (label[i] < n \/ i <= 0)
        BY DEF Done
      <4>2. label[i] \in Nat /\ label[i] < n
        BY <4>1
      <4>3. label[i] < m
        BY <1>1, <1>2, <4>2
      <4> QED
        BY <4>1, <4>3 DEF Done
    <3> QED
      BY <3>1
  <2>4. IsFiniteSet(F) /\ IsFiniteSet(E)
    <3>1. E \in SUBSET (1..Len(label)) /\ F \in SUBSET (1..Len(label))
      BY DEF Done
    <3> QED
      BY <3>1, DoneFinite
  <2> HIDE DEF E, F
  <2>5. Cardinality(E) < Cardinality(F)
    <3>1. Cardinality(E \cup {q}) = Cardinality(E) + 1
      BY <2>2, <2>4, FS_AddElement
    <3>2. E \cup {q} \in SUBSET F
      BY <2>2, <2>3
    <3>3. Cardinality(E \cup {q}) <= Cardinality(F)
      BY <2>4, <3>2, FS_Subset
    <3> QED
      BY <1>1, <1>7, <3>1, <3>3
  <2> QED
    BY <1>1, <1>7, <2>5
<1>11. RoundInv(label, v)
  BY <1>7, <1>8, <1>9 DEF RoundInv
<1> QED
  BY <1>3, <1>7, <1>10, <1>11

\* x is t and then u.
Joins(x, t, u) ==
  /\ x \in Seq(Nat) /\ Len(t) \in Nat /\ Len(u) \in Nat /\ Len(x) = Len(t) + Len(u)
  /\ \A i \in 1..Len(t) : x[i] = t[i]
  /\ \A i \in 1..Len(u) : x[Len(t) + i] = u[i]

\* A concatenation joins.
LEMMA ConcatJoins ==
  ASSUME NEW t \in Seq(Nat), NEW u \in Seq(Nat)
  PROVE  Joins(t \o u, t, u)
<1>1. Len(t) \in Nat /\ Len(u) \in Nat
  OBVIOUS
<1>2. /\ t \o u \in Seq(Nat)
      /\ Len(t \o u) = Len(t) + Len(u)
      /\ \A i \in 1..Len(t) : (t \o u)[i] = t[i]
      /\ \A i \in 1..Len(u) : (t \o u)[Len(t) + i] = u[i]
  BY ConcatAt
<1> QED
  BY <1>1, <1>2, Zenon DEF Joins

\* What is written first.
LEMMA BegunIs ==
  ASSUME NEW label \in Seq(Nat)
  PROVE  LET o == Begun(label).out
             b == Basic(label)
         IN  /\ o \in Seq(Nat) /\ Len(o) = First(label) + 3
             /\ o[1] = 120 /\ o[2] = 110 /\ o[3] = 45 /\ o[4] = 45
             /\ \A i \in 1..Len(b) : o[4 + i] = b[i]
             /\ b # <<>> => First(label) = Len(b) + 2 /\ o[First(label) + 3] = 45
             /\ b = <<>> => First(label) = 1 /\ Len(b) = 0
<1> DEFINE b == Basic(label)
           e == IF b # <<>> THEN <<Hyphen>> ELSE <<>>
           a == Prefix
           x == a \o b
           o == Begun(label).out
           lb == Len(b)
           le == Len(e)
           lx == Len(x)
           lo == Len(o)
           first == First(label)
           empty == b = <<>>
<1>1. b \in Seq(Nat) /\ lb \in Nat
  BY BasicType
<1>2. a \in Seq(Nat) /\ Len(a) = 4 /\ a[1] = 120 /\ a[2] = 110 /\ a[3] = 45 /\ a[4] = 45
  BY DEF Prefix, Hyphen
<1>3. o = x \o e
  BY DEF Begun
<1>4. e \in Seq(Nat) /\ le = (IF empty THEN 0 ELSE 1) /\ (~empty => e[1] = 45)
  BY DEF Hyphen
<1>5. first = lb + (IF empty THEN 1 ELSE 2)
  BY DEF First
<1>6. empty => lb = 0
  OBVIOUS
<1> HIDE DEF a, b, e, x, o, empty, lb, le, lx, lo, first
<1>7. Joins(x, a, b)
  BY <1>1, <1>2, ConcatJoins, Zenon DEF x
<1>8. /\ x \in Seq(Nat) /\ lx = 4 + lb
      /\ \A i \in 1..4 : x[i] = a[i]
      /\ \A i \in 1..lb : x[4 + i] = b[i]
  BY <1>2, <1>7 DEF Joins, lb, lx
<1>9. Joins(o, x, e)
  BY <1>3, <1>4, <1>8, ConcatJoins, Zenon
<1>10. /\ o \in Seq(Nat) /\ lo = lx + le
       /\ \A i \in 1..lx : o[i] = x[i]
       /\ \A i \in 1..le : o[lx + i] = e[i]
  BY <1>9 DEF Joins, lo, lx, le
<1>11. lo = first + 3 /\ first + 3 = lx + le
  BY <1>1, <1>4, <1>5, <1>8, <1>10
<1>12. \A i \in 1..4 : o[i] = a[i]
  <2>1. \A i \in 1..4 : i \in 1..lx
    BY <1>1, <1>8
  <2> QED
    BY <1>8, <1>10, <2>1, Zenon
<1>13. ASSUME NEW i \in 1..lb PROVE o[4 + i] = b[i]
  <2>1. 4 + i \in 1..lx
    BY <1>1, <1>8
  <2> QED
    BY <1>8, <1>10, <2>1, Zenon
<1>14. ~empty => first = lb + 2 /\ o[first + 3] = 45
  <2> SUFFICES ASSUME ~empty PROVE first = lb + 2 /\ o[first + 3] = 45
    OBVIOUS
  <2>1. first = lb + 2 /\ 1 \in 1..le /\ first + 3 = lx + 1
    BY <1>1, <1>4, <1>5, <1>8
  <2>2. o[lx + 1] = e[1]
    BY <1>10, <2>1, Zenon
  <2> QED
    BY <1>4, <2>1, <2>2
<1>15. empty => first = 1 /\ lb = 0
  BY <1>5, <1>6
<1>16. o[1] = 120 /\ o[2] = 110 /\ o[3] = 45 /\ o[4] = 45
  <2>1. 1 \in 1..4 /\ 2 \in 1..4 /\ 3 \in 1..4 /\ 4 \in 1..4
    OBVIOUS
  <2>2. o[1] = a[1] /\ o[2] = a[2] /\ o[3] = a[3] /\ o[4] = a[4]
    BY <1>12, <2>1, Zenon
  <2> QED
    BY <1>2, <2>2
<1> QED
  BY <1>10, <1>11, <1>13, <1>14, <1>15, <1>16, Zenon DEF o, b, lo, lb, first, empty

\* The invariant holds before the first round.
LEMMA BegunKeeps ==
  ASSUME NEW label \in Seq(Nat)
  PROVE  RoundInv(label, Begun(label))
<1> DEFINE s == Begun(label)
           b == Basic(label)
           E == Done(label, 128, 0)
           first == First(label)
<1>1. /\ s.out \in Seq(Nat) /\ Len(s.out) = first + 3
  BY BegunIs
<1>2. b \in Seq(Nat) /\ Len(b) \in Nat /\ first \in Nat \ {0} /\ first >= Len(b) + 1
  BY BasicType
<1>3. s.n = 128 /\ s.bias = 72 /\ s.delta = 0 /\ s.handled = Len(b)
  BY DEF Begun, InitialN, InitialBias
<1>4. s \in EncState
  <2>1. s = [out |-> s.out, n |-> s.n, bias |-> s.bias, delta |-> s.delta, handled |-> s.handled]
    BY DEF Begun
  <2> HIDE DEF s, b
  <2> QED
    BY <1>1, <1>2, <1>3, <2>1 DEF EncState
<1>5. E \in SUBSET (1..Len(label)) /\ b = Picked(label, E) /\ Len(b) = Cardinality(E)
  <2>1. E = {i \in DOMAIN label : label[i] < InitialN}
    BY DEF Done, InitialN
  <2>2. E \in SUBSET (1..Len(label))
    BY DEF Done
  <2>3. b = Picked(label, E)
    BY <2>1 DEF Basic
  <2> HIDE DEF E
  <2> QED
    BY <2>2, <2>3, PickedLength
<1> HIDE DEF s, b, E, first
<1>6. Emitted(label, s.out)
  <2>1. (first + 4)..Len(s.out) = {}
    BY <1>1, <1>2
  <2>2. Len(s.out) >= first + 3
    BY <1>1, <1>2
  <2> HIDE DEF s, first
  <2>3. \A j \in 1..(first + 3) : s.out[j] = Begun(label).out[j]
    BY DEF s
  <2> QED
    BY <2>1, <2>2, <2>3 DEF Emitted, first
<1>7. ASSUME NEW text \in Seq(Nat)
      PROVE  Agrees(After(text, label, 0), label, s, E, 0)
  <2> DEFINE d == After(text, label, 0)
  <2>1. d = [at |-> first, out |-> b, n |-> 128, i |-> 0, bias |-> 72]
    BY InsertionsInsert DEF After, first, b
  <2> HIDE DEF d
  <2>2. d.at = Len(s.out) - 3
    BY <1>1, <1>2, <2>1
  <2>3. d.out = Picked(label, E) /\ d.n = 128 /\ d.i = 0 /\ d.bias = s.bias
    BY <1>3, <1>5, <2>1
  <2>4. d.n \in 0..s.n /\ d.i \in 0..s.handled
    BY <1>2, <1>3, <2>3
  <2>5. d.i = 0 <=> s.handled = Len(Basic(label))
    BY <1>3, <2>3 DEF b
  <2>6. s.delta = (s.n - d.n) * (s.handled + 1) + 0 - d.i
    <3>1. s.n - d.n = 0 /\ s.handled + 1 \in Int
      BY <1>2, <1>3, <2>3
    <3>2. (s.n - d.n) * (s.handled + 1) = 0
      BY <3>1
    <3> QED
      BY <1>3, <2>3, <3>2
  <2>7. Agrees(d, label, s, E, 0)
    BY <2>2, <2>3, <2>4, <2>5, <2>6 DEF Agrees
  <2> QED
    BY <2>7 DEF d
<1>8. /\ s.handled = Cardinality(E) /\ s.handled >= Len(b) /\ s.handled - Len(b) = 0
      /\ Len(s.out) >= first + 3 + (s.handled - Len(b))
  BY <1>1, <1>2, <1>3, <1>5
<1>9. Matches(label, s, E, 0)
  BY <1>5, <1>6, <1>7, <1>8 DEF Matches, b, first
<1>10. Done(label, s.n, 0) = E
  BY <1>3 DEF E
<1> QED
  BY <1>4, <1>9, <1>10 DEF RoundInv, s

\* Rounds as a loop.
LEMMA RoundsDef ==
  ASSUME NEW label \in Seq(Nat)
  PROVE  LET f == Rounds(label)
         IN  /\ f[0] = Begun(label)
             /\ \A r \in 1..Len(label) :
                  f[r] = IF f[r - 1].handled = Len(label) THEN f[r - 1] ELSE Round(label, f[r - 1])
<1> DEFINE n == Len(label)
           a == Begun(label)
           next(s) == IF s.handled = Len(label) THEN s ELSE Round(label, s)
           Loop(f, k) == f = [m \in 0..k |-> IF m = 0 THEN a ELSE next(f[m - 1])]
           U == {k \in Nat : \E f : Loop(f, k)}
<1> HIDE DEF a, next
<1>1. 0 \in U
  <2>1. Loop([m \in 0..0 |-> a], 0)
    OBVIOUS
  <2> HIDE DEF Loop
  <2> QED
    BY <2>1
<1>2. ASSUME NEW k \in Nat, k \in U PROVE k + 1 \in U
  <2>1. PICK f : Loop(f, k)
    BY <1>2
  <2> DEFINE g == [m \in 0..(k + 1) |-> IF m = k + 1 THEN next(f[k]) ELSE f[m]]
  <2>2. ASSUME NEW m \in 0..(k + 1)
        PROVE  g[m] = IF m = 0 THEN a ELSE next(g[m - 1])
    <3>1. CASE m = k + 1
      BY <3>1
    <3>2. CASE m # k + 1
      <4>1. m \in 0..k /\ g[m] = f[m] /\ (m # 0 => g[m - 1] = f[m - 1])
        BY <3>2
      <4> QED
        BY <2>1, <4>1
    <3> QED
      BY <3>1, <3>2
  <2>3. Loop(g, k + 1)
    <3>1. DOMAIN g = 0..(k + 1) /\ g = [m \in 0..(k + 1) |-> g[m]]
      OBVIOUS
    <3> HIDE DEF g
    <3> QED
      BY <2>2, <3>1
  <2> HIDE DEF Loop, g
  <2> QED
    BY <2>3
<1>3. n \in Nat
  OBVIOUS
<1>4. \E f : Loop(f, n)
  <2> HIDE DEF Loop, n
  <2>1. Nat \subseteq U
    <3> HIDE DEF U
    <3> QED
      BY <1>1, <1>2, Induction
  <2> QED
    BY <1>3, <2>1
<1> DEFINE g == Rounds(label)
<1>5. Loop(g, n)
  BY <1>4, Zenon DEF Rounds, a, next
<1> HIDE DEF g, n
<1>6. g[0] = a /\ \A j \in 1..n : g[j] = next(g[j - 1])
  BY <1>3, <1>5
<1> QED
  BY <1>6 DEF g, n, a, next

\* As many rounds as there are code points are enough.
LEMMA RoundsEnd ==
  ASSUME NEW label \in Seq(Nat)
  PROVE  LET s == Rounds(label)[Len(label)]
         IN  RoundInv(label, s) /\ s.handled = Len(label)
<1> DEFINE f == Rounds(label)
           L == Len(label)
           U == {r \in Nat : r <= L => RoundInv(label, f[r]) /\ (f[r].handled >= r \/ f[r].handled = L)}
<1>1. /\ f[0] = Begun(label)
      /\ \A r \in 1..L : f[r] = IF f[r - 1].handled = L THEN f[r - 1] ELSE Round(label, f[r - 1])
  BY RoundsDef
<1> HIDE DEF f
<1>2. L \in Nat
  OBVIOUS
<1>3. ASSUME NEW s, RoundInv(label, s) PROVE s.handled \in 0..L
  <2> DEFINE E == Done(label, s.n, 0)
  <2>1. E \in SUBSET (1..L) /\ s.handled = Cardinality(E)
    BY <1>3 DEF RoundInv, Matches
  <2>2. IsFiniteSet(1..L) /\ Cardinality(1..L) = L
    <3>1. L \in Int /\ 1 \in Int
      BY <1>2
    <3>2. IsFiniteSet(1..L) /\ Cardinality(1..L) = IF 1 > L THEN 0 ELSE L - 1 + 1
      BY <3>1, FS_Interval
    <3> QED
      BY <1>2, <3>2
  <2> HIDE DEF E, L
  <2>3. IsFiniteSet(E) /\ Cardinality(E) <= L
    BY <2>1, <2>2, FS_Subset
  <2>4. Cardinality(E) \in Nat
    BY <2>3, FS_CardinalityType
  <2> QED
    BY <1>2, <2>1, <2>3, <2>4
<1> HIDE DEF L
<1>4. 0 \in U
  <2>1. RoundInv(label, f[0])
    BY <1>1, BegunKeeps
  <2>2. f[0].handled \in 0..L
    BY <1>3, <2>1
  <2>3. f[0].handled >= 0
    BY <1>2, <2>2
  <2> QED
    BY <2>1, <2>3
<1>5. ASSUME NEW r \in Nat, r \in U PROVE r + 1 \in U
  <2> SUFFICES ASSUME r + 1 <= L
               PROVE  RoundInv(label, f[r + 1]) /\ (f[r + 1].handled >= r + 1 \/ f[r + 1].handled = L)
    OBVIOUS
  <2> DEFINE s == f[r]
             t == f[r + 1]
  <2>1. r + 1 \in 1..L /\ (r + 1) - 1 = r /\ r <= L
    BY <1>2
  <2>2. RoundInv(label, s) /\ (s.handled >= r \/ s.handled = L)
    BY <1>5, <2>1
  <2>3. t = IF s.handled = L THEN s ELSE Round(label, s)
    BY <1>1, <2>1
  <2> HIDE DEF s, t
  <2>4. RoundInv(label, t) /\ (t.handled >= r + 1 \/ t.handled = L)
    <3>1. CASE s.handled = L
      BY <2>2, <2>3, <3>1
    <3>2. CASE s.handled # L
      <4>1. RoundInv(label, t) /\ t.handled > s.handled
        BY <2>2, <2>3, <3>2, RoundKeeps DEF L
      <4>2. s.handled \in 0..L /\ t.handled \in 0..L
        BY <1>3, <2>2, <4>1
      <4> QED
        BY <1>2, <2>2, <3>2, <4>1, <4>2
    <3> QED
      BY <3>1, <3>2
  <2> QED
    BY <2>4 DEF s, t
<1>6. L \in U
  <2> HIDE DEF U
  <2> QED
    BY <1>2, <1>4, <1>5, Induction
<1>7. RoundInv(label, f[L]) /\ (f[L].handled >= L \/ f[L].handled = L)
  BY <1>2, <1>6
<1>8. f[L].handled = L
  <2>1. f[L].handled \in 0..L
    BY <1>3, <1>7
  <2> QED
    BY <1>2, <1>7, <2>1
<1> QED
  BY <1>7, <1>8 DEF f, L

\* A digit is ASCII and neither hyphen nor dot.
LEMMA DigitIsNot ==
  ASSUME NEW c, IsDigit(c)
  PROVE  c \in Nat /\ c # 45 /\ c # 46 /\ c < 128
<1>1. CASE c \in 97..122
  BY <1>1
<1>2. CASE c \in 48..57
  BY <1>2
<1> QED
  BY <1>1, <1>2 DEF IsDigit

\* When everything is written.
LEMMA Complete ==
  ASSUME NEW label \in Seq(Nat)
  PROVE  LET s == Rounds(label)[Len(label)]
         IN  /\ s.out \in Seq(Nat) /\ Len(s.out) \in Nat
             /\ Emitted(label, s.out)
             /\ Len(label) - Len(Basic(label)) \in Nat
             /\ Len(s.out) >= First(label) + 3 + (Len(label) - Len(Basic(label)))
             /\ \A text \in Seq(Nat) :
                  Continues(text, s.out) =>
                    LET d == After(text, label, Len(label) - Len(Basic(label)))
                    IN  d.at = Len(s.out) - 3 /\ d.out = label
<1> DEFINE s == Rounds(label)[Len(label)]
           E == Done(label, s.n, 0)
           k == Len(label) - Len(Basic(label))
<1>1. s \in EncState /\ Matches(label, s, E, 0) /\ s.handled = Len(label)
  BY RoundsEnd DEF RoundInv
<1> HIDE DEF s
<1>2. /\ E \in SUBSET (1..Len(label)) /\ Len(label) = Cardinality(E)
      /\ Len(label) >= Len(Basic(label))
      /\ Len(s.out) >= First(label) + 3 + k
      /\ Emitted(label, s.out)
      /\ \A text \in Seq(Nat) :
           Continues(text, s.out) => Agrees(After(text, label, k), label, s, E, 0)
  BY <1>1 DEF Matches
<1>3. Len(label) \in Nat /\ Len(Basic(label)) \in Nat /\ k \in Nat
  <2>1. Len(label) \in Nat
    OBVIOUS
  <2>2. Len(Basic(label)) \in Nat
    BY BasicType
  <2> QED
    BY <1>2, <2>1, <2>2
<1>4. E = 1..Len(label)
  <2> DEFINE D == 1..Len(label)
  <2>1. IsFiniteSet(D) /\ Cardinality(D) = Len(label)
    <3>1. Len(label) \in Int /\ 1 \in Int
      BY <1>3
    <3>2. IsFiniteSet(D) /\ Cardinality(D) = IF 1 > Len(label) THEN 0 ELSE Len(label) - 1 + 1
      BY <3>1, FS_Interval
    <3> QED
      BY <1>3, <3>2
  <2>2. E \in SUBSET D
    BY <1>2
  <2> HIDE DEF E, D
  <2>3. Cardinality(D) = Cardinality(E) => E = D
    BY <2>1, <2>2, FS_Subset
  <2> QED
    BY <1>2, <2>1, <2>3 DEF D
<1>5. s.out \in Seq(Nat) /\ Len(s.out) \in Nat
  BY <1>1 DEF EncState
<1>6. Picked(label, E) = label
  BY <1>4, PickedAll
<1> HIDE DEF E, k
<1>7. ASSUME NEW text \in Seq(Nat), Continues(text, s.out)
      PROVE  After(text, label, k).at = Len(s.out) - 3 /\ After(text, label, k).out = label
  <2>1. Agrees(After(text, label, k), label, s, E, 0)
    BY <1>2, <1>7
  <2> QED
    BY <1>6, <2>1 DEF Agrees
<1> QED
  BY <1>2, <1>3, <1>5, <1>7 DEF s, k

\* What the decoder makes of a whole text.
LEMMA InsertionsStop ==
  ASSUME NEW text \in Seq(Nat), NEW f, Inserts(f, text), NEW k \in 0..Len(text), f[k].at > Len(text)
  PROVE  f[Len(text)] = f[k]
<1> DEFINE L == Len(text)
           U == {j \in Nat : k + j <= L => f[k + j] = f[k]}
<1>1. L \in Nat /\ k \in Nat
  OBVIOUS
<1>2. \A j \in 1..L : f[j] = IF f[j - 1].at > L THEN f[j - 1] ELSE Insertion(text, f[j - 1])
  BY Zenon DEF Inserts
<1> HIDE DEF L
<1>3. 0 \in U
  BY <1>1
<1>4. ASSUME NEW j \in Nat, j \in U PROVE j + 1 \in U
  <2> SUFFICES ASSUME k + (j + 1) <= L PROVE f[k + (j + 1)] = f[k]
    OBVIOUS
  <2> DEFINE i == k + (j + 1)
  <2>1. i \in 1..L /\ i - 1 = k + j /\ k + j <= L
    BY <1>1
  <2>2. f[i - 1] = f[k]
    BY <1>4, <2>1
  <2> HIDE DEF i
  <2>3. f[i] = IF f[i - 1].at > L THEN f[i - 1] ELSE Insertion(text, f[i - 1])
    BY <1>2, <2>1, Zenon
  <2>4. f[k].at > L
    BY DEF L
  <2>5. f[i] = f[k]
    BY <2>2, <2>3, <2>4
  <2> QED
    BY <2>5 DEF i
<1>5. L - k \in Nat /\ k + (L - k) = L
  BY <1>1 DEF L
<1>6. L - k \in U
  <2> HIDE DEF U
  <2> QED
    BY <1>3, <1>4, <1>5, Induction
<1>7. f[L] = f[k]
  BY <1>1, <1>5, <1>6
<1> QED
  BY <1>7 DEF L

\* The decoder undoes the encoder.
LEMMA TextDecoded ==
  ASSUME NEW label \in Seq(Nat)
  PROVE  LET out == Rounds(label)[Len(label)].out
         IN  DecodedText(SubSeq(out, 5, Len(out))) = label
<1> DEFINE out == Rounds(label)[Len(label)].out
           lo == Len(out)
           text == SubSeq(out, 5, lo)
           lt == Len(text)
           b == Basic(label)
           lb == Len(b)
           first == First(label)
           k == Len(label) - lb
<1>1. /\ out \in Seq(Nat) /\ lo \in Nat
      /\ Emitted(label, out)
      /\ k \in Nat /\ lo >= first + 3 + k
      /\ \A t \in Seq(Nat) :
           Continues(t, out) => After(t, label, k).at = lo - 3 /\ After(t, label, k).out = label
  BY Complete
<1>2. b \in Seq(Nat) /\ lb \in Nat /\ first \in Nat \ {0} /\ first >= lb + 1
  BY BasicType
<1>3. /\ Begun(label).out \in Seq(Nat)
      /\ \A i \in 1..lb : Begun(label).out[4 + i] = b[i]
      /\ b # <<>> => first = lb + 2 /\ Begun(label).out[first + 3] = 45
      /\ b = <<>> => first = 1 /\ lb = 0
  BY BegunIs
<1> HIDE DEF out, b, first
<1>4. /\ \A j \in 1..(first + 3) : out[j] = Begun(label).out[j]
      /\ \A j \in (first + 4)..lo : IsDigit(out[j])
  BY <1>1 DEF Emitted, first
<1> HIDE DEF lo, lb, k, text, lt
<1>5. lo \in Nat /\ lo >= first + 3 + k /\ lo >= 4
  BY <1>1, <1>2
<1>6. text \in Seq(Nat) /\ lt = lo - 4 /\ \A i \in 1..lt : text[i] = out[4 + i]
  <2>1. 5 \in Nat \ {0} /\ 5 <= lo + 1 /\ lo <= Len(out)
    BY <1>5 DEF lo
  <2>2. /\ text \in Seq(Nat) /\ lt = lo + 1 - 5
        /\ \A i \in 1..(lo + 1 - 5) : text[i] = out[5 + i - 1]
    BY <1>1, <1>5, <2>1, SubSeqAt DEF text, lt
  <2>3. lo + 1 - 5 = lo - 4 /\ \A i \in 1..lt : 5 + i - 1 = 4 + i
    BY <1>5, <2>2
  <2> QED
    BY <2>2, <2>3
<1>7. lt \in Nat /\ lt >= first - 1 + k /\ k \in 0..lt
  BY <1>1, <1>2, <1>5, <1>6
<1>8. Continues(text, out)
  <2>1. ASSUME NEW j \in 5..lo PROVE text[j - 4] = out[j]
    <3>1. j - 4 \in 1..lt /\ 4 + (j - 4) = j
      BY <1>5, <1>6
    <3>2. text[j - 4] = out[4 + (j - 4)]
      BY <1>6, <3>1, Zenon
    <3> QED
      BY <3>1, <3>2
  <2>2. lo - 4 <= lt
    BY <1>5, <1>6
  <2> QED
    BY <2>1, <2>2, Zenon DEF Continues, lo, lt
<1>9. After(text, label, k).at = lo - 3 /\ After(text, label, k).out = label
  BY <1>1, <1>6, <1>8, Zenon
<1>10. Insertions(text, first, b)[lt].out = label
  <2> DEFINE f == Insertions(text, first, b)
  <2>1. Inserts(f, text)
    BY <1>6, InsertionsInsert, Zenon
  <2>2. f[k].at = lo - 3 /\ f[k].out = label
    BY <1>9 DEF After, first, b
  <2> HIDE DEF f
  <2>3. f[k].at > Len(text)
    BY <1>5, <1>6, <2>2 DEF lt
  <2>4. k \in 0..Len(text)
    BY <1>7 DEF lt
  <2>5. f[Len(text)] = f[k]
    BY <1>6, <2>1, <2>3, <2>4, InsertionsStop, Zenon
  <2> QED
    BY <2>2, <2>5 DEF f, lt
<1>11. ASSUME NEW i \in first..lt PROVE text[i] # 45
  <2>1. 4 + i \in (first + 4)..lo /\ i \in 1..lt
    BY <1>2, <1>5, <1>6
  <2>2. IsDigit(text[i])
    <3>1. text[i] = out[4 + i]
      BY <1>6, <2>1, Zenon
    <3> QED
      BY <1>4, <2>1, <3>1
  <2> QED
    BY <2>2, DigitIsNot, Zenon
<1> DEFINE hyphens == {i \in DOMAIN text : text[i] = Hyphen}
           last == IF hyphens = {} THEN 0 ELSE Max(hyphens)
<1>12. \A i : i \in hyphens <=> i \in 1..lt /\ text[i] = 45
  BY <1>6 DEF Hyphen, lt
<1>13. DecodedText(text) = Insertions(text, last + 1, SubSeq(text, 1, last - 1))[lt].out
  BY DEF DecodedText, lt
<1> HIDE DEF hyphens
<1>14. last = first - 1
  <2>1. CASE b = <<>>
    <3>1. first = 1 /\ hyphens = {}
      BY <1>3, <1>11, <1>12, <2>1
    <3> QED
      BY <3>1
  <2>2. CASE b # <<>>
    <3> DEFINE h == first - 1
    <3>1. h \in 1..lt /\ 4 + h = first + 3 /\ first + 3 \in 1..(first + 3)
      BY <1>1, <1>2, <1>3, <1>7, <2>2
    <3>2. text[h] = out[first + 3]
      BY <1>6, <3>1
    <3>3. text[h] = 45
      <4>1. out[first + 3] = Begun(label).out[first + 3]
        BY <1>4, <3>1, Zenon
      <4> QED
        BY <1>3, <2>2, <3>2, <4>1
    <3>4. h \in hyphens
      BY <1>12, <3>1, <3>3
    <3>5. \A i \in hyphens : i \in Int /\ h >= i
      <4> SUFFICES ASSUME NEW i \in hyphens PROVE i \in Int /\ h >= i
        OBVIOUS
      <4>1. i \in 1..lt /\ text[i] = 45
        BY <1>12
      <4>2. ~(i \in first..lt)
        BY <1>11, <4>1
      <4> QED
        BY <1>2, <1>7, <4>1, <4>2
    <3>6. Max(hyphens) = CHOOSE x \in hyphens : \A y \in hyphens : x >= y
      BY Zenon DEF Max
    <3> DEFINE m == Max(hyphens)
    <3> HIDE DEF h, m
    <3>7. m \in hyphens /\ \A y \in hyphens : m >= y
      BY <3>4, <3>5, <3>6, Zenon DEF m
    <3>8. m = h
      <4>1. m >= h /\ h >= m /\ m \in Int /\ h \in Int
        BY <3>4, <3>5, <3>7
      <4> QED
        BY <4>1
    <3>9. hyphens # {}
      BY <3>4
    <3> QED
      BY <3>8, <3>9 DEF m, h
  <2> QED
    BY <2>1, <2>2
<1> HIDE DEF last
<1>15. SubSeq(text, 1, last - 1) = b
  <2>1. CASE b = <<>>
    <3>1. last - 1 < 1 /\ last - 1 \in Int
      BY <1>3, <1>14, <2>1
    <3>2. SubSeq(text, 1, last - 1) = <<>>
      <4>1. 1 \in Int /\ \A i \in 1..(last - 1) : text[i] \in Nat
        BY <3>1
      <4> DEFINE u == SubSeq(text, 1, last - 1)
      <4>2. u \in Seq(Nat) /\ Len(u) = (IF 1 <= last - 1 THEN (last - 1) - 1 + 1 ELSE 0)
        BY <3>1, <4>1, SubSeqProperties
      <4> HIDE DEF u
      <4>3. Len(u) = 0
        BY <3>1, <4>2
      <4>4. u = <<>>
        BY <4>2, <4>3
      <4> QED
        BY <4>4 DEF u
    <3> QED
      BY <2>1, <3>2
  <2>2. CASE b # <<>>
    <3>1. last - 1 = lb /\ 1 <= lb + 1 /\ lb <= lt /\ first = lb + 2
      BY <1>1, <1>2, <1>3, <1>7, <1>14, <2>2
    <3> DEFINE u == SubSeq(text, 1, lb)
    <3>2. u \in Seq(Nat) /\ Len(u) = lb + 1 - 1 /\ \A i \in 1..(lb + 1 - 1) : u[i] = text[1 + i - 1]
      BY <1>2, <1>6, <3>1, SubSeqAt DEF lt
    <3> HIDE DEF u
    <3>3. Len(u) = lb /\ \A i \in 1..lb : u[i] = text[i]
      <4>1. lb + 1 - 1 = lb /\ \A i \in 1..lb : 1 + i - 1 = i
        BY <1>2
      <4> QED
        BY <3>2, <4>1
    <3>4. ASSUME NEW i \in 1..lb PROVE u[i] = b[i]
      <4>1. i \in 1..lt /\ 4 + i \in 1..(first + 3)
        BY <1>2, <1>7, <3>1
      <4>2. text[i] = out[4 + i]
        BY <1>6, <4>1, Zenon
      <4>3. out[4 + i] = Begun(label).out[4 + i]
        BY <1>4, <4>1, Zenon
      <4> QED
        BY <1>3, <3>3, <4>2, <4>3
    <3>5. u = b
      BY <1>2, <3>2, <3>3, <3>4, SeqEqual DEF lb
    <3> QED
      BY <3>1, <3>5 DEF u
  <2> QED
    BY <2>1, <2>2
<1>16. last + 1 = first
  BY <1>2, <1>14
<1> QED
  BY <1>10, <1>13, <1>15, <1>16 DEF text, out, lo

\* No dot inside.
DotFree(label) == \A i \in 1..Len(label) : label[i] # 46

\* A label outside ASCII.
LEMMA OutsideASCII ==
  ASSUME NEW label \in Seq(Nat), ~IsASCII(label)
  PROVE  Len(label) - Len(Basic(label)) >= 1
<1> DEFINE I == {i \in DOMAIN label : label[i] < InitialN}
           D == 1..Len(label)
<1>1. PICK q \in D : ~(label[q] < InitialN)
  BY DEF IsASCII
<1>2. I \in SUBSET D /\ q \notin I
  BY <1>1
<1>3. Len(label) \in Nat /\ IsFiniteSet(D) /\ Cardinality(D) = Len(label)
  <2>1. Len(label) \in Int /\ 1 \in Int /\ Len(label) \in Nat
    OBVIOUS
  <2>2. IsFiniteSet(D) /\ Cardinality(D) = IF 1 > Len(label) THEN 0 ELSE Len(label) - 1 + 1
    BY <2>1, FS_Interval
  <2> QED
    BY <2>1, <2>2
<1> HIDE DEF I
<1>4. IsFiniteSet(I) /\ Cardinality(I) \in Nat /\ Len(Basic(label)) = Cardinality(I)
  <2>1. I \in SUBSET (1..Len(label))
    BY <1>2
  <2>2. IsFiniteSet(I) /\ Cardinality(I) \in Nat /\ Len(Picked(label, I)) = Cardinality(I)
    BY <2>1, PickedLength
  <2>3. Basic(label) = Picked(label, I)
    BY DEF Basic, I
  <2> QED
    BY <2>2, <2>3
<1>5. Cardinality(I \cup {q}) = Cardinality(I) + 1
  BY <1>2, <1>4, FS_AddElement
<1>6. I \cup {q} \in SUBSET D
  BY <1>2
<1> HIDE DEF D
<1>7. Cardinality(I \cup {q}) <= Cardinality(D)
  BY <1>3, <1>6, FS_Subset
<1> QED
  BY <1>3, <1>4, <1>5, <1>7

\* What the encoder writes is ASCII, and no dot where there was none.
LEMMA PunyLabelIs ==
  ASSUME NEW label \in Seq(Nat), DotFree(label)
  PROVE  /\ PunyLabel(label) \in Seq(Nat) /\ IsASCII(PunyLabel(label)) /\ DotFree(PunyLabel(label))
         /\ ~IsASCII(label) => DecodedLabel(PunyLabel(label)) = label
<1>1. CASE IsASCII(label)
  BY <1>1 DEF PunyLabel
<1>2. CASE ~IsASCII(label)
  <2> DEFINE out == Rounds(label)[Len(label)].out
             b == Basic(label)
             lb == Len(b)
             lo == Len(out)
             first == First(label)
             o == Begun(label).out
             k == Len(label) - lb
  <2>1. PunyLabel(label) = out
    BY <1>2 DEF PunyLabel
  <2>2. out \in Seq(Nat) /\ lo \in Nat /\ Emitted(label, out) /\ k \in Nat /\ lo >= first + 3 + k
    BY Complete
  <2>3. b \in Seq(Nat) /\ lb \in Nat /\ first \in Nat \ {0} /\ first >= lb + 1
    BY BasicType
  <2>4. /\ o[1] = 120 /\ o[2] = 110 /\ o[3] = 45 /\ o[4] = 45
        /\ \A i \in 1..lb : o[4 + i] = b[i]
        /\ b # <<>> => first = lb + 2 /\ o[first + 3] = 45
        /\ b = <<>> => first = 1 /\ lb = 0
    BY BegunIs
  <2>5. k >= 1
    BY <1>2, OutsideASCII
  <2>6. DecodedText(SubSeq(out, 5, lo)) = label
    BY TextDecoded
  <2> HIDE DEF out, b, first, o
  <2>7. /\ \A j \in 1..(first + 3) : out[j] = o[j]
        /\ \A j \in (first + 4)..lo : IsDigit(out[j])
    BY <2>2 DEF Emitted, first, o
  <2>8. ASSUME NEW i \in 1..lb PROVE b[i] < 128 /\ b[i] # 46
    <3> DEFINE I == {j \in DOMAIN label : label[j] < InitialN}
    <3>1. I \in SUBSET (1..Len(label)) /\ \A j \in I : label[j] < 128
      BY DEF InitialN
    <3>2. b = Picked(label, I)
      BY DEF b, Basic
    <3> HIDE DEF I
    <3>3. \E j \in I : b[i] = label[j]
      BY <3>1, <3>2, PickedEntries
    <3> QED
      BY <3>1, <3>3 DEF DotFree
  <2> HIDE DEF lb, lo, k
  <2>9. ASSUME NEW j \in 1..lo PROVE out[j] < 128 /\ out[j] # 46
    <3>1. CASE j \in 1..4
      <4>1. j \in 1..(first + 3)
        BY <2>3, <3>1
      <4>2. j = 1 \/ j = 2 \/ j = 3 \/ j = 4
        BY <3>1
      <4>3. o[j] = 120 \/ o[j] = 110 \/ o[j] = 45
        BY <2>4, <4>2
      <4>4. out[j] = o[j]
        BY <2>7, <4>1, Zenon
      <4> QED
        BY <4>3, <4>4
    <3>2. CASE j \in 5..(4 + lb)
      <4>1. j \in 1..(first + 3) /\ j - 4 \in 1..lb /\ 4 + (j - 4) = j
        BY <2>3, <3>2
      <4>2. out[j] = o[4 + (j - 4)]
        BY <2>7, <4>1
      <4>3. o[4 + (j - 4)] = b[j - 4]
        BY <2>4, <4>1, Zenon
      <4> QED
        BY <2>8, <4>1, <4>2, <4>3
    <3>3. CASE j \in (5 + lb)..(first + 3)
      <4>1. b # <<>> /\ j = first + 3
        BY <2>3, <2>4, <3>3
      <4>2. j \in 1..(first + 3)
        BY <2>3, <4>1
      <4>3. out[j] = 45
        BY <2>4, <2>7, <4>1, <4>2
      <4> QED
        BY <4>3
    <3>4. CASE j \in (first + 4)..lo
      <4>1. IsDigit(out[j])
        BY <2>7, <3>4
      <4> QED
        BY <4>1, DigitIsNot, Zenon
    <3> QED
      BY <2>2, <2>3, <3>1, <3>2, <3>3, <3>4
  <2>10. IsASCII(out) /\ DotFree(out)
    <3>1. DOMAIN out = 1..Len(out)
      BY <2>2
    <3> QED
      BY <2>9, <3>1 DEF IsASCII, DotFree, InitialN, lo
  <2>11. Encoded(out)
    <3>1. Len(out) > 4 /\ 1 \in Nat \ {0} /\ 4 \in Nat /\ 1 <= 4 + 1 /\ 4 <= Len(out)
      BY <2>2, <2>3, <2>5 DEF lo
    <3> DEFINE u == SubSeq(out, 1, 4)
    <3>2. u \in Seq(Nat) /\ Len(u) = 4 + 1 - 1 /\ \A i \in 1..(4 + 1 - 1) : u[i] = out[1 + i - 1]
      BY <2>2, <3>1, SubSeqAt
    <3> HIDE DEF u
    <3>3. u \in Seq(Nat) /\ Len(u) = 4 /\ \A i \in 1..4 : u[i] = out[i]
      BY <3>2
    <3>4. 1 \in 1..(first + 3) /\ 2 \in 1..(first + 3) /\ 3 \in 1..(first + 3) /\ 4 \in 1..(first + 3)
      BY <2>3
    <3>5. out[1] = 120 /\ out[2] = 110 /\ out[3] = 45 /\ out[4] = 45
      BY <2>4, <2>7, <3>4
    <3>6. u[1] = 120 /\ u[2] = 110 /\ u[3] = 45 /\ u[4] = 45
      BY <3>3, <3>5
    <3> DEFINE w == Prefix
    <3>7. w \in Seq(Nat) /\ Len(w) = 4 /\ w[1] = 120 /\ w[2] = 110 /\ w[3] = 45 /\ w[4] = 45
      BY DEF Prefix, Hyphen
    <3> HIDE DEF w
    <3>8. \A i \in 1..4 : u[i] = w[i]
      <4> SUFFICES ASSUME NEW i \in 1..4 PROVE u[i] = w[i]
        OBVIOUS
      <4>1. i = 1 \/ i = 2 \/ i = 3 \/ i = 4
        OBVIOUS
      <4> QED
        BY <3>6, <3>7, <4>1
    <3>9. u = w
      <4>1. Len(u) = Len(w) /\ \A i \in 1..Len(u) : u[i] = w[i]
        BY <3>3, <3>7, <3>8
      <4>2. u \in Seq(Nat) /\ w \in Seq(Nat)
        BY <3>3, <3>7
      <4> QED
        BY <4>1, <4>2, SeqEqual
    <3> QED
      BY <3>1, <3>9 DEF Encoded, u, w
  <2>12. DecodedLabel(out) = label
    BY <2>6, <2>11 DEF DecodedLabel, lo
  <2> QED
    BY <2>1, <2>2, <2>10, <2>12
<1> QED
  BY <1>1, <1>2

-----------------------------------------------------------------------------
(* The labels of a name *)

\* The labels when the first k code points of a name are read.
Reads(f, name) ==
  /\ f[0] = << <<>> >>
  /\ \A k \in 1..Len(name) :
       f[k] = IF name[k] = 46
                THEN Append(f[k - 1], <<>>)
                ELSE [f[k - 1] EXCEPT ![Len(f[k - 1])] = Append(@, name[k])]

\* Labels as a loop.
LEMMA LabelsRead ==
  ASSUME NEW name \in Seq(Nat)
  PROVE  \E f : Reads(f, name) /\ Labels(name) = f[Len(name)]
<1> DEFINE n == Len(name)
           a == << <<>> >>
           next(k, parts) == IF name[k] = 46
                               THEN Append(parts, <<>>)
                               ELSE [parts EXCEPT ![Len(parts)] = Append(@, name[k])]
           Loop(f, k) == f = [m \in 0..k |-> IF m = 0 THEN a ELSE next(m, f[m - 1])]
           U == {k \in Nat : \E f : Loop(f, k)}
<1> HIDE DEF a, next
<1>1. 0 \in U
  <2>1. Loop([m \in 0..0 |-> a], 0)
    OBVIOUS
  <2> HIDE DEF Loop
  <2> QED
    BY <2>1
<1>2. ASSUME NEW k \in Nat, k \in U PROVE k + 1 \in U
  <2>1. PICK f : Loop(f, k)
    BY <1>2
  <2> DEFINE g == [m \in 0..(k + 1) |-> IF m = k + 1 THEN next(k + 1, f[k]) ELSE f[m]]
  <2>2. ASSUME NEW m \in 0..(k + 1)
        PROVE  g[m] = IF m = 0 THEN a ELSE next(m, g[m - 1])
    <3>1. CASE m = k + 1
      BY <3>1
    <3>2. CASE m # k + 1
      <4>1. m \in 0..k /\ g[m] = f[m] /\ (m # 0 => g[m - 1] = f[m - 1])
        BY <3>2
      <4> QED
        BY <2>1, <4>1
    <3> QED
      BY <3>1, <3>2
  <2>3. Loop(g, k + 1)
    <3>1. DOMAIN g = 0..(k + 1) /\ g = [m \in 0..(k + 1) |-> g[m]]
      OBVIOUS
    <3> HIDE DEF g
    <3> QED
      BY <2>2, <3>1
  <2> HIDE DEF Loop, g
  <2> QED
    BY <2>3
<1>3. n \in Nat
  OBVIOUS
<1>4. \E f : Loop(f, n)
  <2> HIDE DEF Loop, n
  <2>1. Nat \subseteq U
    <3> HIDE DEF U
    <3> QED
      BY <1>1, <1>2, Induction
  <2> QED
    BY <1>3, <2>1
<1> DEFINE g == CHOOSE f : Loop(f, n)
<1>5. Loop(g, n)
  <2> HIDE DEF Loop
  <2> QED
    BY <1>4, Zenon
<1>6. Labels(name) = g[n]
  BY Zenon DEF Labels, Dot, a, next
<1> HIDE DEF g, n
<1>7. g[0] = a /\ \A j \in 1..n : g[j] = next(j, g[j - 1])
  BY <1>3, <1>5
<1>8. Reads(g, name)
  BY <1>7, Zenon DEF Reads, a, next, n
<1> QED
  BY <1>6, <1>8 DEF n

\* There is at least one label, and none has a dot inside.
IsLabels(parts) ==
  /\ parts \in Seq(Seq(Nat)) /\ Len(parts) \in Nat \ {0}
  /\ \A i \in 1..Len(parts) : DotFree(parts[i])

\* The next code point of a label.
LEMMA LabelGrows ==
  ASSUME NEW parts \in Seq(Seq(Nat)), Len(parts) \in Nat \ {0}, NEW c \in Nat
  PROVE  LET last == parts[Len(parts)]
             next == [parts EXCEPT ![Len(parts)] = Append(@, c)]
             new == next[Len(parts)]
         IN  /\ next \in Seq(Seq(Nat)) /\ Len(next) = Len(parts)
             /\ \A i \in 1..(Len(parts) - 1) : next[i] = parts[i]
             /\ new \in Seq(Nat) /\ Len(last) \in Nat /\ Len(new) = Len(last) + 1
             /\ \A i \in 1..Len(last) : new[i] = last[i]
             /\ new[Len(last) + 1] = c
<1> DEFINE n == Len(parts)
           last == parts[n]
           more == Append(last, c)
           next == [parts EXCEPT ![n] = more]
<1>1. n \in Nat \ {0} /\ n \in 1..n /\ last \in Seq(Nat) /\ \A i \in 1..n : parts[i] \in Seq(Nat)
  OBVIOUS
<1> HIDE DEF last
<1>2. /\ more \in Seq(Nat) /\ Len(last) \in Nat /\ Len(more) = Len(last) + 1
      /\ \A i \in 1..Len(last) : more[i] = last[i]
      /\ more[Len(last) + 1] = c
  <2>1. Len(last) \in Nat
    BY <1>1
  <2>2. /\ more \in Seq(Nat) /\ Len(more) = Len(last) + 1
        /\ \A i \in 1..Len(last) : more[i] = last[i]
        /\ more[Len(last) + 1] = c
    BY <1>1, AppendProperties
  <2> QED
    BY <2>1, <2>2
<1> HIDE DEF more
<1>3. next[n] = more /\ \A i \in 1..(n - 1) : next[i] = parts[i]
  BY <1>1
<1>4. next \in Seq(Seq(Nat)) /\ Len(next) = n
  BY <1>1, <1>2, ExceptSeq
<1> HIDE DEF next
<1>5. [parts EXCEPT ![Len(parts)] = Append(@, c)] = next
  BY DEF next, more, last
<1> QED
  BY <1>2, <1>3, <1>4, <1>5 DEF last

\* There are labels at every step.
LEMMA ReadsLabels ==
  ASSUME NEW name \in Seq(Nat), NEW f, Reads(f, name), NEW k \in 0..Len(name)
  PROVE  IsLabels(f[k])
<1> DEFINE n == Len(name)
           U == {j \in Nat : j <= n => IsLabels(f[j])}
<1>1. n \in Nat /\ \A j \in 1..n : name[j] \in Nat
  OBVIOUS
<1>2. /\ f[0] = << <<>> >>
      /\ \A j \in 1..n :
           f[j] = IF name[j] = 46
                    THEN Append(f[j - 1], <<>>)
                    ELSE [f[j - 1] EXCEPT ![Len(f[j - 1])] = Append(@, name[j])]
  BY Zenon DEF Reads
<1> HIDE DEF n
<1>3. 0 \in U
  <2> DEFINE a == << <<>> >>
  <2>1. a \in Seq(Seq(Nat)) /\ Len(a) = 1 /\ a[1] = <<>>
    OBVIOUS
  <2>2. DotFree(<<>>)
    BY DEF DotFree
  <2> HIDE DEF a
  <2>3. IsLabels(a)
    BY <2>1, <2>2 DEF IsLabels
  <2> QED
    BY <1>2, <2>3 DEF a
<1>4. ASSUME NEW j \in Nat, j \in U PROVE j + 1 \in U
  <2> SUFFICES ASSUME j + 1 <= n PROVE IsLabels(f[j + 1])
    OBVIOUS
  <2> DEFINE p == f[j]
             q == f[j + 1]
             c == name[j + 1]
  <2>1. j + 1 \in 1..n /\ (j + 1) - 1 = j /\ j <= n
    BY <1>1
  <2>2. IsLabels(p)
    BY <1>4, <2>1
  <2>3. q = IF c = 46 THEN Append(p, <<>>) ELSE [p EXCEPT ![Len(p)] = Append(@, c)]
    BY <1>2, <2>1
  <2>4. c \in Nat
    BY <1>1, <2>1
  <2> HIDE DEF p, q, c
  <2>5. p \in Seq(Seq(Nat)) /\ Len(p) \in Nat \ {0} /\ \A i \in 1..Len(p) : DotFree(p[i])
    BY <2>2 DEF IsLabels
  <2>6. CASE c = 46
    <3>1. <<>> \in Seq(Nat) /\ DotFree(<<>>)
      BY DEF DotFree
    <3>2. q = Append(p, <<>>)
      BY <2>3, <2>6
    <3>3. /\ q \in Seq(Seq(Nat)) /\ Len(q) = Len(p) + 1
          /\ \A i \in 1..Len(p) : q[i] = p[i]
          /\ q[Len(p) + 1] = <<>>
      BY <2>5, <3>1, <3>2, AppendProperties
    <3>4. ASSUME NEW i \in 1..Len(q) PROVE DotFree(q[i])
      <4>1. i \in 1..Len(p) \/ i = Len(p) + 1
        BY <2>5, <3>3
      <4> QED
        BY <2>5, <3>1, <3>3, <4>1
    <3>5. Len(q) \in Nat \ {0}
      BY <2>5, <3>3
    <3> QED
      BY <3>3, <3>4, <3>5, Zenon DEF IsLabels, q
  <2>7. CASE c # 46
    <3> DEFINE last == p[Len(p)]
               new == q[Len(p)]
    <3>1. /\ q \in Seq(Seq(Nat)) /\ Len(q) = Len(p)
          /\ \A i \in 1..(Len(p) - 1) : q[i] = p[i]
          /\ new \in Seq(Nat) /\ Len(last) \in Nat /\ Len(new) = Len(last) + 1
          /\ \A i \in 1..Len(last) : new[i] = last[i]
          /\ new[Len(last) + 1] = c
      <4>1. q = [p EXCEPT ![Len(p)] = Append(@, c)]
        BY <2>3, <2>7
      <4> QED
        BY <2>4, <2>5, <4>1, LabelGrows
    <3>2. DotFree(last)
      BY <2>5
    <3> HIDE DEF new, last
    <3>3. DotFree(new)
      <4>1. ASSUME NEW i \in 1..Len(new) PROVE new[i] # 46
        <5>1. i \in 1..Len(last) \/ i = Len(last) + 1
          BY <3>1
        <5> QED
          BY <2>7, <3>1, <3>2, <5>1 DEF DotFree
      <4> QED
        BY <4>1 DEF DotFree
    <3>4. ASSUME NEW i \in 1..Len(q) PROVE DotFree(q[i])
      <4>1. i \in 1..(Len(p) - 1) \/ i = Len(p)
        BY <2>5, <3>1
      <4>2. i \in 1..Len(p)
        BY <3>1
      <4>3. CASE i = Len(p)
        BY <3>3, <4>3, Zenon DEF new
      <4>4. CASE i \in 1..(Len(p) - 1)
        <5>1. q[i] = p[i] /\ DotFree(p[i])
          BY <2>5, <3>1, <4>2, <4>4, Zenon
        <5> QED
          BY <5>1, Zenon
      <4> QED
        BY <4>1, <4>3, <4>4
    <3>5. Len(q) \in Nat \ {0}
      BY <2>5, <3>1
    <3> QED
      BY <3>1, <3>4, <3>5, Zenon DEF IsLabels, q
  <2>8. IsLabels(q)
    BY <2>6, <2>7, Zenon DEF q
  <2> QED
    BY <2>8 DEF q
<1>5. k \in Nat /\ k <= n
  BY DEF n
<1>6. k \in U
  <2> HIDE DEF U
  <2> QED
    BY <1>3, <1>4, <1>5, Induction
<1> QED
  BY <1>5, <1>6

\* What has been read does not depend on what follows.
LEMMA ReadsAgree ==
  ASSUME NEW x \in Seq(Nat), NEW y \in Seq(Nat), NEW f, NEW g, Reads(f, x), Reads(g, y),
         NEW n \in Nat, n <= Len(x), n <= Len(y), \A i \in 1..n : x[i] = y[i]
  PROVE  f[n] = g[n]
<1> DEFINE U == {j \in Nat : j <= n => f[j] = g[j]}
<1>1. /\ f[0] = << <<>> >>
      /\ \A k \in 1..Len(x) :
           f[k] = IF x[k] = 46
                    THEN Append(f[k - 1], <<>>)
                    ELSE [f[k - 1] EXCEPT ![Len(f[k - 1])] = Append(@, x[k])]
  BY Zenon DEF Reads
<1>2. /\ g[0] = << <<>> >>
      /\ \A k \in 1..Len(y) :
           g[k] = IF y[k] = 46
                    THEN Append(g[k - 1], <<>>)
                    ELSE [g[k - 1] EXCEPT ![Len(g[k - 1])] = Append(@, y[k])]
  BY Zenon DEF Reads
<1>3. 0 \in U
  BY <1>1, <1>2
<1>4. ASSUME NEW j \in Nat, j \in U PROVE j + 1 \in U
  <2> SUFFICES ASSUME j + 1 <= n PROVE f[j + 1] = g[j + 1]
    OBVIOUS
  <2> DEFINE k == j + 1
  <2>1. k \in 1..Len(x) /\ k \in 1..Len(y) /\ k \in 1..n /\ k - 1 = j /\ j <= n
    OBVIOUS
  <2>2. f[k - 1] = g[k - 1] /\ x[k] = y[k]
    BY <1>4, <2>1
  <2> HIDE DEF k
  <2>3. f[k] = IF x[k] = 46 THEN Append(f[k - 1], <<>>)
               ELSE [f[k - 1] EXCEPT ![Len(f[k - 1])] = Append(@, x[k])]
    BY <1>1, <2>1, Zenon
  <2>4. g[k] = IF y[k] = 46 THEN Append(g[k - 1], <<>>)
               ELSE [g[k - 1] EXCEPT ![Len(g[k - 1])] = Append(@, y[k])]
    BY <1>2, <2>1, Zenon
  <2>5. f[k] = g[k]
    BY <2>2, <2>3, <2>4
  <2> QED
    BY <2>5 DEF k
<1>5. n \in U
  <2> HIDE DEF U
  <2> QED
    BY <1>3, <1>4, Induction
<1> QED
  BY <1>5

\* A label without dots is read to its end.
LEMMA LabelRead ==
  ASSUME NEW x \in Seq(Nat), NEW f, Reads(f, x), NEW a \in Nat,
         NEW u \in Seq(Nat), DotFree(u), a + Len(u) <= Len(x),
         \A i \in 1..Len(u) : x[a + i] = u[i],
         NEW p, p = f[a], IsLabels(p), p[Len(p)] = <<>>
  PROVE  LET q == f[a + Len(u)]
         IN  /\ IsLabels(q) /\ Len(q) = Len(p)
             /\ \A i \in 1..(Len(p) - 1) : q[i] = p[i]
             /\ q[Len(p)] = u
<1> DEFINE lu == Len(u)
           n == Len(p)
           Has(q, j) == /\ Len(q) = n /\ \A i \in 1..(n - 1) : q[i] = p[i]
                        /\ Len(q[n]) = j /\ \A i \in 1..j : q[n][i] = u[i]
           U == {j \in Nat : j <= lu => Has(f[a + j], j)}
<1>1. lu \in Nat /\ n \in Nat \ {0} /\ Len(x) \in Nat /\ (\A i \in 1..lu : u[i] \in Nat /\ u[i] # 46)
  <2>1. lu \in Nat /\ Len(x) \in Nat /\ \A i \in 1..lu : u[i] \in Nat
    OBVIOUS
  <2>2. \A i \in 1..lu : u[i] # 46
    BY Zenon DEF DotFree
  <2>3. n \in Nat \ {0}
    BY Zenon DEF IsLabels
  <2> QED
    BY <2>1, <2>2, <2>3
<1>2. \A k \in 1..Len(x) :
        f[k] = IF x[k] = 46
                 THEN Append(f[k - 1], <<>>)
                 ELSE [f[k - 1] EXCEPT ![Len(f[k - 1])] = Append(@, x[k])]
  BY Zenon DEF Reads
<1>3. 0 \in U
  <2>1. f[a + 0] = p /\ Len(p[n]) = 0
    OBVIOUS
  <2> HIDE DEF n
  <2> QED
    BY <2>1 DEF n
<1>4. ASSUME NEW j \in Nat, j \in U PROVE j + 1 \in U
  <2> HIDE DEF Has
  <2> SUFFICES ASSUME j + 1 <= lu PROVE Has(f[a + (j + 1)], j + 1)
    OBVIOUS
  <2> USE DEF Has
  <2> DEFINE k == a + (j + 1)
             o == f[a + j]
             q == f[k]
             c == u[j + 1]
  <2>1. k \in 1..Len(x) /\ k - 1 = a + j /\ j <= lu /\ j + 1 \in 1..lu /\ a + j \in 0..Len(x)
    BY <1>1
  <2>2. x[k] = c /\ c \in Nat /\ c # 46
    BY <1>1, <2>1
  <2>3. /\ Len(o) = n /\ \A i \in 1..(n - 1) : o[i] = p[i]
        /\ Len(o[n]) = j /\ \A i \in 1..j : o[n][i] = u[i]
    BY <1>4, <2>1
  <2>4. IsLabels(o)
    BY <2>1, ReadsLabels
  <2>5. q = [o EXCEPT ![Len(o)] = Append(@, c)]
    <3> HIDE DEF k, c
    <3>1. q = IF x[k] = 46
                THEN Append(f[k - 1], <<>>)
                ELSE [f[k - 1] EXCEPT ![Len(f[k - 1])] = Append(@, x[k])]
      BY <1>2, <2>1
    <3>2. f[k - 1] = o
      BY <2>1
    <3> QED
      BY <2>2, <3>1, <3>2
  <2> HIDE DEF o, q, c, k, n, lu
  <2> DEFINE last == o[n]
             new == q[n]
  <2>6. /\ q \in Seq(Seq(Nat)) /\ Len(q) = Len(o)
        /\ \A i \in 1..(Len(o) - 1) : q[i] = o[i]
        /\ q[Len(o)] \in Seq(Nat) /\ Len(o[Len(o)]) \in Nat /\ Len(q[Len(o)]) = Len(o[Len(o)]) + 1
        /\ \A i \in 1..Len(o[Len(o)]) : q[Len(o)][i] = o[Len(o)][i]
        /\ q[Len(o)][Len(o[Len(o)]) + 1] = c
    <3>1. o \in Seq(Seq(Nat)) /\ Len(o) \in Nat \ {0}
      BY <2>4 DEF IsLabels
    <3> QED
      BY <2>2, <2>5, <3>1, LabelGrows
  <2>7. /\ Len(q) = n /\ \A i \in 1..(n - 1) : q[i] = o[i]
        /\ Len(new) = j + 1
        /\ \A i \in 1..j : new[i] = last[i]
        /\ new[j + 1] = c
    BY <2>3, <2>6
  <2> HIDE DEF last, new
  <2>8. ASSUME NEW i \in 1..(j + 1) PROVE new[i] = u[i]
    <3>1. CASE i = j + 1
      BY <2>7, <3>1 DEF c
    <3>2. CASE i # j + 1
      <4>1. i \in 1..j
        BY <3>2
      <4> QED
        BY <2>3, <2>7, <4>1 DEF last
    <3> QED
      BY <3>1, <3>2
  <2>9. \A i \in 1..(n - 1) : q[i] = p[i]
    BY <2>3, <2>7
  <2> QED
    BY <2>7, <2>8, <2>9 DEF new, q, k
<1> DEFINE q == f[a + lu]
<1>5. /\ Len(q) = n /\ \A i \in 1..(n - 1) : q[i] = p[i]
      /\ Len(q[n]) = lu /\ \A i \in 1..lu : q[n][i] = u[i]
  <2>1. lu \in U
    <3> HIDE DEF U
    <3> QED
      BY <1>1, <1>3, <1>4, Induction
  <2> QED
    BY <1>1, <2>1
<1>6. IsLabels(q)
  <2>1. a + lu \in 0..Len(x)
    BY <1>1
  <2> QED
    BY <2>1, ReadsLabels
<1> HIDE DEF q
<1>7. q[n] = u
  <2>1. q[n] \in Seq(Nat)
    <3>1. q \in Seq(Seq(Nat)) /\ n \in 1..Len(q)
      BY <1>1, <1>5, <1>6 DEF IsLabels
    <3> QED
      BY <3>1
  <2> QED
    BY <1>5, <2>1, SeqEqual
<1> QED
  BY <1>5, <1>6, <1>7 DEF q

\* So there are at the end.
LEMMA LabelsType ==
  ASSUME NEW name \in Seq(Nat)
  PROVE  IsLabels(Labels(name))
<1>1. PICK f : Reads(f, name) /\ Labels(name) = f[Len(name)]
  BY LabelsRead
<1>2. Len(name) \in 0..Len(name)
  OBVIOUS
<1>3. IsLabels(f[Len(name)])
  BY <1>1, <1>2, ReadsLabels, Zenon
<1> QED
  BY <1>1, <1>3

\* A name without dots is one label.
LEMMA OneLabel ==
  ASSUME NEW u \in Seq(Nat), DotFree(u)
  PROVE  Len(Labels(u)) = 1 /\ Labels(u)[1] = u
<1>1. PICK f : Reads(f, u) /\ Labels(u) = f[Len(u)]
  BY LabelsRead
<1> DEFINE p == f[0]
<1>2. p = << <<>> >>
  BY <1>1 DEF Reads
<1>3. IsLabels(p)
  <2>1. 0 \in 0..Len(u)
    OBVIOUS
  <2> QED
    BY <1>1, <2>1, ReadsLabels, Zenon
<1>4. Len(p) = 1 /\ p[1] = <<>>
  BY <1>2
<1> HIDE DEF p
<1>5. LET q == f[0 + Len(u)]
      IN  /\ IsLabels(q) /\ Len(q) = Len(p)
          /\ \A i \in 1..(Len(p) - 1) : q[i] = p[i]
          /\ q[Len(p)] = u
  <2>1. 0 \in Nat /\ 0 + Len(u) <= Len(u) /\ \A i \in 1..Len(u) : u[0 + i] = u[i]
    OBVIOUS
  <2>2. p[Len(p)] = <<>> /\ p = f[0]
    BY <1>4 DEF p
  <2> QED
    BY <1>1, <1>3, <2>1, <2>2, LabelRead
<1>6. 0 + Len(u) = Len(u)
  OBVIOUS
<1> DEFINE q == Labels(u)
<1>7. Len(q) = Len(p) /\ q[Len(p)] = u
  BY <1>1, <1>5, <1>6
<1> HIDE DEF q
<1> QED
  BY <1>4, <1>7 DEF q

\* One more label after a dot.
LEMMA LabelAdded ==
  ASSUME NEW t \in Seq(Nat), NEW u \in Seq(Nat), DotFree(u)
  PROVE  LET x == t \o <<Dot>> \o u
             n == Len(Labels(t))
         IN  /\ x \in Seq(Nat) /\ n \in Nat \ {0} /\ Len(Labels(x)) = n + 1
             /\ \A i \in 1..n : Labels(x)[i] = Labels(t)[i]
             /\ Labels(x)[n + 1] = u
             /\ IsASCII(t) /\ IsASCII(u) => IsASCII(x)
<1> DEFINE dot == <<Dot>>
           y == t \o dot
           x == y \o u
           lt == Len(t)
           lu == Len(u)
           lx == Len(x)
<1>1. dot \in Seq(Nat) /\ Len(dot) = 1 /\ dot[1] = 46
  BY DEF Dot
<1> HIDE DEF dot, y, x, lt, lu, lx
<1>2. Joins(y, t, dot)
  BY <1>1, ConcatJoins, Zenon DEF y
<1>3. /\ y \in Seq(Nat) /\ lt \in Nat /\ Len(y) = lt + 1
      /\ \A i \in 1..lt : y[i] = t[i]
      /\ y[lt + 1] = 46
  <2>1. 1 \in 1..Len(dot)
    BY <1>1
  <2> QED
    BY <1>1, <1>2, <2>1 DEF Joins, lt
<1>4. Joins(x, y, u)
  BY <1>3, ConcatJoins, Zenon DEF x
<1>5. /\ x \in Seq(Nat) /\ lu \in Nat /\ lx = (lt + 1) + lu
      /\ \A i \in 1..(lt + 1) : x[i] = y[i]
      /\ \A i \in 1..lu : x[(lt + 1) + i] = u[i]
  BY <1>3, <1>4 DEF Joins, lu, lx
<1>6. (\A i \in 1..lt : x[i] = t[i]) /\ x[lt + 1] = 46
  <2>1. lt + 1 \in 1..(lt + 1) /\ \A i \in 1..lt : i \in 1..(lt + 1)
    BY <1>3
  <2> QED
    BY <1>3, <1>5, <2>1
<1>7. PICK f : Reads(f, x) /\ Labels(x) = f[Len(x)]
  BY <1>5, LabelsRead, Zenon
<1>8. PICK g : Reads(g, t) /\ Labels(t) = g[Len(t)]
  BY LabelsRead, Zenon
<1> DEFINE o == Labels(t)
           p == f[lt + 1]
           q == Labels(x)
           n == Len(o)
<1>9. f[lt] = o
  <2>1. lt \in Nat /\ lt <= Len(x) /\ lt <= lt /\ Len(t) = lt
    <3>1. lt \in Nat /\ lt <= lx /\ lt <= lt
      BY <1>3, <1>5
    <3> QED
      BY <3>1, Zenon DEF lx, lt
  <2>2. f[lt] = g[lt]
    <3>1. x \in Seq(Nat) /\ Reads(f, x) /\ Reads(g, t) /\ lt <= Len(t) /\ \A i \in 1..lt : x[i] = t[i]
      BY <1>5, <1>6, <1>7, <1>8, <2>1
    <3> QED
      BY <2>1, <3>1, ReadsAgree
  <2> QED
    BY <1>8, <2>2 DEF lt
<1>10. IsLabels(o)
  BY LabelsType
<1> HIDE DEF o, q, p
<1>11. p = Append(o, <<>>)
  <2>1. lt + 1 \in 1..Len(x) /\ (lt + 1) - 1 = lt
    BY <1>3, <1>5 DEF lx
  <2> DEFINE k == lt + 1
  <2>2. k \in 1..Len(x) /\ k - 1 = lt /\ x[k] = 46
    BY <1>6, <2>1
  <2>3. p = f[k]
    BY DEF p
  <2> HIDE DEF k
  <2>4. f[k] = IF x[k] = 46 THEN Append(f[k - 1], <<>>)
               ELSE [f[k - 1] EXCEPT ![Len(f[k - 1])] = Append(@, x[k])]
    BY <1>7, <2>2, Zenon DEF Reads
  <2>5. f[k] = Append(f[k - 1], <<>>)
    BY <2>2, <2>4
  <2> QED
    BY <1>9, <2>2, <2>3, <2>5
<1>12. /\ n \in Nat \ {0} /\ Len(p) = n + 1
       /\ \A i \in 1..n : p[i] = o[i]
       /\ p[n + 1] = <<>>
  <2>1. o \in Seq(Seq(Nat)) /\ n \in Nat \ {0}
    BY <1>10, Zenon DEF IsLabels
  <2>2. <<>> \in Seq(Nat)
    OBVIOUS
  <2>3. /\ Len(p) = Len(o) + 1
        /\ \A i \in 1..Len(o) : p[i] = o[i]
        /\ p[Len(o) + 1] = <<>>
    BY <1>11, <2>1, <2>2, AppendProperties
  <2> QED
    BY <2>1, <2>3
<1>13. IsLabels(p)
  <2>1. lt + 1 \in 0..Len(x)
    BY <1>3, <1>5 DEF lx
  <2> QED
    BY <1>5, <1>7, <2>1, ReadsLabels, Zenon DEF p
<1>14. LET r == f[(lt + 1) + Len(u)]
       IN  /\ IsLabels(r) /\ Len(r) = Len(p)
           /\ \A i \in 1..(Len(p) - 1) : r[i] = p[i]
           /\ r[Len(p)] = u
  <2>1. lt + 1 \in Nat /\ (lt + 1) + Len(u) <= Len(x) /\ \A i \in 1..Len(u) : x[(lt + 1) + i] = u[i]
    BY <1>3, <1>5 DEF lx, lu
  <2>2. p[Len(p)] = <<>>
    BY <1>12
  <2>3. p = f[lt + 1]
    BY DEF p
  <2> DEFINE a == lt + 1
  <2>4. /\ a \in Nat /\ a + Len(u) <= Len(x) /\ (\A i \in 1..Len(u) : x[a + i] = u[i])
        /\ p = f[a] /\ IsLabels(p) /\ p[Len(p)] = <<>> /\ x \in Seq(Nat) /\ Reads(f, x)
    BY <1>5, <1>7, <1>13, <2>1, <2>2, <2>3
  <2> HIDE DEF a
  <2>5. LET r == f[a + Len(u)]
        IN  /\ IsLabels(r) /\ Len(r) = Len(p)
            /\ \A i \in 1..(Len(p) - 1) : r[i] = p[i]
            /\ r[Len(p)] = u
    BY <2>4, LabelRead
  <2> QED
    BY <2>5 DEF a
<1>15. q = f[(lt + 1) + Len(u)]
  BY <1>5, <1>7 DEF q, lx, lu
<1>16. Len(q) = Len(p) /\ (\A i \in 1..(Len(p) - 1) : q[i] = p[i]) /\ q[Len(p)] = u
  BY <1>14, <1>15
<1>17. Len(q) = n + 1 /\ (\A i \in 1..n : q[i] = o[i]) /\ q[n + 1] = u
  <2>1. (n + 1) - 1 = n
    BY <1>12
  <2> QED
    BY <1>12, <1>16, <2>1
<1>18. IsASCII(t) /\ IsASCII(u) => IsASCII(x)
  <2> SUFFICES ASSUME IsASCII(t), IsASCII(u), NEW i \in DOMAIN x PROVE x[i] < 128
    BY DEF IsASCII, InitialN
  <2>1. /\ \A j \in 1..lt : t[j] < 128
        /\ \A j \in 1..lu : u[j] < 128
    BY DEF IsASCII, InitialN, lt, lu
  <2>2. i \in 1..lx
    BY <1>5 DEF lx
  <2>3. CASE i \in 1..lt
    BY <1>6, <2>1, <2>3
  <2>4. CASE i = lt + 1
    BY <1>6, <2>4
  <2>5. CASE i > lt + 1
    <3>1. i - (lt + 1) \in 1..lu /\ (lt + 1) + (i - (lt + 1)) = i
      BY <1>3, <1>5, <2>2, <2>5
    <3> DEFINE j == i - (lt + 1)
    <3>2. j \in 1..lu /\ x[i] = x[(lt + 1) + j]
      BY <3>1
    <3> HIDE DEF j
    <3> QED
      BY <1>5, <2>1, <3>2
  <2> QED
    BY <1>3, <1>5, <2>2, <2>3, <2>4, <2>5
<1> QED
  BY <1>5, <1>12, <1>17, <1>18, Zenon DEF x, y, dot, q, o

\* Joined as a loop.
LEMMA JoinedDef ==
  ASSUME NEW labels, Len(labels) \in Nat
  PROVE  \E g : /\ Joined(labels) = g[Len(labels)]
                /\ \A k \in 1..Len(labels) :
                     g[k] = IF k = 1 THEN labels[1] ELSE g[k - 1] \o <<Dot>> \o labels[k]
<1> DEFINE n == Len(labels)
           next(k, name) == IF k = 1 THEN labels[1] ELSE name \o <<Dot>> \o labels[k]
           Loop(f, k) == f = [m \in 0..k |-> IF m = 0 THEN <<>> ELSE next(m, f[m - 1])]
           U == {k \in Nat : \E f : Loop(f, k)}
<1> HIDE DEF next
<1>1. 0 \in U
  <2>1. Loop([m \in 0..0 |-> <<>>], 0)
    OBVIOUS
  <2> HIDE DEF Loop
  <2> QED
    BY <2>1
<1>2. ASSUME NEW k \in Nat, k \in U PROVE k + 1 \in U
  <2>1. PICK f : Loop(f, k)
    BY <1>2
  <2> DEFINE g == [m \in 0..(k + 1) |-> IF m = k + 1 THEN next(k + 1, f[k]) ELSE f[m]]
  <2>2. ASSUME NEW m \in 0..(k + 1)
        PROVE  g[m] = IF m = 0 THEN <<>> ELSE next(m, g[m - 1])
    <3>1. CASE m = k + 1
      BY <3>1
    <3>2. CASE m # k + 1
      <4>1. m \in 0..k /\ g[m] = f[m] /\ (m # 0 => g[m - 1] = f[m - 1])
        BY <3>2
      <4> QED
        BY <2>1, <4>1
    <3> QED
      BY <3>1, <3>2
  <2>3. Loop(g, k + 1)
    <3>1. DOMAIN g = 0..(k + 1) /\ g = [m \in 0..(k + 1) |-> g[m]]
      OBVIOUS
    <3> HIDE DEF g
    <3> QED
      BY <2>2, <3>1
  <2> HIDE DEF Loop, g
  <2> QED
    BY <2>3
<1>4. \E f : Loop(f, n)
  <2> HIDE DEF Loop, n
  <2>1. Nat \subseteq U
    <3> HIDE DEF U
    <3> QED
      BY <1>1, <1>2, Induction
  <2>2. n \in Nat
    BY DEF n
  <2> QED
    BY <2>1, <2>2
<1> DEFINE g == CHOOSE f : Loop(f, n)
<1>5. Loop(g, n)
  <2> HIDE DEF Loop
  <2> QED
    BY <1>4, Zenon
<1>6. Joined(labels) = g[n]
  <2>1. g = CHOOSE f : f = [k \in 0..Len(labels) |->
              IF k = 0 THEN <<>>
              ELSE IF k = 1 THEN labels[1]
              ELSE f[k - 1] \o <<Dot>> \o labels[k]]
    BY Zenon DEF next
  <2> QED
    BY <2>1, Zenon DEF Joined
<1> HIDE DEF g, n
<1>7. \A j \in 1..n : g[j] = next(j, g[j - 1])
  BY <1>5 DEF n
<1>8. \A j \in 1..n : g[j] = IF j = 1 THEN labels[1] ELSE g[j - 1] \o <<Dot>> \o labels[j]
  BY <1>7, Zenon DEF next
<1> QED
  BY <1>6, <1>8, Zenon DEF n

\* Joined is undone by Labels.
LEMMA JoinedIs ==
  ASSUME NEW labels, IsLabels(labels)
  PROVE  /\ Joined(labels) \in Seq(Nat) /\ Labels(Joined(labels)) = labels
         /\ (\A i \in 1..Len(labels) : IsASCII(labels[i])) => IsASCII(Joined(labels))
<1>1. /\ labels \in Seq(Seq(Nat)) /\ Len(labels) \in Nat \ {0}
      /\ \A i \in 1..Len(labels) : DotFree(labels[i]) /\ labels[i] \in Seq(Nat)
  <2>1. /\ labels \in Seq(Seq(Nat)) /\ Len(labels) \in Nat \ {0}
        /\ \A i \in 1..Len(labels) : DotFree(labels[i])
    BY Zenon DEF IsLabels
  <2>2. \A i \in 1..Len(labels) : labels[i] \in Seq(Nat)
    BY <2>1
  <2> QED
    BY <2>1, <2>2
<1>2. PICK g : /\ Joined(labels) = g[Len(labels)]
               /\ \A k \in 1..Len(labels) :
                    g[k] = IF k = 1 THEN labels[1] ELSE g[k - 1] \o <<Dot>> \o labels[k]
  BY <1>1, JoinedDef
<1> DEFINE L == Len(labels)
           ascii == \A i \in 1..L : IsASCII(labels[i])
           Is(x, k) == /\ x \in Seq(Nat) /\ Len(Labels(x)) = k
                       /\ \A i \in 1..k : Labels(x)[i] = labels[i]
                       /\ ascii => IsASCII(x)
           U == {k \in Nat : k + 1 <= L => Is(g[k + 1], k + 1)}
<1>3. /\ L \in Nat \ {0}
      /\ \A k \in 1..L : g[k] = IF k = 1 THEN labels[1] ELSE g[k - 1] \o <<Dot>> \o labels[k]
      /\ \A k \in 1..L : DotFree(labels[k]) /\ labels[k] \in Seq(Nat) /\ (ascii => IsASCII(labels[k]))
  BY <1>1, <1>2
<1> HIDE DEF L, ascii, Is
<1>4. 0 \in U
  <2>1. Is(g[1], 1)
    <3> DEFINE x == labels[1]
    <3>1. 1 \in 1..L
      BY <1>3
    <3>2. g[1] = x /\ x \in Seq(Nat) /\ DotFree(x) /\ (ascii => IsASCII(x))
      BY <1>3, <3>1
    <3>3. \A i \in 1..1 : i = 1
      OBVIOUS
    <3>4. Len(Labels(x)) = 1 /\ Labels(x)[1] = x
      BY <3>2, OneLabel, Zenon
    <3> HIDE DEF x
    <3>5. \A i \in 1..1 : Labels(x)[i] = labels[i]
      BY <3>3, <3>4 DEF x
    <3>6. Is(x, 1)
      BY <3>2, <3>4, <3>5, Zenon DEF Is
    <3> QED
      BY <3>2, <3>6
  <2>2. 0 + 1 = 1
    OBVIOUS
  <2> QED
    BY <2>1, <2>2
<1>5. ASSUME NEW k \in Nat, k \in U PROVE k + 1 \in U
  <2> SUFFICES ASSUME (k + 1) + 1 <= L PROVE Is(g[(k + 1) + 1], (k + 1) + 1)
    OBVIOUS
  <2> DEFINE j == (k + 1) + 1
             t == g[k + 1]
             u == labels[j]
             x == t \o <<Dot>> \o u
  <2>1. j \in 1..L /\ j # 1 /\ j - 1 = k + 1 /\ k + 1 <= L /\ j = (k + 1) + 1
    BY <1>3
  <2>2. Is(t, k + 1)
    BY <1>5, <2>1
  <2>3. g[j] = x
    <3> HIDE DEF j
    <3> QED
      BY <1>3, <2>1
  <2>4. DotFree(u) /\ u \in Seq(Nat) /\ (ascii => IsASCII(u))
    BY <1>3, <2>1
  <2>5. t \in Seq(Nat) /\ Len(Labels(t)) = k + 1 /\ (\A i \in 1..(k + 1) : Labels(t)[i] = labels[i])
        /\ (ascii => IsASCII(t))
    BY <2>2, Zenon DEF Is
  <2> HIDE DEF t, u, j
  <2>6. /\ x \in Seq(Nat) /\ Len(Labels(x)) = Len(Labels(t)) + 1
        /\ \A i \in 1..Len(Labels(t)) : Labels(x)[i] = Labels(t)[i]
        /\ Labels(x)[Len(Labels(t)) + 1] = u
        /\ IsASCII(t) /\ IsASCII(u) => IsASCII(x)
    BY <2>4, <2>5, LabelAdded, Zenon
  <2> HIDE DEF x
  <2>7. Len(Labels(x)) = j
    BY <2>1, <2>5, <2>6
  <2>8. ASSUME NEW i \in 1..j PROVE Labels(x)[i] = labels[i]
    <3>1. CASE i = j
      BY <2>1, <2>5, <2>6, <3>1 DEF u
    <3>2. CASE i # j
      <4>1. i \in 1..(k + 1)
        BY <2>1, <3>2
      <4> QED
        BY <2>5, <2>6, <4>1
    <3> QED
      BY <3>1, <3>2
  <2>9. Is(x, j)
    BY <2>4, <2>5, <2>6, <2>7, <2>8, Zenon DEF Is
  <2> QED
    BY <2>3, <2>9 DEF j
<1>6. Is(g[L], L)
  <2>1. L - 1 \in Nat /\ (L - 1) + 1 = L
    BY <1>3
  <2>2. L - 1 \in U
    <3> HIDE DEF U
    <3> QED
      BY <1>4, <1>5, <2>1, Induction
  <2> QED
    BY <1>3, <2>1, <2>2
<1> DEFINE x == g[L]
<1>7. x = Joined(labels)
  BY <1>2 DEF L
<1> HIDE DEF x
<1>8. /\ x \in Seq(Nat) /\ Len(Labels(x)) = L
      /\ \A i \in 1..L : Labels(x)[i] = labels[i]
      /\ ascii => IsASCII(x)
  BY <1>6, Zenon DEF Is, x
<1>9. Labels(x) = labels
  <2> DEFINE y == Labels(x)
  <2>1. y \in Seq(Seq(Nat))
    BY <1>8, LabelsType, Zenon DEF IsLabels
  <2>2. Len(y) = Len(labels) /\ \A i \in 1..Len(y) : y[i] = labels[i]
    BY <1>8 DEF L
  <2> HIDE DEF y
  <2>3. y = labels
    BY <1>1, <2>1, <2>2, SeqEqual
  <2> QED
    BY <2>3 DEF y
<1> QED
  BY <1>7, <1>8, <1>9 DEF ascii, L

\* A name that goes through punyDomain is ASCII and means what it meant.
LEMMA NameMeant ==
  ASSUME NEW name \in Seq(Nat)
  PROVE  IsASCII(PunyDomain(name)) /\ Decoded(PunyDomain(name)) = Meant(name)
<1> DEFINE labels == Labels(name)
           puny == [i \in DOMAIN labels |-> PunyLabel(labels[i])]
           w == PunyDomain(name)
<1>1. /\ labels \in Seq(Seq(Nat)) /\ Len(labels) \in Nat \ {0}
      /\ \A i \in 1..Len(labels) : DotFree(labels[i])
  BY LabelsType, Zenon DEF IsLabels
<1>2. DOMAIN labels = 1..Len(labels) /\ \A i \in 1..Len(labels) : labels[i] \in Seq(Nat)
  <2> HIDE DEF labels
  <2> QED
    BY <1>1
<1>3. w = Joined(puny)
  BY Zenon DEF PunyDomain
<1>4. Decoded(w) = Joined([i \in DOMAIN Labels(w) |-> DecodedLabel(Labels(w)[i])])
  BY Zenon DEF Decoded
<1>5. Meant(name) = Joined([i \in DOMAIN labels |->
                             IF IsASCII(labels[i]) THEN DecodedLabel(labels[i]) ELSE labels[i]])
  BY Zenon DEF Meant
<1> HIDE DEF labels, w
<1>6. ASSUME NEW i \in 1..Len(labels)
      PROVE  /\ PunyLabel(labels[i]) \in Seq(Nat) /\ IsASCII(PunyLabel(labels[i]))
             /\ DotFree(PunyLabel(labels[i]))
             /\ DecodedLabel(PunyLabel(labels[i])) =
                  IF IsASCII(labels[i]) THEN DecodedLabel(labels[i]) ELSE labels[i]
  <2> DEFINE l == labels[i]
  <2>1. l \in Seq(Nat) /\ DotFree(l)
    BY <1>1, <1>2
  <2> HIDE DEF l
  <2>2. /\ PunyLabel(l) \in Seq(Nat) /\ IsASCII(PunyLabel(l)) /\ DotFree(PunyLabel(l))
        /\ ~IsASCII(l) => DecodedLabel(PunyLabel(l)) = l
    BY <2>1, PunyLabelIs, Zenon
  <2>3. IsASCII(l) => PunyLabel(l) = l
    BY Zenon DEF PunyLabel
  <2>4. DecodedLabel(PunyLabel(l)) = IF IsASCII(l) THEN DecodedLabel(l) ELSE l
    BY <2>2, <2>3, Zenon
  <2> QED
    BY <2>2, <2>4 DEF l
<1>7. /\ puny \in Seq(Seq(Nat)) /\ Len(puny) = Len(labels)
      /\ \A i \in 1..Len(labels) : puny[i] = PunyLabel(labels[i])
  <2>1. \A i \in 1..Len(labels) : puny[i] = PunyLabel(labels[i])
    BY <1>2
  <2>2. puny = [i \in 1..Len(labels) |-> PunyLabel(labels[i])]
    BY <1>2
  <2>3. \A i \in 1..Len(labels) : PunyLabel(labels[i]) \in Seq(Nat)
    BY <1>6
  <2>4. Len(labels) \in Nat
    BY <1>1
  <2> HIDE DEF puny
  <2> QED
    BY <2>1, <2>2, <2>3, <2>4
<1> HIDE DEF puny
<1>8. IsLabels(puny) /\ \A i \in 1..Len(puny) : IsASCII(puny[i])
  <2>1. \A i \in 1..Len(puny) : DotFree(puny[i]) /\ IsASCII(puny[i])
    BY <1>6, <1>7
  <2>2. Len(puny) \in Nat \ {0}
    BY <1>1, <1>7
  <2> QED
    BY <1>7, <2>1, <2>2, Zenon DEF IsLabels
<1>9. Labels(w) = puny /\ IsASCII(w)
  BY <1>3, <1>8, JoinedIs, Zenon
<1>10. [i \in DOMAIN puny |-> DecodedLabel(puny[i])] =
         [i \in DOMAIN labels |-> IF IsASCII(labels[i]) THEN DecodedLabel(labels[i]) ELSE labels[i]]
  <2>1. DOMAIN puny = DOMAIN labels
    BY <1>2, <1>7
  <2>2. \A i \in DOMAIN labels :
          DecodedLabel(puny[i]) = IF IsASCII(labels[i]) THEN DecodedLabel(labels[i]) ELSE labels[i]
    BY <1>2, <1>6, <1>7
  <2> QED
    BY <2>1, <2>2
<1>11. Decoded(w) = Meant(name)
  BY <1>4, <1>5, <1>9, <1>10, Zenon
<1> QED
  BY <1>9, <1>11 DEF w

-----------------------------------------------------------------------------
(* Fixed addresses *)

\* The names of the file, when every variable has its type.
LEMMA HostsMeantHolds == TypeOK => HostsMeant
<1> SUFFICES ASSUME TypeOK PROVE HostsMeant
  OBVIOUS
<1> DEFINE Fixed == {e \in hosts : e.isIP}
<1>1. ASSUME NEW h \in Fixed
      PROVE  IsASCII(Wire[h.name]) /\ Decoded(Wire[h.name]) = Meant(h.name)
  <2>1. h.name \in Names
    BY DEF TypeOK
  <2>2. Wire[h.name] = PunyDomain(h.name)
    BY <2>1, Zenon DEF Wire
  <2>3. h.name \in Seq(Nat)
    BY <2>1, NamesAssumption
  <2> QED
    BY <2>2, <2>3, NameMeant, Zenon
<1>2. Predefined = {Wire[h.name] : h \in Fixed}
  BY Zenon DEF Predefined
<1>3. HostsMeant <=> /\ \A w \in Predefined : IsASCII(w)
                    /\ {Decoded(w) : w \in Predefined} = {Meant(h.name) : h \in Fixed}
  BY Zenon DEF HostsMeant
<1> HIDE DEF Fixed
<1>4. \A w \in Predefined : IsASCII(w)
  BY <1>1, <1>2, Zenon
<1>5. {Decoded(w) : w \in Predefined} = {Meant(h.name) : h \in Fixed}
  <2>1. \A w \in Predefined : \E h \in Fixed : Decoded(w) = Meant(h.name)
    BY <1>1, <1>2, Zenon
  <2>2. \A h \in Fixed : \E w \in Predefined : Decoded(w) = Meant(h.name)
    BY <1>1, <1>2, Zenon
  <2> QED
    BY <2>1, <2>2
<1> QED
  BY <1>3, <1>4, <1>5

\* punycode.go and buildSingbox: the names of the hosts server are ASCII and
\* mean the names the user gave an address to, whatever letters these have.
THEOREM HostsRight == Spec => []HostsMeant
BY TypeCorrect, HostsMeantHolds, PTL
=============================================================================
