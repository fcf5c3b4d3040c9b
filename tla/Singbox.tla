------------------------------- MODULE Singbox ------------------------------
(***************************************************************************)
(* What buildSingbox (src/daemon/singbox.go) makes of a .conf and the      *)
(* selected node beside the rules, which are in module Conf: outbounds,    *)
(* policy groups and DNS servers.  The file is written line by line and a  *)
(* node selected; singbox.json, made anew every time, is what Outbounds,   *)
(* PolicyTag and Dns are.  Its parts name each other by tag, and sing-box  *)
(* does not start if one is missing.  What becomes of [Host] is in Hosts.  *)
(***************************************************************************)
EXTENDS Integers, Sequences, FiniteSets, SequencesExt, Slices

CONSTANTS
  Specs,       \* entries of dns-server: [proto, host, form]
  Groups,      \* lines of [Proxy Group]: [name, members]
  Policies,    \* policies of rules, as parseRuleLine leaves them
  Safe,        \* the tag of a group, its name with what a tag may not have replaced
  Names,       \* names that [Host] may give an address to, in lower case
  Nodes,       \* types of nodes: "awg" and others
  NoNode,      \* nothing selected
  MaxServers,  \* DNS servers taken over at most; 4 in the code
  MaxSize      \* bound on the file

ASSUME NoNodeAssumption == NoNode \notin Nodes
ASSUME SpecsAssumption ==
  Specs \subseteq [proto : {"system", "https", "quic", "h3", "tls", "udp"},
                   host : {"name", "ipv4", "ipv6"}, form : {"bare", "port", "brackets"}]
\* parseGroupLine takes no group without members.
ASSUME GroupsAssumption ==
  \A g \in Groups :
    g = [name |-> g.name, members |-> g.members]
      /\ g.name \in DOMAIN Safe /\ g.members \in Seq(STRING) /\ g.members # <<>>
\* The tag of a group begins with "group-".
ASSUME SafeAssumption == \A n \in DOMAIN Safe : Safe[n] \notin {"direct", "proxy", "awg"}
ASSUME MaxServersAssumption == MaxServers \in Nat \ {0}

VARIABLES
  ipv6,    \* General["ipv6"]
  specs,   \* General["dns-server"], then General["fallback-dns-server"]
  groups,  \* Conf.Groups
  hosts,   \* Conf.Hosts, those with an address and those with something else
  node     \* the type of the selected node

vars == <<ipv6, specs, groups, hosts, node>>

-----------------------------------------------------------------------------
(* Outbounds *)

Outbound(tag, members) == [tag |-> tag, members |-> members]

GroupTag(name) == Safe[name]

ProxyTag == IF node = NoNode THEN "direct" ELSE IF node = "awg" THEN "awg" ELSE "proxy"

\* Groups are there only beside a node.
GroupSet == IF node = NoNode THEN {} ELSE {groups[i].name : i \in DOMAIN groups}

\* Bug: the node of a group does not depend on its type.
BugMemberTag(m) ==
  CASE m = "DIRECT" -> "direct"
    [] m = "PROXY" -> "proxy"
    [] OTHER -> GroupTag(m)

MemberTag(m) ==
  CASE m = "DIRECT" -> "direct"
    [] m = "PROXY" -> ProxyTag
    [] OTHER -> GroupTag(m)

\* What a group chooses from; nodes of [Proxy] have no outbounds, and a group
\* of nothing else is the node.
Members(g) ==
  LET known == Picked(g.members, {i \in DOMAIN g.members :
                                    g.members[i] \in {"DIRECT", "PROXY"} \cup GroupSet})
  IN  IF known = <<>> THEN <<ProxyTag>> ELSE [i \in DOMAIN known |-> MemberTag(known[i])]

Outbounds ==
  LET written == IF node = NoNode THEN <<>> ELSE groups
  IN  <<Outbound("direct", <<>>)>>
        \o (IF node = NoNode THEN <<>> ELSE <<Outbound(ProxyTag, <<>>)>>)
        \o [i \in DOMAIN written |-> Outbound(GroupTag(written[i].name), Members(written[i]))]

\* Bug: the groups of the file count without a node too.
BugPolicyTag(policy) ==
  CASE policy = "DIRECT" -> "direct"
    [] policy \in {groups[i].name : i \in DOMAIN groups} \ {"DIRECT", "PROXY"} -> GroupTag(policy)
    [] OTHER -> ProxyTag

\* policyTag of a policy that does not reject, which parseRuleLine has put
\* in upper case; one that is unknown leads to the node.
PolicyTag(policy) ==
  CASE policy = "DIRECT" -> "direct"
    [] policy \in GroupSet \ {"DIRECT", "PROXY"} -> GroupTag(policy)
    [] OTHER -> ProxyTag

-----------------------------------------------------------------------------
(* DNS *)

Server(tag, host, form) == [tag |-> tag, host |-> host, form |-> form, resolver |-> <<"none", 0>>]

\* net.ParseIP takes the field "server": an address with nothing around it.
IsIP(s) == s.host # "name" /\ s.form = "bare"

\* The entries that dnsServer makes a server of: of those without a scheme,
\* an address alone, and what has one colon.
Understood(spec) ==
  CASE spec.proto = "system" -> FALSE
    [] spec.proto = "udp" -> \/ spec.host # "name" /\ spec.form = "bare"
                             \/ spec.host # "ipv6" /\ spec.form = "port"
    [] OTHER -> TRUE

\* dnsServer.  A port is taken off tls:// and plain entries only, brackets go
\* with it.
DnsServer(spec, tag) ==
  Server(tag, spec.host,
         IF spec.form = "port" /\ spec.proto \in {"tls", "udp"} THEN "bare" ELSE spec.form)

Written == [i \in DOMAIN specs |-> DnsServer(specs[i], <<"dns", i>>)]

\* Bug: addresses of IPv6 are taken whether or not it is on.
BugUsable == {i \in DOMAIN specs : Understood(specs[i])}

\* Not addresses of IPv6 when that is off.
Usable ==
  {i \in DOMAIN specs :
    Understood(specs[i]) /\ (ipv6 \/ ~(IsIP(Written[i]) /\ Written[i].host = "ipv6"))}

\* The first usable entries.
Servers ==
  LET before(i) == {j \in Usable : j < i}
  IN  Picked(Written, {i \in Usable : Cardinality(before(i)) < MaxServers})

\* A server for when there is none, and one to resolve the names of others.
Remote == Server(<<"dns-remote", 0>>, "ipv4", "bare")
Bootstrap == Server(<<"dns-bootstrap", 0>>, "ipv4", "bare")

\* Servers named by host get the first one with an address to be resolved by,
\* which is added in front when there is none.  Queries go to the first
\* server of the file all the same.
Dns ==
  LET list == IF Servers = <<>> THEN <<Remote>> ELSE Servers
      literal == {i \in DOMAIN list : IsIP(list[i])}
      bootstrap == IF literal = {} THEN Bootstrap ELSE list[Min(literal)]
      all == IF literal = {} THEN <<Bootstrap>> \o list ELSE list
  IN  [servers |-> [i \in DOMAIN all |->
                      IF IsIP(all[i]) THEN all[i] ELSE [all[i] EXCEPT !.resolver = bootstrap.tag]],
       final |-> list[1].tag]

-----------------------------------------------------------------------------
Init ==
  /\ ipv6 = FALSE
  /\ specs = <<>> /\ groups = <<>> /\ hosts = {}
  /\ node = NoNode

\* A line of [Host] counts as three, there being so many.
Size == Len(specs) + Len(groups) + 3 * Cardinality(hosts)

\* /conf with one more line, and the Reload that follows.
AddServer(spec) ==
  /\ specs' = Append(specs, spec)
  /\ UNCHANGED <<ipv6, groups, hosts, node>>

AddGroup(g) ==
  /\ groups' = Append(groups, g)
  /\ UNCHANGED <<ipv6, specs, hosts, node>>

\* A name that is there already gets another address.
AddHost(name, isIP) ==
  /\ hosts' = {h \in hosts : h.name # name} \cup {[name |-> name, isIP |-> isIP]}
  /\ UNCHANGED <<ipv6, specs, groups, node>>

SwitchIpv6 ==
  /\ ipv6' = ~ipv6
  /\ UNCHANGED <<specs, groups, hosts, node>>

\* /nodes/select and /nodes/delete, and the generate that follows.
Select(n) ==
  /\ node' = n
  /\ UNCHANGED <<ipv6, specs, groups, hosts>>

Next ==
  /\ \/ \E spec \in Specs : AddServer(spec)
     \/ \E g \in Groups : AddGroup(g)
     \/ \E name \in Names, isIP \in BOOLEAN : AddHost(name, isIP)
     \/ SwitchIpv6
     \/ \E n \in Nodes \cup {NoNode} : Select(n)
  /\ Size' <= MaxSize

Spec == Init /\ [][Next]_vars

-----------------------------------------------------------------------------
(* Properties *)

\* The types of the variables.
TypeOK ==
  /\ ipv6 \in BOOLEAN
  /\ specs \in Seq(Specs)
  /\ groups \in Seq(Groups)
  /\ hosts \subseteq [name : Names, isIP : BOOLEAN]
  /\ node \in Nodes \cup {NoNode}

Tags(list) == {list[i].tag : i \in DOMAIN list}

\* Every outbound that a rule or a group leads to is in the file, and no
\* group is empty: policyTag decides for rules what buildSingbox decides
\* again, elsewhere, for outbounds and for members.
OutboundsThere ==
  /\ \A p \in Policies : PolicyTag(p) \in Tags(Outbounds)
  /\ \A i \in DOMAIN Outbounds :
       LET o == Outbounds[i]
       IN  /\ Range(o.members) \subseteq Tags(Outbounds)
           /\ o.tag \notin {"direct", "proxy", "awg"} => o.members # <<>>

\* singbox.go:458: sing-box refuses to start if a DNS server named by host
\* has no resolver.  Each has one, the resolver is a server of the file that
\* needs none itself and can be reached, and so is the server of all other
\* queries, at most one query away.
Resolvable ==
  LET server == Dns.servers
      Direct(tag) == \E i \in DOMAIN server :
                       server[i].tag = tag /\ IsIP(server[i]) /\ (ipv6 \/ server[i].host = "ipv4")
  IN  /\ Dns.final \in Tags(server)
      /\ \A i \in DOMAIN server : Direct(server[i].tag) \/ Direct(server[i].resolver)
      /\ Cardinality(Tags(server)) = Len(server)

\* singbox.go:392: members are matched by name.  What a name on the line of a
\* group leads to is decided in buildSingbox, and for a rule in policyTag.  A
\* rule whose policy is a group finds one outbound under its tag; that one
\* chooses from every group and built-in policy that its line names, and
\* sends nothing where a rule by one of those names would not go.
\* It is said only of groups that a rule can name: not of names with small
\* letters, of which parseRuleLine leaves none (srconf.go:187), or of a
\* built-in, which goes first; and not of two groups whose names make one tag.
\* It is not said that nodes of [Proxy] on the line are among the members, as
\* the comment there has it: they have no outbound and are left out.
GroupsMeant ==
  \A i \in DOMAIN groups :
    LET g == groups[i]
        twins == {j \in DOMAIN groups : Safe[groups[j].name] = Safe[g.name]}
        named == {j \in DOMAIN Outbounds : Outbounds[j].tag = PolicyTag(g.name)}
    IN  /\ node # NoNode
        /\ g.name \in Policies \ {"DIRECT", "PROXY"}
        /\ Cardinality(twins) = 1
        =>
          /\ Cardinality(named) = 1
          /\ \A j \in named :
               /\ \A m \in Range(g.members) \cap Policies \cap (GroupSet \cup {"DIRECT", "PROXY"}) :
                    PolicyTag(m) \in Range(Outbounds[j].members)
               /\ \A t \in Range(Outbounds[j].members) :
                    \E m \in Range(g.members) : t = PolicyTag(m)
=============================================================================
