----------------------------- MODULE MCSingbox ------------------------------
(***************************************************************************)
(* A small instance of Singbox and Hosts: entries of dns-server of every   *)
(* kind that dnsServer tells apart, groups with and without known members, *)
(* two names that make one tag and one that is a policy; and for hosts all *)
(* names of up to four code points, of two letters outside ASCII, a letter,*)
(* the hyphen and the dot, and one that is encoded already.                *)
(***************************************************************************)
EXTENDS Hosts

Entry(proto, host, form) == [proto |-> proto, host |-> host, form |-> form]

MCSpecs ==
  {Entry("system", "name", "bare"),
   Entry("udp", "ipv4", "bare"), Entry("udp", "ipv6", "bare"), Entry("udp", "name", "port"),
   Entry("udp", "name", "bare"), Entry("https", "name", "bare"), Entry("https", "ipv4", "port"),
   Entry("tls", "ipv6", "port"), Entry("tls", "ipv6", "brackets")}

MCGroups ==
  {[name |-> "AUTO", members |-> <<"node in [Proxy]">>],
   [name |-> "AUTO", members |-> <<"PROXY", "Home">>],
   [name |-> "US 1", members |-> <<"AUTO", "DIRECT">>],
   [name |-> "US-1", members |-> <<"US 1">>],
   [name |-> "DIRECT", members |-> <<"AUTO">>],
   [name |-> "Home", members |-> <<"DIRECT", "US-1">>]}

MCSafe ==
  [n \in {"AUTO", "US 1", "US-1", "Home", "DIRECT"} |->
     CASE n = "AUTO" -> "group-AUTO"
       [] n = "Home" -> "group-Home"
       [] n = "DIRECT" -> "group-DIRECT"
       [] OTHER -> "group-US-1"]

MCPolicies == {"DIRECT", "PROXY", "AUTO", "US 1", "US-1", "HOME"}

MCNames == UNION {[1..n -> {97, Hyphen, Dot, 1088, 128512}] : n \in 1..4}
           \cup {<<120, 110, Hyphen, Hyphen, 112, 49, 97, 105>>}
=============================================================================
