-------------------------------- MODULE Hosts -------------------------------
(***************************************************************************)
(* Fixed addresses: what buildSingbox (src/daemon/singbox.go) makes of the *)
(* [Host] section.  A name is a sequence of code points, in lower case as  *)
(* ParseConf leaves it.                                                    *)
(***************************************************************************)
EXTENDS Singbox, Punycode

\* A rune is a number.
ASSUME NamesAssumption == Names \subseteq Seq(Nat)

\* Names as they come in queries.
Wire == [name \in Names |-> PunyDomain(name)]

\* The names of the entries that have an address.
Predefined == {Wire[h.name] : h \in {e \in hosts : e.isIP}}

-----------------------------------------------------------------------------
(* Properties *)

\* punycode.go: sing-box compares names as they come in queries.  What stands
\* in the file is ASCII and, by the decoder of RFC 3492, means the names the
\* user gave an address to, each of them and no other.
HostsMeant ==
  /\ \A w \in Predefined : IsASCII(w)
  /\ {Decoded(w) : w \in Predefined} = {Meant(h.name) : h \in {e \in hosts : e.isIP}}
=============================================================================
