------------------------------- MODULE ConnLog -------------------------------
(***************************************************************************)
(* The connection log of the daemon (src/daemon/logs.go): a ring of        *)
(* entries made from the log lines of sing-box, with a map from connection *)
(* to ring index, and a file that takes the entries the ring cannot hold.  *)
(* Lines come from the pumps of proc.go, counters and names from the poll  *)
(* of the Clash API; each operation is atomic under cl.mu.                 *)
(*                                                                         *)
(* An entry of the code does not say which connection it is of: the field  *)
(* conn is there for the properties only.  A port is part of an address,   *)
(* and traffic, network and time of an entry are left out.  A write that   *)
(* fails is taken to write nothing of the entry.                           *)
(***************************************************************************)
EXTENDS Integers, Sequences, SequencesExt, Slices

CONSTANTS
  Conns,    \* connections, by the id sing-box gives them
  Ip,       \* the address each goes to
  Domain,   \* its domain as the Clash API knows it, or Nothing
  RuleOf,   \* the rule sing-box matched it with
  Policy,   \* the outbound that rule leads to, or "reject"
  Nothing,  \* the empty string
  Cap,      \* connRingCap
  Keep      \* connLogKeep

ASSUME BoundsAssumption == Cap \in Nat \ {0} /\ Keep \in Nat \ {0}

VARIABLES
  ring,   \* cl.ring
  byID,   \* cl.byID
  file,   \* connlog.jsonl
  opened, \* cl.file is not nil
  unwritten, \* places of the ring entries that the last step could not write
  stage   \* what sing-box has logged of each connection

vars == <<ring, byID, file, opened, unwritten, stage>>

Ips == Range(Ip)

Entry ==
  [conn : Conns,
   host : Ips \cup Range(Domain) \cup {Nothing},
   ip : Ips \cup {Nothing},
   rule : Range(RuleOf) \cup {Nothing},
   policy : Range(Policy) \cup {Nothing},
   open : BOOLEAN]

TypeOK ==
  /\ ring \in Seq(Entry)
  /\ \E known \in SUBSET Conns : byID \in [known -> Nat \ {0}]
  /\ file \in Seq(Entry)
  /\ opened \in BOOLEAN
  /\ unwritten \in SUBSET (1..Cap)
  /\ stage \in [Conns -> {"new", "in", "over"}]

Init ==
  /\ ring = <<>>
  /\ byID = << >>
  /\ file = <<>>
  /\ opened \in BOOLEAN
  /\ unwritten = {}
  /\ stage = [c \in Conns |-> "new"]

-----------------------------------------------------------------------------
(* Lines of the log *)

Indexed(c) == c \in DOMAIN byID /\ byID[c] <= Len(ring)

\* The entry of a connection, a new one if it has none in the ring.
EntryOf(c) ==
  IF Indexed(c)
    THEN ring[byID[c]]
    ELSE [conn |-> c, host |-> Nothing, ip |-> Nothing, rule |-> Nothing,
          policy |-> Nothing, open |-> TRUE]

\* Bug: the indices stay as they are.
BugReindexed(drop) == byID

\* The map after the oldest entries have left the ring.
Reindexed(drop) ==
  [c \in {k \in DOMAIN byID : byID[k] > drop} |-> byID[c] - drop]

\* Bug: a write that fails ends the loop.
BugSpill(entries) ==
  \E n \in 0..Len(entries) :
    /\ opened \/ n = 0
    /\ unwritten' = IF n < Len(entries) THEN {n + 1} ELSE {}
    /\ file' = file \o SubSeq(entries, 1, n)

\* appendFileLocked, for entries that leave the ring: nothing is written when
\* the file could not be opened, and any of the writes may fail.
Spill(entries) ==
  \E lost \in SUBSET DOMAIN entries :
    /\ opened \/ lost = DOMAIN entries
    /\ unwritten' = lost
    /\ file' = file \o Picked(entries, DOMAIN entries \ lost)

\* upsert: the entry of c becomes e; if it is a new one the oldest make way.
Upsert(c, e) ==
  IF Indexed(c)
    THEN ring' = [ring EXCEPT ![byID[c]] = e] /\ unwritten' = {} /\ UNCHANGED <<byID, file>>
    ELSE LET all == Append(ring, e)
             drop == Max({0, Len(all) - Cap})
         IN  /\ ring' = SubSeq(all, drop + 1, Len(all))
             /\ Spill(SubSeq(all, 1, drop))
             /\ byID' = [k \in {c} \cup DOMAIN Reindexed(drop) |->
                           IF k = c THEN Len(ring') ELSE Reindexed(drop)[k]]

\* "inbound connection to": the first line of a connection.
Inbound(c) ==
  /\ stage[c] = "new"
  /\ stage' = [stage EXCEPT ![c] = "in"] /\ UNCHANGED opened
  /\ Upsert(c, [EntryOf(c) EXCEPT !.host = Ip[c], !.ip = Ip[c], !.open = TRUE])

\* "outbound connection to": after a Reset, or when the ring is short, the
\* connection has no entry any more and gets another one.
Outbound(c) ==
  /\ stage[c] = "in"
  /\ Policy[c] # "reject"
  /\ stage' = [stage EXCEPT ![c] = "over"] /\ UNCHANGED opened
  /\ LET e == EntryOf(c)
     IN  Upsert(c, [e EXCEPT !.policy = Policy[c],
                             !.host = IF @ = Nothing THEN Ip[c] ELSE @,
                             !.ip = IF @ = Nothing THEN Ip[c] ELSE @])

\* "rejected" or "blocked".
Rejected(c) ==
  /\ stage[c] = "in"
  /\ Policy[c] = "reject"
  /\ stage' = [stage EXCEPT ![c] = "over"] /\ UNCHANGED opened
  /\ Upsert(c, [EntryOf(c) EXCEPT !.policy = "reject", !.open = FALSE])

-----------------------------------------------------------------------------
(* The poll of the Clash API *)

\* The connection a key of the map `live` leads to: the last of the answer
\* that goes to this address or domain.
Live(answer, address) ==
  SelectLastInSeq(answer, LAMBDA c : address # Nothing /\ address \in {Ip[c], Domain[c]})

\* What Ingest makes of an entry: it takes the connection for its own that
\* goes to the same host, or else to the same address.
Enriched(e, answer) ==
  LET byHost == Live(answer, e.host)
      i == IF byHost # 0 THEN byHost ELSE Live(answer, e.ip)
      c == answer[i]
  IN  IF i = 0 THEN e
      ELSE [e EXCEPT !.rule = IF @ = Nothing THEN RuleOf[c] ELSE @,
                     !.ip = IF @ = Nothing THEN Ip[c] ELSE @,
                     !.host = IF Domain[c] # Nothing /\ @ \in Ips THEN Domain[c] ELSE @]

Ingest(answer) ==
  /\ ring' = [i \in DOMAIN ring |-> Enriched(ring[i], answer)]
  /\ unwritten' = {}
  /\ UNCHANGED <<byID, file, opened, stage>>

-----------------------------------------------------------------------------
(* Down, and restarts of the daemon *)

\* Reset, by Down: pumps may still hold lines of the old sing-box.
Reset ==
  /\ Spill(ring)
  /\ ring' = <<>>
  /\ byID' = << >>
  /\ UNCHANGED <<opened, stage>>

\* ring[len(ring)-n:], where there are that many.
LastLines(lines, n) == [i \in 1..n |-> lines[Len(lines) - n + i]]

\* Bug: the buffer keeps the oldest lines.
BugBuffered(lines, line) ==
  LET more == Append(lines, line)
  IN  IF Len(more) > 2 * Keep THEN SubSeq(more, 1, Keep) ELSE more

\* The scan of trimFile: the buffer is cut each time it grows too long.
Buffered(lines, line) ==
  LET more == Append(lines, line)
  IN  IF Len(more) > 2 * Keep THEN LastLines(more, Keep) ELSE more

\* trimFile: nothing is written if the buffer is short enough in the end.
Trimmed(lines) ==
  LET buffer == FoldLeft(Buffered, <<>>, lines)
  IN  IF Len(buffer) <= Keep THEN lines ELSE LastLines(buffer, Keep)

\* The daemon dies and starts again: the ring is lost and the connections
\* are gone with sing-box.  The file is trimmed, or stays when that fails,
\* and opened, unless that fails.
Restart ==
  /\ ring' = <<>>
  /\ byID' = << >>
  /\ file' \in {file, Trimmed(file)}
  /\ opened' \in BOOLEAN
  /\ unwritten' = {}
  /\ stage' = [c \in Conns |-> IF stage[c] = "in" THEN "over" ELSE stage[c]]

-----------------------------------------------------------------------------
\* What the Clash API may answer: connections sing-box has let through.
Answers == UNION {SetToSeqs(S) : S \in SUBSET {c \in Conns : stage[c] # "new" /\ Policy[c] # "reject"}}

Next ==
  \/ \E c \in Conns : Inbound(c) \/ Outbound(c) \/ Rejected(c)
  \/ \E answer \in Answers : Ingest(answer)
  \/ Reset \/ Restart

Spec == Init /\ [][Next]_vars

-----------------------------------------------------------------------------
(* Properties *)

\* The map is right, in spite of the ring that moves under it: it leads to
\* every entry of the ring and to nothing else, so that no connection has two
\* entries there and no line changes the entry of another connection.  The
\* ring keeps to its size, however long the daemon runs.
IndexExact ==
  /\ Len(ring) <= Cap
  /\ \A c \in DOMAIN byID : byID[c] \in DOMAIN ring /\ ring[byID[c]].conn = c
  /\ \A i \in DOMAIN ring : ring[i].conn \in DOMAIN byID /\ byID[ring[i].conn] = i

\* Everything logged and not lost, in order.
Journal == file \o ring

\* A later entry tells the same of the connection, or more: the rule and the
\* domain that were found for it stay.
Extends(later, earlier) ==
  /\ later.conn = earlier.conn
  /\ earlier.rule # Nothing => later.rule = earlier.rule
  /\ earlier.host \notin Ips \cup {Nothing} => later.host = earlier.host

\* The journal without the entries that the step could not write.
Kept == file \o Picked(ring, DOMAIN ring \ unwritten')

\* While the daemon runs nothing logged is moved or told differently, whether
\* it leaves the ring because that is full or because of a Reset, and nothing
\* is lost but the very entries whose write to the file fails (logs.go:212
\* and 219): not those that come after them.
JournalGrows ==
  [][\/ Restart
     \/ /\ Len(Journal') >= Len(Kept)
        /\ \A i \in DOMAIN Kept : Extends(Journal'[i], Kept[i])]_vars

\* A restart loses no line of the file but the oldest, beyond connLogKeep.
RecentKept ==
  [][Restart => IsSuffix(LastLines(file, Min({Keep, Len(file)})), file')]_vars
=============================================================================
