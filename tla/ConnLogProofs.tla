---------------------------- MODULE ConnLogProofs ----------------------------
(***************************************************************************)
(* Proofs about ConnLog, for any connections, any size of the ring and any *)
(* number of lines, polls, Resets and restarts.                            *)
(***************************************************************************)
EXTENDS ConnLog, SliceLemmas

(***************************************************************************)
(* The inductive invariant.  IndexExact carries itself: that a connection  *)
(* without an index has no entry either is half of it, and without that an *)
(* upsert would make a second one.  Besides it takes that the ring is a    *)
(* sequence of records, of whatever values: what Ingest finds in an answer *)
(* does not matter for the index.                                          *)
(***************************************************************************)
IsSequence(s) == s \in Seq(Range(s))

IsEntry(e) == {"conn", "host", "rule"} \subseteq DOMAIN e

IInv ==
  /\ IndexExact
  /\ IsSequence(ring)
  /\ \A i \in DOMAIN ring : IsEntry(ring[i])
  /\ stage \in [Conns -> {"new", "in", "over"}]
  /\ DOMAIN byID \subseteq {c \in Conns : stage[c] # "new"}

-----------------------------------------------------------------------------
\* A sequence over any set is one over its own elements.
LEMMA SequenceOf == ASSUME NEW S, NEW s \in Seq(S) PROVE IsSequence(s)
<1>1. PICK n \in Nat : s \in [1..n -> S]
  BY SeqDef
<1>2. s \in [1..n -> Range(s)]
  BY <1>1 DEF Range
<1> QED BY <1>2, SeqDef DEF IsSequence

LEMMA SequenceLen ==
  ASSUME NEW s, IsSequence(s) PROVE Len(s) \in Nat /\ DOMAIN s = 1..Len(s)
BY LenProperties DEF IsSequence

LEMMA MaxOfTwo == ASSUME NEW x \in Int PROVE Max({0, x}) = IF x > 0 THEN x ELSE 0
BY DEF Max

\* What the ring is after a new entry: the entry is its last, and the others
\* have moved by the number of those that left; of these some may be lost.
Pushed(c, e, drop) ==
  /\ drop <= Len(ring)
  /\ IsSequence(ring') /\ Len(ring') = Len(ring) + 1 - drop /\ Len(ring') <= Cap
  /\ ring'[Len(ring')] = e
  /\ \A i \in 1..(Len(ring') - 1) : ring'[i] = ring[i + drop]
  /\ \E lost \in SUBSET (1..drop) :
       unwritten' = lost /\ file' = file \o Picked(SubSeq(ring, 1, drop), (1..drop) \ lost)
  /\ byID' = [k \in {c} \cup DOMAIN Reindexed(drop) |-> IF k = c THEN Len(ring') ELSE Reindexed(drop)[k]]

LEMMA NewEntry ==
  ASSUME IsSequence(ring), Len(ring) <= Cap, NEW c, NEW e, ~Indexed(c), Upsert(c, e)
  PROVE  \E drop \in {0, 1} : Pushed(c, e, drop)
<1> DEFINE S == Range(ring) \cup {e}
           all == Append(ring, e)
           drop == Max({0, Len(all) - Cap})
<1>1. ring \in Seq(S) /\ Len(ring) \in Nat
  BY SequenceLen, SeqMonotonic, LenProperties DEF IsSequence
<1>2. all \in Seq(S) /\ Len(all) = Len(ring) + 1 /\ all[Len(ring) + 1] = e
      /\ \A i \in 1..Len(ring) : all[i] = ring[i]
  BY <1>1, AppendProperties
<1>3. drop \in {0, 1} /\ drop <= Len(ring) /\ Len(all) - drop <= Cap
  BY <1>1, <1>2, MaxOfTwo, BoundsAssumption
<1>4. /\ ring' = SubSeq(all, drop + 1, Len(all))
      /\ Spill(SubSeq(all, 1, drop))
      /\ byID' = [k \in {c} \cup DOMAIN Reindexed(drop) |-> IF k = c THEN Len(ring') ELSE Reindexed(drop)[k]]
  BY DEF Upsert
<1> HIDE DEF drop, all, S
<1>5. \A i \in 1..Len(all) : all[i] \in S
  BY <1>2, ElementOfSeq
<1>6. /\ SubSeq(all, drop + 1, Len(all)) \in Seq(S)
      /\ Len(SubSeq(all, drop + 1, Len(all))) = Len(all) - drop
      /\ \A i \in 1..(Len(all) - drop) : SubSeq(all, drop + 1, Len(all))[i] = all[drop + i]
  BY <1>1, <1>2, <1>3, <1>5, SubSeqProperties
<1>7. SubSeq(all, 1, drop) = SubSeq(ring, 1, drop)
  BY <1>1, <1>2, <1>3
<1>8. ring' \in Seq(S) /\ Len(ring') = Len(all) - drop /\ \A i \in 1..(Len(all) - drop) : ring'[i] = all[drop + i]
  BY <1>4, <1>6
<1>9. IsSequence(ring') /\ Len(ring') = Len(ring) + 1 - drop /\ Len(ring') <= Cap
  <2>1. IsSequence(ring')
    BY <1>8, SequenceOf
  <2> QED BY <1>1, <1>2, <1>3, <1>8, <2>1
<1>10. ring'[Len(ring')] = e /\ \A i \in 1..(Len(ring') - 1) : ring'[i] = ring[i + drop]
  <2>1. Len(ring') \in 1..(Len(all) - drop) /\ drop + Len(ring') = Len(ring) + 1
    BY <1>1, <1>2, <1>3, <1>8
  <2>2. ring'[Len(ring')] = e
    BY <1>2, <1>8, <2>1
  <2>3. ASSUME NEW i \in 1..(Len(ring') - 1) PROVE ring'[i] = ring[i + drop]
    <3>1. i \in 1..(Len(all) - drop) /\ drop + i \in 1..Len(ring) /\ drop + i = i + drop
      BY <1>1, <1>2, <1>3, <1>8
    <3> QED BY <1>2, <1>8, <3>1
  <2> QED BY <2>2, <2>3
<1>11. \E lost \in SUBSET (1..drop) :
          unwritten' = lost /\ file' = file \o Picked(SubSeq(ring, 1, drop), (1..drop) \ lost)
  <2> DEFINE gone == SubSeq(ring, 1, drop)
  <2>1. gone \in Seq(Range(ring)) /\ Len(gone) = drop
    BY <1>1, <1>3, SubSeqProperties, ElementOfSeq DEF IsSequence
  <2>2. Spill(gone)
    BY <1>4, <1>7
  <2> HIDE DEF gone
  <2>3. DOMAIN gone = 1..drop
    BY <2>1, LenProperties
  <2>4. \E lost \in SUBSET (1..drop) : unwritten' = lost /\ file' = file \o Picked(gone, (1..drop) \ lost)
    BY <2>2, <2>3 DEF Spill
  <2> QED BY <2>4 DEF gone
<1> USE <1>3
<1> WITNESS drop \in {0, 1}
<1> QED BY <1>4, <1>9, <1>10, <1>11 DEF Pushed

\* An upsert keeps the index exact.
LEMMA UpsertInv ==
  ASSUME IndexExact, IsSequence(ring), \A i \in DOMAIN ring : IsEntry(ring[i]),
         NEW c, NEW e, IsEntry(e), e.conn = c, Upsert(c, e)
  PROVE  /\ IndexExact' /\ IsSequence(ring') /\ \A i \in DOMAIN ring' : IsEntry(ring'[i])
         /\ DOMAIN byID' \subseteq DOMAIN byID \cup {c}
<1>0. Len(ring) \in Nat /\ DOMAIN ring = 1..Len(ring)
  BY SequenceLen
<1>1. CASE Indexed(c)
  <2>1. ring' = [ring EXCEPT ![byID[c]] = e] /\ byID' = byID
    BY <1>1 DEF Upsert
  <2>2. byID[c] \in 1..Len(ring) /\ ring[byID[c]].conn = c
    BY <1>0, <1>1 DEF IndexExact, Indexed
  <2>3. ring \in Seq(Range(ring) \cup {e})
    BY SeqMonotonic DEF IsSequence
  <2>4. ring' \in Seq(Range(ring) \cup {e}) /\ Len(ring') = Len(ring)
        /\ \A j \in 1..Len(ring) : ring'[j] = IF j = byID[c] THEN e ELSE ring[j]
    BY <2>1, <2>2, <2>3, ExceptSeq
  <2>5. IsSequence(ring') /\ DOMAIN ring' = 1..Len(ring)
    BY <2>4, SequenceOf, LenProperties
  <2>6. \A i \in DOMAIN ring' : IsEntry(ring'[i]) /\ ring'[i].conn = ring[i].conn
    BY <1>0, <2>2, <2>4, <2>5
  <2> QED BY <1>0, <2>1, <2>4, <2>5, <2>6 DEF IndexExact
<1>2. CASE ~Indexed(c)
  <2>1. c \notin DOMAIN byID
    BY <1>0, <1>2 DEF IndexExact, Indexed
  <2>0. PICK drop \in {0, 1} : Pushed(c, e, drop)
    BY <1>2, NewEntry DEF IndexExact
  <2>2. /\ drop <= Len(ring)
        /\ IsSequence(ring') /\ Len(ring') = Len(ring) + 1 - drop /\ Len(ring') <= Cap
        /\ ring'[Len(ring')] = e
        /\ \A i \in 1..(Len(ring') - 1) : ring'[i] = ring[i + drop]
        /\ byID' = [k \in {c} \cup DOMAIN Reindexed(drop) |-> IF k = c THEN Len(ring') ELSE Reindexed(drop)[k]]
    BY <2>0 DEF Pushed
  <2>3. DOMAIN ring' = 1..Len(ring') /\ Len(ring') \in Nat \ {0}
    BY <1>0, <2>2, SequenceLen
  <2>4. DOMAIN Reindexed(drop) = {k \in DOMAIN byID : byID[k] > drop}
        /\ \A k \in DOMAIN Reindexed(drop) : Reindexed(drop)[k] = byID[k] - drop
    BY DEF Reindexed
  <2>5. DOMAIN byID' = {c} \cup {k \in DOMAIN byID : byID[k] > drop} /\ byID'[c] = Len(ring')
        /\ \A k \in DOMAIN byID : byID[k] > drop => byID'[k] = byID[k] - drop
    BY <2>1, <2>2, <2>4
  <2>6. \A i \in 1..(Len(ring') - 1) : i + drop \in DOMAIN ring
    BY <1>0, <2>2
  <2>7. \A i \in DOMAIN ring' : IsEntry(ring'[i])
    <3>1. ASSUME NEW i \in DOMAIN ring', i # Len(ring') PROVE IsEntry(ring'[i])
      <4>1. i \in 1..(Len(ring') - 1)
        BY <2>3, <3>1
      <4> QED BY <2>2, <2>6, <4>1
    <3> QED BY <2>2, <3>1
  <2>8. ASSUME NEW k \in DOMAIN byID' PROVE byID'[k] \in DOMAIN ring' /\ ring'[byID'[k]].conn = k
    <3>1. CASE k = c
      BY <2>2, <2>3, <2>5, <3>1
    <3>2. CASE k # c
      <4>1. k \in DOMAIN byID /\ byID[k] > drop /\ byID'[k] = byID[k] - drop
        BY <2>5, <3>2
      <4>2. byID[k] \in 1..Len(ring) /\ ring[byID[k]].conn = k
        BY <1>0, <4>1 DEF IndexExact
      <4>3. byID'[k] \in 1..(Len(ring') - 1) /\ byID'[k] + drop = byID[k]
        BY <1>0, <2>2, <4>1, <4>2
      <4> QED BY <2>2, <2>3, <4>2, <4>3
    <3> QED BY <3>1, <3>2
  <2>9. ASSUME NEW i \in DOMAIN ring' PROVE ring'[i].conn \in DOMAIN byID' /\ byID'[ring'[i].conn] = i
    <3>1. CASE i = Len(ring')
      BY <2>2, <2>5, <3>1
    <3>2. CASE i # Len(ring')
      <4>1. i \in 1..(Len(ring') - 1)
        BY <2>3, <3>2
      <4>0. i + drop \in DOMAIN ring /\ ring'[i] = ring[i + drop] /\ i \in Nat /\ drop \in Nat
        <5>1. i \in Nat /\ drop \in Nat
          BY <2>3, <4>1
        <5> QED BY <2>2, <2>6, <4>1, <5>1
      <4>2. ring[i + drop].conn \in DOMAIN byID /\ byID[ring[i + drop].conn] = i + drop
        BY <4>0 DEF IndexExact
      <4>3. i + drop > drop /\ (i + drop) - drop = i
        BY <2>3, <4>0
      <4> QED BY <2>5, <4>0, <4>2, <4>3
    <3> QED BY <3>1, <3>2
  <2> QED BY <2>2, <2>5, <2>7, <2>8, <2>9 DEF IndexExact
<1> QED BY <1>1, <1>2

\* The entry that a line changes is that of its connection.
LEMMA EntryOfConn ==
  ASSUME IInv, NEW c PROVE IsEntry(EntryOf(c)) /\ EntryOf(c).conn = c
<1>1. CASE Indexed(c)
  BY <1>1 DEF IInv, IndexExact, Indexed, EntryOf
<1>2. CASE ~Indexed(c)
  BY <1>2 DEF IsEntry, EntryOf
<1> QED BY <1>1, <1>2

LEMMA EnrichedKeeps ==
  ASSUME NEW e, IsEntry(e), NEW answer
  PROVE  IsEntry(Enriched(e, answer)) /\ Enriched(e, answer).conn = e.conn
BY DEF IsEntry, Enriched

LEMMA InvNext == IInv /\ [Next]_vars => IInv'
<1> SUFFICES ASSUME IInv, [Next]_vars PROVE IInv' OBVIOUS
<1>1. ASSUME NEW c \in Conns, NEW e, IsEntry(e), e.conn = c, Upsert(c, e),
             stage' \in [Conns -> {"new", "in", "over"}], stage'[c] # "new",
             \A d \in Conns : stage[d] # "new" => stage'[d] # "new"
      PROVE  IInv'
  BY <1>1, UpsertInv DEF IInv
<1>2. ASSUME NEW c \in Conns, Inbound(c) PROVE IInv'
  <2> DEFINE e == [EntryOf(c) EXCEPT !.host = Ip[c], !.ip = Ip[c], !.open = TRUE]
  <2>1. IsEntry(e) /\ e.conn = c
    BY EntryOfConn DEF IsEntry
  <2>2. Upsert(c, e) /\ stage' = [stage EXCEPT ![c] = "in"]
    BY <1>2 DEF Inbound
  <2> HIDE DEF e
  <2> QED BY <1>1, <2>1, <2>2 DEF IInv
<1>3. ASSUME NEW c \in Conns, Outbound(c) PROVE IInv'
  <2> DEFINE e == [EntryOf(c) EXCEPT !.policy = Policy[c],
                                     !.host = IF @ = Nothing THEN Ip[c] ELSE @,
                                     !.ip = IF @ = Nothing THEN Ip[c] ELSE @]
  <2>1. IsEntry(e) /\ e.conn = c
    BY EntryOfConn DEF IsEntry
  <2>2. Upsert(c, e) /\ stage' = [stage EXCEPT ![c] = "over"]
    BY <1>3 DEF Outbound
  <2> HIDE DEF e
  <2> QED BY <1>1, <2>1, <2>2 DEF IInv
<1>4. ASSUME NEW c \in Conns, Rejected(c) PROVE IInv'
  <2> DEFINE e == [EntryOf(c) EXCEPT !.policy = "reject", !.open = FALSE]
  <2>1. IsEntry(e) /\ e.conn = c
    BY EntryOfConn DEF IsEntry
  <2>2. Upsert(c, e) /\ stage' = [stage EXCEPT ![c] = "over"]
    BY <1>4 DEF Rejected
  <2> HIDE DEF e
  <2> QED BY <1>1, <2>1, <2>2 DEF IInv
<1>5. ASSUME NEW answer, Ingest(answer) PROVE IInv'
  <2>1. Len(ring) \in Nat /\ DOMAIN ring = 1..Len(ring)
    BY SequenceLen DEF IInv
  <2>2. ring' = [i \in 1..Len(ring) |-> Enriched(ring[i], answer)] /\ byID' = byID /\ stage' = stage
    BY <1>5, <2>1 DEF Ingest
  <2>3. ring' \in Seq({Enriched(ring[i], answer) : i \in 1..Len(ring)})
    BY <2>1, <2>2, SeqDef
  <2>4. IsSequence(ring') /\ DOMAIN ring' = 1..Len(ring) /\ Len(ring') = Len(ring)
    <3>1. IsSequence(ring')
      BY <2>3, SequenceOf
    <3>2. DOMAIN ring' = 1..Len(ring)
      BY <2>2
    <3>3. Len(ring') = Len(ring)
      BY <2>1, <3>2
    <3> QED BY <3>1, <3>2, <3>3
  <2>5. \A i \in DOMAIN ring : IsEntry(ring'[i]) /\ ring'[i].conn = ring[i].conn
    BY <2>1, <2>2, EnrichedKeeps DEF IInv
  <2> QED BY <2>1, <2>2, <2>4, <2>5 DEF IInv, IndexExact
<1>6. CASE Reset \/ Restart
  <2>1. ring' = <<>> /\ byID' = << >> /\ stage' \in [Conns -> {"new", "in", "over"}]
    BY <1>6 DEF Reset, Restart, IInv
  <2>2. IsSequence(<<>>)
    BY SequenceOf, EmptySeq
  <2> QED BY <2>1, <2>2, BoundsAssumption DEF IInv, IndexExact
<1>7. CASE UNCHANGED vars
  BY <1>7 DEF vars, IInv, IndexExact
<1> QED BY <1>2, <1>3, <1>4, <1>5, <1>6, <1>7 DEF Next

LEMMA InvInit == Init => IInv
<1>1. IsSequence(<<>>)
  BY SequenceOf, EmptySeq
<1> QED BY <1>1, BoundsAssumption DEF Init, IInv, IndexExact

\* upsert, Ingest, Reset and a restart keep the map from connections to ring
\* entries exact, and the ring within its size, however long the daemon runs.
THEOREM IndexIsExact == Spec => []IndexExact
<1>1. IInv => IndexExact
  BY DEF IInv
<1> QED BY <1>1, InvInit, InvNext, PTL DEF Spec
-----------------------------------------------------------------------------
(* The journal *)

\* Every entry that is not lost stays where it is in file and ring together,
\* and tells no less.
Grows ==
  /\ Len(Journal') >= Len(Kept)
  /\ \A i \in DOMAIN Kept : Extends(Journal'[i], Kept[i])

\* When nothing is lost.
LEMMA KeptAll ==
  ASSUME IsSequence(ring), unwritten' = {} PROVE Kept = Journal
<1>1. ring \in Seq(Range(ring)) /\ DOMAIN ring = 1..Len(ring)
  BY SequenceLen DEF IsSequence
<1>2. Picked(ring, 1..Len(ring)) = ring
  BY <1>1, PickedAll
<1>3. DOMAIN ring \ unwritten' = 1..Len(ring)
  BY <1>1
<1> QED BY <1>2, <1>3 DEF Kept, Journal

\* When the file stays and every entry of the ring does, or is extended.
LEMMA GrowsInRing ==
  ASSUME IsSequence(file), IsSequence(ring), IsSequence(ring'), file' = file, unwritten' = {},
         Len(ring') = Len(ring),
         \A i \in 1..Len(ring) : Extends(ring'[i], ring[i])
  PROVE  Grows
<1> DEFINE S == Range(file) \cup Range(ring) \cup Range(ring')
<1>1. file \in Seq(S) /\ ring \in Seq(S) /\ ring' \in Seq(S) /\ Len(file) \in Nat /\ Len(ring) \in Nat
  BY SequenceLen, SeqMonotonic DEF IsSequence
<1> HIDE DEF S
<1>2. /\ Journal \in Seq(S) /\ Len(Journal) = Len(file) + Len(ring)
      /\ \A i \in 1..(Len(file) + Len(ring)) : Journal[i] = IF i <= Len(file) THEN file[i] ELSE ring[i - Len(file)]
  BY <1>1, ConcatProperties DEF Journal
<1>3. Journal' = file \o ring'
  BY DEF Journal
<1>4. /\ Len(file \o ring') = Len(file) + Len(ring')
       /\ \A i \in 1..(Len(file) + Len(ring')) :
             (file \o ring')[i] = IF i <= Len(file) THEN file[i] ELSE ring'[i - Len(file)]
  BY <1>1, ConcatProperties
<1>5. \A i \in 1..(Len(file) + Len(ring)) : Journal'[i] = IF i <= Len(file) THEN file[i] ELSE ring'[i - Len(file)]
  BY <1>3, <1>4
<1>6. DOMAIN Journal = 1..Len(Journal)
  BY <1>2, LenProperties
<1>7. ASSUME NEW i \in 1..Len(Journal) PROVE Extends(Journal'[i], Journal[i])
  <2>1. CASE i <= Len(file)
    BY <1>2, <1>5, <2>1 DEF Extends
  <2>2. CASE i > Len(file)
    <3>1. i - Len(file) \in 1..Len(ring) /\ ~(i <= Len(file))
      BY <1>1, <1>2, <2>2
    <3> QED BY <1>2, <1>5, <3>1
  <2> QED BY <1>1, <1>2, <2>1, <2>2
<1>8. Kept = Journal
  BY KeptAll
<1> QED BY <1>1, <1>2, <1>3, <1>4, <1>6, <1>7, <1>8 DEF Grows

\* When what is there stays and something is added.
LEMMA GrowsByEnd ==
  ASSUME NEW S, NEW k \in Seq(S), Kept = k, NEW t \in Seq(S), Journal' = k \o t
  PROVE  Grows
<1>1. Len(k) \in Nat /\ Len(t) \in Nat /\ DOMAIN k = 1..Len(k)
  BY LenProperties
<1>2. Len(Journal') = Len(k) + Len(t) /\ \A i \in 1..Len(k) : Journal'[i] = k[i]
  BY <1>1, ConcatProperties
<1> QED BY <1>1, <1>2 DEF Grows, Extends

\* What is written of the first d entries of s, and t, are s without the
\* lost, and the last entry of t.
IsShifted(S, s, t, d, lost) ==
  /\ Picked(SubSeq(s, 1, d), (1..d) \ lost) \in Seq(S)
  /\ Picked(s, DOMAIN s \ lost) \in Seq(S)
  /\ t[Len(t)] \in S
  /\ Picked(SubSeq(s, 1, d), (1..d) \ lost) \o t = Picked(s, DOMAIN s \ lost) \o One(t[Len(t)])

LEMMA Assoc ==
  ASSUME NEW S PROVE \A x, y, z \in Seq(S) : (x \o y) \o z = x \o (y \o z)
BY ConcatAssociative

\* A sequence t has taken an entry at the end of s and given up the first d.
Slid(s, t, d) ==
  d <= Len(s) /\ Len(t) = Len(s) + 1 - d /\ \A i \in 1..(Len(t) - 1) : t[i] = s[i + d]

LEMMA Shifted ==
  ASSUME NEW S, NEW s \in Seq(S), NEW t \in Seq(S), NEW d \in Nat, Slid(s, t, d),
         NEW lost \in SUBSET (1..d)
  PROVE  IsShifted(S, s, t, d, lost)
<1> DEFINE n == Len(s)
           e == t[Len(t)]
           gone == SubSeq(s, 1, d)
           I == (1..d) \ lost
           J == (d + 1)..n
           a == Picked(gone, I)
           b == SubSeq(s, d + 1, n)
           all == Picked(s, DOMAIN s \ lost)
<1>0. n \in Nat /\ DOMAIN s = 1..n /\ Len(t) = n + 1 - d /\ d <= n
  BY LenProperties DEF Slid
<1>1. e \in S
  BY <1>0, ElementOfSeq
<1>2. gone \in Seq(S) /\ DOMAIN gone = 1..d /\ \A i \in 1..d : gone[i] = s[i]
  BY <1>0, SubSeqProperties, ElementOfSeq, LenProperties
<1>3. /\ I \subseteq 1..d /\ I \subseteq Int /\ J \subseteq Int /\ \A i \in I, j \in J : i < j
      /\ I \cup J = DOMAIN s \ lost /\ I \cup J \subseteq Int
  <2> HIDE DEF n
  <2> QED BY <1>0
<1>4. b \in Seq(S) /\ Picks(b, s, J)
  <2>1. d + 1 \in Int /\ n \in Int /\ d + 1 >= 1 /\ n <= Len(s)
    BY <1>0
  <2> QED BY <2>1, PicksSubSeq
<1>5. Len(b) = n - d /\ \A i \in 1..(n - d) : b[i] = s[i + d]
  <2> HIDE DEF n
  <2>1. d + 1 \in Nat \ {0} /\ d + 1 <= n + 1 /\ n + 1 - (d + 1) = n - d
        /\ \A i \in 1..(n - d) : (d + 1) + i - 1 = i + d
    BY <1>0
  <2>2. n <= Len(s)
    BY <1>0 DEF n
  <2>3. Len(b) = n + 1 - (d + 1) /\ \A i \in 1..(n + 1 - (d + 1)) : b[i] = s[(d + 1) + i - 1]
    BY <1>0, <2>1, <2>2, SubSeqAt
  <2> HIDE DEF b
  <2> QED BY <2>1, <2>3
<1> HIDE DEF n, e, gone, I, J, b
<1>6. a \in Seq(S) /\ Picks(a, gone, I)
  BY <1>2, <1>3, PickedPicks
<1> HIDE DEF a
<1>7. Picks(a, s, I)
  <2>1. \A i \in I : s[i] = gone[i]
    BY <1>2, <1>3
  <2> QED BY <1>3, <1>6, <2>1, PicksSame
<1>8. Picks(a \o b, s, DOMAIN s \ lost)
  <2>1. Picks(a \o b, s, I \cup J)
    BY <1>3, <1>4, <1>6, <1>7, PicksConcat
  <2> QED BY <1>3, <2>1
<1>9. all \in Seq(S) /\ Picks(all, s, DOMAIN s \ lost)
  BY PickedPicks
<1> HIDE DEF all
<1>10. a \o b = all
  <2>1. a \o b \in Seq(S) /\ DOMAIN s \ lost \subseteq Int
    BY <1>3, <1>4, <1>6, ConcatProperties
  <2> QED BY <1>8, <1>9, <2>1, PicksUnique
<1>11. t = b \o One(e)
  <2>1. Len(t) = Len(b) + 1 /\ \A k \in 1..Len(b) : b[k] = t[k]
    BY <1>0, <1>5 DEF n, Slid
  <2> QED BY <1>4, <2>1, SplitLast DEF e
<1>12. a \o t = all \o One(e)
  <2>1. One(e) \in Seq(S)
    BY <1>1, OneIs
  <2>2. (a \o b) \o One(e) = a \o (b \o One(e))
    <3> DEFINE last == One(e)
    <3>1. a \in Seq(S) /\ b \in Seq(S) /\ last \in Seq(S)
      BY <1>4, <1>6, <2>1
    <3> HIDE DEF last
    <3>2. (a \o b) \o last = a \o (b \o last)
      BY <3>1, Assoc, SMTT(30)
    <3> QED BY <3>2 DEF last
  <2> QED BY <1>10, <1>11, <2>2
<1> QED BY <1>1, <1>6, <1>9, <1>12 DEF a, all, e, gone, I, IsShifted

\* upsert, whether it finds an entry of the connection or makes one.
LEMMA UpsertGrows ==
  ASSUME IInv, IsSequence(file), NEW c, NEW e, IsEntry(e), e.conn = c, Upsert(c, e),
         Indexed(c) => Extends(e, ring[byID[c]])
  PROVE  Grows
<1>0. Len(ring) \in Nat /\ DOMAIN ring = 1..Len(ring) /\ IsSequence(ring) /\ IndexExact
  BY SequenceLen DEF IInv
<1>1. CASE Indexed(c)
  <2>1. ring' = [ring EXCEPT ![byID[c]] = e] /\ file' = file /\ unwritten' = {}
    BY <1>1 DEF Upsert
  <2>2. byID[c] \in 1..Len(ring)
    BY <1>0, <1>1 DEF IndexExact, Indexed
  <2>3. ring \in Seq(Range(ring) \cup {e})
    BY <1>0, SeqMonotonic DEF IsSequence
  <2>4. ring' \in Seq(Range(ring) \cup {e}) /\ Len(ring') = Len(ring)
        /\ \A j \in 1..Len(ring) : ring'[j] = IF j = byID[c] THEN e ELSE ring[j]
    BY <2>1, <2>2, <2>3, ExceptSeq
  <2>5. IsSequence(ring')
    BY <2>4, SequenceOf
  <2>6. ASSUME NEW j \in 1..Len(ring) PROVE Extends(ring'[j], ring[j])
    <3>1. CASE j = byID[c]
      BY <1>1, <2>4, <3>1
    <3>2. CASE j # byID[c]
      BY <2>4, <3>2 DEF Extends
    <3> QED BY <3>1, <3>2
  <2> QED BY <1>0, <2>1, <2>4, <2>5, <2>6, GrowsInRing
<1>2. CASE ~Indexed(c)
  <2>1. PICK drop \in {0, 1} : Pushed(c, e, drop)
    BY <1>0, <1>2, NewEntry DEF IndexExact
  <2> DEFINE S == Range(file) \cup Range(ring) \cup Range(ring') \cup {e}
  <2>2. IsSequence(ring') /\ drop \in Nat /\ drop <= Len(ring) /\ Len(ring') = Len(ring) + 1 - drop
        /\ \A i \in 1..(Len(ring') - 1) : ring'[i] = ring[i + drop]
    BY <2>1 DEF Pushed
  <2>3. PICK lost \in SUBSET (1..drop) :
          unwritten' = lost /\ file' = file \o Picked(SubSeq(ring, 1, drop), (1..drop) \ lost)
    BY <2>1 DEF Pushed
  <2>4. file \in Seq(S) /\ ring \in Seq(S) /\ ring' \in Seq(S)
    BY <1>0, <2>2, SeqMonotonic DEF IsSequence
  <2> HIDE DEF S
  <2> DEFINE t == ring'
             a == Picked(SubSeq(ring, 1, drop), (1..drop) \ lost)
             all == Picked(ring, DOMAIN ring \ lost)
             last == t[Len(t)]
  <2>5. a \in Seq(S) /\ all \in Seq(S) /\ last \in S /\ a \o t = all \o One(last)
    <3>1. /\ t \in Seq(S) /\ ring \in Seq(S) /\ drop \in Nat /\ drop <= Len(ring)
          /\ Len(t) = Len(ring) + 1 - drop /\ \A i \in 1..(Len(t) - 1) : t[i] = ring[i + drop]
          /\ lost \in SUBSET (1..drop)
      BY <2>2, <2>4
    <3> HIDE DEF t
    <3>2. IsShifted(S, ring, t, drop, lost)
      BY <3>1, Shifted DEF Slid
    <3> QED BY <3>2 DEF IsShifted
  <2>6. Kept = file \o all /\ Journal' = (file \o a) \o t
    BY <2>3 DEF Kept, Journal
  <2> HIDE DEF a, all, last
  <2>7. file \o all \in Seq(S) /\ One(last) \in Seq(S) /\ Journal' = (file \o all) \o One(last)
    <3>0. t \in Seq(S)
      BY <2>4
    <3> HIDE DEF t
    <3>1. One(last) \in Seq(S)
      BY <2>5, OneIs
    <3>2. \A x, y, z \in Seq(S) : (x \o y) \o z = x \o (y \o z)
      BY Assoc
    <3>3. (file \o a) \o t = file \o (a \o t)
      BY <2>4, <2>5, <3>0, <3>2
    <3>4. file \o (all \o One(last)) = (file \o all) \o One(last)
      BY <2>4, <2>5, <3>1, <3>2
    <3> QED BY <2>4, <2>5, <2>6, <3>1, <3>3, <3>4, ConcatProperties
  <2> DEFINE k == file \o all
  <2>8. k \in Seq(S) /\ Kept = k /\ Journal' = k \o One(last)
    BY <2>6, <2>7
  <2> HIDE DEF k
  <2> QED BY <2>7, <2>8, GrowsByEnd
<1> QED BY <1>1, <1>2

\* What the poll makes of an entry.
LEMMA EnrichedExtends ==
  ASSUME NEW e, IsEntry(e), NEW answer PROVE Extends(Enriched(e, answer), e)
BY DEF IsEntry, Enriched, Extends

\* Every step but a restart lets the journal grow.
LEMMA JournalNext ==
  ASSUME IInv, IsSequence(file), [Next]_vars PROVE Restart \/ Grows \/ UNCHANGED vars
<1>0. IsSequence(ring) /\ Len(ring) \in Nat /\ DOMAIN ring = 1..Len(ring)
  BY SequenceLen DEF IInv
<1>1. ASSUME NEW c \in Conns, Inbound(c) PROVE Grows
  <2> DEFINE e == [EntryOf(c) EXCEPT !.host = Ip[c], !.ip = Ip[c], !.open = TRUE]
  <2>1. IsEntry(e) /\ e.conn = c
    BY EntryOfConn DEF IsEntry
  <2>2. ~Indexed(c) /\ Upsert(c, e)
    BY <1>1 DEF Inbound, Indexed, IInv
  <2> HIDE DEF e
  <2> QED BY <2>1, <2>2, UpsertGrows
<1>2. ASSUME NEW c \in Conns, Outbound(c) PROVE Grows
  <2> DEFINE e == [EntryOf(c) EXCEPT !.policy = Policy[c],
                                     !.host = IF @ = Nothing THEN Ip[c] ELSE @,
                                     !.ip = IF @ = Nothing THEN Ip[c] ELSE @]
  <2>1. IsEntry(e) /\ e.conn = c
    BY EntryOfConn DEF IsEntry
  <2>2. Upsert(c, e)
    BY <1>2 DEF Outbound
  <2>3. Extends(e, EntryOf(c))
    BY EntryOfConn DEF IsEntry, Extends
  <2>4. Indexed(c) => EntryOf(c) = ring[byID[c]]
    BY DEF EntryOf
  <2> HIDE DEF e
  <2> QED BY <2>1, <2>2, <2>3, <2>4, UpsertGrows
<1>3. ASSUME NEW c \in Conns, Rejected(c) PROVE Grows
  <2> DEFINE e == [EntryOf(c) EXCEPT !.policy = "reject", !.open = FALSE]
  <2>1. IsEntry(e) /\ e.conn = c
    BY EntryOfConn DEF IsEntry
  <2>2. Upsert(c, e)
    BY <1>3 DEF Rejected
  <2>3. Extends(e, EntryOf(c))
    BY EntryOfConn DEF IsEntry, Extends
  <2>4. Indexed(c) => EntryOf(c) = ring[byID[c]]
    BY DEF EntryOf
  <2> HIDE DEF e
  <2> QED BY <2>1, <2>2, <2>3, <2>4, UpsertGrows
<1>4. ASSUME NEW answer, Ingest(answer) PROVE Grows
  <2>1. ring' = [i \in 1..Len(ring) |-> Enriched(ring[i], answer)] /\ file' = file /\ unwritten' = {}
    BY <1>0, <1>4 DEF Ingest
  <2>2. ring' \in Seq({Enriched(ring[i], answer) : i \in 1..Len(ring)})
    BY <1>0, <2>1, SeqDef
  <2>3. IsSequence(ring')
    BY <2>2, SequenceOf
  <2>4. DOMAIN ring' = 1..Len(ring)
    BY <2>1
  <2>5. Len(ring') = Len(ring)
    BY <1>0, <2>4
  <2>6. \A i \in 1..Len(ring) : Extends(ring'[i], ring[i])
    BY <1>0, <2>1, EnrichedExtends DEF IInv
  <2> QED BY <1>0, <2>1, <2>3, <2>5, <2>6, GrowsInRing
<1>5. CASE Reset
  <2> DEFINE S == Range(file) \cup Range(ring)
  <2>1. file \in Seq(S) /\ ring \in Seq(S) /\ <<>> \in Seq(S)
    BY <1>0, SeqMonotonic, EmptySeq DEF IsSequence
  <2>2. PICK lost \in SUBSET DOMAIN ring :
          unwritten' = lost /\ file' = file \o Picked(ring, DOMAIN ring \ lost)
    BY <1>5 DEF Reset, Spill
  <2> DEFINE k == file \o Picked(ring, DOMAIN ring \ lost)
  <2>3. k \in Seq(S) /\ k \o <<>> = k
    <3>1. Picked(ring, DOMAIN ring \ lost) \in Seq(S)
      BY <2>1, PickedPicks
    <3> HIDE DEF S
    <3> QED BY <2>1, <3>1, ConcatProperties, ConcatEmptySeq
  <2>4. Kept = k /\ Journal' = k \o <<>>
    BY <1>5, <2>2 DEF Kept, Journal, Reset
  <2> HIDE DEF k, S
  <2> QED BY <2>1, <2>3, <2>4, GrowsByEnd
<1> QED BY <1>1, <1>2, <1>3, <1>4, <1>5 DEF Next

\* The file stays a sequence; of the fold of trimFile nothing more is needed
\* than that its last lines are taken.
LEMMA FileNext ==
  ASSUME IInv, IsSequence(file), [Next]_vars PROVE IsSequence(file)'
<1> DEFINE S == Range(file) \cup Range(ring)
<1>1. file \in Seq(S) /\ ring \in Seq(S) /\ Len(ring) \in Nat
  BY SequenceLen, SeqMonotonic DEF IInv, IsSequence
<1>2. ASSUME NEW c, NEW e, Upsert(c, e) PROVE IsSequence(file')
  <2>1. CASE Indexed(c)
    BY <1>2, <2>1 DEF Upsert
  <2>2. CASE ~Indexed(c)
    <3>1. PICK drop \in {0, 1} : Pushed(c, e, drop)
      BY <1>2, <2>2, NewEntry DEF IndexExact, IInv
    <3>2. PICK lost \in SUBSET (1..drop) : file' = file \o Picked(SubSeq(ring, 1, drop), (1..drop) \ lost)
      BY <3>1 DEF Pushed
    <3> DEFINE gone == SubSeq(ring, 1, drop)
    <3>4. gone \in Seq(S) /\ DOMAIN gone = 1..drop
      BY <1>1, <3>1, SubSeqProperties, ElementOfSeq, LenProperties DEF Pushed
    <3> HIDE DEF gone
    <3>5. Picked(gone, (1..drop) \ lost) \in Seq(S)
      BY <3>4, PickedPicks
    <3>3. file' \in Seq(S)
      BY <1>1, <3>2, <3>5, ConcatProperties DEF gone
    <3> QED BY <3>3, SequenceOf
  <2> QED BY <2>1, <2>2
<1>3. ASSUME NEW c \in Conns, Inbound(c) \/ Outbound(c) \/ Rejected(c) PROVE IsSequence(file')
  BY <1>2, <1>3 DEF Inbound, Outbound, Rejected
<1>4. CASE Reset
  <2>1. PICK lost \in SUBSET DOMAIN ring : file' = file \o Picked(ring, DOMAIN ring \ lost)
    BY <1>4 DEF Reset, Spill
  <2>2. Picked(ring, DOMAIN ring \ lost) \in Seq(S)
    BY <1>1, PickedPicks
  <2>3. file' \in Seq(S)
    BY <1>1, <2>1, <2>2, ConcatProperties
  <2> QED BY <2>3, SequenceOf
<1>5. CASE Restart
  <2>1. CASE file' = file
    BY <2>1
  <2>2. CASE file' # file
    <3> DEFINE buffer == FoldLeft(Buffered, <<>>, file)
    <3>1. file' = LastLines(buffer, Keep)
      BY <1>5, <2>2 DEF Restart, Trimmed
    <3> HIDE DEF buffer
    <3> DEFINE T == {buffer[Len(buffer) - Keep + i] : i \in 1..Keep}
    <3>2. file' \in [1..Keep -> T]
      BY <3>1 DEF LastLines
    <3>3. file' \in Seq(T)
      BY <3>2, BoundsAssumption, SeqDef
    <3> QED BY <3>3, SequenceOf
  <2> QED BY <2>1, <2>2
<1> QED BY <1>3, <1>4, <1>5 DEF Next, Ingest, vars

\* While the daemon runs nothing that was logged is moved or told differently,
\* whether it leaves the ring because that is full or because of a Reset, and
\* nothing is lost but the very entries whose write to the file fails, for a
\* ring and a file of any size.
THEOREM NothingLost == Spec => JournalGrows
<1>1. IInv /\ IsSequence(file) /\ [Next]_vars => [Restart \/ Grows]_vars
  <2>1. IInv /\ IsSequence(file) /\ [Next]_vars => Restart \/ Grows \/ UNCHANGED vars
    BY JournalNext
  <2> QED BY <2>1
<1>2. (Restart \/ Grows) =>
        \/ Restart
        \/ /\ Len(Journal') >= Len(Kept)
           /\ \A i \in DOMAIN Kept : Extends(Journal'[i], Kept[i])
  BY DEF Grows
<1>3. IInv /\ IsSequence(file) /\ [Next]_vars => IsSequence(file)'
  BY FileNext
<1>4. Init => IsSequence(file)
  BY SequenceOf, EmptySeq DEF Init
<1> QED BY <1>1, <1>2, <1>3, <1>4, InvInit, InvNext, PTL DEF Spec, JournalGrows
-----------------------------------------------------------------------------
(* trimFile *)

\* What the loop of FoldLeft makes of the lines at a set of places.
Scan(lines, k) ==
  CHOOSE f : f = [s \in SUBSET (1..k) |->
                   IF s = {} THEN <<>> ELSE Buffered(f[s \ {Max(s)}], lines[Max(s)])]

LEMMA ScanDef ==
  ASSUME NEW lines, NEW k \in Nat
  PROVE  Scan(lines, k) = [s \in SUBSET (1..k) |->
           IF s = {} THEN <<>>
           ELSE Buffered(Scan(lines, k)[s \ {Max(s)}], lines[Max(s)])]
<1> DEFINE Loop(f, n) ==
      f = [s \in SUBSET (1..n) |->
            IF s = {} THEN <<>> ELSE Buffered(f[s \ {Max(s)}], lines[Max(s)])]
           T == {n \in Nat : \E f : Loop(f, n)}
<1>1. 0 \in T
  <2>1. SUBSET (1..0) = {{}}
    OBVIOUS
  <2>2. Loop([s \in SUBSET (1..0) |-> <<>>], 0)
    BY <2>1
  <2> HIDE DEF Loop
  <2> QED BY <2>2
<1>2. ASSUME NEW n \in Nat, n \in T PROVE n + 1 \in T
  <2>1. PICK f : Loop(f, n)
    BY <1>2
  <2> DEFINE g == [s \in SUBSET (1..(n + 1)) |->
                    IF n + 1 \in s THEN Buffered(f[s \ {n + 1}], lines[n + 1]) ELSE f[s]]
  <2>2. ASSUME NEW s \in SUBSET (1..(n + 1))
        PROVE  g[s] = IF s = {} THEN <<>> ELSE Buffered(g[s \ {Max(s)}], lines[Max(s)])
    <3>1. CASE n + 1 \in s
      <4>1. Max(s) = n + 1
        BY <3>1, MaxIs
      <4>2. s \ {n + 1} \in SUBSET (1..(n + 1)) /\ n + 1 \notin s \ {n + 1}
        OBVIOUS
      <4>3. g[s \ {n + 1}] = f[s \ {n + 1}]
        BY <4>2
      <4>4. g[s] = Buffered(f[s \ {n + 1}], lines[n + 1])
        BY <3>1
      <4> HIDE DEF g
      <4> QED BY <3>1, <4>1, <4>3, <4>4
    <3>2. CASE n + 1 \notin s
      <4>1. s \in SUBSET (1..n) /\ g[s] = f[s]
        BY <3>2
      <4>2. n + 1 \notin s \ {Max(s)} /\ s \ {Max(s)} \in SUBSET (1..(n + 1))
        BY <3>2
      <4>3. g[s \ {Max(s)}] = f[s \ {Max(s)}]
        BY <4>2
      <4>4. f[s] = IF s = {} THEN <<>> ELSE Buffered(f[s \ {Max(s)}], lines[Max(s)])
        BY <2>1, <4>1
      <4> HIDE DEF g
      <4> QED BY <4>1, <4>3, <4>4
    <3> QED BY <3>1, <3>2
  <2>3. g = [s \in SUBSET (1..(n + 1)) |-> g[s]]
    OBVIOUS
  <2> HIDE DEF g
  <2>4. Loop(g, n + 1)
    BY <2>2, <2>3
  <2> HIDE DEF Loop
  <2> QED BY <2>4
<1> HIDE DEF Loop
<1>3. Nat \subseteq T
  <2> HIDE DEF T
  <2> QED BY <1>1, <1>2, Induction
<1>4. \E f : Loop(f, k)
  BY <1>3
<1> QED BY <1>4 DEF Scan, Loop

\* The buffer is the end of the first k lines, all of them or at least Keep.
EndOf(buffer, lines, k) ==
  /\ IsSequence(buffer)
  /\ Len(buffer) <= k
  /\ Len(buffer) < k => Len(buffer) >= Keep
  /\ \A i \in 1..Len(buffer) : buffer[i] = lines[k - Len(buffer) + i]

\* A line more, and a cut where the buffer has grown too long.
LEMMA BufferedIs ==
  ASSUME NEW lines, NEW k \in Nat, NEW buffer, EndOf(buffer, lines, k)
  PROVE  EndOf(Buffered(buffer, lines[k + 1]), lines, k + 1)
<1> DEFINE S == Range(buffer) \cup {lines[k + 1]}
           more == Append(buffer, lines[k + 1])
           cut == LastLines(more, Keep)
<1>1. buffer \in Seq(S) /\ Len(buffer) \in Nat
  BY SequenceLen, SeqMonotonic DEF EndOf, IsSequence
<1>2. /\ more \in Seq(S) /\ Len(more) = Len(buffer) + 1 /\ more[Len(buffer) + 1] = lines[k + 1]
      /\ \A i \in 1..Len(buffer) : more[i] = buffer[i]
  BY <1>1, AppendProperties
<1> HIDE DEF more, S
<1>3. \A i \in 1..Len(more) : more[i] = lines[k + 1 - Len(more) + i]
  <2> SUFFICES ASSUME NEW i \in 1..Len(more) PROVE more[i] = lines[k + 1 - Len(more) + i]
    OBVIOUS
  <2>1. CASE i = Len(buffer) + 1
    <3>1. k + 1 - Len(more) + i = k + 1
      BY <1>1, <1>2, <2>1
    <3> QED BY <1>2, <2>1, <3>1
  <2>2. CASE i # Len(buffer) + 1
    <3>1. i \in 1..Len(buffer) /\ k + 1 - Len(more) + i = k - Len(buffer) + i
      BY <1>1, <1>2, <2>2
    <3> QED BY <1>2, <3>1 DEF EndOf
  <2> QED BY <2>1, <2>2
<1>4. CASE Len(more) <= 2 * Keep
  <2>1. Buffered(buffer, lines[k + 1]) = more
    BY <1>1, <1>2, <1>4, BoundsAssumption DEF Buffered, more
  <2>2. IsSequence(more)
    BY <1>2, SequenceOf
  <2>3. Len(more) <= k + 1 /\ (Len(more) < k + 1 => Len(more) >= Keep)
    BY <1>1, <1>2, BoundsAssumption DEF EndOf
  <2>4. EndOf(more, lines, k + 1)
    BY <1>3, <2>2, <2>3 DEF EndOf
  <2> QED BY <2>1, <2>4
<1>5. CASE Len(more) > 2 * Keep
  <2>1. Buffered(buffer, lines[k + 1]) = cut
    BY <1>5 DEF Buffered, more
  <2>2. Keep \in Nat /\ Len(more) >= Keep
    BY <1>1, <1>2, <1>5, BoundsAssumption
  <2>3. \A i \in 1..Keep : Len(more) - Keep + i \in 1..Len(more)
    BY <1>1, <1>2, <2>2
  <2>4. cut = [i \in 1..Keep |-> more[Len(more) - Keep + i]]
    BY DEF LastLines
  <2> HIDE DEF cut
  <2>5. \A i \in 1..Keep : more[Len(more) - Keep + i] \in S
    BY <1>2, <2>3, ElementOfSeq
  <2>6. cut \in [1..Keep -> S]
    BY <2>4, <2>5
  <2>7. cut \in Seq(S) /\ Len(cut) = Keep
    BY <2>2, <2>6, SeqDef, LenProperties
  <2>8. IsSequence(cut)
    BY <2>7, SequenceOf
  <2>9. ASSUME NEW i \in 1..Len(cut) PROVE cut[i] = lines[k + 1 - Len(cut) + i]
    <3>1. i \in 1..Keep /\ cut[i] = more[Len(more) - Keep + i]
      BY <2>4, <2>7
    <3>2. k + 1 - Len(more) + (Len(more) - Keep + i) = k + 1 - Len(cut) + i
      BY <1>1, <1>2, <2>2, <2>7, <3>1
    <3> QED BY <1>3, <2>3, <3>1, <3>2
  <2>10. Len(cut) <= k + 1 /\ (Len(cut) < k + 1 => Len(cut) >= Keep)
    BY <1>1, <1>2, <2>2, <2>7 DEF EndOf
  <2> QED BY <2>1, <2>8, <2>9, <2>10 DEF EndOf
<1> QED BY <1>1, <1>2, <1>4, <1>5, BoundsAssumption

LEMMA BufferIs ==
  ASSUME NEW lines, IsSequence(lines)
  PROVE  EndOf(FoldLeft(Buffered, <<>>, lines), lines, Len(lines))
<1> DEFINE n == Len(lines)
           f == Scan(lines, n)
           T == {k \in Nat : k <= n => EndOf(f[1..k], lines, k)}
<1>1. FoldLeft(Buffered, <<>>, lines) = f[1..n]
  <2>1. DOMAIN lines = 1..n
    BY SequenceLen
  <2> QED BY <2>1 DEF FoldLeft, MapThenFoldSet, Scan
<1>2. n \in Nat
  BY SequenceLen
<1>3. \A s \in SUBSET (1..n) : f[s] = IF s = {} THEN <<>> ELSE Buffered(f[s \ {Max(s)}], lines[Max(s)])
  <2> HIDE DEF n
  <2>1. f = [s \in SUBSET (1..n) |->
              IF s = {} THEN <<>> ELSE Buffered(f[s \ {Max(s)}], lines[Max(s)])]
    BY <1>2, ScanDef
  <2> HIDE DEF f
  <2> QED BY <2>1
<1> HIDE DEF f
<1>4. 0 \in T
  <2>1. f[1..0] = <<>>
    <3>1. 1..0 = {} /\ {} \in SUBSET (1..n)
      OBVIOUS
    <3> QED BY <1>3, <3>1
  <2>2. IsSequence(<<>>) /\ Len(<<>>) = 0
    BY SequenceOf, EmptySeq
  <2> QED BY <2>1, <2>2 DEF EndOf
<1>5. ASSUME NEW k \in Nat, k \in T PROVE k + 1 \in T
  <2> SUFFICES ASSUME k + 1 <= n PROVE EndOf(f[1..(k + 1)], lines, k + 1)
    OBVIOUS
  <2>1. EndOf(f[1..k], lines, k)
    BY <1>2, <1>5
  <2>2. /\ 1..(k + 1) \in SUBSET (1..n) /\ k + 1 \in 1..(k + 1) /\ 1..(k + 1) # {}
        /\ (1..(k + 1)) \ {k + 1} = 1..k
    <3> HIDE DEF n
    <3> QED BY <1>2
  <2>3. Max(1..(k + 1)) = k + 1
    <3>1. k + 1 \in Nat
      OBVIOUS
    <3> QED BY <2>2, <3>1, MaxIs
  <2>4. f[1..(k + 1)] = Buffered(f[1..k], lines[k + 1])
    BY <1>3, <2>2, <2>3
  <2> QED BY <2>1, <2>4, BufferedIs
<1>6. n \in T
  <2> HIDE DEF T
  <2> QED BY <1>2, <1>4, <1>5, Induction
<1>7. EndOf(f[1..n], lines, n)
  BY <1>2, <1>6
<1> QED BY <1>1, <1>7

\* What is left of a file: all of it, or its last Keep lines.
LEMMA TrimmedIs ==
  ASSUME NEW lines, IsSequence(lines)
  PROVE  \/ Trimmed(lines) = lines
         \/ Len(lines) >= Keep /\ Trimmed(lines) = LastLines(lines, Keep)
<1> DEFINE buffer == FoldLeft(Buffered, <<>>, lines)
<1>1. Trimmed(lines) = IF Len(buffer) <= Keep THEN lines ELSE LastLines(buffer, Keep)
  BY DEF Trimmed
<1>2. EndOf(buffer, lines, Len(lines))
  BY BufferIs
<1> HIDE DEF buffer
<1>3. Len(lines) \in Nat /\ Len(buffer) \in Nat /\ Keep \in Nat
  BY <1>2, SequenceLen, BoundsAssumption DEF EndOf
<1> SUFFICES ASSUME Len(buffer) > Keep
             PROVE  Len(lines) >= Keep /\ LastLines(buffer, Keep) = LastLines(lines, Keep)
  BY <1>1, <1>3
<1>4. Len(lines) >= Keep
  BY <1>2, <1>3 DEF EndOf
<1>5. ASSUME NEW i \in 1..Keep PROVE buffer[Len(buffer) - Keep + i] = lines[Len(lines) - Keep + i]
  <2>1. /\ Len(buffer) - Keep + i \in 1..Len(buffer)
        /\ Len(lines) - Len(buffer) + (Len(buffer) - Keep + i) = Len(lines) - Keep + i
    BY <1>3
  <2> QED BY <1>2, <2>1 DEF EndOf
<1> QED BY <1>4, <1>5 DEF LastLines

\* The last n lines are the end of the file.
LEMMA LastLinesSuffix ==
  ASSUME NEW lines, IsSequence(lines), NEW n \in Nat, n <= Len(lines)
  PROVE  /\ IsSuffix(LastLines(lines, n), lines)
         /\ IsSuffix(LastLines(lines, n), LastLines(lines, n))
<1> DEFINE S == Range(lines)
           end == LastLines(lines, n)
<1>1. lines \in Seq(S) /\ Len(lines) \in Nat
  BY SequenceLen DEF IsSequence
<1>2. \A i \in 1..n : Len(lines) - n + i \in 1..Len(lines)
  BY <1>1
<1>3. end = [i \in 1..n |-> lines[Len(lines) - n + i]]
  BY DEF LastLines
<1> HIDE DEF end, S
<1>4. \A i \in 1..n : lines[Len(lines) - n + i] \in S
  BY <1>1, <1>2, ElementOfSeq
<1>5. end \in Seq(S) /\ Len(end) = n
  <2>1. end \in [1..n -> S]
    BY <1>3, <1>4
  <2> QED BY <2>1, SeqDef, LenProperties
<1> DEFINE a == Reverse(end)
           b == Reverse(lines)
<1>6. a = [i \in 1..n |-> end[n - i + 1]] /\ b = [i \in 1..Len(lines) |-> lines[Len(lines) - i + 1]]
  BY <1>5 DEF Reverse
<1> HIDE DEF a, b
<1>7. a \in Seq(S) /\ Len(a) = n
  <2>1. \A i \in 1..n : n - i + 1 \in 1..n
    OBVIOUS
  <2>2. \A i \in 1..n : end[n - i + 1] \in S
    BY <1>5, <2>1, ElementOfSeq
  <2>3. a \in [1..n -> S]
    BY <1>6, <2>2
  <2> QED BY <2>3, SeqDef, LenProperties
<1>8. b \in Seq(S) /\ Len(b) = Len(lines)
  <2>1. \A i \in 1..Len(lines) : Len(lines) - i + 1 \in 1..Len(lines)
    BY <1>1
  <2>2. \A i \in 1..Len(lines) : lines[Len(lines) - i + 1] \in S
    BY <1>1, <2>1, ElementOfSeq
  <2>3. b \in [1..Len(lines) -> S]
    BY <1>6, <2>2
  <2> QED BY <1>1, <2>3, SeqDef, LenProperties
<1>9. ASSUME NEW i \in 1..n PROVE a[i] = b[i]
  <2>1. n - i + 1 \in 1..n /\ i \in 1..Len(lines)
    BY <1>1
  <2>2. a[i] = end[n - i + 1] /\ b[i] = lines[Len(lines) - i + 1]
    BY <1>6, <2>1
  <2>3. Len(lines) - n + (n - i + 1) = Len(lines) - i + 1
    BY <1>1
  <2> QED BY <1>3, <2>1, <2>2, <2>3
<1>10. SubSeq(a, 1, n) = SubSeq(b, 1, n)
  <2>1. \A i \in 1..n : a[i] \in S /\ b[i] \in S
    <3>1. \A i \in 1..n : i \in 1..Len(b)
      BY <1>1, <1>8
    <3> QED BY <1>7, <1>8, <3>1, ElementOfSeq
  <2>2. /\ SubSeq(a, 1, n) \in Seq(S) /\ Len(SubSeq(a, 1, n)) = n /\ \A i \in 1..n : SubSeq(a, 1, n)[i] = a[i]
        /\ SubSeq(b, 1, n) \in Seq(S) /\ Len(SubSeq(b, 1, n)) = n /\ \A i \in 1..n : SubSeq(b, 1, n)[i] = b[i]
    BY <1>1, <1>7, <1>8, <2>1, SubSeqProperties
  <2> QED BY <1>9, <2>2, SeqEqual
<1>11. IsPrefix(a, b) /\ IsPrefix(a, a)
  BY <1>1, <1>7, <1>8, <1>10 DEF IsPrefix
<1> QED BY <1>11 DEF IsSuffix, a, b, end

LEMMA MinOfTwo == ASSUME NEW x \in Int, NEW y \in Int PROVE Min({x, y}) = IF x < y THEN x ELSE y
BY DEF Min

\* A restart loses no line of the file but the oldest, beyond connLogKeep,
\* however long the file is and wherever its buffer was cut.
THEOREM RecentAreKept == Spec => RecentKept
<1>1. ASSUME IsSequence(file), Restart
      PROVE  IsSuffix(LastLines(file, Min({Keep, Len(file)})), file')
  <2>1. file' = file \/ file' = Trimmed(file)
    BY <1>1 DEF Restart
  <2>2. Len(file) \in Nat /\ Keep \in Nat
    BY <1>1, SequenceLen, BoundsAssumption
  <2>3. CASE file' = file
    <3>1. Min({Keep, Len(file)}) \in Nat /\ Min({Keep, Len(file)}) <= Len(file)
      BY <2>2, MinOfTwo
    <3> QED BY <1>1, <2>3, <3>1, LastLinesSuffix
  <2>4. CASE Len(file) >= Keep /\ file' = LastLines(file, Keep)
    <3>1. Min({Keep, Len(file)}) = Keep
      BY <2>2, <2>4, MinOfTwo
    <3> QED BY <1>1, <2>2, <2>4, <3>1, LastLinesSuffix
  <2> QED BY <1>1, <2>1, <2>3, <2>4, TrimmedIs
<1>2. IInv /\ IsSequence(file) /\ [Next]_vars => IsSequence(file)'
  BY FileNext
<1>3. Init => IsSequence(file)
  BY SequenceOf, EmptySeq DEF Init
<1>4. IsSequence(file) =>
        [Restart => IsSuffix(LastLines(file, Min({Keep, Len(file)})), file')]_vars
  BY <1>1
<1> QED BY <1>2, <1>3, <1>4, InvInit, InvNext, PTL DEF Spec, RecentKept
=============================================================================
