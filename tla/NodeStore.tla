------------------------------ MODULE NodeStore ------------------------------
(***************************************************************************)
(* The node list of the store (src/daemon/store.go): a slice that holds    *)
(* the nodes the user imported and those of each subscription, in order.   *)
(* An id is computed from address and credentials, so a subscription may   *)
(* bring a node that is there already, and the first one with an id is the *)
(* one that is found.  Every operation is atomic under s.mu; only an       *)
(* update of a subscription (fetchSub of src/daemon/sub.go) is not: the    *)
(* download runs without the lock.                                         *)
(***************************************************************************)
EXTENDS Integers, Sequences, SequencesExt, Slices

CONSTANTS
  Reqs,       \* goroutines serving requests
  Subs,       \* subscriptions, by URL
  Ids,        \* node ids
  Names,      \* what else there is to a node and may be edited
  Latencies,  \* results of a measurement, in ms
  MaxNodes,   \* bound on the list
  MaxList,    \* bound on an import and on the body of a subscription
  NoSub       \* the empty subscription id

ASSUME SubsAssumption == NoSub \notin Subs
ASSUME LatenciesAssumption == Latencies \subseteq Nat \ {0}
ASSUME BoundsAssumption == MaxNodes \in Nat /\ MaxList \in Nat

VARIABLES
  nodes,  \* Store.nodes
  subs,   \* Store.subs
  fetch   \* the subscriptions each request has yet to download, in order

vars == <<nodes, subs, fetch>>

-----------------------------------------------------------------------------
(* Lists of nodes *)

\* A failed measurement, or none so far.
Unknown == -1

Parsed == [id : Ids, name : Names]

Node == [id : Ids, name : Names, sub : Subs \cup {NoSub}, lat : Latencies \cup {Unknown}]

Entry(p, sub, lat) == [id |-> p.id, name |-> p.name, sub |-> sub, lat |-> lat]

\* What a text of the user or the body of a subscription is parsed into; it
\* may list a node twice.
Lists == UNION {[1..n -> Parsed] : n \in 1..MaxList}

FirstAt(list, id) == SelectInSeq(list, LAMBDA n : n.id = id)
LastAt(list, id) == SelectLastInSeq(list, LAMBDA n : n.id = id)

TypeOK ==
  /\ nodes \in Seq(Node)
  /\ subs \in Seq(Subs)
  /\ fetch \in [Reqs -> Seq(Subs)]

Init ==
  /\ nodes = <<>>
  /\ subs = <<>>
  /\ fetch = [r \in Reqs |-> <<>>]

Idle(r) == fetch[r] = <<>>
Listed(s) == Contains(subs, s)

-----------------------------------------------------------------------------
(* Nodes *)

\* Bug: only what was there before counts as a duplicate.
BugAddNodes(list) ==
  /\ nodes' = LET fresh == Picked(list, {k \in DOMAIN list : FirstAt(nodes, list[k].id) = 0})
              IN  nodes \o [i \in DOMAIN fresh |-> Entry(fresh[i], NoSub, Unknown)]
  /\ UNCHANGED <<subs, fetch>>

\* One node of AddNodes: the last entry with its id keeps the place and the
\* latency, and leaves its subscription.
AddNode(list, p) ==
  LET i == LastAt(list, p.id)
  IN  IF i = 0
        THEN Append(list, Entry(p, NoSub, Unknown))
        ELSE [list EXCEPT ![i] = Entry(p, NoSub, list[i].lat)]

\* /nodes/import, and the nodes of /conf/fromurl.
AddNodes(list) ==
  /\ nodes' = FoldLeft(AddNode, nodes, list)
  /\ UNCHANGED <<subs, fetch>>

\* /nodes/delete: the first with the id.
DeleteNode(id) ==
  /\ FirstAt(nodes, id) # 0
  /\ nodes' = RemoveAt(nodes, FirstAt(nodes, id))
  /\ UNCHANGED <<subs, fetch>>

\* All but the duplicates of the node that is edited.
NoOther(i, id) == {k \in DOMAIN nodes : k = i \/ nodes[k].id # id}

\* Bug: the place of the edited node is not adjusted for the duplicates
\* removed before it.
BugReplaceNode(old, p) ==
  LET i == FirstAt(nodes, old)
      kept == Picked(nodes, NoOther(i, p.id))
  IN  /\ i # 0
      /\ nodes' = [kept EXCEPT ![i] = Entry(p, NoSub, nodes[i].lat)]
      /\ UNCHANGED <<subs, fetch>>

\* /nodes/update: the edited node takes the place of the first with the old
\* id, any other with the new id goes, and it leaves its subscription.
ReplaceNode(old, p) ==
  LET i == FirstAt(nodes, old)
      edited == [nodes EXCEPT ![i] = Entry(p, NoSub, nodes[i].lat)]
  IN  /\ i # 0
      /\ nodes' = Picked(edited, NoOther(i, p.id))
      /\ UNCHANGED <<subs, fetch>>

\* /nodes/test: the first with the id, if it is still there.
SetLatency(id, ms) ==
  /\ FirstAt(nodes, id) # 0
  /\ nodes' = [nodes EXCEPT ![FirstAt(nodes, id)].lat = ms]
  /\ UNCHANGED <<subs, fetch>>

-----------------------------------------------------------------------------
(* Subscriptions *)

\* /subs/add, and /nodes/import of a sub:// link: the subscription is saved
\* before its first download; one that is there keeps its place.
AddSub(r, s) ==
  /\ Idle(r)
  /\ subs' = IF Listed(s) THEN subs ELSE Append(subs, s)
  /\ fetch' = [fetch EXCEPT ![r] = <<s>>]
  /\ UNCHANGED nodes

\* /subs/update of the given subscriptions: one, or all there are now.
StartUpdate(r, list) ==
  /\ Idle(r)
  /\ list # <<>>
  /\ fetch' = [fetch EXCEPT ![r] = list]
  /\ UNCHANGED <<nodes, subs>>

\* The subscription being downloaded; it may be deleted meanwhile.
Current(r) == Head(fetch[r])

\* fetchSub is over, with or without success: on to the next subscription.
NextDownload(r) ==
  /\ ~Idle(r)
  /\ fetch' = [fetch EXCEPT ![r] = Tail(@)]

\* The latency a node of the subscription had: that of the last with its id.
Measured(s, id) ==
  LET i == SelectLastInSeq(nodes, LAMBDA n : n.sub = s /\ n.id = id)
  IN  IF i = 0 THEN Unknown ELSE nodes[i].lat

Others(s) == Picked(nodes, {i \in DOMAIN nodes : nodes[i].sub # s})

\* Bug: the nodes of the subscription come first.
BugReplaceSubNodes(r, list) ==
  LET s == Current(r)
  IN  /\ NextDownload(r)
      /\ nodes' = [i \in DOMAIN list |-> Entry(list[i], s, Measured(s, list[i].id))]
                    \o Others(s)
      /\ UNCHANGED subs

\* Bug: the latencies are looked up after the list was rebuilt.
BugMeasured(s, id) ==
  LET i == SelectLastInSeq(Others(s), LAMBDA n : n.id = id)
  IN  IF i = 0 THEN Unknown ELSE Others(s)[i].lat

BugReplaceSubNodesLatency(r, list) ==
  LET s == Current(r)
  IN  /\ NextDownload(r)
      /\ nodes' = Others(s)
                    \o [i \in DOMAIN list |-> Entry(list[i], s, BugMeasured(s, list[i].id))]
      /\ UNCHANGED subs

\* ReplaceSubNodes at the end of the download, whether or not the
\* subscription still exists: its nodes make way for the new ones, which
\* come last.
ReplaceSubNodes(r, list) ==
  LET s == Current(r)
  IN  /\ NextDownload(r)
      /\ nodes' = Others(s)
                    \o [i \in DOMAIN list |-> Entry(list[i], s, Measured(s, list[i].id))]
      /\ UNCHANGED subs

\* Nothing was downloaded, or no line of it is a node.
FetchFail(r) ==
  /\ NextDownload(r)
  /\ UNCHANGED <<nodes, subs>>

\* The subscription goes from the list.
Unlist(s) ==
  /\ Listed(s)
  /\ subs' = RemoveAt(subs, SelectInSeq(subs, LAMBDA t : t = s))

\* Bug: the nodes stay.
BugDeleteSub(s) ==
  /\ Unlist(s)
  /\ UNCHANGED <<nodes, fetch>>

\* /subs/delete
DeleteSub(s) ==
  /\ Unlist(s)
  /\ nodes' = Others(s)
  /\ UNCHANGED fetch

-----------------------------------------------------------------------------
Bounded == Len(nodes') <= MaxNodes

\* A request by r that is one critical section.
Request(r) ==
  /\ Idle(r)
  /\ \/ \E list \in Lists : AddNodes(list) /\ Bounded
     \/ \E id \in Ids : DeleteNode(id)
     \/ \E old \in Ids, p \in Parsed : ReplaceNode(old, p)
     \/ \E id \in Ids, ms \in Latencies \cup {Unknown} : SetLatency(id, ms)
     \/ \E s \in Subs : DeleteSub(s)

Next ==
  \E r \in Reqs :
    \/ Request(r)
    \/ \E s \in Subs : AddSub(r, s) \/ (Listed(s) /\ StartUpdate(r, <<s>>))
    \/ StartUpdate(r, subs)
    \/ \E list \in Lists : ReplaceSubNodes(r, list) /\ Bounded
    \/ FetchFail(r)

Spec == Init /\ [][Next]_vars

-----------------------------------------------------------------------------
(* Properties *)

\* Store.Node(id)
Found(list, id) == list[FirstAt(list, id)]

\* The end of a download: ReplaceSubNodes.
Refreshed(s) ==
  \E r \in Reqs : ~Idle(r) /\ Current(r) = s /\ fetch'[r] = Tail(fetch[r])

\* store.go: an edited node leaves its subscription because an update would
\* otherwise bring the old values back.  So a node of the user that is found
\* under its id is found unchanged after any update, even if the
\* subscription lists the same node again.
EditSticks ==
  [][\A s \in Subs : Refreshed(s) =>
       \A id \in Ids : FirstAt(nodes, id) # 0 /\ Found(nodes, id).sub = NoSub =>
         FirstAt(nodes', id) # 0 /\ Found(nodes', id) = Found(nodes, id)]_vars

Copies(list, id) == Cardinality({i \in DOMAIN list : list[i].id = id})

\* README: a refresh keeps measured latencies.  That of a node the
\* subscription has once is kept, wherever and however often the new body
\* lists it.  (Of a node it has twice the second one's wins, though
\* /nodes/test measures the first.)
LatencyKept ==
  [][\A s \in Subs : Refreshed(s) =>
       \A i \in DOMAIN nodes, j \in DOMAIN nodes' :
         nodes[i].sub = s /\ nodes'[j].sub = s /\ nodes[i].id = nodes'[j].id
           => \/ nodes'[j].lat = nodes[i].lat
              \/ \E k \in DOMAIN nodes \ {i} : nodes[k].sub = s /\ nodes[k].id = nodes[i].id]_vars

\* store.go: AddNodes deduplicates by id.  Of all requests only the refresh of
\* a subscription, which takes the list as it comes, puts a second node with an
\* id into the store.  (The new ids of migrateEncodedNodes, before there are
\* requests, may do so too.)
OnlyRefreshRepeats ==
  [][(\A s \in Subs : ~Refreshed(s)) =>
       \A id \in Ids : Copies(nodes', id) <= 1 \/ Copies(nodes', id) <= Copies(nodes, id)]_vars

\* store.go: if the new id is that of another node, the duplicate goes.
\* After an edit one node has the new id and it is the user's, and nodes with
\* other ids are all still there.
EditUnique ==
  [][\A old \in Ids, p \in Parsed : ReplaceNode(old, p) =>
       /\ Copies(nodes', p.id) = 1
       /\ Found(nodes', p.id).sub = NoSub
       /\ \A id \in Ids \ {old, p.id} : Copies(nodes', id) = Copies(nodes, id)]_vars

Leftovers(s) == ~Listed(s) /\ \E i \in DOMAIN nodes : nodes[i].sub = s

\* While the daemon runs, nodes of a subscription that is not in the list,
\* which nothing could update or delete, come about in one way only: its
\* download was under way when it was deleted.  Neither a deletion nor an edit,
\* an import or a refresh of what is listed leaves any.  (What a restart may
\* find is in Boot.)
NoLeftovers ==
  [][\A s \in Subs : Leftovers(s)' /\ ~Leftovers(s) => Refreshed(s) /\ ~Listed(s)]_vars
=============================================================================
