--------------------------- MODULE NodeStoreProofs ---------------------------
(***************************************************************************)
(* Proofs about NodeStore for any number of requests, subscriptions and    *)
(* nodes: what edits, imports, deletions and refreshes do to the list.     *)
(***************************************************************************)
EXTENDS NodeStore, SliceLemmas

Places(list, id) == {i \in DOMAIN list : list[i].id = id}

-----------------------------------------------------------------------------
(* Finding a node *)

\* The first node with the id.
LEMMA FirstAtIs ==
  ASSUME NEW S, NEW list \in Seq(S), NEW id
  PROVE  LET i == FirstAt(list, id)
         IN  \/ i = 0 /\ \A k \in DOMAIN list : list[k].id # id
             \/ /\ i \in DOMAIN list /\ i # 0 /\ list[i].id = id
                /\ \A k \in DOMAIN list : k < i => list[k].id # id
<1> DEFINE T == {k \in 1..Len(list) : list[k].id = id}
           i == FirstAt(list, id)
<1>1. i = IF T # {} THEN Min(T) ELSE 0
  BY DEF FirstAt, SelectInSeq
<1>2. CASE T = {}
  BY <1>1, <1>2
<1>3. CASE T # {}
  <2>1. \E x \in T : \A y \in T : x <= y
    <3>1. T \subseteq Nat
      OBVIOUS
    <3> HIDE DEF T
    <3> QED
      BY <1>3, <3>1, Least
  <2>2. i \in T /\ \A y \in T : i <= y
    <3> HIDE DEF T, i
    <3> QED
      BY <1>1, <1>3, <2>1 DEF Min
  <2>3. \A k \in DOMAIN list : k < i => list[k].id # id
    <3> HIDE DEF i
    <3> QED
      BY <2>2
  <2> QED
    BY <2>2, <2>3
<1> QED
  BY <1>2, <1>3

\* A greatest place, where there is one.
LEMMA LastPlace ==
  ASSUME NEW S, NEW list \in Seq(S), NEW T, T \subseteq 1..Len(list), T # {}
  PROVE  Max(T) \in T
<1>1. \E x \in T : \A y \in T : x >= y
  <2>1. Len(list) \in Nat /\ T \subseteq Nat /\ \A x \in T : x <= Len(list)
    OBVIOUS
  <2> QED
    BY <2>1, Greatest
<1> QED
  BY <1>1 DEF Max

\* The last node with the id.
LEMMA LastAtIs ==
  ASSUME NEW S, NEW list \in Seq(S), NEW id
  PROVE  LET i == LastAt(list, id)
         IN  \/ i = 0 /\ \A k \in DOMAIN list : list[k].id # id
             \/ i \in DOMAIN list /\ i # 0 /\ list[i].id = id
<1> DEFINE T == {k \in 1..Len(list) : list[k].id = id}
           i == LastAt(list, id)
<1>1. i = IF T # {} THEN Max(T) ELSE 0
  BY DEF LastAt, SelectLastInSeq
<1>2. T # {} => Max(T) \in T
  <2>1. T \subseteq 1..Len(list)
    OBVIOUS
  <2> HIDE DEF T
  <2> QED
    BY <2>1, LastPlace
<1> QED
  BY <1>1, <1>2

\* The latency that is kept is that of a node of the subscription with the id.
LEMMA MeasuredIs ==
  ASSUME nodes \in Seq(Node), NEW s, NEW id
  PROVE  \/ /\ Measured(s, id) = Unknown
            /\ \A k \in DOMAIN nodes : ~(nodes[k].sub = s /\ nodes[k].id = id)
         \/ \E k \in DOMAIN nodes :
              nodes[k].sub = s /\ nodes[k].id = id /\ Measured(s, id) = nodes[k].lat
<1> DEFINE T == {k \in 1..Len(nodes) : nodes[k].sub = s /\ nodes[k].id = id}
           i == IF T # {} THEN Max(T) ELSE 0
<1>1. Measured(s, id) = IF i = 0 THEN Unknown ELSE nodes[i].lat
  BY DEF Measured, SelectLastInSeq
<1>2. T # {} => Max(T) \in T
  <2>1. T \subseteq 1..Len(nodes)
    OBVIOUS
  <2> HIDE DEF T
  <2> QED
    BY <2>1, LastPlace
<1>3. CASE T = {}
  BY <1>1, <1>3
<1>4. CASE T # {}
  <2>1. i \in T /\ i # 0
    BY <1>2, <1>4
  <2> HIDE DEF i
  <2> QED
    BY <1>1, <2>1
<1> QED
  BY <1>3, <1>4

-----------------------------------------------------------------------------
(* Counting nodes *)

LEMMA PlacesFinite ==
  ASSUME NEW S, NEW list \in Seq(S), NEW id
  PROVE  IsFiniteSet(Places(list, id)) /\ Copies(list, id) \in Nat
<1>1. IsFiniteSet(1..Len(list)) /\ Places(list, id) \in SUBSET (1..Len(list))
  BY FS_Interval DEF Places
<1>2. IsFiniteSet(Places(list, id))
  BY <1>1, FS_Subset
<1> QED
  BY <1>2, FS_CardinalityType DEF Places, Copies

\* Of a part of a list it is the places that count.
LEMMA CopiesPicked ==
  ASSUME NEW list \in Seq(Node), NEW I \in SUBSET DOMAIN list, NEW id
  PROVE  /\ Picked(list, I) \in Seq(Node)
         /\ Copies(Picked(list, I), id) = Cardinality({i \in I : list[i].id = id})
<1> DEFINE t == Picked(list, I)
           K == {n \in Node : n.id = id}
<1>1. t \in Seq(Node) /\ Picks(t, list, I)
  BY PickedPicks
<1>2. I \subseteq Int
  OBVIOUS
<1> HIDE DEF t
<1>3. Where(t, 1..Len(t), K) = {k \in DOMAIN t : t[k].id = id}
  BY <1>1 DEF Where
<1>4. Where(list, I, K) = {i \in I : list[i].id = id}
  BY DEF Where
<1>5. Cardinality(Where(t, 1..Len(t), K)) = Cardinality(Where(list, I, K))
  <2> HIDE DEF K
  <2> QED
    BY <1>1, <1>2, PicksCount
<1>6. Copies(t, id) = Cardinality({i \in I : list[i].id = id})
  BY <1>3, <1>4, <1>5 DEF Copies
<1> QED
  BY <1>1, <1>6 DEF t

\* Leaving out nodes makes no more of any.
LEMMA CopiesFewer ==
  ASSUME NEW list \in Seq(Node), NEW I \in SUBSET DOMAIN list, NEW id
  PROVE  Copies(Picked(list, I), id) <= Copies(list, id)
<1>1. {i \in I : list[i].id = id} \in SUBSET Places(list, id)
  BY DEF Places
<1>2. Cardinality({i \in I : list[i].id = id}) <= Cardinality(Places(list, id))
  BY <1>1, PlacesFinite, FS_Subset
<1>3. Copies(Picked(list, I), id) = Cardinality({i \in I : list[i].id = id})
  BY CopiesPicked
<1>4. Copies(list, id) = Cardinality(Places(list, id))
  BY DEF Copies, Places
<1> QED
  BY <1>2, <1>3, <1>4

-----------------------------------------------------------------------------
(* The loop of AddNodes *)

\* One node more is the first of its id, or takes the place of one.
LEMMA AddNodeIs ==
  ASSUME NEW list \in Seq(Node), NEW p \in Parsed
  PROVE  /\ AddNode(list, p) \in Seq(Node)
         /\ \A id \in Ids : \/ Copies(AddNode(list, p), id) = Copies(list, id)
                            \/ Copies(AddNode(list, p), id) = 1
         /\ \A k \in DOMAIN AddNode(list, p) :
              \/ AddNode(list, p)[k].sub = NoSub
              \/ k \in DOMAIN list /\ AddNode(list, p)[k] = list[k]
<1> DEFINE i == LastAt(list, p.id)
           t == AddNode(list, p)
<1>1. p.id \in Ids /\ p.name \in Names
  BY DEF Parsed
<1>2. CASE i = 0
  <2> DEFINE e == Entry(p, NoSub, Unknown)
  <2>1. e \in Node /\ e.id = p.id /\ e.sub = NoSub
    BY <1>1 DEF Entry, Node
  <2> HIDE DEF e
  <2>2. t = Append(list, e)
    BY <1>2 DEF AddNode, e
  <2>3. /\ t \in Seq(Node) /\ Len(t) = Len(list) + 1
        /\ \A k \in 1..Len(list) : t[k] = list[k]
        /\ t[Len(list) + 1] = e
    BY <2>1, <2>2, AppendProperties
  <2>4. \A k \in DOMAIN list : list[k].id # p.id
    BY <1>2, LastAtIs
  <2> HIDE DEF t
  <2>5. Places(t, p.id) = {Len(list) + 1}
    BY <2>1, <2>3, <2>4 DEF Places
  <2>6. \A id \in Ids : id # p.id => Places(t, id) = Places(list, id)
    BY <2>1, <2>3 DEF Places
  <2>7. \A id \in Ids : Copies(t, id) = Copies(list, id) \/ Copies(t, id) = 1
    <3>1. \A l, id : Copies(l, id) = Cardinality(Places(l, id))
      BY DEF Copies, Places
    <3>2. Copies(t, p.id) = 1
      BY <2>5, <3>1, FS_Singleton
    <3>3. \A id \in Ids : id # p.id => Copies(t, id) = Copies(list, id)
      BY <2>6, <3>1
    <3> QED
      BY <3>2, <3>3
  <2> QED
    BY <2>1, <2>3, <2>7 DEF t
<1>3. CASE i # 0
  <2>1. i \in DOMAIN list /\ list[i].id = p.id
    BY <1>3, LastAtIs
  <2> DEFINE e == Entry(p, NoSub, list[i].lat)
  <2>2. list[i] \in Node
    BY <2>1
  <2>3. e \in Node /\ e.id = p.id /\ e.sub = NoSub
    BY <1>1, <2>2 DEF Entry, Node
  <2> HIDE DEF e
  <2>4. t = [list EXCEPT ![i] = e]
    BY <1>3 DEF AddNode, e
  <2> HIDE DEF t, i
  <2>5. t \in Seq(Node) /\ DOMAIN t = DOMAIN list
    BY <2>1, <2>3, <2>4
  <2>6. \A k \in DOMAIN list : t[k] = IF k = i THEN e ELSE list[k]
    BY <2>1, <2>4
  <2>7. \A id \in Ids : Places(t, id) = Places(list, id)
    BY <2>1, <2>3, <2>5, <2>6 DEF Places
  <2>8. \A id \in Ids : Copies(t, id) = Copies(list, id)
    BY <2>7 DEF Copies, Places
  <2> QED
    BY <2>3, <2>5, <2>6, <2>8 DEF t
<1> QED
  BY <1>2, <1>3

\* The lists the loop may come by.
Added ==
  {t \in Seq(Node) :
    /\ \A id \in Ids : Copies(t, id) <= 1 \/ Copies(t, id) <= Copies(nodes, id)
    /\ \A k \in DOMAIN t : t[k].sub # NoSub => k \in DOMAIN nodes /\ t[k] = nodes[k]}

LEMMA AddNodeStays ==
  ASSUME NEW list \in Added, NEW p \in Parsed
  PROVE  AddNode(list, p) \in Added
<1> DEFINE t == AddNode(list, p)
<1>1. list \in Seq(Node)
  BY DEF Added
<1>2. /\ t \in Seq(Node)
      /\ \A id \in Ids : Copies(t, id) = Copies(list, id) \/ Copies(t, id) = 1
      /\ \A k \in DOMAIN t : t[k].sub = NoSub \/ (k \in DOMAIN list /\ t[k] = list[k])
  BY <1>1, AddNodeIs
<1> HIDE DEF t
<1>3. \A id \in Ids : Copies(t, id) <= 1 \/ Copies(t, id) <= Copies(nodes, id)
  BY <1>2 DEF Added
<1>4. \A k \in DOMAIN t : t[k].sub # NoSub => k \in DOMAIN nodes /\ t[k] = nodes[k]
  BY <1>2 DEF Added
<1>5. t \in Added
  BY <1>2, <1>3, <1>4 DEF Added
<1> QED
  BY <1>5 DEF t

\* The loop, as the fold over the places of the list has it.
Turns(list, k) ==
  CHOOSE f : f = [s \in SUBSET (1..k) |->
                   IF s = {} THEN nodes ELSE AddNode(f[s \ {Max(s)}], list[Max(s)])]

LEMMA TurnsDef ==
  ASSUME NEW list, NEW k \in Nat
  PROVE  Turns(list, k) = [s \in SUBSET (1..k) |->
           IF s = {} THEN nodes
           ELSE AddNode(Turns(list, k)[s \ {Max(s)}], list[Max(s)])]
<1> DEFINE Loop(f, n) ==
      f = [s \in SUBSET (1..n) |->
            IF s = {} THEN nodes ELSE AddNode(f[s \ {Max(s)}], list[Max(s)])]
           T == {n \in Nat : \E f : Loop(f, n)}
<1>1. 0 \in T
  <2>1. SUBSET (1..0) = {{}}
    OBVIOUS
  <2>2. Loop([s \in SUBSET (1..0) |-> nodes], 0)
    BY <2>1
  <2> HIDE DEF Loop
  <2> QED
    BY <2>2
<1>2. ASSUME NEW n \in Nat, n \in T PROVE n + 1 \in T
  <2>1. PICK f : Loop(f, n)
    BY <1>2
  <2> DEFINE g == [s \in SUBSET (1..(n + 1)) |->
                    IF n + 1 \in s THEN AddNode(f[s \ {n + 1}], list[n + 1]) ELSE f[s]]
  <2>2. ASSUME NEW s \in SUBSET (1..(n + 1))
        PROVE  g[s] = IF s = {} THEN nodes ELSE AddNode(g[s \ {Max(s)}], list[Max(s)])
    <3>1. CASE n + 1 \in s
      <4>1. Max(s) = n + 1
        BY <3>1, MaxIs
      <4>2. s \ {n + 1} \in SUBSET (1..(n + 1)) /\ n + 1 \notin s \ {n + 1}
        OBVIOUS
      <4>3. g[s \ {n + 1}] = f[s \ {n + 1}]
        BY <4>2
      <4>4. g[s] = AddNode(f[s \ {n + 1}], list[n + 1])
        BY <3>1
      <4> HIDE DEF g
      <4> QED
        BY <3>1, <4>1, <4>3, <4>4
    <3>2. CASE n + 1 \notin s
      <4>1. s \in SUBSET (1..n) /\ g[s] = f[s]
        BY <3>2
      <4>2. n + 1 \notin s \ {Max(s)} /\ s \ {Max(s)} \in SUBSET (1..(n + 1))
        BY <3>2
      <4>3. g[s \ {Max(s)}] = f[s \ {Max(s)}]
        BY <4>2
      <4>4. f[s] = IF s = {} THEN nodes ELSE AddNode(f[s \ {Max(s)}], list[Max(s)])
        BY <2>1, <4>1
      <4> HIDE DEF g
      <4> QED
        BY <4>1, <4>3, <4>4
    <3> QED
      BY <3>1, <3>2
  <2>3. g = [s \in SUBSET (1..(n + 1)) |-> g[s]]
    OBVIOUS
  <2> HIDE DEF g
  <2>4. Loop(g, n + 1)
    BY <2>2, <2>3
  <2> HIDE DEF Loop
  <2> QED
    BY <2>4
<1> HIDE DEF Loop
<1>3. Nat \subseteq T
  <2> HIDE DEF T
  <2> QED
    BY <1>1, <1>2, Induction
<1>4. \E f : Loop(f, k)
  BY <1>3
<1> QED
  BY <1>4 DEF Turns, Loop

LEMMA AddNodesLoop ==
  ASSUME nodes \in Seq(Node), NEW list \in Seq(Parsed)
  PROVE  FoldLeft(AddNode, nodes, list) \in Added
<1> DEFINE n == Len(list)
           f == Turns(list, n)
           T == {k \in Nat : k <= n => f[1..k] \in Added}
<1>1. FoldLeft(AddNode, nodes, list) = f[1..n]
  <2>1. DOMAIN list = 1..n
    OBVIOUS
  <2> QED
    BY <2>1 DEF FoldLeft, MapThenFoldSet, Turns
<1>2. n \in Nat
  OBVIOUS
<1>3. \A s \in SUBSET (1..n) : f[s] = IF s = {} THEN nodes ELSE AddNode(f[s \ {Max(s)}], list[Max(s)])
  <2> HIDE DEF n
  <2>1. f = [s \in SUBSET (1..n) |->
              IF s = {} THEN nodes ELSE AddNode(f[s \ {Max(s)}], list[Max(s)])]
    BY <1>2, TurnsDef
  <2> HIDE DEF f
  <2> QED
    BY <2>1
<1> HIDE DEF f
<1>4. 0 \in T
  <2>1. nodes \in Added
    <3>1. \A id \in Ids : Copies(nodes, id) \in Nat
      BY PlacesFinite
    <3> QED
      BY <3>1 DEF Added
  <2>2. 1..0 = {}
    OBVIOUS
  <2>3. f[{}] = nodes
    BY <1>3
  <2> QED
    BY <2>1, <2>2, <2>3
<1>5. ASSUME NEW k \in Nat, k \in T PROVE k + 1 \in T
  <2> SUFFICES ASSUME k + 1 <= n PROVE f[1..(k + 1)] \in Added
    OBVIOUS
  <2>1. f[1..k] \in Added
    BY <1>2, <1>5
  <2>2. /\ 1..(k + 1) \in SUBSET (1..n) /\ k + 1 \in 1..(k + 1) /\ 1..(k + 1) # {}
        /\ (1..(k + 1)) \ {k + 1} = 1..k
    BY <1>2
  <2>3. Max(1..(k + 1)) = k + 1
    <3>1. k + 1 \in Nat
      OBVIOUS
    <3> QED
      BY <2>2, <3>1, MaxIs
  <2>4. f[1..(k + 1)] = AddNode(f[1..k], list[k + 1])
    BY <1>3, <2>2, <2>3
  <2>5. list[k + 1] \in Parsed
    BY <1>2
  <2> QED
    BY <2>1, <2>4, <2>5, AddNodeStays
<1>6. n \in T
  <2> HIDE DEF T
  <2> QED
    BY <1>2, <1>4, <1>5, Induction
<1>7. f[1..n] \in Added
  BY <1>2, <1>6
<1> QED
  BY <1>1, <1>7

-----------------------------------------------------------------------------
(* Types *)

\* What Others leaves out and what it keeps.
LEMMA OthersIs ==
  ASSUME nodes \in Seq(Node), NEW s
  PROVE  LET I == {i \in DOMAIN nodes : nodes[i].sub # s}
         IN  Others(s) \in Seq(Node) /\ Picks(Others(s), nodes, I)
  BY PickedPicks DEF Others

\* The nodes a subscription brings.
Brought(s, list) == [i \in DOMAIN list |-> Entry(list[i], s, Measured(s, list[i].id))]

LEMMA BroughtType ==
  ASSUME nodes \in Seq(Node), NEW s \in Subs, NEW list \in Seq(Parsed)
  PROVE  /\ Brought(s, list) \in Seq(Node) /\ Len(Brought(s, list)) = Len(list)
         /\ \A i \in DOMAIN list :
              Brought(s, list)[i] = Entry(list[i], s, Measured(s, list[i].id))
<1>1. ASSUME NEW i \in DOMAIN list
      PROVE  Entry(list[i], s, Measured(s, list[i].id)) \in Node
  <2>1. list[i] \in Parsed
    OBVIOUS
  <2>2. list[i].id \in Ids /\ list[i].name \in Names
    BY <2>1 DEF Parsed
  <2>3. \A k \in DOMAIN nodes : nodes[k] \in Node
    OBVIOUS
  <2>4. \A k \in DOMAIN nodes : nodes[k].lat \in Latencies \cup {Unknown}
    BY <2>3 DEF Node
  <2>5. Measured(s, list[i].id) \in Latencies \cup {Unknown}
    BY <2>4, MeasuredIs
  <2> QED
    BY <2>2, <2>5 DEF Entry, Node
<1>2. DOMAIN list = 1..Len(list) /\ Len(list) \in Nat
  OBVIOUS
<1>3. Brought(s, list) \in [1..Len(list) -> Node]
  BY <1>1, <1>2 DEF Brought
<1> QED
  BY <1>2, <1>3 DEF Brought

LEMMA ListsType == Lists \subseteq Seq(Parsed)
<1>1. \A n \in 1..MaxList : [1..n -> Parsed] \subseteq Seq(Parsed)
  BY BoundsAssumption
<1> QED
  BY <1>1 DEF Lists

LEMMA InitType == Init => TypeOK
  BY DEF Init, TypeOK

\* The end of a download.
LEMMA Downloaded ==
  ASSUME TypeOK, NEW r \in Reqs, NextDownload(r)
  PROVE  /\ fetch' \in [Reqs -> Seq(Subs)] /\ Current(r) \in Subs
         /\ fetch'[r] = Tail(fetch[r]) /\ \A q \in Reqs : q # r => fetch'[q] = fetch[q]
<1>1. fetch[r] \in Seq(Subs) /\ fetch[r] # <<>>
  BY DEF NextDownload, Idle, TypeOK
<1>2. Tail(fetch[r]) \in Seq(Subs) /\ Head(fetch[r]) \in Subs
  BY <1>1, HeadTailProperties
<1> QED
  BY <1>2 DEF NextDownload, Current, TypeOK

LEMMA NextType == TypeOK /\ [Next]_vars => TypeOK'
<1> SUFFICES ASSUME TypeOK, [Next]_vars PROVE TypeOK'
  OBVIOUS
<1>1. nodes \in Seq(Node) /\ subs \in Seq(Subs) /\ fetch \in [Reqs -> Seq(Subs)]
  BY DEF TypeOK
<1>2. ASSUME NEW list \in Lists, AddNodes(list) PROVE TypeOK'
  <2>1. nodes' \in Added
    BY <1>1, <1>2, ListsType, AddNodesLoop DEF AddNodes
  <2> QED
    BY <1>1, <1>2, <2>1 DEF AddNodes, Added, TypeOK
<1>3. ASSUME NEW id \in Ids, DeleteNode(id) PROVE TypeOK'
  <2>1. FirstAt(nodes, id) \in DOMAIN nodes
    BY <1>1, <1>3, FirstAtIs DEF DeleteNode
  <2>2. nodes' \in Seq(Node)
    BY <1>1, <1>3, <2>1, RemoveAtType DEF DeleteNode
  <2> QED
    BY <1>1, <1>3, <2>2 DEF DeleteNode, TypeOK
<1>4. ASSUME NEW old \in Ids, NEW p \in Parsed, ReplaceNode(old, p) PROVE TypeOK'
  <2> DEFINE i == FirstAt(nodes, old)
             edited == [nodes EXCEPT ![i] = Entry(p, NoSub, nodes[i].lat)]
  <2>1. i \in DOMAIN nodes /\ nodes[i] \in Node
    BY <1>1, <1>4, FirstAtIs DEF ReplaceNode
  <2>2. Entry(p, NoSub, nodes[i].lat) \in Node
    BY <2>1 DEF Entry, Node, Parsed
  <2>3. edited \in Seq(Node) /\ DOMAIN edited = DOMAIN nodes
    <3> HIDE DEF i
    <3> QED
      BY <1>1, <2>1, <2>2
  <2>4. NoOther(i, p.id) \in SUBSET DOMAIN edited
    BY <2>3 DEF NoOther
  <2>5. nodes' = Picked(edited, NoOther(i, p.id))
    BY <1>4 DEF ReplaceNode
  <2>6. nodes' \in Seq(Node)
    <3> HIDE DEF edited, i
    <3> QED
      BY <2>3, <2>4, <2>5, CopiesPicked
  <2> QED
    BY <1>1, <1>4, <2>6 DEF ReplaceNode, TypeOK
<1>5. ASSUME NEW id \in Ids, NEW ms \in Latencies \cup {Unknown}, SetLatency(id, ms) PROVE TypeOK'
  <2> DEFINE i == FirstAt(nodes, id)
  <2>1. i \in DOMAIN nodes
    BY <1>1, <1>5, FirstAtIs DEF SetLatency
  <2>2. nodes' = [nodes EXCEPT ![i].lat = ms]
    BY <1>5 DEF SetLatency
  <2> HIDE DEF i
  <2>3. [nodes[i] EXCEPT !.lat = ms] \in Node
    <3>1. nodes[i] \in Node
      BY <1>1, <2>1
    <3> QED
      BY <3>1 DEF Node
  <2>4. nodes' \in Seq(Node)
    BY <1>1, <2>1, <2>2, <2>3
  <2> QED
    BY <1>1, <1>5, <2>4 DEF SetLatency, TypeOK
<1>6. ASSUME NEW s \in Subs, DeleteSub(s) PROVE TypeOK'
  <2>1. SelectInSeq(subs, LAMBDA t : t = s) \in DOMAIN subs
    <3> DEFINE T == {i \in 1..Len(subs) : subs[i] = s}
    <3>1. T # {}
      BY <1>1, <1>6 DEF DeleteSub, Unlist, Listed, Contains
    <3>2. T \subseteq Nat
      OBVIOUS
    <3>3. Min(T) \in T
      <4> HIDE DEF T
      <4>1. \E x \in T : \A y \in T : x <= y
        BY <3>1, <3>2, Least
      <4> QED
        BY <4>1 DEF Min
    <3> QED
      BY <3>1, <3>3 DEF SelectInSeq
  <2>2. subs' \in Seq(Subs)
    BY <1>1, <1>6, <2>1, RemoveAtType DEF DeleteSub, Unlist
  <2>3. nodes' \in Seq(Node)
    BY <1>1, <1>6, OthersIs DEF DeleteSub
  <2> QED
    BY <1>1, <1>6, <2>2, <2>3 DEF DeleteSub, TypeOK
<1>7. ASSUME NEW r \in Reqs, NEW s \in Subs, AddSub(r, s) \/ StartUpdate(r, <<s>>)
      PROVE  TypeOK'
  <2>1. Append(subs, s) \in Seq(Subs) /\ <<s>> \in Seq(Subs)
    BY <1>1
  <2>2. subs' \in Seq(Subs) /\ nodes' = nodes
    BY <1>1, <1>7, <2>1 DEF AddSub, StartUpdate
  <2>3. fetch' \in [Reqs -> Seq(Subs)]
    BY <1>1, <1>7, <2>1 DEF AddSub, StartUpdate
  <2> QED
    BY <1>1, <2>2, <2>3 DEF TypeOK
<1>8. ASSUME NEW r \in Reqs, StartUpdate(r, subs) PROVE TypeOK'
  <2>1. fetch' \in [Reqs -> Seq(Subs)]
    BY <1>1, <1>8 DEF StartUpdate
  <2> QED
    BY <1>1, <1>8, <2>1 DEF StartUpdate, TypeOK
<1>9. ASSUME NEW r \in Reqs, NextDownload(r) PROVE fetch' \in [Reqs -> Seq(Subs)] /\ Current(r) \in Subs
  BY <1>9, Downloaded
<1>10. ASSUME NEW r \in Reqs, NEW list \in Lists, ReplaceSubNodes(r, list) PROVE TypeOK'
  <2>1. list \in Seq(Parsed) /\ Current(r) \in Subs /\ fetch' \in [Reqs -> Seq(Subs)]
    BY <1>9, <1>10, ListsType DEF ReplaceSubNodes
  <2>2. Others(Current(r)) \in Seq(Node) /\ Brought(Current(r), list) \in Seq(Node)
    BY <1>1, <2>1, OthersIs, BroughtType
  <2>3. nodes' = Others(Current(r)) \o Brought(Current(r), list)
    BY <1>10 DEF ReplaceSubNodes, Brought
  <2>4. nodes' \in Seq(Node)
    BY <2>2, <2>3, ConcatProperties
  <2> QED
    BY <1>1, <1>10, <2>1, <2>4 DEF ReplaceSubNodes, TypeOK
<1>11. ASSUME NEW r \in Reqs, FetchFail(r) PROVE TypeOK'
  BY <1>1, <1>9, <1>11 DEF FetchFail, TypeOK
<1>12. CASE UNCHANGED vars
  BY <1>1, <1>12 DEF vars, TypeOK
<1> QED
  BY <1>2, <1>3, <1>4, <1>5, <1>6, <1>7, <1>8, <1>10, <1>11, <1>12 DEF Next, Request

LEMMA TypeCorrect == Spec => []TypeOK
  BY InitType, NextType, PTL DEF Spec

-----------------------------------------------------------------------------
(* Imports, edits and deletions *)

\* Store.Node finds the edited node, and only that one has its id.
LEMMA Edited ==
  ASSUME TypeOK, NEW old \in Ids, NEW p \in Parsed, ReplaceNode(old, p)
  PROVE  /\ nodes' \in Seq(Node)
         /\ Copies(nodes', p.id) = 1
         /\ Found(nodes', p.id).sub = NoSub
         /\ \A id \in Ids \ {old, p.id} : Copies(nodes', id) = Copies(nodes, id)
         /\ \A id \in Ids : id # p.id => Copies(nodes', id) <= Copies(nodes, id)
         /\ \A k \in DOMAIN nodes' : nodes'[k].sub # NoSub =>
              \E j \in DOMAIN nodes : nodes[j].sub = nodes'[k].sub
<1> DEFINE i == FirstAt(nodes, old)
           e == Entry(p, NoSub, nodes[i].lat)
           edited == [nodes EXCEPT ![i] = e]
           I == NoOther(i, p.id)
<1>1. i \in DOMAIN nodes /\ nodes[i].id = old /\ nodes \in Seq(Node)
  BY FirstAtIs DEF ReplaceNode, TypeOK
<1>2. nodes[i] \in Node
  BY <1>1
<1>3. e \in Node /\ e.id = p.id /\ e.sub = NoSub
  BY <1>2 DEF Entry, Node, Parsed
<1>4. nodes' = Picked(edited, I)
  BY DEF ReplaceNode
<1>5. I = {k \in DOMAIN nodes : k = i \/ nodes[k].id # p.id}
  BY DEF NoOther
<1> HIDE DEF i, e, I
<1>6. /\ edited \in Seq(Node) /\ DOMAIN edited = DOMAIN nodes
      /\ \A k \in DOMAIN nodes : edited[k] = IF k = i THEN e ELSE nodes[k]
  BY <1>1, <1>3
<1> HIDE DEF edited
<1>7. I \in SUBSET DOMAIN edited
  BY <1>5, <1>6
<1>8. /\ nodes' \in Seq(Node) /\ Picks(nodes', edited, I)
      /\ \A id : Copies(nodes', id) = Cardinality({k \in I : edited[k].id = id})
  BY <1>4, <1>6, <1>7, CopiesPicked, PickedPicks
<1>9. Copies(nodes', p.id) = 1
  <2>1. {k \in I : edited[k].id = p.id} = {i}
    BY <1>1, <1>3, <1>5, <1>6
  <2>2. Copies(nodes', p.id) = Cardinality({k \in I : edited[k].id = p.id})
    BY <1>8
  <2>3. Cardinality({i}) = 1
    BY FS_Singleton
  <2> QED
    BY <2>1, <2>2, <2>3
<1>10. PICK f : Enumerates(f, Len(nodes'), I) /\ \A k \in 1..Len(nodes') : nodes'[k] = edited[f[k]]
  BY <1>8 DEF Picks
<1>11. \A k \in DOMAIN nodes' : f[k] \in I /\ nodes'[k] = edited[f[k]]
  BY <1>8, <1>10 DEF Enumerates
<1>12. Found(nodes', p.id).sub = NoSub
  <2> DEFINE t == nodes'
             j == FirstAt(t, p.id)
  <2>1. PICK k \in DOMAIN nodes' : f[k] = i
    BY <1>1, <1>5, <1>8, <1>10 DEF Enumerates
  <2>2. nodes'[k].id = p.id
    BY <1>1, <1>3, <1>6, <1>11, <2>1
  <2>3. t \in Seq(Node) /\ \E n \in DOMAIN t : t[n].id = p.id
    BY <1>8, <2>2
  <2>4. j \in DOMAIN t /\ t[j].id = p.id
    <3> HIDE DEF t
    <3> QED
      BY <2>3, FirstAtIs
  <2> HIDE DEF j
  <2>5. f[j] = i
    BY <1>3, <1>5, <1>6, <1>11, <2>4
  <2>6. nodes'[j] = e
    BY <1>1, <1>6, <1>11, <2>4, <2>5
  <2> QED
    BY <1>3, <2>6 DEF Found, j
<1>13. ASSUME NEW id \in Ids \ {old, p.id} PROVE Copies(nodes', id) = Copies(nodes, id)
  <2>1. {k \in I : edited[k].id = id} = {k \in DOMAIN nodes : nodes[k].id = id}
    BY <1>1, <1>3, <1>5, <1>6
  <2> QED
    BY <1>8, <2>1 DEF Copies
<1>14. ASSUME NEW id \in Ids, id # p.id PROVE Copies(nodes', id) <= Copies(nodes, id)
  <2>1. {k \in I : edited[k].id = id} \in SUBSET Places(nodes, id)
    BY <1>3, <1>5, <1>6, <1>14 DEF Places
  <2>2. Cardinality({k \in I : edited[k].id = id}) <= Cardinality(Places(nodes, id))
    BY <1>1, <2>1, PlacesFinite, FS_Subset
  <2>3. Copies(nodes, id) = Cardinality(Places(nodes, id))
    BY DEF Copies, Places
  <2> QED
    BY <1>8, <2>2, <2>3
<1>15. ASSUME NEW k \in DOMAIN nodes', nodes'[k].sub # NoSub
       PROVE  \E j \in DOMAIN nodes : nodes[j].sub = nodes'[k].sub
  <2>1. f[k] \in DOMAIN nodes /\ f[k] # i
    BY <1>3, <1>5, <1>6, <1>11, <1>15
  <2>2. nodes[f[k]] = nodes'[k]
    BY <1>6, <1>11, <2>1
  <2> QED
    BY <2>1, <2>2
<1> QED
  BY <1>8, <1>9, <1>12, <1>13, <1>14, <1>15

\* An edit leaves one node with the new id, which is the user's, and every
\* node with another id, however many duplicates there were.
THEOREM EditLeavesOne == Spec => EditUnique
<1>1. TypeOK => \A old \in Ids, p \in Parsed : ReplaceNode(old, p) =>
        /\ Copies(nodes', p.id) = 1
        /\ Found(nodes', p.id).sub = NoSub
        /\ \A id \in Ids \ {old, p.id} : Copies(nodes', id) = Copies(nodes, id)
  BY Edited
<1> QED
  BY <1>1, TypeCorrect, PTL DEF EditUnique

\* The other ways in and out of the list leave no more of any node than one,
\* or than there were.
LEMMA NoMore ==
  ASSUME TypeOK, [Next]_vars,
         ~(\E r \in Reqs, list \in Lists : ReplaceSubNodes(r, list)), NEW id \in Ids
  PROVE  Copies(nodes', id) <= 1 \/ Copies(nodes', id) <= Copies(nodes, id)
<1>1. nodes \in Seq(Node) /\ Copies(nodes, id) \in Nat
  BY PlacesFinite DEF TypeOK
<1>2. ASSUME NEW list \in Lists, AddNodes(list)
      PROVE  Copies(nodes', id) <= 1 \/ Copies(nodes', id) <= Copies(nodes, id)
  BY <1>1, <1>2, ListsType, AddNodesLoop DEF AddNodes, Added
<1>3. ASSUME NEW n \in Ids, DeleteNode(n) PROVE Copies(nodes', id) <= Copies(nodes, id)
  <2> DEFINE i == FirstAt(nodes, n)
             t == RemoveAt(nodes, i)
             I == DOMAIN nodes \ {i}
  <2>1. i \in DOMAIN nodes /\ nodes' = t
    BY <1>1, <1>3, FirstAtIs DEF DeleteNode
  <2>2. t \in Seq(Node) /\ Picks(t, nodes, I)
    BY <1>1, <2>1, RemoveAtType
  <2>3. I \in SUBSET DOMAIN nodes /\ I \subseteq Int
    BY <1>1
  <2>4. t = Picked(nodes, I)
    <3>1. Picked(nodes, I) \in Seq(Node) /\ Picks(Picked(nodes, I), nodes, I)
      BY <1>1, <2>3, PickedPicks
    <3> HIDE DEF t, I
    <3> QED
      BY <2>2, <2>3, <3>1, PicksUnique
  <2> QED
    BY <1>1, <2>1, <2>3, <2>4, CopiesFewer
<1>4. ASSUME NEW old \in Ids, NEW p \in Parsed, ReplaceNode(old, p)
      PROVE  Copies(nodes', id) <= 1 \/ Copies(nodes', id) <= Copies(nodes, id)
  <2>1. CASE id = p.id
    <3>1. Copies(nodes', p.id) = 1
      BY <1>4, Edited
    <3> QED
      BY <2>1, <3>1
  <2>2. CASE id # p.id
    BY <1>4, <2>2, Edited
  <2> QED
    BY <2>1, <2>2
<1>5. ASSUME NEW n \in Ids, NEW ms, SetLatency(n, ms) PROVE Copies(nodes', id) <= Copies(nodes, id)
  <2> DEFINE i == FirstAt(nodes, n)
  <2>1. i \in DOMAIN nodes
    BY <1>1, <1>5, FirstAtIs DEF SetLatency
  <2>2. nodes' = [nodes EXCEPT ![i].lat = ms]
    BY <1>5 DEF SetLatency
  <2> HIDE DEF i
  <2>3. nodes[i] \in Node
    BY <1>1, <2>1
  <2>4. DOMAIN nodes' = DOMAIN nodes /\ \A k \in DOMAIN nodes : nodes'[k].id = nodes[k].id
    BY <1>1, <2>1, <2>2, <2>3 DEF Node
  <2>5. Places(nodes', id) = Places(nodes, id)
    BY <2>4 DEF Places
  <2>6. Copies(nodes', id) = Copies(nodes, id)
    BY <2>5 DEF Copies, Places
  <2> QED
    BY <1>1, <2>6
<1>6. ASSUME NEW s \in Subs, DeleteSub(s) PROVE Copies(nodes', id) <= Copies(nodes, id)
  BY <1>1, <1>6, CopiesFewer DEF DeleteSub, Others
<1>7. ASSUME nodes' = nodes PROVE Copies(nodes', id) <= Copies(nodes, id)
  BY <1>1, <1>7
<1>8. ASSUME NEW r \in Reqs, NEW list, FetchFail(r) \/ StartUpdate(r, list) PROVE nodes' = nodes
  BY <1>8 DEF FetchFail, StartUpdate
<1>9. ASSUME NEW r \in Reqs, NEW s \in Subs, AddSub(r, s) PROVE nodes' = nodes
  BY <1>9 DEF AddSub
<1>10. CASE UNCHANGED vars
  BY <1>7, <1>10 DEF vars
<1>11. CASE \E r \in Reqs : Request(r)
  BY <1>2, <1>3, <1>4, <1>5, <1>6, <1>11 DEF Request
<1>12. CASE Next /\ ~(\E r \in Reqs : Request(r))
  BY <1>7, <1>8, <1>9, <1>12 DEF Next
<1> QED
  BY <1>10, <1>11, <1>12

\* Of all requests only the refresh of a subscription puts a second node with
\* an id into the list.
THEOREM Deduplicated == Spec => OnlyRefreshRepeats
<1>1. ASSUME TypeOK, [Next]_vars, \A s \in Subs : ~Refreshed(s), NEW id \in Ids
      PROVE  Copies(nodes', id) <= 1 \/ Copies(nodes', id) <= Copies(nodes, id)
  <2>1. ASSUME NEW r \in Reqs, NEW list \in Lists, ReplaceSubNodes(r, list) PROVE FALSE
    <3>1. NextDownload(r)
      BY <2>1 DEF ReplaceSubNodes
    <3>2. Current(r) \in Subs /\ fetch'[r] = Tail(fetch[r]) /\ ~Idle(r)
      BY <1>1, <3>1, Downloaded DEF NextDownload
    <3> QED
      BY <1>1, <3>2 DEF Refreshed
  <2> QED
    BY <1>1, <2>1, NoMore
<1>2. TypeOK /\ [Next]_vars =>
        ((\A s \in Subs : ~Refreshed(s)) =>
           \A id \in Ids : Copies(nodes', id) <= 1 \/ Copies(nodes', id) <= Copies(nodes, id))
  BY <1>1
<1> QED
  BY <1>2, TypeCorrect, PTL DEF Spec, OnlyRefreshRepeats

-----------------------------------------------------------------------------
(* Refreshes *)

LEMMA TailDiffers ==
  ASSUME NEW S, NEW list \in Seq(S), list # <<>>
  PROVE  Tail(list) # list
<1>1. Len(Tail(list)) = Len(list) - 1 /\ Len(list) \in Nat
  BY HeadTailProperties
<1>2. \A n \in Nat : n - 1 # n
  OBVIOUS
<1> QED
  BY <1>1, <1>2

\* A subscription is refreshed by the end of its download and by no other step.
LEMMA RefreshStep ==
  ASSUME TypeOK, [Next]_vars, NEW s \in Subs, Refreshed(s)
  PROVE  \/ nodes' = nodes
         \/ \E r \in Reqs, list \in Lists : Current(r) = s /\ ReplaceSubNodes(r, list)
<1>1. PICK r \in Reqs : ~Idle(r) /\ Current(r) = s /\ fetch'[r] = Tail(fetch[r])
  BY DEF Refreshed
<1>2. fetch'[r] # fetch[r]
  <2>1. fetch[r] \in Seq(Subs) /\ fetch[r] # <<>>
    BY <1>1 DEF Idle, TypeOK
  <2>2. Tail(fetch[r]) # fetch[r]
    BY <2>1, TailDiffers
  <2> QED
    BY <1>1, <2>2
<1>3. ASSUME NEW q \in Reqs, NEW list \in Lists, ReplaceSubNodes(q, list) PROVE Current(q) = s
  <2>1. q = r
    BY <1>2, <1>3, Downloaded DEF ReplaceSubNodes
  <2> QED
    BY <1>1, <2>1
<1>4. ASSUME NEW q \in Reqs, Request(q) PROVE FALSE
  BY <1>2, <1>4 DEF Request, AddNodes, DeleteNode, ReplaceNode, SetLatency, DeleteSub
<1>5. ASSUME NEW q \in Reqs, NEW t \in Subs, AddSub(q, t) PROVE nodes' = nodes
  BY <1>5 DEF AddSub
<1>6. ASSUME NEW q \in Reqs, NEW list, FetchFail(q) \/ StartUpdate(q, list) PROVE nodes' = nodes
  BY <1>6 DEF FetchFail, StartUpdate
<1>7. CASE UNCHANGED vars
  BY <1>7 DEF vars
<1>8. CASE Next
  BY <1>3, <1>4, <1>5, <1>6, <1>8 DEF Next
<1> QED
  BY <1>7, <1>8

\* The list after a refresh: the nodes of others in their order, then those
\* the subscription brought.
LEMMA Refresh ==
  ASSUME TypeOK, NEW r \in Reqs, NEW list \in Lists, ReplaceSubNodes(r, list)
  PROVE  LET s == Current(r)
             t == Others(s)
         IN  /\ s \in Subs /\ list \in Seq(Parsed) /\ t \in Seq(Node) /\ nodes' \in Seq(Node)
             /\ Picks(t, nodes, {i \in DOMAIN nodes : nodes[i].sub # s})
             /\ \A k \in 1..Len(t) : k \in DOMAIN nodes' /\ nodes'[k] = t[k]
             /\ \A k \in DOMAIN nodes' : k \in 1..Len(t) \/
                  \E j \in DOMAIN list : nodes'[k] = Entry(list[j], s, Measured(s, list[j].id))
<1> DEFINE s == Current(r)
           t == Others(s)
           u == Brought(s, list)
<1>1. s \in Subs /\ list \in Seq(Parsed) /\ nodes \in Seq(Node)
  BY Downloaded, ListsType DEF ReplaceSubNodes, TypeOK
<1>2. t \in Seq(Node) /\ Picks(t, nodes, {i \in DOMAIN nodes : nodes[i].sub # s})
  BY <1>1, OthersIs
<1>3. /\ u \in Seq(Node) /\ Len(u) = Len(list)
      /\ \A j \in DOMAIN list : u[j] = Entry(list[j], s, Measured(s, list[j].id))
  BY <1>1, BroughtType
<1>4. nodes' = t \o u
  BY DEF ReplaceSubNodes, Brought
<1> HIDE DEF t, u
<1>5. /\ nodes' \in Seq(Node) /\ Len(nodes') = Len(t) + Len(u)
      /\ \A k \in 1..(Len(t) + Len(u)) : nodes'[k] = IF k <= Len(t) THEN t[k] ELSE u[k - Len(t)]
  <2>1. /\ t \o u \in Seq(Node) /\ Len(t \o u) = Len(t) + Len(u)
        /\ \A k \in 1..(Len(t) + Len(u)) : (t \o u)[k] = IF k <= Len(t) THEN t[k] ELSE u[k - Len(t)]
    BY <1>2, <1>3, ConcatProperties
  <2> QED
    BY <1>4, <2>1
<1>6. Len(t) \in Nat /\ Len(u) \in Nat /\ DOMAIN list = 1..Len(u)
  BY <1>1, <1>2, <1>3
<1>7. \A k \in 1..Len(t) : k \in DOMAIN nodes' /\ nodes'[k] = t[k]
  BY <1>5, <1>6
<1>8. ASSUME NEW k \in DOMAIN nodes', k \notin 1..Len(t)
      PROVE  \E j \in DOMAIN list : nodes'[k] = Entry(list[j], s, Measured(s, list[j].id))
  <2>1. k - Len(t) \in DOMAIN list /\ nodes'[k] = u[k - Len(t)]
    BY <1>5, <1>6, <1>8
  <2> QED
    BY <1>3, <2>1
<1>9. \A k \in DOMAIN nodes' : k \in 1..Len(t) \/
        \E j \in DOMAIN list : nodes'[k] = Entry(list[j], s, Measured(s, list[j].id))
  BY <1>8
<1> QED
  BY <1>1, <1>2, <1>5, <1>7, <1>9 DEF t

\* A node of the user that is found under its id is found unchanged after any
\* refresh, even of a subscription that lists the same node.
THEOREM EditsStick == Spec => EditSticks
<1>1. ASSUME TypeOK, [Next]_vars, NEW s \in Subs, Refreshed(s),
             NEW id \in Ids, FirstAt(nodes, id) # 0, Found(nodes, id).sub = NoSub
      PROVE  FirstAt(nodes', id) # 0 /\ Found(nodes', id) = Found(nodes, id)
  <2> DEFINE i == FirstAt(nodes, id)
             t == Others(s)
             new == nodes'
             f == FirstAt(new, id)
  <2>1. CASE new = nodes
    BY <1>1, <2>1
  <2>2. CASE \E r \in Reqs, list \in Lists : Current(r) = s /\ ReplaceSubNodes(r, list)
    <3>1. /\ i \in DOMAIN nodes /\ nodes[i].id = id /\ nodes[i].sub = NoSub
          /\ \A k \in DOMAIN nodes : k < i => nodes[k].id # id
      BY <1>1, FirstAtIs DEF TypeOK, Found
    <3>2. /\ new \in Seq(Node) /\ t \in Seq(Node)
          /\ Picks(t, nodes, {k \in DOMAIN nodes : nodes[k].sub # s})
          /\ \A k \in 1..Len(t) : k \in DOMAIN new /\ new[k] = t[k]
      BY <1>1, <2>2, Refresh
    <3> HIDE DEF i, t, new
    <3>3. PICK e : /\ Enumerates(e, Len(t), {k \in DOMAIN nodes : nodes[k].sub # s})
                   /\ \A k \in 1..Len(t) : t[k] = nodes[e[k]]
      BY <3>2 DEF Picks
    <3>4. i \in {k \in DOMAIN nodes : nodes[k].sub # s}
      BY <3>1, SubsAssumption
    <3>5. PICK k \in 1..Len(t) : e[k] = i
      BY <3>3, <3>4 DEF Enumerates
    <3>6. k \in DOMAIN new /\ new[k] = nodes[i] /\ k \in Nat
      BY <3>2, <3>3, <3>5
    <3>7. ASSUME NEW j \in DOMAIN new, j < k PROVE new[j].id # id
      <4>1. j \in 1..Len(t)
        BY <3>2, <3>5, <3>7
      <4>2. e[j] \in DOMAIN nodes /\ e[j] < i
        BY <3>3, <3>5, <3>7, <4>1 DEF Enumerates
      <4>3. nodes[e[j]].id # id
        BY <3>1, <4>2
      <4> QED
        BY <3>2, <3>3, <4>1, <4>3
    <3>8. /\ f \in DOMAIN new /\ f # 0 /\ new[f].id = id
          /\ \A j \in DOMAIN new : j < f => new[j].id # id
      BY <3>1, <3>2, <3>6, FirstAtIs
    <3> HIDE DEF f
    <3>9. f = k
      <4>1. f \in Nat /\ ~(f < k) /\ ~(k < f)
        BY <3>1, <3>2, <3>6, <3>7, <3>8
      <4> QED
        BY <3>6, <4>1
    <3> QED
      BY <3>6, <3>8, <3>9 DEF Found, i, f, new
  <2> QED
    BY <1>1, <2>1, <2>2, RefreshStep
<1>2. TypeOK /\ [Next]_vars =>
        \A s \in Subs : Refreshed(s) =>
          \A id \in Ids : FirstAt(nodes, id) # 0 /\ Found(nodes, id).sub = NoSub =>
            FirstAt(nodes', id) # 0 /\ Found(nodes', id) = Found(nodes, id)
  BY <1>1
<1> QED
  BY <1>2, TypeCorrect, PTL DEF Spec, EditSticks

\* A refresh keeps the latency of every node the subscription had once.
THEOREM LatenciesKept == Spec => LatencyKept
<1>1. ASSUME TypeOK, [Next]_vars, NEW s \in Subs, Refreshed(s),
             NEW i \in DOMAIN nodes, NEW j \in DOMAIN nodes',
             nodes[i].sub = s, nodes'[j].sub = s, nodes[i].id = nodes'[j].id
      PROVE  \/ nodes'[j].lat = nodes[i].lat
             \/ \E k \in DOMAIN nodes \ {i} : nodes[k].sub = s /\ nodes[k].id = nodes[i].id
  <2>1. CASE nodes' = nodes
    BY <1>1, <2>1
  <2>2. ASSUME NEW r \in Reqs, NEW list \in Lists, Current(r) = s, ReplaceSubNodes(r, list)
        PROVE  \/ nodes'[j].lat = nodes[i].lat
               \/ \E k \in DOMAIN nodes \ {i} : nodes[k].sub = s /\ nodes[k].id = nodes[i].id
    <3> DEFINE t == Others(s)
               I == {k \in DOMAIN nodes : nodes[k].sub # s}
    <3>1. /\ Picks(t, nodes, I)
          /\ \A k \in 1..Len(t) : k \in DOMAIN nodes' /\ nodes'[k] = t[k]
          /\ j \in 1..Len(t) \/
               \E n \in DOMAIN list : nodes'[j] = Entry(list[n], s, Measured(s, list[n].id))
      <4>1. /\ Picks(Others(Current(r)), nodes, {k \in DOMAIN nodes : nodes[k].sub # Current(r)})
            /\ \A k \in 1..Len(Others(Current(r))) :
                 k \in DOMAIN nodes' /\ nodes'[k] = Others(Current(r))[k]
            /\ \A m \in DOMAIN nodes' : m \in 1..Len(Others(Current(r))) \/
                 \E n \in DOMAIN list :
                   nodes'[m] = Entry(list[n], Current(r), Measured(Current(r), list[n].id))
        BY <1>1, <2>2, Refresh
      <4> QED
        BY <1>1, <2>2, <4>1
    <3>2. j \notin 1..Len(t)
      <4> SUFFICES ASSUME j \in 1..Len(t) PROVE FALSE
        OBVIOUS
      <4>1. \E k \in I : t[j] = nodes[k]
        <5> HIDE DEF I, t
        <5> QED
          BY <3>1 DEF Picks, Enumerates
      <4> QED
        BY <1>1, <3>1, <4>1
    <3>3. PICK n \in DOMAIN list : nodes'[j] = Entry(list[n], s, Measured(s, list[n].id))
      BY <3>1, <3>2
    <3>4. nodes'[j].lat = Measured(s, nodes[i].id)
      BY <1>1, <3>3 DEF Entry
    <3>5. PICK k \in DOMAIN nodes :
            nodes[k].sub = s /\ nodes[k].id = nodes[i].id /\ Measured(s, nodes[i].id) = nodes[k].lat
      BY <1>1, MeasuredIs DEF TypeOK
    <3> QED
      BY <3>4, <3>5
  <2> QED
    BY <1>1, <2>1, <2>2, RefreshStep
<1>2. TypeOK /\ [Next]_vars =>
        \A s \in Subs : Refreshed(s) =>
          \A i \in DOMAIN nodes, j \in DOMAIN nodes' :
            nodes[i].sub = s /\ nodes'[j].sub = s /\ nodes[i].id = nodes'[j].id
              => \/ nodes'[j].lat = nodes[i].lat
                 \/ \E k \in DOMAIN nodes \ {i} : nodes[k].sub = s /\ nodes[k].id = nodes[i].id
  BY <1>1
<1> QED
  BY <1>2, TypeCorrect, PTL DEF Spec, LatencyKept

-----------------------------------------------------------------------------
(* Nodes without a subscription *)

Has(list, s) == \E i \in DOMAIN list : list[i].sub = s

\* Entries that were picked were there.
LEMMA PickedHas ==
  ASSUME NEW t, NEW list, NEW I \in SUBSET DOMAIN list, NEW s, Picks(t, list, I),
         NEW k \in 1..Len(t)
  PROVE  \E i \in I : t[k] = list[i]
  BY DEF Picks, Enumerates

\* Only a refresh brings nodes of a subscription that had none.
LEMMA BroughtByRefresh ==
  ASSUME TypeOK, [Next]_vars, NEW s \in Subs, Has(nodes', s), ~Has(nodes, s)
  PROVE  \E r \in Reqs, list \in Lists : Current(r) = s /\ ReplaceSubNodes(r, list)
<1> SUFFICES ASSUME ~(\E r \in Reqs, list \in Lists : Current(r) = s /\ ReplaceSubNodes(r, list))
             PROVE  FALSE
  OBVIOUS
<1>1. nodes \in Seq(Node) /\ s # NoSub
  BY SubsAssumption DEF TypeOK
<1>2. PICK k \in DOMAIN nodes' : nodes'[k].sub = s
  BY DEF Has
<1>3. \A i \in DOMAIN nodes : nodes'[k] # nodes[i]
  BY <1>2 DEF Has
<1>4. ASSUME NEW list \in Lists, AddNodes(list) PROVE FALSE
  BY <1>1, <1>2, <1>3, <1>4, ListsType, AddNodesLoop DEF AddNodes, Added
<1>5. ASSUME NEW t \in Seq(Node), NEW I \in SUBSET DOMAIN nodes, nodes' = t, Picks(t, nodes, I)
      PROVE  FALSE
  BY <1>2, <1>3, <1>5, PickedHas
<1>6. ASSUME NEW id \in Ids, DeleteNode(id) PROVE FALSE
  <2>1. FirstAt(nodes, id) \in DOMAIN nodes /\ nodes' = RemoveAt(nodes, FirstAt(nodes, id))
    BY <1>1, <1>6, FirstAtIs DEF DeleteNode
  <2> QED
    BY <1>1, <1>5, <2>1, RemoveAtType
<1>7. ASSUME NEW old \in Ids, NEW p \in Parsed, ReplaceNode(old, p) PROVE FALSE
  <2>1. \E j \in DOMAIN nodes : nodes[j].sub = s
    BY <1>1, <1>2, <1>7, Edited
  <2> QED
    BY <2>1 DEF Has
<1>8. ASSUME NEW id \in Ids, NEW ms, SetLatency(id, ms) PROVE FALSE
  <2> DEFINE i == FirstAt(nodes, id)
  <2>1. i \in DOMAIN nodes /\ nodes' = [nodes EXCEPT ![i].lat = ms]
    BY <1>1, <1>8, FirstAtIs DEF SetLatency
  <2> HIDE DEF i
  <2>2. nodes[i] \in Node
    BY <1>1, <2>1
  <2>3. DOMAIN nodes' = DOMAIN nodes /\ \A j \in DOMAIN nodes : nodes'[j].sub = nodes[j].sub
    BY <1>1, <2>1, <2>2 DEF Node
  <2> QED
    BY <1>2, <2>3 DEF Has
<1>9. ASSUME NEW t \in Subs, DeleteSub(t) PROVE FALSE
  <2>1. nodes' = Others(t)
    BY <1>9 DEF DeleteSub
  <2>2. Others(t) \in Seq(Node) /\ Picks(Others(t), nodes, {i \in DOMAIN nodes : nodes[i].sub # t})
    BY <1>1, OthersIs
  <2> QED
    BY <1>5, <2>1, <2>2
<1>10. ASSUME NEW r \in Reqs, NEW list \in Lists, ReplaceSubNodes(r, list) PROVE FALSE
  <2> DEFINE c == Current(r)
             t == Others(c)
             I == {i \in DOMAIN nodes : nodes[i].sub # c}
  <2>1. /\ c # s /\ Picks(t, nodes, I)
        /\ \A m \in 1..Len(t) : nodes'[m] = t[m]
        /\ \A m \in DOMAIN nodes' : m \in 1..Len(t) \/
             \E j \in DOMAIN list : nodes'[m] = Entry(list[j], c, Measured(c, list[j].id))
    BY <1>10, Refresh
  <2>2. k \in 1..Len(t)
    BY <1>2, <2>1 DEF Entry
  <2>3. I \in SUBSET DOMAIN nodes
    OBVIOUS
  <2>4. \E i \in I : t[k] = nodes[i]
    <3> HIDE DEF I, t
    <3> QED
      BY <2>1, <2>2, <2>3, PickedHas
  <2> QED
    BY <1>3, <2>1, <2>2, <2>4
<1>11. nodes' # nodes
  BY <1>2, <1>3
<1>12. ASSUME NEW r \in Reqs, NEW list, FetchFail(r) \/ StartUpdate(r, list) PROVE FALSE
  BY <1>11, <1>12 DEF FetchFail, StartUpdate
<1>13. ASSUME NEW r \in Reqs, NEW t \in Subs, AddSub(r, t) PROVE FALSE
  BY <1>11, <1>13 DEF AddSub
<1>14. ASSUME NEW r \in Reqs, Request(r) PROVE FALSE
  BY <1>4, <1>6, <1>7, <1>8, <1>9, <1>14 DEF Request
<1> QED
  BY <1>10, <1>11, <1>12, <1>13, <1>14 DEF Next, vars

\* The place of a subscription in the list.
LEMMA UnlistIs ==
  ASSUME TypeOK, NEW s \in Subs, Unlist(s)
  PROVE  \E i \in DOMAIN subs : subs[i] = s /\ subs' = RemoveAt(subs, i)
<1> DEFINE T == {i \in 1..Len(subs) : subs[i] = s}
<1>1. T # {} /\ T \subseteq Nat
  BY DEF Unlist, Listed, Contains
<1>2. Min(T) \in T
  <2> HIDE DEF T
  <2>1. \E x \in T : \A y \in T : x <= y
    BY <1>1, Least
  <2> QED
    BY <2>1 DEF Min
<1>3. SelectInSeq(subs, LAMBDA t : t = s) = Min(T)
  BY <1>1 DEF SelectInSeq
<1>4. Min(T) \in DOMAIN subs /\ subs[Min(T)] = s
  BY <1>2 DEF TypeOK
<1> QED
  BY <1>3, <1>4 DEF Unlist

\* Only its deletion takes a subscription out of the list.
LEMMA UnlistedByDelete ==
  ASSUME TypeOK, [Next]_vars, NEW s \in Subs, Listed(s), ~Listed(s)'
  PROVE  DeleteSub(s)
<1>1. subs \in Seq(Subs)
  BY DEF TypeOK
<1>2. PICK i \in 1..Len(subs) : subs[i] = s
  BY DEF Listed, Contains
<1>3. ASSUME NEW t \in Subs, DeleteSub(t) PROVE t = s
  <2> SUFFICES ASSUME t # s PROVE FALSE
    OBVIOUS
  <2>1. PICK j \in DOMAIN subs : subs[j] = t /\ subs' = RemoveAt(subs, j)
    BY <1>3, UnlistIs DEF DeleteSub
  <2> DEFINE u == RemoveAt(subs, j)
             I == DOMAIN subs \ {j}
  <2>2. u \in Seq(Subs) /\ Picks(u, subs, I)
    BY <1>1, RemoveAtType
  <2>3. i \in I
    BY <1>1, <1>2, <2>1
  <2> HIDE DEF u, I
  <2>4. \E k \in 1..Len(u) : u[k] = s
    BY <1>2, <2>2, <2>3 DEF Picks, Enumerates
  <2> QED
    BY <2>1, <2>4 DEF Listed, Contains, u
<1>4. ASSUME NEW r \in Reqs, NEW t \in Subs, AddSub(r, t) PROVE Listed(s)'
  <2>1. CASE subs' = subs
    BY <1>2, <2>1 DEF Listed, Contains
  <2>2. CASE subs' = Append(subs, t)
    <3>1. i \in 1..Len(Append(subs, t)) /\ Append(subs, t)[i] = s
      BY <1>1, <1>2, AppendProperties
    <3> QED
      BY <2>2, <3>1 DEF Listed, Contains
  <2> QED
    BY <1>4, <2>1, <2>2 DEF AddSub
<1>5. subs' # subs
  BY DEF Listed
<1> QED
  BY <1>3, <1>4, <1>5 DEF Next, Request, vars, AddNodes, DeleteNode, ReplaceNode, SetLatency,
     StartUpdate, ReplaceSubNodes, FetchFail

\* Nodes of a subscription that is not in the list come, while the daemon runs,
\* from a download that was under way when it was deleted, and from nothing
\* else.
THEOREM LeftByDownload == Spec => NoLeftovers
<1>1. ASSUME TypeOK, [Next]_vars, NEW s \in Subs, Leftovers(s)', ~Leftovers(s)
      PROVE  Refreshed(s) /\ ~Listed(s)
  <2>1. Has(nodes', s) /\ ~Listed(s)' /\ (Listed(s) \/ ~Has(nodes, s))
    BY <1>1 DEF Leftovers, Has
  <2>2. ~DeleteSub(s)
    <3> SUFFICES ASSUME DeleteSub(s) PROVE FALSE
      OBVIOUS
    <3> DEFINE t == Others(s)
               I == {i \in DOMAIN nodes : nodes[i].sub # s}
    <3>1. nodes' = t /\ t \in Seq(Node) /\ Picks(t, nodes, I)
      BY <1>1, OthersIs DEF DeleteSub, TypeOK
    <3>2. PICK k \in 1..Len(t) : t[k].sub = s
      BY <2>1, <3>1 DEF Has
    <3>3. I \in SUBSET DOMAIN nodes
      OBVIOUS
    <3>4. PICK i \in I : t[k] = nodes[i]
      <4> HIDE DEF I, t
      <4> QED
        BY <3>1, <3>2, <3>3, PickedHas
    <3> QED
      BY <3>2, <3>4
  <2>3. ~Listed(s)
    BY <1>1, <2>1, <2>2, UnlistedByDelete
  <2>4. PICK r \in Reqs, list \in Lists : Current(r) = s /\ ReplaceSubNodes(r, list)
    BY <1>1, <2>1, <2>3, BroughtByRefresh
  <2>5. NextDownload(r)
    BY <2>4 DEF ReplaceSubNodes
  <2> QED
    BY <1>1, <2>3, <2>4, <2>5, Downloaded DEF Refreshed, NextDownload
<1>2. TypeOK /\ [Next]_vars =>
        \A s \in Subs : Leftovers(s)' /\ ~Leftovers(s) => Refreshed(s) /\ ~Listed(s)
  BY <1>1
<1> QED
  BY <1>2, TypeCorrect, PTL DEF Spec, NoLeftovers
=============================================================================
