----------------------------- MODULE BootProofs -----------------------------
(***************************************************************************)
(* Proofs about Boot, for all sets of nodes, subscriptions and .conf       *)
(* files, every directory an older version may have left, and any number   *)
(* of restarts and of operations left half done.                           *)
(***************************************************************************)
EXTENDS Boot, TLAPS

-----------------------------------------------------------------------------
(* Types *)

\* What the helpers return.
LEMMA ReadState ==
  ASSUME NEW f \in State \cup {Missing} PROVE Read(f, EmptyState) \in State
BY DEF Read, EmptyState, State

LEMMA HealType == ASSUME NEW id \in Ids PROVE Heal(id) \in Ids
BY HealedAssumption DEF Heal

LEMMA HealAllType ==
  ASSUME NEW nodes \in SUBSET Node PROVE HealAll(nodes) \in SUBSET Node
<1>1. ASSUME NEW n \in nodes PROVE [n EXCEPT !.id = Heal(n.id)] \in Node
  <2>1. n.id \in Ids
    BY DEF Node
  <2> QED BY <2>1, HealType DEF Node
<1> QED BY <1>1 DEF HealAll

\* What a save does to its file, where it succeeds and where it fails, and to
\* the others.
Leaves(f) == disk'[f] = disk[f] /\ (f \in stale' <=> f \in stale)

Saves(f, value) == disk'[f] \in {disk[f], value} /\ (f \notin stale' => disk'[f] = value)

SameDirs == disk'.confs = disk.confs /\ disk'.awgs = disk.awgs

LEMMA StateSaved ==
  ASSUME TypeOK, NEW state \in State, Save("state", state)
  PROVE  /\ disk' \in Dir /\ stale' \in SUBSET Moves
         /\ Saves("state", state) /\ Leaves("nodes") /\ Leaves("subs") /\ SameDirs
<1>1. CASE disk' = [disk EXCEPT !["state"] = state] /\ stale' = stale \ {"state"}
  BY <1>1 DEF TypeOK, Dir, Moves, Saves, Leaves, SameDirs
<1>2. CASE disk' = disk /\ stale' = stale \cup {"state"}
  BY <1>2 DEF TypeOK, Dir, Moves, Saves, Leaves, SameDirs
<1> QED BY <1>1, <1>2 DEF Save

LEMMA NodesSaved ==
  ASSUME TypeOK, NEW nodes \in SUBSET Node, Save("nodes", nodes)
  PROVE  /\ disk' \in Dir /\ stale' \in SUBSET Moves
         /\ Saves("nodes", nodes) /\ Leaves("state") /\ Leaves("subs") /\ SameDirs
<1>1. CASE disk' = [disk EXCEPT !["nodes"] = nodes] /\ stale' = stale \ {"nodes"}
  BY <1>1 DEF TypeOK, Dir, Moves, Saves, Leaves, SameDirs
<1>2. CASE disk' = disk /\ stale' = stale \cup {"nodes"}
  BY <1>2 DEF TypeOK, Dir, Moves, Saves, Leaves, SameDirs
<1> QED BY <1>1, <1>2 DEF Save

LEMMA SubsSaved ==
  ASSUME TypeOK, NEW subs \in SUBSET Subs, Save("subs", subs)
  PROVE  /\ disk' \in Dir /\ stale' \in SUBSET Moves
         /\ Saves("subs", subs) /\ Leaves("state") /\ Leaves("nodes") /\ SameDirs
<1>1. CASE disk' = [disk EXCEPT !["subs"] = subs] /\ stale' = stale \ {"subs"}
  BY <1>1 DEF TypeOK, Dir, Moves, Saves, Leaves, SameDirs
<1>2. CASE disk' = disk /\ stale' = stale \cup {"subs"}
  BY <1>2 DEF TypeOK, Dir, Moves, Saves, Leaves, SameDirs
<1> QED BY <1>1, <1>2 DEF Save

\* Every step of a request on the nodes.
LEMMA SetNodesType ==
  ASSUME TypeOK, NEW nodes \in SUBSET Node, NEW node \in Ids \cup {None}, NEW half \in Halves \cup {"up"},
         SetNodes(nodes, node, half)
  PROVE  /\ mem' \in [state : State, nodes : SUBSET Node, subs : SUBSET Subs]
         /\ disk' \in Dir /\ stale' \in SUBSET Moves
         /\ pc' \in Places /\ legacy' = legacy /\ todo' = todo /\ served' = served
<1>1. mem' \in [state : State, nodes : SUBSET Node, subs : SUBSET Subs]
  BY DEF SetNodes, TypeOK, State
<1>2. disk' \in Dir /\ stale' \in SUBSET Moves
  BY NodesSaved DEF SetNodes
<1> QED BY <1>1, <1>2 DEF SetNodes, TypeOK, Places

LEMMA TypeInit == Init => TypeOK
<1> SUFFICES ASSUME Init PROVE TypeOK OBVIOUS
<1>1. EmptyDir \in Dir
  BY DEF EmptyDir, Dir
<1>2. legacy \in Dir
  BY <1>1, LegaciesAssumption DEF Init
<1>3. EmptyState \in State
  BY DEF EmptyState, State
<1> QED BY <1>1, <1>2, <1>3 DEF Init, TypeOK, Places

LEMMA TypeNext == TypeOK /\ [Next]_vars => TypeOK'
<1> SUFFICES ASSUME TypeOK, [Next]_vars PROVE TypeOK' OBVIOUS
<1> USE DEF TypeOK
<1>1. CASE Start
  BY <1>1 DEF Start, Places, Moves, Dir
<1>2. CASE CopyFile
  <2>1. pc \in {"state", "nodes", "subs"}
    BY <1>2 DEF CopyFile, Moves
  <2>2. disk' \in Dir
    <3>1. [disk EXCEPT ![pc] = legacy[pc]] \in Dir
      <4>1. CASE pc = "state" BY <4>1 DEF Dir
      <4>2. CASE pc = "nodes" BY <4>2 DEF Dir
      <4>3. CASE pc = "subs" BY <4>3 DEF Dir
      <4> QED BY <2>1, <4>1, <4>2, <4>3
    <3> QED BY <1>2, <3>1 DEF CopyFile, Copy
  <2>3. pc' \in Places
    BY <1>2, <2>1 DEF CopyFile, NextMove, Places, Moves
  <2>4. cut' \in SUBSET Traces
    BY <1>2 DEF CopyFile, Copy, Traces
  <2> QED BY <1>2, <2>2, <2>3, <2>4 DEF CopyFile
<1>3. ASSUME NEW c \in Confs, CopyConf(c) PROVE TypeOK'
  <2>1. disk' \in Dir
    BY <1>3 DEF CopyConf, Copy, Dir
  <2>2. cut' \in SUBSET Traces
    BY <1>3 DEF CopyConf, Copy, Traces
  <2> QED BY <1>3, <2>1, <2>2 DEF CopyConf
<1>12. ASSUME NEW a \in Awgs, CopyAwg(a) PROVE TypeOK'
  <2>1. disk' \in Dir
    BY <1>12 DEF CopyAwg, Copy, Dir
  <2>2. cut' \in SUBSET Traces
    BY <1>12 DEF CopyAwg, Copy, Traces
  <2> QED BY <1>12, <2>1, <2>2 DEF CopyAwg
<1>4. CASE Load
  <2>1. Read(disk.state, EmptyState) \in State
    BY ReadState DEF Dir
  <2>2. Read(disk.nodes, {}) \in SUBSET Node /\ Read(disk.subs, {}) \in SUBSET Subs
    BY DEF Read, Dir
  <2> QED BY <1>4, <2>1, <2>2 DEF Load, Places
<1>5. CASE HealNodes
  <2>1. HealAll(mem.nodes) \in SUBSET Node
    BY HealAllType
  <2>2. mem.state.node \in Ids \cup {None} /\ mem.state \in State /\ mem.subs \in SUBSET Subs
    BY DEF State
  <2>3. HasNode({n \in mem.nodes : n.id \in DOMAIN Healed}, mem.state.node) => Heal(mem.state.node) \in Ids
    BY HealType DEF HasNode, Node
  <2>4. mem' \in [state : State, nodes : SUBSET Node, subs : SUBSET Subs]
    BY <1>5, <2>1, <2>2, <2>3 DEF HealNodes, State
  <2>5. disk' \in Dir /\ stale' \in SUBSET Moves
    BY <1>5, <2>1, NodesSaved DEF HealNodes
  <2> QED BY <1>5, <2>4, <2>5 DEF HealNodes, Places, Halves
<1>6. CASE Seed
  <2>1. disk' \in Dir /\ mem' \in [state : State, nodes : SUBSET Node, subs : SUBSET Subs]
    BY <1>6, DefaultAssumption DEF Seed, Dir, State
  <2>2. cut' \in SUBSET Traces
    BY <1>6 DEF Seed, Traces
  <2> QED BY <1>6, <2>1, <2>2 DEF Seed, Places, Halves
<1>7. CASE SaveState
  <2>1. disk' \in Dir /\ stale' \in SUBSET Moves
    BY <1>7, StateSaved DEF SaveState
  <2> QED BY <1>7, <2>1 DEF SaveState, Places
<1>8. CASE SaveNodes
  <2>1. disk' \in Dir /\ stale' \in SUBSET Moves
    BY <1>8, NodesSaved DEF SaveNodes
  <2> QED BY <1>8, <2>1 DEF SaveNodes, Places
<1>9. CASE Request
  <2> USE DEF Halves
  <2>1. ASSUME NEW s \in State, SetState(s) PROVE TypeOK'
    <3>1. disk' \in Dir /\ stale' \in SUBSET Moves
      BY <2>1, StateSaved DEF SetState
    <3> QED BY <2>1, <3>1 DEF SetState
  <2>2. ASSUME NEW id \in Ids, SelectNode(id) PROVE TypeOK'
    BY <2>1, <2>2 DEF SelectNode, State
  <2>3. ASSUME NEW id \in Ids, Import(id) PROVE TypeOK'
    <3>1. mem.state.node \in Ids \cup {None}
      BY DEF State
    <3>2. PICK n \in Node : SetNodes((mem.nodes \ {n}) \cup {Own(id)}, mem.state.node, "up")
      BY <2>3 DEF Import, With, Own, Node
    <3>3. (mem.nodes \ {n}) \cup {Own(id)} \in SUBSET Node
      BY DEF Own, Node
    <3>4. UNCHANGED <<late, cut>>
      BY <2>3 DEF Import
    <3> QED BY <3>1, <3>2, <3>3, <3>4, SetNodesType
  <2>4. ASSUME NEW id \in Ids, DeleteNode(id) PROVE TypeOK'
    BY <2>4, SetNodesType DEF DeleteNode, State
  <2>5. ASSUME NEW id \in Ids, NEW new \in Ids, EditNode(id, new) PROVE TypeOK'
    <3>1. (IF mem.state.node = id THEN new ELSE mem.state.node) \in Ids \cup {None}
      BY DEF State
    <3>2. PICK n \in With(id) :
            SetNodes((mem.nodes \ ({n} \cup With(new))) \cup {Own(new)},
                     IF mem.state.node = id THEN new ELSE mem.state.node, "editNode")
      BY <2>5 DEF EditNode
    <3>3. (mem.nodes \ ({n} \cup With(new))) \cup {Own(new)} \in SUBSET Node
      BY DEF Own, Node
    <3>4. UNCHANGED <<late, cut>>
      BY <2>5 DEF EditNode
    <3> QED BY <3>1, <3>2, <3>3, <3>4, SetNodesType
  <2>6. ASSUME NEW s \in Subs, AddSub(s) PROVE TypeOK'
    <3>1. disk' \in Dir /\ stale' \in SUBSET Moves
      BY <2>6, SubsSaved DEF AddSub
    <3> QED BY <2>6, <3>1 DEF AddSub
  <2>7. ASSUME NEW s \in Subs, DeleteSub(s) PROVE TypeOK'
    <3>1. mem' \in [state : State, nodes : SUBSET Node, subs : SUBSET Subs]
      BY <2>7 DEF DeleteSub, Others
    <3>2. disk' \in Dir /\ stale' \in SUBSET Moves
      BY <2>7, SubsSaved DEF DeleteSub
    <3>3. cut' \in SUBSET Traces /\ late' \in SUBSET Subs
      BY <2>7 DEF DeleteSub, Traces
    <3> QED BY <2>7, <3>1, <3>2, <3>3 DEF DeleteSub, Places
  <2>8. ASSUME NEW s \in Subs, NEW ids \in SUBSET Ids, NEW update \in BOOLEAN, Refresh(s, ids, update)
        PROVE  TypeOK'
    <3> DEFINE nodes == Others(s) \cup {[id |-> id, sub |-> s] : id \in ids}
    <3>1. nodes \in SUBSET Node
      BY DEF Others, Node
    <3>2. PICK node \in Ids \cup {None} : SetNodes(nodes, node, "deleteNode")
      BY <2>8 DEF Refresh, State
    <3>3. cut' \in SUBSET Traces /\ late' \in SUBSET Subs
      BY <2>8 DEF Refresh, Traces
    <3> HIDE DEF nodes
    <3> QED BY <3>1, <3>2, <3>3, SetNodesType
  <2>9. ASSUME NEW c \in Confs, SaveConf(c) PROVE TypeOK'
    BY <2>9 DEF SaveConf, Dir
  <2>10. ASSUME NEW c \in Confs, DeleteConf(c) PROVE TypeOK'
    <3>1. disk' \in Dir /\ mem' \in [state : State, nodes : SUBSET Node, subs : SUBSET Subs]
      BY <2>10 DEF DeleteConf, Dir, State
    <3> QED BY <2>10, <3>1 DEF DeleteConf, Places
  <2>11. ASSUME NEW c \in Confs \cup {None}, SelectConf(c) PROVE TypeOK'
    BY <2>1, <2>11 DEF SelectConf, State
  <2>13. CASE UpdateNothing
    <3>1. [mem.state EXCEPT !.node = None] \in State
      BY DEF State
    <3> QED BY <2>1, <2>13, <3>1 DEF UpdateNothing
  <2>12. CASE EditRules
    <3>1. disk' \in Dir /\ mem' \in [state : State, nodes : SUBSET Node, subs : SUBSET Subs]
      BY <2>12, DefaultAssumption DEF EditRules, Dir, State
    <3> QED BY <2>12, <3>1 DEF EditRules, Places
  <2> QED
    BY <1>9, <2>2, <2>3, <2>4, <2>5, <2>6, <2>7, <2>8, <2>9, <2>10, <2>11, <2>12, <2>13 DEF Request
<1>10. CASE Crash
  <2>1. EmptyState \in State
    BY DEF EmptyState, State
  <2>2. cut' \in SUBSET Traces
    BY <1>10 DEF Crash, Traces
  <2> QED BY <1>10, <2>1, <2>2 DEF Crash, Places
<1>11. CASE UNCHANGED vars
  BY <1>11 DEF vars
<1> QED
  BY <1>1, <1>2, <1>3, <1>4, <1>5, <1>6, <1>7, <1>8, <1>9, <1>10, <1>11, <1>12 DEF Next

\* Main and every request keep the files and the store within their types,
\* whatever is left half done.
THEOREM TypeCorrect == Spec => []TypeOK
BY TypeInit, TypeNext, PTL DEF Spec
-----------------------------------------------------------------------------
(***************************************************************************)
(* Memory and disk.  AtRest speaks of the moments between requests; to get *)
(* there the invariant says what is equal while an operation is between    *)
(* its two files: everything but the second one, and but a file whose last *)
(* save failed.                                                            *)
(***************************************************************************)
Serving == {"heal", "seed", "up"} \cup Halves

Synced ==
  /\ pc \in Serving => "subs" \in stale \/ mem.subs = Read(disk.subs, {})
  /\ pc \in Serving \ {"deleteSub"} => "nodes" \in stale \/ mem.nodes = Read(disk.nodes, {})
  /\ pc \in {"heal", "seed", "up", "deleteSub"} => "state" \in stale \/ mem.state = Read(disk.state, EmptyState)

\* What is on disk is there.
LEMMA ReadWritten ==
  /\ \A state \in State : Read(state, EmptyState) = state
  /\ \A nodes \in SUBSET Node : Read(nodes, {}) = nodes
  /\ \A subs \in SUBSET Subs : Read(subs, {}) = subs
BY MissingAssumption DEF Read

\* A list without a broken id is not changed by healing.
LEMMA HealNothing ==
  ASSUME NEW nodes \in SUBSET Node, \A n \in nodes : n.id \notin DOMAIN Healed
  PROVE  HealAll(nodes) = nodes
<1>1. ASSUME NEW n \in nodes PROVE [n EXCEPT !.id = Heal(n.id)] = n
  BY <1>1 DEF Heal, Node
<1> QED BY <1>1 DEF HealAll

\* After a save the file holds what memory does, or is behind it.
LEMMA InStep ==
  ASSUME TypeOK
  PROVE  /\ \A state \in State : Saves("state", state) => "state" \in stale' \/ Read(disk'.state, EmptyState) = state
         /\ \A nodes \in SUBSET Node : Saves("nodes", nodes) => "nodes" \in stale' \/ Read(disk'.nodes, {}) = nodes
         /\ \A subs \in SUBSET Subs : Saves("subs", subs) => "subs" \in stale' \/ Read(disk'.subs, {}) = subs
BY ReadWritten DEF Saves

\* A request on the nodes leaves memory and disk in step.
LEMMA SetNodesSynced ==
  ASSUME TypeOK, Synced, pc = "up",
         NEW nodes \in SUBSET Node, NEW node, NEW half \in {"up", "editNode", "deleteNode"},
         half = "up" => node = mem.state.node,
         SetNodes(nodes, node, half)
  PROVE  Synced'
<1>1. pc' \in {"up", "editNode", "deleteNode"} /\ (pc' = "up" => node = mem.state.node)
  BY DEF SetNodes
<1>2. mem'.subs = mem.subs /\ mem'.nodes = nodes /\ mem'.state = [mem.state EXCEPT !.node = node]
  BY DEF SetNodes, TypeOK
<1>3. Saves("nodes", nodes) /\ Leaves("state") /\ Leaves("subs")
  BY NodesSaved DEF SetNodes
<1>4. pc' = "up" => mem'.state = mem.state
  BY <1>1, <1>2 DEF TypeOK, State
<1>5. "nodes" \in stale' \/ mem'.nodes = Read(disk'.nodes, {})
  BY <1>2, <1>3, InStep
<1> QED
  BY <1>1, <1>2, <1>3, <1>4, <1>5 DEF Synced, Serving, Leaves

LEMMA SyncedNext == TypeOK /\ Synced /\ [Next]_vars => Synced'
<1> SUFFICES ASSUME TypeOK, Synced, [Next]_vars PROVE Synced' OBVIOUS
<1>1. CASE Start
  BY <1>1 DEF Start, Synced, Serving, Halves
<1>2. CASE CopyFile
  BY <1>2 DEF CopyFile, NextMove, Moves, Synced, Serving, Halves
<1>3. ASSUME NEW c \in Confs, CopyConf(c) PROVE Synced'
  BY <1>3 DEF CopyConf, Synced, Serving, Halves
<1>12. ASSUME NEW a \in Awgs, CopyAwg(a) PROVE Synced'
  BY <1>12 DEF CopyAwg, Synced, Serving, Halves
<1>4. CASE Load
  BY <1>4 DEF Load, Synced, Serving, Halves
<1>5. CASE HealNodes
  <2> DEFINE broken == {n \in mem.nodes : n.id \in DOMAIN Healed}
  <2>1. mem'.subs = mem.subs /\ mem'.nodes = HealAll(mem.nodes) /\ pc = "heal" /\ pc' \in {"healed", "seed"}
    BY <1>5 DEF HealNodes, TypeOK
  <2>2. HealAll(mem.nodes) \in SUBSET Node
    BY HealAllType DEF TypeOK
  <2>3. Leaves("subs") /\ Leaves("state") /\ ("nodes" \in stale' \/ mem'.nodes = Read(disk'.nodes, {}))
    <3>1. CASE broken = {}
      <4>1. HealAll(mem.nodes) = mem.nodes
        BY <3>1, HealNothing DEF TypeOK
      <4> QED BY <1>5, <2>1, <3>1, <4>1 DEF HealNodes, Synced, Serving, Halves, Leaves
    <3>2. CASE broken # {}
      <4>1. Save("nodes", HealAll(mem.nodes))
        BY <1>5, <3>2 DEF HealNodes
      <4> QED BY <2>1, <2>2, <4>1, NodesSaved, InStep
    <3> QED BY <3>1, <3>2
  <2>4. pc' = "seed" => mem'.state = mem.state
    <3>1. pc' = "seed" => ~HasNode(broken, mem.state.node)
      BY <1>5 DEF HealNodes
    <3> QED BY <1>5, <3>1 DEF HealNodes, TypeOK, State
  <2> QED BY <2>1, <2>3, <2>4 DEF Synced, Serving, Halves, Leaves
<1>6. CASE Seed
  <2>1. mem'.subs = mem.subs /\ mem'.nodes = mem.nodes /\ stale' = stale /\ pc = "seed"
        /\ disk'.subs = disk.subs /\ disk'.nodes = disk.nodes /\ disk'.state = disk.state
        /\ (pc' = "seeded" \/ (pc' = "up" /\ mem'.state = mem.state))
    BY <1>6 DEF Seed, TypeOK, Dir
  <2> QED BY <2>1 DEF Synced, Serving, Halves
<1>7. CASE SaveState
  <2>1. Saves("state", mem.state) /\ Leaves("nodes") /\ Leaves("subs") /\ mem' = mem
    BY <1>7, StateSaved DEF SaveState, TypeOK
  <2>2. "state" \in stale' \/ mem'.state = Read(disk'.state, EmptyState)
    BY <2>1, InStep DEF TypeOK
  <2>3. pc \in Serving \ {"deleteSub"} /\ pc' \in {"seed", "up"}
    BY <1>7 DEF SaveState, Serving
  <2> QED BY <2>1, <2>2, <2>3 DEF Synced, Serving, Leaves
<1>8. CASE SaveNodes
  <2>1. Saves("nodes", mem.nodes) /\ Leaves("state") /\ Leaves("subs") /\ mem' = mem
    BY <1>8, NodesSaved DEF SaveNodes, TypeOK
  <2>2. "nodes" \in stale' \/ mem'.nodes = Read(disk'.nodes, {})
    BY <2>1, InStep DEF TypeOK
  <2>3. pc = "deleteSub" /\ pc' = "up"
    BY <1>8 DEF SaveNodes
  <2> QED BY <2>1, <2>2, <2>3 DEF Synced, Serving, Halves, Leaves
<1>9. CASE Request
  <2>1. pc = "up" /\ ("state" \in stale \/ mem.state = Read(disk.state, EmptyState))
        /\ ("nodes" \in stale \/ mem.nodes = Read(disk.nodes, {}))
        /\ ("subs" \in stale \/ mem.subs = Read(disk.subs, {}))
    BY <1>9 DEF Request, Synced, Serving, Halves
  <2>2. mem.state \in State /\ mem.nodes \in SUBSET Node /\ mem.subs \in SUBSET Subs
        /\ mem.state.node \in Ids \cup {None}
    BY DEF TypeOK, State
  <2>3. ASSUME NEW s \in State, SetState(s) PROVE Synced'
    <3>1. Saves("state", s) /\ Leaves("nodes") /\ Leaves("subs")
      BY <2>3, StateSaved DEF SetState
    <3>2. mem'.state = s /\ mem'.nodes = mem.nodes /\ mem'.subs = mem.subs /\ pc' = "up"
      BY <2>1, <2>3 DEF SetState, TypeOK
    <3> QED BY <2>1, <3>1, <3>2, InStep DEF Synced, Leaves
  <2>4. ASSUME NEW id \in Ids, SelectNode(id) PROVE Synced'
    BY <2>2, <2>3, <2>4 DEF SelectNode, State
  <2>5. ASSUME NEW id \in Ids, Import(id) PROVE Synced'
    <3>1. PICK n \in Node : SetNodes((mem.nodes \ {n}) \cup {Own(id)}, mem.state.node, "up")
      BY <2>2, <2>5 DEF Import, With, Own, Node
    <3>2. (mem.nodes \ {n}) \cup {Own(id)} \in SUBSET Node
      BY <2>2 DEF Own, Node
    <3> QED BY <2>1, <3>1, <3>2, SetNodesSynced
  <2>6. ASSUME NEW id \in Ids, DeleteNode(id) PROVE Synced'
    <3>1. PICK n \in With(id), node \in Ids \cup {None} : SetNodes(mem.nodes \ {n}, node, "deleteNode")
      BY <2>2, <2>6 DEF DeleteNode
    <3>2. mem.nodes \ {n} \in SUBSET Node
      BY <2>2
    <3> QED BY <2>1, <3>1, <3>2, SetNodesSynced
  <2>7. ASSUME NEW id \in Ids, NEW new \in Ids, EditNode(id, new) PROVE Synced'
    <3>1. PICK n \in With(id), node \in Ids \cup {None} :
            SetNodes((mem.nodes \ ({n} \cup With(new))) \cup {Own(new)}, node, "editNode")
      BY <2>2, <2>7 DEF EditNode
    <3>2. (mem.nodes \ ({n} \cup With(new))) \cup {Own(new)} \in SUBSET Node
      BY <2>2 DEF Own, Node
    <3> QED BY <2>1, <3>1, <3>2, SetNodesSynced
  <2>8. ASSUME NEW s \in Subs, AddSub(s) PROVE Synced'
    <3>1. mem.subs \cup {s} \in SUBSET Subs
      BY <2>2
    <3>2. mem'.subs = mem.subs \cup {s} /\ pc' = "up" /\ mem'.state = mem.state /\ mem'.nodes = mem.nodes
      BY <2>1, <2>8 DEF AddSub, TypeOK
    <3>3. Saves("subs", mem.subs \cup {s}) /\ Leaves("state") /\ Leaves("nodes")
      BY <2>8, <3>1, SubsSaved DEF AddSub
    <3> QED BY <2>1, <3>1, <3>2, <3>3, InStep DEF Synced, Leaves
  <2>9. ASSUME NEW s \in Subs, NEW ids \in SUBSET Ids, NEW update \in BOOLEAN, Refresh(s, ids, update)
        PROVE  Synced'
    <3> DEFINE nodes == Others(s) \cup {[id |-> id, sub |-> s] : id \in ids}
    <3>1. nodes \in SUBSET Node
      BY <2>2 DEF Others, Node
    <3>2. PICK node \in Ids \cup {None} : SetNodes(nodes, node, "deleteNode")
      BY <2>2, <2>9 DEF Refresh
    <3> HIDE DEF nodes
    <3> QED BY <2>1, <3>1, <3>2, SetNodesSynced
  <2>10. ASSUME NEW s \in Subs, DeleteSub(s) PROVE Synced'
    <3>1. mem.subs \ {s} \in SUBSET Subs
      BY <2>2
    <3>2. mem'.subs = mem.subs \ {s} /\ pc' = "deleteSub" /\ mem'.state = mem.state
      BY <2>10 DEF DeleteSub, TypeOK
    <3>3. Saves("subs", mem.subs \ {s}) /\ Leaves("state") /\ Leaves("nodes")
      BY <2>10, <3>1, SubsSaved DEF DeleteSub
    <3> QED BY <2>1, <3>1, <3>2, <3>3, InStep DEF Synced, Leaves
  <2>11. ASSUME NEW c \in Confs, SaveConf(c) PROVE Synced'
    BY <2>1, <2>11 DEF SaveConf, Synced, Serving, TypeOK, Dir
  <2>12. ASSUME NEW c \in Confs, DeleteConf(c) PROVE Synced'
    <3>1. mem'.subs = mem.subs /\ mem'.nodes = mem.nodes /\ disk'.state = disk.state /\ stale' = stale
          /\ disk'.nodes = disk.nodes /\ disk'.subs = disk.subs /\ pc' \in {"up", "deleteConf"}
      BY <2>12 DEF DeleteConf, TypeOK, Dir
    <3>2. pc' = "up" => mem'.state = mem.state
      BY <2>2, <2>12 DEF DeleteConf, State, TypeOK
    <3> QED BY <2>1, <3>1, <3>2 DEF Synced
  <2>13. ASSUME NEW c \in Confs \cup {None}, SelectConf(c) PROVE Synced'
    BY <2>2, <2>3, <2>13 DEF SelectConf, State
  <2>15. CASE UpdateNothing
    <3>1. [mem.state EXCEPT !.node = None] \in State
      BY <2>2 DEF State
    <3> QED BY <2>3, <2>15, <3>1 DEF UpdateNothing
  <2>14. CASE EditRules
    BY <2>1, <2>14 DEF EditRules, Synced, TypeOK, Dir
  <2> QED
    BY <1>9, <2>4, <2>5, <2>6, <2>7, <2>8, <2>9, <2>10, <2>11, <2>12, <2>13, <2>14, <2>15 DEF Request
<1>10. CASE Crash
  BY <1>10 DEF Crash, Synced, Serving, Halves
<1>11. CASE UNCHANGED vars
  BY <1>11 DEF vars, Synced
<1> QED
  BY <1>1, <1>2, <1>3, <1>4, <1>5, <1>6, <1>7, <1>8, <1>9, <1>10, <1>11, <1>12 DEF Next

\* Between requests every file whose last save did not fail says what memory
\* says, for every number of restarts: no operation, and nothing that main
\* does first, leaves a change without a save, and one that failed is made up
\* for by the next save of that file.
THEOREM Saved == Spec => []AtRest
<1>1. Init => Synced
  BY DEF Init, Synced, Serving, Halves
<1>2. TypeOK /\ Synced => AtRest
  BY DEF AtRest, Synced, Serving
<1> QED
  BY <1>1, <1>2, TypeInit, TypeNext, SyncedNext, PTL DEF Spec
-----------------------------------------------------------------------------
(***************************************************************************)
(* The move from an older version.  Which files are where while it is      *)
(* made, unless a copy failed or the daemon died with nodes.json there:    *)
(* everything else about the files rests on this, because the disk may     *)
(* disagree with itself only until the copy of subs.json.                  *)
(***************************************************************************)
MoveInv ==
  /\ legacy \in Legacies \cup {EmptyDir}
  /\ pc \in Serving \cup {"off"} \/ legacy.nodes = Missing => todo = {}
  /\ "move" \notin cut =>
       /\ pc \in Moves => legacy.nodes # Missing /\ disk.subs = Missing /\ todo = legacy.confs \cup legacy.awgs
       /\ pc \in {"state", "nodes"} => disk.nodes = Missing
       /\ pc = "subs" => disk.nodes = legacy.nodes
       /\ pc \in {"nodes", "subs"} => disk.state = legacy.state
       /\ pc \in {"off", "state"} /\ Moving =>
            disk.subs = Missing /\ disk.state \in {Missing, legacy.state}
       /\ pc \in {"confs"} \cup Serving => ~Moving

\* An older version left nothing, or a directory that is whole.
LEMMA LegacyWhole ==
  ASSUME legacy \in Legacies \cup {EmptyDir}, legacy.nodes # Missing
  PROVE  Whole(legacy) /\ legacy \in Dir /\ legacy.state \in State /\ legacy.nodes \in SUBSET Node
         /\ legacy.subs \in SUBSET Subs
<1>1. legacy \in Legacies
  BY DEF EmptyDir
<1>2. Whole(legacy) /\ legacy \in Dir
  BY <1>1, LegaciesAssumption
<1> QED BY <1>2 DEF Whole, Dir

\* From nodes.json on, the files that a request or main writes do not go away.
Stays(marks) ==
  /\ disk.nodes # Missing => disk'.nodes # Missing
  /\ legacy' = legacy /\ todo' = todo
  /\ cut \subseteq cut' /\ cut' \subseteq cut \cup marks

LEMMA NodesStay ==
  ASSUME TypeOK, Load \/ HealNodes \/ Seed \/ SaveState \/ SaveNodes \/ Request
  PROVE  /\ Stays({"seed", "selection", "late"})
         /\ pc \in {"confs"} \cup Serving /\ pc' \in Serving
         /\ pc' = "heal" => Load
         /\ pc = "confs" => todo = {}
<1> USE DEF TypeOK
<1>1. CASE Load
  BY <1>1 DEF Load, Serving, Stays
<1>2. CASE HealNodes
  <2>1. HealAll(mem.nodes) \in SUBSET Node
    BY HealAllType
  <2>2. disk'.nodes \in {disk.nodes, HealAll(mem.nodes)}
    BY <1>2, <2>1, NodesSaved DEF HealNodes, Saves
  <2>3. HealAll(mem.nodes) # Missing
    BY <2>1, MissingAssumption
  <2> QED BY <1>2, <2>2, <2>3 DEF HealNodes, Serving, Halves, Stays
<1>3. CASE Seed
  BY <1>3 DEF Seed, Serving, Halves, Dir, Stays
<1>4. CASE SaveState
  <2>1. disk'.nodes = disk.nodes
    BY <1>4, StateSaved DEF SaveState, Leaves
  <2> QED BY <1>4, <2>1 DEF SaveState, Serving, Halves, Stays
<1>5. CASE SaveNodes
  <2>1. disk'.nodes \in {disk.nodes, mem.nodes}
    BY <1>5, NodesSaved DEF SaveNodes, Saves
  <2> QED BY <1>5, <2>1, MissingAssumption DEF SaveNodes, Serving, Halves, Stays
<1>6. CASE Request
  <2> DEFINE Goal == Stays({"seed", "selection", "late"}) /\ pc' \in Serving \ {"heal"}
  <2> USE <1>6 DEF Request, Serving, Halves, Stays
  <2>1. mem.nodes \in SUBSET Node /\ mem.subs \in SUBSET Subs /\ mem.state \in State
    OBVIOUS
  <2>2. ASSUME NEW nodes \in SUBSET Node, NEW node, NEW half \in {"up", "editNode", "deleteNode"},
               SetNodes(nodes, node, half), cut' \in {cut, cut \cup {"selection"}}
        PROVE  Goal
    <3>1. disk'.nodes \in {disk.nodes, nodes}
      BY <2>2, NodesSaved DEF SetNodes, Saves
    <3> QED BY <2>2, <3>1, MissingAssumption DEF SetNodes
  <2>3. ASSUME NEW state \in State, SetState(state) PROVE Goal
    <3>1. disk'.nodes = disk.nodes
      BY <2>3, StateSaved DEF SetState, Leaves
    <3> QED BY <2>3, <3>1 DEF SetState
  <2>14. ASSUME NEW id \in Ids, SelectNode(id) PROVE Goal
    <3>1. [mem.state EXCEPT !.node = id] \in State
      BY DEF State
    <3> QED BY <2>3, <2>14, <3>1 DEF SelectNode
  <2>4. ASSUME NEW id \in Ids, Import(id) PROVE Goal
    <3>1. PICK n \in Node : SetNodes((mem.nodes \ {n}) \cup {Own(id)}, mem.state.node, "up")
      BY <2>1, <2>4 DEF Import, With, Own, Node
    <3>2. (mem.nodes \ {n}) \cup {Own(id)} \in SUBSET Node
      BY <2>1 DEF Own, Node
    <3>3. cut' = cut
      BY <2>4 DEF Import
    <3> QED BY <2>2, <3>1, <3>2, <3>3
  <2>5. ASSUME NEW id \in Ids, DeleteNode(id) PROVE Goal
    BY <2>1, <2>2, <2>5 DEF DeleteNode
  <2>6. ASSUME NEW id \in Ids, NEW new \in Ids, EditNode(id, new) PROVE Goal
    <3>1. PICK n \in With(id), node \in Ids \cup {None} :
            SetNodes((mem.nodes \ ({n} \cup With(new))) \cup {Own(new)}, node, "editNode")
      BY <2>6 DEF EditNode, State
    <3>2. (mem.nodes \ ({n} \cup With(new))) \cup {Own(new)} \in SUBSET Node
      BY <2>1 DEF Own, Node
    <3>3. cut' = cut
      BY <2>6 DEF EditNode
    <3> QED BY <2>2, <3>1, <3>2, <3>3
  <2>7. ASSUME NEW s \in Subs, AddSub(s) PROVE Goal
    <3>1. mem.subs \cup {s} \in SUBSET Subs
      BY <2>1
    <3>2. disk'.nodes = disk.nodes
      BY <2>7, <3>1, SubsSaved DEF AddSub, Leaves
    <3> QED BY <2>7, <3>2 DEF AddSub
  <2>8. ASSUME NEW s \in Subs, NEW ids \in SUBSET Ids, NEW update \in BOOLEAN, Refresh(s, ids, update)
        PROVE  Goal
    <3> DEFINE nodes == Others(s) \cup {[id |-> id, sub |-> s] : id \in ids}
    <3>1. nodes \in SUBSET Node
      BY <2>1 DEF Others, Node
    <3>2. PICK node : SetNodes(nodes, node, "deleteNode")
      BY <2>8 DEF Refresh
    <3>3. cut' \in {cut, cut \cup {"selection"}}
      BY <2>8 DEF Refresh
    <3> HIDE DEF nodes, Goal
    <3> QED BY <2>2, <3>1, <3>2, <3>3
  <2>9. ASSUME NEW s \in Subs, DeleteSub(s) PROVE Goal
    <3>1. mem.subs \ {s} \in SUBSET Subs
      BY <2>1
    <3>2. disk'.nodes = disk.nodes
      BY <2>9, <3>1, SubsSaved DEF DeleteSub, Leaves
    <3> QED BY <2>9, <3>2 DEF DeleteSub
  <2>10. ASSUME NEW c \in Confs, SaveConf(c) PROVE Goal
    BY <2>10 DEF SaveConf, Dir
  <2>11. ASSUME NEW c \in Confs, DeleteConf(c) PROVE Goal
    BY <2>11 DEF DeleteConf, Dir
  <2>12. ASSUME NEW c \in Confs \cup {None}, SelectConf(c) PROVE Goal
    <3>1. [mem.state EXCEPT !.conf = c] \in State
      BY DEF State
    <3> QED BY <2>3, <2>12, <3>1 DEF SelectConf
  <2>15. ASSUME UpdateNothing PROVE Goal
    <3>1. [mem.state EXCEPT !.node = None] \in State
      BY DEF State
    <3> QED BY <2>3, <2>15, <3>1 DEF UpdateNothing
  <2>13. ASSUME EditRules PROVE Goal
    BY <2>13 DEF EditRules, Dir
  <2> HIDE DEF Goal, Stays, Serving, Halves
  <2>16. Goal
    BY <2>4, <2>5, <2>6, <2>7, <2>8, <2>9, <2>10, <2>11, <2>12, <2>13, <2>14, <2>15
  <2> QED BY <2>16 DEF Goal, Serving, Halves
<1> QED BY <1>1, <1>2, <1>3, <1>4, <1>5, <1>6

\* Operations that are cut are remembered.
LEMMA CutGrows == TypeOK /\ [Next]_vars => cut \subseteq cut' /\ legacy' = legacy
<1> SUFFICES ASSUME TypeOK, [Next]_vars PROVE cut \subseteq cut' /\ legacy' = legacy OBVIOUS
<1>1. CASE Start \/ UNCHANGED vars
  BY <1>1 DEF Start, vars
<1>2. CASE CopyFile \/ (\E c \in Confs : CopyConf(c)) \/ (\E a \in Awgs : CopyAwg(a))
  BY <1>2 DEF CopyFile, CopyConf, CopyAwg, Copy
<1>3. CASE Crash
  BY <1>3 DEF Crash
<1>4. CASE Load \/ HealNodes \/ Seed \/ SaveState \/ SaveNodes \/ Request
  BY <1>4, NodesStay DEF Stays
<1> QED BY <1>1, <1>2, <1>3, <1>4 DEF Next

\* What main reads first is not behind memory, and a download that has lost
\* its subscription is remembered.
BootInv ==
  /\ pc \notin Serving \ {"heal"} => stale = {}
  /\ late # {} => "late" \in cut

LEMMA BootNext == TypeOK /\ BootInv /\ [Next]_vars => BootInv'
<1> SUFFICES ASSUME TypeOK, BootInv, [Next]_vars PROVE BootInv' OBVIOUS
<1>1. pc' \notin Serving \ {"heal"} => stale' = {}
  <2>1. CASE Start \/ CopyFile \/ (\E c \in Confs : CopyConf(c)) \/ (\E a \in Awgs : CopyAwg(a)) \/ Load
    <3>1. stale' = stale /\ pc \in {"off", "confs"} \cup Moves
      BY <2>1 DEF Start, CopyFile, CopyConf, CopyAwg, Load
    <3> QED BY <3>1 DEF BootInv, Serving, Halves, Moves
  <2>2. CASE HealNodes \/ Seed \/ SaveState \/ SaveNodes \/ Request
    <3>1. pc' \in Serving /\ (pc' = "heal" => Load)
      BY <2>2, NodesStay
    <3>2. pc' = "heal" => pc = "confs"
      BY <3>1 DEF Load
    <3>3. pc # "confs"
      BY <2>2 DEF HealNodes, Seed, SaveState, SaveNodes, Request, Halves
    <3> QED BY <3>1, <3>2, <3>3
  <2>3. CASE Crash \/ UNCHANGED vars
    BY <2>3 DEF Crash, vars, BootInv
  <2> QED BY <2>1, <2>2, <2>3 DEF Next
<1>2. late' # {} => "late" \in cut'
  <2>1. CASE late' \subseteq late
    BY <2>1, CutGrows DEF BootInv
  <2>2. ASSUME NEW s \in Subs, DeleteSub(s) PROVE late' \subseteq late \/ "late" \in cut'
    BY <2>2 DEF DeleteSub
  <2>3. CASE Request
    <3>2. ASSUME NEW id \in Ids, SelectNode(id) \/ Import(id) \/ DeleteNode(id) \/ \E new \in Ids : EditNode(id, new)
          PROVE  late' \subseteq late
      BY <3>2 DEF SelectNode, SetState, Import, DeleteNode, EditNode
    <3>3. ASSUME NEW s \in Subs, NEW ids, NEW update, Refresh(s, ids, update) PROVE late' \subseteq late
      BY <3>3 DEF Refresh
    <3>4. ASSUME NEW s \in Subs, AddSub(s) PROVE late' \subseteq late
      BY <3>4 DEF AddSub
    <3>5. ASSUME NEW c, SaveConf(c) \/ DeleteConf(c) \/ SelectConf(c) PROVE late' \subseteq late
      BY <3>5 DEF SaveConf, DeleteConf, SelectConf, SetState
    <3>6. ASSUME UpdateNothing \/ EditRules PROVE late' \subseteq late
      BY <3>6 DEF UpdateNothing, SetState, EditRules
    <3>7. late' \subseteq late \/ "late" \in cut'
      BY <2>2, <2>3, <3>2, <3>3, <3>4, <3>5, <3>6 DEF Request
    <3> QED BY <2>1, <3>7
  <2>4. CASE ~Request
    <3>1. late' \subseteq late
      BY <2>4 DEF Next, Start, CopyFile, CopyConf, CopyAwg, Load, HealNodes, Seed, SaveState, SaveNodes, Crash, vars
    <3> QED BY <2>1, <3>1
  <2> QED BY <2>3, <2>4
<1> QED BY <1>1, <1>2 DEF BootInv

LEMMA BootInit == Init => BootInv
BY DEF Init, BootInv

LEMMA MoveNext == TypeOK /\ MoveInv /\ [Next]_vars => MoveInv'
<1> SUFFICES ASSUME TypeOK, MoveInv, [Next]_vars PROVE MoveInv' OBVIOUS
<1>1. CASE Start
  <2>1. legacy' = legacy /\ disk' = disk /\ cut' = cut
    BY <1>1 DEF Start
  <2>2. CASE Moving
    BY <1>1, <2>1, <2>2 DEF Start, MoveInv, Moving, Moves, Serving, Halves
  <2>3. CASE ~Moving
    BY <1>1, <2>1, <2>3 DEF Start, MoveInv, Moving, Moves, Serving, Halves
  <2> QED BY <2>2, <2>3
<1>2. CASE CopyFile
  <2>1. pc \in Moves /\ legacy' = legacy /\ todo' = todo /\ pc' = NextMove[pc]
    BY <1>2 DEF CopyFile
  <2>2. pc' \in {"nodes", "subs", "confs"}
    BY <2>1 DEF Moves, NextMove
  <2>3. legacy.nodes = Missing => todo = {}
    BY DEF MoveInv
  <2>4. CASE "move" \in cut'
    BY <2>1, <2>2, <2>3, <2>4 DEF MoveInv, Serving, Halves
  <2>5. CASE "move" \notin cut'
    <3>1. cut' = cut /\ disk' = IF disk[pc] # Missing THEN disk ELSE [disk EXCEPT ![pc] = legacy[pc]]
      BY <1>2, <2>5 DEF CopyFile, Copy
    <3>2. legacy.nodes # Missing /\ disk.subs = Missing /\ todo = legacy.confs \cup legacy.awgs
      BY <2>1, <2>5, <3>1 DEF MoveInv
    <3>3. legacy.state # Missing /\ legacy.nodes # Missing /\ legacy.subs # Missing
      BY <3>2, LegacyWhole DEF MoveInv, Whole
    <3>4. CASE pc = "state"
      <4>1. pc' = "nodes"
        BY <2>1, <3>4 DEF NextMove
      <4>2. disk.nodes = Missing /\ disk.state \in {Missing, legacy.state}
        BY <2>5, <3>1, <3>2, <3>4 DEF MoveInv, Moving
      <4>3. disk'.state = legacy.state /\ disk'.nodes = disk.nodes /\ disk'.subs = disk.subs
        BY <3>1, <3>4, <4>2 DEF TypeOK, Dir
      <4> QED BY <2>1, <3>2, <4>1, <4>2, <4>3 DEF MoveInv, Moves, Serving, Halves
    <3>5. CASE pc = "nodes"
      <4>1. pc' = "subs"
        BY <2>1, <3>5 DEF NextMove
      <4>2. disk.nodes = Missing /\ disk.state = legacy.state
        BY <2>5, <3>1, <3>5 DEF MoveInv
      <4>3. disk'.nodes = legacy.nodes /\ disk'.state = disk.state /\ disk'.subs = disk.subs
        BY <3>1, <3>5, <4>2 DEF TypeOK, Dir
      <4> QED BY <2>1, <3>2, <4>1, <4>2, <4>3 DEF MoveInv, Moves, Serving, Halves
    <3>6. CASE pc = "subs"
      <4>1. pc' = "confs"
        BY <2>1, <3>6 DEF NextMove
      <4>2. disk'.nodes = legacy.nodes
        BY <2>5, <3>1, <3>6 DEF MoveInv, TypeOK, Dir
      <4> QED BY <2>1, <3>2, <4>1, <4>2 DEF MoveInv, Moving, Moves, Serving, Halves
    <3> QED BY <2>1, <3>4, <3>5, <3>6 DEF Moves
  <2> QED BY <2>4, <2>5
<1>3. ASSUME NEW c \in Confs, CopyConf(c) PROVE MoveInv'
  <2>1. disk'.nodes = disk.nodes /\ cut \subseteq cut' /\ pc = "confs" /\ pc' = "confs" /\ legacy' = legacy
        /\ todo' \subseteq todo
    BY <1>3 DEF CopyConf, Copy, TypeOK, Dir
  <2> QED BY <2>1 DEF MoveInv, Moving, Moves, Serving, Halves
<1>7. ASSUME NEW a \in Awgs, CopyAwg(a) PROVE MoveInv'
  <2>1. disk'.nodes = disk.nodes /\ cut \subseteq cut' /\ pc = "confs" /\ pc' = "confs" /\ legacy' = legacy
        /\ todo' \subseteq todo
    BY <1>7 DEF CopyAwg, Copy, TypeOK, Dir
  <2> QED BY <2>1 DEF MoveInv, Moving, Moves, Serving, Halves
<1>4. CASE Load \/ HealNodes \/ Seed \/ SaveState \/ SaveNodes \/ Request
  <2>1. "move" \notin cut' => "move" \notin cut
    BY <1>4, NodesStay DEF Stays
  <2>2. ~Moving => ~Moving'
    BY <1>4, NodesStay DEF Stays, Moving
  <2>3. legacy' = legacy /\ todo' = todo /\ pc' \in Serving /\ pc \in {"confs"} \cup Serving
    BY <1>4, NodesStay DEF Stays
  <2>4. pc = "confs" => todo = {}
    BY <1>4, NodesStay
  <2> HIDE DEF Moving
  <2> QED BY <2>1, <2>2, <2>3, <2>4 DEF MoveInv, Moves, Serving, Halves
<1>5. CASE Crash
  <2>1. disk' = disk /\ legacy' = legacy /\ todo' = {} /\ pc' = "off" /\ cut \subseteq cut'
        /\ (HalfMoved => "move" \in cut')
    BY <1>5 DEF Crash
  <2>2. ASSUME "move" \notin cut', Moving PROVE disk.subs = Missing /\ disk.state \in {Missing, legacy.state}
    <3>1. pc # "subs"
      BY <2>1, <2>2, LegacyWhole DEF HalfMoved, MoveInv, Moving, Moves
    <3> QED BY <2>1, <2>2, <3>1 DEF MoveInv, Moving, TypeOK, Places, Serving, Moves
  <2> QED BY <2>1, <2>2 DEF MoveInv, Moving, Moves, Serving, Halves
<1>6. CASE UNCHANGED vars
  BY <1>6 DEF vars, MoveInv, Moving
<1> QED
  BY <1>1, <1>2, <1>3, <1>4, <1>5, <1>6, <1>7 DEF Next

LEMMA MoveInit == Init => MoveInv
BY DEF Init, MoveInv, Moving, EmptyDir, Moves, Serving, Halves
-----------------------------------------------------------------------------
(***************************************************************************)
(* Nodes and their subscriptions.  Between its two files a deletion has    *)
(* them apart on disk, not in memory; while subs.json of the older version *)
(* is still to be copied, they are apart by what MoveInv says.             *)
(***************************************************************************)
Listed(nodes, subs) == \A n \in nodes : n.sub \in subs \cup {NoSub}

Apart == {"move", "deleteSub", "nodes", "subs", "late"}

StrayInv ==
  cut \cap Apart = {} =>
    /\ pc \in Serving => Listed(mem.nodes, mem.subs)
    /\ pc \notin {"subs", "deleteSub"} /\ stale \cap {"nodes", "subs"} = {} =>
         Listed(Read(disk.nodes, {}), Read(disk.subs, {}))

LEMMA HealListed ==
  ASSUME NEW nodes \in SUBSET Node, NEW subs, Listed(nodes, subs) PROVE Listed(HealAll(nodes), subs)
<1>1. ASSUME NEW n \in nodes PROVE [n EXCEPT !.id = Heal(n.id)].sub = n.sub
  BY DEF Node
<1> QED BY <1>1 DEF Listed, HealAll

LEMMA StrayNext ==
  TypeOK /\ Synced /\ Synced' /\ MoveInv /\ BootInv /\ StrayInv /\ [Next]_vars => StrayInv'
<1> SUFFICES ASSUME TypeOK, Synced, Synced', MoveInv, BootInv, StrayInv, [Next]_vars,
                    cut' \cap Apart = {}
             PROVE  /\ pc' \in Serving => Listed(mem'.nodes, mem'.subs)
                    /\ pc' \notin {"subs", "deleteSub"} /\ stale' \cap {"nodes", "subs"} = {} =>
                         Listed(Read(disk'.nodes, {}), Read(disk'.subs, {}))
  BY DEF StrayInv
<1> DEFINE Goal == /\ pc' \in Serving => Listed(mem'.nodes, mem'.subs)
                   /\ pc' \notin {"subs", "deleteSub"} /\ stale' \cap {"nodes", "subs"} = {} =>
                         Listed(Read(disk'.nodes, {}), Read(disk'.subs, {}))
<1> USE DEF TypeOK
<1>0. cut \cap Apart = {}
  BY CutGrows
<1>15. "move" \notin cut /\ late = {}
  BY <1>0 DEF Apart, BootInv
<1>1. /\ pc \in Serving => Listed(mem.nodes, mem.subs)
      /\ pc \notin {"subs", "deleteSub"} /\ stale \cap {"nodes", "subs"} = {} =>
           Listed(Read(disk.nodes, {}), Read(disk.subs, {}))
  BY <1>0 DEF StrayInv
<1>2. ASSUME pc' \in Serving \ {"deleteSub"}, Listed(mem'.nodes, mem'.subs) PROVE Goal
  BY <1>2 DEF Synced
<1>3. CASE Start
  BY <1>1, <1>3 DEF Start, Serving, Halves
<1>4. CASE CopyFile
  <2>1. cut' = cut /\ disk' = (IF disk[pc] # Missing THEN disk ELSE [disk EXCEPT ![pc] = legacy[pc]])
        /\ stale' = stale
    BY <1>4 DEF CopyFile, Copy, Apart
  <2>2. legacy.nodes # Missing /\ disk.subs = Missing
    BY <1>4, <1>15 DEF CopyFile, MoveInv
  <2>3. Whole(legacy) /\ legacy.subs # Missing
    BY <2>2, LegacyWhole DEF MoveInv, Whole
  <2>4. CASE pc = "state"
    <3>1. pc' = "nodes" /\ disk'.nodes = disk.nodes /\ disk'.subs = disk.subs
      BY <1>4, <2>1, <2>4 DEF CopyFile, NextMove, Dir
    <3> QED BY <1>1, <2>1, <2>4, <3>1 DEF Serving, Halves
  <2>5. CASE pc = "nodes"
    <3>1. pc' = "subs"
      BY <1>4, <2>5 DEF CopyFile, NextMove
    <3> QED BY <3>1 DEF Serving, Halves
  <2>6. CASE pc = "subs"
    <3>1. pc' = "confs" /\ disk'.nodes = legacy.nodes /\ disk'.subs = legacy.subs
      BY <1>4, <1>15, <2>1, <2>2, <2>6 DEF CopyFile, NextMove, MoveInv, Dir
    <3> QED BY <2>2, <2>3, <3>1 DEF Serving, Halves, Read, Whole, Listed
  <2> QED BY <1>4, <2>4, <2>5, <2>6 DEF CopyFile, Moves
<1>5. ASSUME NEW c \in Confs, CopyConf(c) PROVE Goal
  BY <1>1, <1>5 DEF CopyConf, Copy, Dir, Serving, Halves
<1>14. ASSUME NEW a \in Awgs, CopyAwg(a) PROVE Goal
  BY <1>1, <1>14 DEF CopyAwg, Copy, Dir, Serving, Halves
<1>6. CASE Load
  <2>1. stale = {}
    BY <1>6 DEF Load, BootInv, Serving, Halves
  <2> QED BY <1>1, <1>6, <2>1 DEF Load, Serving, Halves
<1>7. CASE HealNodes
  <2>1. Listed(mem'.nodes, mem'.subs) /\ pc' \in {"healed", "seed"}
    BY <1>1, <1>7, HealListed DEF HealNodes, Serving
  <2> QED BY <1>2, <2>1 DEF Serving, Halves
<1>8. CASE Seed
  <2>1. Listed(mem'.nodes, mem'.subs) /\ pc' \in {"seeded", "up"}
    BY <1>1, <1>8 DEF Seed, Serving
  <2> QED BY <1>2, <2>1 DEF Serving, Halves
<1>9. CASE SaveState \/ SaveNodes
  <2>1. Listed(mem'.nodes, mem'.subs) /\ pc' \in {"seed", "up"}
    BY <1>1, <1>9 DEF SaveState, SaveNodes, Serving, Halves
  <2> QED BY <1>2, <2>1 DEF Serving, Halves
<1>10. CASE Request
  <2>1. pc = "up" /\ Listed(mem.nodes, mem.subs)
    BY <1>1, <1>10 DEF Request, Serving
  <2>2. ASSUME NEW nodes, NEW node, NEW half \in {"up", "editNode", "deleteNode"},
               SetNodes(nodes, node, half), Listed(nodes, mem.subs)
        PROVE  Goal
    <3>1. mem'.nodes = nodes /\ mem'.subs = mem.subs /\ pc' \in {"up", "editNode", "deleteNode"}
      BY <2>2 DEF SetNodes
    <3> QED BY <1>2, <2>2, <3>1 DEF Serving, Halves
  <2>3. ASSUME NEW id \in Ids, SelectNode(id) PROVE Goal
    BY <1>2, <2>1, <2>3 DEF SelectNode, SetState, Serving, Halves
  <2>4. ASSUME NEW id \in Ids, Import(id) PROVE Goal
    <3>1. PICK n : SetNodes((mem.nodes \ {n}) \cup {Own(id)}, mem.state.node, "up")
      BY <2>4 DEF Import
    <3>2. Listed((mem.nodes \ {n}) \cup {Own(id)}, mem.subs)
      BY <2>1 DEF Own, Listed
    <3> QED BY <2>2, <3>1, <3>2
  <2>5. ASSUME NEW id \in Ids, DeleteNode(id) PROVE Goal
    <3>1. PICK n, node : SetNodes(mem.nodes \ {n}, node, "deleteNode")
      BY <2>5 DEF DeleteNode
    <3>2. Listed(mem.nodes \ {n}, mem.subs)
      BY <2>1 DEF Listed
    <3> QED BY <2>2, <3>1, <3>2
  <2>6. ASSUME NEW id \in Ids, NEW new \in Ids, EditNode(id, new) PROVE Goal
    <3>1. PICK n, node : SetNodes((mem.nodes \ ({n} \cup With(new))) \cup {Own(new)}, node, "editNode")
      BY <2>6 DEF EditNode
    <3>2. Listed((mem.nodes \ ({n} \cup With(new))) \cup {Own(new)}, mem.subs)
      BY <2>1 DEF Own, Listed
    <3> QED BY <2>2, <3>1, <3>2
  <2>7. ASSUME NEW s \in Subs, AddSub(s) PROVE Goal
    <3>1. Listed(mem'.nodes, mem'.subs) /\ pc' = "up"
      BY <2>1, <2>7 DEF AddSub, Listed
    <3> QED BY <1>2, <3>1 DEF Serving, Halves
  <2>8. ASSUME NEW s \in Subs, NEW ids \in SUBSET Ids, NEW update \in BOOLEAN, Refresh(s, ids, update)
        PROVE  Goal
    <3> DEFINE nodes == Others(s) \cup {[id |-> id, sub |-> s] : id \in ids}
    <3>1. Listed(nodes, mem.subs)
      BY <1>15, <2>1, <2>8 DEF Refresh, Others, Listed
    <3>2. PICK node : SetNodes(nodes, node, "deleteNode")
      BY <2>8 DEF Refresh
    <3> HIDE DEF nodes
    <3> QED BY <2>2, <3>1, <3>2
  <2>9. ASSUME NEW s \in Subs, DeleteSub(s) PROVE Goal
    <3>1. Listed(mem'.nodes, mem'.subs) /\ pc' = "deleteSub"
      BY <2>1, <2>9 DEF DeleteSub, Others, Listed
    <3> QED BY <3>1
  <2>10. ASSUME NEW c \in Confs, SaveConf(c) PROVE Goal
    BY <1>2, <2>1, <2>10 DEF SaveConf, Serving, Halves
  <2>11. ASSUME NEW c \in Confs, DeleteConf(c) PROVE Goal
    <3>1. Listed(mem'.nodes, mem'.subs) /\ pc' \in {"up", "deleteConf"}
      BY <2>1, <2>11 DEF DeleteConf
    <3> QED BY <1>2, <3>1 DEF Serving, Halves
  <2>12. ASSUME NEW c \in Confs \cup {None}, SelectConf(c) PROVE Goal
    BY <1>2, <2>1, <2>12 DEF SelectConf, SetState, Serving, Halves
  <2>14. CASE UpdateNothing
    BY <1>2, <2>1, <2>14 DEF UpdateNothing, SetState, Serving, Halves
  <2>13. CASE EditRules
    <3>1. Listed(mem'.nodes, mem'.subs) /\ pc' = "editRules"
      BY <2>1, <2>13 DEF EditRules
    <3> QED BY <1>2, <3>1 DEF Serving, Halves
  <2> QED
    BY <1>10, <2>3, <2>4, <2>5, <2>6, <2>7, <2>8, <2>9, <2>10, <2>11, <2>12, <2>13, <2>14 DEF Request
<1>11. CASE Crash
  <2>1. pc # "deleteSub"
    BY <1>11 DEF Crash, Halves, Apart
  <2>3. stale \cap {"nodes", "subs"} = {}
    BY <1>11 DEF Crash, Apart
  <2>2. pc # "subs"
    <3> SUFFICES ASSUME pc = "subs" PROVE FALSE OBVIOUS
    <3>1. disk.nodes = legacy.nodes /\ legacy.nodes # Missing /\ disk.subs = Missing
      BY <1>15 DEF MoveInv, Moves
    <3> QED BY <1>11, <3>1 DEF Crash, HalfMoved, Apart
  <2> QED BY <1>1, <1>11, <2>1, <2>2, <2>3 DEF Crash, Serving, Halves
<1>12. CASE UNCHANGED vars
  BY <1>1, <1>12 DEF vars
<1> QED
  BY <1>3, <1>4, <1>5, <1>6, <1>7, <1>8, <1>9, <1>10, <1>11, <1>12, <1>14 DEF Next

\* A node whose subscription is not listed comes from a deletion or a move
\* that was cut, from a death with one of the two lists unsaved, or from a
\* download that outlasts its subscription, whatever else happens and however
\* often; where none of these happened there is none.
THEOREM NoneStrays == Spec => []NoStrays
<1>1. Init => Synced /\ StrayInv
  BY DEF Init, Synced, StrayInv, Serving, Halves, Listed, Read, EmptyDir
<1>2. StrayInv => NoStrays
  BY DEF StrayInv, NoStrays, Serving, Listed, Apart
<1> QED
  BY <1>1, <1>2, TypeInit, TypeNext, SyncedNext, MoveInit, MoveNext, BootInit, BootNext, StrayNext, PTL DEF Spec
-----------------------------------------------------------------------------
(***************************************************************************)
(* The selected .conf.  While .conf files are copied it may be one that is *)
(* still to come; before that, and when a start is going to move, MoveInv  *)
(* tells what the state says.                                              *)
(***************************************************************************)
EditCuts == {"move", "deleteConf", "state"}

EditInv ==
  cut \cap EditCuts = {} =>
    /\ pc \in Serving => mem.state.conf \in disk.confs \cup {None}
    /\ \/ pc \in Serving \ {"deleteConf"} /\ "state" \notin stale
       \/ pc = "off" /\ ~Moving
       => Read(disk.state, EmptyState).conf \in disk.confs \cup {None}
    /\ pc = "confs" => Read(disk.state, EmptyState).conf \in disk.confs \cup todo \cup {None}

LEMMA EditNext ==
  TypeOK /\ Synced /\ Synced' /\ MoveInv /\ MoveInv' /\ BootInv /\ EditInv /\ [Next]_vars => EditInv'
<1> DEFINE Kept == /\ pc \in Serving => mem.state.conf \in disk.confs \cup {None}
                   /\ \/ pc \in Serving \ {"deleteConf"} /\ "state" \notin stale
                      \/ pc = "off" /\ ~Moving
                      => Read(disk.state, EmptyState).conf \in disk.confs \cup {None}
                   /\ pc = "confs" => Read(disk.state, EmptyState).conf \in disk.confs \cup todo \cup {None}
<1> SUFFICES ASSUME TypeOK, Synced, Synced', MoveInv, MoveInv', BootInv, EditInv, [Next]_vars,
                    cut' \cap EditCuts = {}
             PROVE  Kept'
  BY DEF EditInv
<1> USE DEF TypeOK
<1>0. cut \cap EditCuts = {}
  BY CutGrows
<1>14. "move" \notin cut /\ "move" \notin cut'
  BY <1>0 DEF EditCuts
<1>1. Kept
  BY <1>0 DEF EditInv
\* While the daemon serves, and its second file is not state.json, memory
\* tells what is on disk.
<1>2. ASSUME pc' \in {"heal", "seed", "up", "deleteSub"}, mem'.state.conf \in disk'.confs \cup {None} PROVE Kept'
  BY <1>2 DEF Synced, Serving, Halves
\* Otherwise what was there before is.
<1>3. ASSUME pc \in Serving \ {"deleteConf"}, pc' \in Serving, Leaves("state"), disk.confs \subseteq disk'.confs,
             mem'.state.conf \in disk'.confs \cup {None}
      PROVE  Kept'
  BY <1>1, <1>3 DEF Serving, Halves, Leaves
<1>4. CASE Start
  <2>1. CASE Moving
    BY <1>4, <2>1 DEF Start, Serving, Halves
  <2>2. CASE ~Moving
    BY <1>1, <1>4, <2>2 DEF Start, Serving, Halves
  <2> QED BY <2>1, <2>2
<1>5. CASE CopyFile
  <2>1. CASE pc # "subs"
    BY <1>5, <2>1 DEF CopyFile, Moves, NextMove, Serving, Halves
  <2>2. CASE pc = "subs"
    <3>1. disk.state = legacy.state /\ todo = legacy.confs \cup legacy.awgs /\ legacy.nodes # Missing
      BY <1>14, <2>2 DEF MoveInv, Moves
    <3>2. Read(legacy.state, EmptyState).conf \in legacy.confs \cup {None}
      BY <3>1, LegacyWhole, ReadWritten DEF MoveInv, Whole
    <3>3. pc' = "confs" /\ disk'.state = disk.state /\ todo' = todo
      BY <1>5, <2>2 DEF CopyFile, Copy, NextMove, Dir
    <3> QED BY <3>1, <3>2, <3>3 DEF Serving, Halves
  <2> QED BY <2>1, <2>2
<1>6. ASSUME NEW c \in Confs, CopyConf(c) PROVE Kept'
  <2>1. disk'.state = disk.state /\ disk'.confs = disk.confs \cup {c} /\ todo' = todo \ {c}
        /\ pc = "confs" /\ pc' = "confs"
    BY <1>6, <1>14 DEF CopyConf, Copy, Dir
  <2> QED BY <1>1, <2>1 DEF Serving, Halves
<1>15. ASSUME NEW a \in Awgs, CopyAwg(a) PROVE Kept'
  <2>1. disk'.state = disk.state /\ disk'.confs = disk.confs /\ todo' = todo \ {a}
        /\ pc = "confs" /\ pc' = "confs"
    BY <1>15 DEF CopyAwg, Copy, Dir
  <2>2. Read(disk.state, EmptyState).conf \in Confs \cup {None} /\ a \notin Confs
    BY <1>15, ReadState, AwgsAssumption DEF State, Dir
  <2>3. Read(disk.state, EmptyState).conf \in disk.confs \cup todo \cup {None}
    BY <1>1, <2>1
  <2> QED BY <2>1, <2>2, <2>3 DEF Serving, Halves
<1>7. CASE Load
  <2>1. mem'.state.conf \in disk'.confs \cup {None} /\ pc' = "heal"
    BY <1>1, <1>7 DEF Load
  <2> QED BY <1>2, <2>1
<1>8. CASE HealNodes
  <2>1. mem'.state.conf = mem.state.conf
    BY <1>8 DEF HealNodes, State
  <2>2. pc = "heal" /\ pc' \in {"healed", "seed"} /\ Leaves("state") /\ disk'.confs = disk.confs
    <3>1. CASE disk' = disk /\ stale' = stale
      BY <1>8, <3>1 DEF HealNodes, Leaves
    <3>2. CASE Save("nodes", HealAll(mem.nodes))
      BY <1>8, <3>2, HealAllType, NodesSaved DEF HealNodes, SameDirs
    <3> QED BY <1>8, <3>1, <3>2 DEF HealNodes
  <2> QED BY <1>1, <1>3, <2>1, <2>2 DEF Serving, Halves
<1>9. CASE Seed
  <2>1. CASE disk.confs = {}
    <3>1. mem.state.conf = None
      BY <1>1, <1>9, <2>1 DEF Seed, Serving
    <3>2. CASE pc' = "seeded"
      <4>1. mem'.state.conf = Default /\ disk'.confs = {Default} /\ Leaves("state")
        BY <1>9, <2>1, <3>1, <3>2 DEF Seed, State, Dir, Leaves
      <4> QED BY <1>3, <1>9, <2>1, <3>2, <4>1 DEF Seed, Serving, Halves
    <3>3. CASE pc' = "up"
      BY <1>1, <1>2, <1>9, <3>3 DEF Seed, Serving
    <3> QED BY <1>9, <3>2, <3>3 DEF Seed
  <2>2. CASE disk.confs # {}
    BY <1>1, <1>2, <1>9, <2>2 DEF Seed, Serving
  <2> QED BY <2>1, <2>2
<1>10. CASE SaveState \/ SaveNodes
  <2>1. mem' = mem /\ pc \in Serving /\ pc' \in {"seed", "up"}
    BY <1>10 DEF SaveState, SaveNodes, Serving, Halves
  <2>2. disk'.confs = disk.confs
    BY <1>10, StateSaved, NodesSaved DEF SaveState, SaveNodes, SameDirs
  <2> QED BY <1>1, <1>2, <2>1, <2>2
<1>11. CASE Request
  <2>1. pc = "up" /\ mem.state.conf \in disk.confs \cup {None}
    BY <1>1, <1>11 DEF Request, Serving
  <2>2. ASSUME NEW nodes \in SUBSET Node, NEW node, NEW half \in {"up", "editNode", "deleteNode"},
               SetNodes(nodes, node, half)
        PROVE  Kept'
    <3>1. mem'.state.conf = mem.state.conf
      BY <2>2 DEF SetNodes, State
    <3>2. Leaves("state") /\ disk'.confs = disk.confs /\ pc' \in {"up", "editNode", "deleteNode"}
      BY <2>2, NodesSaved DEF SetNodes, SameDirs
    <3> QED BY <1>3, <2>1, <3>1, <3>2 DEF Serving, Halves
  <2>3. ASSUME NEW s \in State, SetState(s), s.conf \in disk.confs \cup {None} PROVE Kept'
    <3>1. mem'.state = s /\ disk'.confs = disk.confs /\ pc' = "up"
      BY <2>1, <2>3, StateSaved DEF SetState, SameDirs
    <3> QED BY <1>2, <2>3, <3>1
  <2>4. ASSUME NEW id \in Ids, SelectNode(id) PROVE Kept'
    <3>1. [mem.state EXCEPT !.node = id] \in State /\ [mem.state EXCEPT !.node = id].conf = mem.state.conf
      BY DEF State
    <3> QED BY <2>1, <2>3, <2>4, <3>1 DEF SelectNode
  <2>5. ASSUME NEW id \in Ids, Import(id) \/ DeleteNode(id) \/ \E new \in Ids : EditNode(id, new) PROVE Kept'
    <3>1. CASE Import(id)
      <4>1. PICK n : SetNodes((mem.nodes \ {n}) \cup {Own(id)}, mem.state.node, "up")
        BY <3>1 DEF Import
      <4>2. (mem.nodes \ {n}) \cup {Own(id)} \in SUBSET Node
        BY DEF Own, Node
      <4> QED BY <2>2, <4>1, <4>2
    <3>2. CASE DeleteNode(id)
      BY <2>2, <3>2 DEF DeleteNode
    <3>3. ASSUME NEW new \in Ids, EditNode(id, new) PROVE Kept'
      <4>1. PICK n, node : SetNodes((mem.nodes \ ({n} \cup With(new))) \cup {Own(new)}, node, "editNode")
        BY <3>3 DEF EditNode
      <4>2. (mem.nodes \ ({n} \cup With(new))) \cup {Own(new)} \in SUBSET Node
        BY DEF Own, Node
      <4> QED BY <2>2, <4>1, <4>2
    <3> QED BY <2>5, <3>1, <3>2, <3>3
  <2>6. ASSUME NEW s \in Subs, AddSub(s) PROVE Kept'
    <3>1. mem.subs \cup {s} \in SUBSET Subs /\ Save("subs", mem.subs \cup {s})
      BY <2>6 DEF AddSub
    <3>2. Leaves("state") /\ disk'.confs = disk.confs
      BY <3>1, SubsSaved DEF SameDirs
    <3> QED BY <1>3, <2>1, <2>6, <3>2 DEF AddSub, Serving, Halves
  <2>7. ASSUME NEW s \in Subs, NEW ids \in SUBSET Ids, NEW update \in BOOLEAN, Refresh(s, ids, update)
        PROVE  Kept'
    <3> DEFINE nodes == Others(s) \cup {[id |-> id, sub |-> s] : id \in ids}
    <3>1. nodes \in SUBSET Node
      BY DEF Others, Node
    <3>2. PICK node : SetNodes(nodes, node, "deleteNode")
      BY <2>7 DEF Refresh
    <3> HIDE DEF nodes
    <3> QED BY <2>2, <3>1, <3>2
  <2>8. ASSUME NEW s \in Subs, DeleteSub(s) PROVE Kept'
    <3>1. mem.subs \ {s} \in SUBSET Subs /\ Save("subs", mem.subs \ {s})
      BY <2>8 DEF DeleteSub
    <3>2. disk'.confs = disk.confs
      BY <3>1, SubsSaved DEF SameDirs
    <3> QED BY <1>2, <2>1, <2>8, <3>2 DEF DeleteSub
  <2>9. ASSUME NEW c \in Confs, SaveConf(c) PROVE Kept'
    BY <1>3, <2>1, <2>9 DEF SaveConf, Serving, Halves, Dir, Leaves
  <2>10. ASSUME NEW c \in Confs, DeleteConf(c) PROVE Kept'
    <3>1. mem'.state.conf \in disk'.confs \cup {None} /\ pc' \in {"up", "deleteConf"}
      BY <2>1, <2>10 DEF DeleteConf, State, Dir
    <3> QED BY <1>2, <3>1 DEF Serving, Halves
  <2>11. ASSUME NEW c \in Confs \cup {None}, SelectConf(c) PROVE Kept'
    <3>1. [mem.state EXCEPT !.conf = c] \in State /\ [mem.state EXCEPT !.conf = c].conf = c
      BY DEF State
    <3> QED BY <2>3, <2>11, <3>1 DEF SelectConf
  <2>13. CASE UpdateNothing
    <3>1. [mem.state EXCEPT !.node = None] \in State /\ [mem.state EXCEPT !.node = None].conf = mem.state.conf
      BY DEF State
    <3> QED BY <2>1, <2>3, <2>13, <3>1 DEF UpdateNothing
  <2>12. CASE EditRules
    BY <1>3, <2>1, <2>12 DEF EditRules, Serving, Halves, State, Dir, Leaves
  <2> QED
    BY <1>11, <2>4, <2>5, <2>6, <2>7, <2>8, <2>9, <2>10, <2>11, <2>12, <2>13 DEF Request
<1>12. CASE Crash
  <2>1. pc # "deleteConf" /\ "state" \notin stale /\ ~HalfMoved
    BY <1>12 DEF Crash, Halves, EditCuts
  <2>2. disk' = disk /\ legacy' = legacy /\ pc' = "off"
    BY <1>12 DEF Crash
  <2>3. ASSUME ~Moving' PROVE Read(disk.state, EmptyState).conf \in disk.confs \cup {None}
    <3>0. ~Moving
      BY <2>2, <2>3 DEF Moving
    <3>1. CASE pc \in Serving
      BY <1>1, <2>1, <3>1
    <3>2. CASE pc = "confs"
      <4>1. todo \subseteq disk.confs \cup disk.awgs
        BY <2>1, <3>0, <3>2 DEF HalfMoved, MoveInv, Moving, Serving, Halves
      <4>2. Read(disk.state, EmptyState).conf \in Confs \cup {None} /\ disk.awgs \cap Confs = {}
        BY ReadState, AwgsAssumption DEF State, Dir
      <4> QED BY <1>1, <3>2, <4>1, <4>2
    <3>3. CASE pc \in Moves
      <4>1. pc = "subs" /\ disk.nodes = legacy.nodes /\ legacy.nodes # Missing /\ disk.subs = Missing
        BY <1>14, <3>0, <3>3 DEF MoveInv, Moving, Moves
      <4> QED BY <2>1, <4>1 DEF HalfMoved
    <3> QED BY <1>12, <3>1, <3>2, <3>3 DEF Crash, Places, Serving
  <2> QED BY <2>2, <2>3 DEF Serving, Halves
<1>13. CASE UNCHANGED vars
  BY <1>1, <1>13 DEF vars, Moving
<1> QED
  BY <1>4, <1>5, <1>6, <1>7, <1>8, <1>9, <1>10, <1>11, <1>12, <1>13, <1>15 DEF Next

\* The selected .conf is there for a rule edit to change, unless its own
\* deletion or the move was cut, or the daemon died with the state unsaved.
THEOREM AlwaysEditable == Spec => []Editable
<1>1. Init => Synced /\ EditInv
  BY DEF Init, Synced, EditInv, Serving, Halves, Read, EmptyDir, EmptyState
<1>2. EditInv => Editable
  BY DEF EditInv, Editable, Serving, EditCuts
<1> QED
  BY <1>1, <1>2, TypeInit, TypeNext, SyncedNext, MoveInit, MoveNext, BootInit, BootNext, EditNext, PTL DEF Spec
-----------------------------------------------------------------------------
(***************************************************************************)
(* The selected node.  An operation on both files has the list on disk     *)
(* ahead of the selection; all others keep the two together.               *)
(***************************************************************************)
Cuts == {"move", "healed", "editNode", "deleteNode", "selection", "state", "nodes"}
Ahead == {"healed", "editNode", "deleteNode"}

Found(node, nodes) == node = None \/ HasNode(nodes, node)

SelInv ==
  cut \cap Cuts = {} =>
    /\ pc \in Serving => Found(mem.state.node, mem.nodes)
    /\ \/ pc \in {"confs"} \cup (Serving \ Ahead)
       \/ pc = "off" /\ ~Moving
       => stale \cap {"state", "nodes"} # {} \/ Found(Read(disk.state, EmptyState).node, Read(disk.nodes, {}))

\* Where the selected node got a new id, the selection follows.
LEMMA HealFound ==
  ASSUME NEW nodes \in SUBSET Node, NEW id \in Ids \cup {None}, Found(id, nodes)
  PROVE  Found(IF HasNode({n \in nodes : n.id \in DOMAIN Healed}, id) THEN Heal(id) ELSE id, HealAll(nodes))
<1>1. CASE id = None
  <2>1. ~HasNode({n \in nodes : n.id \in DOMAIN Healed}, None)
    BY DefaultAssumption DEF HasNode, Node
  <2> QED BY <1>1, <2>1 DEF Found
<1>2. CASE id # None
  <2>1. PICK n \in nodes : n.id = id
    BY <1>2 DEF Found, HasNode
  <2>2. [n EXCEPT !.id = Heal(n.id)].id = Heal(id) /\ [n EXCEPT !.id = Heal(n.id)] \in HealAll(nodes)
    BY <2>1 DEF Node, HealAll
  <2>3. HasNode(HealAll(nodes), Heal(id))
    BY <2>2 DEF HasNode
  <2>4. ~HasNode({m \in nodes : m.id \in DOMAIN Healed}, id) => Heal(id) = id
    BY <2>1 DEF HasNode, Heal
  <2> QED BY <2>3, <2>4 DEF Found
<1> QED BY <1>1, <1>2

LEMMA SelNext ==
  TypeOK /\ Synced /\ Synced' /\ MoveInv /\ BootInv /\ SelInv /\ [Next]_vars => SelInv'
<1> DEFINE Kept == /\ pc \in Serving => Found(mem.state.node, mem.nodes)
                   /\ \/ pc \in {"confs"} \cup (Serving \ Ahead)
                      \/ pc = "off" /\ ~Moving
                      => stale \cap {"state", "nodes"} # {} \/ Found(Read(disk.state, EmptyState).node, Read(disk.nodes, {}))
<1> SUFFICES ASSUME TypeOK, Synced, Synced', MoveInv, BootInv, SelInv, [Next]_vars, cut' \cap Cuts = {}
             PROVE  Kept'
  BY DEF SelInv
<1> USE DEF TypeOK
<1>0. cut \cap Cuts = {}
  BY CutGrows
<1>1. Kept
  BY <1>0 DEF SelInv
<1>2. mem.nodes \in SUBSET Node /\ mem.state \in State /\ mem.state.node \in Ids \cup {None}
  BY DEF State
\* What memory says is on disk, or need not be yet.
<1>3. ASSUME pc' \in {"heal", "seed", "up"} \cup Ahead, Found(mem'.state.node, mem'.nodes) PROVE Kept'
  BY <1>3 DEF Synced, Serving, Halves, Ahead
\* The files in question are left alone.
<1>4. ASSUME pc \in Serving \ Ahead, pc' \in Serving, Found(mem'.state.node, mem'.nodes),
             Leaves("state"), Leaves("nodes")
      PROVE  Kept'
  BY <1>1, <1>4 DEF Serving, Halves, Leaves
<1>5. CASE Start
  BY <1>1, <1>5 DEF Start, Serving, Halves, Moves
<1>6. CASE CopyFile
  <2>1. CASE pc # "subs"
    BY <1>6, <2>1 DEF CopyFile, Moves, NextMove, Serving, Halves
  <2>2. CASE pc = "subs"
    <3>1. disk.state = legacy.state /\ disk.nodes = legacy.nodes /\ legacy.nodes # Missing
      BY <1>0, <2>2 DEF MoveInv, Moves, Cuts
    <3>2. Found(Read(legacy.state, EmptyState).node, Read(legacy.nodes, {}))
      BY <3>1, LegacyWhole, ReadWritten DEF MoveInv, Whole, Found
    <3>3. pc' = "confs" /\ disk'.state = disk.state /\ disk'.nodes = disk.nodes
      BY <1>6, <2>2 DEF CopyFile, Copy, NextMove, Dir
    <3> QED BY <3>1, <3>2, <3>3 DEF Serving, Halves
  <2> QED BY <2>1, <2>2
<1>7. ASSUME NEW c \in Confs, CopyConf(c) PROVE Kept'
  BY <1>1, <1>7 DEF CopyConf, Copy, Dir, Serving, Halves
<1>15. ASSUME NEW a \in Awgs, CopyAwg(a) PROVE Kept'
  BY <1>1, <1>15 DEF CopyAwg, Copy, Dir, Serving, Halves
<1>8. CASE Load
  <2>1. Found(mem'.state.node, mem'.nodes) /\ pc' = "heal"
    <3>1. stale = {} /\ pc = "confs"
      BY <1>8 DEF Load, BootInv, Serving, Halves
    <3> QED BY <1>1, <1>8, <3>1 DEF Load
  <2> QED BY <1>3, <2>1
<1>9. CASE HealNodes
  <2>1. mem'.state.node = (IF HasNode({n \in mem.nodes : n.id \in DOMAIN Healed}, mem.state.node)
                             THEN Heal(mem.state.node) ELSE mem.state.node)
        /\ mem'.nodes = HealAll(mem.nodes) /\ pc' \in {"healed", "seed"}
    BY <1>2, <1>9 DEF HealNodes, State
  <2>2. Found(mem.state.node, mem.nodes)
    BY <1>1, <1>9 DEF HealNodes, Serving
  <2>3. Found(mem'.state.node, mem'.nodes)
    BY <1>2, <2>1, <2>2, HealFound
  <2> QED BY <1>3, <2>1, <2>3 DEF Ahead
<1>10. CASE Seed
  <2>1. mem'.state.node = mem.state.node /\ mem'.nodes = mem.nodes
        /\ Leaves("state") /\ Leaves("nodes")
    BY <1>2, <1>10 DEF Seed, State, Dir, Leaves
  <2> QED BY <1>1, <1>4, <1>10, <2>1 DEF Seed, Serving, Halves, Ahead
<1>11. CASE SaveState \/ SaveNodes
  <2>1. mem' = mem /\ pc \in Serving /\ pc' \in {"seed", "up"}
    BY <1>11 DEF SaveState, SaveNodes, Serving, Halves
  <2> QED BY <1>1, <1>3, <2>1
<1>12. CASE Request
  <2>1. pc = "up" /\ Found(mem.state.node, mem.nodes)
    BY <1>1, <1>12 DEF Request, Serving
  <2>2. ASSUME NEW nodes, NEW node, NEW half \in {"up", "editNode", "deleteNode"}, SetNodes(nodes, node, half),
               Found(node, nodes)
        PROVE  Kept'
    <3>1. mem'.state.node = node /\ mem'.nodes = nodes /\ pc' \in {"up", "editNode", "deleteNode"}
      BY <1>2, <2>2 DEF SetNodes, State
    <3> QED BY <1>3, <2>2, <3>1 DEF Ahead
  <2>3. ASSUME NEW s \in State, SetState(s), Found(s.node, mem.nodes) PROVE Kept'
    BY <1>3, <2>1, <2>3 DEF SetState
  <2>4. ASSUME NEW id \in Ids, SelectNode(id) PROVE Kept'
    <3>1. [mem.state EXCEPT !.node = id] \in State /\ [mem.state EXCEPT !.node = id].node = id
      BY <1>2 DEF State
    <3> QED BY <2>3, <2>4, <3>1 DEF SelectNode, Found
  <2>5. ASSUME NEW id \in Ids, Import(id) PROVE Kept'
    <3>1. PICK n \in mem.nodes \cup {Own(id)} :
            n.id = id /\ SetNodes((mem.nodes \ {n}) \cup {Own(id)}, mem.state.node, "up")
      BY <2>5 DEF Import, With, Own
    <3>2. Found(mem.state.node, (mem.nodes \ {n}) \cup {Own(id)})
      <4>1. Own(id).id = id
        BY DEF Own
      <4>2. CASE mem.state.node = id
        BY <4>1, <4>2 DEF Found, HasNode
      <4>3. CASE mem.state.node # id
        BY <2>1, <3>1, <4>3 DEF Found, HasNode
      <4> QED BY <4>2, <4>3
    <3> QED BY <2>2, <3>1, <3>2
  <2>6. ASSUME NEW id \in Ids, DeleteNode(id) PROVE Kept'
    <3>1. PICK n \in With(id) :
            SetNodes(mem.nodes \ {n}, IF mem.state.node = id THEN None ELSE mem.state.node, "deleteNode")
      BY <2>6 DEF DeleteNode
    <3>2. Found(IF mem.state.node = id THEN None ELSE mem.state.node, mem.nodes \ {n})
      BY <2>1 DEF Found, HasNode, With
    <3> QED BY <2>2, <3>1, <3>2
  <2>7. ASSUME NEW id \in Ids, NEW new \in Ids, EditNode(id, new) PROVE Kept'
    <3>1. PICK n \in With(id) :
            SetNodes((mem.nodes \ ({n} \cup With(new))) \cup {Own(new)},
                     IF mem.state.node = id THEN new ELSE mem.state.node, "editNode")
      BY <2>7 DEF EditNode
    <3>2. Found(IF mem.state.node = id THEN new ELSE mem.state.node,
                (mem.nodes \ ({n} \cup With(new))) \cup {Own(new)})
      <4>1. Own(new).id = new
        BY DEF Own
      <4>2. CASE mem.state.node \in {id, new}
        BY <4>1, <4>2 DEF Found, HasNode
      <4>3. CASE mem.state.node \notin {id, new}
        BY <2>1, <4>3 DEF Found, HasNode, With
      <4> QED BY <4>2, <4>3
    <3> QED BY <2>2, <3>1, <3>2
  <2>8. ASSUME NEW s \in Subs, AddSub(s) PROVE Kept'
    BY <1>3, <2>1, <2>8 DEF AddSub
  <2>9. ASSUME NEW s \in Subs, NEW ids \in SUBSET Ids, NEW update \in BOOLEAN, Refresh(s, ids, update)
        PROVE  Kept'
    <3> DEFINE nodes == Others(s) \cup {[id |-> id, sub |-> s] : id \in ids}
               gone == mem.state.node # None /\ ~HasNode(nodes, mem.state.node)
    <3>1. SetNodes(nodes, IF gone /\ update THEN None ELSE mem.state.node, "deleteNode")
          /\ cut' = IF gone /\ ~update THEN cut \cup {"selection"} ELSE cut
      BY <2>9 DEF Refresh
    <3>2. ~(gone /\ ~update)
      BY <3>1 DEF Cuts
    <3>3. Found(IF gone /\ update THEN None ELSE mem.state.node, nodes)
      BY <3>2 DEF Found
    <3> HIDE DEF nodes, gone
    <3> QED BY <2>2, <3>1, <3>3
  <2>10. ASSUME NEW s \in Subs, DeleteSub(s) PROVE Kept'
    <3>1. Found(mem.state.node, Others(s))
      BY <2>10 DEF DeleteSub, Cuts, Found
    <3>2. mem'.state = mem.state /\ mem'.nodes = Others(s) /\ pc' = "deleteSub"
      BY <2>10 DEF DeleteSub
    <3>3. mem.subs \ {s} \in SUBSET Subs /\ Save("subs", mem.subs \ {s})
      BY <2>10 DEF DeleteSub
    <3>4. Leaves("state") /\ Leaves("nodes")
      BY <3>3, SubsSaved
    <3> QED BY <1>4, <2>1, <3>1, <3>2, <3>4 DEF Serving, Halves, Ahead
  <2>11. ASSUME NEW c \in Confs, SaveConf(c) PROVE Kept'
    BY <1>3, <2>1, <2>11 DEF SaveConf
  <2>12. ASSUME NEW c \in Confs, DeleteConf(c) PROVE Kept'
    <3>1. mem'.state.node = mem.state.node /\ mem'.nodes = mem.nodes /\ pc' \in {"up", "deleteConf"}
          /\ Leaves("state") /\ Leaves("nodes")
      BY <1>2, <2>12 DEF DeleteConf, State, Dir, Leaves
    <3> QED BY <1>4, <2>1, <3>1 DEF Serving, Halves, Ahead
  <2>13. ASSUME NEW c \in Confs \cup {None}, SelectConf(c) PROVE Kept'
    <3>1. [mem.state EXCEPT !.conf = c] \in State /\ [mem.state EXCEPT !.conf = c].node = mem.state.node
      BY <1>2, <2>13 DEF State
    <3> QED BY <2>1, <2>3, <2>13, <3>1 DEF SelectConf
  <2>15. CASE UpdateNothing
    <3>1. [mem.state EXCEPT !.node = None] \in State /\ [mem.state EXCEPT !.node = None].node = None
      BY <1>2 DEF State
    <3> QED BY <2>3, <2>15, <3>1 DEF UpdateNothing, Found
  <2>14. CASE EditRules
    <3>1. mem'.state.node = mem.state.node /\ mem'.nodes = mem.nodes /\ pc' = "editRules"
          /\ Leaves("state") /\ Leaves("nodes")
      BY <1>2, <2>14 DEF EditRules, State, Dir, Leaves
    <3> QED BY <1>4, <2>1, <3>1 DEF Serving, Halves, Ahead
  <2> QED
    BY <1>12, <2>4, <2>5, <2>6, <2>7, <2>8, <2>9, <2>10, <2>11, <2>12, <2>13, <2>14, <2>15 DEF Request
<1>13. CASE Crash
  <2>1. pc \notin Ahead /\ ~HalfMoved /\ stale \cap {"state", "nodes"} = {}
    BY <1>13 DEF Crash, Ahead, Halves, Cuts
  <2>2. disk' = disk /\ legacy' = legacy /\ pc' = "off"
    BY <1>13 DEF Crash
  <2>3. ASSUME ~Moving' PROVE Found(Read(disk.state, EmptyState).node, Read(disk.nodes, {}))
    <3>1. ~Moving
      BY <2>2, <2>3 DEF Moving
    <3>2. CASE pc \in Moves
      <4>1. pc = "subs" /\ disk.nodes = legacy.nodes /\ legacy.nodes # Missing /\ disk.subs = Missing
        BY <1>0, <3>1, <3>2 DEF MoveInv, Moving, Moves, Cuts
      <4> QED BY <2>1, <4>1 DEF HalfMoved
    <3> QED BY <1>1, <1>13, <2>1, <3>1, <3>2 DEF Crash, Places, Serving
  <2> QED BY <2>2, <2>3 DEF Serving, Halves
<1>14. CASE UNCHANGED vars
  BY <1>1, <1>14 DEF vars, Moving
<1> QED
  BY <1>5, <1>6, <1>7, <1>8, <1>9, <1>10, <1>11, <1>12, <1>13, <1>14, <1>15 DEF Next

\* The selected node is in the list, or an operation on both files or the
\* move was cut, or the daemon died with the state or the nodes unsaved, or a
\* subscription took the node with it.
THEOREM AlwaysFound == Spec => []SelectionFound
<1>1. Init => Synced /\ SelInv
  BY DEF Init, Synced, SelInv, Found, Moving, Serving, Halves, Read, EmptyDir, EmptyState
<1>2. SelInv => SelectionFound
  BY DEF SelInv, SelectionFound, Found, Serving, Cuts
<1> QED
  BY <1>1, <1>2, TypeInit, TypeNext, SyncedNext, MoveInit, MoveNext, BootInit, BootNext, SelNext, PTL DEF Spec
-----------------------------------------------------------------------------
(***************************************************************************)
(* What happens before the daemon serves for the first time, and what may  *)
(* no longer happen once it has.                                           *)
(***************************************************************************)
ServedInv ==
  /\ pc \in {"up"} \cup (Halves \ {"healed", "seeded"}) => served
  /\ served /\ "move" \notin cut => ~Moving /\ pc \notin Moves /\ todo = {}

\* A request does not end the time before serving, for it is over.
LEMMA RequestServed == ASSUME Request PROVE served' = served
<1>1. ASSUME NEW nodes, NEW node, NEW half, SetNodes(nodes, node, half) PROVE served' = served
  BY <1>1 DEF SetNodes
<1>2. ASSUME NEW s, SetState(s) PROVE served' = served
  BY <1>2 DEF SetState
<1>3. ASSUME NEW id, SelectNode(id) \/ Import(id) \/ DeleteNode(id) \/ \E new \in Ids : EditNode(id, new)
      PROVE  served' = served
  <2>1. CASE SelectNode(id)
    BY <1>2, <2>1 DEF SelectNode
  <2>2. CASE Import(id)
    BY <1>1, <2>2 DEF Import
  <2>3. CASE DeleteNode(id)
    BY <1>1, <2>3 DEF DeleteNode
  <2>4. ASSUME NEW new, EditNode(id, new) PROVE served' = served
    BY <1>1, <2>4 DEF EditNode
  <2> QED BY <1>3, <2>1, <2>2, <2>3, <2>4
<1>4. ASSUME NEW s, AddSub(s) \/ DeleteSub(s) PROVE served' = served
  BY <1>4 DEF AddSub, DeleteSub
<1>5. ASSUME NEW s, NEW ids, NEW update, Refresh(s, ids, update) PROVE served' = served
  BY <1>1, <1>5 DEF Refresh
<1>6. ASSUME NEW c, SaveConf(c) \/ DeleteConf(c) \/ SelectConf(c) PROVE served' = served
  <2>1. CASE SelectConf(c)
    BY <1>2, <2>1 DEF SelectConf
  <2>2. CASE SaveConf(c) \/ DeleteConf(c)
    BY <2>2 DEF SaveConf, DeleteConf
  <2> QED BY <1>6, <2>1, <2>2
<1>8. CASE UpdateNothing
  BY <1>2, <1>8 DEF UpdateNothing
<1>7. CASE EditRules
  BY <1>7 DEF EditRules
<1> QED BY <1>3, <1>4, <1>5, <1>6, <1>7, <1>8 DEF Request

LEMMA ServedNext == TypeOK /\ MoveInv /\ MoveInv' /\ ServedInv /\ [Next]_vars => ServedInv'
<1> SUFFICES ASSUME TypeOK, MoveInv, MoveInv', ServedInv, [Next]_vars PROVE ServedInv' OBVIOUS
<1>1. cut \subseteq cut'
  BY CutGrows
<1>2. CASE Start
  BY <1>2 DEF Start, ServedInv, Moving, Moves, Halves
<1>3. CASE CopyFile
  <2>1. ~(served' /\ "move" \notin cut')
    BY <1>1, <1>3 DEF CopyFile, ServedInv
  <2> QED BY <1>3, <2>1 DEF CopyFile, NextMove, ServedInv, Moves, Halves
<1>4. ASSUME NEW c \in Confs, CopyConf(c) PROVE ServedInv'
  <2>1. ~(served' /\ "move" \notin cut')
    BY <1>1, <1>4 DEF CopyConf, ServedInv
  <2> QED BY <1>4, <2>1 DEF CopyConf, ServedInv, Halves
<1>8. ASSUME NEW a \in Awgs, CopyAwg(a) PROVE ServedInv'
  <2>1. ~(served' /\ "move" \notin cut')
    BY <1>1, <1>8 DEF CopyAwg, ServedInv
  <2> QED BY <1>8, <2>1 DEF CopyAwg, ServedInv, Halves
<1>5. CASE Load \/ HealNodes \/ Seed \/ SaveState \/ SaveNodes \/ Request
  <2>1. "move" \notin cut' => ~Moving' /\ pc' \notin Moves /\ todo' = {}
    <3>1. pc' \in Serving /\ todo' = todo /\ pc' \notin Moves
      BY <1>5, NodesStay DEF Serving, Halves, Moves, Stays
    <3>2. todo = {}
      BY <1>5, NodesStay DEF MoveInv
    <3> QED BY <3>1, <3>2 DEF MoveInv
  <2>2. pc' \in {"up"} \cup (Halves \ {"healed", "seeded"}) => served'
    <3>1. CASE Load
      BY <3>1 DEF Load, Halves
    <3>2. CASE HealNodes
      BY <3>2 DEF HealNodes, Halves
    <3>3. CASE Seed
      BY <3>3 DEF Seed, Halves
    <3>4. CASE SaveState
      BY <3>4 DEF SaveState, Halves
    <3>5. CASE SaveNodes
      BY <3>5 DEF SaveNodes, ServedInv, Halves
    <3>6. CASE Request
      BY <3>6, RequestServed DEF Request, ServedInv
    <3> QED BY <1>5, <3>1, <3>2, <3>3, <3>4, <3>5, <3>6
  <2> QED BY <2>1, <2>2 DEF ServedInv
<1>6. CASE Crash
  BY <1>1, <1>6 DEF Crash, ServedInv, Moving, Moves, Halves
<1>7. CASE UNCHANGED vars
  BY <1>7 DEF vars, ServedInv, Moving
<1> QED
  BY <1>2, <1>3, <1>4, <1>5, <1>6, <1>7, <1>8 DEF Next

\* At later starts the files of the older version are not looked at again:
\* main changes the list of nodes by healing it, and nothing else.
THEOREM NeverRevived == Spec => NothingRevived
<1> DEFINE Unrevived ==
      served /\ "move" \notin cut /\ pc \in {"off", "confs", "heal"} \cup Moves =>
        /\ disk'.confs = disk.confs
        /\ disk'.subs = disk.subs
        /\ disk.nodes # Missing => disk'.nodes \in {disk.nodes, HealAll(disk.nodes)}
<1>1. Init => Synced /\ ServedInv
  BY DEF Init, Synced, ServedInv, Serving, Halves
<1>2. TypeOK /\ Synced /\ BootInv /\ ServedInv /\ [Next]_vars => [Unrevived]_vars
  <2> SUFFICES ASSUME TypeOK, Synced, BootInv, ServedInv, [Next]_vars,
                      served, "move" \notin cut, pc \in {"off", "confs", "heal"} \cup Moves
               PROVE  /\ disk'.confs = disk.confs
                      /\ disk'.subs = disk.subs
                      /\ disk.nodes # Missing => disk'.nodes \in {disk.nodes, HealAll(disk.nodes)}
    OBVIOUS
  <2>1. CASE Start \/ Load \/ Crash \/ UNCHANGED vars
    BY <2>1 DEF Start, Load, Crash, vars
  <2>2. CASE CopyFile \/ (\E c \in Confs : CopyConf(c)) \/ (\E a \in Awgs : CopyAwg(a))
    BY <2>2 DEF CopyFile, CopyConf, CopyAwg, ServedInv
  <2>3. CASE HealNodes
    <3>1. disk.nodes # Missing => mem.nodes = disk.nodes
      BY <2>3 DEF HealNodes, Synced, BootInv, Serving, Halves, Read
    <3>2. CASE disk' = disk
      BY <3>2
    <3>3. CASE Save("nodes", HealAll(mem.nodes))
      BY <3>1, <3>3, HealAllType, NodesSaved DEF Saves, Leaves, SameDirs, TypeOK
    <3> QED BY <2>3, <3>2, <3>3 DEF HealNodes
  <2>4. CASE Seed \/ SaveState \/ SaveNodes \/ Request
    BY <2>4 DEF Seed, SaveState, SaveNodes, Request, Halves, Moves
  <2> QED BY <2>1, <2>2, <2>3, <2>4 DEF Next
<1> QED
  BY <1>1, <1>2, TypeInit, TypeNext, SyncedNext, MoveInit, MoveNext, BootInit, BootNext, ServedNext, PTL DEF Spec, NothingRevived
-----------------------------------------------------------------------------
(***************************************************************************)
(* The takeover.  Before anything was served or cut, the disk holds what   *)
(* the older version left, as far as main has come, and nothing else.      *)
(***************************************************************************)
Taken ==
  /\ legacy.nodes # Missing
  /\ pc \in {"confs", "heal", "healed", "seed", "seeded"} \/ (pc = "off" /\ ~Moving)

\* The selection has followed its node, or neither is healed yet.
Placed ==
  \/ disk.state.node = Heal(legacy.state.node)
  \/ disk.nodes = legacy.nodes /\ disk.state.node = legacy.state.node

TakenHere ==
  /\ disk.subs = legacy.subs /\ disk.nodes \in {legacy.nodes, HealAll(legacy.nodes)}
  /\ disk.state # Missing /\ disk.state.conf = legacy.state.conf
  /\ legacy.confs \subseteq disk.confs \cup todo /\ legacy.awgs \subseteq disk.awgs \cup todo
  /\ pc \in {"off", "confs", "heal"} => Placed

TakenRead ==
  /\ pc \in {"heal", "healed", "seed", "seeded"} => mem.subs = legacy.subs
  /\ pc \in {"healed", "seed", "seeded"} =>
       mem.nodes = HealAll(legacy.nodes) /\ mem.state.node = Heal(legacy.state.node)
  /\ pc \in {"heal", "healed", "seed"} => mem.state.conf = legacy.state.conf

TakenInv ==
  cut = {} /\ ~served =>
    /\ todo \subseteq legacy.confs \cup legacy.awgs
    /\ pc # "seeded" => disk.confs \subseteq legacy.confs
    /\ Taken => TakenHere /\ TakenRead
    /\ pc = "seeded" =>
         /\ mem.state.conf # None
         /\ Taken /\ legacy.state.conf # None => mem.state.conf = legacy.state.conf

\* A new id is not one of those that are wrong.
LEMMA HealTwice ==
  ASSUME NEW nodes \in SUBSET Node PROVE HealAll(HealAll(nodes)) = HealAll(nodes)
<1>1. ASSUME NEW n \in HealAll(nodes) PROVE n.id \notin DOMAIN Healed
  <2>1. PICK m \in nodes : n = [m EXCEPT !.id = Heal(m.id)]
    BY <1>1 DEF HealAll
  <2>2. n.id = Heal(m.id)
    BY <2>1 DEF Node
  <2> QED BY <2>2, HealedAssumption DEF Heal
<1> QED BY <1>1, HealAllType, HealNothing

\* Healing takes the selection along: it is one of the list, or healed before.
LEMMA HealPlaced ==
  ASSUME TypeOK, MoveInv, BootInv, Synced, legacy.nodes # Missing, TakenHere, pc = "heal",
         NEW node, node = (IF HasNode({n \in mem.nodes : n.id \in DOMAIN Healed}, mem.state.node)
                             THEN Heal(mem.state.node) ELSE mem.state.node)
  PROVE  HealAll(mem.nodes) = HealAll(legacy.nodes) /\ node = Heal(legacy.state.node)
<1>1. legacy.nodes \in SUBSET Node /\ legacy.state \in State /\ Whole(legacy)
  BY LegacyWhole DEF MoveInv
<1>2. disk.nodes \in SUBSET Node /\ disk.nodes # Missing /\ HealAll(disk.nodes) = HealAll(legacy.nodes)
  BY <1>1, HealAllType, HealTwice, MissingAssumption DEF TakenHere
<1>3. mem.nodes = disk.nodes /\ mem.state = disk.state
  BY <1>2 DEF Synced, BootInv, Serving, Halves, Read, TakenHere
<1>4. legacy.state.node \in Ids \cup {None} /\ None \notin DOMAIN Healed /\ DOMAIN Healed \subseteq Ids
  BY <1>1, HealedAssumption, DefaultAssumption DEF State
<1>5. Heal(legacy.state.node) \notin DOMAIN Healed
  BY <1>4, HealedAssumption DEF Heal
<1>6. CASE disk.state.node = Heal(legacy.state.node)
  <2>1. ~HasNode({n \in mem.nodes : n.id \in DOMAIN Healed}, mem.state.node)
    BY <1>3, <1>5, <1>6 DEF HasNode
  <2> QED BY <1>2, <1>3, <1>6, <2>1
<1>7. CASE disk.nodes = legacy.nodes /\ disk.state.node = legacy.state.node
  <2>1. legacy.state.node = None \/ HasNode(mem.nodes, legacy.state.node)
    BY <1>1, <1>3, <1>7 DEF Whole
  <2>2. HasNode({n \in mem.nodes : n.id \in DOMAIN Healed}, legacy.state.node) <=> legacy.state.node \in DOMAIN Healed
    BY <1>4, <2>1 DEF HasNode
  <2> QED BY <1>2, <1>3, <1>7, <2>2 DEF Heal
<1> QED BY <1>6, <1>7 DEF TakenHere, Placed

LEMMA TakenNext ==
  TypeOK /\ Synced /\ MoveInv /\ MoveInv' /\ BootInv /\ ServedInv /\ ServedInv' /\ TakenInv /\ [Next]_vars => TakenInv'
<1> DEFINE Kept ==
      /\ todo \subseteq legacy.confs \cup legacy.awgs
      /\ pc # "seeded" => disk.confs \subseteq legacy.confs
      /\ Taken => TakenHere /\ TakenRead
      /\ pc = "seeded" =>
           /\ mem.state.conf # None
           /\ Taken /\ legacy.state.conf # None => mem.state.conf = legacy.state.conf
<1> SUFFICES ASSUME TypeOK, Synced, MoveInv, MoveInv', BootInv, ServedInv, ServedInv', TakenInv, [Next]_vars,
                    cut' = {}, ~served'
             PROVE  Kept'
  BY DEF TakenInv
<1> USE DEF TypeOK
<1>0. cut = {} /\ ~served
  <2>1. served => served'
    <3>1. CASE Request
      BY <3>1, RequestServed
    <3>2. CASE ~Request
      BY <3>2 DEF Next, Start, CopyFile, CopyConf, CopyAwg, Load, HealNodes, Seed, SaveState, SaveNodes, Crash, vars
    <3> QED BY <3>1, <3>2
  <2> QED BY <2>1, CutGrows
<1>1. Kept
  BY <1>0 DEF TakenInv
<1>2. legacy' = legacy
  BY CutGrows
<1>3. CASE Start
  <2>1. CASE Moving
    BY <1>1, <1>2, <1>3, <2>1 DEF Start, Taken
  <2>2. CASE ~Moving
    <3>1. legacy.nodes # Missing => Taken
      BY <1>3, <2>2 DEF Start, Taken
    <3>2. todo = {}
      BY <1>3, <2>2 DEF Start, MoveInv
    <3>3. pc = "off" /\ pc' = "confs" /\ todo' = {} /\ disk' = disk /\ mem' = mem
      BY <1>3, <2>2 DEF Start
    <3>4. Taken' => Taken
      BY <1>2, <3>1 DEF Taken
    <3>5. TakenHere => TakenHere'
      BY <1>2, <3>2, <3>3 DEF TakenHere, Placed
    <3>6. TakenRead'
      BY <3>3 DEF TakenRead
    <3> QED BY <1>1, <1>2, <3>2, <3>3, <3>4, <3>5, <3>6
  <2> QED BY <2>1, <2>2
<1>4. CASE CopyFile
  <2>1. cut' = cut /\ disk' = IF disk[pc] # Missing THEN disk ELSE [disk EXCEPT ![pc] = legacy[pc]]
    BY <1>0, <1>4 DEF CopyFile, Copy
  <2>2. disk'.confs = disk.confs /\ todo' = todo /\ pc \in Moves /\ pc' \in {"nodes", "subs", "confs"}
    BY <1>4, <2>1 DEF CopyFile, Moves, NextMove, Dir
  <2>3. CASE pc # "subs"
    BY <1>1, <1>2, <1>4, <2>2, <2>3 DEF CopyFile, Moves, NextMove, Taken
  <2>4. CASE pc = "subs"
    <3>1. disk.state = legacy.state /\ disk.nodes = legacy.nodes /\ legacy.nodes # Missing
          /\ disk.subs = Missing /\ todo = legacy.confs \cup legacy.awgs
      BY <1>0, <2>4 DEF MoveInv, Moves
    <3>2. legacy.state # Missing
      BY <3>1, LegacyWhole DEF MoveInv, Whole
    <3>3. disk'.subs = legacy.subs /\ disk'.nodes = legacy.nodes /\ disk'.state = legacy.state /\ pc' = "confs"
      BY <1>4, <2>1, <2>4, <3>1 DEF CopyFile, NextMove, Dir
    <3>4. TakenHere' /\ TakenRead'
      BY <1>2, <2>2, <3>1, <3>2, <3>3 DEF TakenHere, Placed, TakenRead
    <3> QED BY <1>1, <1>2, <2>2, <2>4, <3>1, <3>3, <3>4
  <2> QED BY <2>3, <2>4
<1>5. ASSUME NEW c \in Confs, CopyConf(c) PROVE Kept'
  <2>1. disk' = IF c \in disk.confs THEN disk ELSE [disk EXCEPT !.confs = @ \cup {c}]
    BY <1>0, <1>5 DEF CopyConf, Copy
  <2>2. disk'.confs = disk.confs \cup {c} /\ disk'.state = disk.state /\ disk'.nodes = disk.nodes
        /\ disk'.subs = disk.subs /\ disk'.awgs = disk.awgs
    <3>1. CASE c \in disk.confs
      BY <2>1, <3>1
    <3>2. CASE c \notin disk.confs
      BY <2>1, <3>2 DEF Dir
    <3> QED BY <3>1, <3>2
  <2>3. todo' = todo \ {c} /\ c \in todo /\ pc = "confs" /\ pc' = "confs" /\ mem' = mem
    BY <1>5 DEF CopyConf
  <2>4. c \notin legacy.awgs /\ legacy.awgs \subseteq Awgs /\ c \in legacy.confs
    BY <1>1, <2>3, AwgsAssumption DEF Dir
  <2>5. TakenHere => TakenHere'
    BY <1>2, <2>2, <2>3, <2>4 DEF TakenHere, Placed
  <2>6. TakenRead'
    BY <2>3 DEF TakenRead
  <2> QED BY <1>1, <1>2, <2>2, <2>3, <2>4, <2>5, <2>6 DEF Taken
<1>13. ASSUME NEW a \in Awgs, CopyAwg(a) PROVE Kept'
  <2>1. disk' = IF a \in disk.awgs THEN disk ELSE [disk EXCEPT !.awgs = @ \cup {a}]
    BY <1>0, <1>13 DEF CopyAwg, Copy
  <2>2. disk'.awgs = disk.awgs \cup {a} /\ disk'.state = disk.state /\ disk'.nodes = disk.nodes
        /\ disk'.subs = disk.subs /\ disk'.confs = disk.confs
    <3>1. CASE a \in disk.awgs
      BY <2>1, <3>1
    <3>2. CASE a \notin disk.awgs
      BY <2>1, <3>2 DEF Dir
    <3> QED BY <3>1, <3>2
  <2>3. todo' = todo \ {a} /\ a \in todo /\ pc = "confs" /\ pc' = "confs" /\ mem' = mem
    BY <1>13 DEF CopyAwg
  <2>4. a \notin legacy.confs
    BY <2>3, AwgsAssumption DEF Dir
  <2>5. TakenHere => TakenHere'
    BY <1>2, <2>2, <2>3, <2>4 DEF TakenHere, Placed
  <2>6. TakenRead'
    BY <2>3 DEF TakenRead
  <2> QED BY <1>1, <1>2, <2>2, <2>3, <2>5, <2>6 DEF Taken
<1>6. CASE Load
  <2>1. todo' = todo /\ disk' = disk /\ pc = "confs" /\ pc' = "heal" /\ stale' = stale
    BY <1>6 DEF Load
  <2>2. Taken' => Taken
    BY <1>2, <2>1 DEF Taken
  <2>3. ASSUME Taken PROVE mem'.state = disk.state /\ mem'.subs = legacy.subs
    <3>1. legacy.subs # Missing /\ disk.state # Missing /\ disk.subs = legacy.subs
      BY <1>1, <2>3, LegacyWhole DEF Taken, MoveInv, Whole, TakenHere
    <3> QED BY <1>6, <3>1 DEF Load, Read
  <2>4. Taken => TakenHere' /\ TakenRead'
    BY <1>1, <1>2, <2>1, <2>3 DEF TakenHere, TakenRead, Placed
  <2> QED BY <1>1, <1>2, <2>1, <2>2, <2>4
<1>7. CASE HealNodes
  <2>1. todo' = todo /\ pc = "heal" /\ pc' \in {"healed", "seed"} /\ mem'.state.conf = mem.state.conf
        /\ mem'.subs = mem.subs /\ mem'.nodes = HealAll(mem.nodes)
        /\ mem'.state.node = (IF HasNode({n \in mem.nodes : n.id \in DOMAIN Healed}, mem.state.node)
                                THEN Heal(mem.state.node) ELSE mem.state.node)
    BY <1>7 DEF HealNodes, State
  <2>2. Taken' => Taken
    BY <1>2, <2>1 DEF Taken
  <2>3. disk'.subs = disk.subs /\ disk'.state = disk.state /\ SameDirs /\ disk'.nodes \in {disk.nodes, HealAll(mem.nodes)}
    <3>1. CASE disk' = disk
      BY <3>1 DEF SameDirs
    <3>2. CASE Save("nodes", HealAll(mem.nodes))
      BY <3>2, HealAllType, NodesSaved DEF Leaves, Saves
    <3> QED BY <1>7, <3>1, <3>2 DEF HealNodes
  <2>4. ASSUME Taken PROVE TakenHere' /\ TakenRead'
    <3>1. HealAll(mem.nodes) = HealAll(legacy.nodes) /\ mem'.state.node = Heal(legacy.state.node)
      BY <1>1, <2>1, <2>4, HealPlaced DEF Taken
    <3>2. TakenHere /\ TakenRead
      BY <1>1, <2>4
    <3>3. TakenHere'
      BY <1>2, <2>1, <2>3, <3>1, <3>2 DEF TakenHere, SameDirs
    <3>4. TakenRead'
      BY <1>2, <2>1, <3>1, <3>2 DEF TakenRead
    <3> QED BY <3>3, <3>4
  <2> QED BY <1>1, <1>2, <2>1, <2>2, <2>3, <2>4 DEF SameDirs
<1>8. CASE Seed
  <2>1. disk.confs = {} /\ pc = "seed" /\ pc' = "seeded" /\ todo' = todo
    BY <1>8 DEF Seed
  <2>2. disk'.subs = disk.subs /\ disk'.state = disk.state /\ disk'.nodes = disk.nodes /\ disk'.awgs = disk.awgs
        /\ mem'.state.conf = (IF mem.state.conf = None THEN Default ELSE mem.state.conf)
        /\ mem'.subs = mem.subs /\ mem'.nodes = mem.nodes /\ mem'.state.node = mem.state.node
    BY <1>8, <2>1 DEF Seed, Dir, State
  <2>3. todo = {}
    BY <2>1 DEF MoveInv, Serving
  <2>4. Taken' => Taken
    BY <1>2, <2>1 DEF Taken
  <2>5. Taken => TakenHere'
    BY <1>1, <1>2, <2>1, <2>2, <2>3 DEF TakenHere
  <2>6. Taken => TakenRead'
    BY <1>1, <1>2, <2>1, <2>2 DEF TakenRead
  <2>7. Taken => mem.state.conf = legacy.state.conf
    BY <1>1, <2>1 DEF TakenRead
  <2> QED BY <1>1, <1>2, <2>1, <2>2, <2>3, <2>4, <2>5, <2>6, <2>7, DefaultAssumption
<1>9. CASE SaveState
  <2>1. pc = "healed" /\ pc' = "seed" /\ todo' = todo /\ mem' = mem
    BY <1>9 DEF SaveState
  <2>2. disk'.subs = disk.subs /\ disk'.state \in {disk.state, mem.state} /\ disk'.nodes = disk.nodes /\ SameDirs
    BY <1>9, StateSaved DEF SaveState, Saves, Leaves
  <2>3. mem.state # Missing
    BY MissingAssumption
  <2>4. Taken' => Taken
    BY <1>2, <2>1 DEF Taken
  <2>5. Taken => TakenHere'
    BY <1>1, <1>2, <2>1, <2>2, <2>3 DEF TakenHere, TakenRead, SameDirs
  <2>6. Taken => TakenRead'
    BY <1>1, <1>2, <2>1 DEF TakenRead
  <2> QED BY <1>1, <1>2, <2>1, <2>2, <2>4, <2>5, <2>6 DEF SameDirs
<1>10. CASE SaveNodes \/ Request
  BY <1>0, <1>10 DEF SaveNodes, Request, ServedInv, Halves
<1>11. CASE Crash
  <2>1. disk' = disk /\ pc' = "off" /\ todo' = {} /\ ~HalfMoved /\ pc \notin Halves /\ stale = {}
    BY <1>11 DEF Crash
  <2>2. ASSUME Taken' PROVE TakenHere' /\ TakenRead'
    <3>1. legacy.nodes # Missing /\ ~Moving /\ disk.nodes # Missing
      BY <1>2, <2>1, <2>2 DEF Taken, Moving
    <3>2. pc \notin Moves
      <4> SUFFICES ASSUME pc \in Moves PROVE FALSE OBVIOUS
      <4>1. pc = "subs" /\ disk.subs = Missing
        BY <1>0, <3>1 DEF MoveInv, Moves
      <4> QED BY <2>1, <3>1, <4>1 DEF HalfMoved
    <3>3. pc \in {"confs", "heal", "seed"}
      BY <1>0, <1>11, <2>1, <3>2 DEF Crash, Places, ServedInv
    <3>4. Taken
      BY <3>1, <3>3 DEF Taken
    <3>5. todo \subseteq disk.confs \cup disk.awgs
      BY <2>1, <3>1, <3>3 DEF HalfMoved, MoveInv, Serving
    <3>6. legacy.confs \subseteq disk.confs /\ legacy.awgs \subseteq disk.awgs
      <4>1. legacy.confs \cap disk.awgs = {} /\ legacy.awgs \cap disk.confs = {}
        BY AwgsAssumption DEF Dir
      <4> QED BY <1>1, <3>4, <3>5, <4>1 DEF TakenHere
    <3>7. Placed
      <4>1. CASE pc \in {"confs", "heal"}
        BY <1>1, <3>4, <4>1 DEF TakenHere
      <4>2. CASE pc = "seed"
        <5>1. mem.state = disk.state
          BY <1>1, <2>1, <3>4, <4>2 DEF Synced, Read, TakenHere
        <5> QED BY <1>1, <3>4, <4>2, <5>1 DEF TakenRead, Placed
      <4> QED BY <3>3, <4>1, <4>2
    <3>8. TakenHere'
      BY <1>1, <1>2, <2>1, <3>4, <3>6, <3>7 DEF TakenHere, Placed
    <3> QED BY <2>1, <3>8 DEF TakenRead
  <2>3. pc # "seeded"
    BY <2>1 DEF Halves
  <2> QED BY <1>1, <1>2, <2>1, <2>2, <2>3
<1>12. CASE UNCHANGED vars
  BY <1>1, <1>12 DEF vars, Taken, TakenHere, TakenRead, Placed, Moving
<1> QED
  BY <1>3, <1>4, <1>5, <1>6, <1>7, <1>8, <1>9, <1>10, <1>11, <1>12, <1>13 DEF Next

\* However often the daemon dies on the way, unless it dies with nodes.json
\* there and another file not, or with one that could not be saved, it does
\* not serve before it has all that the older version left, the files of the
\* AWG nodes among it and the selection at its node, nor without a .conf on a
\* clean install.
THEOREM AllTakenOver == Spec => TakenOver
<1> DEFINE Entire ==
             /\ legacy.subs # Missing => mem'.subs = legacy.subs
             /\ legacy.nodes # Missing => mem'.nodes = HealAll(legacy.nodes)
             /\ legacy.state # Missing =>
                  /\ mem'.state.node = Heal(legacy.state.node)
                  /\ legacy.state.conf # None => mem'.state.conf = legacy.state.conf
             /\ legacy.confs \subseteq disk'.confs /\ legacy.awgs \subseteq disk'.awgs
             /\ cut' = {} /\ mem'.state.conf = None => legacy.confs # {}
<1>1. Init => Synced /\ ServedInv /\ TakenInv
  BY DEF Init, Synced, ServedInv, TakenInv, Taken, Moving, Moves, Serving, Halves, EmptyDir
<1>2. TypeOK /\ Synced /\ MoveInv /\ ServedInv /\ TakenInv /\ [Next]_vars => [FirstServed /\ cut = {} => Entire]_vars
  <2> SUFFICES ASSUME TypeOK, Synced, MoveInv, ServedInv, TakenInv, [Next]_vars, FirstServed, cut = {}
               PROVE  Entire
    OBVIOUS
  <2>0. ~served /\ served'
    BY DEF FirstServed
  <2>1. (Seed /\ (cut' = {} => disk.confs # {})) \/ (SaveState /\ pc = "seeded")
    <3>1. CASE Request
      BY <2>0, <3>1, RequestServed
    <3>2. CASE ~Request
      BY <2>0, <3>2 DEF Next, Start, CopyFile, CopyConf, CopyAwg, Load, HealNodes, Seed, SaveState, SaveNodes, Crash,
                        ServedInv, Halves, vars
    <3> QED BY <3>1, <3>2
  <2>2. pc \in {"seed", "seeded"} /\ mem' = mem /\ SameDirs
    <3>1. CASE Seed
      BY <2>0, <3>1 DEF Seed, SameDirs
    <3>2. CASE SaveState /\ pc = "seeded"
      BY <3>2, StateSaved DEF SaveState, TypeOK
    <3> QED BY <2>1, <3>1, <3>2
  <2>3. todo = {}
    BY <2>2 DEF MoveInv, Serving, Halves
  <2>4. cut' = {} /\ mem.state.conf = None => legacy.confs # {}
    BY <2>0, <2>1, <2>2 DEF TakenInv, Seed
  <2>5. CASE legacy.nodes = Missing
    <3>1. legacy = EmptyDir
      BY <2>5, LegaciesAssumption DEF MoveInv, Whole
    <3> QED BY <2>2, <2>4, <2>5, <3>1 DEF EmptyDir
  <2>6. CASE legacy.nodes # Missing
    <3>1. Taken
      BY <2>2, <2>6 DEF Taken
    <3>2. TakenHere /\ TakenRead /\ (pc = "seeded" /\ legacy.state.conf # None => mem.state.conf = legacy.state.conf)
      BY <2>0, <3>1 DEF TakenInv
    <3>3. legacy.confs \subseteq disk.confs /\ legacy.awgs \subseteq disk.awgs
      BY <2>3, <3>2 DEF TakenHere
    <3>4. mem.subs = legacy.subs /\ mem.nodes = HealAll(legacy.nodes) /\ mem.state.node = Heal(legacy.state.node)
          /\ (legacy.state.conf # None => mem.state.conf = legacy.state.conf)
      BY <2>2, <3>2 DEF TakenRead
    <3> QED BY <2>2, <2>4, <3>3, <3>4 DEF SameDirs
  <2> QED BY <2>5, <2>6
<1> QED
  BY <1>1, <1>2, TypeInit, TypeNext, SyncedNext, MoveInit, MoveNext, BootInit, BootNext, ServedNext, TakenNext,
     PTL DEF Spec, TakenOver
=============================================================================
