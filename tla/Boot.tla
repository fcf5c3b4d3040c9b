-------------------------------- MODULE Boot --------------------------------
(***************************************************************************)
(* The files of the daemon taken together (src/daemon/store.go): what main *)
(* does with them before it serves (migrateStateDir, NewStore,             *)
(* migrateEncodedNodes, seedDefaultConf), and the operations that write or *)
(* remove two of them, one after the other.  A single save is atomic       *)
(* (module SecretFile), two are not: the daemon may die in between, and    *)
(* begins again with what it finds.  A save may also fail; that is only    *)
(* logged (store.go:130, 156, 394), and memory goes on ahead of the file.  *)
(* One request is served at a time, but for a download that ends after its *)
(* subscription was deleted.  Importing an AWG node adds its configuration *)
(* to the directory awg, which no property here needs, and connlog.jsonl   *)
(* is module ConnLog's: the requests leave both out.                       *)
(***************************************************************************)
EXTENDS FiniteSets, Integers

CONSTANTS
  Legacies, \* directories an older version may have left
  MaxCuts,  \* bound on the kinds of operations left half done
  Awgs,     \* configurations of AWG nodes
  Ids,      \* node ids
  Healed,   \* the id a node gets that an older version parsed wrongly
  Subs,     \* subscriptions
  Confs,    \* names of .conf files
  Default,  \* "default", the name of the template
  NoSub,    \* the empty subscription id
  None,     \* no node, no .conf selected
  Missing   \* no such file

ASSUME HealedAssumption ==
  /\ DOMAIN Healed \subseteq Ids
  /\ \A id \in DOMAIN Healed : Healed[id] \in Ids \ DOMAIN Healed
ASSUME DefaultAssumption == Default \in Confs /\ None \notin Confs \cup Ids
ASSUME AwgsAssumption == Awgs \cap Confs = {}
ASSUME NoSubAssumption == NoSub \notin Subs
ASSUME MaxCutsAssumption == MaxCuts \in Nat

VARIABLES
  legacy,  \* the directory an older version used
  disk,    \* StateDir
  mem,     \* Store: state, nodes, subs
  pc,      \* where main or the request is
  todo,    \* files of confs and awg that migrateStateDir has yet to copy
  stale,   \* files that are behind memory: their last save failed
  late,    \* subscriptions that were deleted while a download of theirs goes on
  cut,     \* what was left half done, ever
  served   \* the daemon has answered requests before

vars == <<legacy, disk, mem, pc, todo, stale, late, cut, served>>

-----------------------------------------------------------------------------
(* Files *)

State == [node : Ids \cup {None}, conf : Confs \cup {None}]
Node == [id : Ids, sub : Subs \cup {NoSub}]

\* state.json, nodes.json, subs.json, and the directories confs and awg.
Dir == [state : State \cup {Missing}, nodes : (SUBSET Node) \cup {Missing},
        subs : (SUBSET Subs) \cup {Missing}, confs : SUBSET Confs, awgs : SUBSET Awgs]

EmptyDir == [state |-> Missing, nodes |-> Missing, subs |-> Missing, confs |-> {}, awgs |-> {}]

EmptyState == [node |-> None, conf |-> None]

\* readJSON leaves the value alone when there is no file.
Read(file, zero) == IF file = Missing THEN zero ELSE file

HasNode(nodes, id) == \E n \in nodes : n.id = id

\* An operation is here after the first of its two files.
Halves == {"healed", "seeded", "editNode", "deleteNode", "deleteSub", "deleteConf", "editRules"}

\* The files of the store, which migrateStateDir copies first, in this order.
Moves == {"state", "nodes", "subs"}
NextMove == [state |-> "nodes", nodes |-> "subs", subs |-> "confs"]

\* What leaves its traces: an operation that the daemon died in, a copy or the
\* template that could not be written, a subscription that took the selected
\* node with it or is still being downloaded, and a file that was behind
\* memory when the daemon died.
Traces == Halves \cup Moves \cup {"move", "seed", "selection", "late"}

Places == {"off", "heal", "seed", "up"} \cup Moves \cup {"confs"} \cup Halves

\* What an older version left is taken to be whole: a selection of a node and
\* a .conf that exist, and nodes of subscriptions it lists.
Whole(d) ==
  /\ Missing \notin {d.state, d.nodes, d.subs}
  /\ \A n \in d.nodes : n.sub \in d.subs \cup {NoSub}
  /\ d.state.node = None \/ HasNode(d.nodes, d.state.node)
  /\ d.state.conf \in d.confs \cup {None}

ASSUME MissingAssumption ==
  /\ \A state \in State : state # Missing
  /\ \A nodes \in SUBSET Node : nodes # Missing
  /\ \A subs \in SUBSET Subs : subs # Missing
ASSUME LegaciesAssumption == \A d \in Legacies : d \in Dir /\ Whole(d)

TypeOK ==
  /\ legacy \in Dir /\ disk \in Dir
  /\ mem \in [state : State, nodes : SUBSET Node, subs : SUBSET Subs]
  /\ pc \in Places
  /\ todo \in SUBSET (Confs \cup Awgs)
  /\ stale \in SUBSET Moves
  /\ late \in SUBSET Subs
  /\ cut \in SUBSET Traces
  /\ served \in BOOLEAN

Init ==
  /\ legacy \in Legacies \cup {EmptyDir}
  /\ disk = EmptyDir
  /\ mem = [state |-> EmptyState, nodes |-> {}, subs |-> {}]
  /\ pc = "off"
  /\ todo = {} /\ stale = {} /\ late = {}
  /\ cut = {}
  /\ served = FALSE

\* One of the three files is saved, or the save fails.
Save(file, value) ==
  \/ /\ disk' = [disk EXCEPT ![file] = value]
     /\ stale' = stale \ {file}
  \/ /\ disk' = disk
     /\ stale' = stale \cup {file}
     /\ Cardinality(cut \cup stale') <= MaxCuts

-----------------------------------------------------------------------------
(* Start *)

\* Bug: it is state.json that tells whether the move has been made.
BugMoving == legacy.nodes # Missing /\ disk.state = Missing

\* Bug: nothing tells that it has.
BugMovingAgain == legacy.nodes # Missing

\* migrateStateDir: nodes.json tells whether there is anything to move, and
\* whether that has been done.
Moving == legacy.nodes # Missing /\ disk.nodes = Missing

Start ==
  /\ pc = "off"
  /\ pc' = IF Moving THEN "state" ELSE "confs"
  /\ todo' = IF Moving THEN legacy.confs \cup legacy.awgs ELSE {}
  /\ UNCHANGED <<legacy, disk, mem, stale, late, cut, served>>

\* copyFileIfMissing; a copy that fails is logged and the next one made.
Copy(there, copied) ==
  \/ /\ disk' = IF there THEN disk ELSE copied
     /\ cut' = cut
  \/ /\ ~there
     /\ disk' = disk
     /\ cut' = cut \cup {"move"}
     /\ Cardinality(cut') <= MaxCuts

CopyFile ==
  /\ pc \in Moves
  /\ Copy(disk[pc] # Missing, [disk EXCEPT ![pc] = legacy[pc]])
  /\ pc' = NextMove[pc]
  /\ UNCHANGED <<legacy, mem, todo, stale, late, served>>

\* The .conf files, in whatever order the directory lists them.
CopyConf(c) ==
  /\ pc = "confs" /\ c \in todo
  /\ Copy(c \in disk.confs, [disk EXCEPT !.confs = @ \cup {c}])
  /\ todo' = todo \ {c}
  /\ UNCHANGED <<legacy, mem, pc, stale, late, served>>

\* ... and then the configurations of the AWG nodes.
CopyAwg(a) ==
  /\ pc = "confs" /\ todo \cap Confs = {} /\ a \in todo
  /\ Copy(a \in disk.awgs, [disk EXCEPT !.awgs = @ \cup {a}])
  /\ todo' = todo \ {a}
  /\ UNCHANGED <<legacy, mem, pc, stale, late, served>>

\* The rest of NewStore.
Load ==
  /\ pc = "confs" /\ todo = {}
  /\ mem' = [state |-> Read(disk.state, EmptyState), nodes |-> Read(disk.nodes, {}),
             subs |-> Read(disk.subs, {})]
  /\ pc' = "heal"
  /\ UNCHANGED <<legacy, disk, todo, stale, late, cut, served>>

Heal(id) == IF id \in DOMAIN Healed THEN Healed[id] ELSE id

HealAll(nodes) == {[n EXCEPT !.id = Heal(n.id)] : n \in nodes}

\* Bug: the selection follows without being saved.
BugHealNodes ==
  LET broken == \E n \in mem.nodes : n.id \in DOMAIN Healed
  IN  /\ pc = "heal"
      /\ mem' = [mem EXCEPT !.nodes = HealAll(@), !.state.node = Heal(@)]
      /\ IF broken THEN Save("nodes", mem'.nodes) ELSE UNCHANGED <<disk, stale>>
      /\ pc' = "seed"
      /\ UNCHANGED <<legacy, todo, late, cut, served>>

\* migrateEncodedNodes up to the save of nodes.json: nodes get new ids, and
\* the selection follows if it is one of them.
HealNodes ==
  LET broken == {n \in mem.nodes : n.id \in DOMAIN Healed}
      moved == HasNode(broken, mem.state.node)
  IN  /\ pc = "heal"
      /\ mem' = [mem EXCEPT !.nodes = HealAll(@), !.state.node = IF moved THEN Heal(@) ELSE @]
      /\ IF broken # {} THEN Save("nodes", HealAll(mem.nodes)) ELSE UNCHANGED <<disk, stale>>
      /\ pc' = IF moved THEN "healed" ELSE "seed"
      /\ UNCHANGED <<legacy, todo, late, cut, served>>

\* seedDefaultConf: the template, if there is no .conf at all, and its
\* selection, if there is none; or nothing, if it cannot be written.
Seed ==
  /\ pc = "seed"
  /\ \/ /\ disk.confs = {}
        /\ disk' = [disk EXCEPT !.confs = {Default}]
        /\ mem' = [mem EXCEPT !.state.conf = IF @ = None THEN Default ELSE @]
        /\ pc' = "seeded" /\ served' = served /\ cut' = cut
     \/ /\ disk.confs = {} => cut' = cut \cup {"seed"} /\ Cardinality(cut') <= MaxCuts
        /\ disk.confs # {} => cut' = cut
        /\ disk' = disk /\ mem' = mem /\ pc' = "up" /\ served' = TRUE
  /\ UNCHANGED <<legacy, todo, stale, late>>

-----------------------------------------------------------------------------
(* Requests *)

\* The second file is state.json.
SaveState ==
  /\ pc \in Halves \ {"deleteSub"}
  /\ Save("state", mem.state)
  /\ pc' = IF pc = "healed" THEN "seed" ELSE "up"
  /\ served' = (served \/ pc # "healed")
  /\ UNCHANGED <<legacy, mem, todo, late, cut>>

\* A request that changes the state only, and saves it.
SetState(state) ==
  /\ mem' = [mem EXCEPT !.state = state]
  /\ Save("state", state)
  /\ UNCHANGED <<legacy, pc, todo, late, cut, served>>

\* A request that changes the nodes and saves them, and then goes on to the
\* state if that changes too.
SetNodes(nodes, node, half) ==
  /\ mem' = [mem EXCEPT !.nodes = nodes, !.state.node = node]
  /\ Save("nodes", nodes)
  /\ pc' = IF node = mem.state.node THEN "up" ELSE half
  /\ UNCHANGED <<legacy, todo, served>>

\* /nodes/select
SelectNode(id) ==
  /\ HasNode(mem.nodes, id)
  /\ SetState([mem.state EXCEPT !.node = id])

\* The nodes with id: two subscriptions, or one and the user, may both have it.
With(id) == {n \in mem.nodes : n.id = id}

Own(id) == [id |-> id, sub |-> NoSub]

\* /nodes/import: a node with the id, if there is one, gives way.
Import(id) ==
  /\ \E n \in IF With(id) = {} THEN {Own(id)} ELSE With(id) :
       SetNodes((mem.nodes \ {n}) \cup {Own(id)}, mem.state.node, "up")
  /\ UNCHANGED <<late, cut>>

\* Bug: the selection stays with the old id.
BugEditNode(id, new) ==
  /\ \E n \in With(id) :
       SetNodes((mem.nodes \ ({n} \cup With(new))) \cup {Own(new)}, mem.state.node, "editNode")
  /\ UNCHANGED <<late, cut>>

\* /nodes/update: the selection follows the node to its new id.
EditNode(id, new) ==
  /\ \E n \in With(id) :
       SetNodes((mem.nodes \ ({n} \cup With(new))) \cup {Own(new)},
                IF mem.state.node = id THEN new ELSE mem.state.node, "editNode")
  /\ UNCHANGED <<late, cut>>

\* /nodes/delete: one node with the id goes.
DeleteNode(id) ==
  /\ \E n \in With(id) :
       SetNodes(mem.nodes \ {n}, IF mem.state.node = id THEN None ELSE mem.state.node, "deleteNode")
  /\ UNCHANGED <<late, cut>>

\* /subs/add as far as the list.
AddSub(s) ==
  /\ mem' = [mem EXCEPT !.subs = @ \cup {s}]
  /\ Save("subs", mem.subs \cup {s})
  /\ UNCHANGED <<legacy, pc, todo, late, cut, served>>

Others(s) == {n \in mem.nodes : n.sub # s}

\* A download of the subscription, by /subs/add, which leaves the selection
\* alone, or by /subs/update, which clears it when its node is gone.  One that
\* was under way when the subscription was deleted brings its nodes as well.
Refresh(s, ids, update) ==
  LET nodes == Others(s) \cup {[id |-> id, sub |-> s] : id \in ids}
      gone == mem.state.node # None /\ ~HasNode(nodes, mem.state.node)
  IN  /\ s \in mem.subs \cup late
      /\ late' = late \ {s}
      /\ SetNodes(nodes, IF gone /\ update THEN None ELSE mem.state.node, "deleteNode")
      /\ cut' = IF gone /\ ~update THEN cut \cup {"selection"} ELSE cut

\* /subs/update where no download brings anything, or none is left to make:
\* the active node is looked for all the same.
UpdateNothing ==
  /\ mem.state.node # None /\ ~HasNode(mem.nodes, mem.state.node)
  /\ SetState([mem.state EXCEPT !.node = None])

\* Bug: the nodes go from memory only.
BugDeleteSub(s) ==
  /\ s \in mem.subs
  /\ mem' = [mem EXCEPT !.subs = @ \ {s}, !.nodes = Others(s)]
  /\ Save("subs", mem.subs \ {s})
  /\ UNCHANGED <<legacy, pc, todo, late, cut, served>>

\* /subs/delete up to subs.json; the selection may be left without its node,
\* and a download of the subscription may be under way.
DeleteSub(s) ==
  LET gone == mem.state.node # None /\ ~HasNode(Others(s), mem.state.node)
  IN  /\ s \in mem.subs
      /\ mem' = [mem EXCEPT !.subs = @ \ {s}, !.nodes = Others(s)]
      /\ Save("subs", mem.subs \ {s})
      /\ \E download \in BOOLEAN :
           /\ late' = IF download THEN late \cup {s} ELSE late
           /\ cut' = cut \cup (IF gone THEN {"selection"} ELSE {})
                         \cup (IF download THEN {"late"} ELSE {})
           /\ download => Cardinality(cut') <= MaxCuts
      /\ pc' = "deleteSub"
      /\ UNCHANGED <<legacy, todo, served>>

\* ... and nodes.json.
SaveNodes ==
  /\ pc = "deleteSub"
  /\ Save("nodes", mem.nodes)
  /\ pc' = "up"
  /\ UNCHANGED <<legacy, mem, todo, late, cut, served>>

\* /conf, /conf/fromurl: a .conf is written, selected or not.
SaveConf(c) ==
  /\ disk' = [disk EXCEPT !.confs = @ \cup {c}]
  /\ UNCHANGED <<legacy, mem, pc, todo, stale, late, cut, served>>

\* /conf/select
SelectConf(c) ==
  /\ c \in disk.confs \cup {None}
  /\ SetState([mem.state EXCEPT !.conf = c])

\* Bug: the selection stays.
BugDeleteConf(c) ==
  /\ c \in disk.confs
  /\ disk' = [disk EXCEPT !.confs = @ \ {c}]
  /\ UNCHANGED <<legacy, mem, pc, todo, stale, late, cut, served>>

\* /conf/delete: the file goes, then the selection if it was that one.
DeleteConf(c) ==
  /\ c \in disk.confs
  /\ disk' = [disk EXCEPT !.confs = @ \ {c}]
  /\ mem' = [mem EXCEPT !.state.conf = IF @ = c THEN None ELSE @]
  /\ pc' = IF mem.state.conf = c THEN "deleteConf" ELSE "up"
  /\ UNCHANGED <<legacy, todo, stale, late, cut, served>>

\* activeConfForEdit: a rule edit with nothing selected takes "default", and
\* makes it if there is none.
EditRules ==
  /\ mem.state.conf = None
  /\ disk' = [disk EXCEPT !.confs = @ \cup {Default}]
  /\ mem' = [mem EXCEPT !.state.conf = Default]
  /\ pc' = "editRules"
  /\ UNCHANGED <<legacy, todo, stale, late, cut, served>>

Request ==
  /\ pc = "up"
  /\ \/ \E id \in Ids \ DOMAIN Healed :
          \/ SelectNode(id) \/ Import(id) \/ DeleteNode(id)
          \/ \E new \in Ids \ DOMAIN Healed : EditNode(id, new)
     \/ \E s \in Subs :
          \/ AddSub(s) \/ DeleteSub(s)
          \/ \E ids \in (SUBSET (Ids \ DOMAIN Healed)) \ {{}}, update \in BOOLEAN :
               Refresh(s, ids, update)
     \/ \E c \in Confs : SaveConf(c) \/ DeleteConf(c)
     \/ \E c \in Confs \cup {None} : SelectConf(c)
     \/ UpdateNothing \/ EditRules

-----------------------------------------------------------------------------
(* The daemon dies, at any time *)

\* A move is cut in two when nodes.json, which tells that it has been made,
\* is there and others are not.
HalfMoved ==
  /\ pc \in {"subs", "confs"}
  /\ disk.nodes # Missing
  /\ (pc = "subs" /\ disk.subs = Missing) \/ ~(todo \subseteq disk.confs \cup disk.awgs)

Crash ==
  /\ pc # "off"
  /\ cut' = cut \cup stale \cup ({pc} \cap Halves) \cup (IF HalfMoved THEN {"move"} ELSE {})
  /\ Cardinality(cut') <= MaxCuts
  /\ mem' = [state |-> EmptyState, nodes |-> {}, subs |-> {}]
  /\ pc' = "off"
  /\ todo' = {} /\ stale' = {} /\ late' = {}
  /\ UNCHANGED <<legacy, disk, served>>

Next ==
  \/ Start \/ CopyFile \/ (\E c \in Confs : CopyConf(c)) \/ (\E a \in Awgs : CopyAwg(a))
  \/ Load \/ HealNodes \/ Seed
  \/ SaveState \/ SaveNodes \/ Request
  \/ Crash

Spec == Init /\ [][Next]_vars

-----------------------------------------------------------------------------
(* Properties *)

\* The first time that the daemon answers requests.
FirstServed == ~served /\ served'

\* store.go:292: the directory of the older version is taken over before
\* anything is read.  However often the daemon dies on the way, it does not
\* begin to serve without the state, the nodes, the subscriptions and the
\* files of confs and awg that were there, nor with an empty selection on a
\* clean install, unless something was left half done: it died with nodes.json
\* there already, or after a save of its own that failed, or a write failed.
TakenOver ==
  [][FirstServed /\ cut = {} =>
       /\ legacy.subs # Missing => mem'.subs = legacy.subs
       /\ legacy.nodes # Missing => mem'.nodes = HealAll(legacy.nodes)
       /\ legacy.state # Missing =>
            /\ mem'.state.node = Heal(legacy.state.node)
            /\ legacy.state.conf # None => mem'.state.conf = legacy.state.conf
       /\ legacy.confs \subseteq disk'.confs /\ legacy.awgs \subseteq disk'.awgs
       /\ cut' = {} /\ mem'.state.conf = None => legacy.confs # {}]_vars

\* A restart loses what a failing save has left unsaved and nothing else: every
\* operation, those before serving too, ends with all it changed on disk, and
\* a file that was behind memory is whole again after its next save.
AtRest ==
  pc = "up" =>
    /\ "state" \in stale \/ mem.state = Read(disk.state, EmptyState)
    /\ "nodes" \in stale \/ mem.nodes = Read(disk.nodes, {})
    /\ "subs" \in stale \/ mem.subs = Read(disk.subs, {})

\* Nothing that was deleted comes back from the old directory at a later
\* start, unless a copy of the move had failed.
NothingRevived ==
  [][served /\ "move" \notin cut /\ pc \in {"off", "confs", "heal"} \cup Moves =>
       /\ disk'.confs = disk.confs
       /\ disk'.subs = disk.subs
       /\ disk.nodes # Missing => disk'.nodes \in {disk.nodes, HealAll(disk.nodes)}]_vars

\* Between requests, and across restarts, the selected node is one of the
\* list, unless it went with its subscription (/subs/delete and /subs/add do
\* not look), an operation on both files was cut, or the daemon died with the
\* state or the nodes unsaved.
SelectionFound ==
  pc = "up" /\ cut \cap {"move", "healed", "editNode", "deleteNode", "selection", "state", "nodes"} = {}
    => mem.state.node = None \/ HasNode(mem.nodes, mem.state.node)

\* Nodes of a subscription that is not listed, which nothing can update or
\* delete, come from a deletion or a move that was cut, a death with nodes or
\* subscriptions unsaved, a download that outlasts the deletion of its
\* subscription, and from nothing else.
NoStrays ==
  pc = "up" /\ cut \cap {"move", "deleteSub", "nodes", "subs", "late"} = {} =>
    \A n \in mem.nodes : n.sub \in mem.subs \cup {NoSub}

\* api.go:678: without a .conf the rules could not be edited from the UI.
\* The selected one exists, so /rules/add finds a file to edit, unless
\* its deletion or the move was cut, or the daemon died with the state unsaved.
Editable ==
  pc = "up" /\ cut \cap {"move", "deleteConf", "state"} = {} =>
    mem.state.conf = None \/ mem.state.conf \in disk.confs
=============================================================================
