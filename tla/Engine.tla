------------------------------- MODULE Engine -------------------------------
(***************************************************************************)
(* The engine of the daemon (src/daemon/engine.go): Up, Down, Reload,      *)
(* Restack and generate.  None of them holds a lock, and every HTTP        *)
(* request runs in a goroutine of its own, so two of them may be anywhere  *)
(* in this module at the same time.                                        *)
(*                                                                         *)
(* A request r is a record rq[r]: pc is the next thing it will do, op is   *)
(* the engine operation it is inside, which decides where a shared piece   *)
(* of code (stopping sing-box, awgDown, generate, sbUp) continues.  One    *)
(* step is one critical section, one file, one command or one wait.        *)
(*                                                                         *)
(* A .conf is a set of rules, of which the default text counts as empty.   *)
(* sing-box runs in a slot of proc.go, of which ProcSlot is the contract;  *)
(* stop is assumed to outlast its victim (SIGKILL works within 3 s).       *)
(* amneziawg-go and its interface awg0 are one variable.                   *)
(***************************************************************************)
EXTENDS Integers

CONSTANTS
  Reqs,      \* goroutines serving requests
  Booting,   \* those that start as the initial generate of main
  Procs,     \* identifiers of sing-box processes, reused when free
  Nodes,     \* node identifiers
  AwgNodes,  \* the nodes of type awg
  Confs,     \* names of .conf files
  Default,   \* the name "default"
  Rules,     \* rules a .conf may hold
  Modes,     \* routing modes in use, a subset of config, proxy and direct
  Failing,   \* what may fail: "generate", "awg", "awgexit", "spawn", "ready",
             \* "save" (of a .conf), "daemon"
  NoProc,    \* nil *exec.Cmd
  NoNode,    \* the empty node id
  NoConf,    \* the empty .conf name
  Bare       \* an awg0 with no peer configured yet

ASSUME ProcsAssumption == NoProc \notin Procs
ASSUME NodesAssumption ==
  /\ AwgNodes \subseteq Nodes
  /\ NoNode \notin Nodes
  /\ Bare \notin Nodes \cup {NoNode}
ASSUME ConfsAssumption == Default \in Confs /\ NoConf \notin Confs
ASSUME ModesAssumption == Modes \subseteq {"config", "proxy", "direct"} /\ Modes # {}
ASSUME BootingAssumption == Booting \subseteq Reqs

VARIABLES
  st,      \* Store.state: up, mode, node, conf, err
  own,     \* ids in the store that belong to no subscription
  subn,    \* ids in the store that belong to the subscription
  hasSub,  \* the subscription is listed
  confs,   \* the .conf files: the rules of each that is there
  file,    \* singbox.json
  sbCmd,   \* the sing-box slot
  sbLive,  \* sing-box processes not yet reaped
  loaded,  \* the configuration each sing-box process read, or Unread
  awg,     \* node awg0 is configured for, Bare, or NoNode if there is no awg0
  awgRt,   \* the ip rules 8800/8801 and the route table of awg0 are in place
  rq,      \* the requests in progress
  unapplied  \* history: the rules of the active .conf have changed, or could
             \* not be generated, and the code leaves it at that

nodeVars == <<own, subn, hasSub>>
store == <<st, nodeVars, confs, unapplied>>
stack == <<sbCmd, sbLive, loaded>>
awgVars == <<awg, awgRt>>
vars == <<st, own, subn, hasSub, confs, file, sbCmd, sbLive, loaded, awg, awgRt, rq,
          unapplied>>

Sb == INSTANCE ProcSlot WITH Pids <- Procs, cmd <- sbCmd, live <- sbLive

-----------------------------------------------------------------------------
(* Values *)

\* What buildSingbox makes of a state, an active node and a .conf; Unread is
\* none of these.
Config == [mode : Modes \cup {"none"}, node : Nodes \cup {NoNode}, rules : SUBSET Rules]
Unread == [mode |-> "none", node |-> NoNode, rules |-> {}]

Labels ==
  {"idle", "take", "wait", "unroute", "unawg", "setdown", "check", "checknode",
   "read", "readnode", "readname", "readconf", "write", "awg", "awgconf",
   "awgroute", "spawn", "ready", "setup", "seterr", "isup", "restack", "clear",
   "select", "deleted", "deselect", "replaced", "reselect", "fetch",
   "fetchonly", "gone", "selectconf", "unlinked", "unname", "proxies",
   "default", "named", "readrules", "edit", "save", "saved"}

\* "downup" is the Down of a Restack, "downclear" that of /subs/update;
\* "failup" and "failreload" are the ways out after a failed sbUp; "list" is
\* a reading of the rules.
Operations ==
  {"none", "up", "down", "downup", "downclear", "reload", "gen", "failup",
   "failreload", "list"}

Request ==
  [pc : Labels, op : Operations,
   victim : Procs \cup {NoProc},       \* what stop waits for
   node : Nodes \cup {NoNode},         \* Up's active, or the id a handler is about
   new : Nodes \cup {NoNode},          \* the id that replaces it in /nodes/update
   snap : Config,                      \* what generate is about to write
   name : Confs \cup {NoConf},         \* the .conf that is being worked on
   held : SUBSET Rules]                \* the text that is about to be saved there

Idle == [pc |-> "idle", op |-> "none", victim |-> NoProc, node |-> NoNode,
         new |-> NoNode, snap |-> Unread, name |-> NoConf, held |-> {}]

At(r, label) == rq[r].pc = label

\* Store.Node(id) finds the node.
InStore(n) == n \in own \cup subn

\* activeConf: the default text stands in for no name and for a file that is
\* not there.
RulesOf(name) == IF name \in DOMAIN confs THEN confs[name] ELSE {}

Goto(r, label) == rq' = [rq EXCEPT ![r].pc = label]
Enter(r, operation, label) == rq' = [rq EXCEPT ![r].op = operation, ![r].pc = label]
Finish(r) == rq' = [rq EXCEPT ![r] = Idle]
StartReload(r) == rq' = [rq EXCEPT ![r] = [Idle EXCEPT !.op = "reload", !.pc = "read"]]

State ==
  [up : BOOLEAN, mode : Modes, node : Nodes \cup {NoNode}, conf : Confs \cup {NoConf},
   err : BOOLEAN]

Files == UNION {[names -> SUBSET Rules] : names \in SUBSET Confs}

TypeOK ==
  /\ st \in State
  /\ own \in SUBSET Nodes
  /\ subn \in SUBSET Nodes
  /\ hasSub \in BOOLEAN
  /\ confs \in Files
  /\ file \in Config
  /\ sbCmd \in Procs \cup {NoProc}
  /\ sbLive \in SUBSET Procs
  /\ loaded \in [Procs -> Config]
  /\ awg \in Nodes \cup {NoNode, Bare}
  /\ awgRt \in BOOLEAN
  /\ rq \in [Reqs -> Request]
  /\ unapplied \in BOOLEAN

BootRequests ==
  [r \in Reqs |-> IF r \in Booting THEN [Idle EXCEPT !.pc = "read", !.op = "gen"]
                                   ELSE Idle]

\* The daemon starts with whatever nodes it was left with and the .conf of a
\* clean installation.
Init ==
  /\ st \in [up : {FALSE}, mode : Modes, node : {NoNode}, conf : {Default},
             err : {FALSE}]
  /\ own \in SUBSET Nodes
  /\ subn = {}
  /\ hasSub = FALSE
  /\ confs = [name \in {Default} |-> {}]
  /\ file = Unread
  /\ Sb!SlotInit
  /\ loaded = [p \in Procs |-> Unread]
  /\ awg = NoNode
  /\ awgRt = FALSE
  /\ rq = BootRequests
  /\ unapplied = FALSE

-----------------------------------------------------------------------------
(* Stopping: e.sb.stop() and e.awgDown() *)

SbTake(r) ==
  /\ At(r, "take")
  /\ Sb!SlotTake
  /\ rq' = [rq EXCEPT ![r].pc = "wait", ![r].victim = sbCmd]
  /\ UNCHANGED <<store, file, loaded, awgVars>>

\* Bug: stop signals sing-box and does not wait for it.
BugSbStopped(r) ==
  /\ At(r, "wait")
  /\ IF rq[r].op = "failreload"
       THEN Finish(r)
       ELSE rq' = [rq EXCEPT ![r].victim = NoProc,
                             ![r].pc = IF rq[r].op = "reload" THEN "spawn" ELSE "unroute"]
  /\ UNCHANGED <<store, file, stack, awgVars>>

\* Reload leaves AWG alone, every other stop of sing-box is followed by
\* awgDown; a failed Reload has nothing left to do.
SbStopped(r) ==
  /\ At(r, "wait")
  /\ rq[r].victim \notin sbLive
  /\ IF rq[r].op = "failreload"
       THEN Finish(r)
       ELSE rq' = [rq EXCEPT ![r].victim = NoProc,
                             ![r].pc = IF rq[r].op = "reload" THEN "spawn" ELSE "unroute"]
  /\ UNCHANGED <<store, file, stack, awgVars>>

\* awgRoutingDown.
AwgUnroute(r) ==
  /\ At(r, "unroute")
  /\ awgRt' = FALSE
  /\ Goto(r, "unawg")
  /\ UNCHANGED <<store, file, stack, awg>>

\* The rest of awgDown: amneziawg-go is stopped and awg0 deleted.
AwgStop(r) ==
  /\ At(r, "unawg")
  /\ awg' = NoNode
  /\ Goto(r, CASE rq[r].op = "up" -> "check"
               [] rq[r].op = "failup" -> "seterr"
               [] OTHER -> "setdown")
  /\ UNCHANGED <<store, file, stack, awgRt>>

\* The end of Down; Restack goes on with Up, /subs/update clears the selection.
SetDown(r) ==
  /\ At(r, "setdown")
  /\ st' = [st EXCEPT !.up = FALSE, !.err = FALSE]
  /\ CASE rq[r].op = "downup" -> Enter(r, "up", "take")
       [] rq[r].op = "downclear" -> Goto(r, "clear")
       [] OTHER -> Finish(r)
  /\ UNCHANGED <<nodeVars, confs, unapplied, file, stack, awgVars>>

-----------------------------------------------------------------------------
(* Up *)

\* Up looks at the selection once more, after everything is down: State(), ...
Check(r) ==
  /\ At(r, "check")
  /\ CASE st.node # NoNode -> rq' = [rq EXCEPT ![r].node = st.node, ![r].pc = "checknode"]
       [] st.node = NoNode -> Goto(r, IF st.mode = "direct" THEN "read" ELSE "seterr")
  /\ UNCHANGED <<store, file, stack, awgVars>>

\* ... and then Node(), which may be of another moment.
CheckNode(r) ==
  /\ At(r, "checknode")
  /\ Goto(r, IF InStore(rq[r].node) THEN "read" ELSE "seterr")
  /\ UNCHANGED <<store, file, stack, awgVars>>

\* generate reads mode and node id, the node, the name of the .conf and the
\* .conf one after the other.  A selected node that is not in the store is
\* passed over in silence.
GenerateState(r) ==
  /\ At(r, "read")
  /\ rq' = [rq EXCEPT ![r].snap = [mode |-> st.mode, node |-> st.node, rules |-> {}],
                      ![r].pc = "readnode"]
  /\ UNCHANGED <<store, file, stack, awgVars>>

GenerateNode(r) ==
  /\ At(r, "readnode")
  /\ rq' = [rq EXCEPT ![r].snap.node = IF InStore(@) THEN @ ELSE NoNode,
                      ![r].pc = "readname"]
  /\ UNCHANGED <<store, file, stack, awgVars>>

GenerateName(r) ==
  /\ At(r, "readname")
  /\ rq' = [rq EXCEPT ![r].name = st.conf, ![r].pc = "readconf"]
  /\ UNCHANGED <<store, file, stack, awgVars>>

GenerateConf(r) ==
  /\ At(r, "readconf")
  /\ rq' = [rq EXCEPT ![r].snap.rules = RulesOf(rq[r].name), ![r].name = NoConf,
                      ![r].pc = "write"]
  /\ UNCHANGED <<store, file, stack, awgVars>>

GenerateWrite(r) ==
  /\ At(r, "write")
  /\ file' = rq[r].snap
  /\ unapplied' = FALSE
  /\ CASE rq[r].op = "gen" -> Finish(r)
       [] rq[r].op = "reload" -> Goto(r, "isup")
       [] OTHER -> Goto(r, IF rq[r].node \in AwgNodes THEN "awg" ELSE "spawn")
  /\ UNCHANGED <<st, nodeVars, confs, stack, awgVars>>

\* The .conf cannot be read, or singbox.json cannot be written, which may be
\* noticed after it got its name.  Up reports it; the callers of Reload only
\* log it, and what runs keeps the rules it has.
GenerateFail(r) ==
  /\ "generate" \in Failing
  /\ \/ At(r, "readconf") /\ UNCHANGED file
     \/ At(r, "write") /\ file' \in {file, rq[r].snap}
  /\ IF rq[r].op = "up" THEN Goto(r, "seterr") ELSE Finish(r)
  /\ unapplied' = (unapplied \/ rq[r].op = "reload")
  /\ UNCHANGED <<st, nodeVars, confs, stack, awgVars>>

\* awgUp up to the start of amneziawg-go; an awg0 that is still there goes
\* through awgDown first.
AwgStart(r) ==
  /\ At(r, "awg")
  /\ awg' = Bare
  /\ awgRt' = IF awg = NoNode THEN awgRt ELSE FALSE
  /\ Goto(r, "awgconf")
  /\ UNCHANGED <<store, file, stack>>

\* awg setconf, address and link up: they need the interface.
AwgConfigure(r) ==
  /\ At(r, "awgconf")
  /\ awg # NoNode
  /\ awg' = rq[r].node
  /\ Goto(r, "awgroute")
  /\ UNCHANGED <<store, file, stack, awgRt>>

\* awgRoutingUp.
AwgRoute(r) ==
  /\ At(r, "awgroute")
  /\ awg # NoNode
  /\ awgRt' = TRUE
  /\ Goto(r, "spawn")
  /\ UNCHANGED <<store, file, stack, awg>>

\* Bug: a failed awgUp leaves behind what it has set up.
BugAwgFail(r) ==
  /\ rq[r].pc \in {"awg", "awgconf", "awgroute"}
  /\ "awg" \in Failing \/ (awg = NoNode /\ ~At(r, "awg"))
  /\ Goto(r, "seterr")
  /\ UNCHANGED <<store, file, stack, awgVars>>

\* awgUp fails, because awg0 is missing or for a reason of its own: awgDown.
AwgFail(r) ==
  /\ rq[r].pc \in {"awg", "awgconf", "awgroute"}
  /\ "awg" \in Failing \/ (awg = NoNode /\ ~At(r, "awg"))
  /\ Enter(r, "failup", "unroute")
  /\ UNCHANGED <<store, file, stack, awgVars>>

\* Bug: start replaces whatever is in the slot.
BugSbSpawn(r, p) ==
  /\ At(r, "spawn")
  /\ \A q \in Reqs : rq[q].victim # p
  /\ p \notin sbLive
  /\ sbCmd' = p
  /\ sbLive' = sbLive \cup {p}
  /\ loaded' = [loaded EXCEPT ![p] = Unread]
  /\ Goto(r, "ready")
  /\ UNCHANGED <<store, file, awgVars>>

\* e.sb.start: a process identifier nobody waits for is free for reuse.
SbSpawn(r, p) ==
  /\ At(r, "spawn")
  /\ \A q \in Reqs : rq[q].victim # p
  /\ Sb!SlotStart(p)
  /\ loaded' = [loaded EXCEPT ![p] = Unread]
  /\ Goto(r, "ready")
  /\ UNCHANGED <<store, file, awgVars>>

\* start refuses, because another request has started sing-box meanwhile, or
\* the process cannot be spawned.
SbSpawnFail(r) ==
  /\ At(r, "spawn")
  /\ Sb!Running \/ "spawn" \in Failing
  /\ IF rq[r].op = "up" THEN Enter(r, "failup", "unroute") ELSE Finish(r)
  /\ UNCHANGED <<store, file, stack, awgVars>>

\* Some sing-box answers on the Clash API port, not necessarily our own.
Alive == \E p \in sbLive : loaded[p] # Unread

SbReady(r) ==
  /\ At(r, "ready")
  /\ Alive
  /\ IF rq[r].op = "up" THEN Goto(r, "setup") ELSE Finish(r)
  /\ UNCHANGED <<store, file, stack, awgVars>>

\* Bug: the sing-box that did not become ready is not stopped.
BugNotStopped(r) ==
  /\ At(r, "ready")
  /\ ~Sb!Running \/ "ready" \in Failing
  /\ IF rq[r].op = "up" THEN Enter(r, "failup", "unroute") ELSE Finish(r)
  /\ UNCHANGED <<store, file, stack, awgVars>>

\* Bug: no deadline on the answer of the Clash API.
BugNoDeadline(r) ==
  /\ At(r, "ready")
  /\ ~Sb!Running
  /\ Enter(r, IF rq[r].op = "up" THEN "failup" ELSE "failreload", "take")
  /\ UNCHANGED <<store, file, stack, awgVars>>

\* sing-box exited, or 15 s have passed: stop it.
SbNotReady(r) ==
  /\ At(r, "ready")
  /\ ~Sb!Running \/ "ready" \in Failing
  /\ Enter(r, IF rq[r].op = "up" THEN "failup" ELSE "failreload", "take")
  /\ UNCHANGED <<store, file, stack, awgVars>>

SetUp(r) ==
  /\ At(r, "setup")
  /\ st' = [st EXCEPT !.up = TRUE, !.err = FALSE]
  /\ Finish(r)
  /\ UNCHANGED <<nodeVars, confs, unapplied, file, stack, awgVars>>

\* The callers of Up record its error; up keeps the value it had.
SetErr(r) ==
  /\ At(r, "seterr")
  /\ st' = [st EXCEPT !.err = TRUE]
  /\ Finish(r)
  /\ UNCHANGED <<nodeVars, confs, unapplied, file, stack, awgVars>>

-----------------------------------------------------------------------------
(* Reload and Restack *)

\* Reload after its generate: nothing to restart when the stack is down.
ReloadIfUp(r) ==
  /\ At(r, "isup")
  /\ IF st.up THEN Goto(r, "take") ELSE Finish(r)
  /\ UNCHANGED <<store, file, stack, awgVars>>

\* Bug: Restack of a running stack only generates.
BugRestack(r) ==
  /\ At(r, "restack")
  /\ Enter(r, "gen", "read")
  /\ UNCHANGED <<store, file, stack, awgVars>>

\* Restack: a full cycle when the stack is up, otherwise only generate.
Restack(r) ==
  /\ At(r, "restack")
  /\ IF st.up THEN Enter(r, "downup", "take") ELSE Enter(r, "gen", "read")
  /\ UNCHANGED <<store, file, stack, awgVars>>

\* One step of a request inside the engine.
EngineStep(r) ==
  \/ SbTake(r) \/ SbStopped(r) \/ AwgUnroute(r) \/ AwgStop(r) \/ SetDown(r)
  \/ Check(r) \/ CheckNode(r)
  \/ GenerateState(r) \/ GenerateNode(r) \/ GenerateName(r) \/ GenerateConf(r)
  \/ GenerateWrite(r) \/ GenerateFail(r)
  \/ AwgStart(r) \/ AwgConfigure(r) \/ AwgRoute(r) \/ AwgFail(r)
  \/ (\E p \in Procs : SbSpawn(r, p)) \/ SbSpawnFail(r)
  \/ SbReady(r) \/ SbNotReady(r) \/ SetUp(r) \/ SetErr(r)
  \/ ReloadIfUp(r) \/ Restack(r)

-----------------------------------------------------------------------------
(* sing-box and the daemon process *)

\* sing-box reads singbox.json some time after it was spawned.
SbLoad(p) ==
  /\ p \in sbLive
  /\ loaded[p] = Unread
  /\ file # Unread
  /\ loaded' = [loaded EXCEPT ![p] = file]
  /\ UNCHANGED <<store, file, sbCmd, sbLive, awgVars, rq>>

\* sing-box exits, of its own accord or because stop signalled it.
SbDie(p) ==
  /\ Sb!SlotExit(p)
  /\ loaded' = [loaded EXCEPT ![p] = Unread]
  /\ UNCHANGED <<store, file, awgVars, rq>>

\* amneziawg-go exits of its own accord and takes awg0 with it.
AwgDie ==
  /\ "awgexit" \in Failing
  /\ awg # NoNode
  /\ awg' = NoNode
  /\ UNCHANGED <<store, file, stack, awgRt, rq>>

\* The daemon dies and systemd starts it again: the processes of its control
\* group are gone and so is awg0, the ip rules stay; NewStore clears up and err.
Crash ==
  /\ "daemon" \in Failing
  /\ sbCmd' = NoProc
  /\ sbLive' = {}
  /\ loaded' = [p \in Procs |-> Unread]
  /\ awg' = NoNode
  /\ st' = [st EXCEPT !.up = FALSE, !.err = FALSE]
  /\ rq' = BootRequests
  /\ UNCHANGED <<nodeVars, confs, unapplied, file, awgRt>>
=============================================================================
