-------------------------------- MODULE Api --------------------------------
(***************************************************************************)
(* The HTTP handlers of the daemon (src/daemon/api.go) that change the     *)
(* state, on top of Engine: each reads and writes the store in critical    *)
(* sections of its own and calls the engine between them.                  *)
(*                                                                         *)
(* Ops names the endpoints clients use; an endpoint outside Ops is never   *)
(* called.  A node is its id: what an update changes besides the id, and   *)
(* latencies, are left to NodeStore; the order of the rules of a .conf and *)
(* what an edit does to it are left to Conf.                               *)
(***************************************************************************)
EXTENDS Engine

CONSTANT Ops  \* endpoints in use

-----------------------------------------------------------------------------
(* The first step of each handler *)

Call(r, endpoint) == At(r, "idle") /\ endpoint \in Ops

\* /up and /down.
Up(r) ==
  /\ Call(r, "up")
  /\ Enter(r, "up", "take")
  /\ UNCHANGED <<store, file, stack, awgVars>>

Down(r) ==
  /\ Call(r, "down")
  /\ Enter(r, "down", "take")
  /\ UNCHANGED <<store, file, stack, awgVars>>

\* Bug: /mode does not check the value of the query.
BugSetMode(r, m) ==
  /\ Call(r, "mode")
  /\ st' = [st EXCEPT !.mode = ""]
  /\ Goto(r, "restack")
  /\ UNCHANGED <<nodeVars, confs, unapplied, file, stack, awgVars>>

\* /mode: SetState, then Restack.
SetMode(r, m) ==
  /\ Call(r, "mode")
  /\ st' = [st EXCEPT !.mode = m]
  /\ Goto(r, "restack")
  /\ UNCHANGED <<nodeVars, confs, unapplied, file, stack, awgVars>>

\* /nodes/select: the node is in the store now; SetState comes later.
SelectNode(r, n) ==
  /\ Call(r, "nodes/select")
  /\ InStore(n)
  /\ rq' = [rq EXCEPT ![r].node = n, ![r].pc = "select"]
  /\ UNCHANGED <<store, file, stack, awgVars>>

SetSelected(r) ==
  /\ At(r, "select")
  /\ st' = [st EXCEPT !.node = rq[r].node, !.err = FALSE]
  /\ rq' = [rq EXCEPT ![r].node = NoNode, ![r].pc = "restack"]
  /\ UNCHANGED <<nodeVars, confs, unapplied, file, stack, awgVars>>

\* Store.DeleteNode removes one entry with the id: of two, the first, which
\* may be either.
WithoutOne(n) ==
  \/ n \in own /\ own' = own \ {n} /\ UNCHANGED subn
  \/ n \in subn /\ subn' = subn \ {n} /\ UNCHANGED own

\* /nodes/delete
DeleteNode(r, n) ==
  /\ Call(r, "nodes/delete")
  /\ WithoutOne(n)
  /\ rq' = [rq EXCEPT ![r].node = n, ![r].pc = "deleted"]
  /\ UNCHANGED <<st, hasSub, confs, unapplied, file, stack, awgVars>>

AfterDelete(r) ==
  /\ At(r, "deleted")
  /\ IF st.node = rq[r].node THEN Goto(r, "deselect") ELSE Finish(r)
  /\ UNCHANGED <<store, file, stack, awgVars>>

Deselect(r) ==
  /\ At(r, "deselect")
  /\ st' = [st EXCEPT !.node = NoNode]
  /\ rq' = [rq EXCEPT ![r].node = NoNode, ![r].op = "down", ![r].pc = "take"]
  /\ UNCHANGED <<nodeVars, confs, unapplied, file, stack, awgVars>>

\* /nodes/update: ReplaceNode takes one entry with the old id out, drops the
\* other entries with the new id and files the node under no subscription.
ReplaceNode(r, old, new) ==
  /\ Call(r, "nodes/update")
  /\ \/ old \in own /\ own' = (own \ {old}) \cup {new} /\ subn' = subn \ {new}
     \/ old \in subn /\ own' = own \cup {new} /\ subn' = subn \ {old, new}
  /\ rq' = [rq EXCEPT ![r].node = old, ![r].new = new, ![r].pc = "replaced"]
  /\ UNCHANGED <<st, hasSub, confs, unapplied, file, stack, awgVars>>

AfterReplace(r) ==
  /\ At(r, "replaced")
  /\ IF st.node = rq[r].node THEN Goto(r, "reselect") ELSE Finish(r)
  /\ UNCHANGED <<store, file, stack, awgVars>>

\* The active node moves to its new id.
Reselect(r) ==
  /\ At(r, "reselect")
  /\ st' = [st EXCEPT !.node = rq[r].new, !.err = FALSE]
  /\ rq' = [rq EXCEPT ![r].node = NoNode, ![r].new = NoNode, ![r].pc = "restack"]
  /\ UNCHANGED <<nodeVars, confs, unapplied, file, stack, awgVars>>

\* /nodes/import: AddNodes overwrites a node with the same id, which is then
\* of no subscription any more.
ImportNode(r, n) ==
  /\ Call(r, "nodes/import")
  /\ n \notin own \/ n \in subn
  /\ own' = own \cup {n}
  /\ subn' = subn \ {n}
  /\ UNCHANGED <<st, hasSub, confs, unapplied, file, stack, awgVars, rq>>

-----------------------------------------------------------------------------
(* Subscriptions *)

\* /subs/add, and /nodes/import of a sub:// link: AddSub, then fetchSub.
AddSub(r) ==
  /\ Call(r, "subs/add")
  /\ hasSub' = TRUE
  /\ Goto(r, "fetchonly")
  /\ UNCHANGED <<st, own, subn, confs, unapplied, file, stack, awgVars>>

\* /subs/update: fetchSub works on a copy of the subscription.  Without one
\* there is nothing to download, but the active node is looked for as well.
UpdateSubs(r) ==
  /\ Call(r, "subs/update")
  /\ Goto(r, IF hasSub THEN "fetch" ELSE "gone")
  /\ UNCHANGED <<store, file, stack, awgVars>>

Fetching(r) == rq[r].pc \in {"fetch", "fetchonly"}

AfterFetch(r) == IF At(r, "fetch") THEN Goto(r, "gone") ELSE Finish(r)

\* fetchSub: ReplaceSubNodes, whether or not the subscription still exists.
Fetched(r, nodes) ==
  /\ Fetching(r)
  /\ nodes # {}
  /\ subn' = nodes
  /\ AfterFetch(r)
  /\ UNCHANGED <<st, own, hasSub, confs, unapplied, file, stack, awgVars>>

\* The download fails or yields no node: the nodes stay.
FetchFail(r) ==
  /\ Fetching(r)
  /\ AfterFetch(r)
  /\ UNCHANGED <<store, file, stack, awgVars>>

\* The active node may have gone with the update: Down.
AfterUpdate(r) ==
  /\ At(r, "gone")
  /\ IF st.node # NoNode /\ ~InStore(st.node)
       THEN Enter(r, "downclear", "take")
       ELSE Finish(r)
  /\ UNCHANGED <<store, file, stack, awgVars>>

\* After that Down the selection is cleared, whatever it is by now.
ClearSelection(r) ==
  /\ At(r, "clear")
  /\ st' = [st EXCEPT !.node = NoNode, !.err = TRUE]
  /\ Finish(r)
  /\ UNCHANGED <<nodeVars, confs, unapplied, file, stack, awgVars>>

\* /subs/delete: the nodes go with the subscription; nobody looks at the
\* active node.
DeleteSub(r) ==
  /\ Call(r, "subs/delete")
  /\ hasSub
  /\ hasSub' = FALSE
  /\ subn' = {}
  /\ UNCHANGED <<st, own, confs, unapplied, file, stack, awgVars, rq>>

-----------------------------------------------------------------------------
(* .conf files and their rules *)

WithConf(c, rules) ==
  [name \in DOMAIN confs \cup {c} |-> IF name = c THEN rules ELSE confs[name]]
WithoutConf(c) == [name \in DOMAIN confs \ {c} |-> confs[name]]

\* History: the rules in force are no longer those of the active .conf.
Overtaken == unapplied' = (unapplied \/ RulesOf(st.conf)' # RulesOf(st.conf))

\* /conf/select: the file is there now, or the default text is meant; SetState
\* comes later, and then Restack.
SelectConf(r, c) ==
  /\ Call(r, "conf/select")
  /\ c = NoConf \/ c \in DOMAIN confs
  /\ rq' = [rq EXCEPT ![r].name = c, ![r].pc = "selectconf"]
  /\ UNCHANGED <<store, file, stack, awgVars>>

SetConf(r) ==
  /\ At(r, "selectconf")
  /\ st' = [st EXCEPT !.conf = rq[r].name]
  /\ rq' = [rq EXCEPT ![r].name = NoConf, ![r].pc = "restack"]
  /\ UNCHANGED <<nodeVars, confs, unapplied, file, stack, awgVars>>

\* /conf/delete: the file goes first, then the selection if it was this one.
DeleteConf(r, c) ==
  /\ Call(r, "conf/delete")
  /\ c \in DOMAIN confs
  /\ confs' = WithoutConf(c)
  /\ rq' = [rq EXCEPT ![r].name = c, ![r].pc = "unlinked"]
  /\ UNCHANGED <<st, nodeVars, unapplied, file, stack, awgVars>>

AfterUnlink(r) ==
  /\ At(r, "unlinked")
  /\ IF st.conf = rq[r].name THEN Goto(r, "unname") ELSE Finish(r)
  /\ UNCHANGED <<store, file, stack, awgVars>>

Unname(r) ==
  /\ At(r, "unname")
  /\ st' = [st EXCEPT !.conf = NoConf]
  /\ StartReload(r)
  /\ UNCHANGED <<nodeVars, confs, unapplied, file, stack, awgVars>>

\* /conf/fromurl: what was downloaded becomes the .conf, the active one or
\* another, and its nodes are added.  There is no Reload.
FetchConf(r, c, rules) ==
  /\ Call(r, "conf/fromurl")
  /\ confs' = WithConf(c, rules)
  /\ Goto(r, "proxies") \/ ("save" \in Failing /\ UNCHANGED rq)
  /\ UNCHANGED <<st, nodeVars, file, stack, awgVars>>
  /\ Overtaken

AddProxies(r, proxies) ==
  /\ At(r, "proxies")
  /\ own' = own \cup proxies
  /\ subn' = subn \ proxies
  /\ Finish(r)
  /\ UNCHANGED <<st, hasSub, confs, unapplied, file, stack, awgVars>>

\* POST /conf: the text comes from the client.
SaveConf(r, c, rules) ==
  /\ Call(r, "conf")
  /\ rq' = [rq EXCEPT ![r].name = c, ![r].held = rules, ![r].pc = "save"]
  /\ UNCHANGED <<store, file, stack, awgVars>>

Edits == {"rules/add", "rules/update", "rules/delete", "rules/move"} \cap Ops

\* activeConfForEdit reads the name of the active .conf.  With none selected
\* it takes "default", also for GET /rules, which changes nothing otherwise.
ListRules(r) ==
  /\ Call(r, "rules")
  /\ st.conf = NoConf
  /\ Enter(r, "list", "default")
  /\ UNCHANGED <<store, file, stack, awgVars>>

EditRules(r) ==
  /\ At(r, "idle")
  /\ Edits # {}
  /\ IF st.conf = NoConf
       THEN Goto(r, "default")
       ELSE rq' = [rq EXCEPT ![r].name = st.conf, ![r].pc = "readrules"]
  /\ UNCHANGED <<store, file, stack, awgVars>>

\* The file "default" is created when it is not there, ...
CreateDefault(r) ==
  /\ At(r, "default")
  /\ IF Default \in DOMAIN confs
       THEN Goto(r, "named") /\ UNCHANGED confs
       ELSE \/ confs' = WithConf(Default, {}) /\ Goto(r, "named")
            \/ /\ "save" \in Failing
               /\ confs' \in {confs, WithConf(Default, {})}
               /\ Finish(r)
  /\ UNCHANGED <<st, nodeVars, unapplied, file, stack, awgVars>>

\* ... and selected, whatever it says.
UseDefault(r) ==
  /\ At(r, "named")
  /\ st' = [st EXCEPT !.conf = Default]
  /\ rq' = [rq EXCEPT ![r].name = Default, ![r].pc = "readrules"]
  /\ UNCHANGED <<nodeVars, confs, file, stack, awgVars>>
  /\ Overtaken

\* What the edits in use make of the rules of a file.
Edited(rules) ==
  (IF "rules/add" \in Edits THEN {rules \cup {x} : x \in Rules} ELSE {})
  \cup (IF "rules/delete" \in Edits THEN {rules \ {x} : x \in rules} ELSE {})
  \cup (IF "rules/update" \in Edits
         THEN {(rules \ {x}) \cup {y} : x \in rules, y \in Rules} ELSE {})
  \cup (IF "rules/move" \in Edits THEN {rules} ELSE {})

\* The file is read and its copy edited; that is all if the rules are only
\* asked for, the file is gone, or the line named is no rule.
ReadRules(r) ==
  /\ At(r, "readrules")
  /\ LET there == rq[r].name \in DOMAIN confs
     IN  \/ /\ rq[r].op = "list" \/ ~there \/ Edits # {"rules/add"}
            /\ Finish(r)
         \/ /\ rq[r].op # "list" /\ there
            /\ \E edited \in Edited(confs[rq[r].name]) :
                 rq' = [rq EXCEPT ![r].held = edited, ![r].pc = "edit"]
  /\ UNCHANGED <<store, file, stack, awgVars>>

Overwritten(r) == WithConf(rq[r].name, rq[r].held)

\* The copy replaces the .conf.  A rule edit goes on to Reload, POST /conf only
\* if the file is the active one by then.
WriteConf(r) ==
  /\ rq[r].pc \in {"edit", "save"}
  /\ confs' = Overwritten(r)
  /\ IF At(r, "edit") THEN StartReload(r) ELSE Goto(r, "saved")
  /\ UNCHANGED <<st, nodeVars, unapplied, file, stack, awgVars>>

\* writeSecret fails, perhaps after the rename, and the request ends.
WriteFail(r) ==
  /\ "save" \in Failing
  /\ rq[r].pc \in {"edit", "save"}
  /\ confs' \in {confs, Overwritten(r)}
  /\ Finish(r)
  /\ UNCHANGED <<st, nodeVars, file, stack, awgVars>>
  /\ Overtaken

AfterSave(r) ==
  /\ At(r, "saved")
  /\ IF st.conf = rq[r].name THEN StartReload(r) ELSE Finish(r)
  /\ UNCHANGED <<store, file, stack, awgVars>>

-----------------------------------------------------------------------------
\* A request begins.
Begin(r) ==
  \/ Up(r) \/ Down(r)
  \/ \E m \in Modes : SetMode(r, m)
  \/ \E n \in Nodes : SelectNode(r, n) \/ DeleteNode(r, n) \/ ImportNode(r, n)
  \/ \E n, m \in Nodes : ReplaceNode(r, n, m)
  \/ AddSub(r) \/ UpdateSubs(r) \/ DeleteSub(r)
  \/ \E c \in Confs \cup {NoConf} : SelectConf(r, c)
  \/ \E c \in Confs : DeleteConf(r, c)
  \/ \E c \in Confs, rules \in SUBSET Rules : FetchConf(r, c, rules) \/ SaveConf(r, c, rules)
  \/ ListRules(r) \/ EditRules(r)

\* A request in progress takes its next step.
Continue(r) ==
  \/ EngineStep(r)
  \/ SetSelected(r) \/ AfterDelete(r) \/ Deselect(r) \/ AfterReplace(r) \/ Reselect(r)
  \/ (\E nodes \in SUBSET Nodes : Fetched(r, nodes)) \/ FetchFail(r)
  \/ AfterUpdate(r) \/ ClearSelection(r)
  \/ SetConf(r) \/ AfterUnlink(r) \/ Unname(r)
  \/ (\E proxies \in SUBSET Nodes : AddProxies(r, proxies))
  \/ CreateDefault(r) \/ UseDefault(r) \/ ReadRules(r)
  \/ WriteConf(r) \/ WriteFail(r) \/ AfterSave(r)

Next ==
  \/ \E r \in Reqs : Begin(r) \/ Continue(r)
  \/ \E p \in Procs : SbLoad(p) \/ SbDie(p)
  \/ AwgDie \/ Crash

Spec == Init /\ [][Next]_vars

\* Where a request runs ip or awg and waits for it.  run takes a timeout and
\* makes no use of it (netroute.go:15), so such a command may hang for ever.
Commands == {"unroute", "unawg", "awg", "awgconf", "awgroute"}
Hung(r) == rq[r].pc \in Commands

\* A request is a goroutine of its own.  Everywhere else its waits end: HTTP
\* clients have timeouts, sbUp has a deadline, and stop outlasts the process it
\* stops (VictimDies of Proc).  New requests need not come.
Fairness ==
  /\ \A r \in Reqs : WF_vars(~Hung(r) /\ Continue(r))
  /\ \A p \in Procs : WF_vars((\E r \in Reqs : rq[r].victim = p) /\ SbDie(p))

FairSpec == Spec /\ Fairness

-----------------------------------------------------------------------------
(* Properties *)

\* No request is in progress: what the user sees between two clicks.
Quiescent == \A r \in Reqs : rq[r] = Idle

\* No sing-box is left running behind the daemon's back: every live one is in
\* the slot or some request is waiting for it to go.  However many requests
\* stop and start the stack at the same time, there is one tunnel in the end.
NoOrphan ==
  \A p \in sbLive : p = sbCmd \/ \E r \in Reqs : rq[r].victim = p /\ At(r, "wait")

\* With one request at a time, a tunnel is never up while the UI is told that
\* it is down, whatever failed on the way.
UpIsHonest == Quiescent /\ sbLive # {} => st.up

\* With one request at a time, the running sing-box has the current mode and
\* no node but the selected one, and the rules of the active .conf unless these
\* changed without a Reload: /conf/fromurl, the selection of "default" by an
\* edit or a reading of the rules, a save that failed after the rename, and an
\* edit whose Reload could not generate.  Every other handler that changes one
\* of them sees to it (Restack, Reload or Down).
ConfigInForce ==
  Quiescent /\ Sb!Running /\ loaded[sbCmd] # Unread =>
    /\ loaded[sbCmd].mode = st.mode
    /\ loaded[sbCmd].node \in {st.node, NoNode}
    /\ unapplied \/ loaded[sbCmd].rules = RulesOf(st.conf)

\* README: adding a rule flips the host's route immediately, so between
\* requests the running sing-box has the rules of the .conf.
RulesInForce ==
  Quiescent /\ Sb!Running /\ loaded[sbCmd] # Unread =>
    loaded[sbCmd].rules = RulesOf(st.conf)

\* Nothing of AWG is left when the stack is down: no interface, and no ip
\* rules that steer marked packets into a table without it.
AwgTornDown == Quiescent /\ ~st.up => awg = NoNode /\ ~awgRt

\* Down and Up take AWG away only when no sing-box could send through it.
ReverseOrder == [][awg # NoNode /\ awg' = NoNode => sbLive = {}]_vars

\* A hung command blocks no request but its own: every request has done what
\* it does to the stack, however many are in progress, unless the last thing it
\* did was to run ip or awg and wait for it, or the daemon crashes over and
\* over.  (The answer reports awg show, which comes after all this and may hang
\* as well.)
Answered ==
  \/ []<><<Crash>>_vars
  \/ \A r \in Reqs : []<>(rq[r] = Idle) \/ <>[]Hung(r)

\* An Up and a Down at the same time may leave the UI with a wrong answer
\* (engine.go:121: st.Up is set in the order they end), but not for good:
\* when from some time on nothing but /down is called, and answered again and
\* again, the stack is down in the end, shown as down, and nothing of it is
\* left, whatever was in progress, failed or crashed.
DownConverges ==
  /\ <>[][\A r \in Reqs : Begin(r) => Down(r)]_vars
  /\ []<><<\E r \in Reqs : SetDown(r)>>_vars
  => <>[](~st.up /\ sbLive = {} /\ awg = NoNode /\ ~awgRt)
=============================================================================
