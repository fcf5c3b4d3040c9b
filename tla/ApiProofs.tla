----------------------------- MODULE ApiProofs ------------------------------
(***************************************************************************)
(* Proofs about the engine and the handlers, for any number of concurrent  *)
(* requests, nodes, rules and sing-box processes; and, at the end, about   *)
(* the supervisor that both rely on, which shares no state with Api here:  *)
(* Engine uses the slot that the supervisor is proved to implement.        *)
(***************************************************************************)
EXTENDS Api, Proc, TLAPS

-----------------------------------------------------------------------------
(* Requests *)

\* A request that has been answered is idle.
LEMMA IdleIsRequest == Idle \in Request
<1>1. Unread \in Config
  BY DEF Unread, Config
<1> QED
  BY <1>1 DEF Idle, Request, Labels, Operations

\* What an action may change of a request.
LEMMA Relabelled ==
  ASSUME NEW q \in Request, NEW label \in Labels, NEW operation \in Operations
  PROVE  /\ [q EXCEPT !.pc = label] \in Request
         /\ [q EXCEPT !.op = operation, !.pc = label] \in Request
  BY DEF Request

LEMMA Renamed ==
  ASSUME NEW q \in Request, NEW label \in Labels, NEW n \in Nodes \cup {NoNode},
         NEW c \in Confs \cup {NoConf}
  PROVE  /\ [q EXCEPT !.node = n, !.pc = label] \in Request
         /\ [q EXCEPT !.name = c, !.pc = label] \in Request
  BY DEF Request

LEMMA BootsMove == Unread \in Config /\ BootRequests \in [Reqs -> Request]
<1>1. Unread \in Config
  BY DEF Unread, Config
<1>2. "read" \in Labels /\ "gen" \in Operations
  BY DEF Labels, Operations
<1>3. [Idle EXCEPT !.pc = "read", !.op = "gen"] \in Request
  BY <1>2, IdleIsRequest DEF Request
<1> QED
  BY <1>1, <1>3, IdleIsRequest DEF BootRequests

LEMMA FinishMoves ==
  ASSUME rq \in [Reqs -> Request], NEW r \in Reqs, Finish(r)
  PROVE  rq' \in [Reqs -> Request]
  BY IdleIsRequest DEF Finish

\* A handler that reloads forgets what it has held.
LEMMA ReloadMoves ==
  ASSUME rq \in [Reqs -> Request], NEW r \in Reqs, StartReload(r)
  PROVE  /\ rq' \in [Reqs -> Request]
         /\ rq'[r].pc = "read" /\ rq'[r].op = "reload"
         /\ \A q \in Reqs : q # r => rq'[q] = rq[q]
<1>1. [Idle EXCEPT !.op = "reload", !.pc = "read"] \in Request
  BY IdleIsRequest DEF Request, Labels, Operations
<1>2. [Idle EXCEPT !.op = "reload", !.pc = "read"].pc = "read"
      /\ [Idle EXCEPT !.op = "reload", !.pc = "read"].op = "reload"
  BY DEF Idle
<1> QED
  BY <1>1, <1>2 DEF StartReload

-----------------------------------------------------------------------------
(* .conf files *)

LEMMA FilesAre ==
  ASSUME NEW f
  PROVE  f \in Files <=> \E names \in SUBSET Confs : f \in [names -> SUBSET Rules]
  BY DEF Files

\* A name gives a set of rules, whether or not it is that of a file.
LEMMA RulesOfIs ==
  ASSUME confs \in Files, NEW name
  PROVE  RulesOf(name) \in SUBSET Rules
  BY FilesAre DEF RulesOf

LEMMA WithConfIs ==
  ASSUME confs \in Files, NEW c \in Confs, NEW rules \in SUBSET Rules
  PROVE  WithConf(c, rules) \in Files
<1>1. PICK names \in SUBSET Confs : confs \in [names -> SUBSET Rules]
  BY FilesAre
<1>2. WithConf(c, rules) \in [names \cup {c} -> SUBSET Rules]
  BY <1>1 DEF WithConf
<1>3. names \cup {c} \in SUBSET Confs
  OBVIOUS
<1> QED
  BY <1>2, <1>3, FilesAre

LEMMA WithoutConfIs ==
  ASSUME confs \in Files, NEW c
  PROVE  WithoutConf(c) \in Files
<1>1. PICK names \in SUBSET Confs : confs \in [names -> SUBSET Rules]
  BY FilesAre
<1>2. WithoutConf(c) \in [names \ {c} -> SUBSET Rules]
  BY <1>1 DEF WithoutConf
<1>3. names \ {c} \in SUBSET Confs
  OBVIOUS
<1> QED
  BY <1>2, <1>3, FilesAre

-----------------------------------------------------------------------------
(* Types *)

\* The daemon starts in a well-typed state.
LEMMA InitType == Init => TypeOK
<1> SUFFICES ASSUME Init PROVE TypeOK
  OBVIOUS
<1>1. BootRequests \in [Reqs -> Request]
  BY BootsMove
<1>2. confs \in Files
  <2>1. [name \in {Default} |-> {}] \in [{Default} -> SUBSET Rules]
    OBVIOUS
  <2>2. {Default} \in SUBSET Confs
    BY ConfsAssumption
  <2> QED
    BY <2>1, <2>2, FilesAre DEF Init
<1>3. st \in State
  BY ConfsAssumption DEF Init, State
<1>4. Unread \in Config
  BY DEF Unread, Config
<1> QED
  BY <1>1, <1>2, <1>3, <1>4, ProcsAssumption DEF Init, TypeOK, Sb!SlotInit

\* Stopping keeps the state well typed.
LEMMA StopType ==
  ASSUME TypeOK, NEW r \in Reqs,
         SbTake(r) \/ SbStopped(r) \/ AwgUnroute(r) \/ AwgStop(r) \/ SetDown(r)
  PROVE  TypeOK'
<1> USE DEF store, nodeVars, stack, awgVars
<1>1. rq \in [Reqs -> Request] /\ rq[r] \in Request
  BY DEF TypeOK
<1>2. CASE SbTake(r)
  <2>1. rq' \in [Reqs -> Request]
    BY <1>1, <1>2 DEF SbTake, Request, Labels, TypeOK
  <2> QED
    BY <1>2, <2>1 DEF SbTake, Sb!SlotTake, TypeOK
<1>3. CASE SbStopped(r)
  <2>1. rq' \in [Reqs -> Request]
    BY <1>1, <1>3, FinishMoves DEF SbStopped, Request, Labels
  <2> QED
    BY <1>3, <2>1 DEF SbStopped, TypeOK
<1>4. CASE AwgUnroute(r)
  <2>1. rq' \in [Reqs -> Request]
    BY <1>1, <1>4 DEF AwgUnroute, Goto, Request, Labels
  <2> QED
    BY <1>4, <2>1 DEF AwgUnroute, TypeOK
<1>5. CASE AwgStop(r)
  <2>1. rq' \in [Reqs -> Request]
    BY <1>1, <1>5 DEF AwgStop, Goto, Request, Labels
  <2> QED
    BY <1>5, <2>1 DEF AwgStop, TypeOK
<1>6. CASE SetDown(r)
  <2>1. rq' \in [Reqs -> Request]
    BY <1>1, <1>6, FinishMoves DEF SetDown, Goto, Enter, Request, Labels, Operations
  <2>2. st' \in State
    BY <1>6 DEF SetDown, TypeOK, State
  <2> QED
    BY <1>6, <2>1, <2>2 DEF SetDown, TypeOK
<1> QED
  BY <1>2, <1>3, <1>4, <1>5, <1>6

\* Up and its parts keep the state well typed.
LEMMA UpType ==
  ASSUME TypeOK, NEW r \in Reqs,
         \/ Check(r) \/ CheckNode(r) \/ GenerateWrite(r) \/ GenerateFail(r)
         \/ AwgStart(r) \/ AwgConfigure(r) \/ AwgRoute(r) \/ AwgFail(r)
         \/ SetUp(r) \/ SetErr(r)
  PROVE  TypeOK'
<1> USE DEF store, nodeVars, stack, awgVars
<1>1. rq \in [Reqs -> Request] /\ rq[r] \in Request
  BY DEF TypeOK
<1>2. CASE Check(r) \/ CheckNode(r)
  <2>1. rq' \in [Reqs -> Request]
    <3>1. CASE Check(r)
      <4>1. {"checknode", "read", "seterr"} \subseteq Labels
        BY DEF Labels
      <4>2. st.node \in Nodes \cup {NoNode}
        BY DEF TypeOK, State
      <4>3. \/ rq' = [rq EXCEPT ![r] = [rq[r] EXCEPT !.node = st.node, !.pc = "checknode"]]
            \/ rq' = [rq EXCEPT ![r] = [rq[r] EXCEPT !.pc = "read"]]
            \/ rq' = [rq EXCEPT ![r] = [rq[r] EXCEPT !.pc = "seterr"]]
        BY <1>1, <3>1 DEF Check, Goto
      <4>4. /\ [rq[r] EXCEPT !.node = st.node, !.pc = "checknode"] \in Request
            /\ [rq[r] EXCEPT !.pc = "read"] \in Request
            /\ [rq[r] EXCEPT !.pc = "seterr"] \in Request
        BY <1>1, <4>1, <4>2 DEF Request
      <4> QED
        BY <1>1, <4>3, <4>4
    <3>2. CASE CheckNode(r)
      BY <1>1, <3>2 DEF CheckNode, Goto, Request, Labels
    <3> QED
      BY <1>2, <3>1, <3>2
  <2> QED
    BY <1>2, <2>1 DEF Check, CheckNode, TypeOK
<1>4. CASE GenerateWrite(r)
  <2>1. rq' \in [Reqs -> Request]
    BY <1>1, <1>4, FinishMoves DEF GenerateWrite, Goto, Request, Labels
  <2>2. file' \in Config
    BY <1>1, <1>4 DEF GenerateWrite, Request
  <2> QED
    BY <1>4, <2>1, <2>2 DEF GenerateWrite, TypeOK
<1>5. CASE GenerateFail(r)
  <2>1. rq' \in [Reqs -> Request]
    BY <1>1, <1>5, FinishMoves DEF GenerateFail, Goto, Request, Labels
  <2>2. file' \in Config /\ unapplied' \in BOOLEAN
    BY <1>1, <1>5 DEF GenerateFail, Request, TypeOK
  <2> QED
    BY <1>5, <2>1, <2>2 DEF GenerateFail, TypeOK
<1>6. CASE AwgStart(r) \/ AwgConfigure(r) \/ AwgRoute(r)
  <2>1. rq' \in [Reqs -> Request]
    <3>1. Goto(r, "awgconf") \/ Goto(r, "awgroute") \/ Goto(r, "spawn")
      BY <1>6 DEF AwgStart, AwgConfigure, AwgRoute
    <3> QED
      BY <1>1, <3>1 DEF Goto, Request, Labels
  <2>2. awg' \in Nodes \cup {NoNode, Bare} /\ awgRt' \in BOOLEAN
    BY <1>1, <1>6 DEF AwgStart, AwgConfigure, AwgRoute, Request, TypeOK
  <2> QED
    BY <1>6, <2>1, <2>2 DEF AwgStart, AwgConfigure, AwgRoute, TypeOK
<1>7. CASE AwgFail(r)
  <2>1. rq' \in [Reqs -> Request]
    BY <1>1, <1>7 DEF AwgFail, Enter, Request, Labels, Operations
  <2> QED
    BY <1>7, <2>1 DEF AwgFail, TypeOK
<1>8. CASE SetUp(r) \/ SetErr(r)
  <2>1. rq' \in [Reqs -> Request]
    BY <1>1, <1>8, FinishMoves DEF SetUp, SetErr
  <2>2. st' \in State
    BY <1>8 DEF SetUp, SetErr, TypeOK, State
  <2> QED
    BY <1>8, <2>1, <2>2 DEF SetUp, SetErr, TypeOK
<1> QED
  BY <1>2, <1>4, <1>5, <1>6, <1>7, <1>8

\* What generate reads keeps the state well typed, whenever it reads it.
LEMMA ReadType ==
  ASSUME TypeOK, NEW r \in Reqs,
         GenerateState(r) \/ GenerateNode(r) \/ GenerateName(r) \/ GenerateConf(r)
  PROVE  TypeOK'
<1> USE DEF store, nodeVars, stack, awgVars
<1>1. rq \in [Reqs -> Request] /\ rq[r] \in Request
  BY DEF TypeOK
<1>2. rq[r].snap \in Config
  BY <1>1 DEF Request
<1>3. CASE GenerateState(r)
  <2>1. [mode |-> st.mode, node |-> st.node, rules |-> {}] \in Config
    BY DEF TypeOK, State, Config
  <2>2. rq' \in [Reqs -> Request]
    BY <1>1, <1>3, <2>1 DEF GenerateState, Request, Labels
  <2> QED
    BY <1>3, <2>2 DEF GenerateState, TypeOK
<1>4. CASE GenerateNode(r)
  <2>1. rq' = [rq EXCEPT ![r] = [rq[r] EXCEPT
                 !.snap = [rq[r].snap EXCEPT !.node = IF InStore(@) THEN @ ELSE NoNode],
                 !.pc = "readname"]]
    BY <1>1, <1>4 DEF GenerateNode, Request
  <2>2. [rq[r].snap EXCEPT !.node = IF InStore(@) THEN @ ELSE NoNode] \in Config
    BY <1>2 DEF Config
  <2>3. [rq[r] EXCEPT
           !.snap = [rq[r].snap EXCEPT !.node = IF InStore(@) THEN @ ELSE NoNode],
           !.pc = "readname"] \in Request
    BY <1>1, <2>2 DEF Request, Labels
  <2>4. rq' \in [Reqs -> Request]
    BY <1>1, <2>1, <2>3
  <2> QED
    BY <1>4, <2>4 DEF GenerateNode, TypeOK
<1>5. CASE GenerateName(r)
  <2>1. st.conf \in Confs \cup {NoConf}
    BY DEF TypeOK, State
  <2>2. rq' \in [Reqs -> Request]
    BY <1>1, <1>5, <2>1 DEF GenerateName, Request, Labels
  <2> QED
    BY <1>5, <2>2 DEF GenerateName, TypeOK
<1>6. CASE GenerateConf(r)
  <2> DEFINE rules == RulesOf(rq[r].name)
  <2>1. rules \in SUBSET Rules
    BY RulesOfIs DEF TypeOK
  <2> HIDE DEF rules
  <2>2. rq' = [rq EXCEPT ![r] = [rq[r] EXCEPT
                 !.snap = [rq[r].snap EXCEPT !.rules = rules], !.name = NoConf,
                 !.pc = "write"]]
    BY <1>1, <1>6 DEF GenerateConf, Request, rules
  <2>3. [rq[r].snap EXCEPT !.rules = rules] \in Config
    BY <1>2, <2>1 DEF Config
  <2>4. [rq[r] EXCEPT !.snap = [rq[r].snap EXCEPT !.rules = rules], !.name = NoConf,
                      !.pc = "write"] \in Request
    BY <1>1, <2>3 DEF Request, Labels
  <2>5. rq' \in [Reqs -> Request]
    BY <1>1, <2>2, <2>4
  <2> QED
    BY <1>6, <2>5 DEF GenerateConf, TypeOK
<1> QED
  BY <1>3, <1>4, <1>5, <1>6

\* Starting sing-box, Reload and Restack keep the state well typed.
LEMMA StartType ==
  ASSUME TypeOK, NEW r \in Reqs,
         \/ (\E p \in Procs : SbSpawn(r, p)) \/ SbSpawnFail(r)
         \/ SbReady(r) \/ SbNotReady(r) \/ ReloadIfUp(r) \/ Restack(r)
  PROVE  TypeOK'
<1> USE DEF store, nodeVars, stack, awgVars
<1>1. rq \in [Reqs -> Request] /\ rq[r] \in Request
  BY DEF TypeOK
<1>2. ASSUME NEW p \in Procs, SbSpawn(r, p)
      PROVE  TypeOK'
  <2>1. rq' \in [Reqs -> Request]
    BY <1>1, <1>2 DEF SbSpawn, Goto, Request, Labels
  <2>2. loaded' \in [Procs -> Config]
    BY <1>2, BootsMove DEF SbSpawn, TypeOK
  <2> QED
    BY <1>2, <2>1, <2>2 DEF SbSpawn, Sb!SlotStart, TypeOK
<1>3. CASE SbSpawnFail(r) \/ SbReady(r) \/ SbNotReady(r)
  <2>1. rq' \in [Reqs -> Request]
    BY <1>1, <1>3, FinishMoves
    DEF SbSpawnFail, SbReady, SbNotReady, Goto, Enter, Request, Labels, Operations
  <2> QED
    BY <1>3, <2>1 DEF SbSpawnFail, SbReady, SbNotReady, TypeOK
<1>4. CASE ReloadIfUp(r) \/ Restack(r)
  <2>1. rq' \in [Reqs -> Request]
    BY <1>1, <1>4, FinishMoves
    DEF ReloadIfUp, Restack, Goto, Enter, Request, Labels, Operations
  <2> QED
    BY <1>4, <2>1 DEF ReloadIfUp, Restack, TypeOK
<1> QED
  BY <1>2, <1>3, <1>4

\* The handlers that change the selection, the mode or the power state keep
\* the state well typed.
LEMMA SelectionType ==
  ASSUME TypeOK, NEW r \in Reqs,
         \/ Up(r) \/ Down(r) \/ (\E m \in Modes : SetMode(r, m))
         \/ (\E n \in Nodes : SelectNode(r, n)) \/ SetSelected(r)
         \/ AfterDelete(r) \/ Deselect(r) \/ AfterReplace(r) \/ Reselect(r)
         \/ AfterUpdate(r) \/ ClearSelection(r)
  PROVE  TypeOK'
<1> USE DEF store, nodeVars, stack, awgVars
<1>1. rq \in [Reqs -> Request] /\ rq[r] \in Request
  BY DEF TypeOK
<1>2. CASE Up(r) \/ Down(r)
  <2>1. rq' \in [Reqs -> Request]
    BY <1>1, <1>2 DEF Up, Down, Enter, Request, Labels, Operations
  <2> QED
    BY <1>2, <2>1 DEF Up, Down, TypeOK
<1>3. ASSUME NEW m \in Modes, SetMode(r, m)
      PROVE  TypeOK'
  <2>1. rq' \in [Reqs -> Request]
    BY <1>1, <1>3 DEF SetMode, Goto, Request, Labels
  <2> QED
    BY <1>3, <2>1 DEF SetMode, TypeOK, State
<1>4. ASSUME NEW n \in Nodes, SelectNode(r, n)
      PROVE  TypeOK'
  <2>1. rq' \in [Reqs -> Request]
    BY <1>1, <1>4 DEF SelectNode, Request, Labels
  <2> QED
    BY <1>4, <2>1 DEF SelectNode, TypeOK
<1>5. CASE SetSelected(r)
  <2>1. rq' \in [Reqs -> Request]
    BY <1>1, <1>5 DEF SetSelected, Request, Labels
  <2>2. rq[r].node \in Nodes \cup {NoNode}
    BY <1>1 DEF Request
  <2> QED
    BY <1>5, <2>1, <2>2 DEF SetSelected, TypeOK, State
<1>6. CASE AfterDelete(r) \/ AfterReplace(r) \/ AfterUpdate(r)
  <2>1. rq' \in [Reqs -> Request]
    BY <1>1, <1>6, FinishMoves
    DEF AfterDelete, AfterReplace, AfterUpdate, Goto, Enter, Request, Labels, Operations
  <2> QED
    BY <1>6, <2>1 DEF AfterDelete, AfterReplace, AfterUpdate, TypeOK
<1>7. CASE Deselect(r)
  <2>1. "take" \in Labels /\ "down" \in Operations
    BY DEF Labels, Operations
  <2>2. rq' = [rq EXCEPT ![r] = [rq[r] EXCEPT !.node = NoNode, !.op = "down", !.pc = "take"]]
    BY <1>1, <1>7 DEF Deselect
  <2>3. [rq[r] EXCEPT !.node = NoNode, !.op = "down", !.pc = "take"] \in Request
    BY <1>1, <2>1 DEF Request
  <2>4. rq' \in [Reqs -> Request]
    BY <1>1, <2>2, <2>3
  <2> QED
    BY <1>7, <2>4 DEF Deselect, TypeOK, State
<1>8. CASE Reselect(r)
  <2>1. rq' \in [Reqs -> Request]
    BY <1>1, <1>8 DEF Reselect, Request, Labels
  <2>2. rq[r].new \in Nodes \cup {NoNode}
    BY <1>1 DEF Request
  <2> QED
    BY <1>8, <2>1, <2>2 DEF Reselect, TypeOK, State
<1>9. CASE ClearSelection(r)
  <2>1. rq' \in [Reqs -> Request]
    BY <1>1, <1>9, FinishMoves DEF ClearSelection
  <2> QED
    BY <1>9, <2>1 DEF ClearSelection, TypeOK, State
<1> QED
  BY <1>2, <1>3, <1>4, <1>5, <1>6, <1>7, <1>8, <1>9

\* The handlers that change nodes or subscriptions keep the state well typed.
LEMMA ContentType ==
  ASSUME TypeOK, NEW r \in Reqs,
         \/ (\E n \in Nodes : DeleteNode(r, n) \/ ImportNode(r, n))
         \/ (\E n, m \in Nodes : ReplaceNode(r, n, m))
         \/ AddSub(r) \/ UpdateSubs(r) \/ DeleteSub(r)
         \/ (\E nodes \in SUBSET Nodes : Fetched(r, nodes)) \/ FetchFail(r)
         \/ (\E proxies \in SUBSET Nodes : AddProxies(r, proxies))
  PROVE  TypeOK'
<1> USE DEF store, nodeVars, stack, awgVars
<1>1. rq \in [Reqs -> Request] /\ rq[r] \in Request
  BY DEF TypeOK
<1>2. ASSUME NEW n \in Nodes, DeleteNode(r, n)
      PROVE  TypeOK'
  <2>1. rq' \in [Reqs -> Request]
    BY <1>1, <1>2 DEF DeleteNode, Request, Labels
  <2>2. own' \in SUBSET Nodes /\ subn' \in SUBSET Nodes
    BY <1>2 DEF DeleteNode, WithoutOne, TypeOK
  <2> QED
    BY <1>2, <2>1, <2>2 DEF DeleteNode, TypeOK
<1>3. ASSUME NEW n \in Nodes, ImportNode(r, n)
      PROVE  TypeOK'
  BY <1>3 DEF ImportNode, TypeOK
<1>4. ASSUME NEW n \in Nodes, NEW m \in Nodes, ReplaceNode(r, n, m)
      PROVE  TypeOK'
  <2>1. rq' \in [Reqs -> Request]
    BY <1>1, <1>4 DEF ReplaceNode, Request, Labels
  <2>2. own' \in SUBSET Nodes /\ subn' \in SUBSET Nodes
    BY <1>4 DEF ReplaceNode, TypeOK
  <2> QED
    BY <1>4, <2>1, <2>2 DEF ReplaceNode, TypeOK
<1>5. CASE AddSub(r) \/ UpdateSubs(r) \/ DeleteSub(r)
  <2>1. rq' \in [Reqs -> Request]
    BY <1>1, <1>5 DEF AddSub, UpdateSubs, DeleteSub, Goto, Request, Labels
  <2> QED
    BY <1>5, <2>1 DEF AddSub, UpdateSubs, DeleteSub, TypeOK
<1>6. ASSUME AfterFetch(r)
      PROVE  rq' \in [Reqs -> Request]
  BY <1>1, <1>6, FinishMoves DEF AfterFetch, Goto, Request, Labels
<1>7. ASSUME NEW nodes \in SUBSET Nodes, Fetched(r, nodes)
      PROVE  TypeOK'
  BY <1>6, <1>7 DEF Fetched, TypeOK
<1>8. CASE FetchFail(r)
  BY <1>6, <1>8 DEF FetchFail, TypeOK
<1>9. ASSUME NEW proxies \in SUBSET Nodes, AddProxies(r, proxies)
      PROVE  TypeOK'
  <2>1. rq' \in [Reqs -> Request]
    BY <1>1, <1>9, FinishMoves DEF AddProxies
  <2> QED
    BY <1>9, <2>1 DEF AddProxies, TypeOK
<1> QED
  BY <1>2, <1>3, <1>4, <1>5, <1>7, <1>8, <1>9

\* The handlers that change, select or delete a .conf keep the state well typed.
LEMMA ConfType ==
  ASSUME TypeOK, NEW r \in Reqs,
         \/ (\E c \in Confs \cup {NoConf} : SelectConf(r, c)) \/ SetConf(r)
         \/ (\E c \in Confs : DeleteConf(r, c)) \/ AfterUnlink(r) \/ Unname(r)
         \/ (\E c \in Confs, rules \in SUBSET Rules :
               FetchConf(r, c, rules) \/ SaveConf(r, c, rules))
         \/ AfterSave(r)
  PROVE  TypeOK'
<1> USE DEF store, nodeVars, stack, awgVars
<1>1. rq \in [Reqs -> Request] /\ rq[r] \in Request /\ confs \in Files
  BY DEF TypeOK
<1>2. ASSUME NEW c \in Confs \cup {NoConf}, SelectConf(r, c)
      PROVE  TypeOK'
  <2>1. rq' \in [Reqs -> Request]
    <3>1. "selectconf" \in Labels
      BY DEF Labels
    <3>2. rq' = [rq EXCEPT ![r] = [rq[r] EXCEPT !.name = c, !.pc = "selectconf"]]
      BY <1>1, <1>2 DEF SelectConf
    <3> QED
      BY <1>1, <3>1, <3>2, Renamed
  <2> QED
    BY <1>2, <2>1 DEF SelectConf, TypeOK
<1>3. CASE SetConf(r)
  <2>1. rq' \in [Reqs -> Request]
    BY <1>1, <1>3 DEF SetConf, Request, Labels
  <2>2. rq[r].name \in Confs \cup {NoConf}
    BY <1>1 DEF Request
  <2> QED
    BY <1>3, <2>1, <2>2 DEF SetConf, TypeOK, State
<1>4. ASSUME NEW c \in Confs, DeleteConf(r, c)
      PROVE  TypeOK'
  <2>1. rq' \in [Reqs -> Request]
    BY <1>1, <1>4 DEF DeleteConf, Request, Labels
  <2>2. confs' \in Files
    BY <1>1, <1>4, WithoutConfIs DEF DeleteConf
  <2> QED
    BY <1>4, <2>1, <2>2 DEF DeleteConf, TypeOK
<1>5. CASE AfterUnlink(r) \/ AfterSave(r)
  <2>1. rq' \in [Reqs -> Request]
    BY <1>1, <1>5, FinishMoves, ReloadMoves DEF AfterUnlink, AfterSave, Goto, Request, Labels
  <2> QED
    BY <1>5, <2>1 DEF AfterUnlink, AfterSave, TypeOK
<1>6. CASE Unname(r)
  <2>1. rq' \in [Reqs -> Request]
    BY <1>1, <1>6, ReloadMoves DEF Unname
  <2> QED
    BY <1>6, <2>1 DEF Unname, TypeOK, State
<1>7. ASSUME NEW c \in Confs, NEW rules \in SUBSET Rules, FetchConf(r, c, rules)
      PROVE  TypeOK'
  <2>1. rq' \in [Reqs -> Request]
    BY <1>1, <1>7 DEF FetchConf, Goto, Request, Labels
  <2>2. confs' \in Files
    BY <1>1, <1>7, WithConfIs DEF FetchConf
  <2>3. unapplied' \in BOOLEAN
    BY <1>7 DEF FetchConf, Overtaken, TypeOK
  <2> QED
    BY <1>7, <2>1, <2>2, <2>3 DEF FetchConf, TypeOK
<1>8. ASSUME NEW c \in Confs, NEW rules \in SUBSET Rules, SaveConf(r, c, rules)
      PROVE  TypeOK'
  <2>1. rq' \in [Reqs -> Request]
    BY <1>1, <1>8 DEF SaveConf, Request, Labels
  <2> QED
    BY <1>8, <2>1 DEF SaveConf, TypeOK
<1> QED
  BY <1>2, <1>3, <1>4, <1>5, <1>6, <1>7, <1>8

\* An edit makes sets of rules of sets of rules.
LEMMA EditedIs ==
  ASSUME NEW rules \in SUBSET Rules, NEW edited \in Edited(rules)
  PROVE  edited \in SUBSET Rules
  BY DEF Edited

\* Where a request saves a .conf it has the name of one.
Named(r) == rq[r].pc \in {"edit", "save", "readrules"} => rq[r].name \in Confs

\* Listing and editing rules, and saving, keep the state well typed.
LEMMA RulesType ==
  ASSUME TypeOK, NEW r \in Reqs, Named(r),
         \/ ListRules(r) \/ EditRules(r) \/ CreateDefault(r) \/ UseDefault(r)
         \/ ReadRules(r) \/ WriteConf(r) \/ WriteFail(r)
  PROVE  TypeOK'
<1> USE DEF store, nodeVars, stack, awgVars
<1>1. rq \in [Reqs -> Request] /\ rq[r] \in Request /\ confs \in Files
  BY DEF TypeOK
<1>2. CASE ListRules(r)
  <2>1. rq' \in [Reqs -> Request]
    <3>1. "default" \in Labels /\ "list" \in Operations
      BY DEF Labels, Operations
    <3>2. rq' = [rq EXCEPT ![r] = [rq[r] EXCEPT !.op = "list", !.pc = "default"]]
      BY <1>1, <1>2 DEF ListRules, Enter
    <3> QED
      BY <1>1, <3>1, <3>2, Relabelled
  <2> QED
    BY <1>2, <2>1 DEF ListRules, TypeOK
<1>3. CASE EditRules(r)
  <2>1. st.conf \in Confs \cup {NoConf}
    BY DEF TypeOK, State
  <2>2. rq' \in [Reqs -> Request]
    BY <1>1, <1>3, <2>1 DEF EditRules, Goto, Request, Labels
  <2> QED
    BY <1>3, <2>2 DEF EditRules, TypeOK
<1>4. CASE CreateDefault(r)
  <2>1. rq' \in [Reqs -> Request]
    BY <1>1, <1>4, FinishMoves DEF CreateDefault, Goto, Request, Labels
  <2>2. confs' \in Files
    <3>1. {} \in SUBSET Rules
      OBVIOUS
    <3>2. WithConf(Default, {}) \in Files
      BY <1>1, <3>1, WithConfIs, ConfsAssumption
    <3>3. confs' = confs \/ confs' = WithConf(Default, {})
      BY <1>4 DEF CreateDefault
    <3> QED
      BY <1>1, <3>2, <3>3
  <2> QED
    BY <1>4, <2>1, <2>2 DEF CreateDefault, TypeOK
<1>5. CASE UseDefault(r)
  <2>1. rq' \in [Reqs -> Request]
    BY <1>1, <1>5, ConfsAssumption DEF UseDefault, Request, Labels
  <2>2. st' \in State
    BY <1>5, ConfsAssumption DEF UseDefault, TypeOK, State
  <2>3. unapplied' \in BOOLEAN
    BY <1>5 DEF UseDefault, Overtaken, TypeOK
  <2> QED
    BY <1>5, <2>1, <2>2, <2>3 DEF UseDefault, TypeOK
<1>6. CASE ReadRules(r)
  <2>1. ASSUME NEW edited \in SUBSET Rules,
               rq' = [rq EXCEPT ![r].held = edited, ![r].pc = "edit"]
        PROVE  rq' \in [Reqs -> Request]
    BY <1>1, <2>1 DEF Request, Labels
  <2>2. ASSUME rq[r].name \in DOMAIN confs
        PROVE  confs[rq[r].name] \in SUBSET Rules
    BY <1>1, <2>2, FilesAre
  <2>3. rq' \in [Reqs -> Request]
    BY <1>1, <1>6, <2>1, <2>2, FinishMoves, EditedIs DEF ReadRules
  <2> QED
    BY <1>6, <2>3 DEF ReadRules, TypeOK
<1>7. CASE WriteConf(r) \/ WriteFail(r)
  <2>1. rq' \in [Reqs -> Request]
    BY <1>1, <1>7, FinishMoves, ReloadMoves DEF WriteConf, WriteFail, Goto, Request, Labels
  <2>2. rq[r].name \in Confs /\ rq[r].held \in SUBSET Rules
    BY <1>1, <1>7 DEF WriteConf, WriteFail, Named, Request
  <2>3. Overwritten(r) \in Files
    BY <1>1, <2>2, WithConfIs DEF Overwritten
  <2>4. confs' \in Files
    BY <1>1, <1>7, <2>3 DEF WriteConf, WriteFail
  <2>5. unapplied' \in BOOLEAN
    BY <1>7 DEF WriteConf, WriteFail, Overtaken, TypeOK
  <2> QED
    BY <1>7, <2>1, <2>4, <2>5 DEF WriteConf, WriteFail, TypeOK
<1> QED
  BY <1>2, <1>3, <1>4, <1>5, <1>6, <1>7

\* What happens without a request keeps the state well typed.
LEMMA EnvironmentType ==
  ASSUME TypeOK, (\E p \in Procs : SbLoad(p) \/ SbDie(p)) \/ AwgDie \/ Crash
  PROVE  TypeOK'
<1> USE DEF store, nodeVars, stack, awgVars
<1>1. ASSUME NEW p \in Procs, SbLoad(p)
      PROVE  TypeOK'
  BY <1>1 DEF SbLoad, TypeOK
<1>2. ASSUME NEW p \in Procs, SbDie(p)
      PROVE  TypeOK'
  BY <1>2, BootsMove DEF SbDie, Sb!SlotExit, TypeOK
<1>3. CASE AwgDie
  BY <1>3 DEF AwgDie, TypeOK
<1>4. CASE Crash
  <2>1. st' \in State
    BY <1>4 DEF Crash, TypeOK, State
  <2> QED
    BY <1>4, <2>1, BootsMove DEF Crash, TypeOK
<1> QED
  BY <1>1, <1>2, <1>3, <1>4

AllNamed == \A r \in Reqs : Named(r)

\* Steps that do not come to read or to save a .conf keep AllNamed.
LEMMA ElsewhereNamed ==
  ASSUME AllNamed, NEW r \in Reqs, \A q \in Reqs : q # r => rq'[q] = rq[q],
         rq'[r].pc \notin {"edit", "save", "readrules"}
  PROVE  AllNamed'
  BY DEF AllNamed, Named

\* The engine never comes to a .conf.
LEMMA EngineNamed ==
  ASSUME TypeOK, AllNamed, NEW r \in Reqs, EngineStep(r)
  PROVE  AllNamed'
<1>1. /\ \A q \in Reqs : q # r => rq'[q] = rq[q]
      /\ rq'[r].pc \notin {"edit", "save", "readrules"}
  <2>1. CASE SbTake(r) \/ SbStopped(r) \/ AwgUnroute(r) \/ AwgStop(r) \/ SetDown(r)
    BY <2>1 DEF SbTake, SbStopped, AwgUnroute, AwgStop, SetDown, Goto, Enter, Finish, Idle,
                TypeOK, Request
  <2>2. CASE Check(r) \/ CheckNode(r) \/ GenerateState(r) \/ GenerateName(r)
    <3>1. CASE Check(r)
      <4>1. \/ rq' = [rq EXCEPT ![r].node = st.node, ![r].pc = "checknode"]
            \/ rq' = [rq EXCEPT ![r].pc = "read"] \/ rq' = [rq EXCEPT ![r].pc = "seterr"]
        BY <3>1 DEF Check, Goto
      <4> QED
        BY <4>1 DEF TypeOK, Request
    <3>2. CASE CheckNode(r)
      BY <3>2 DEF CheckNode, Goto, TypeOK, Request
    <3>3. CASE GenerateState(r) \/ GenerateName(r)
      BY <3>3 DEF GenerateState, GenerateName, TypeOK, Request
    <3> QED
      BY <2>2, <3>1, <3>2, <3>3
  <2>3. CASE GenerateNode(r) \/ GenerateConf(r)
    BY <2>3 DEF GenerateNode, GenerateConf, TypeOK, Request
  <2>4. CASE GenerateWrite(r) \/ GenerateFail(r)
    BY <2>4 DEF GenerateWrite, GenerateFail, Goto, Finish, Idle, TypeOK, Request
  <2>5. CASE AwgStart(r) \/ AwgConfigure(r) \/ AwgRoute(r) \/ AwgFail(r)
    <3>1. CASE AwgStart(r) \/ AwgConfigure(r)
      BY <3>1 DEF AwgStart, AwgConfigure, Goto, TypeOK, Request
    <3>2. CASE AwgRoute(r) \/ AwgFail(r)
      BY <3>2 DEF AwgRoute, AwgFail, Goto, Enter, TypeOK, Request
    <3> QED
      BY <2>5, <3>1, <3>2
  <2>6. CASE \/ (\E p \in Procs : SbSpawn(r, p)) \/ SbSpawnFail(r) \/ SbReady(r)
             \/ SbNotReady(r) \/ SetUp(r) \/ SetErr(r) \/ ReloadIfUp(r) \/ Restack(r)
    BY <2>6 DEF SbSpawn, SbSpawnFail, SbReady, SbNotReady, SetUp, SetErr, ReloadIfUp,
                Restack, Goto, Enter, Finish, Idle, TypeOK, Request
  <2> QED
    BY <2>1, <2>2, <2>3, <2>4, <2>5, <2>6 DEF EngineStep
<1> QED
  BY <1>1, ElsewhereNamed

\* The handlers that do not come to a .conf, or not to its rules.
LEMMA HandlersNamed ==
  ASSUME TypeOK, AllNamed, NEW r \in Reqs,
         \/ Up(r) \/ Down(r) \/ (\E m \in Modes : SetMode(r, m))
         \/ (\E n \in Nodes : SelectNode(r, n) \/ DeleteNode(r, n) \/ ImportNode(r, n))
         \/ (\E n, m \in Nodes : ReplaceNode(r, n, m))
         \/ AddSub(r) \/ UpdateSubs(r) \/ DeleteSub(r)
         \/ SetSelected(r) \/ AfterDelete(r) \/ Deselect(r) \/ AfterReplace(r) \/ Reselect(r)
         \/ (\E nodes \in SUBSET Nodes : Fetched(r, nodes)) \/ FetchFail(r)
         \/ AfterUpdate(r) \/ ClearSelection(r)
         \/ (\E c \in Confs \cup {NoConf} : SelectConf(r, c)) \/ SetConf(r)
         \/ (\E c \in Confs : DeleteConf(r, c)) \/ AfterUnlink(r) \/ Unname(r)
         \/ (\E c \in Confs, rules \in SUBSET Rules : FetchConf(r, c, rules))
         \/ (\E proxies \in SUBSET Nodes : AddProxies(r, proxies))
         \/ ListRules(r) \/ CreateDefault(r) \/ WriteConf(r) \/ WriteFail(r) \/ AfterSave(r)
  PROVE  AllNamed'
<1>1. CASE UNCHANGED rq
  BY <1>1 DEF AllNamed, Named
<1>2. CASE ~UNCHANGED rq
  <2>1. /\ \A q \in Reqs : q # r => rq'[q] = rq[q]
        /\ rq'[r].pc \notin {"edit", "save", "readrules"}
    <3>1. CASE Up(r) \/ Down(r) \/ (\E m \in Modes : SetMode(r, m))
      BY <3>1 DEF Up, Down, SetMode, Goto, Enter, TypeOK, Request
    <3>2. CASE \E n \in Nodes : SelectNode(r, n) \/ DeleteNode(r, n) \/ ImportNode(r, n)
      <4>1. PICK n \in Nodes : \/ rq' = [rq EXCEPT ![r].node = n, ![r].pc = "select"]
                                 \/ rq' = [rq EXCEPT ![r].node = n, ![r].pc = "deleted"]
        BY <1>2, <3>2 DEF SelectNode, DeleteNode, ImportNode
      <4> QED
        BY <4>1 DEF TypeOK, Request
    <3>3. CASE \E n, m \in Nodes : ReplaceNode(r, n, m)
      <4>1. PICK n, m \in Nodes :
              rq' = [rq EXCEPT ![r].node = n, ![r].new = m, ![r].pc = "replaced"]
        BY <3>3 DEF ReplaceNode
      <4> QED
        BY <4>1 DEF TypeOK, Request
    <3>4. CASE AddSub(r) \/ UpdateSubs(r) \/ DeleteSub(r)
      BY <1>2, <3>4 DEF AddSub, UpdateSubs, DeleteSub, Goto, TypeOK, Request
    <3>5. CASE SetSelected(r) \/ AfterDelete(r) \/ Deselect(r) \/ AfterReplace(r) \/ Reselect(r)
      BY <3>5 DEF SetSelected, AfterDelete, Deselect, AfterReplace, Reselect, Goto, Finish,
                  Idle, TypeOK, Request
    <3>6. CASE \/ (\E nodes \in SUBSET Nodes : Fetched(r, nodes)) \/ FetchFail(r)
               \/ AfterUpdate(r) \/ ClearSelection(r)
      BY <3>6 DEF Fetched, FetchFail, AfterFetch, AfterUpdate, ClearSelection, Goto, Enter,
                  Finish, Idle, TypeOK, Request
    <3>7. CASE \/ (\E c \in Confs \cup {NoConf} : SelectConf(r, c)) \/ SetConf(r)
               \/ (\E c \in Confs : DeleteConf(r, c))
      <4>1. \/ rq' = [rq EXCEPT ![r].name = NoConf, ![r].pc = "restack"]
            \/ \E c \in Confs \cup {NoConf} :
                 \/ rq' = [rq EXCEPT ![r].name = c, ![r].pc = "selectconf"]
                 \/ rq' = [rq EXCEPT ![r].name = c, ![r].pc = "unlinked"]
        BY <3>7 DEF SelectConf, SetConf, DeleteConf
      <4>2. ASSUME NEW c \in Confs \cup {NoConf}, NEW label \in {"restack", "selectconf", "unlinked"},
                   rq' = [rq EXCEPT ![r].name = c, ![r].pc = label]
            PROVE  rq'[r].pc = label /\ \A q \in Reqs : q # r => rq'[q] = rq[q]
        BY <4>2 DEF TypeOK, Request
      <4> QED
        BY <4>1, <4>2
    <3>8. CASE AfterUnlink(r) \/ Unname(r) \/ AfterSave(r)
      <4>1. \/ rq' = [rq EXCEPT ![r].pc = "unname"] \/ rq' = [rq EXCEPT ![r] = Idle]
            \/ StartReload(r)
        BY <3>8 DEF AfterUnlink, Unname, AfterSave, Goto, Finish
      <4>2. StartReload(r) => /\ \A q \in Reqs : q # r => rq'[q] = rq[q]
                              /\ rq'[r].pc = "read"
        BY ReloadMoves DEF TypeOK
      <4>3. CASE rq' = [rq EXCEPT ![r].pc = "unname"] \/ rq' = [rq EXCEPT ![r] = Idle]
        BY <4>3 DEF Idle, TypeOK, Request
      <4> QED
        BY <4>1, <4>2, <4>3
    <3>9. CASE \/ (\E c \in Confs, rules \in SUBSET Rules : FetchConf(r, c, rules))
               \/ (\E proxies \in SUBSET Nodes : AddProxies(r, proxies))
      BY <1>2, <3>9 DEF FetchConf, AddProxies, Goto, Finish, Idle, TypeOK, Request
    <3>10. CASE ListRules(r) \/ CreateDefault(r)
      BY <3>10 DEF ListRules, CreateDefault, Goto, Enter, Finish, Idle, TypeOK, Request
    <3>11. CASE WriteConf(r) \/ WriteFail(r)
      BY <3>11, ReloadMoves DEF WriteConf, WriteFail, Goto, Finish, Idle, TypeOK, Request
    <3> QED
      BY <3>1, <3>2, <3>3, <3>4, <3>5, <3>6, <3>7, <3>8, <3>9, <3>10, <3>11
  <2> QED
    BY <2>1, ElsewhereNamed
<1> QED
  BY <1>1, <1>2

\* The steps that come to read or to save a .conf have the name of one.
LEMMA RulesNamed ==
  ASSUME TypeOK, AllNamed, NEW r \in Reqs,
         \/ EditRules(r) \/ UseDefault(r) \/ ReadRules(r)
         \/ \E c \in Confs, rules \in SUBSET Rules : SaveConf(r, c, rules)
  PROVE  AllNamed'
<1>1. rq \in [Reqs -> Request] /\ rq[r] \in Request /\ Named(r)
  BY DEF TypeOK, AllNamed
<1>2. \A q \in Reqs : q # r => rq'[q] = rq[q]
  BY <1>1 DEF EditRules, UseDefault, ReadRules, SaveConf, Goto, Finish
<1>3. Named(r)'
  <2>1. CASE EditRules(r)
    BY <1>1, <2>1 DEF EditRules, Goto, Named, TypeOK, State, Request
  <2>2. CASE UseDefault(r)
    BY <1>1, <2>2, ConfsAssumption DEF UseDefault, Named, Request
  <2>3. CASE ReadRules(r)
    <3>1. rq[r].name \in Confs
      BY <1>1, <2>3 DEF ReadRules, At, Named
    <3>2. \/ rq' = [rq EXCEPT ![r] = Idle]
          \/ \E edited : rq' = [rq EXCEPT ![r].held = edited, ![r].pc = "edit"]
      BY <2>3 DEF ReadRules, Finish
    <3>3. rq'[r].pc = "idle" \/ rq'[r].name = rq[r].name
      <4>1. CASE rq' = [rq EXCEPT ![r] = Idle]
        BY <1>1, <4>1 DEF Idle
      <4>2. ASSUME NEW edited, rq' = [rq EXCEPT ![r].held = edited, ![r].pc = "edit"]
            PROVE  rq'[r].name = rq[r].name
        BY <1>1, <4>2 DEF Request
      <4> QED
        BY <3>2, <4>1, <4>2
    <3> QED
      BY <3>1, <3>3 DEF Named
  <2>4. ASSUME NEW c \in Confs, NEW rules \in SUBSET Rules, SaveConf(r, c, rules)
        PROVE  Named(r)'
    BY <1>1, <2>4 DEF SaveConf, Named, Request
  <2> QED
    BY <2>1, <2>2, <2>3, <2>4
<1> QED
  BY <1>2, <1>3 DEF AllNamed, Named

\* Well-typed, with a name for every .conf that is worked on.
Typed == TypeOK /\ AllNamed

LEMMA InitTyped == Init => Typed
<1>1. Init => AllNamed
  BY DEF Init, BootRequests, Idle, AllNamed, Named
<1> QED
  BY <1>1, InitType DEF Typed

\* Every step keeps the state well typed.
LEMMA NextTyped == Typed /\ [Next]_vars => Typed'
<1> SUFFICES ASSUME TypeOK, AllNamed, [Next]_vars PROVE TypeOK' /\ AllNamed'
  BY DEF Typed
<1>1. ASSUME NEW r \in Reqs, Begin(r) \/ Continue(r)
      PROVE  TypeOK' /\ AllNamed'
  <2> Named(r)
    BY DEF AllNamed
  <2>1. CASE Begin(r)
    BY <2>1, SelectionType, ContentType, ConfType, RulesType, HandlersNamed, RulesNamed
    DEF Begin
  <2>2. CASE EngineStep(r)
    BY <2>2, StopType, UpType, ReadType, StartType, EngineNamed DEF EngineStep
  <2>3. CASE Continue(r) /\ ~EngineStep(r)
    BY <2>3, SelectionType, ContentType, ConfType, RulesType, HandlersNamed, RulesNamed
    DEF Continue
  <2> QED
    BY <1>1, <2>1, <2>2, <2>3
<1>2. CASE UNCHANGED vars
  BY <1>2 DEF vars, TypeOK, AllNamed, Named
<1>3. CASE (\E p \in Procs : SbLoad(p) \/ SbDie(p)) \/ AwgDie \/ Crash
  <2>1. UNCHANGED rq \/ rq' = BootRequests
    BY <1>3 DEF SbLoad, SbDie, AwgDie, Crash
  <2>2. \A r \in Reqs : BootRequests[r].pc \in {"idle", "read"}
    BY DEF BootRequests, Idle
  <2>3. AllNamed'
    BY <2>1, <2>2 DEF AllNamed, Named
  <2> QED
    BY <1>3, <2>3, EnvironmentType
<1> QED
  BY <1>1, <1>2, <1>3 DEF Next

\* The state of the engine is well typed, whatever requests come together.
THEOREM TypeCorrect == Spec => []TypeOK
<1>1. Typed => TypeOK
  BY DEF Typed
<1> QED
  BY <1>1, InitTyped, NextTyped, PTL DEF Spec

-----------------------------------------------------------------------------
(* One tunnel: no sing-box is left running behind the daemon's back. *)

\* A later step of a handler outside the engine.
Handler(r) ==
  \/ SetSelected(r) \/ AfterDelete(r) \/ Deselect(r) \/ AfterReplace(r) \/ Reselect(r)
  \/ (\E nodes \in SUBSET Nodes : Fetched(r, nodes)) \/ FetchFail(r)
  \/ AfterUpdate(r) \/ ClearSelection(r)
  \/ SetConf(r) \/ AfterUnlink(r) \/ Unname(r)
  \/ (\E proxies \in SUBSET Nodes : AddProxies(r, proxies))
  \/ CreateDefault(r) \/ UseDefault(r) \/ ReadRules(r)
  \/ WriteConf(r) \/ WriteFail(r) \/ AfterSave(r)

LEMMA ContinueIs ==
  ASSUME NEW r \in Reqs, Continue(r)
  PROVE  EngineStep(r) \/ Handler(r)
  BY DEF Continue, Handler

\* A step of a request that does not wait for sing-box, and does not start to,
\* leaves the accounting of the processes alone.
LEMMA OtherStep ==
  ASSUME TypeOK, NoOrphan, NEW r \in Reqs, rq[r].pc # "wait",
         UNCHANGED <<sbCmd, sbLive>>, \A q \in Reqs : q # r => rq'[q] = rq[q]
  PROVE  NoOrphan'
  BY DEF NoOrphan, At

\* Taking sing-box out of the slot and waiting for it keeps the accounting.
LEMMA StopOrphan ==
  ASSUME TypeOK, NoOrphan, NEW r \in Reqs, SbTake(r) \/ SbStopped(r)
  PROVE  NoOrphan'
<1>1. CASE SbTake(r)
  BY <1>1 DEF SbTake, Sb!SlotTake, NoOrphan, At, TypeOK
<1>2. CASE SbStopped(r)
  <2>1. \A q \in Reqs : q # r => rq'[q] = rq[q]
    BY <1>2 DEF SbStopped, Finish, TypeOK
  <2>2. rq[r].victim \notin sbLive /\ UNCHANGED <<sbCmd, sbLive>>
    BY <1>2 DEF SbStopped, stack
  <2> QED
    BY <2>1, <2>2 DEF NoOrphan, At
<1> QED
  BY <1>1, <1>2

\* Starting sing-box keeps the accounting: the slot holds no live process.
LEMMA SpawnOrphan ==
  ASSUME TypeOK, NoOrphan, NEW r \in Reqs, NEW p \in Procs, SbSpawn(r, p)
  PROVE  NoOrphan'
<1>1. sbCmd \notin sbLive /\ sbCmd' = p /\ sbLive' = sbLive \cup {p}
  BY DEF SbSpawn, Sb!SlotStart, Sb!Free
<1>2. rq[r].pc = "spawn" /\ \A q \in Reqs : q # r => rq'[q] = rq[q]
  BY DEF SbSpawn, Goto, At, TypeOK
<1> QED
  BY <1>1, <1>2 DEF NoOrphan, At

\* Every step keeps the accounting.
LEMMA NextOrphan == TypeOK /\ NoOrphan /\ [Next]_vars => NoOrphan'
<1> SUFFICES ASSUME TypeOK, NoOrphan, [Next]_vars PROVE NoOrphan'
  OBVIOUS
<1> USE DEF stack, store
<1>1. ASSUME NEW r \in Reqs, Begin(r)
      PROVE  NoOrphan'
  <2>1. rq[r].pc # "wait"
    BY <1>1 DEF Begin, Up, Down, SetMode, SelectNode, DeleteNode, ImportNode,
                ReplaceNode, AddSub, UpdateSubs, DeleteSub, SelectConf, DeleteConf,
                FetchConf, SaveConf, ListRules, EditRules, Call, At
  <2>2. UNCHANGED <<sbCmd, sbLive>>
    BY <1>1 DEF Begin, Up, Down, SetMode, SelectNode, DeleteNode, ImportNode,
                ReplaceNode, AddSub, UpdateSubs, DeleteSub, SelectConf, DeleteConf,
                FetchConf, SaveConf, ListRules, EditRules
  <2>3. \A q \in Reqs : q # r => rq'[q] = rq[q]
    BY <1>1 DEF Begin, Up, Down, SetMode, SelectNode, DeleteNode, ImportNode,
                ReplaceNode, AddSub, UpdateSubs, DeleteSub, SelectConf, DeleteConf,
                FetchConf, SaveConf, ListRules, EditRules, Goto, Enter, TypeOK
  <2> QED
    BY <2>1, <2>2, <2>3, OtherStep
<1>2. ASSUME NEW r \in Reqs,
             \/ AwgUnroute(r) \/ AwgStop(r) \/ SetDown(r) \/ Check(r)
             \/ CheckNode(r) \/ GenerateState(r) \/ GenerateNode(r) \/ GenerateName(r)
             \/ GenerateConf(r) \/ GenerateWrite(r) \/ GenerateFail(r)
             \/ AwgStart(r) \/ AwgConfigure(r) \/ AwgRoute(r) \/ AwgFail(r)
             \/ SbSpawnFail(r) \/ SbReady(r) \/ SbNotReady(r) \/ SetUp(r)
             \/ SetErr(r) \/ ReloadIfUp(r) \/ Restack(r)
      PROVE  NoOrphan'
  <2>1. rq[r].pc # "wait"
    BY <1>2 DEF AwgUnroute, AwgStop, SetDown, Check, CheckNode, GenerateState,
                GenerateNode, GenerateName, GenerateConf, GenerateWrite, GenerateFail,
                AwgStart, AwgConfigure, AwgRoute, AwgFail, SbSpawnFail,
                SbReady, SbNotReady, SetUp, SetErr, ReloadIfUp, Restack, At
  <2>2. UNCHANGED <<sbCmd, sbLive>>
    BY <1>2 DEF AwgUnroute, AwgStop, SetDown, Check, CheckNode, GenerateState,
                GenerateNode, GenerateName, GenerateConf, GenerateWrite, GenerateFail,
                AwgStart, AwgConfigure, AwgRoute, AwgFail, SbSpawnFail,
                SbReady, SbNotReady, SetUp, SetErr, ReloadIfUp, Restack
  <2>3. \A q \in Reqs : q # r => rq'[q] = rq[q]
    BY <1>2 DEF AwgUnroute, AwgStop, SetDown, Check, CheckNode, GenerateState,
                GenerateNode, GenerateName, GenerateConf, GenerateWrite, GenerateFail,
                AwgStart, AwgConfigure, AwgRoute, AwgFail, SbSpawnFail,
                SbReady, SbNotReady, SetUp, SetErr, ReloadIfUp, Restack,
                Goto, Enter, Finish, TypeOK
  <2> QED
    BY <2>1, <2>2, <2>3, OtherStep
<1>3. ASSUME NEW r \in Reqs, Handler(r)
      PROVE  NoOrphan'
  <2>1. rq[r].pc # "wait"
    BY <1>3 DEF Handler, SetSelected, AfterDelete, Deselect, AfterReplace, Reselect, Fetched,
                FetchFail, Fetching, AfterUpdate, ClearSelection, SetConf, AfterUnlink, Unname,
                AddProxies, CreateDefault, UseDefault, ReadRules, WriteConf, WriteFail,
                AfterSave, At
  <2>2. UNCHANGED <<sbCmd, sbLive>>
    BY <1>3 DEF Handler, SetSelected, AfterDelete, Deselect, AfterReplace, Reselect, Fetched,
                FetchFail, AfterUpdate, ClearSelection, SetConf, AfterUnlink, Unname,
                AddProxies, CreateDefault, UseDefault, ReadRules, WriteConf, WriteFail,
                AfterSave
  <2>3. \A q \in Reqs : q # r => rq'[q] = rq[q]
    BY <1>3 DEF Handler, SetSelected, AfterDelete, Deselect, AfterReplace, Reselect, Fetched,
                FetchFail, AfterFetch, AfterUpdate, ClearSelection, SetConf, AfterUnlink, Unname,
                AddProxies, CreateDefault, UseDefault, ReadRules, WriteConf, WriteFail,
                AfterSave,
                Goto, Enter, Finish, StartReload, TypeOK
  <2> QED
    BY <2>1, <2>2, <2>3, OtherStep
<1>4. ASSUME NEW p \in Procs, SbLoad(p)
      PROVE  NoOrphan'
  BY <1>4 DEF SbLoad, NoOrphan, At
<1>5. ASSUME NEW p \in Procs, SbDie(p)
      PROVE  NoOrphan'
  BY <1>5 DEF SbDie, Sb!SlotExit, NoOrphan, At
<1>6. CASE AwgDie \/ UNCHANGED vars
  BY <1>6 DEF AwgDie, vars, NoOrphan, At
<1>7. CASE Crash
  BY <1>7 DEF Crash, NoOrphan
<1> QED
  BY <1>1, <1>2, <1>3, <1>4, <1>5, <1>6, <1>7, StopOrphan, SpawnOrphan, ContinueIs
  DEF Next, EngineStep

\* However many requests start and stop the stack at the same time, every
\* sing-box that runs is in the slot or being waited for.
THEOREM OneTunnel == Spec => []NoOrphan
<1>1. Init => NoOrphan
  BY DEF Init, Sb!SlotInit, NoOrphan
<1> QED
  BY <1>1, TypeCorrect, NextOrphan, PTL DEF Spec

-----------------------------------------------------------------------------
(***************************************************************************)
(* One request at a time.  UpIsHonest speaks of the moments between        *)
(* requests; Serial says why it holds there, for the only request r there  *)
(* is: which operation it can be in at each label (Flow), where sing-box   *)
(* is down for certain (DownWhere), that a Reload only stops and starts    *)
(* what is up (ReloadUp), where a live sing-box need not be admitted       *)
(* (Honest), that stop empties the slot (Emptied) and that awgUp works for *)
(* an AWG node (Aimed).                                                    *)
(***************************************************************************)
Generating == {"read", "readnode", "readname", "readconf", "write"}

\* Labels of the handlers, where nothing is under way in the engine.
Outside ==
  {"idle", "restack", "select", "deleted", "deselect", "replaced", "reselect", "fetch",
   "fetchonly", "gone", "selectconf", "unlinked", "unname", "proxies", "default", "named",
   "readrules", "edit", "save", "saved"}

Flow(r) ==
  LET at == rq[r].pc
      op == rq[r].op
      downs == {"down", "downup", "downclear"}
  IN  /\ at \in {"take", "wait"} => op \in downs \cup {"up", "failup", "reload", "failreload"}
      /\ at \in {"unroute", "unawg"} => op \in downs \cup {"up", "failup"}
      /\ at = "setdown" => op \in downs
      /\ at \in Generating => op \in {"up", "reload", "gen"}
      /\ at \in {"spawn", "ready"} => op \in {"up", "reload"}
      /\ at \in {"check", "checknode", "awg", "awgconf", "awgroute", "setup"} => op = "up"
      /\ at = "isup" => op = "reload"

DownWhere(r) ==
  \/ rq[r].pc \in {"unroute", "unawg", "setdown", "clear", "check", "checknode", "awg",
                    "awgconf", "awgroute", "seterr"}
  \/ rq[r].pc \in Generating \cup {"spawn"} /\ rq[r].op = "up"
  => sbLive = {}

ReloadUp(r) ==
  \/ rq[r].op = "reload" /\ rq[r].pc \in {"take", "wait", "spawn", "ready"}
  \/ rq[r].op = "failreload" /\ rq[r].pc \in {"take", "wait"}
  => st.up

Honest(r) ==
  sbLive # {} => st.up \/ rq[r].pc \in {"take", "wait", "ready", "setup"}

Emptied(r) == rq[r].pc = "wait" => sbCmd = NoProc

Aimed(r) == rq[r].pc \in {"awg", "awgconf"} => rq[r].node \in AwgNodes

Serial(r) ==
  Flow(r) /\ DownWhere(r) /\ ReloadUp(r) /\ Honest(r) /\ Emptied(r) /\ Aimed(r)

\* A step of the request that leaves sing-box, up and the operation alone and
\* moves between labels outside the engine.
LEMMA HandlerSerial ==
  ASSUME NEW r \in Reqs, Serial(r), UNCHANGED <<sbCmd, sbLive>>, st'.up = st.up,
         rq[r].pc \notin {"take", "wait", "ready", "setup"},
         \/ rq'[r].pc \in Outside
         \/ rq'[r].pc = "take" /\ rq'[r].op \in {"up", "down", "downup", "downclear"}
         \/ rq'[r].pc = "read" /\ rq'[r].op \in {"gen", "reload"}
  PROVE  Serial(r)'
  BY DEF Serial, Flow, DownWhere, ReloadUp, Honest, Emptied, Aimed, Outside, Generating

\* Where the first step of a handler leads; only /mode changes what sing-box is
\* to have at once.
BeginsAt ==
  {"idle", "select", "deleted", "replaced", "fetch", "fetchonly", "gone", "selectconf",
   "unlinked", "proxies", "save", "default", "readrules"}

LEMMA BeginLabels ==
  ASSUME TypeOK, NEW r \in Reqs, Begin(r)
  PROVE  \/ rq'[r].pc \in BeginsAt
         \/ rq'[r].pc = "restack" /\ \E m \in Modes : SetMode(r, m)
         \/ rq'[r].pc = "take" /\ rq'[r].op \in {"up", "down"}
<1>0. rq \in [Reqs -> Request]
  BY DEF TypeOK
<1>1. CASE Up(r) \/ Down(r) \/ \E m \in Modes : SetMode(r, m)
  BY <1>0, <1>1 DEF Up, Down, SetMode, Goto, Enter, Request
<1>2. ASSUME NEW n \in Nodes, SelectNode(r, n) \/ DeleteNode(r, n)
      PROVE  rq'[r].pc \in BeginsAt
  <2>1. rq'[r].pc = "select" \/ rq'[r].pc = "deleted"
    BY <1>0, <1>2 DEF SelectNode, DeleteNode, Request
  <2> QED
    BY <2>1 DEF BeginsAt
<1>3. ASSUME NEW n \in Nodes, NEW m \in Nodes, ReplaceNode(r, n, m)
      PROVE  rq'[r].pc \in BeginsAt
  <2>1. rq' = [rq EXCEPT ![r].node = n, ![r].new = m, ![r].pc = "replaced"]
    BY <1>3 DEF ReplaceNode
  <2>2. rq'[r].pc = "replaced"
    BY <1>0, <2>1 DEF Request
  <2> QED
    BY <2>2 DEF BeginsAt
<1>4. CASE DeleteSub(r) \/ \E n \in Nodes : ImportNode(r, n)
  BY <1>4 DEF DeleteSub, ImportNode, Call, At, BeginsAt
<1>5. CASE AddSub(r) \/ UpdateSubs(r) \/ ListRules(r)
  BY <1>0, <1>5 DEF AddSub, UpdateSubs, ListRules, Goto, Enter, Request, BeginsAt
<1>6. ASSUME NEW c \in Confs \cup {NoConf}, SelectConf(r, c) \/ DeleteConf(r, c)
      PROVE  rq'[r].pc \in BeginsAt
  <2>1. rq'[r].pc = "selectconf" \/ rq'[r].pc = "unlinked"
    BY <1>0, <1>6 DEF SelectConf, DeleteConf, Request
  <2> QED
    BY <2>1 DEF BeginsAt
<1>7. ASSUME NEW c \in Confs, NEW rules \in SUBSET Rules,
             FetchConf(r, c, rules) \/ SaveConf(r, c, rules)
      PROVE  rq'[r].pc \in BeginsAt
  <2>1. \/ rq'[r].pc = "proxies" \/ rq'[r].pc = "save" \/ rq'[r].pc = "idle"
    <3>1. CASE FetchConf(r, c, rules)
      BY <1>0, <3>1 DEF FetchConf, Goto, Call, At, Request
    <3>2. CASE SaveConf(r, c, rules)
      BY <1>0, <3>2 DEF SaveConf, Request
    <3> QED
      BY <1>7, <3>1, <3>2
  <2> QED
    BY <2>1 DEF BeginsAt
<1>8. CASE EditRules(r)
  <2>1. \/ rq' = [rq EXCEPT ![r].pc = "default"]
        \/ rq' = [rq EXCEPT ![r].name = st.conf, ![r].pc = "readrules"]
    BY <1>8 DEF EditRules, Goto
  <2>2. rq'[r].pc = "default" \/ rq'[r].pc = "readrules"
    BY <1>0, <2>1 DEF Request
  <2> QED
    BY <2>2 DEF BeginsAt
<1> QED
  BY <1>1, <1>2, <1>3, <1>4, <1>5, <1>6, <1>7, <1>8 DEF Begin

\* Where the later steps of the handlers lead.
LEMMA HandlerLabels ==
  ASSUME TypeOK, NEW r \in Reqs, Handler(r)
  PROVE  \/ rq'[r].pc \in Outside
         \/ rq'[r].pc = "take" /\ rq'[r].op \in {"down", "downclear"}
         \/ rq'[r].pc = "read" /\ rq'[r].op = "reload"
<1>0. rq \in [Reqs -> Request]
  BY DEF TypeOK
<1>1. CASE SetSelected(r) \/ Reselect(r) \/ SetConf(r)
  <2>1. rq'[r].pc = "restack"
    BY <1>0, <1>1 DEF SetSelected, Reselect, SetConf, Request
  <2> QED
    BY <2>1 DEF Outside
<1>2. CASE AfterDelete(r) \/ AfterReplace(r) \/ AfterUpdate(r)
  BY <1>0, <1>2 DEF AfterDelete, AfterReplace, AfterUpdate, Goto, Enter, Finish, Idle,
                    Request, Outside
<1>3. CASE Deselect(r)
  <2>1. rq' = [rq EXCEPT ![r].node = NoNode, ![r].op = "down", ![r].pc = "take"]
    BY <1>3 DEF Deselect
  <2> QED
    BY <1>0, <2>1 DEF Request
<1>4. CASE (\E nodes \in SUBSET Nodes : Fetched(r, nodes)) \/ FetchFail(r) \/ ClearSelection(r)
  BY <1>0, <1>4 DEF Fetched, FetchFail, AfterFetch, ClearSelection, Goto, Finish, Idle,
                    Request, Outside
<1>5. CASE AfterUnlink(r) \/ CreateDefault(r) \/ \E proxies \in SUBSET Nodes : AddProxies(r, proxies)
  BY <1>0, <1>5 DEF AfterUnlink, CreateDefault, AddProxies, Goto, Finish, Idle, Request, Outside
<1>6. CASE Unname(r) \/ WriteConf(r) \/ WriteFail(r) \/ AfterSave(r)
  <2>1. \/ rq' = [rq EXCEPT ![r].pc = "saved"] \/ rq' = [rq EXCEPT ![r] = Idle]
        \/ StartReload(r)
    BY <1>6 DEF Unname, WriteConf, WriteFail, AfterSave, Goto, Finish
  <2>2. StartReload(r) => rq'[r].pc = "read" /\ rq'[r].op = "reload"
    BY <1>0, ReloadMoves
  <2> QED
    BY <1>0, <2>1, <2>2 DEF Idle, Request, Outside
<1>7. CASE UseDefault(r)
  <2>1. rq' = [rq EXCEPT ![r].name = Default, ![r].pc = "readrules"]
    BY <1>7 DEF UseDefault
  <2> QED
    BY <1>0, <2>1 DEF Request, Outside
<1>8. CASE ReadRules(r)
  <2>1. \/ rq' = [rq EXCEPT ![r] = Idle]
        \/ \E edited : rq' = [rq EXCEPT ![r].held = edited, ![r].pc = "edit"]
    BY <1>8 DEF ReadRules, Finish
  <2>2. ASSUME NEW edited, rq' = [rq EXCEPT ![r].held = edited, ![r].pc = "edit"]
        PROVE  rq'[r].pc = "edit"
    BY <1>0, <2>2 DEF Request
  <2>3. rq'[r].pc = "idle" \/ rq'[r].pc = "edit"
    <3>1. rq' = [rq EXCEPT ![r] = Idle] => rq'[r].pc = "idle"
      BY <1>0 DEF Idle
    <3> QED
      BY <2>1, <2>2, <3>1
  <2> QED
    BY <2>3 DEF Outside
<1> QED
  BY <1>1, <1>2, <1>3, <1>4, <1>5, <1>6, <1>7, <1>8 DEF Handler

\* Where they come from; they leave sing-box, singbox.json and up alone.
HandlesAt ==
  {"clear", "select", "deleted", "deselect", "replaced", "reselect", "fetch", "fetchonly",
   "gone", "selectconf", "unlinked", "unname", "proxies", "default", "named", "readrules",
   "edit", "save", "saved"}

LEMMA HandlerFrom ==
  ASSUME TypeOK, NEW r \in Reqs, Handler(r)
  PROVE  rq[r].pc \in HandlesAt /\ UNCHANGED <<stack, file, awgVars>> /\ st'.up = st.up
<1> USE DEF store, nodeVars, stack, awgVars, At
<1>1. CASE \/ SetSelected(r) \/ AfterDelete(r) \/ Deselect(r) \/ AfterReplace(r) \/ Reselect(r)
           \/ AfterUpdate(r) \/ ClearSelection(r)
  BY <1>1 DEF SetSelected, AfterDelete, Deselect, AfterReplace, Reselect, AfterUpdate,
              ClearSelection, HandlesAt, TypeOK, State
<1>2. CASE \/ (\E nodes \in SUBSET Nodes : Fetched(r, nodes)) \/ FetchFail(r)
           \/ \E proxies \in SUBSET Nodes : AddProxies(r, proxies)
  BY <1>2 DEF Fetched, FetchFail, Fetching, AddProxies, HandlesAt
<1>3. CASE SetConf(r) \/ AfterUnlink(r) \/ Unname(r) \/ AfterSave(r)
  BY <1>3 DEF SetConf, AfterUnlink, Unname, AfterSave, HandlesAt, TypeOK, State
<1>4. CASE CreateDefault(r) \/ UseDefault(r) \/ ReadRules(r)
  BY <1>4 DEF CreateDefault, UseDefault, ReadRules, HandlesAt, TypeOK, State
<1>5. CASE WriteConf(r) \/ WriteFail(r)
  BY <1>5 DEF WriteConf, WriteFail, HandlesAt
<1> QED
  BY <1>1, <1>2, <1>3, <1>4, <1>5 DEF Handler

\* The handlers outside the engine.
LEMMA HandlersSerial ==
  ASSUME TypeOK, NEW r \in Reqs, Serial(r), Begin(r) \/ Restack(r) \/ Handler(r)
  PROVE  Serial(r)'
<1> USE DEF store, nodeVars, stack, At
<1>1. CASE Begin(r)
  <2>1. rq[r].pc = "idle" /\ UNCHANGED <<sbCmd, sbLive>>
    BY <1>1 DEF Begin, Up, Down, SetMode, SelectNode, DeleteNode, ImportNode,
                ReplaceNode, AddSub, UpdateSubs, DeleteSub, SelectConf, DeleteConf,
                FetchConf, SaveConf, ListRules, EditRules, Call
  <2>2. st'.up = st.up
    BY <1>1 DEF Begin, Up, Down, SetMode, SelectNode, DeleteNode, ImportNode,
                ReplaceNode, AddSub, UpdateSubs, DeleteSub, SelectConf, DeleteConf,
                FetchConf, SaveConf, ListRules, EditRules, TypeOK, State
  <2>3. \/ rq'[r].pc \in Outside
        \/ rq'[r].pc = "take" /\ rq'[r].op \in {"up", "down"}
    BY <1>1, BeginLabels DEF BeginsAt, Outside
  <2> QED
    BY <2>1, <2>2, <2>3, HandlerSerial
<1>2. CASE Restack(r)
  <2>1. rq[r].pc = "restack" /\ UNCHANGED <<sbCmd, sbLive, st>>
    BY <1>2 DEF Restack
  <2>2. \/ rq'[r].pc = "take" /\ rq'[r].op = "downup"
        \/ rq'[r].pc = "read" /\ rq'[r].op = "gen"
    BY <1>2 DEF Restack, Enter, TypeOK, Request
  <2> QED
    BY <2>1, <2>2, HandlerSerial
<1>3. CASE Handler(r)
  <2>1. /\ rq[r].pc \notin {"take", "wait", "ready", "setup"}
        /\ UNCHANGED <<sbCmd, sbLive>>
        /\ st'.up = st.up
    BY <1>3, HandlerFrom DEF HandlesAt
  <2>2. \/ rq'[r].pc \in Outside
        \/ rq'[r].pc = "take" /\ rq'[r].op \in {"down", "downclear"}
        \/ rq'[r].pc = "read" /\ rq'[r].op = "reload"
    BY <1>3, HandlerLabels
  <2> QED
    BY <2>1, <2>2, HandlerSerial
<1> QED
  BY <1>1, <1>2, <1>3

\* Stopping sing-box and AWG.
LEMMA StopSerial ==
  ASSUME TypeOK, NoOrphan, NEW r \in Reqs, Reqs = {r}, Serial(r),
         SbTake(r) \/ SbStopped(r) \/ AwgUnroute(r) \/ AwgStop(r) \/ SetDown(r)
  PROVE  Serial(r)'
<1> USE DEF store, nodeVars, stack, At
<1> DEFINE downs == {"down", "downup", "downclear"}
<1>1. CASE SbTake(r)
  <2>1. /\ rq[r].pc = "take" /\ rq'[r].pc = "wait" /\ rq'[r].op = rq[r].op
        /\ sbCmd' = NoProc /\ UNCHANGED <<sbLive, st>>
    BY <1>1 DEF SbTake, Sb!SlotTake, TypeOK, Request
  <2> QED
    BY <2>1 DEF Serial, Flow, DownWhere, ReloadUp, Honest, Emptied, Aimed, Generating
<1>2. CASE SbStopped(r)
  <2>1. rq[r].pc = "wait" /\ UNCHANGED <<sbCmd, sbLive, st>>
    BY <1>2 DEF SbStopped
  <2>2. sbLive = {}
    <3>1. sbCmd \notin sbLive
      BY <2>1, ProcsAssumption DEF Serial, Emptied, TypeOK
    <3>2. rq[r].victim \notin sbLive
      BY <1>2 DEF SbStopped
    <3> QED
      BY <3>1, <3>2 DEF NoOrphan
  <2>3. \/ rq'[r].pc = "idle"
        \/ rq'[r].pc = "spawn" /\ rq[r].op = "reload" /\ rq'[r].op = "reload"
        \/ /\ rq'[r].pc = "unroute" /\ rq[r].op \notin {"reload", "failreload"}
           /\ rq'[r].op = rq[r].op
    BY <1>2 DEF SbStopped, Finish, Idle, TypeOK, Request
  <2> QED
    BY <2>1, <2>2, <2>3 DEF Serial, Flow, DownWhere, ReloadUp, Honest, Emptied, Aimed, Generating
<1>3. CASE AwgUnroute(r)
  <2>1. /\ rq[r].pc = "unroute" /\ rq'[r].pc = "unawg" /\ rq'[r].op = rq[r].op
        /\ UNCHANGED <<sbCmd, sbLive, st>>
    BY <1>3 DEF AwgUnroute, Goto, TypeOK, Request
  <2> QED
    BY <2>1 DEF Serial, Flow, DownWhere, ReloadUp, Honest, Emptied, Aimed, Generating
<1>4. CASE AwgStop(r)
  <2>1. /\ rq[r].pc = "unawg" /\ rq'[r].op = rq[r].op
        /\ \/ rq'[r].pc = "check" /\ rq[r].op = "up"
           \/ rq'[r].pc = "seterr" /\ rq[r].op = "failup"
           \/ rq'[r].pc = "setdown" /\ rq[r].op \notin {"up", "failup"}
        /\ UNCHANGED <<sbCmd, sbLive, st>>
    BY <1>4 DEF AwgStop, Goto, TypeOK, Request
  <2> QED
    BY <2>1 DEF Serial, Flow, DownWhere, ReloadUp, Honest, Emptied, Aimed, Generating
<1>5. CASE SetDown(r)
  <2>1. /\ rq[r].pc = "setdown" /\ UNCHANGED <<sbCmd, sbLive>>
        /\ \/ rq'[r].pc = "take" /\ rq'[r].op = "up"
           \/ rq'[r].pc = "clear"
           \/ rq'[r].pc = "idle"
    BY <1>5 DEF SetDown, Goto, Enter, Finish, Idle, TypeOK, Request
  <2> QED
    BY <2>1 DEF Serial, Flow, DownWhere, ReloadUp, Honest, Emptied, Aimed, Generating
<1> QED
  BY <1>1, <1>2, <1>3, <1>4, <1>5

\* Up, up to the point where sing-box is started.
LEMMA UpSerial ==
  ASSUME TypeOK, NEW r \in Reqs, Serial(r),
         \/ Check(r) \/ CheckNode(r) \/ GenerateState(r) \/ GenerateNode(r)
         \/ GenerateName(r) \/ GenerateConf(r) \/ GenerateWrite(r) \/ GenerateFail(r)
         \/ AwgStart(r) \/ AwgConfigure(r) \/ AwgRoute(r) \/ AwgFail(r)
  PROVE  Serial(r)'
<1> USE DEF store, nodeVars, stack, At
<1>0. rq \in [Reqs -> Request]
  BY DEF TypeOK
<1>1. CASE Check(r) \/ CheckNode(r)
  <2>1. \/ rq' = [rq EXCEPT ![r].node = st.node, ![r].pc = "checknode"]
        \/ rq' = [rq EXCEPT ![r].pc = "read"] \/ rq' = [rq EXCEPT ![r].pc = "seterr"]
    BY <1>1 DEF Check, CheckNode, Goto
  <2>2. rq'[r].op = rq[r].op /\ rq'[r].pc \in {"checknode", "seterr", "read"}
    BY <1>0, <2>1 DEF Request
  <2>3. rq[r].pc \in {"check", "checknode"} /\ UNCHANGED <<sbCmd, sbLive, st>>
    BY <1>1 DEF Check, CheckNode
  <2> QED
    BY <2>2, <2>3 DEF Serial, Flow, DownWhere, ReloadUp, Honest, Emptied, Aimed, Generating
<1>2. CASE GenerateState(r) \/ GenerateNode(r) \/ GenerateName(r) \/ GenerateConf(r)
  <2>1. /\ rq[r].pc \in Generating /\ UNCHANGED <<sbCmd, sbLive, st>>
        /\ rq'[r].op = rq[r].op /\ rq'[r].pc \in Generating
    BY <1>0, <1>2 DEF GenerateState, GenerateNode, GenerateName, GenerateConf, Request, Generating
  <2> QED
    BY <2>1 DEF Serial, Flow, DownWhere, ReloadUp, Honest, Emptied, Aimed, Generating
<1>3. CASE GenerateWrite(r)
  <2>1. /\ rq[r].pc = "write" /\ UNCHANGED <<sbCmd, sbLive, st>>
        /\ \/ rq'[r].pc = "idle"
           \/ rq'[r].pc = "isup" /\ rq[r].op = "reload" /\ rq'[r].op = "reload"
           \/ /\ rq[r].op \notin {"gen", "reload"} /\ rq'[r].op = rq[r].op
              /\ \/ rq'[r].pc = "awg" /\ rq'[r].node \in AwgNodes
                 \/ rq'[r].pc = "spawn"
    BY <1>3 DEF GenerateWrite, Goto, Finish, Idle, TypeOK, Request
  <2> QED
    BY <2>1 DEF Serial, Flow, DownWhere, ReloadUp, Honest, Emptied, Aimed, Generating
<1>4. CASE GenerateFail(r)
  <2>1. /\ rq[r].pc \in Generating /\ UNCHANGED <<sbCmd, sbLive, st>>
        /\ \/ rq'[r].pc = "idle"
           \/ rq'[r].pc = "seterr" /\ rq[r].op = "up"
    BY <1>4 DEF GenerateFail, Goto, Finish, Idle, TypeOK, Request, Generating
  <2> QED
    BY <2>1 DEF Serial, Flow, DownWhere, ReloadUp, Honest, Emptied, Aimed, Generating
<1>5. CASE AwgStart(r) \/ AwgConfigure(r) \/ AwgRoute(r)
  <2>1. /\ rq[r].pc \in {"awg", "awgconf", "awgroute"} /\ rq'[r].op = rq[r].op
        /\ \/ rq[r].pc = "awg" /\ rq'[r].pc = "awgconf" /\ rq'[r].node = rq[r].node
           \/ rq'[r].pc \in {"awgroute", "spawn"}
        /\ UNCHANGED <<sbCmd, sbLive, st>>
    <3>1. CASE AwgStart(r)
      BY <3>1 DEF AwgStart, Goto, TypeOK, Request
    <3>2. CASE AwgConfigure(r)
      BY <3>2 DEF AwgConfigure, Goto, TypeOK, Request
    <3>3. CASE AwgRoute(r)
      BY <3>3 DEF AwgRoute, Goto, TypeOK, Request
    <3> QED
      BY <1>5, <3>1, <3>2, <3>3
  <2> QED
    BY <2>1 DEF Serial, Flow, DownWhere, ReloadUp, Honest, Emptied, Aimed, Generating
<1>6. CASE AwgFail(r)
  <2>1. /\ rq[r].pc \in {"awg", "awgconf", "awgroute"} /\ rq'[r].op = "failup"
        /\ rq'[r].pc = "unroute" /\ UNCHANGED <<sbCmd, sbLive, st>>
    BY <1>6 DEF AwgFail, Enter, TypeOK, Request
  <2> QED
    BY <2>1 DEF Serial, Flow, DownWhere, ReloadUp, Honest, Emptied, Aimed, Generating
<1> QED
  BY <1>1, <1>2, <1>3, <1>4, <1>5, <1>6

\* Starting sing-box, and what comes of it.
LEMMA StartSerial ==
  ASSUME TypeOK, NEW r \in Reqs, Serial(r),
         \/ (\E p \in Procs : SbSpawn(r, p)) \/ SbSpawnFail(r) \/ SbReady(r)
         \/ SbNotReady(r) \/ SetUp(r) \/ SetErr(r) \/ ReloadIfUp(r)
  PROVE  Serial(r)'
<1> USE DEF store, nodeVars, stack, At
<1>1. ASSUME NEW p \in Procs, SbSpawn(r, p)
      PROVE  Serial(r)'
  <2>1. /\ rq[r].pc = "spawn" /\ rq'[r].op = rq[r].op /\ rq'[r].pc = "ready"
        /\ UNCHANGED st
    BY <1>1 DEF SbSpawn, Goto, TypeOK, Request
  <2> QED
    BY <2>1 DEF Serial, Flow, DownWhere, ReloadUp, Honest, Emptied, Aimed, Generating
<1>2. CASE SbSpawnFail(r)
  <2>1. /\ rq[r].pc = "spawn" /\ UNCHANGED <<sbCmd, sbLive, st>>
        /\ \/ rq'[r].pc = "unroute" /\ rq'[r].op = "failup" /\ rq[r].op = "up"
           \/ rq'[r].pc = "idle" /\ rq[r].op # "up"
    BY <1>2 DEF SbSpawnFail, Enter, Finish, Idle, TypeOK, Request
  <2> QED
    BY <2>1 DEF Serial, Flow, DownWhere, ReloadUp, Honest, Emptied, Aimed, Generating
<1>3. CASE SbReady(r)
  <2>1. /\ rq[r].pc = "ready" /\ UNCHANGED <<sbCmd, sbLive, st>>
        /\ \/ rq'[r].pc = "setup" /\ rq'[r].op = "up" /\ rq[r].op = "up"
           \/ rq'[r].pc = "idle" /\ rq[r].op # "up"
    BY <1>3 DEF SbReady, Goto, Finish, Idle, TypeOK, Request
  <2> QED
    BY <2>1 DEF Serial, Flow, DownWhere, ReloadUp, Honest, Emptied, Aimed, Generating
<1>4. CASE SbNotReady(r)
  <2>1. /\ rq[r].pc = "ready" /\ UNCHANGED <<sbCmd, sbLive, st>> /\ rq'[r].pc = "take"
        /\ \/ rq'[r].op = "failup" /\ rq[r].op = "up"
           \/ rq'[r].op = "failreload" /\ rq[r].op # "up"
    BY <1>4 DEF SbNotReady, Enter, TypeOK, Request
  <2> QED
    BY <2>1 DEF Serial, Flow, DownWhere, ReloadUp, Honest, Emptied, Aimed, Generating
<1>5. CASE SetUp(r)
  <2>1. rq'[r].pc = "idle" /\ st'.up
    BY <1>5 DEF SetUp, Finish, Idle, TypeOK
  <2> QED
    BY <2>1 DEF Serial, Flow, DownWhere, ReloadUp, Honest, Emptied, Aimed, Generating
<1>6. CASE SetErr(r)
  <2>1. /\ rq[r].pc = "seterr" /\ rq'[r].pc = "idle" /\ UNCHANGED <<sbCmd, sbLive>>
    BY <1>6 DEF SetErr, Finish, Idle, TypeOK
  <2> QED
    BY <2>1 DEF Serial, Flow, DownWhere, ReloadUp, Honest, Emptied, Aimed, Generating
<1>7. CASE ReloadIfUp(r)
  <2>1. /\ rq[r].pc = "isup" /\ UNCHANGED <<sbCmd, sbLive, st>>
        /\ \/ rq'[r].pc = "take" /\ rq'[r].op = rq[r].op /\ st.up
           \/ rq'[r].pc = "idle"
    BY <1>7 DEF ReloadIfUp, Goto, Finish, Idle, TypeOK, Request
  <2> QED
    BY <2>1 DEF Serial, Flow, DownWhere, ReloadUp, Honest, Emptied, Aimed, Generating
<1> QED
  BY <1>1, <1>2, <1>3, <1>4, <1>5, <1>6, <1>7

\* Every step of a daemon with one request at a time.
LEMMA NextSerial ==
  ASSUME NEW r, Reqs = {r}
  PROVE  TypeOK /\ NoOrphan /\ Serial(r) /\ [Next]_vars => Serial(r)'
<1> SUFFICES ASSUME TypeOK, NoOrphan, Serial(r), [Next]_vars PROVE Serial(r)'
  OBVIOUS
<1>1. CASE Begin(r) \/ Continue(r)
  BY <1>1, ContinueIs, HandlersSerial, StopSerial, UpSerial, StartSerial DEF EngineStep
<1>2. ASSUME NEW p \in Procs, SbLoad(p) \/ SbDie(p)
      PROVE  Serial(r)'
  <2>1. UNCHANGED <<rq, sbCmd, st>> /\ sbLive' \subseteq sbLive
    BY <1>2 DEF SbLoad, SbDie, Sb!SlotExit, store
  <2> QED
    BY <2>1 DEF Serial, Flow, DownWhere, ReloadUp, Honest, Emptied, Aimed, Generating
<1>3. CASE AwgDie \/ UNCHANGED vars
  BY <1>3 DEF AwgDie, vars, store, stack, Serial, Flow, DownWhere, ReloadUp, Honest, Emptied, Aimed
<1>4. CASE Crash
  <2>1. \/ rq'[r].pc = "idle"
        \/ rq'[r].pc = "read" /\ rq'[r].op = "gen"
    BY <1>4 DEF Crash, BootRequests, Idle
  <2>2. sbLive' = {}
    BY <1>4 DEF Crash
  <2> QED
    BY <2>1, <2>2 DEF Serial, Flow, DownWhere, ReloadUp, Honest, Emptied, Aimed, Generating
<1> QED
  BY <1>1, <1>2, <1>3, <1>4 DEF Next

\* With one request at a time the daemon never says "down" while a sing-box
\* runs, whatever fails, exits or crashes.
THEOREM HonestWhenSerial ==
  ASSUME NEW r, Reqs = {r}
  PROVE  Spec => []UpIsHonest
<1>1. Init => Serial(r)
  BY DEF Init, BootRequests, Idle, Sb!SlotInit,
         Serial, Flow, DownWhere, ReloadUp, Honest, Emptied, Aimed, Generating
<1>2. Serial(r) => UpIsHonest
  BY DEF Serial, Honest, UpIsHonest, Quiescent, Idle
<1> QED
  BY <1>1, <1>2, TypeCorrect, OneTunnel, NextSerial, PTL DEF Spec

\* With one request at a time, and unless amneziawg-go or the daemon dies,
\* AWG is never taken away under a running sing-box.
THEOREM ReverseOrderWhenSerial ==
  ASSUME NEW r, Reqs = {r}, "awgexit" \notin Failing, "daemon" \notin Failing
  PROVE  Spec => ReverseOrder
<1>1. Init => Serial(r)
  BY DEF Init, BootRequests, Idle, Sb!SlotInit,
         Serial, Flow, DownWhere, ReloadUp, Honest, Emptied, Aimed, Generating
<1>2. TypeOK /\ Serial(r) /\ [Next]_vars => (awg # NoNode /\ awg' = NoNode => sbLive = {})
  <2> SUFFICES ASSUME TypeOK, Serial(r), [Next]_vars, awg # NoNode, awg' = NoNode
               PROVE  sbLive = {}
    OBVIOUS
  <2>1. CASE AwgStop(r)
    BY <2>1 DEF AwgStop, At, Serial, DownWhere
  <2>2. CASE AwgStart(r) \/ AwgConfigure(r)
    BY <2>2, NodesAssumption DEF AwgStart, AwgConfigure, At, Serial, Aimed
  <2>3. CASE AwgDie \/ Crash
    BY <2>3 DEF AwgDie, Crash
  <2>4. CASE UNCHANGED awg
    BY <2>4
  <2>5. CASE Begin(r)
    BY <2>4, <2>5 DEF Begin, Up, Down, SetMode, SelectNode, DeleteNode, ImportNode,
       ReplaceNode, AddSub, UpdateSubs, DeleteSub, SelectConf, DeleteConf, FetchConf,
       SaveConf, ListRules, EditRules, awgVars
  <2>6. CASE Handler(r)
    BY <2>4, <2>6, HandlerFrom DEF awgVars
  <2>7. CASE \/ SbTake(r) \/ SbStopped(r) \/ AwgUnroute(r) \/ SetDown(r)
             \/ Check(r) \/ CheckNode(r) \/ GenerateState(r) \/ GenerateNode(r)
             \/ GenerateName(r) \/ GenerateConf(r) \/ GenerateWrite(r) \/ GenerateFail(r)
             \/ AwgRoute(r) \/ AwgFail(r)
    BY <2>4, <2>7 DEF SbTake, SbStopped, AwgUnroute, SetDown, Check, CheckNode,
       GenerateState, GenerateNode, GenerateName, GenerateConf,
       GenerateWrite, GenerateFail, AwgRoute, AwgFail, awgVars
  <2>8. CASE \/ (\E p \in Procs : SbSpawn(r, p)) \/ SbSpawnFail(r) \/ SbReady(r)
             \/ SbNotReady(r) \/ SetUp(r) \/ SetErr(r) \/ ReloadIfUp(r) \/ Restack(r)
    BY <2>4, <2>8 DEF SbSpawn, SbSpawnFail, SbReady, SbNotReady, SetUp, SetErr,
       ReloadIfUp, Restack, awgVars
  <2>9. CASE (\E p \in Procs : SbLoad(p) \/ SbDie(p)) \/ UNCHANGED vars
    BY <2>4, <2>9 DEF SbLoad, SbDie, vars, awgVars
  <2> QED
    BY <2>1, <2>2, <2>3, <2>5, <2>6, <2>7, <2>8, <2>9, ContinueIs DEF Next, EngineStep
<1> QED
  BY <1>1, <1>2, TypeCorrect, OneTunnel, NextSerial, PTL DEF Spec, ReverseOrder
-----------------------------------------------------------------------------
(***************************************************************************)
(* With one request at a time the sing-box that runs has the mode of the   *)
(* store, no node but the selected one and, unless they changed without a  *)
(* Reload, the rules of the active .conf.  What makes it so is spread over *)
(* the request: what generate has read so far (Prepared), what             *)
(* singbox.json holds before somebody reads it (Written), that nothing     *)
(* runs where generate may still come or a start may fail (Stopped), and   *)
(* where a live sing-box, or the one about to read the file, has to be     *)
(* right (RunsRight): everywhere but between a change of the store and the *)
(* stop that the handler sees to after it, and where only rules have       *)
(* changed it has mode and node even then (Fit).                           *)
(***************************************************************************)
Chosen(c) == c.mode = st.mode /\ c.node \in {st.node, NoNode}
Obeyed(c) == c.rules = RulesOf(st.conf)
Matches(c) == Chosen(c) /\ (unapplied \/ Obeyed(c))

Given(p) == IF loaded[p] = Unread THEN file ELSE loaded[p]

Fit == \A p \in sbLive : Chosen(Given(p))
Right == \A p \in sbLive : Matches(Given(p))

Prepared(r) ==
  /\ rq[r].pc = "readnode" => rq[r].snap.mode = st.mode /\ rq[r].snap.node = st.node
  /\ rq[r].pc \in {"readname", "readconf", "write"} => Chosen(rq[r].snap)
  /\ rq[r].pc = "readconf" => rq[r].name = st.conf
  /\ rq[r].pc = "write" => Obeyed(rq[r].snap)

Written(r) ==
  \/ rq[r].pc \in {"awg", "awgconf", "awgroute", "spawn", "ready", "isup"}
  \/ rq[r].pc \in {"take", "wait"} /\ rq[r].op = "reload"
  => Matches(file)

Stopped(r) ==
  \/ rq[r].pc = "spawn"
  \/ rq[r].pc \in Generating /\ rq[r].op = "gen"
  => sbLive = {}

\* Where a request has changed nothing yet that a running sing-box is to have,
\* or has done all that it does about it.
Settled ==
  {"idle", "select", "deleted", "deselect", "replaced", "reselect", "fetch", "fetchonly",
   "gone", "selectconf", "proxies", "default", "named", "readrules", "edit", "save",
   "ready", "setup"}

RunsRight(r) ==
  /\ rq[r].pc \in Settled => Right
  /\ rq[r].pc \in {"saved", "unlinked"} => Fit /\ (st.conf = rq[r].name \/ Right)
  /\ rq[r].pc = "unname" => Fit
  /\ rq[r].pc \in Generating /\ rq[r].op = "reload" => Fit

Applied(r) == Prepared(r) /\ Written(r) /\ Stopped(r) /\ RunsRight(r)

\* What is right has mode and node.
LEMMA RightIsFit == Right => Fit
  BY DEF Right, Fit, Matches

\* Where nothing runs, everything that runs is right.
LEMMA NothingRuns == sbLive = {} => Right /\ Fit
  BY DEF Right, Fit

SameSelection == st'.mode = st.mode /\ st'.node = st.node
SameRuns == UNCHANGED <<file, sbLive, loaded>>

\* A step that leaves the selection and every sing-box alone keeps mode and node.
LEMMA FitStays ==
  ASSUME SameSelection, SameRuns
  PROVE  (Fit => Fit') /\ \A c : Chosen(c)' = Chosen(c)
  BY DEF SameSelection, SameRuns, Fit, Chosen, Given

\* If it leaves the rules in force alone too, all that was right stays so.
LEMMA RightStays ==
  ASSUME SameSelection, SameRuns, RulesOf(st.conf)' = RulesOf(st.conf), UNCHANGED unapplied
  PROVE  (Right => Right') /\ (Matches(file) => Matches(file)')
  BY DEF SameSelection, SameRuns, Right, Matches, Chosen, Obeyed, Given

\* A step that does not leave them alone says so.
LEMMA OvertakenRight ==
  ASSUME Right, SameSelection, SameRuns, Overtaken, unapplied \in BOOLEAN
  PROVE  Right'
<1>1. SUFFICES ASSUME NEW p \in sbLive
               PROVE  Matches(Given(p))'
  BY DEF SameRuns, Right
<1>2. Matches(Given(p)) /\ Given(p)' = Given(p) /\ Chosen(Given(p))'
  BY <1>1, FitStays DEF Right, SameRuns, Given, Matches
<1>3. unapplied' \/ (~unapplied /\ RulesOf(st.conf)' = RulesOf(st.conf))
  BY DEF Overtaken
<1> QED
  BY <1>2, <1>3 DEF Matches, Obeyed

\* The rules of one name do not depend on the other files.
LEMMA OtherConf ==
  ASSUME NEW c, NEW d, c # d, NEW rules, UNCHANGED st,
         confs' = WithConf(c, rules) \/ confs' = WithoutConf(c)
  PROVE  RulesOf(d)' = RulesOf(d)
<1>1. CASE confs' = WithConf(c, rules)
  BY <1>1 DEF RulesOf, WithConf
<1>2. CASE confs' = WithoutConf(c)
  BY <1>2 DEF RulesOf, WithoutConf
<1> QED
  BY <1>1, <1>2

\* A new file without rules says what its absence said.
LEMMA EmptyConf ==
  ASSUME NEW c, c \notin DOMAIN confs, confs' = WithConf(c, {}), NEW d
  PROVE  RulesOf(d)' = RulesOf(d)
  BY DEF RulesOf, WithConf

\* The first step of a handler: what it changes at once is what nothing runs
\* by, or the rest of the handler knows of it.
LEMMA BeginApplied ==
  ASSUME TypeOK, NEW r \in Reqs, Applied(r), Begin(r)
  PROVE  Applied(r)'
<1> USE DEF store, nodeVars, stack, At
<1>0. rq \in [Reqs -> Request] /\ unapplied \in BOOLEAN
  BY DEF TypeOK
<1>1. CASE \/ rq'[r].pc = "restack"
           \/ rq'[r].pc = "take" /\ rq'[r].op \in {"up", "down"}
  BY <1>1 DEF Applied, Prepared, Written, Stopped, RunsRight, Settled, Generating
<1>2. ASSUME NEW c \in Confs, DeleteConf(r, c)
      PROVE  Applied(r)'
  <2>1. rq[r].pc = "idle" /\ confs' = WithoutConf(c) /\ UNCHANGED <<st, unapplied, file, stack>>
    BY <1>2 DEF DeleteConf, Call
  <2>2. rq'[r].pc = "unlinked" /\ rq'[r].name = c
    BY <1>0, <1>2 DEF DeleteConf, Request
  <2>3. SameSelection /\ SameRuns
    BY <2>1 DEF SameSelection, SameRuns
  <2>4. Right
    BY <2>1 DEF Applied, RunsRight, Settled
  <2>5. c # st.conf => Right'
    BY <2>1, <2>3, <2>4, OtherConf, RightStays
  <2>6. Fit'
    BY <2>3, <2>4, FitStays, RightIsFit
  <2>7. st'.conf = st.conf
    BY <2>1
  <2> QED
    BY <2>2, <2>5, <2>6, <2>7
    DEF Applied, Prepared, Written, Stopped, RunsRight, Settled, Generating
<1>3. ASSUME rq'[r].pc \in BeginsAt, Right'
      PROVE  Applied(r)'
  <2>1. Fit'
    BY <1>3 DEF Right, Fit, Matches
  <2> QED
    BY <1>3, <2>1
    DEF Applied, Prepared, Written, Stopped, RunsRight, Settled, Generating, BeginsAt
<1>4. ASSUME NEW c \in Confs, NEW rules \in SUBSET Rules, FetchConf(r, c, rules)
      PROVE  Right'
  <2>1. rq[r].pc = "idle" /\ Overtaken /\ UNCHANGED <<st, file, stack>>
    BY <1>4 DEF FetchConf, Call
  <2>2. SameSelection /\ SameRuns /\ Right
    BY <2>1 DEF SameSelection, SameRuns, Applied, RunsRight, Settled
  <2> QED
    BY <1>0, <2>1, <2>2, OvertakenRight
<1>5. ASSUME ~(Up(r) \/ Down(r) \/ \E m \in Modes : SetMode(r, m)),
             ~(\E c \in Confs : DeleteConf(r, c)),
             ~(\E c \in Confs, rules \in SUBSET Rules : FetchConf(r, c, rules))
      PROVE  Right'
  <2>1. rq[r].pc = "idle" /\ UNCHANGED <<st, confs, unapplied, file, stack>>
    BY <1>5 DEF Begin, SelectNode, DeleteNode, ImportNode, ReplaceNode, AddSub, UpdateSubs,
                DeleteSub, SelectConf, SaveConf, ListRules, EditRules, Call
  <2>2. SameSelection /\ SameRuns /\ Right /\ RulesOf(st.conf)' = RulesOf(st.conf)
    BY <2>1 DEF SameSelection, SameRuns, Applied, RunsRight, Settled, RulesOf
  <2> QED
    BY <2>1, <2>2, RightStays
<1>6. ASSUME Up(r) \/ Down(r) \/ \E m \in Modes : SetMode(r, m)
      PROVE  \/ rq'[r].pc = "restack"
             \/ rq'[r].pc = "take" /\ rq'[r].op \in {"up", "down"}
  BY <1>0, <1>6 DEF Up, Down, SetMode, Goto, Enter, Request
<1>7. \/ rq'[r].pc \in BeginsAt
      \/ rq'[r].pc = "restack"
      \/ rq'[r].pc = "take" /\ rq'[r].op \in {"up", "down"}
  BY BeginLabels
<1>8. CASE \E c \in Confs : DeleteConf(r, c)
  BY <1>2, <1>8
<1>9. CASE \E c \in Confs, rules \in SUBSET Rules : FetchConf(r, c, rules)
  <2>1. Right'
    BY <1>4, <1>9
  <2> QED
    BY <1>1, <1>3, <1>7, <2>1
<1>10. CASE Up(r) \/ Down(r) \/ \E m \in Modes : SetMode(r, m)
  <2>1. \/ rq'[r].pc = "restack"
        \/ rq'[r].pc = "take" /\ rq'[r].op \in {"up", "down"}
    BY <1>6, <1>10
  <2> QED
    BY <1>1, <2>1
<1>11. CASE /\ ~(Up(r) \/ Down(r) \/ \E m \in Modes : SetMode(r, m))
            /\ ~(\E c \in Confs : DeleteConf(r, c))
            /\ ~(\E c \in Confs, rules \in SUBSET Rules : FetchConf(r, c, rules))
  <2>1. Right'
    BY <1>5, <1>11
  <2> QED
    BY <1>1, <1>3, <1>7, <2>1
<1> QED
  BY <1>8, <1>9, <1>10, <1>11

\* The later steps of the handlers that do not touch a .conf.
LEMMA SelectionApplied ==
  ASSUME TypeOK, NEW r \in Reqs, Serial(r), Applied(r),
         \/ Restack(r) \/ SetSelected(r) \/ AfterDelete(r) \/ Deselect(r) \/ AfterReplace(r)
         \/ Reselect(r) \/ (\E nodes \in SUBSET Nodes : Fetched(r, nodes))
         \/ FetchFail(r) \/ AfterUpdate(r) \/ ClearSelection(r) \/ SetConf(r)
         \/ \E proxies \in SUBSET Nodes : AddProxies(r, proxies)
  PROVE  Applied(r)'
<1> USE DEF store, nodeVars, stack, At
<1>0. rq \in [Reqs -> Request]
  BY DEF TypeOK
<1>1. CASE Restack(r)
  <2>1. /\ rq[r].pc = "restack" /\ UNCHANGED <<st, sbLive>>
        /\ \/ rq'[r].pc = "take" /\ rq'[r].op = "downup"
           \/ rq'[r].pc = "read" /\ rq'[r].op = "gen" /\ ~st.up
    BY <1>0, <1>1 DEF Restack, Enter, Request
  <2>2. ~st.up => sbLive = {}
    BY <2>1 DEF Serial, Honest
  <2> QED
    BY <2>1, <2>2 DEF Applied, Prepared, Written, Stopped, RunsRight, Settled, Generating
<1>2. CASE SetSelected(r) \/ Reselect(r) \/ SetConf(r)
  <2>1. rq'[r].pc = "restack"
    BY <1>0, <1>2 DEF SetSelected, Reselect, SetConf, Request
  <2> QED
    BY <2>1 DEF Applied, Prepared, Written, Stopped, RunsRight, Settled, Generating
<1>3. CASE Deselect(r)
  <2>1. rq' = [rq EXCEPT ![r].node = NoNode, ![r].op = "down", ![r].pc = "take"]
    BY <1>3 DEF Deselect
  <2>2. rq'[r].pc = "take" /\ rq'[r].op = "down"
    BY <1>0, <2>1 DEF Request
  <2> QED
    BY <2>2 DEF Applied, Prepared, Written, Stopped, RunsRight, Settled, Generating
<1>4. CASE \/ AfterDelete(r) \/ AfterReplace(r) \/ FetchFail(r) \/ AfterUpdate(r)
           \/ (\E nodes \in SUBSET Nodes : Fetched(r, nodes))
           \/ \E proxies \in SUBSET Nodes : AddProxies(r, proxies)
  <2>1. /\ rq[r].pc \in {"deleted", "replaced", "fetch", "fetchonly", "gone", "proxies"}
        /\ UNCHANGED <<st, confs, unapplied, file, stack>>
    BY <1>4 DEF AfterDelete, AfterReplace, FetchFail, Fetched, Fetching, AfterUpdate, AddProxies
  <2>2. \/ rq'[r].pc \in {"idle", "deselect", "reselect", "gone"}
        \/ rq'[r].pc = "take" /\ rq'[r].op = "downclear"
    BY <1>0, <1>4 DEF AfterDelete, AfterReplace, FetchFail, Fetched, AfterFetch, AfterUpdate,
                AddProxies, Goto, Enter, Finish, Idle, Request
  <2>3. SameSelection /\ SameRuns /\ RulesOf(st.conf)' = RulesOf(st.conf)
    BY <2>1 DEF SameSelection, SameRuns, RulesOf
  <2>4. Right'
    BY <2>1, <2>3, RightStays DEF Applied, RunsRight, Settled
  <2> QED
    BY <2>2, <2>4 DEF Applied, Prepared, Written, Stopped, RunsRight, Settled, Generating
<1>5. CASE ClearSelection(r)
  <2>1. rq[r].pc = "clear" /\ rq'[r].pc = "idle" /\ UNCHANGED sbLive
    BY <1>0, <1>5 DEF ClearSelection, Finish, Idle
  <2>2. sbLive' = {}
    BY <2>1 DEF Serial, DownWhere
  <2> QED
    BY <2>1, <2>2 DEF Applied, Prepared, Written, Stopped, RunsRight, Right, Settled, Generating
<1> QED
  BY <1>1, <1>2, <1>3, <1>4, <1>5

\* Those that do: after an edit, a save or a deletion that a running sing-box
\* is to notice comes a Reload; what comes without one is recorded.
LEMMA ConfApplied ==
  ASSUME TypeOK, NEW r \in Reqs, Applied(r),
         \/ AfterUnlink(r) \/ Unname(r) \/ CreateDefault(r) \/ UseDefault(r)
         \/ ReadRules(r) \/ WriteConf(r) \/ WriteFail(r) \/ AfterSave(r)
  PROVE  Applied(r)'
<1> USE DEF store, nodeVars, stack, At
<1>0. rq \in [Reqs -> Request] /\ unapplied \in BOOLEAN
  BY DEF TypeOK
<1>1. ASSUME StartReload(r), Fit, SameSelection, SameRuns
      PROVE  Applied(r)'
  <2>1. rq'[r].pc = "read" /\ rq'[r].op = "reload"
    BY <1>0, <1>1, ReloadMoves
  <2>2. Fit'
    BY <1>1, FitStays
  <2> QED
    BY <2>1, <2>2 DEF Applied, Prepared, Written, Stopped, RunsRight, Settled, Generating
<1>2. ASSUME rq'[r].pc \in {"idle", "named", "readrules", "edit"}, Right'
      PROVE  Applied(r)'
  BY <1>2 DEF Applied, Prepared, Written, Stopped, RunsRight, Settled, Generating
<1>3. ASSUME UNCHANGED <<st, file, stack>>
      PROVE  SameSelection /\ SameRuns
  BY <1>3 DEF SameSelection, SameRuns
<1>4. CASE AfterUnlink(r) \/ AfterSave(r)
  <2>1. /\ rq[r].pc \in {"unlinked", "saved"} /\ UNCHANGED <<st, confs, unapplied, file, stack>>
        /\ \/ st.conf = rq[r].name /\ (Goto(r, "unname") \/ StartReload(r))
           \/ st.conf # rq[r].name /\ Finish(r)
    BY <1>4 DEF AfterUnlink, AfterSave
  <2>2. Fit /\ (st.conf = rq[r].name \/ Right)
    BY <2>1 DEF Applied, RunsRight
  <2>3. CASE StartReload(r)
    BY <1>1, <1>3, <2>1, <2>2, <2>3
  <2>4. CASE Goto(r, "unname")
    <3>1. rq'[r].pc = "unname"
      BY <1>0, <2>4 DEF Goto, Request
    <3>2. Fit'
      BY <1>3, <2>1, <2>2, FitStays
    <3> QED
      BY <3>1, <3>2 DEF Applied, Prepared, Written, Stopped, RunsRight, Settled, Generating
  <2>5. CASE st.conf # rq[r].name /\ Finish(r)
    <3>1. rq'[r].pc = "idle"
      BY <1>0, <2>5 DEF Finish, Idle
    <3>2. RulesOf(st.conf)' = RulesOf(st.conf)
      BY <2>1 DEF RulesOf
    <3>3. Right'
      BY <1>3, <2>1, <2>2, <2>5, <3>2, RightStays
    <3> QED
      BY <1>2, <3>1, <3>3
  <2> QED
    BY <2>1, <2>3, <2>4, <2>5
<1>5. CASE Unname(r)
  <2>1. /\ rq[r].pc = "unname" /\ st' = [st EXCEPT !.conf = NoConf] /\ StartReload(r)
        /\ UNCHANGED <<file, stack>>
    BY <1>5 DEF Unname
  <2>2. SameSelection /\ SameRuns
    BY <2>1 DEF SameSelection, SameRuns, TypeOK, State
  <2>3. Fit
    BY <2>1 DEF Applied, RunsRight
  <2> QED
    BY <1>1, <2>1, <2>2, <2>3
<1>6. CASE CreateDefault(r)
  <2>1. /\ rq[r].pc = "default" /\ UNCHANGED <<st, unapplied, file, stack>>
        /\ Goto(r, "named") \/ Finish(r)
        /\ \/ UNCHANGED confs
           \/ Default \notin DOMAIN confs /\ confs' = WithConf(Default, {})
    BY <1>6 DEF CreateDefault
  <2>2. RulesOf(st.conf)' = RulesOf(st.conf)
    <3>1. CASE UNCHANGED confs
      BY <2>1, <3>1 DEF RulesOf
    <3>2. CASE Default \notin DOMAIN confs /\ confs' = WithConf(Default, {})
      BY <2>1, <3>2, EmptyConf DEF RulesOf
    <3> QED
      BY <2>1, <3>1, <3>2
  <2>3. Right'
    BY <1>3, <2>1, <2>2, RightStays DEF Applied, RunsRight, Settled
  <2>4. rq'[r].pc \in {"named", "idle"}
    BY <1>0, <2>1 DEF Goto, Finish, Idle, Request
  <2> QED
    BY <1>2, <2>3, <2>4
<1>7. CASE UseDefault(r)
  <2>1. /\ rq[r].pc = "named" /\ st' = [st EXCEPT !.conf = Default] /\ Overtaken
        /\ UNCHANGED <<file, stack>>
        /\ rq' = [rq EXCEPT ![r].name = Default, ![r].pc = "readrules"]
    BY <1>7 DEF UseDefault
  <2>2. SameSelection /\ SameRuns
    BY <2>1 DEF SameSelection, SameRuns, TypeOK, State
  <2>3. Right'
    BY <1>0, <2>1, <2>2, OvertakenRight DEF Applied, RunsRight, Settled
  <2>4. rq'[r].pc = "readrules"
    BY <1>0, <2>1 DEF Request
  <2> QED
    BY <1>2, <2>3, <2>4
<1>8. CASE ReadRules(r)
  <2>1. /\ rq[r].pc = "readrules" /\ UNCHANGED <<st, confs, unapplied, file, stack>>
        /\ \/ rq' = [rq EXCEPT ![r] = Idle]
           \/ \E edited : rq' = [rq EXCEPT ![r].held = edited, ![r].pc = "edit"]
    BY <1>8 DEF ReadRules, Finish
  <2>2. rq'[r].pc \in {"idle", "edit"}
    <3>1. rq' = [rq EXCEPT ![r] = Idle] => rq'[r].pc = "idle"
      BY <1>0 DEF Idle
    <3>2. ASSUME NEW edited, rq' = [rq EXCEPT ![r].held = edited, ![r].pc = "edit"]
          PROVE  rq'[r].pc = "edit"
      BY <1>0, <3>2 DEF Request
    <3> QED
      BY <2>1, <3>1, <3>2
  <2>3. RulesOf(st.conf)' = RulesOf(st.conf)
    BY <2>1 DEF RulesOf
  <2>4. Right'
    BY <1>3, <2>1, <2>3, RightStays DEF Applied, RunsRight, Settled
  <2> QED
    BY <1>2, <2>2, <2>4
<1>9. CASE WriteConf(r)
  <2>1. /\ rq[r].pc \in {"edit", "save"} /\ UNCHANGED <<st, unapplied, file, stack>>
        /\ confs' = WithConf(rq[r].name, rq[r].held)
        /\ StartReload(r) \/ Goto(r, "saved")
    BY <1>9 DEF WriteConf, Overwritten
  <2>2. Right /\ Fit
    BY <2>1, RightIsFit DEF Applied, RunsRight, Settled
  <2>3. CASE StartReload(r)
    BY <1>1, <1>3, <2>1, <2>2, <2>3
  <2>4. CASE Goto(r, "saved")
    <3>1. rq'[r].pc = "saved" /\ rq'[r].name = rq[r].name
      BY <1>0, <2>4 DEF Goto, Request
    <3>2. Fit'
      BY <1>3, <2>1, <2>2, FitStays
    <3>3. ASSUME rq[r].name # st.conf
          PROVE  Right'
      <4>1. RulesOf(st.conf)' = RulesOf(st.conf)
        BY <2>1, <3>3, OtherConf
      <4> QED
        BY <1>3, <2>1, <2>2, <4>1, RightStays
    <3>4. st'.conf = st.conf
      BY <2>1
    <3> QED
      BY <3>1, <3>2, <3>3, <3>4
      DEF Applied, Prepared, Written, Stopped, RunsRight, Settled, Generating
  <2> QED
    BY <2>1, <2>3, <2>4
<1>10. CASE WriteFail(r)
  <2>1. rq[r].pc \in {"edit", "save"} /\ UNCHANGED <<st, file, stack>> /\ Overtaken /\ Finish(r)
    BY <1>10 DEF WriteFail
  <2>2. Right'
    BY <1>0, <1>3, <2>1, OvertakenRight DEF Applied, RunsRight, Settled
  <2>3. rq'[r].pc = "idle"
    BY <1>0, <2>1 DEF Finish, Idle
  <2> QED
    BY <1>2, <2>2, <2>3
<1> QED
  BY <1>4, <1>5, <1>6, <1>7, <1>8, <1>9, <1>10

\* Stopping sing-box and AWG: after it nothing runs.
LEMMA StopApplied ==
  ASSUME TypeOK, NoOrphan, NEW r \in Reqs, Reqs = {r}, Serial(r), Applied(r),
         SbTake(r) \/ SbStopped(r) \/ AwgUnroute(r) \/ AwgStop(r) \/ SetDown(r)
  PROVE  Applied(r)'
<1> USE DEF store, nodeVars, stack, At
<1>1. CASE SbTake(r)
  <2>1. /\ rq[r].pc = "take" /\ rq'[r].pc = "wait" /\ rq'[r].op = rq[r].op
        /\ UNCHANGED <<st, confs, unapplied, file, sbLive, loaded>>
    BY <1>1 DEF SbTake, Sb!SlotTake, TypeOK, Request
  <2>2. Matches(file) => Matches(file)'
    BY <2>1 DEF Matches, Chosen, Obeyed, RulesOf
  <2> QED
    BY <2>1, <2>2 DEF Applied, Prepared, Written, Stopped, RunsRight, Settled, Generating
<1>2. CASE SbStopped(r)
  <2>1. rq[r].pc = "wait" /\ UNCHANGED <<st, confs, unapplied, file, sbLive, loaded>>
    BY <1>2 DEF SbStopped
  <2>2. sbLive' = {}
    <3>1. sbCmd \notin sbLive
      BY <2>1, ProcsAssumption DEF Serial, Emptied, TypeOK
    <3>2. rq[r].victim \notin sbLive
      BY <1>2 DEF SbStopped
    <3> QED
      BY <2>1, <3>1, <3>2 DEF NoOrphan
  <2>3. \/ rq'[r].pc \in {"idle", "unroute"}
        \/ rq'[r].pc = "spawn" /\ rq[r].op = "reload"
    BY <1>2 DEF SbStopped, Finish, Idle, TypeOK, Request
  <2>4. Matches(file) => Matches(file)'
    BY <2>1 DEF Matches, Chosen, Obeyed, RulesOf
  <2> QED
    BY <2>1, <2>2, <2>3, <2>4 DEF Applied, Prepared, Written, Stopped, RunsRight, Right, Settled, Generating
<1>3. CASE AwgUnroute(r) \/ AwgStop(r)
  <2>1. rq'[r].pc \in {"unawg", "check", "seterr", "setdown"}
    BY <1>3 DEF AwgUnroute, AwgStop, Goto, TypeOK, Request
  <2> QED
    BY <2>1 DEF Applied, Prepared, Written, Stopped, RunsRight, Settled, Generating
<1>4. CASE SetDown(r)
  <2>1. /\ rq[r].pc = "setdown" /\ UNCHANGED sbLive
        /\ \/ rq'[r].pc = "take" /\ rq'[r].op = "up"
           \/ rq'[r].pc = "clear"
           \/ rq'[r].pc = "idle"
    BY <1>4 DEF SetDown, Goto, Enter, Finish, Idle, TypeOK, Request
  <2>2. sbLive' = {}
    BY <2>1 DEF Serial, DownWhere
  <2> QED
    BY <2>1, <2>2 DEF Applied, Prepared, Written, Stopped, RunsRight, Right, Settled, Generating
<1> QED
  BY <1>1, <1>2, <1>3, <1>4

\* Up, up to the point where sing-box is started.
LEMMA UpApplied ==
  ASSUME TypeOK, NEW r \in Reqs, Serial(r), Applied(r),
         \/ Check(r) \/ CheckNode(r) \/ GenerateState(r) \/ GenerateNode(r)
         \/ GenerateName(r) \/ GenerateConf(r) \/ GenerateWrite(r) \/ GenerateFail(r)
         \/ AwgStart(r) \/ AwgConfigure(r) \/ AwgRoute(r) \/ AwgFail(r)
  PROVE  Applied(r)'
<1> USE DEF store, nodeVars, stack, At
<1>0. rq \in [Reqs -> Request] /\ rq[r].snap \in Config
  BY DEF TypeOK, Request
<1>1. CASE Check(r) \/ CheckNode(r)
  <2>1. \/ rq' = [rq EXCEPT ![r].node = st.node, ![r].pc = "checknode"]
        \/ rq' = [rq EXCEPT ![r].pc = "read"] \/ rq' = [rq EXCEPT ![r].pc = "seterr"]
    BY <1>1 DEF Check, CheckNode, Goto
  <2>2. rq'[r].pc \in {"checknode", "seterr", "read"}
    BY <1>0, <2>1 DEF Request
  <2>3. rq[r].pc \in {"check", "checknode"} /\ UNCHANGED sbLive
    BY <1>1 DEF Check, CheckNode
  <2>4. sbLive' = {} /\ Fit'
    BY <2>3, NothingRuns DEF Serial, DownWhere, Fit
  <2> QED
    BY <2>2, <2>4 DEF Applied, Prepared, Written, Stopped, RunsRight, Settled, Generating
<1>2. CASE GenerateState(r) \/ GenerateNode(r) \/ GenerateName(r) \/ GenerateConf(r)
  <2>1. /\ rq[r].pc \in Generating \ {"write"}
        /\ UNCHANGED <<st, confs, unapplied, file, sbLive, loaded>>
        /\ rq'[r].op = rq[r].op /\ rq'[r].pc \in Generating \ {"read"}
    BY <1>0, <1>2 DEF GenerateState, GenerateNode, GenerateName, GenerateConf, Request, Generating
  <2>2. Prepared(r)'
    <3>1. CASE GenerateState(r)
      <4>1. /\ rq'[r].pc = "readnode"
            /\ rq'[r].snap = [mode |-> st.mode, node |-> st.node, rules |-> {}]
        BY <1>0, <3>1 DEF GenerateState, Request
      <4> QED
        BY <2>1, <4>1 DEF Prepared
    <3>2. CASE GenerateNode(r)
      <4>1. rq[r].pc = "readnode" /\ rq'[r].pc = "readname"
        BY <1>0, <3>2 DEF GenerateNode, Request
      <4>2. /\ rq'[r].snap.mode = rq[r].snap.mode
            /\ rq'[r].snap.node \in {rq[r].snap.node, NoNode}
        BY <1>0, <3>2 DEF GenerateNode, Request, Config
      <4> QED
        BY <2>1, <4>1, <4>2 DEF Applied, Prepared, Chosen
    <3>3. CASE GenerateName(r)
      <4>1. /\ rq[r].pc = "readname" /\ rq'[r].pc = "readconf"
            /\ rq'[r].name = st.conf /\ rq'[r].snap = rq[r].snap
        BY <1>0, <3>3 DEF GenerateName, Request
      <4> QED
        BY <2>1, <4>1 DEF Applied, Prepared, Chosen
    <3>4. CASE GenerateConf(r)
      <4>1. rq[r].pc = "readconf" /\ rq'[r].pc = "write"
        BY <1>0, <3>4 DEF GenerateConf, Request
      <4>2. /\ rq'[r].snap.mode = rq[r].snap.mode /\ rq'[r].snap.node = rq[r].snap.node
            /\ rq'[r].snap.rules = RulesOf(rq[r].name)
        BY <1>0, <3>4 DEF GenerateConf, Request, Config
      <4>3. Chosen(rq[r].snap) /\ rq[r].name = st.conf
        BY <4>1 DEF Applied, Prepared
      <4>4. Chosen(rq[r].snap)'
        BY <2>1, <4>2, <4>3 DEF Chosen
      <4>5. Obeyed(rq[r].snap)'
        BY <2>1, <4>2, <4>3 DEF Obeyed, RulesOf
      <4> QED
        BY <4>1, <4>4, <4>5 DEF Prepared
    <3> QED
      BY <1>2, <3>1, <3>2, <3>3, <3>4
  <2>3. Fit => Fit'
    BY <2>1, FitStays DEF SameSelection, SameRuns
  <2> QED
    BY <2>1, <2>2, <2>3 DEF Applied, Written, Stopped, RunsRight, Settled, Generating
<1>3. CASE GenerateWrite(r)
  <2>1. /\ rq[r].pc = "write" /\ file' = rq[r].snap
        /\ UNCHANGED <<st, confs, sbLive, loaded>>
        /\ \/ rq'[r].pc = "idle" /\ rq[r].op = "gen"
           \/ rq'[r].pc = "isup" /\ rq[r].op = "reload"
           \/ rq'[r].pc \in {"awg", "spawn"} /\ rq[r].op \notin {"gen", "reload"}
    BY <1>0, <1>3 DEF GenerateWrite, Goto, Finish, Idle, Request
  <2>2. Matches(file)'
    BY <2>1 DEF Applied, Prepared, Matches, Chosen, Obeyed, RulesOf
  <2>3. rq[r].op # "reload" => sbLive' = {}
    BY <2>1 DEF Serial, Flow, DownWhere, Applied, Stopped, Generating
  <2> QED
    BY <2>1, <2>2, <2>3
    DEF Applied, Prepared, Written, Stopped, RunsRight, Right, Settled, Generating
<1>4. CASE GenerateFail(r)
  <2>1. /\ rq[r].pc \in {"readconf", "write"} /\ file' \in {file, rq[r].snap}
        /\ rq[r].op = "reload" => unapplied'
        /\ UNCHANGED <<st, confs, sbLive, loaded>>
        /\ \/ rq'[r].pc = "idle" /\ rq[r].op # "up"
           \/ rq'[r].pc = "seterr"
    <3>1. /\ rq[r].pc \in {"readconf", "write"} /\ file' \in {file, rq[r].snap}
          /\ rq[r].op = "reload" => unapplied'
          /\ UNCHANGED <<st, confs, sbLive, loaded>>
      BY <1>4 DEF GenerateFail
    <3>2. \/ rq' = [rq EXCEPT ![r] = Idle] /\ rq[r].op # "up"
          \/ rq' = [rq EXCEPT ![r].pc = "seterr"]
      BY <1>4 DEF GenerateFail, Goto, Finish
    <3>3. \/ rq'[r].pc = "idle" /\ rq[r].op # "up"
          \/ rq'[r].pc = "seterr"
      BY <1>0, <3>2 DEF Idle, Request
    <3> QED
      BY <3>1, <3>3
  <2>2. rq[r].op \in {"up", "reload", "gen"}
    BY <2>1 DEF Serial, Flow, Generating
  <2>3. CASE rq'[r].pc = "seterr"
    BY <2>3 DEF Applied, Prepared, Written, Stopped, RunsRight, Settled, Generating
  <2>4. CASE rq'[r].pc = "idle" /\ rq[r].op = "gen"
    <3>1. sbLive' = {}
      BY <2>1, <2>4 DEF Applied, Stopped, Generating
    <3> QED
      BY <2>4, <3>1 DEF Applied, Prepared, Written, Stopped, RunsRight, Right, Settled, Generating
  <2>5. CASE rq'[r].pc = "idle" /\ rq[r].op = "reload"
    <3>1. Fit /\ Chosen(rq[r].snap)
      BY <2>1, <2>5 DEF Applied, Prepared, RunsRight, Generating
    <3>2. \A p \in sbLive' : Chosen(Given(p))'
      BY <2>1, <3>1 DEF Fit, Given, Chosen
    <3>3. Right'
      BY <2>1, <2>5, <3>2 DEF Right, Matches
    <3> QED
      BY <2>5, <3>3 DEF Applied, Prepared, Written, Stopped, RunsRight, Settled, Generating
  <2> QED
    BY <2>1, <2>2, <2>3, <2>4, <2>5
<1>5. CASE AwgStart(r) \/ AwgConfigure(r) \/ AwgRoute(r)
  <2>1. /\ rq[r].pc \in {"awg", "awgconf", "awgroute"}
        /\ UNCHANGED <<st, confs, unapplied, file, sbLive, loaded>>
    BY <1>5 DEF AwgStart, AwgConfigure, AwgRoute
  <2>2. rq'[r].pc \in {"awgconf", "awgroute", "spawn"}
    BY <1>0, <1>5 DEF AwgStart, AwgConfigure, AwgRoute, Goto, Request
  <2>3. sbLive' = {}
    BY <2>1 DEF Serial, DownWhere
  <2>4. Matches(file)'
    BY <2>1 DEF Applied, Written, Matches, Chosen, Obeyed, RulesOf
  <2> QED
    BY <2>1, <2>2, <2>3, <2>4 DEF Applied, Prepared, Written, Stopped, RunsRight, Settled, Generating
<1>6. CASE AwgFail(r)
  <2>1. rq'[r].pc = "unroute"
    BY <1>6 DEF AwgFail, Enter, TypeOK, Request
  <2> QED
    BY <2>1 DEF Applied, Prepared, Written, Stopped, RunsRight, Settled, Generating
<1> QED
  BY <1>1, <1>2, <1>3, <1>4, <1>5, <1>6

\* Starting sing-box, and what comes of it.
LEMMA StartApplied ==
  ASSUME TypeOK, NEW r \in Reqs, Serial(r), Applied(r),
         \/ (\E p \in Procs : SbSpawn(r, p)) \/ SbSpawnFail(r) \/ SbReady(r)
         \/ SbNotReady(r) \/ SetUp(r) \/ SetErr(r) \/ ReloadIfUp(r)
  PROVE  Applied(r)'
<1> USE DEF store, nodeVars, stack, At
<1>1. ASSUME NEW p \in Procs, SbSpawn(r, p)
      PROVE  Applied(r)'
  <2>1. /\ rq[r].pc = "spawn" /\ rq'[r].pc = "ready" /\ UNCHANGED <<st, confs, unapplied, file>>
        /\ sbLive' = sbLive \cup {p} /\ loaded' = [loaded EXCEPT ![p] = Unread]
    BY <1>1 DEF SbSpawn, Sb!SlotStart, Goto, TypeOK, Request
  <2>2. sbLive = {} /\ Matches(file)'
    BY <2>1 DEF Applied, Stopped, Written, Matches, Chosen, Obeyed, RulesOf
  <2>3. sbLive' = {p} /\ loaded'[p] = Unread
    BY <2>1, <2>2 DEF TypeOK
  <2>4. Right'
    BY <2>2, <2>3 DEF Right, Given
  <2> QED
    BY <2>1, <2>2, <2>4 DEF Applied, Prepared, Written, Stopped, RunsRight, Settled, Generating
<1>2. CASE SbSpawnFail(r)
  <2>1. /\ rq[r].pc = "spawn" /\ UNCHANGED sbLive /\ rq'[r].pc \in {"unroute", "idle"}
    BY <1>2 DEF SbSpawnFail, Enter, Finish, Idle, TypeOK, Request
  <2>2. sbLive' = {}
    BY <2>1 DEF Applied, Stopped
  <2> QED
    BY <2>1, <2>2 DEF Applied, Prepared, Written, Stopped, RunsRight, Right, Settled, Generating
<1>3. CASE SbReady(r)
  <2>1. /\ rq[r].pc = "ready" /\ rq'[r].pc \in {"setup", "idle"}
        /\ UNCHANGED <<st, confs, unapplied, file, sbLive, loaded>>
    BY <1>3 DEF SbReady, Goto, Finish, Idle, TypeOK, Request
  <2>2. SameSelection /\ SameRuns /\ RulesOf(st.conf)' = RulesOf(st.conf)
    BY <2>1 DEF SameSelection, SameRuns, RulesOf
  <2>3. Right'
    BY <2>1, <2>2, RightStays DEF Applied, RunsRight, Settled
  <2> QED
    BY <2>1, <2>3 DEF Applied, Prepared, Written, Stopped, RunsRight, Settled, Generating
<1>4. CASE SbNotReady(r)
  <2>1. rq'[r].pc = "take" /\ rq'[r].op \in {"failup", "failreload"}
    BY <1>4 DEF SbNotReady, Enter, TypeOK, Request
  <2> QED
    BY <2>1 DEF Applied, Prepared, Written, Stopped, RunsRight, Settled, Generating
<1>5. CASE SetUp(r)
  <2>1. /\ rq[r].pc = "setup" /\ rq'[r].pc = "idle"
        /\ UNCHANGED <<confs, unapplied, file, sbLive, loaded>>
        /\ st'.mode = st.mode /\ st'.node = st.node /\ st'.conf = st.conf
    BY <1>5 DEF SetUp, Finish, Idle, TypeOK, State
  <2>2. SameSelection /\ SameRuns /\ RulesOf(st.conf)' = RulesOf(st.conf)
    BY <2>1 DEF SameSelection, SameRuns, RulesOf
  <2>3. Right'
    BY <2>1, <2>2, RightStays DEF Applied, RunsRight, Settled
  <2> QED
    BY <2>1, <2>3 DEF Applied, Prepared, Written, Stopped, RunsRight, Settled, Generating
<1>6. CASE SetErr(r)
  <2>1. rq[r].pc = "seterr" /\ rq'[r].pc = "idle" /\ UNCHANGED sbLive
    BY <1>6 DEF SetErr, Finish, Idle, TypeOK
  <2>2. sbLive' = {}
    BY <2>1 DEF Serial, DownWhere
  <2> QED
    BY <2>1, <2>2 DEF Applied, Prepared, Written, Stopped, RunsRight, Right, Settled, Generating
<1>7. CASE ReloadIfUp(r)
  <2>1. /\ rq[r].pc = "isup" /\ UNCHANGED <<st, confs, unapplied, file, sbLive, loaded>>
        /\ \/ rq'[r].pc = "take"
           \/ rq'[r].pc = "idle" /\ ~st.up
    BY <1>7 DEF ReloadIfUp, Goto, Finish, Idle, TypeOK, Request
  <2>2. ~st.up => sbLive = {}
    BY <2>1 DEF Serial, Honest
  <2>3. Matches(file)'
    BY <2>1 DEF Applied, Written, Matches, Chosen, Obeyed, RulesOf
  <2>4. ~st.up => Right'
    BY <2>1, <2>2 DEF Right
  <2> QED
    BY <2>1, <2>3, <2>4 DEF Applied, Prepared, Written, Stopped, RunsRight, Settled, Generating
<1> QED
  BY <1>1, <1>2, <1>3, <1>4, <1>5, <1>6, <1>7

\* Every step of a daemon with one request at a time.
LEMMA NextApplied ==
  ASSUME NEW r, Reqs = {r}
  PROVE  TypeOK /\ NoOrphan /\ Serial(r) /\ Applied(r) /\ [Next]_vars => Applied(r)'
<1> SUFFICES ASSUME TypeOK, NoOrphan, Serial(r), Applied(r), [Next]_vars PROVE Applied(r)'
  OBVIOUS
<1>1. CASE Begin(r) \/ Continue(r)
  <2>1. CASE Begin(r)
    BY <2>1, BeginApplied
  <2>2. CASE EngineStep(r)
    BY <2>2, SelectionApplied, StopApplied, UpApplied, StartApplied DEF EngineStep
  <2>3. CASE Handler(r)
    BY <2>3, SelectionApplied, ConfApplied DEF Handler
  <2> QED
    BY <1>1, <2>1, <2>2, <2>3, ContinueIs
<1>2. ASSUME UNCHANGED <<rq, st, confs, unapplied, file>>, sbLive' \subseteq sbLive,
             \A p \in sbLive' : Given(p)' = Given(p)
      PROVE  Applied(r)'
  <2>1. \A c : Matches(c)' = Matches(c) /\ Chosen(c)' = Chosen(c) /\ Obeyed(c)' = Obeyed(c)
    BY <1>2 DEF Matches, Chosen, Obeyed, RulesOf
  <2>2. (Right => Right') /\ (Fit => Fit')
    BY <1>2, <2>1 DEF Right, Fit
  <2>3. Prepared(r)' = Prepared(r)
    BY <1>2, <2>1 DEF Prepared
  <2>4. Written(r)' = Written(r)
    BY <1>2, <2>1 DEF Written
  <2> QED
    BY <1>2, <2>2, <2>3, <2>4 DEF Applied, Stopped, RunsRight
<1>3. ASSUME NEW p \in Procs, SbLoad(p) \/ SbDie(p)
      PROVE  Applied(r)'
  <2>1. UNCHANGED <<rq, st, confs, unapplied, file>> /\ sbLive' \subseteq sbLive
    BY <1>3 DEF SbLoad, SbDie, Sb!SlotExit, store
  <2>2. \A q \in sbLive' : Given(q)' = Given(q)
    <3>1. CASE SbLoad(p)
      BY <3>1 DEF SbLoad, Given, TypeOK
    <3>2. CASE SbDie(p)
      BY <3>2 DEF SbDie, Sb!SlotExit, Given, TypeOK
    <3> QED
      BY <1>3, <3>1, <3>2
  <2> QED
    BY <1>2, <2>1, <2>2
<1>4. CASE AwgDie \/ UNCHANGED vars
  <2>1. UNCHANGED <<rq, st, confs, unapplied, file, sbLive, loaded>>
    BY <1>4 DEF AwgDie, vars, store, stack
  <2> QED
    BY <1>2, <2>1 DEF Given
<1>5. CASE Crash
  <2>1. rq'[r].pc \in {"idle", "read"} /\ sbLive' = {}
    BY <1>5 DEF Crash, BootRequests, Idle
  <2>2. Right' /\ Fit'
    BY <2>1 DEF Right, Fit
  <2> QED
    BY <2>1, <2>2 DEF Applied, Prepared, Written, Stopped, RunsRight, Settled, Generating
<1> QED
  BY <1>1, <1>2, <1>3, <1>4, <1>5 DEF Next

\* With one request at a time, the sing-box that runs between requests has the
\* mode of the store and no node but the selected one, and the rules of the
\* active .conf unless these changed without a Reload, or could not be
\* generated, since singbox.json was last written; whatever else fails, exits
\* or crashes.
THEOREM InForceWhenSerial ==
  ASSUME NEW r, Reqs = {r}
  PROVE  Spec => []ConfigInForce
<1>1. Init => Serial(r)
  BY DEF Init, BootRequests, Idle, Sb!SlotInit,
         Serial, Flow, DownWhere, ReloadUp, Honest, Emptied, Aimed, Generating
<1>2. Init => Applied(r)
  BY DEF Init, BootRequests, Idle, Sb!SlotInit,
         Applied, Prepared, Written, Stopped, RunsRight, Right, Settled, Generating
<1>3. Applied(r) => ConfigInForce
  BY DEF Applied, RunsRight, Right, Given, Matches, Chosen, Obeyed, Settled, ConfigInForce,
         Quiescent, Idle, Sb!Running
<1> QED
  BY <1>1, <1>2, <1>3, TypeCorrect, OneTunnel, NextSerial, NextApplied, PTL DEF Spec
-----------------------------------------------------------------------------
(***************************************************************************)
(* With one request at a time nothing of AWG stays when the stack is down. *)
(* Cleared says where nothing of it is there for certain: whenever up is   *)
(* not set, but for an Up or a Down in progress.                           *)
(***************************************************************************)
NoAwg == awg = NoNode /\ ~awgRt

Cleared(r) ==
  /\ rq[r].pc = "unawg" => ~awgRt
  /\ \/ rq[r].pc \in {"setdown", "clear", "check", "checknode", "awg", "seterr"}
     \/ rq[r].pc \in Generating /\ rq[r].op = "up"
     \/ /\ ~st.up
        /\ rq[r].pc \notin {"take", "wait", "unroute", "unawg", "awgconf", "awgroute"}
        /\ ~(rq[r].pc \in {"spawn", "ready", "setup"} /\ rq[r].op = "up")
     => NoAwg

\* A step outside the engine that leaves AWG and up alone.
LEMMA HandlerCleared ==
  ASSUME NEW r \in Reqs, Cleared(r), UNCHANGED <<awg, awgRt>>, st'.up = st.up,
         rq[r].pc \in Outside \cup {"clear"},
         \/ rq'[r].pc \in Outside \cup {"take"}
         \/ rq'[r].pc = "read" /\ rq'[r].op \in {"gen", "reload"}
  PROVE  Cleared(r)'
  BY DEF Cleared, NoAwg, Outside, Generating

\* The handlers outside the engine.
LEMMA HandlersCleared ==
  ASSUME TypeOK, NEW r \in Reqs, Cleared(r), Begin(r) \/ Restack(r) \/ Handler(r)
  PROVE  Cleared(r)'
<1> USE DEF store, nodeVars, stack, awgVars, At
<1>1. CASE Begin(r)
  <2>1. rq[r].pc = "idle" /\ UNCHANGED <<awg, awgRt>>
    BY <1>1 DEF Begin, Up, Down, SetMode, SelectNode, DeleteNode, ImportNode,
                ReplaceNode, AddSub, UpdateSubs, DeleteSub, SelectConf, DeleteConf,
                FetchConf, SaveConf, ListRules, EditRules, Call
  <2>2. st'.up = st.up
    BY <1>1 DEF Begin, Up, Down, SetMode, SelectNode, DeleteNode, ImportNode,
                ReplaceNode, AddSub, UpdateSubs, DeleteSub, SelectConf, DeleteConf,
                FetchConf, SaveConf, ListRules, EditRules, TypeOK, State
  <2>3. rq'[r].pc \in Outside \cup {"take"}
    BY <1>1, BeginLabels DEF BeginsAt, Outside
  <2>4. rq[r].pc \in Outside
    BY <2>1 DEF Outside
  <2> QED
    BY <2>1, <2>2, <2>3, <2>4, HandlerCleared
<1>2. CASE Restack(r)
  <2>1. rq[r].pc = "restack" /\ UNCHANGED <<awg, awgRt, st>>
    BY <1>2 DEF Restack
  <2>2. \/ rq'[r].pc = "take"
        \/ rq'[r].pc = "read" /\ rq'[r].op = "gen"
    BY <1>2 DEF Restack, Enter, TypeOK, Request
  <2>3. rq[r].pc \in Outside
    BY <2>1 DEF Outside
  <2> QED
    BY <2>1, <2>2, <2>3, HandlerCleared
<1>3. CASE Handler(r)
  <2>1. rq[r].pc \in HandlesAt /\ UNCHANGED <<awg, awgRt>> /\ st'.up = st.up
    BY <1>3, HandlerFrom
  <2>2. \/ rq'[r].pc \in Outside \cup {"take"}
        \/ rq'[r].pc = "read" /\ rq'[r].op = "reload"
    BY <1>3, HandlerLabels
  <2>3. rq[r].pc \in Outside \cup {"clear"}
    BY <2>1 DEF HandlesAt, Outside
  <2> QED
    BY <2>1, <2>2, <2>3, HandlerCleared
<1> QED
  BY <1>1, <1>2, <1>3

\* Down and Up take away what there is of AWG.
LEMMA StopCleared ==
  ASSUME TypeOK, NEW r \in Reqs, Serial(r), Cleared(r),
         SbTake(r) \/ SbStopped(r) \/ AwgUnroute(r) \/ AwgStop(r) \/ SetDown(r)
  PROVE  Cleared(r)'
<1> USE DEF store, nodeVars, stack, awgVars, At
<1>1. CASE SbTake(r)
  <2>1. rq'[r].pc = "wait"
    BY <1>1 DEF SbTake, TypeOK, Request
  <2> QED
    BY <2>1 DEF Cleared, Generating
<1>2. CASE SbStopped(r)
  <2>1. /\ rq[r].pc = "wait" /\ UNCHANGED st
        /\ \/ rq'[r].pc = "idle" /\ rq[r].op = "failreload"
           \/ rq'[r].pc = "spawn" /\ rq[r].op = "reload" /\ rq'[r].op = "reload"
           \/ rq'[r].pc = "unroute"
    BY <1>2 DEF SbStopped, Finish, Idle, TypeOK, Request
  <2> QED
    BY <2>1 DEF Cleared, Serial, ReloadUp, Generating
<1>3. CASE AwgUnroute(r)
  <2>1. rq'[r].pc = "unawg" /\ ~awgRt'
    BY <1>3 DEF AwgUnroute, Goto, TypeOK, Request
  <2> QED
    BY <2>1 DEF Cleared, Generating
<1>4. CASE AwgStop(r)
  <2>1. rq[r].pc = "unawg" /\ rq'[r].pc # "unawg" /\ awg' = NoNode /\ UNCHANGED awgRt
    BY <1>4 DEF AwgStop, Goto, TypeOK, Request
  <2> QED
    BY <2>1 DEF Cleared, NoAwg, Generating
<1>5. CASE SetDown(r)
  <2>1. rq[r].pc = "setdown" /\ rq'[r].pc # "unawg" /\ UNCHANGED <<awg, awgRt>>
    BY <1>5 DEF SetDown, Goto, Enter, Finish, Idle, TypeOK, Request
  <2> QED
    BY <2>1 DEF Cleared, NoAwg, Generating
<1> QED
  BY <1>1, <1>2, <1>3, <1>4, <1>5

\* Up, up to the point where sing-box is started.
LEMMA UpCleared ==
  ASSUME TypeOK, NEW r \in Reqs, Serial(r), Cleared(r),
         \/ Check(r) \/ CheckNode(r) \/ GenerateState(r) \/ GenerateNode(r)
         \/ GenerateName(r) \/ GenerateConf(r) \/ GenerateWrite(r) \/ GenerateFail(r)
         \/ AwgStart(r) \/ AwgConfigure(r) \/ AwgRoute(r) \/ AwgFail(r)
  PROVE  Cleared(r)'
<1> USE DEF store, nodeVars, stack, awgVars, At
<1>0. rq \in [Reqs -> Request]
  BY DEF TypeOK
<1>1. CASE Check(r) \/ CheckNode(r)
  <2>1. \/ rq' = [rq EXCEPT ![r].node = st.node, ![r].pc = "checknode"]
        \/ rq' = [rq EXCEPT ![r].pc = "read"] \/ rq' = [rq EXCEPT ![r].pc = "seterr"]
    BY <1>1 DEF Check, CheckNode, Goto
  <2>2. rq'[r].pc \in {"checknode", "seterr", "read"}
    BY <1>0, <2>1 DEF Request
  <2>3. rq[r].pc \in {"check", "checknode"} /\ UNCHANGED <<awg, awgRt>>
    BY <1>1 DEF Check, CheckNode
  <2> QED
    BY <2>2, <2>3 DEF Cleared, NoAwg, Generating
<1>2. CASE GenerateState(r) \/ GenerateNode(r) \/ GenerateName(r) \/ GenerateConf(r)
  <2>1. /\ rq[r].pc \in Generating /\ rq'[r].pc \in Generating
        /\ rq'[r].op = rq[r].op /\ UNCHANGED <<st, awg, awgRt>>
    BY <1>0, <1>2 DEF GenerateState, GenerateNode, GenerateName, GenerateConf, Request, Generating
  <2> QED
    BY <2>1 DEF Cleared, NoAwg, Generating
<1>3. CASE GenerateWrite(r)
  <2>1. /\ rq[r].pc = "write" /\ UNCHANGED <<st, awg, awgRt>>
        /\ \/ rq'[r].pc \in {"idle", "isup"}
           \/ rq'[r].pc \in {"awg", "spawn"} /\ rq[r].op \notin {"gen", "reload"}
    BY <1>3 DEF GenerateWrite, Goto, Finish, Idle, TypeOK, Request
  <2> QED
    BY <2>1 DEF Cleared, NoAwg, Serial, Flow, Generating
<1>4. CASE GenerateFail(r)
  <2>1. /\ rq[r].pc \in Generating /\ UNCHANGED <<st, awg, awgRt>>
        /\ \/ rq'[r].pc = "idle"
           \/ rq'[r].pc = "seterr" /\ rq[r].op = "up"
    BY <1>0, <1>4 DEF GenerateFail, Goto, Finish, Idle, Request, Generating
  <2> QED
    BY <2>1 DEF Cleared, NoAwg, Generating
<1>5. CASE AwgStart(r) \/ AwgConfigure(r) \/ AwgFail(r)
  <2>1. rq'[r].pc \in {"awgconf", "awgroute", "unroute"}
    BY <1>5 DEF AwgStart, AwgConfigure, AwgFail, Goto, Enter, TypeOK, Request
  <2> QED
    BY <2>1 DEF Cleared, Generating
<1>6. CASE AwgRoute(r)
  <2>1. rq[r].pc = "awgroute" /\ rq'[r].pc = "spawn" /\ rq'[r].op = rq[r].op
    BY <1>6 DEF AwgRoute, Goto, TypeOK, Request
  <2> QED
    BY <2>1 DEF Cleared, Serial, Flow, Generating
<1> QED
  BY <1>1, <1>2, <1>3, <1>4, <1>5, <1>6

\* Starting sing-box, and what comes of it.
LEMMA StartCleared ==
  ASSUME TypeOK, NEW r \in Reqs, Serial(r), Cleared(r),
         \/ (\E p \in Procs : SbSpawn(r, p)) \/ SbSpawnFail(r) \/ SbReady(r)
         \/ SbNotReady(r) \/ SetUp(r) \/ SetErr(r) \/ ReloadIfUp(r)
  PROVE  Cleared(r)'
<1> USE DEF store, nodeVars, stack, awgVars, At
<1>1. ASSUME NEW p \in Procs, SbSpawn(r, p)
      PROVE  Cleared(r)'
  <2>1. /\ rq[r].pc = "spawn" /\ rq'[r].pc = "ready" /\ rq'[r].op = rq[r].op
        /\ UNCHANGED <<st, awg, awgRt>>
    BY <1>1 DEF SbSpawn, Goto, TypeOK, Request
  <2> QED
    BY <2>1 DEF Cleared, NoAwg, Generating
<1>2. CASE SbSpawnFail(r)
  <2>1. /\ rq[r].pc = "spawn" /\ UNCHANGED <<st, awg, awgRt>>
        /\ \/ rq'[r].pc = "unroute"
           \/ rq'[r].pc = "idle" /\ rq[r].op # "up"
    BY <1>2 DEF SbSpawnFail, Enter, Finish, Idle, TypeOK, Request
  <2> QED
    BY <2>1 DEF Cleared, NoAwg, Generating
<1>3. CASE SbReady(r)
  <2>1. /\ rq[r].pc = "ready" /\ UNCHANGED <<st, awg, awgRt>>
        /\ \/ rq'[r].pc = "setup" /\ rq'[r].op = "up"
           \/ rq'[r].pc = "idle" /\ rq[r].op # "up"
    BY <1>3 DEF SbReady, Goto, Finish, Idle, TypeOK, Request
  <2> QED
    BY <2>1 DEF Cleared, NoAwg, Generating
<1>4. CASE SbNotReady(r)
  <2>1. rq'[r].pc = "take"
    BY <1>4 DEF SbNotReady, Enter, TypeOK, Request
  <2> QED
    BY <2>1 DEF Cleared, Generating
<1>5. CASE SetUp(r)
  <2>1. rq'[r].pc = "idle" /\ st'.up
    BY <1>5 DEF SetUp, Finish, Idle, TypeOK
  <2> QED
    BY <2>1 DEF Cleared, Generating
<1>6. CASE SetErr(r)
  <2>1. rq[r].pc = "seterr" /\ rq'[r].pc = "idle" /\ UNCHANGED <<awg, awgRt>>
    BY <1>6 DEF SetErr, Finish, Idle, TypeOK
  <2> QED
    BY <2>1 DEF Cleared, NoAwg, Generating
<1>7. CASE ReloadIfUp(r)
  <2>1. /\ rq[r].pc = "isup" /\ rq'[r].pc \in {"take", "idle"} /\ UNCHANGED <<st, awg, awgRt>>
    BY <1>7 DEF ReloadIfUp, Goto, Finish, Idle, TypeOK, Request
  <2> QED
    BY <2>1 DEF Cleared, NoAwg, Generating
<1> QED
  BY <1>1, <1>2, <1>3, <1>4, <1>5, <1>6, <1>7

\* Every step of a daemon with one request at a time that does not die.
LEMMA NextCleared ==
  ASSUME NEW r, Reqs = {r}, "daemon" \notin Failing
  PROVE  TypeOK /\ Serial(r) /\ Cleared(r) /\ [Next]_vars => Cleared(r)'
<1> SUFFICES ASSUME TypeOK, Serial(r), Cleared(r), [Next]_vars PROVE Cleared(r)'
  OBVIOUS
<1>1. CASE Begin(r) \/ Continue(r)
  BY <1>1, HandlersCleared, StopCleared, UpCleared, StartCleared, ContinueIs DEF EngineStep
<1>2. CASE (\E p \in Procs : SbLoad(p) \/ SbDie(p)) \/ UNCHANGED vars
  <2>1. UNCHANGED <<rq, st, awg, awgRt>>
    BY <1>2 DEF SbLoad, SbDie, vars, store, awgVars
  <2> QED
    BY <2>1 DEF Cleared, NoAwg, Generating
<1>3. CASE AwgDie
  <2>1. UNCHANGED <<rq, st, awgRt>> /\ awg' = NoNode
    BY <1>3 DEF AwgDie, store
  <2> QED
    BY <2>1 DEF Cleared, NoAwg, Generating
<1>4. CASE Crash
  BY <1>4 DEF Crash
<1> QED
  BY <1>1, <1>2, <1>3, <1>4 DEF Next

\* With one request at a time, and unless the daemon dies, neither awg0 nor the
\* ip rules of it are left between requests when the stack is down, whatever
\* fails on the way and even if amneziawg-go exits.
THEOREM TornDownWhenSerial ==
  ASSUME NEW r, Reqs = {r}, "daemon" \notin Failing
  PROVE  Spec => []AwgTornDown
<1>1. Init => Serial(r)
  BY DEF Init, BootRequests, Idle, Sb!SlotInit,
         Serial, Flow, DownWhere, ReloadUp, Honest, Emptied, Aimed, Generating
<1>2. Init => Cleared(r)
  BY DEF Init, Cleared, NoAwg
<1>3. Cleared(r) => AwgTornDown
  BY DEF Cleared, NoAwg, AwgTornDown, Quiescent, Idle
<1> QED
  BY <1>1, <1>2, <1>3, TypeCorrect, OneTunnel, NextSerial, NextCleared, PTL DEF Spec

-----------------------------------------------------------------------------
(* The supervisor, for any number of goroutines and processes *)

(***************************************************************************)
(* The inductive invariant.  Accounted is not inductive alone: when stop   *)
(* gives up on its victim the invariant survives only because nobody else  *)
(* is held responsible for that process (SoleStopper), and SoleStopper in  *)
(* turn needs a stop call to hold a victim only between Take and its       *)
(* return (VictimHeld) and a process in the slot or held to be born        *)
(* (Born), so that start cannot put it back.                               *)
(***************************************************************************)
Born ==
  /\ cmd # NoPid => ps[cmd] # "unborn"
  /\ \A c \in Callers : victim[c] # NoPid => ps[victim[c]] # "unborn"

VictimHeld ==
  \A c \in Callers :
    /\ pc[c] = "idle" => victim[c] = NoPid
    /\ pc[c] \in {"interrupted", "killed"} => victim[c] # NoPid

IInv == ProcTypeOK /\ Born /\ VictimHeld /\ SoleStopper /\ Accounted

-----------------------------------------------------------------------------
\* The initial state of a supervisor satisfies the invariant.
LEMMA InitInv == ProcInit => IInv
  BY NoPidAssumption, MaxLinesAssumption
  DEF ProcInit, IInv, ProcTypeOK, Born, VictimHeld, SoleStopper, Accounted

\* start keeps the invariant: it replaces only a process that is gone.
LEMMA StartInv ==
  ASSUME IInv, NEW c \in Callers, NEW p \in Pids, Start(c, p)
  PROVE  IInv'
<1> USE NoPidAssumption DEF IInv, Start, lineVars
<1>1. ProcTypeOK'
  BY DEF ProcTypeOK
<1>2. Born'
  BY DEF ProcTypeOK, Born
<1>3. VictimHeld'
  BY DEF VictimHeld
<1>4. SoleStopper'
  BY DEF ProcTypeOK, Born, SoleStopper
<1>5. Accounted'
  <2> SUFFICES ASSUME NEW q \in Pids, ps'[q] = "running", q # p
               PROVE  \/ cmd' = q
                      \/ \E d \in Callers : victim'[d] = q /\ pc'[d] \in {"taken", "interrupted"}
                      \/ sig'[q] = "kill"
    BY DEF Accounted
  <2>1. ps[q] = "running" /\ cmd # q
    BY DEF ProcTypeOK, Running
  <2> QED
    BY <2>1 DEF Accounted
<1> QED
  BY <1>1, <1>2, <1>3, <1>4, <1>5

\* Taking the process out of the slot keeps the invariant: the caller is
\* responsible for it from then on.
LEMMA TakeInv ==
  ASSUME IInv, NEW c \in Callers, Take(c)
  PROVE  IInv'
<1> USE NoPidAssumption DEF IInv, Take, Transition, lineVars
<1>1. ProcTypeOK'
  BY DEF ProcTypeOK
<1>2. Born'
  BY DEF ProcTypeOK, Born
<1>3. VictimHeld'
  BY DEF ProcTypeOK, VictimHeld
<1>4. SoleStopper'
  BY DEF ProcTypeOK, SoleStopper, VictimHeld
<1>5. Accounted'
  BY DEF ProcTypeOK, Accounted
<1> QED
  BY <1>1, <1>2, <1>3, <1>4, <1>5

\* The rest of stop keeps the invariant.
LEMMA StopInv ==
  ASSUME IInv, NEW c \in Callers, Stop(c)
  PROVE  IInv'
<1> USE NoPidAssumption DEF IInv, Transition, lineVars
<1>1. CASE NothingToStop(c)
  BY <1>1 DEF NothingToStop, ProcTypeOK, Born, VictimHeld, SoleStopper, Accounted
<1>2. CASE Interrupt(c)
  <2> USE <1>2 DEF Interrupt, Signalled
  <2>1. ProcTypeOK'
    BY DEF ProcTypeOK
  <2>2. Born' /\ VictimHeld' /\ SoleStopper'
    BY DEF ProcTypeOK, Born, VictimHeld, SoleStopper
  <2>3. Accounted'
    BY DEF ProcTypeOK, Accounted
  <2> QED
    BY <2>1, <2>2, <2>3
<1>3. CASE SeeDone(c)
  <2> USE <1>3 DEF SeeDone
  <2>1. ProcTypeOK'
    BY DEF ProcTypeOK
  <2>2. Born' /\ VictimHeld' /\ SoleStopper'
    BY DEF ProcTypeOK, Born, VictimHeld, SoleStopper
  <2>3. Accounted'
    BY DEF ProcTypeOK, Accounted
  <2> QED
    BY <2>1, <2>2, <2>3
<1>4. CASE Kill(c)
  <2> USE <1>4 DEF Kill, Signalled
  <2>1. ProcTypeOK'
    BY DEF ProcTypeOK
  <2>2. Born' /\ VictimHeld' /\ SoleStopper'
    BY DEF ProcTypeOK, Born, VictimHeld, SoleStopper
  <2>3. Accounted'
    BY DEF ProcTypeOK, Accounted
  <2> QED
    BY <2>1, <2>2, <2>3
<1>5. CASE GiveUp(c)
  <2> USE <1>5 DEF GiveUp
  <2>1. ProcTypeOK'
    BY DEF ProcTypeOK
  <2>2. Born' /\ VictimHeld' /\ SoleStopper'
    BY DEF ProcTypeOK, Born, VictimHeld, SoleStopper
  <2>3. ps[victim[c]] = "running" => sig[victim[c]] = "kill"
    BY DEF ProcTypeOK, VictimHeld, SoleStopper, Accounted
  <2>4. Accounted'
    BY <2>3 DEF ProcTypeOK, Accounted
  <2> QED
    BY <2>1, <2>2, <2>4
<1> QED
  BY <1>1, <1>2, <1>3, <1>4, <1>5 DEF Stop

\* What the process, its pump and its waiter do keeps the invariant.
LEMMA ProcessInv ==
  ASSUME IInv, NEW p \in Pids,
         Write(p) \/ Die(p) \/ PumpRead(p) \/ PumpLine(p) \/ Reap(p)
  PROVE  IInv'
<1> USE NoPidAssumption, MaxLinesAssumption DEF IInv, lineVars
<1>1. ProcTypeOK'
  BY DEF ProcTypeOK, Write, Die, PumpRead, PumpLine, Reap
<1>2. Born' /\ VictimHeld' /\ SoleStopper'
  BY DEF ProcTypeOK, Born, VictimHeld, SoleStopper, Write, Die, PumpRead, PumpLine, Reap
<1>3. Accounted'
  BY DEF ProcTypeOK, Accounted, Write, Die, PumpRead, PumpLine, Reap
<1> QED
  BY <1>1, <1>2, <1>3

\* Every step keeps the invariant.
LEMMA NextInv == IInv /\ [ProcNext]_procVars => IInv'
<1> SUFFICES ASSUME IInv, [ProcNext]_procVars PROVE IInv'
  OBVIOUS
<1>1. CASE UNCHANGED procVars
  BY <1>1 DEF IInv, procVars, ProcTypeOK, Born, VictimHeld, SoleStopper, Accounted
<1>2. CASE ProcNext
  BY <1>2, StartInv, TakeInv, StopInv, ProcessInv DEF ProcNext
<1> QED
  BY <1>1, <1>2

\* The invariant holds in every reachable state.
THEOREM Invariant == ProcSpec => []IInv
<1> QED
  BY InitInv, NextInv, PTL DEF ProcSpec

\* The state of the supervisor is well typed, and no line count passes the
\* number of lines written.
THEOREM ProcTypeCorrect == ProcSpec => []ProcTypeOK
<1>1. IInv => ProcTypeOK
  BY DEF IInv
<1> QED
  BY <1>1, Invariant, PTL

\* proc.go never loses a running process, however start and stop calls of
\* any number of goroutines interleave.
THEOREM NeverForgotten == ProcSpec => []Accounted
<1>1. IInv => Accounted
  BY DEF IInv
<1> QED
  BY <1>1, Invariant, PTL

\* No process is stopped by two goroutines, and none that is being stopped
\* is still in the slot.
THEOREM OneStopper == ProcSpec => []SoleStopper
<1>1. IInv => SoleStopper
  BY DEF IInv
<1> QED
  BY <1>1, Invariant, PTL

-----------------------------------------------------------------------------
(* Proc implements ProcSlot. *)

\* Every step of the supervisor is a step of the slot or leaves it alone.
LEMMA SlotStep == IInv /\ [ProcNext]_procVars => [Slot!SlotNext]_(Slot!slotVars)
<1> SUFFICES ASSUME IInv, [ProcNext]_procVars PROVE [Slot!SlotNext]_(Slot!slotVars)
  OBVIOUS
<1> DEFINE L == {p \in Pids : ps[p] \in {"running", "exited"}}
<1> USE NoPidAssumption DEF IInv, lineVars
<1>1. ASSUME NEW c \in Callers, NEW p \in Pids, Start(c, p)
      PROVE  Slot!SlotStart(p)
  <2>1. cmd \notin L /\ p \notin L
    BY <1>1 DEF Start, Running, ProcTypeOK
  <2>2. cmd' = p /\ L' = L \cup {p}
    BY <1>1 DEF Start, ProcTypeOK
  <2> QED
    BY <2>1, <2>2 DEF Slot!SlotStart, Slot!Free
<1>2. ASSUME NEW c \in Callers, Take(c)
      PROVE  Slot!SlotTake
  BY <1>2 DEF Take, Slot!SlotTake
<1>3. ASSUME NEW c \in Callers, Stop(c)
      PROVE  UNCHANGED Slot!slotVars
  BY <1>3 DEF Stop, NothingToStop, Interrupt, SeeDone, Kill, GiveUp, Slot!slotVars
<1>4. ASSUME NEW p \in Pids, Write(p) \/ PumpRead(p) \/ PumpLine(p)
      PROVE  UNCHANGED Slot!slotVars
  BY <1>4 DEF Write, PumpRead, PumpLine, Slot!slotVars
<1>5. ASSUME NEW p \in Pids, Die(p)
      PROVE  UNCHANGED Slot!slotVars
  BY <1>5 DEF Die, ProcTypeOK, Slot!slotVars
<1>6. ASSUME NEW p \in Pids, Reap(p)
      PROVE  Slot!SlotExit(p)
  <2>1. p \in L /\ L' = L \ {p} /\ cmd' = cmd
    BY <1>6 DEF Reap, ProcTypeOK
  <2> QED
    BY <2>1 DEF Slot!SlotExit
<1>7. CASE UNCHANGED procVars
  BY <1>7 DEF procVars, Slot!slotVars
<1> QED
  BY <1>1, <1>2, <1>3, <1>4, <1>5, <1>6, <1>7 DEF ProcNext, Slot!SlotNext

\* The supervisor keeps the promise of its slot, for every interleaving.
THEOREM ImplementsSlot == ProcSpec => SlotSpec
<1>1. ProcInit => Slot!SlotInit
  BY DEF ProcInit, Slot!SlotInit
<1> QED
  BY <1>1, Invariant, SlotStep, PTL DEF ProcSpec, SlotSpec, Slot!SlotSpec
=============================================================================
