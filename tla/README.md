# A TLA+ model of Rocket

Rocket is a proxy client for Ubuntu Touch.  A root daemon, `rocketd` (Go, `src/daemon`),
keeps nodes, subscriptions and Shadowrocket `.conf` files, turns them into a configuration
of sing-box, and starts and stops sing-box and amneziawg-go; a QML application (`src/click`)
drives it over an HTTP API on the loopback interface.  This directory holds TLA+ modules of
the daemon, TLC configurations that check them on small instances, and proofs of the most
important facts for every instance.

`PROJECT.json` is the machine-readable index: the runs, for every property a mutated
definition that violates it (the `Bug...` operators), the source lines behind every
definition, the hazards of the code and the theorems.

## 1. Inventory of the system

| Part | State it keeps | Operations | What makes it correct |
| --- | --- | --- | --- |
| Process supervisor, `proc.go` | `p.cmd`, the done channel, a ring of output lines, under `p.mu` | start, stop, Running, Tail; goroutines that pump output and wait for the exit | no process is lost or stopped twice, stop returns, what was stopped dies, its output arrives |
| Engine, `engine.go` | none of its own but two supervisors, the log and the last warnings | Up, Down, Reload, Restack, generate, pollLoop | one tunnel at most; what runs is what is configured and shown; AWG and sing-box come and go in order |
| AWG policy routing, `netroute.go` | ip rules and a route table in the kernel | awgRoutingUp, awgRoutingDown | nothing left behind, nothing taken away too early |
| Store, `store.go` | state, nodes, subscriptions, each in memory and in a JSON file, under `s.mu` | SetState, AddNodes, ReplaceNode, DeleteNode, SetLatency, AddSub, DeleteSub, ReplaceSubNodes, writeSecret | the files are whole, and up to date after any crash unless a save failed; ids are unique where promised; edits and measurements survive refreshes |
| Start, `store.go`, `main.go` | the directory of an older version, and all files of the store | migrateStateDir, NewStore, migrateEncodedNodes, seedDefaultConf | what the old directory has of nodes, settings, `.conf` files and AWG configurations is taken over, once; the files agree with each other whenever the daemon dies |
| Subscriptions, `sub.go` | none | fetchSub: download, parse, ReplaceSubNodes | a late result does not undo what happened during the download |
| HTTP API, `api.go` | none | some 25 handlers, one goroutine per request, no lock across a handler | each leaves store, files and running processes in agreement |
| `.conf` parser and rule editor, `srconf.go` | lines of one file | ParseConf, InsertRule, UpdateRuleLine, DeleteRuleLine, MoveRuleLine | an edit changes one rule and nothing else |
| sing-box configuration, `singbox.go`, and rule-sets, `ruleset.go` | cached lists on disk | buildSingbox, mergeRules, expand, fetch | every packet goes where the `.conf` says; outbounds, groups and DNS servers refer only to what is in the file |
| Host names, `punycode.go` | none | punyDomain | a name is what RFC 3492 makes of it, or rules and fixed addresses for it never match |
| Connection log, `logs.go` | a ring of entries, an index into it, a file, under `cl.mu` | FromLog, Ingest, Since, Reset, trimFile | the index stays right as the ring moves; nothing logged is rewritten, or lost but by a write that fails |
| Clash API client, `clash.go` | none | Alive, Connections | - |
| Link parsers `uri.go`, file access `safepath.go` | none | pure functions | - |
| `main.go` | none | load, seed, initial generate in the background, serve | - |
| UI, `src/click` | what it last read | calls the API | - |

How they interact: a handler of `api.go` changes the store in one or several critical
sections and then calls the engine.  The engine reads the store and the active `.conf`,
writes `singbox.json`, and starts and stops the two child processes through supervisors.
The pump of a supervisor calls the connection log line by line; the poll of the Clash API
does so every second.  Nothing but `s.mu`, `p.mu`, `cl.mu` and the mutex of the warnings
protects anything, and no lock is held across a system call that waits, so two requests may
be anywhere in the engine at the same time.

What is hard here: processes that ignore signals or die at any point; commands that hang;
requests that overlap in Up, Down and Reload; steps that fail half-way; saves whose failure
is only logged; downloads that end after the world has
changed; saves that are interrupted; slices and maps whose indices must move together; line
numbers and ids that a client read before somebody else's edit.  `PROJECT.json` lists these
hazards line by line, with the property that is about each, or why none is.

## 2. The modules

```
ProcSlot <---------- implements ---------- Proc        Durable <-- implements -- SecretFile
   ^                                         |                                       |
   | INSTANCE                                |                               SecretFileProofs
 Engine <-- EXTENDS -- Api                   |
                        |                    |          Boot              Hosts -- EXTENDS --> Punycode
                        +---- ApiProofs -----+            |                 |
                         (of both, Api and Proc)      BootProofs            | EXTENDS
                                                                            v
               ConnLog          NodeStore          Conf                  Singbox
                  |                 |                |                       |
            ConnLogProofs     NodeStoreProofs    ConfProofs           SingboxProofs
```

NodeStore, Conf and Singbox EXTEND Slices, and the proofs in the last row SliceLemmas.

Each of the modules `Proc`, `Api`, `SecretFile`, `Boot`, `NodeStore`, `ConnLog`, `Conf` and
`Singbox` has an `MC...` module with its small instances.

**Proc** (`proc.go`).  `cmd` is `p.cmd`; `ps[p]` is the life of a process, and its done
channel is open until it is "reaped"; `pc` and `victim` say where a goroutine is in stop and
which process it took out of the slot.  A critical section under `p.mu` is one action
(`Start`, `Take`), and so is every point at which stop waits: `Interrupt`, `SeeDone`, `Kill`
(5 s are over), `GiveUp` (3 more seconds are over).  `Write`, `Die` belong to the process,
`PumpRead`, `PumpLine`, `Reap` to the goroutines that start leaves behind.  **ProcSlot** is
what the engine may rely on: at most one process has the slot; stop empties it at once; the
process goes later.

**Engine** (`engine.go`, `netroute.go`) has one record per request, `rq[r]`, with a program
counter and the engine operation it is in.  A step is a critical section of the store, a
system call or a wait: `SbTake`, `SbStopped`, `AwgUnroute`, `AwgStop`, `Check` and
`CheckNode` (Up looks at the state, then for the node), `GenerateState`, `GenerateNode`,
`GenerateName` and `GenerateConf` (generate reads four things one after the other),
`GenerateWrite`, `AwgStart`, `AwgConfigure`, `AwgRoute`, `SbSpawn`, `SbReady`, `SetUp` and so
on, and every one that can fail has its failing twin.  `SbLoad` is sing-box reading its
configuration: between its start and that moment another request may have rewritten the
file.  `Crash` is the daemon dying: children die with it, awg0 too, and the ip rules
stay.  `confs` has the rules of each `.conf` that is there, the template among them.
`unapplied` is a history variable: the rules of the active `.conf` have changed without a
Reload, or with one that could not generate.

**Api** (`api.go`) EXTENDS Engine by the handlers that change something: those of nodes,
subscriptions, `.conf` files and rules, `/up`, `/down` and `/mode`.  Each handler is split
where the code leaves a critical section or reads or writes a file: `/nodes/select` first
looks the node up (`SelectNode`), then sets the state (`SetSelected`), then calls Restack; a
rule edit looks for the active `.conf`, which creates and selects the template if there is
none (`CreateDefault`, `UseDefault`), reads it, writes it (`WriteConf` or, half done or not
at all, `WriteFail`) and calls Reload.  `/conf/delete` removes the file, then the selection,
then calls Reload; `/conf/fromurl` (`FetchConf`, `AddProxies`) calls nothing.

**SecretFile** (`writeSecret`, `readJSON`, the callers' locking in `store.go`). The value in
memory, the directory entries of the file and its `.tmp`, the content of every inode, and
what a power failure may leave of each: content that was not synced may be there or not, a
rename without a sync of the directory may be undone.  Any call may fail (`Fail`,
`OpenFail`, `SyncDirFail`), the daemon may be killed (`Kill`) and the device may lose power
(`PowerFailure`).  `Locked` says whether the caller holds `s.mu` while it writes, as nodes
and subscriptions do and SetState does not.  **Durable** is the promise: a restart brings
back the last value saved, or, during a save, the one before.

**Boot** (`store.go`, `main.go`, and what `api.go` does with more than one file).  All files of
the store together.  `legacy` is the directory of an older version, `disk` is StateDir,
`mem` is the Store.  `pc` follows main through migrateStateDir (`CopyFile` once each for
state.json, nodes.json and subs.json, then `CopyConf` and `CopyAwg` for the files of the
directories confs and awg, those of each in any order), NewStore (`Load`), migrateEncodedNodes
(`HealNodes`) and seedDefaultConf (`Seed`), and afterwards names the request that has
written the first of its two files; `SaveState` and `SaveNodes` write the second.  The
daemon may die at any step (`Crash`), and a copy or a save may fail.  The code only logs a
save that fails: `stale` has the files that are behind memory since (`Save`).  `late` has
subscriptions that were deleted while they were downloaded.  `cut` records what was ever left
half done or lost in one of these ways, so that a property can say what is true unless it
was.  A save of one file is one step here: SecretFile is about the steps in it.

**Slices** is one operator: `Picked(list, I)`, the entries of a slice at the places `I`, in
order, as the loops of the daemon collect them with append.  It is written as a recursive
function because the selection of the library is a RECURSIVE operator, about which nothing
can be proved; **SliceLemmas** has the facts about it that the proofs use, and those about
induction and loops.

**NodeStore** (`store.go`, `sub.go`).  The slice of nodes in order, the list of
subscriptions, and for each request the downloads it still has to do.  Every operation of
the store is one action; an update of subscriptions is one action per download, and other
requests run in between.

**ConnLog** (`logs.go`).  The ring, the map from connection to ring index, the file, and how
far sing-box has come in its log lines about each connection.  The file may not have been
opened (`opened`), and each write may fail; `unwritten` says which entries the last step could
not write.

**Conf** (`srconf.go`, the route part of `singbox.go`, `expand` of `ruleset.go`).  The lines
of the active file, the four edits by line number, and as operators what ParseConf reads
from the lines and what buildSingbox makes of that, down to merged route rules.  A packet is
the set of conditions it meets, so all packets are checked.

**Singbox** (the rest of `singbox.go`).  A `.conf` is built up entry by entry and a node is
selected; `Outbounds`, `PolicyTag` and `Dns` are the parts of singbox.json that
buildSingbox makes of them, which name each other by tag.  **Hosts** adds the fixed addresses
(`Predefined`), the only part in which the letters of a name matter: `Names` are sequences of
numbers there (`NamesAssumption`).  A DNS entry is what dnsServer
tells apart: its protocol, an IPv4 or IPv6 address or a name, with or without a port.
**Punycode** (`punycode.go`) is the encoder with its arithmetic, and beside it the decoder of
RFC 3492, which the program does not have, as the reference.  Each loop of the code is a
function from the number of its turns to the state of its variables (`Left`, `Runes`,
`Rounds`), so that something can be proved about it.  Its integers are unbounded; a delta of
the code grows to 1.1 million times the length of a label, so that in 32 bits a label may have
1900 code points, and a domain name has no more than 255.

## 3. The runs

All bounds are chosen so that the interesting cases occur; each run but the violations is
exhaustive for its instance.

| Run | Instance | Shows |
| --- | --- | --- |
| `MCProc.cfg` | 2 callers, 2 processes, 1 line each (29 thousand states) | `Accounted`, `SoleStopper`, `StopReturns`, `VictimDies`, and `SlotSpec`: Proc implements ProcSlot |
| `MCApi_serial.cfg` | 1 request, all endpoints of the model, 1 ordinary and 1 AWG node, 2 modes, 1 `.conf` with 1 rule, failures of generate, of saves, of AWG, of the start of sing-box and of its readiness (2.3 million) | `UpIsHonest`, `ConfigInForce`, `AwgTornDown`, `ReverseOrder` |
| `MCApi_concurrent.cfg` | 2 requests (up, down, selection and deletion of nodes), one of them starting as the initial generate, 2 sing-box processes, 1 AWG node, failures of generate, AWG and readiness, exits of amneziawg-go, commands that hang, crashes (165 thousand) | `NoOrphan`, `Answered`, `DownConverges` |
| `MCSecretFile.cfg` | 2 writers, 2 texts of different lengths, 3 inodes, all faults, writes under the lock (93 thousand, symmetry on inodes) | `AtomicWrite`, `Settled`, `DurableSpec` |
| `MCBoot.cfg` | no older version or one of 8 directories, 3 node ids of which the older version got one wrong, 1 subscription, the template and another `.conf`, 1 AWG configuration, saves that fail, 1 kind of trace of what was cut or lost, any number of crashes (1.9 million) | `AtRest`, `SelectionFound`, `NoStrays`, `Editable`, `TakenOver`, `NothingRevived` |
| `MCNodeStore.cfg` | 2 requests, 2 subscriptions, 2 ids with 2 names, up to 3 nodes in the list, bodies of 2, 1 latency (52 thousand, symmetry on all of them) | `NoLeftovers`, `EditSticks`, `LatencyKept`, `OnlyRefreshRepeats`, `EditUnique` |
| `MCConnLog.cfg` | 3 connections, two to one address and two of one domain, a ring of 2, a file of 2, which is open or not, writes that fail (117 thousand) | `IndexExact`, `JournalGrows`, `RecentKept` |
| `MCConf.cfg` | 2 files (a wild one with skip-proxy, a rule-set, a group, two [Rule] and FINAL,REJECT; one without [Rule]), 2 domains and a condition sing-box cannot express, 1 rule-set that may fail, up to 3 rules (6 thousand states, each with all packets) | `RoutesAsWritten`, `AddedWins`, `OthersKept`, `OneRuleEdited` |
| `MCSingbox.cfg` | every `.conf` of up to 3 entries out of 9 kinds of DNS servers, 6 groups of which two make one tag and one is named DIRECT, and hosts of up to 4 code points out of 5, and one whose label is encoded already; no node, an ordinary and an AWG node; a limit of 2 DNS servers instead of 4 (21 thousand) | `OutboundsThere`, `Resolvable`, `HostsMeant`, `GroupsMeant` |

Why the bounds suffice: two callers and two processes are enough for a stop that has taken a
process to meet a start and a stop of the next one; two requests are enough for every pair
of overlapping operations; two writers with texts of different lengths are enough for a
short text over a long one; three nodes for two copies of an id and another one; a ring of
two for an entry to leave it while others stay; three rules for a move past a neighbour with a
third one left; one node with a wrong id beside two others for the new id to be free or
taken; three entries for the limit of two DNS servers to cut one off.  One `.conf` beside the
default text is enough for a selection to change what is in force, for the active file and
for one that is not; with a second the states are too many, and the theorems hold for any
number.  One trace at a time in Boot shows for each that it alone does no more than is said of
it.  The theorems of section 5 remove the bounds where they apply.

Deadlock is checked in every run.  In all of them something can always go on: a new request,
an edit, another line.

`FairSpec` (Proc, Api) assumes only what the code and the platform give: a goroutine with
something to do runs; a timer fires; the kernel delivers SIGKILL; the waiter sees an exit.
No process is assumed to react to SIGINT, no request is assumed to come, no download to
succeed.  In Api a process that a request waits for dies in the end: that is `VictimDies` of
Proc.  A request that runs `ip` or `awg` (`Hung`) is not assumed to go on, for run takes a
timeout and makes no use of it (`netroute.go:15`); every other wait of a request has a
deadline.  `Answered` excludes runs in which the daemon crashes for ever, and the request
whose own command hangs: what it shows is that such a request holds up no other one.
`DownConverges` is about a user who in the end does nothing but `/down` and gets answers.

### Where the code does not do what is said of it

Each of these runs checks one property and TLC finds the counterexample.

| Run | Stated | What happens |
| --- | --- | --- |
| `MCApi_rules.cfg` | README: adding a rule flips that host's route immediately | a rule added while Up is starting sing-box is saved and not in force: `st.Up` is still false and Reload does nothing |
| `MCConf_final.cfg` | `srconf.go:523`: the order in [Rule] is the priority, first match wins; README.md:23: order = priority | buildSingbox takes FINAL out of the order (`singbox.go:561`): rules below it still apply |
| `MCSecretFile_torn.cfg` | `store.go`: writeSecret is an atomic write | SetState writes without the lock, all writers share `path.tmp`, and a mixed text gets the name |

Seen while modelling, without a run:

- `cmd.Wait` closes the pipes under the pumps that still read them (`proc.go:111` against
`proc.go:69`): the last lines of a process may be lost (`Reap` of Proc).
- `run` ignores its timeout (`netroute.go:15`), though its callers pass 10 s and 20 s: an `ip`
or `awg` command that hangs makes `/up` or `/down` hang (`Hung` of Api).
- A save of state.json, nodes.json or subs.json that fails is only logged (`store.go:130`, 156,
394): the client is answered, and after a restart the older value is back (`stale` of Boot).
An entry of the connection log whose write fails is dropped (`logs.go:212`, 219).
- A Reload that fails is only logged (`api.go:721`) while the client of a rule edit gets 200,
and one that fails in sbUp, or a sing-box that exits, leaves 'up' shown with nothing running.
- Without a node, or with one whose subscription was deleted, mode `proxy` sends everything
directly; README.md:27 says that everything goes through the node.
- Policies of rules are read in upper case and names of groups are not (`srconf.go:187`), so a
group with a small letter is never found, though README.md:160 says that groups work.  Two
groups whose names differ in punctuation only make one tag (`singbox.go:176`), and nothing
keeps a group from containing itself.
- `/conf/fromurl` replaces the active `.conf` without a Reload.
- The selected `.conf` may be missing after a crash in `/conf/delete`.  activeConf then takes
the default text (`engine.go:43`); only the edits of rules fail (`api.go:689`).
- When the daemon dies in migrateStateDir after nodes.json was copied, or a later copy fails,
subscriptions, `.conf` files and AWG configurations of the older version are never taken over
(`cut` of Boot).
- AWG is not restored when amneziawg-go dies while sing-box goes on.
- `trimFile` does not rewrite a file of exactly 2\*connLogKeep+1 lines.
- Groups take no nodes of [Proxy] as members, though the comment at `singbox.go:392` says so.
- `/rules/update` drops the options of a rule.
- Nodes of a subscription that is deleted while it is downloaded come back; of a node that a
subscription lists twice the wrong latency is kept.
- With two requests at a time one of two rule edits may be lost, and `st.up` may not say what
runs, until the next Down.
- `Ingest` may give a connection the rule of another one to the same address.

## 4. Properties

The comments in the modules state each property in words.  The deeper ones:

- `NoOrphan` (Api): in every interleaving of requests, failures and crashes a live sing-box
is in the slot or somebody waits for its end.
- `UpIsHonest`, `ConfigInForce` (Api, one request at a time): between requests a live tunnel
is shown as up, and runs with the current mode and with no node but the selected one, whatever
failed in between.  It has the rules of the active `.conf` too, but in the cases in which the
code leaves old ones in force: `/conf/fromurl`; the template when an edit or a reading of the
rules selects it; a save that fails after the rename; an edit whose Reload cannot generate.
(The converse of `UpIsHonest` is false of the code: see above.)
- `Answered` (Api): a request that hangs in a command of its own is the only one that hangs.
- `Accounted`, `VictimDies` (Proc): emptying the slot before the kill loses nothing.
- `DurableSpec`, `Settled` (SecretFile): the order write, fsync, rename, fsync of the
directory is what makes a save last; leaving out either fsync is found by the mutants.
- `DownConverges` (Api): whatever two overlapping requests, failures and crashes have left,
and whatever the UI was told, a Down that is repeated ends with nothing running and nothing
shown.
- `TakenOver`, `NothingRevived` (Boot): what the directory of an older version has of state,
nodes, subscriptions, `.conf` files and AWG configurations is taken over before the daemon
serves, however often it dies on the way, and never a second time; the cases in which it is
not are named.
- `AtRest` (Boot): memory is on disk, file by file, unless the last save of that file failed.
- `NoStrays`, `Editable`, `SelectionFound` (Boot): which disagreements between the files a
crash, a save that fails or a late download can leave, and that there are no others.
- `NoLeftovers` (NodeStore): in memory, nodes of a deleted subscription come from a download
that was under way.  What a crash adds to that is `NoStrays`.
- `EditSticks` (NodeStore): a user's edit is not overruled by a refresh that lists the node
again.
- `JournalGrows` (ConnLog): file and ring together only ever grow, but for the very entries
whose own write fails, and a rule or domain once found for a connection stays.
- `RoutesAsWritten`, `AddedWins` (Conf): expansion, skipping and merging of rules change the
fate of no packet, as long as FINAL is the last rule of the file (`FirstMatchWins`, without
that condition, is violated), and a rule added from the log wins over everything but
skip-proxy.
- `GroupsMeant` (Singbox): a rule for a group reaches an outbound that chooses from the groups
and built-in policies on the line of the group, and from nothing that no name on that line
leads to.  It is about groups that a rule can name and that are alone with their tag, and not
about nodes of [Proxy]: what becomes of the others is in the list above.
- `Resolvable` (Singbox): every DNS server that is named by host is resolved through one that
needs no resolving and can be reached, so sing-box starts.
- `HostsMeant` (Singbox): the names in singbox.json are ASCII, and by the decoder of the RFC
they are those that the user meant (`Meant`: what he wrote, with labels that he encoded
himself decoded), each of them and no other.

The types of Boot, NodeStore, ConnLog, Conf and Singbox are documented by a `TypeOK` that no
run lists; all of them are proved.

## 5. What is proved

`ApiProofs` (with the proofs about Proc at its end), `SecretFileProofs`, `BootProofs`,
`NodeStoreProofs`, `ConnLogProofs`, `ConfProofs` and `SingboxProofs` are checked by TLAPS for
all values of the constants that satisfy the assumptions named in the modules.  With them
every safety property of every run that passes is a theorem.

**Proc.**  The inductive invariant `IInv` is the conjunction of `TypeOK`, `Born` (the
process in the slot and every victim have been started), `VictimHeld` (a goroutine outside
stop has no victim, one that has sent a signal has one), `SoleStopper` and `Accounted`.
`Accounted` is not inductive alone: when a stop gives up, its victim is still accounted for
only because nobody else holds it, which is `SoleStopper`; and that in turn needs
`VictimHeld`, and `Born`, by which start cannot put a held process back into the slot. The
theorems `TypeCorrect`, `NeverForgotten` and `OneStopper` follow, and `ImplementsSlot` maps
every step to a step of ProcSlot or to a stutter.

**Api.**  `TypeCorrect` and `OneTunnel` (`NoOrphan`) hold for any set of requests, failures and
endpoints.  The types are inductive together with `AllNamed`: a request that is about to read
or save a `.conf` has the name of one.  `NoOrphan` is inductive together with the types: only
steps that touch the slot matter, and each of them either puts the process it takes out into
`rq[r].victim` of the request that waits for it, or finds the slot free.  `HonestWhenSerial`
(`UpIsHonest`) assumes `Reqs = {r}`.  Its invariant `Serial` says, for every label of the
request, which operation it can be in (`Flow`), where sing-box is down for certain
(`DownWhere`), that Reload acts on a stack that is up (`ReloadUp`), where a live sing-box need
not be admitted (`Honest`), that stop has emptied the slot (`Emptied`), and that awgUp has an
AWG node (`Aimed`).  `ReverseOrderWhenSerial` needs in addition that neither amneziawg-go nor
the daemon dies.  `InForceWhenSerial` (`ConfigInForce`) assumes nothing but `Reqs = {r}`:
whatever may fail.  Its invariant `Applied` says on top of `Serial` where generate has read
mode, node and rules as they are (`Prepared`), where singbox.json has them too (`Written`), where no sing-box lives (`Stopped`), and where a live one, or the one about to
read the file, has mode and node right, and rules that are right unless `unapplied` is set
(`RunsRight`): everywhere but between a change of the store and the stop that follows it.
Where only rules have changed, what runs has mode and node even then (`Fit`), which is why a
Reload that cannot generate excepts no more than the rules.  `TornDownWhenSerial`
(`AwgTornDown`) assumes that the daemon does not die, since the ip rules outlive it until the
next Up or Down; amneziawg-go may exit.  Its invariant `Cleared` says where nothing
of AWG is there for certain: whenever `up` is not set, but for an Up or a Down in progress.

**SecretFile.**  `TypeCorrect` holds with the lock and without: even two writers of one
temporary file never write past the end of a text.  Assuming `Locked`, `Atomic`, `SavedForGood`
and `ImplementsDurable` follow from one invariant: at most one writer is past the assignment;
the temporary file is not the one the name leads to; at each label the temporary file holds
what the steps so far have written, and what may be on the disk of it is everything in between
until the fsync and only the whole text after it; the files the name may lead to are the old
and the new one between rename and the sync of the directory, and one file otherwise.

**Boot.**  Every property of the run is proved, for all sets of nodes, subscriptions and
`.conf` files, all directories an older version may have left (assumed whole:
`LegaciesAssumption`) and any number of operations cut.  `Saved` (`AtRest`) rests on `Synced`,
which says for every `pc` what memory and disk already share, but for the files in `stale`.
The others rest besides on `MoveInv`: which files, those of the directories confs and awg
included, are where during the move.  It is needed because the disk does disagree with itself
in the middle of the move, and only the presence of nodes.json tells a later start whether to
go on with it.  `StrayInv`, `EditInv` and `SelInv` add what an operation between its two files
has apart; `ServedInv` and `TakenInv` relate the first time of serving to the old directory,
with `HealTwice`: a start that was cut after healing does not heal again.

**ConnLog.**  `IndexIsExact` holds for any connections, any size of the ring and any answers of
the Clash API; its invariant adds to `IndexExact` only that the ring is a sequence of entries
and that a connection without a log line has none.  `NothingLost` (`JournalGrows`) follows from
it, whether the file is open or not and whichever writes fail: what leaves the ring is exactly
what goes to the file or is `unwritten` (`Shifted`, `UpsertGrows`), and neither a later line of
a connection nor the poll takes a rule or a domain back (`EnrichedExtends`).  `RecentAreKept`
(`RecentKept`) is about the loop of trimFile, for any file and any connLogKeep: after k lines
its buffer is the end of the part read so far (`EndOf`, `BufferIs`), never shorter than
connLogKeep unless that part is, so what is written ends with the last connLogKeep lines.

**Slices.**  `Picks(t, list, I)` says that `t` has the entries of `list` at the places `I` in
order, by an increasing enumeration of `I`.  What a loop collects is such a `t`
(`PickedPicks`), and there is only one (`PicksUnique`), so two lists are equal as soon as both
pick the same entries: those of two parts of a list one after the other (`PicksConcat`), of
places that moved without overtaking one another (`PicksMoved`), of all places but one
(`PicksWithout`), which is how nearly all equalities of lists in the two modules below are
shown.  The induction over the turns of a loop, here and for the folds, is `Induction`: the
induction theorems of the library take the property as an operator, which the provers cannot
instantiate, but its well-foundedness theorem `WFMin` takes a set, and the numbers with the
property are one.

**NodeStore.**  Every property of the run, for any number of requests, subscriptions and nodes
and for bodies and imports of any length.  They follow from the types and from what each
operation does to the list: `Edited` for `EditLeavesOne` (the duplicate before the edited node
included); `AddNodesLoop` and `NoMore` for `Deduplicated`, by induction over an import, which
may repeat itself; `Refresh` for `EditsStick` and `LatenciesKept` (about ids that the
subscription has once: of two copies the latency of the last is kept, which may be none);
`BroughtByRefresh` and `UnlistedByDelete` for `LeftByDownload`.

**Conf.**  Every property of the run, for any files, conditions, rule-sets and policies, any
cache and any number of edits.  The assumptions: a condition is a type and an argument, its
type is not RULE-SET or FINAL and no argument is the one that matches everything
(`CondsAssumption`); a rule-set is a sequence of conditions; the policies of the editor are in
upper case (`UpperAssumption`); a device starts with a file of lines.  `Chosen(rules, packet)`
is what a list of route rules decides for a packet, if it does.  It is compositional
(`ChosenConcat`, `ChosenFlat`), and `MergeRuleKeeps` says that merging one more rule does not
change it; by induction over the fold the merged list decides as the unmerged one
(`MergedKeeps`), and that one, line by line (`FromLineIs`, `ByLineIs`), as the file says if
FINAL is left to the end: `RoutesAsSaid`.  `RoutesRight` (`RoutesAsWritten`) follows for files
in which it is there already.  For `NewRuleWins`
(`AddedWins`), `InsertedWhere` shows that a new rule is the first line under the first [Rule],
be it there already or not, and so the first rule; `RoutesAsSaid` does the rest, FINAL
included.  `OthersStay` and `OneRuleAtATime` rest on `RuleLinesUnder`, which says which lines
are rules by the nearest heading above, and on two lemmas about an edit: one rule more or less
leaves the others under their headings (`OneRuleMore`), and so does a rule in the place of
another (`RulesInPlace`).

**Singbox.**  `NothingDangles` (`OutboundsThere`), `GroupsReached` (`GroupsMeant`) and
`NamesResolved` (`Resolvable`), for any nodes, groups and DNS entries and any limit of servers.
They hold in every state of the right type, whatever has been added before, so `TypeOK` is the
whole invariant and the work is in the operators.  `OutboundsAre` and `MembersAre` say what
stands where in the lists that the two loops over groups append to; an outbound is found by its
place, and two groups of one tag are the case that `NamesAgree` has to tell apart.  That a
group has at least one name on its line is `GroupsAssumption`, which is what parseGroupLine
sees to.  For the servers, `ServersAre` and `DnsIs` say which entries survive dnsServer and the
limit, in which order and with which tags; `TagsCounted` that no two have one tag, the
bootstrap server included, so that a resolver named by its tag is that server.  If one of the
servers left is an address, the first such is the resolver of the named ones; if none is, the
bootstrap server stands in front of them, and it is an address.

**Punycode.**  `HostsRight` (`HostsMeant`) is the round trip: for any name, in any letters and
of any length, what punyDomain makes of it is ASCII and decodes to what was meant
(`NameMeant`).  It is the last part of SingboxProofs, in five steps.

- The numbers.  The two biases are equal (`AdaptIsBias`).  `TurnsAre` says that the loop of
the encoder ends and where, `DigitsAre` what its digits are worth, and `NumberRead` that the
decoder, on any text in which these digits stand, reads all of them and no more and gets the
number back.
- The invariant of the loops.  `Agrees` relates a state of the encoder to one of the decoder:
the decoder has the code points at the places the encoder has dealt with (`E`), and what the
encoder has counted since its last number, `delta`, is the distance between the two: a whole
turn over the places for every code point between, the places of `E` passed in this round,
less those before the decoder's place.  `Matches` says that it is so whatever will follow
what is written: that is what makes it inductive, for the digits of a number only count once
they are there.
- The steps.  A turn without output moves the distance (`MatchesMoved`); a number brings it to
zero and puts one more code point at its place (`NumberPlaced`, `Emits`), which is that of the
label by `PickedInserted`; a round deals with all places of one code point (`RunesMatch`,
`RoundKeeps`) and writes at least one, so as many rounds as there are code points are enough
(`RoundsEnd`).
- The end.  What is left to the decoder is the whole label (`Complete`, `TextDecoded`); what
follows the last hyphen is found because a digit is not one (`DigitIsNot`).
- The labels.  `JoinedIs` says that joining labels and splitting the result at the dots gives
the labels; encoding puts no dot into a label (`PunyLabelIs`).

Two attempts at a proof corrected the model.  The cases of `Outcome` in Conf and of `PolicyTag`
in Singbox overlapped for a group that is named like a built-in policy.  policyTag looks at
the built-in names first, while TLA+ leaves open which of two true cases is meant; they are
disjoint now.  And `GroupsMeant` said that a rule for a group goes to that group, which is
false of a group that is named DIRECT or PROXY: the built-in policy wins.  The property
leaves those out now, and the run has such a group.

Only model-checked:

- Liveness (`StopReturns`, `VictimDies`, `Answered`, `DownConverges`), which TLAPS cannot prove
under fairness.

## 6. What is not modelled

- `uri.go`: links and proxy lines of one node each, and the syntax of single rule lines.
They are syntax down to the character, without state or order.
- nodeOutbound and the TUN inbound: records made of one node's fields.
- `safepath.go`: decisions about paths of the device that nothing uses later.
- The single `ip` commands and the netlink messages of `netroute.go`: routing up and down are
one step each.
- Freshness, download and cache file of rule-sets: `expand` gets a set or does not.
- Traffic counters, QR decoding, the HTTP server, the UI and the scripts.

In Conf a file saved through `/conf` is one of the initial files, and a rule that the editor
writes is read as it was written: `parseRuleInput` lets arguments through that ParseConf reads
differently.  Its conditions have a type each, while IP-CIDR, IP-CIDR6 and IP6-CIDR share one
field of sing-box (`singbox.go:238`) and merge with each other, which changes no packet's fate.
In Api a node is its id and a `.conf` a set of rules; what edits do to the order of rules is in
Conf.  Boot serves one request at a time, but for a download that outlasts the deletion of its
subscription; its move leaves out connlog.jsonl, and its requests the AWG configurations that
imports add.  In ConnLog a write that fails writes nothing of its entry.  Proc is trusted by
Engine through ProcSlot, with the assumption, checked by the run of Proc under fairness and not
in Engine, that a stopped process dies.

## 7. Plan

Done first, in this order: Proc and ProcSlot (everything rests on them), Engine and Api (the
core), SecretFile and Durable, NodeStore, ConnLog, Conf, and the proofs of the first three;
then Boot with its proofs, Singbox with Punycode, `DownConverges`, and the proofs of ConnLog;
then the remaining safety properties of Api, ConnLog, NodeStore, Conf and Singbox, the last
of them the round trip of Punycode; then the handlers of `.conf` files in Api, commands that
hang, saves that fail in Boot, and the writes of ConnLog that fail.  Next:

1. The set of acknowledged rule edits in Api, so that a lost update is visible.
2. The order of memory and file for `state.json`, written outside the lock by two requests.
3. Rule-set cache: freshness, stale answers, and two generates that download the same set.
4. The same names in rules: the domain conditions of ruleToSB, which Conf has as model values.
