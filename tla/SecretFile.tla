----------------------------- MODULE SecretFile -----------------------------
(***************************************************************************)
(* How the store saves a value (src/daemon/store.go): SetState and the     *)
(* node and subscription operations change the value in memory under s.mu, *)
(* writeSecret puts it into a temporary file that then takes the place of  *)
(* the old one.  nodes.json and subs.json are written with s.mu held       *)
(* (Locked), state.json is written after s.mu is released.                 *)
(*                                                                         *)
(* The file system is what the code relies on: a write or a truncation may *)
(* reach the disk at any time and reaches it for certain with the fsync of *)
(* the file, a rename with the fsync of the directory.                     *)
(***************************************************************************)
EXTENDS Integers

CONSTANTS
  Writers,   \* goroutines that save
  Texts,     \* values saved
  Default,   \* the value of a store without a file
  Length,    \* blocks each text takes
  Capacity,  \* the most of them
  Inodes,    \* files of the file system
  Locked,    \* s.mu is held while the file is written
  Faults,    \* what may happen: "io", "kill", "power"
  NoInode,   \* no such directory entry
  NoText     \* nothing at this position of a file

ASSUME TextsAssumption == Default \notin Texts /\ NoText \notin Texts
ASSUME InodesAssumption == NoInode \notin Inodes
ASSUME LengthAssumption == Capacity \in Nat /\ Length \in [Texts -> 1..Capacity]
ASSUME LockedAssumption == Locked \in BOOLEAN

VARIABLES
  mem,    \* the value in memory
  path,   \* the file the name leads to
  tmp,    \* the file the name with .tmp leads to
  data,   \* content of each file
  may,    \* contents each file may have after a power failure
  past,   \* files the name may lead to after a power failure
  wr,     \* the writers
  saved   \* the last save went through to its last step

vars == <<mem, path, tmp, data, may, past, wr, saved>>

-----------------------------------------------------------------------------
(* Values *)

Values == Texts \cup {Default}
Blocks == 1..Capacity
Contents == [Blocks -> Texts \cup {NoText}]
Empty == [b \in Blocks |-> NoText]
Whole(t) == [b \in Blocks |-> IF b <= Length[t] THEN t ELSE NoText]

\* NewStore goes on with the default when a file is absent or does not parse.
Loaded(i, contents) ==
  IF i # NoInode /\ \E t \in Texts : contents = Whole(t)
    THEN CHOOSE t \in Texts : contents = Whole(t)
    ELSE Default

Content(i) == IF i = NoInode THEN Empty ELSE data[i]

Writer == [pc : {"idle", "open", "write", "sync", "chmod", "rename", "syncdir", "remove"},
           text : Values, inode : Inodes \cup {NoInode},
           next : 1..(Capacity + 1)]

Idle == [pc |-> "idle", text |-> Default, inode |-> NoInode, next |-> 1]

At(w, label) == wr[w].pc = label
Goto(w, label) == wr' = [wr EXCEPT ![w].pc = label]
Finish(w) == wr' = [wr EXCEPT ![w] = Idle]

\* A file nothing refers to, and nothing may refer to after a power failure.
Free(i) == i \notin {path, tmp} \cup past /\ \A w \in Writers : wr[w].inode # i

TypeOK ==
  /\ mem \in Values
  /\ path \in Inodes \cup {NoInode}
  /\ tmp \in Inodes \cup {NoInode}
  /\ data \in [Inodes -> Contents]
  /\ may \in [Inodes -> SUBSET Contents]
  /\ past \in SUBSET (Inodes \cup {NoInode})
  /\ wr \in [Writers -> Writer]
  /\ saved \in BOOLEAN

Init ==
  /\ mem = Default
  /\ path = NoInode
  /\ tmp = NoInode
  /\ data = [i \in Inodes |-> Empty]
  /\ may = [i \in Inodes |-> {Empty}]
  /\ past = {NoInode}
  /\ wr = [w \in Writers |-> Idle]
  /\ saved = TRUE

-----------------------------------------------------------------------------
(* writeSecret *)

\* The value changes in memory and this goroutine is to save it.
Assign(w, t) ==
  /\ At(w, "idle")
  /\ Locked => \A v \in Writers : At(v, "idle")
  /\ mem' = t
  /\ saved' = FALSE
  /\ wr' = [wr EXCEPT ![w].pc = "open", ![w].text = t]
  /\ UNCHANGED <<path, tmp, data, may, past>>

\* Bug: OpenFile without O_TRUNC.
BugOpen(w, i) ==
  /\ At(w, "open")
  /\ IF tmp = NoInode
       THEN /\ Free(i)
            /\ data' = [data EXCEPT ![i] = Empty]
            /\ may' = [may EXCEPT ![i] = {Empty}]
       ELSE i = tmp /\ UNCHANGED <<data, may>>
  /\ tmp' = i
  /\ wr' = [wr EXCEPT ![w].pc = "write", ![w].inode = i]
  /\ UNCHANGED <<mem, path, past, saved>>

\* OpenFile with O_CREATE and O_TRUNC: a temporary file left behind by a
\* crash, or in use by another goroutine, is emptied.
Open(w, i) ==
  /\ At(w, "open")
  /\ IF tmp = NoInode THEN Free(i) ELSE i = tmp
  /\ data' = [data EXCEPT ![i] = Empty]
  /\ may' = [may EXCEPT ![i] = IF tmp = NoInode THEN {Empty} ELSE @ \cup {Empty}]
  /\ tmp' = i
  /\ wr' = [wr EXCEPT ![w].pc = "write", ![w].inode = i]
  /\ UNCHANGED <<mem, path, past, saved>>

\* Bug: one block more than the text has.
BugWrite(w) ==
  /\ At(w, "write")
  /\ LET i == wr[w].inode
         next == wr[w].next
         new == [data[i] EXCEPT ![next] = wr[w].text]
     IN  /\ data' = [data EXCEPT ![i] = new]
         /\ may' = [may EXCEPT ![i] = @ \cup {new}]
         /\ wr' = [wr EXCEPT ![w].next = next + 1,
                             ![w].pc = IF next > Length[wr[w].text] THEN "sync" ELSE "write"]
  /\ UNCHANGED <<mem, path, tmp, past, saved>>

\* WriteString, a block at a time.
Write(w) ==
  /\ At(w, "write")
  /\ LET i == wr[w].inode
         next == wr[w].next
         new == [data[i] EXCEPT ![next] = wr[w].text]
     IN  /\ data' = [data EXCEPT ![i] = new]
         /\ may' = [may EXCEPT ![i] = @ \cup {new}]
         /\ wr' = [wr EXCEPT ![w].next = next + 1,
                             ![w].pc = IF next = Length[wr[w].text] THEN "sync" ELSE "write"]
  /\ UNCHANGED <<mem, path, tmp, past, saved>>

\* Bug: the file is renamed without an fsync.
BugSync(w) ==
  /\ At(w, "sync")
  /\ Goto(w, "chmod")
  /\ UNCHANGED <<mem, path, tmp, data, may, past, saved>>

\* f.Sync and f.Close.
Sync(w) ==
  /\ At(w, "sync")
  /\ may' = [may EXCEPT ![wr[w].inode] = {data[wr[w].inode]}]
  /\ Goto(w, "chmod")
  /\ UNCHANGED <<mem, path, tmp, data, past, saved>>

Chmod(w) ==
  /\ At(w, "chmod")
  /\ tmp # NoInode
  /\ Goto(w, "rename")
  /\ UNCHANGED <<mem, path, tmp, data, may, past, saved>>

\* The name now leads to the temporary file, whoever wrote it.
Rename(w) ==
  /\ At(w, "rename")
  /\ tmp # NoInode
  /\ path' = tmp
  /\ tmp' = NoInode
  /\ past' = past \cup {tmp}
  /\ Goto(w, "syncdir")
  /\ UNCHANGED <<mem, data, may, saved>>

\* Bug: the directory is not synced.
BugSyncDir(w) ==
  /\ At(w, "syncdir")
  /\ saved' = (wr[w].text = mem)
  /\ Finish(w)
  /\ UNCHANGED <<mem, path, tmp, data, may, past>>

\* The end: the directory is synced.
SyncDir(w) ==
  /\ At(w, "syncdir")
  /\ past' = {path}
  /\ saved' = (wr[w].text = mem)
  /\ Finish(w)
  /\ UNCHANGED <<mem, path, tmp, data, may>>

\* The second Chmod or the sync of the directory fails: the latter is not
\* even reported.
SyncDirFail(w) ==
  /\ "io" \in Faults
  /\ At(w, "syncdir")
  /\ Finish(w)
  /\ UNCHANGED <<mem, path, tmp, data, may, past, saved>>

\* The temporary file cannot be opened: nothing to clean up.
OpenFail(w) ==
  /\ "io" \in Faults
  /\ At(w, "open")
  /\ Finish(w)
  /\ UNCHANGED <<mem, path, tmp, data, may, past, saved>>

\* Any other step before the end fails, for instance because another
\* goroutine has renamed the temporary file away.
Fail(w) ==
  /\ wr[w].pc \in {"write", "sync", "chmod", "rename"}
  /\ "io" \in Faults \/ (wr[w].pc \in {"chmod", "rename"} /\ tmp = NoInode)
  /\ Goto(w, "remove")
  /\ UNCHANGED <<mem, path, tmp, data, may, past, saved>>

\* os.Remove of the temporary file, whoever created it.
RemoveTmp(w) ==
  /\ At(w, "remove")
  /\ tmp' = NoInode
  /\ Finish(w)
  /\ UNCHANGED <<mem, path, data, may, past, saved>>

-----------------------------------------------------------------------------
(* Restarts *)

\* The daemon dies and NewStore reads what the name leads to.
Kill ==
  /\ "kill" \in Faults
  /\ mem' = Loaded(path, Content(path))
  /\ wr' = [w \in Writers |-> Idle]
  /\ saved' = FALSE
  /\ UNCHANGED <<path, tmp, data, may, past>>

\* What a file may hold after a power failure.
Survives(i) == IF i = NoInode THEN {Empty} ELSE may[i]

\* The device loses power: what was not synced may or may not be there.
PowerFailure ==
  /\ "power" \in Faults
  /\ \E i \in past : \E contents \in Survives(i) :
       /\ mem' = Loaded(i, contents)
       /\ path' = i
       /\ past' = {i}
       /\ data' = [j \in Inodes |-> IF j = i THEN contents ELSE Empty]
       /\ may' = [j \in Inodes |-> {IF j = i THEN contents ELSE Empty}]
  /\ tmp' = NoInode
  /\ wr' = [w \in Writers |-> Idle]
  /\ saved' = TRUE

Next ==
  \/ \E w \in Writers :
       \/ \E t \in Texts : Assign(w, t)
       \/ \E i \in Inodes : Open(w, i)
       \/ Write(w) \/ Sync(w) \/ Chmod(w) \/ Rename(w) \/ SyncDir(w)
       \/ SyncDirFail(w) \/ OpenFail(w) \/ Fail(w) \/ RemoveTmp(w)
  \/ Kill \/ PowerFailure

Spec == Init /\ [][Next]_vars

-----------------------------------------------------------------------------
(* Properties *)

\* What a restart may bring back, after a power failure or without one.
Disk == UNION {{Loaded(i, contents) : contents \in Survives(i)} : i \in past}

D == INSTANCE Durable WITH disk <- Disk

\* A value saved under s.mu survives every restart as Durable promises: the
\* old value or the new one until writeSecret is through, the new one after.
DurableSpec == D!DurableSpec

\* After a save that went through, nothing can bring the old value back.
Settled == saved => Disk = {mem}

\* store.go: writeSecret is an atomic write, so the name always leads to one
\* of the texts that were written, and never to a part or a mix of them.
AtomicWrite == path # NoInode => \E t \in Texts : data[path] = Whole(t)
=============================================================================
