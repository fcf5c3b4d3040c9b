-------------------------- MODULE SecretFileProofs --------------------------
(***************************************************************************)
(* Proofs about SecretFile for any number of goroutines, texts of any      *)
(* length and any mix of faults, as long as s.mu is held during the write: *)
(* AtomicWrite, Settled and the refinement of Durable.                     *)
(***************************************************************************)
EXTENDS SecretFile, TLAPS

\* Only one goroutine saves at a time.
OneWriter ==
  \A v, w \in Writers : ~At(v, "idle") /\ ~At(w, "idle") => v = w

\* The temporary file is not one the name may lead to, and what it may lead
\* to is whole whatever happens.
PastWhole ==
  /\ path \in past
  /\ tmp # NoInode => tmp \notin past
  /\ \A i \in past \ {NoInode} : \A c \in may[i] : \E t \in Texts : c = Whole(t)
  /\ \A i \in Inodes : data[i] \in may[i]

\* How far the goroutine that saves has come.
Progress(w) ==
  LET i == wr[w].inode
      t == wr[w].text
  IN  /\ wr[w].pc \notin {"idle", "remove"} => t \in Texts /\ t = mem
      /\ wr[w].pc \in {"idle", "open"} => wr[w].next = 1
      /\ wr[w].pc \in {"write", "sync", "chmod", "rename"} => i # NoInode /\ i = tmp
      /\ wr[w].pc = "write" =>
           /\ wr[w].next <= Length[t]
           /\ data[i] = [b \in Blocks |-> IF b < wr[w].next THEN t ELSE NoText]
      /\ wr[w].pc = "sync" => data[i] = Whole(t)
      /\ wr[w].pc \in {"chmod", "rename"} => may[i] = {Whole(t)}
      /\ wr[w].pc = "syncdir" => path # NoInode /\ may[path] = {Whole(t)}

\* A save that went through has left nothing behind.
Quiet == saved => (\A w \in Writers : At(w, "idle")) /\ Disk = {mem}

\* What of that is true of every goroutine even if several write at once: it
\* is all that typing needs.
Ready(w) ==
  /\ wr[w].pc \notin {"idle", "remove"} => wr[w].text \in Texts
  /\ wr[w].pc \in {"idle", "open"} => wr[w].next = 1
  /\ wr[w].pc \in {"write", "sync", "chmod", "rename"} => wr[w].inode # NoInode
  /\ wr[w].pc = "write" => wr[w].next <= Length[wr[w].text]

TypeInv == TypeOK /\ \A w \in Writers : Ready(w)

Inv == TypeOK /\ OneWriter /\ PastWhole /\ (\A w \in Writers : Progress(w)) /\ Quiet

-----------------------------------------------------------------------------
(* Contents *)

\* A whole text tells which text it is.
LEMMA WholeInjective ==
  ASSUME NEW t \in Texts, NEW u \in Texts, Whole(t) = Whole(u)
  PROVE  t = u
<1>1. 1 \in Blocks /\ 1 <= Length[t] /\ 1 <= Length[u]
  BY LengthAssumption DEF Blocks
<1>2. Whole(t)[1] = t /\ Whole(u)[1] = u
  BY <1>1 DEF Whole
<1> QED
  BY <1>2

LEMMA LoadedWhole ==
  ASSUME NEW i, i # NoInode, NEW t \in Texts
  PROVE  Loaded(i, Whole(t)) = t
  BY WholeInjective DEF Loaded

LEMMA WholeType == \A t \in Texts : Whole(t) \in Contents
  BY DEF Whole, Contents

LEMMA LoadedType == \A i, c : Loaded(i, c) \in Values
  BY DEF Loaded, Values

\* What is in Disk, file by file.
LEMMA InDisk ==
  ASSUME NEW v
  PROVE  v \in Disk <=> \E i \in past : \E c \in Survives(i) : v = Loaded(i, c)
  BY DEF Disk

\* Disk depends on past and on the contents of the files in it.
LEMMA SameDisk ==
  ASSUME past' = past, \A i \in past \ {NoInode} : may'[i] = may[i]
  PROVE  Disk' = Disk
  BY DEF Disk, Survives

-----------------------------------------------------------------------------
(* The invariant *)

LEMMA InitInv == Init => Inv
<1> SUFFICES ASSUME Init PROVE Inv
  OBVIOUS
<1> USE DEF Init
<1>1. TypeOK
  BY LengthAssumption DEF TypeOK, Values, Contents, Empty, Writer, Idle
<1>2. OneWriter
  BY DEF OneWriter, At, Idle
<1>3. PastWhole
  BY DEF PastWhole
<1>4. \A w \in Writers : Progress(w)
  BY DEF Progress, Idle
<1>5. Quiet
  <2>1. Disk = {Default}
    BY InDisk DEF Loaded, Survives
  <2> QED
    BY <2>1 DEF Quiet, At, Idle
<1> QED
  BY <1>1, <1>2, <1>3, <1>4, <1>5 DEF Inv

\* Typing of each step.
LEMMA NextType == TypeInv /\ [Next]_vars => TypeOK'
<1> SUFFICES ASSUME TypeInv, [Next]_vars
             PROVE  TypeOK'
  OBVIOUS
<1> USE DEF TypeInv, TypeOK
<1>1. \A w \in Writers : wr[w] \in Writer /\ Idle \in Writer
  BY LengthAssumption DEF Idle, Writer, Values
<1>2. ASSUME NEW w \in Writers, NEW t \in Texts, Assign(w, t)
      PROVE  TypeOK'
  <2>1. wr' \in [Writers -> Writer]
    BY <1>1, <1>2 DEF Assign, Values, Writer
  <2> QED
    BY <1>2, <2>1 DEF Assign, Values
<1>3. ASSUME NEW w \in Writers, NEW i \in Inodes, Open(w, i)
      PROVE  TypeOK'
  <2>1. wr' \in [Writers -> Writer]
    BY <1>1, <1>3 DEF Open, Writer
  <2>2. Empty \in Contents
    BY DEF Empty, Contents
  <2> QED
    BY <1>3, <2>1, <2>2 DEF Open
<1>4. ASSUME NEW w \in Writers, Write(w)
      PROVE  TypeOK'
  <2>1. /\ wr[w].text \in Texts /\ wr[w].inode \in Inodes
        /\ wr[w].next \in Nat /\ wr[w].next <= Length[wr[w].text]
    <3>1. wr[w].pc = "write" /\ Ready(w) /\ wr[w] \in Writer
      BY <1>1, <1>4 DEF Write, At
    <3> QED
      BY <3>1, LengthAssumption DEF Ready, Writer
  <2>2. wr[w].next \in 1..Capacity /\ wr[w].next + 1 \in 1..(Capacity + 1)
    BY <1>1, <2>1, LengthAssumption DEF Writer
  <2>3. wr' \in [Writers -> Writer]
    <3>1. PICK label \in {"sync", "write"} :
            wr' = [wr EXCEPT ![w].next = wr[w].next + 1, ![w].pc = label]
      BY <1>4 DEF Write
    <3> QED
      BY <1>1, <2>2, <3>1 DEF Writer
  <2>4. [data[wr[w].inode] EXCEPT ![wr[w].next] = wr[w].text] \in Contents
    BY <2>1, <2>2 DEF Contents, Blocks
  <2> QED
    BY <1>4, <2>1, <2>3, <2>4 DEF Write
<1>5. ASSUME NEW w \in Writers,
             \/ Chmod(w) \/ Fail(w) \/ Sync(w) \/ Rename(w)
             \/ SyncDir(w) \/ SyncDirFail(w) \/ OpenFail(w) \/ RemoveTmp(w)
      PROVE  TypeOK'
  <2>1. wr' \in [Writers -> Writer]
    <3>1. Finish(w) \/ \E label \in {"chmod", "rename", "syncdir", "remove"} : Goto(w, label)
      BY <1>5 DEF Chmod, Fail, Sync, Rename, SyncDir, SyncDirFail, OpenFail, RemoveTmp
    <3> QED
      BY <1>1, <3>1 DEF Finish, Goto, Writer
  <2>2. may' \in [Inodes -> SUBSET Contents]
    <3>1. CASE Sync(w)
      <4>1. wr[w].inode \in Inodes => {data[wr[w].inode]} \in SUBSET Contents
        OBVIOUS
      <4> QED
        BY <3>1, <4>1 DEF Sync
    <3> QED
      BY <1>5, <3>1 DEF Chmod, Fail, Rename, SyncDir, SyncDirFail, OpenFail, RemoveTmp
  <2> QED
    BY <1>5, <2>1, <2>2
    DEF Chmod, Fail, Sync, Rename, SyncDir, SyncDirFail, OpenFail, RemoveTmp
<1>6. CASE Kill
  <2>1. wr' \in [Writers -> Writer]
    BY <1>1, <1>6 DEF Kill
  <2> QED
    BY <1>6, <2>1, LoadedType DEF Kill
<1>7. CASE PowerFailure
  <2>1. wr' \in [Writers -> Writer]
    BY <1>1, <1>7 DEF PowerFailure
  <2>2. PICK i \in past : \E c \in Survives(i) :
          /\ mem' = Loaded(i, c)
          /\ path' = i
          /\ past' = {i}
          /\ data' = [j \in Inodes |-> IF j = i THEN c ELSE Empty]
          /\ may' = [j \in Inodes |-> {IF j = i THEN c ELSE Empty}]
    BY <1>7 DEF PowerFailure
  <2>3. Empty \in Contents
    BY DEF Empty, Contents
  <2>4. i \in Inodes \cup {NoInode} /\ Survives(i) \subseteq Contents
    BY <2>3 DEF Survives
  <2>5. data' \in [Inodes -> Contents] /\ may' \in [Inodes -> SUBSET Contents]
    BY <2>2, <2>3, <2>4
  <2> QED
    BY <1>7, <2>1, <2>2, <2>4, <2>5, LoadedType DEF PowerFailure
<1>8. CASE UNCHANGED vars
  BY <1>8 DEF vars
<1> QED
  BY <1>2, <1>3, <1>4, <1>5, <1>6, <1>7, <1>8 DEF Next

\* A step of another goroutine, or one that leaves w idle.
LEMMA ReadyKept ==
  ASSUME NEW w \in Writers, Ready(w), wr'[w] = wr[w] \/ wr'[w] = Idle
  PROVE  Ready(w)'
  BY DEF Ready, Idle

LEMMA NextReady == TypeInv /\ [Next]_vars => \A w \in Writers : Ready(w)'
<1> SUFFICES ASSUME TypeInv, [Next]_vars, NEW w \in Writers
             PROVE  Ready(w)'
  OBVIOUS
<1> USE DEF TypeInv, TypeOK
<1>1. wr[w] \in Writer /\ Ready(w)
  OBVIOUS
<1>2. ASSUME NEW t \in Texts, Assign(w, t) PROVE Ready(w)'
  BY <1>1, <1>2 DEF Assign, At, Ready
<1>3. ASSUME NEW i \in Inodes, Open(w, i) PROVE Ready(w)'
  <2>1. wr'[w].pc = "write" /\ wr'[w].inode = i
        /\ wr'[w].text = wr[w].text /\ wr'[w].next = wr[w].next /\ wr[w].pc = "open"
    BY <1>1, <1>3 DEF Open, At, Writer
  <2>2. Length[wr[w].text] \in 1..Capacity
    BY <1>1, <2>1, LengthAssumption DEF Ready
  <2> QED
    BY <1>1, <2>1, <2>2, InodesAssumption DEF Ready
<1>4. CASE Write(w)
  <2>1. /\ wr'[w].next = wr[w].next + 1 /\ wr'[w].inode = wr[w].inode
        /\ wr'[w].text = wr[w].text /\ wr[w].pc = "write"
        /\ wr'[w].pc = IF wr[w].next = Length[wr[w].text] THEN "sync" ELSE "write"
    BY <1>1, <1>4 DEF Write, At, Writer
  <2>2. Length[wr[w].text] \in 1..Capacity
    BY <1>1, <2>1, LengthAssumption DEF Ready
  <2>3. wr[w].next \in Nat
    BY <1>1, LengthAssumption DEF Writer
  <2> QED
    BY <1>1, <2>1, <2>2, <2>3, LengthAssumption DEF Ready
<1>5. CASE Sync(w) \/ Chmod(w) \/ Rename(w) \/ Fail(w)
  <2>1. PICK label \in {"chmod", "rename", "syncdir", "remove"} : Goto(w, label)
    BY <1>5 DEF Sync, Chmod, Rename, Fail
  <2>2. /\ wr'[w].pc = label /\ wr'[w].text = wr[w].text
        /\ wr'[w].inode = wr[w].inode /\ wr[w].pc \notin {"idle", "open", "remove"}
        /\ label \in {"chmod", "rename"} => wr[w].pc \in {"sync", "chmod"}
    BY <1>1, <1>5, <2>1 DEF Sync, Chmod, Rename, Fail, Goto, At, Writer
  <2> QED
    BY <1>1, <2>2 DEF Ready
<1>6. CASE Kill \/ PowerFailure \/ UNCHANGED wr
  BY <1>1, <1>6, ReadyKept DEF Kill, PowerFailure
<1>7. CASE SyncDir(w) \/ SyncDirFail(w) \/ OpenFail(w) \/ RemoveTmp(w)
  BY <1>1, <1>7, ReadyKept DEF SyncDir, SyncDirFail, OpenFail, RemoveTmp, Finish
<1>8. ASSUME NEW v \in Writers, v # w,
             \/ (\E t \in Texts : Assign(v, t)) \/ (\E i \in Inodes : Open(v, i)) \/ Write(v)
             \/ Sync(v) \/ Chmod(v) \/ Rename(v) \/ SyncDir(v)
             \/ SyncDirFail(v) \/ OpenFail(v) \/ Fail(v) \/ RemoveTmp(v)
      PROVE  Ready(w)'
  <2>1. wr'[w] = wr[w]
    BY <1>8 DEF Assign, Open, Write, Sync, Chmod, Rename, SyncDir, SyncDirFail, OpenFail,
       Fail, RemoveTmp, Goto, Finish
  <2> QED
    BY <1>1, <2>1, ReadyKept
<1> QED
  BY <1>2, <1>3, <1>4, <1>5, <1>6, <1>7, <1>8 DEF Next, vars

-----------------------------------------------------------------------------
(* What each step does to the invariant and, seen from Durable, to Disk *)

Kept == OneWriter' /\ PastWhole' /\ (\A w \in Writers : Progress(w)') /\ Quiet'

Allowed == [D!DurableNext]_<<mem, Disk>>

\* While a goroutine saves, the others are idle and nothing is settled.
LEMMA Alone ==
  ASSUME Inv, NEW w \in Writers, ~At(w, "idle")
  PROVE  saved = FALSE /\ \A v \in Writers : v # w => At(v, "idle")
  BY DEF Inv, OneWriter, Quiet, TypeOK

\* A step of w that leaves w as the only goroutine at work, or none.
LEMMA StillOneWriter ==
  ASSUME NEW w \in Writers, wr \in [Writers -> Writer], wr' \in [Writers -> Writer],
         \A v \in Writers : v # w => wr[v].pc = "idle" /\ wr'[v] = wr[v]
  PROVE  OneWriter'
  BY DEF OneWriter, At

\* Progress of an idle goroutine.
LEMMA IdleProgress ==
  ASSUME NEW w \in Writers, wr[w].pc = "idle", Progress(w), wr'[w] = wr[w]
  PROVE  Progress(w)'
  BY DEF Progress

LEMMA AssignStep ==
  ASSUME Locked, Inv, TypeOK', NEW w \in Writers, NEW t \in Texts, Assign(w, t)
  PROVE  Kept /\ Allowed
<1> USE DEF Inv
<1>1. /\ \A v \in Writers : wr[v].pc = "idle"
      /\ mem' = t /\ saved' = FALSE
      /\ wr'[w].pc = "open" /\ wr'[w].text = t /\ wr'[w].next = wr[w].next
      /\ \A v \in Writers : v # w => wr'[v] = wr[v]
      /\ UNCHANGED <<path, tmp, data, may, past>>
  BY DEF Assign, At, TypeOK, Writer
<1>2. OneWriter'
  BY <1>1, StillOneWriter DEF TypeOK
<1>3. PastWhole'
  BY <1>1 DEF PastWhole
<1>4. Progress(w)'
  BY <1>1 DEF Progress
<1>5. \A v \in Writers : v # w => Progress(v)'
  BY <1>1, IdleProgress
<1>6. Quiet'
  BY <1>1 DEF Quiet
<1>7. Allowed
  BY <1>1, SameDisk DEF Allowed, D!DurableNext, D!Assign
<1> QED
  BY <1>2, <1>3, <1>4, <1>5, <1>6, <1>7 DEF Kept

LEMMA OpenStep ==
  ASSUME Locked, Inv, TypeOK', NEW w \in Writers, NEW i \in Inodes, Open(w, i)
  PROVE  Kept /\ Allowed
<1> USE DEF Inv
<1>1. /\ wr[w].pc = "open"
      /\ wr'[w].pc = "write" /\ wr'[w].inode = i
      /\ wr'[w].text = wr[w].text /\ wr'[w].next = wr[w].next
      /\ \A v \in Writers : v # w => wr'[v] = wr[v]
      /\ tmp' = i /\ UNCHANGED <<mem, path, past, saved>>
      /\ data'[i] = Empty /\ Empty \in may'[i]
      /\ \A j \in Inodes : j # i => data'[j] = data[j] /\ may'[j] = may[j]
  BY DEF Open, At, TypeOK, Writer
<1>2. saved = FALSE /\ \A v \in Writers : v # w => wr[v].pc = "idle"
  BY <1>1, Alone DEF At
<1>3. i \notin past /\ i # NoInode
  BY InodesAssumption DEF Open, Free, PastWhole
<1>4. OneWriter'
  BY <1>1, <1>2, StillOneWriter DEF TypeOK
<1>5. PastWhole'
  BY <1>1, <1>3 DEF PastWhole, TypeOK
<1>6. Progress(w)'
  <2>1. Progress(w)
    OBVIOUS
  <2>2. wr[w].text \in Texts /\ wr[w].text = mem /\ wr[w].next = 1
    BY <1>1, <2>1 DEF Progress
  <2>3. 1 <= Length[wr[w].text]
    BY <2>2, LengthAssumption
  <2>4. Empty = [b \in Blocks |-> IF b < 1 THEN wr[w].text ELSE NoText]
    BY DEF Empty, Blocks
  <2> QED
    BY <1>1, <1>3, <2>2, <2>3, <2>4 DEF Progress
<1>7. \A v \in Writers : v # w => Progress(v)'
  BY <1>1, <1>2, IdleProgress
<1>8. Quiet'
  BY <1>1, <1>2 DEF Quiet
<1>9. Allowed
  <2>1. \A j \in past \ {NoInode} : may'[j] = may[j]
    BY <1>1, <1>3 DEF TypeOK
  <2> QED
    BY <1>1, <2>1, SameDisk DEF Allowed
<1> QED
  BY <1>4, <1>5, <1>6, <1>7, <1>8, <1>9 DEF Kept

LEMMA WriteStep ==
  ASSUME Locked, Inv, TypeOK', NEW w \in Writers, Write(w)
  PROVE  Kept /\ Allowed
<1> USE DEF Inv
<1> DEFINE i == wr[w].inode
           t == wr[w].text
           next == wr[w].next
           new == [data[i] EXCEPT ![next] = t]
<1>1. /\ wr[w].pc = "write"
      /\ wr'[w].pc = IF next = Length[t] THEN "sync" ELSE "write"
      /\ wr'[w].inode = i /\ wr'[w].text = t /\ wr'[w].next = next + 1
      /\ \A v \in Writers : v # w => wr'[v] = wr[v]
      /\ data' = [data EXCEPT ![i] = new]
      /\ may' = [may EXCEPT ![i] = @ \cup {new}]
      /\ UNCHANGED <<mem, path, tmp, past, saved>>
  BY DEF Write, At, TypeOK, Writer
<1>2. saved = FALSE /\ \A v \in Writers : v # w => wr[v].pc = "idle"
  BY <1>1, Alone DEF At
<1>3. /\ i # NoInode /\ i = tmp /\ t \in Texts /\ t = mem
      /\ next <= Length[t]
      /\ data[i] = [b \in Blocks |-> IF b < next THEN t ELSE NoText]
  <2>1. Progress(w)
    OBVIOUS
  <2> QED
    BY <1>1, <2>1 DEF Progress
<1>4. i \in Inodes /\ i \notin past
  BY <1>3 DEF PastWhole, TypeOK
<1>5. Length[t] \in Nat /\ next \in Nat
  BY <1>3, LengthAssumption DEF TypeOK, Writer
<1>6. OneWriter'
  BY <1>1, <1>2, StillOneWriter DEF TypeOK
<1>7. PastWhole'
  BY <1>1, <1>4 DEF PastWhole, TypeOK
<1>8. Progress(w)'
  <2>1. new = [b \in Blocks |-> IF b < next + 1 THEN t ELSE NoText]
    <3>1. \A b \in Blocks : b \in Nat
      BY LengthAssumption DEF Blocks
    <3>2. new = [b \in Blocks |-> IF b = next THEN t ELSE data[i][b]]
      BY <1>3
    <3>3. \A b \in Blocks :
            (IF b = next THEN t ELSE data[i][b]) = (IF b < next + 1 THEN t ELSE NoText)
      BY <1>3, <1>5, <3>1
    <3> QED
      BY <3>2, <3>3
  <2>2. data'[i] = new
    BY <1>1, <1>4 DEF TypeOK
  <2>3. CASE next = Length[t]
    <3>1. new = Whole(t)
      <4>1. \A b \in Blocks : b < next + 1 <=> b <= Length[t]
        BY <1>5, <2>3, LengthAssumption DEF Blocks
      <4> QED
        BY <2>1, <4>1 DEF Whole
    <3> QED
      BY <1>1, <1>3, <2>2, <2>3, <3>1 DEF Progress
  <2>4. CASE next # Length[t]
    BY <1>1, <1>3, <1>5, <2>1, <2>2, <2>4 DEF Progress
  <2> QED
    BY <2>3, <2>4
<1>9. \A v \in Writers : v # w => Progress(v)'
  BY <1>1, <1>2, IdleProgress
<1>10. Quiet'
  BY <1>1, <1>2 DEF Quiet
<1>11. Allowed
  <2>1. \A j \in past \ {NoInode} : may'[j] = may[j]
    BY <1>1, <1>4 DEF TypeOK
  <2> QED
    BY <1>1, <2>1, SameDisk DEF Allowed
<1> QED
  BY <1>6, <1>7, <1>8, <1>9, <1>10, <1>11 DEF Kept

\* Sync and Chmod: the temporary file is whole and stays so.
LEMMA SyncStep ==
  ASSUME Locked, Inv, TypeOK', NEW w \in Writers, Sync(w) \/ Chmod(w)
  PROVE  Kept /\ Allowed
<1> USE DEF Inv
<1> DEFINE i == wr[w].inode
           t == wr[w].text
<1>1. /\ wr[w].pc \in {"sync", "chmod"}
      /\ wr'[w].pc = IF wr[w].pc = "sync" THEN "chmod" ELSE "rename"
      /\ wr'[w].inode = i /\ wr'[w].text = t
      /\ \A v \in Writers : v # w => wr'[v] = wr[v]
      /\ UNCHANGED <<mem, path, tmp, data, past, saved>>
  BY DEF Sync, Chmod, At, Goto, TypeOK, Writer
<1>2. saved = FALSE /\ \A v \in Writers : v # w => wr[v].pc = "idle"
  BY <1>1, Alone DEF At
<1>3. /\ i # NoInode /\ i = tmp /\ t \in Texts /\ t = mem
      /\ wr[w].pc = "sync" => data[i] = Whole(t)
      /\ wr[w].pc = "chmod" => may[i] = {Whole(t)}
  <2>1. Progress(w)
    OBVIOUS
  <2> QED
    BY <1>1, <2>1 DEF Progress
<1>4. i \in Inodes /\ i \notin past
  BY <1>3 DEF PastWhole, TypeOK
<1>5. /\ may'[i] = {Whole(t)}
      /\ \A j \in Inodes : j # i => may'[j] = may[j]
  BY <1>1, <1>3, <1>4 DEF Sync, Chmod, At, TypeOK
<1>6. OneWriter'
  BY <1>1, <1>2, StillOneWriter DEF TypeOK
<1>7. PastWhole'
  <2>1. data[i] \in may'[i]
    BY <1>1, <1>3, <1>4, <1>5 DEF PastWhole
  <2> QED
    BY <1>1, <1>4, <1>5, <2>1 DEF PastWhole, TypeOK
<1>8. Progress(w)'
  BY <1>1, <1>3, <1>5 DEF Progress
<1>9. \A v \in Writers : v # w => Progress(v)'
  BY <1>1, <1>2, IdleProgress
<1>10. Quiet'
  BY <1>1, <1>2 DEF Quiet
<1>11. Allowed
  <2>1. \A j \in past \ {NoInode} : may'[j] = may[j]
    BY <1>4, <1>5 DEF TypeOK
  <2> QED
    BY <1>1, <2>1, SameDisk DEF Allowed
<1> QED
  BY <1>6, <1>7, <1>8, <1>9, <1>10, <1>11 DEF Kept

LEMMA RenameStep ==
  ASSUME Locked, Inv, TypeOK', NEW w \in Writers, Rename(w)
  PROVE  Kept /\ Allowed
<1> USE DEF Inv
<1> DEFINE t == wr[w].text
<1>1. /\ wr[w].pc = "rename" /\ tmp # NoInode
      /\ wr'[w].pc = "syncdir" /\ wr'[w].text = t
      /\ \A v \in Writers : v # w => wr'[v] = wr[v]
      /\ path' = tmp /\ tmp' = NoInode /\ past' = past \cup {tmp}
      /\ UNCHANGED <<mem, data, may, saved>>
  BY DEF Rename, At, Goto, TypeOK, Writer
<1>2. saved = FALSE /\ \A v \in Writers : v # w => wr[v].pc = "idle"
  BY <1>1, Alone DEF At
<1>3. t \in Texts /\ t = mem /\ may[tmp] = {Whole(t)}
  <2>1. Progress(w)
    OBVIOUS
  <2> QED
    BY <1>1, <2>1 DEF Progress
<1>4. OneWriter'
  BY <1>1, <1>2, StillOneWriter DEF TypeOK
<1>5. PastWhole'
  BY <1>1, <1>3 DEF PastWhole
<1>6. Progress(w)'
  BY <1>1, <1>3 DEF Progress
<1>7. \A v \in Writers : v # w => Progress(v)'
  BY <1>1, <1>2, IdleProgress
<1>8. Quiet'
  BY <1>1, <1>2 DEF Quiet
<1>9. Allowed
  <2>1. UNION {{Loaded(i, c) : c \in Survives(i)} : i \in {tmp}} = {mem}
    BY <1>1, <1>3, LoadedWhole DEF Survives
  <2>2. Disk' = Disk \cup {mem}
    BY <1>1, <2>1 DEF Disk, Survives
  <2> QED
    BY <1>1, <2>2 DEF Allowed, D!DurableNext, D!Replace
<1> QED
  BY <1>4, <1>5, <1>6, <1>7, <1>8, <1>9 DEF Kept

LEMMA SyncDirStep ==
  ASSUME Locked, Inv, TypeOK', NEW w \in Writers, SyncDir(w)
  PROVE  Kept /\ Allowed
<1> USE DEF Inv
<1> DEFINE t == wr[w].text
<1>1. /\ wr[w].pc = "syncdir"
      /\ wr'[w] = Idle
      /\ \A v \in Writers : v # w => wr'[v] = wr[v]
      /\ past' = {path}
      /\ UNCHANGED <<mem, path, tmp, data, may>>
  BY DEF SyncDir, At, Finish, TypeOK
<1>2. \A v \in Writers : v # w => wr[v].pc = "idle"
  BY <1>1, Alone DEF At
<1>3. t \in Texts /\ t = mem /\ path # NoInode /\ may[path] = {Whole(t)}
  <2>1. Progress(w)
    OBVIOUS
  <2> QED
    BY <1>1, <2>1 DEF Progress
<1>4. OneWriter'
  BY <1>1, <1>2, StillOneWriter DEF TypeOK
<1>5. PastWhole'
  BY <1>1, <1>3 DEF PastWhole
<1>6. Progress(w)'
  BY <1>1 DEF Progress, Idle
<1>7. \A v \in Writers : v # w => Progress(v)'
  BY <1>1, <1>2, IdleProgress
<1>8. Disk' = {mem}
  BY <1>1, <1>3, LoadedWhole DEF Disk, Survives
<1>9. Quiet'
  BY <1>1, <1>2, <1>8 DEF Quiet, At, Idle
<1>10. Allowed
  BY <1>1, <1>8 DEF Allowed, D!DurableNext, D!Settle
<1> QED
  BY <1>4, <1>5, <1>6, <1>7, <1>9, <1>10 DEF Kept

\* The ways out of a save that failed.
LEMMA FailStep ==
  ASSUME Locked, Inv, TypeOK', NEW w \in Writers,
         SyncDirFail(w) \/ OpenFail(w) \/ Fail(w) \/ RemoveTmp(w)
  PROVE  Kept /\ Allowed
<1> USE DEF Inv
<1>1. /\ wr[w].pc # "idle"
      /\ wr'[w] = Idle \/ wr'[w].pc = "remove"
      /\ \A v \in Writers : v # w => wr'[v] = wr[v]
      /\ tmp' \in {tmp, NoInode}
      /\ UNCHANGED <<mem, path, data, may, past, saved>>
  BY DEF SyncDirFail, OpenFail, Fail, RemoveTmp, At, Finish, Goto, TypeOK, Writer
<1>2. saved = FALSE /\ \A v \in Writers : v # w => wr[v].pc = "idle"
  BY <1>1, Alone DEF At
<1>3. OneWriter'
  BY <1>1, <1>2, StillOneWriter DEF TypeOK
<1>4. PastWhole'
  BY <1>1 DEF PastWhole
<1>5. Progress(w)'
  BY <1>1 DEF Progress, Idle
<1>6. \A v \in Writers : v # w => Progress(v)'
  BY <1>1, <1>2, IdleProgress
<1>7. Quiet'
  BY <1>1, <1>2 DEF Quiet
<1>8. Allowed
  BY <1>1, SameDisk DEF Allowed
<1> QED
  BY <1>3, <1>4, <1>5, <1>6, <1>7, <1>8 DEF Kept

LEMMA KillStep ==
  ASSUME Inv, TypeOK', Kill
  PROVE  Kept /\ Allowed
<1> USE DEF Inv
<1>1. /\ \A v \in Writers : wr'[v] = Idle
      /\ mem' = Loaded(path, Content(path)) /\ saved' = FALSE
      /\ UNCHANGED <<path, tmp, data, may, past>>
  BY DEF Kill
<1>2. OneWriter' /\ (\A v \in Writers : Progress(v)') /\ Quiet'
  BY <1>1 DEF OneWriter, Progress, Quiet, At, Idle
<1>3. PastWhole'
  BY <1>1 DEF PastWhole
<1>4. Allowed
  <2>1. Disk' = Disk
    BY <1>1, SameDisk
  <2>2. path \in past /\ Content(path) \in Survives(path)
    BY DEF PastWhole, Content, Survives, TypeOK
  <2>3. mem' \in Disk
    BY <1>1, <2>2, InDisk
  <2> QED
    BY <2>1, <2>3 DEF Allowed, D!DurableNext, D!Recover
<1> QED
  BY <1>2, <1>3, <1>4 DEF Kept

LEMMA PowerStep ==
  ASSUME Inv, TypeOK', PowerFailure
  PROVE  Kept /\ Allowed
<1> USE DEF Inv
<1>1. PICK i \in past : \E c \in Survives(i) :
        /\ mem' = Loaded(i, c)
        /\ path' = i
        /\ past' = {i}
        /\ data' = [j \in Inodes |-> IF j = i THEN c ELSE Empty]
        /\ may' = [j \in Inodes |-> {IF j = i THEN c ELSE Empty}]
  BY DEF PowerFailure
<1>2. PICK c \in Survives(i) :
        /\ mem' = Loaded(i, c)
        /\ data' = [j \in Inodes |-> IF j = i THEN c ELSE Empty]
        /\ may' = [j \in Inodes |-> {IF j = i THEN c ELSE Empty}]
  BY <1>1
<1>3. tmp' = NoInode /\ saved' = TRUE /\ \A v \in Writers : wr'[v] = Idle
  BY DEF PowerFailure
<1>4. OneWriter' /\ \A v \in Writers : Progress(v)'
  BY <1>3 DEF OneWriter, Progress, At, Idle
<1>5. PastWhole'
  <2>1. i # NoInode => \E t \in Texts : c = Whole(t)
    BY DEF PastWhole, Survives
  <2>2. i # NoInode => i \in Inodes /\ may'[i] = {c}
    BY <1>2 DEF TypeOK
  <2> QED
    BY <1>1, <1>2, <1>3, <2>1, <2>2 DEF PastWhole
<1>6. Disk' = {mem'}
  <2>1. Survives(i)' = {c}
    <3>1. CASE i = NoInode
      BY <3>1 DEF Survives
    <3>2. CASE i # NoInode
      BY <1>2, <3>2 DEF Survives, TypeOK
    <3> QED
      BY <3>1, <3>2
  <2> QED
    BY <1>1, <1>2, <2>1 DEF Disk
<1>7. Quiet'
  BY <1>3, <1>6 DEF Quiet, At, Idle
<1>8. Allowed
  <2>1. mem' \in Disk
    BY <1>1, <1>2, InDisk
  <2> QED
    BY <1>6, <2>1 DEF Allowed, D!DurableNext, D!Recover
<1> QED
  BY <1>4, <1>5, <1>7, <1>8 DEF Kept

LEMMA NextInv ==
  Locked /\ Inv /\ [Next]_vars => Inv' /\ Allowed
<1> SUFFICES ASSUME Locked, Inv, [Next]_vars PROVE Inv' /\ Allowed
  OBVIOUS
<1>1. TypeOK'
  <2>1. TypeInv
    <3> SUFFICES ASSUME NEW w \in Writers PROVE Ready(w)
      BY DEF Inv, TypeInv
    <3>1. Progress(w)
      BY DEF Inv
    <3> QED
      BY <3>1 DEF Progress, Ready
  <2> QED
    BY <2>1, NextType
<1>2. Next => Kept /\ Allowed
  BY <1>1, AssignStep, OpenStep, WriteStep, SyncStep, RenameStep, SyncDirStep, FailStep,
     KillStep, PowerStep DEF Next
<1>3. CASE UNCHANGED vars
  <2>1. OneWriter' /\ PastWhole' /\ Quiet' /\ \A w \in Writers : Progress(w)'
    BY <1>3 DEF vars, Inv, OneWriter, PastWhole, Progress, Quiet, At, Disk, Survives
  <2>2. Allowed
    BY <1>3, SameDisk DEF vars, Allowed
  <2> QED
    BY <1>1, <2>1, <2>2 DEF Inv
<1> QED
  BY <1>1, <1>2, <1>3 DEF Inv, Kept

-----------------------------------------------------------------------------
(* Theorems *)

\* Whether or not s.mu is held during the write, and whatever fails, nothing
\* is ever written past the end of a text and every writer keeps to the steps
\* of writeSecret.
THEOREM TypeCorrect == Spec => []TypeOK
<1>1. Init => TypeInv
  <2>1. Init => TypeOK
    BY InitInv DEF Inv
  <2> QED
    BY <2>1 DEF Init, TypeInv, Ready, Idle
<1>2. TypeInv /\ [Next]_vars => TypeInv'
  BY NextType, NextReady DEF TypeInv
<1>3. TypeInv => TypeOK
  BY DEF TypeInv
<1> QED
  BY <1>1, <1>2, <1>3, PTL DEF Spec

\* With s.mu held during the write the invariant always holds.
THEOREM Invariant ==
  ASSUME Locked
  PROVE  Spec => []Inv
<1>1. Inv /\ [Next]_vars => Inv'
  BY NextInv
<1> QED
  BY InitInv, <1>1, PTL DEF Spec

\* writeSecret replaces a file atomically: at no moment, whatever fails or
\* crashes, does the name lead to anything but a whole text.
THEOREM Atomic ==
  ASSUME Locked
  PROVE  Spec => []AtomicWrite
<1>1. Inv => AtomicWrite
  BY DEF Inv, PastWhole, TypeOK, AtomicWrite
<1> QED
  BY <1>1, Invariant, PTL

\* A save that went through cannot be undone by any restart.
THEOREM SavedForGood ==
  ASSUME Locked
  PROVE  Spec => []Settled
<1>1. Inv => Settled
  BY DEF Inv, Quiet, Settled
<1> QED
  BY <1>1, Invariant, PTL

\* Every step of writeSecret, and every restart, is one Durable allows.
THEOREM ImplementsDurable ==
  ASSUME Locked
  PROVE  Spec => DurableSpec
<1>1. Init => D!DurableInit
  <2> SUFFICES ASSUME Init PROVE D!DurableInit
    OBVIOUS
  <2>1. Disk = {Default}
    BY InDisk DEF Init, Loaded, Survives
  <2> QED
    BY <2>1 DEF Init, D!DurableInit
<1>2. Inv /\ [Next]_vars => [D!DurableNext]_<<mem, Disk>>
  BY NextInv DEF Allowed
<1> QED
  BY <1>1, <1>2, Invariant, PTL DEF Spec, DurableSpec, D!DurableSpec
=============================================================================
