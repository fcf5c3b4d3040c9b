------------------------------- MODULE Durable -------------------------------
(***************************************************************************)
(* What the store (src/daemon/store.go) promises about a value it keeps in *)
(* a file: a restart brings back a value that was set, and once a save is  *)
(* over only the last one.  SecretFile implements it.                      *)
(***************************************************************************)
CONSTANTS
  Texts,    \* values the daemon saves
  Default   \* what it starts with when there is no file

VARIABLES
  mem,   \* the value in memory
  disk   \* the values a restart may bring back

DurableInit == mem = Default /\ disk = {Default}

\* The value changes in memory.
Assign == mem' \in Texts /\ UNCHANGED disk

\* The new value may be found after a restart, or the one before.
Replace == disk' = disk \cup {mem} /\ UNCHANGED mem

\* Only the new value is found.
Settle == disk' = {mem} /\ UNCHANGED mem

\* The daemon or the whole device goes down and starts again.
Recover == mem' \in disk /\ disk' \in {disk, {mem'}}

DurableNext == Assign \/ Replace \/ Settle \/ Recover

DurableSpec == DurableInit /\ [][DurableNext]_<<mem, disk>>
=============================================================================
