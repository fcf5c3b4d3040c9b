------------------------------ MODULE ProcSlot ------------------------------
(***************************************************************************)
(* What the supervisor in proc.go promises to the engine: a slot that      *)
(* names at most one child process.  The slot forgets a process as soon as *)
(* somebody asks for it to be stopped, which may be well before the        *)
(* process is gone, so a new process can be started while an older one is  *)
(* still alive.  `live` is the set of processes whose done channel is      *)
(* still open.  Proc implements this module; Engine is written against it. *)
(***************************************************************************)
CONSTANTS
  Pids,   \* identifiers of processes
  NoProc  \* the nil *exec.Cmd

VARIABLES
  cmd,    \* the process named by the slot, or NoProc
  live    \* the processes started and not yet reaped

slotVars == <<cmd, live>>

SlotInit ==
  /\ cmd = NoProc
  /\ live = {}

\* The slot is free for a new process: it is empty, or its process is gone.
Free == cmd \notin live

\* proc.Running().
Running == cmd \in live

SlotStart(p) ==
  /\ Free
  /\ p \notin live
  /\ cmd' = p
  /\ live' = live \cup {p}

\* stop() takes the process out of the slot; the killing comes later.
SlotTake ==
  /\ cmd' = NoProc
  /\ UNCHANGED live

SlotExit(p) ==
  /\ p \in live
  /\ live' = live \ {p}
  /\ UNCHANGED cmd

SlotNext ==
  \/ \E p \in Pids : SlotStart(p) \/ SlotExit(p)
  \/ SlotTake

SlotSpec == SlotInit /\ [][SlotNext]_slotVars
=============================================================================
