-------------------------------- MODULE Proc --------------------------------
(***************************************************************************)
(* The child-process supervisor of the daemon (src/daemon/proc.go), one    *)
(* *proc shared by every goroutine that calls start and stop on it.        *)
(*                                                                         *)
(* A critical section of p.mu is one step, and so is every blocking point  *)
(* of stop.  A process may die at any time; SIGINT may be ignored, SIGKILL *)
(* may not.  The output of a process is counted, not stored: the two pumps *)
(* (stdout, stderr) are one here and the tail ring is left out.            *)
(***************************************************************************)
EXTENDS Integers

CONSTANTS
  Callers,   \* goroutines that call start and stop
  Pids,      \* processes that can ever be spawned (bound)
  NoPid,     \* nil
  MaxLines   \* lines one process may write (bound)

ASSUME NoPidAssumption == NoPid \notin Pids
ASSUME MaxLinesAssumption == MaxLines \in Nat

VARIABLES
  cmd,     \* p.cmd; its done channel is open iff the process is not reaped
  ps,      \* life of each process; "reaped" = cmd.Wait returned, done closed
  sig,     \* strongest signal delivered to the process while it ran
  pc,      \* where each caller is inside stop
  victim,  \* the cmd and done that stop read under the lock
  wrote,   \* lines the process has written to its pipe
  got,     \* lines the pump's scanner has read from the pipe
  out      \* lines handed to addLine, logf and onLine

lineVars == <<wrote, got, out>>
procVars == <<cmd, ps, sig, pc, victim, wrote, got, out>>

ProcTypeOK ==
  /\ cmd \in Pids \cup {NoPid}
  /\ ps \in [Pids -> {"unborn", "running", "exited", "reaped"}]
  /\ sig \in [Pids -> {"none", "int", "kill"}]
  /\ pc \in [Callers -> {"idle", "taken", "interrupted", "killed"}]
  /\ victim \in [Callers -> Pids \cup {NoPid}]
  /\ wrote \in [Pids -> 0..MaxLines]
  /\ got \in [Pids -> 0..MaxLines]
  /\ out \in [Pids -> 0..MaxLines]

ProcInit ==
  /\ cmd = NoPid
  /\ ps = [p \in Pids |-> "unborn"]
  /\ sig = [p \in Pids |-> "none"]
  /\ pc = [c \in Callers |-> "idle"]
  /\ victim = [c \in Callers |-> NoPid]
  /\ wrote = [p \in Pids |-> 0]
  /\ got = [p \in Pids |-> 0]
  /\ out = [p \in Pids |-> 0]

Transition(c, from, to) ==
  /\ pc[c] = from
  /\ pc' = [pc EXCEPT ![c] = to]

-----------------------------------------------------------------------------
(* start *)

\* cmd != nil and done is not closed.
Running == cmd # NoPid /\ ps[cmd] # "reaped"

\* Bug: start does not look at the process it replaces.
BugStart(c, p) ==
  /\ pc[c] = "idle"
  /\ ps[p] = "unborn"
  /\ cmd' = p
  /\ ps' = [ps EXCEPT ![p] = "running"]
  /\ UNCHANGED <<sig, pc, victim, lineVars>>

\* The critical section of start, when it neither refuses nor fails to spawn;
\* those two outcomes change nothing.
Start(c, p) ==
  /\ pc[c] = "idle"
  /\ ~Running
  /\ ps[p] = "unborn"
  /\ cmd' = p
  /\ ps' = [ps EXCEPT ![p] = "running"]
  /\ UNCHANGED <<sig, pc, victim, lineVars>>

-----------------------------------------------------------------------------
(* The process, its pump and its waiter *)

Write(p) ==
  /\ ps[p] = "running"
  /\ wrote[p] < MaxLines
  /\ wrote' = [wrote EXCEPT ![p] = @ + 1]
  /\ UNCHANGED <<cmd, ps, sig, pc, victim, got, out>>

Die(p) ==
  /\ ps[p] = "running"
  /\ ps' = [ps EXCEPT ![p] = "exited"]
  /\ UNCHANGED <<cmd, sig, pc, victim, lineVars>>

\* The scanner fills its buffer; cmd.Wait closes the read end of the pipe, so
\* nothing is read after the process has been reaped.
PumpRead(p) ==
  /\ ps[p] \in {"running", "exited"}
  /\ got[p] < wrote[p]
  /\ got' = [got EXCEPT ![p] = wrote[p]]
  /\ UNCHANGED <<cmd, ps, sig, pc, victim, wrote, out>>

\* Bug: a line is handed over twice.
BugPumpLine(p) ==
  /\ got[p] > 0
  /\ out' = [out EXCEPT ![p] = @ + 1]
  /\ UNCHANGED <<cmd, ps, sig, pc, victim, wrote, got>>

\* The pump hands over the next line of its buffer, even after the process
\* has been reaped and another one started.
PumpLine(p) ==
  /\ out[p] < got[p]
  /\ out' = [out EXCEPT ![p] = @ + 1]
  /\ UNCHANGED <<cmd, ps, sig, pc, victim, wrote, got>>

\* Bug: the waiter empties the slot, whatever it holds by now.
BugReap(p) ==
  /\ ps[p] = "exited"
  /\ ps' = [ps EXCEPT ![p] = "reaped"]
  /\ cmd' = NoPid
  /\ UNCHANGED <<sig, pc, victim, lineVars>>

\* cmd.Wait returns and the waiter closes done.
Reap(p) ==
  /\ ps[p] = "exited"
  /\ ps' = [ps EXCEPT ![p] = "reaped"]
  /\ UNCHANGED <<cmd, sig, pc, victim, lineVars>>

-----------------------------------------------------------------------------
(* stop *)

\* Bug: stop leaves the process in the slot.
BugTake(c) ==
  /\ Transition(c, "idle", "taken")
  /\ victim' = [victim EXCEPT ![c] = cmd]
  /\ UNCHANGED <<cmd, ps, sig, lineVars>>

\* The critical section of stop.
Take(c) ==
  /\ Transition(c, "idle", "taken")
  /\ victim' = [victim EXCEPT ![c] = cmd]
  /\ cmd' = NoPid
  /\ UNCHANGED <<ps, sig, lineVars>>

\* There was nothing to stop: return at once, whatever another caller's stop
\* is still waiting for.
NothingToStop(c) ==
  /\ victim[c] = NoPid
  /\ Transition(c, "taken", "idle")
  /\ UNCHANGED <<cmd, ps, sig, victim, lineVars>>

\* A signal reaches a process only while it runs.
Signalled(p, s) == IF ps[p] = "running" THEN [sig EXCEPT ![p] = s] ELSE sig

Interrupt(c) ==
  /\ victim[c] # NoPid
  /\ Transition(c, "taken", "interrupted")
  /\ sig' = Signalled(victim[c], "int")
  /\ UNCHANGED <<cmd, ps, victim, lineVars>>

\* done is closed while stop waits for it, before or after the SIGKILL.
SeeDone(c) ==
  /\ pc[c] \in {"interrupted", "killed"}
  /\ ps[victim[c]] = "reaped"
  /\ Transition(c, pc[c], "idle")
  /\ victim' = [victim EXCEPT ![c] = NoPid]
  /\ UNCHANGED <<cmd, ps, sig, lineVars>>

\* Bug: SIGINT once more instead of SIGKILL.
BugKill(c) ==
  /\ Transition(c, "interrupted", "killed")
  /\ sig' = Signalled(victim[c], "int")
  /\ UNCHANGED <<cmd, ps, victim, lineVars>>

\* Bug: the first wait has no timer.
BugNoTimer(c) ==
  /\ Transition(c, "interrupted", "killed")
  /\ ps[victim[c]] = "reaped"
  /\ UNCHANGED <<cmd, ps, sig, victim, lineVars>>

\* The first timer (5 s) fires.
Kill(c) ==
  /\ Transition(c, "interrupted", "killed")
  /\ sig' = Signalled(victim[c], "kill")
  /\ UNCHANGED <<cmd, ps, victim, lineVars>>

\* The second timer (3 s) fires: stop returns with the process unreaped.
GiveUp(c) ==
  /\ Transition(c, "killed", "idle")
  /\ victim' = [victim EXCEPT ![c] = NoPid]
  /\ UNCHANGED <<cmd, ps, sig, lineVars>>

Stop(c) ==
  \/ NothingToStop(c) \/ Interrupt(c) \/ SeeDone(c) \/ Kill(c) \/ GiveUp(c)

-----------------------------------------------------------------------------
ProcNext ==
  \/ \E c \in Callers, p \in Pids : Start(c, p)
  \/ \E c \in Callers : Take(c) \/ Stop(c)
  \/ \E p \in Pids : Write(p) \/ Die(p) \/ PumpRead(p) \/ PumpLine(p) \/ Reap(p)

ProcSpec == ProcInit /\ [][ProcNext]_procVars

\* Timers fire and goroutines run; the kernel delivers SIGKILL; the waiter
\* sees the exit.  Nothing makes a process exit on SIGINT.
ProcFairness ==
  /\ \A c \in Callers : WF_procVars(Stop(c))
  /\ \A p \in Pids : WF_procVars(sig[p] = "kill" /\ Die(p)) /\ WF_procVars(Reap(p))

ProcFairSpec == ProcSpec /\ ProcFairness

-----------------------------------------------------------------------------
(* Properties *)

\* No process is forgotten: one that still runs is the one in the slot, or
\* some stop call is still busy with it, or it has been sent SIGKILL.  The
\* slot is emptied before the process is signalled, so a stop or start of
\* another goroutine in between must not lose it.
Accounted ==
  \A p \in Pids : ps[p] = "running" =>
    \/ cmd = p
    \/ \E c \in Callers : victim[c] = p /\ pc[c] \in {"taken", "interrupted"}
    \/ sig[p] = "kill"

\* A process has one stopper at most, and is out of the slot by then: two
\* concurrent stop calls never signal the same process, so the 5 s and 3 s
\* of grace are never shared or cut short by the other call.
SoleStopper ==
  \A c \in Callers : victim[c] # NoPid =>
    /\ victim[c] # cmd
    /\ \A d \in Callers : victim[d] = victim[c] => d = c

\* A stop call returns, though the process may ignore SIGINT and be slow to
\* go after SIGKILL.
StopReturns == \A c \in Callers : pc[c] # "idle" ~> pc[c] = "idle"

\* What a stop call took out of the slot is eventually gone, though stop
\* itself may have given up on it and other goroutines may have started and
\* stopped other processes meanwhile.
VictimDies ==
  \A p \in Pids : (\E c \in Callers : victim[c] = p) ~> ps[p] = "reaped"

\* The slot the engine is written against.
Slot == INSTANCE ProcSlot WITH
          NoProc <- NoPid, live <- {p \in Pids : ps[p] \in {"running", "exited"}}
SlotSpec == Slot!SlotSpec
=============================================================================
