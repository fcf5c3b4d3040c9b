------------------------------- MODULE MCProc -------------------------------
(***************************************************************************)
(* Small instances of Proc.  Two processes and two goroutines are enough   *)
(* for a stop of the old process, a start of the new one and a second stop *)
(* to overlap.                                                               *)
(***************************************************************************)
EXTENDS Proc

CONSTANTS g1, g2, p1, p2

MCCallers == {g1, g2}
MCPids == {p1, p2}
=============================================================================
