------------------------------- MODULE Slices -------------------------------
(***************************************************************************)
(* What the loops of the daemon make of a slice.                           *)
(***************************************************************************)
EXTENDS Integers, Sequences

\* What a loop makes that appends the entries at the places I, and no others.
Picked(list, I) ==
  LET upTo[n \in 0..Len(list)] ==
        IF n = 0 THEN <<>>
        ELSE IF n \in I THEN Append(upTo[n - 1], list[n]) ELSE upTo[n - 1]
  IN  upTo[Len(list)]
=============================================================================
