---------------------------- MODULE BoundedBuffer ----------------------------
(***************************************************************************)
(* What both programs of PA3 promise: `items` items go through a buffer of *)
(* `bufferLen` slots, one at a time, none lost and none made up, and the   *)
(* program ends when the last one has been removed.                        *)
(***************************************************************************)
EXTENDS Naturals

CONSTANTS
  Capacity,   \* bufferLen
  Total       \* items

VARIABLES
  toMake,     \* items not produced yet
  stored,     \* items in the buffer
  taken,      \* items removed
  over        \* the program has decided to end

vars == <<toMake, stored, taken, over>>

Init == toMake = Total /\ stored = 0 /\ taken = 0 /\ over = FALSE

Insert ==
  /\ toMake > 0 /\ stored < Capacity
  /\ toMake' = toMake - 1
  /\ stored' = stored + 1
  /\ UNCHANGED <<taken, over>>

Remove ==
  /\ stored > 0
  /\ stored' = stored - 1
  /\ taken' = taken + 1
  /\ UNCHANGED <<toMake, over>>

End ==
  /\ toMake = 0 /\ stored = 0
  /\ over' = TRUE
  /\ UNCHANGED <<toMake, stored, taken>>

Next == Insert \/ Remove \/ End

Spec == Init /\ [][Next]_vars
=============================================================================
