----------------------------- MODULE BoundedSlots -----------------------------
(***************************************************************************)
(* What admission control promises: at most Limit runs are inside at any   *)
(* time, one enters only while there is room, and a run that left does not *)
(* come back.  A process that dies gives up all its slots at once.         *)
(* RunDriver implements this module; see Slots there.                      *)
(***************************************************************************)
EXTENDS Naturals, FiniteSets

CONSTANTS Holder,   \* who may hold a slot
          Limit     \* max_active_runs

VARIABLES inside,   \* who holds a slot
          left      \* who has held one and given it up

slotVars == <<inside, left>>

Enter(h) ==
    /\ h \notin inside \cup left
    /\ Cardinality(inside) < Limit
    /\ inside' = inside \cup {h}
    /\ left' = left

Exit(h) ==
    /\ h \in inside
    /\ inside' = inside \ {h}
    /\ left' = left \cup {h}

Die ==
    /\ inside' = {}
    /\ left' = left \cup inside

Init == inside = {} /\ left = {}

Next == Die \/ \E h \in Holder : Enter(h) \/ Exit(h)

Spec == Init /\ [][Next]_slotVars
=============================================================================
