----------------------------- MODULE MCRunDriver -----------------------------
(* Small instances of RunDriver for TLC.                                   *)
EXTENDS RunDriverProperties, TLC

CONSTANTS r1, r2, r3, s1, s2

RunSymmetry == Permutations(Run) \cup Permutations(Slot)
=============================================================================
