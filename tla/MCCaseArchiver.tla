--------------------------- MODULE MCCaseArchiver ---------------------------
(* Small instances of CaseArchiver for TLC.                                *)
EXTENDS CaseArchiverProperties, TLC

CONSTANTS c1, c2, c3, a1, a2

\* One case of an earlier day than the others, and the archiver a day later.
TwoDays == [c \in Case |-> IF c = c1 THEN 1 ELSE 2]
OneDay  == [c \in Case |-> 1]

ArchiverSymmetry == Permutations(Archiver)
=============================================================================
