---------------------------- MODULE MCHumanReview ----------------------------
(* Small instances of HumanReview for TLC.                                 *)
EXTENDS HumanReviewProperties

CONSTANTS o1, q1, q2, implement, publish

\* The review allows one of the two scopes.
FirstScope == [o \in Opener |-> {implement}]
=============================================================================
