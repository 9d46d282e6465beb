------------------------------ MODULE MCForkJoin ------------------------------
(* A small instance of ForkJoin for TLC: every dependency graph.           *)
EXTENDS ForkJoinProperties
=============================================================================
