---------------------------- MODULE MCDurableQueue ----------------------------
(* Small instances of DurableQueue for TLC.                                *)
EXTENDS DurableQueueProperties, TLC

CONSTANTS r1, r2, w1, w2

OneTask        == {1}
TwoTasks       == {1, 2}
OneRunOf       == [t \in Task |-> r1]
OwnRunOf       == [t \in Task |-> IF t = 1 THEN r1 ELSE r2]
TwoAttempts    == [t \in Task |-> 2]
OneAttempt     == [t \in Task |-> 1]

\* Every worker has an id of its own.
OwnIds         == [w \in Worker |-> w]

PauseCancel    == {"PAUSED", "RUNNABLE", "CANCEL_REQUESTED"}
StopOrEnd      == PauseCancel \cup {"COMPLETED"}

\* Workers with ids of their own are interchangeable.
WorkerSymmetry == Permutations(Worker)
=============================================================================
