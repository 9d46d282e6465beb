----------------------------- MODULE MCGateWorkflow -----------------------------
(* Small instances of GateWorkflow for TLC. *)
EXTENDS GateWorkflowProperties

CONSTANT none

\* One claim of HIGH confidence that an identified repository supports and one
\* that nothing supports; plans that are ready and partly or wholly elsewhere and one that is not ready,
\* a review that passes every gate and one that fails; every verdict that the healing loop tells apart.
SomeAnswers ==
    [duplicate   |-> {"NO_DUPLICATE_FOUND", "INSUFFICIENT_EVIDENCE"},
     evidence    |-> {"PRODUCED"},
     repository  |-> {"IDENTIFIED", "UNIDENTIFIED"},
     root_cause  |-> {[confidence |-> "HIGH", class |-> "CONFIRMED", determined |-> TRUE,
                       facts |-> TRUE, unknowns |-> FALSE]},
     remediation |-> {[ready |-> TRUE, declares |-> {"DISCOVERED", "OTHER"}],
                      [ready |-> TRUE, declares |-> {"OTHER"}],
                      [ready |-> FALSE, declares |-> {"DISCOVERED"}]},
     review      |-> {[approved |-> TRUE, checked |-> TRUE, high |-> FALSE],
                      [approved |-> FALSE, checked |-> FALSE, high |-> TRUE]},
     validation  |-> {"PASSED"},
     test_result |-> {"PASSED", "FAILED"}]
=============================================================================
