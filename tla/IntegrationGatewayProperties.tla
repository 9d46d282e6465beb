---------------------- MODULE IntegrationGatewayProperties ----------------------
(***************************************************************************)
(* What the circuit breaker guarantees concurrent callers.                 *)
(***************************************************************************)
EXTENDS IntegrationGateway

\* The type of every variable.
TypeOK ==
    /\ state \in {"CLOSED", "OPEN", "HALF_OPEN"}
    /\ failures \in Nat
    /\ cooled \in BOOLEAN
    /\ probe \in BOOLEAN
    /\ pc \in [Caller -> {"idle", "policy", "operate"}]
    /\ admitted \in [Caller -> {"CLOSED", "HALF_OPEN"}]
    /\ probes \in Nat
    /\ raised \in Nat

\* The circuit is closed exactly while fewer failures than the threshold have
\* been recorded since the last success, in whatever order the outcomes of
\* concurrent calls arrive, late ones of a circuit that has opened included.
CircuitMatchesFailures == state = "CLOSED" <=> failures < Threshold

\* Of all the callers that race for a circuit that has cooled down, at most one
\* is let through to probe it, until its circuit closes or opens again.
OneProbePerRecovery == state = "HALF_OPEN" => probes <= 1

\* No call is let through between the last recorded failure that opened the
\* circuit and the end of its cooldown, nor past a probe that is under way.
OpenCircuitHolds == [][
    \A c \in Caller : pc[c] = "idle" /\ pc'[c] # "idle" =>
        \/ failures < Threshold
        \/ cooled /\ ~probe
    ]_vars

\* A probe that reaches the operation decides: the circuit does not stay half
\* open, whoever else calls or answers in the meantime.
ProbeDecides == \A c \in Caller :
    pc[c] = "operate" /\ admitted[c] = "HALF_OPEN" ~> state # "HALF_OPEN"
=============================================================================
