--------------------------- MODULE MCPeerRecovery ---------------------------
(* One peer; automatic recovery, or recovery on request only. *)
EXTENDS PeerRecovery

Automatic == [disabled |-> FALSE, max_attempts |-> 2, max_delay |-> 2,
              retry_budget |-> 2, flow_grace |-> 1, stable_reset |-> 2]
OnRequest == [Automatic EXCEPT !.disabled = TRUE, !.max_delay = 1]
TwoPolicies == {Automatic, OnRequest}
=============================================================================
