---------------------------- MODULE MCHubGateway ----------------------------
(* Constant values for the runs over HubGateway.tla. *)
EXTENDS HubGateway

CONSTANTS k1, k2

HubFaults == [drops |-> 1, late |-> 0, crashes |-> 1, errors |-> 1]
CallsOnly == [calls |-> {k1, k2}, vpn |-> 1, timer |-> FALSE, token |-> FALSE]
SessionsOnly == [calls |-> {}, vpn |-> 0, timer |-> TRUE, token |-> TRUE]
HubScenarios == {CallsOnly, SessionsOnly}
=============================================================================
