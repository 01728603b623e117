----------------------------- MODULE RemoteCall -----------------------------
(***************************************************************************)
(* What a caller of hub_client.call may rely on.  A response that is ok    *)
(* tells that the agent ran the call, and no call is run twice.  Neither a *)
(* response that is not ok nor a HubClientError tells whether the agent    *)
(* ran it or will run it: the gateway itself answers {"ok": False} when    *)
(* the agent is not connected or does not respond, which the docstring of  *)
(* hub_client.call keeps for commands that were run and failed.            *)
(***************************************************************************)
EXTENDS Naturals

CONSTANT Calls

VARIABLES ran,     \* how often the agent ran each call
          outcome  \* what its caller was told: "none", "ok", "notok", "error"

Init == ran = [k \in Calls |-> 0] /\ outcome = [k \in Calls |-> "none"]

Run(k) ==
    /\ ran[k] = 0
    /\ ran' = [ran EXCEPT ![k] = 1]
    /\ UNCHANGED outcome

Tell(k, what) ==
    /\ outcome[k] = "none"
    /\ outcome' = [outcome EXCEPT ![k] = what]
    /\ UNCHANGED ran

Succeed(k) == ran[k] = 1 /\ Tell(k, "ok")

Refuse(k) == Tell(k, "notok")

\* A gateway that dies fails every call it was holding.
Fail(S) ==
    /\ \A k \in S : outcome[k] = "none"
    /\ outcome' = [k \in Calls |-> IF k \in S THEN "error" ELSE outcome[k]]
    /\ UNCHANGED ran

Next ==
    \/ \E k \in Calls : Run(k) \/ Succeed(k) \/ Refuse(k)
    \/ \E S \in SUBSET Calls : Fail(S)

Spec == Init /\ [][Next]_<<ran, outcome>>
=============================================================================
