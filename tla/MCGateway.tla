------------------------------ MODULE MCGateway ------------------------------
(* The gateway process and the ACP checkout routes for TLC.  They share no *)
(* state, so a behaviour exercises one of the two.                         *)
EXTENDS GatewayProcess, AcpIdempotency, TLC
CONSTANTS c1, c2, c3, c4, q1, q2, q3
VARIABLE part

\* A batch of two tool calls, a single one, and a request of the routes.
Batches == (c1 :> q1) @@ (c2 :> q1) @@ (c3 :> q2) @@ (c4 :> q3)

HostInit ==
    /\ part \in {"process", "acp"}
    /\ GatewayInit
    /\ AcpInit
    /\ part # "acp" => asked = CHOOSE f \in [Request -> [scope : Scope, body : Body]] : TRUE

HostNext ==
    /\ \/ part = "process" /\ GatewayNext /\ UNCHANGED acpVars
       \/ part = "acp" /\ AcpNext /\ UNCHANGED gatewayVars
    /\ UNCHANGED part

\* The steps of the other part, which never come, are not fair.
HostSpec ==
    /\ HostInit
    /\ [][HostNext]_<<part, gatewayVars, acpVars>>
    /\ part = "process" => GatewayFairness
    /\ part = "acp" => AcpFairness
=============================================================================
