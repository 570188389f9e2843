------------------------------ MODULE Surfaces ------------------------------
(***************************************************************************)
(* What a buyer's client is told and does next: the HTTP route             *)
(* (src/gateway/routes.ts), MCP tool results and A2A tasks render one      *)
(* outcome of the pipeline each in its own way, and an automatic client    *)
(* pays whenever it is shown a challenge, resends its proof when the error *)
(* is retryable, and loses answers; the gateway goes on with a request its *)
(* client has abandoned.  The pipeline is abstracted to the                *)
(* outcomes of src/core/execution/pipeline, one attempt row for each proof *)
(* of the client; storage and races between gateways are in Pipeline.      *)
(***************************************************************************)
EXTENDS Naturals

CONSTANTS MaxProof      \* bound: the proofs that the client may sign

ASSUME ProofBound == MaxProof \in Nat

VARIABLES
    way,      \* the surface, the rail and its order of settlement
    proof,    \* the client's current proof, 0 before the first
    client,   \* ready, waiting, attending, told or done
    row,      \* the attempt of each proof
    chain,    \* what became of each proof on chain
    run,      \* the pipeline's run for each proof
    answer,   \* the last answer the client was given
    verdict,  \* what the run it answers learned of its settlement
    late,     \* proofs with an abandoned request that is still being admitted
    overtaken \* history: proofs that were late when a challenge was shown

surfaceVars == <<way, proof, client, row, chain, run, answer, verdict, late, overtaken>>
Proofs == 1..MaxProof

-----------------------------------------------------------------------------
(* Errors: codes.ts and CommerceError.                                     *)

HttpStatus ==
    [RESOURCE_NOT_FOUND |-> 404, INPUT_INVALID |-> 400, PAYMENT_REQUIRED |-> 402,
     PAYMENT_INVALID |-> 402, PAYMENT_REPLAYED |-> 409, PAYMENT_PROVIDER_UNAVAILABLE |-> 503,
     PAYMENT_SETTLEMENT_FAILED |-> 502, AUTHORIZATION_REQUIRED |-> 403,
     AUTHORIZATION_INVALID |-> 403, AUTHORIZATION_REPLAYED |-> 409,
     AUTHORIZATION_PROVIDER_UNAVAILABLE |-> 503, BACKEND_TIMEOUT |-> 504,
     BACKEND_ERROR |-> 502, GATEWAY_BUSY |-> 503, STORAGE_ERROR |-> 500]

Retryable == {"PAYMENT_PROVIDER_UNAVAILABLE", "AUTHORIZATION_PROVIDER_UNAVAILABLE",
              "BACKEND_TIMEOUT", "GATEWAY_BUSY"}

\* The details that a surface reads; the status is the code's unless overridden.
CommerceError(code) ==
    [code |-> code, status |-> HttpStatus[code], challenge |-> FALSE,
     payment |-> "none", uncertain |-> FALSE, hash |-> FALSE, allowance |-> FALSE]

\* Before any payment is looked at, or before one is settled.
EarlyErrors ==
    {"RESOURCE_NOT_FOUND", "INPUT_INVALID", "AUTHORIZATION_REQUIRED", "AUTHORIZATION_INVALID",
     "AUTHORIZATION_REPLAYED", "AUTHORIZATION_PROVIDER_UNAVAILABLE",
     "PAYMENT_PROVIDER_UNAVAILABLE", "GATEWAY_BUSY", "STORAGE_ERROR"}

Finished(p) == row[p] \in {"settled", "rejected"}

\* retryChallenge: a refusal leaves this request's challenge unused.
WithChallenge(err) == [err EXCEPT !.challenge = TRUE]

\* replayError.
Replayed(p) ==
    LET err == CommerceError("PAYMENT_REPLAYED")
    IN  IF Finished(p) THEN WithChallenge([err EXCEPT !.status = 402]) ELSE err

\* Mutant: a refused proof is not looked up.
RefusalsUnlooked(p) ==
    {[WithChallenge(CommerceError("PAYMENT_INVALID")) EXCEPT !.allowance = a] : a \in BOOLEAN}

\* refusalFor: a spent proof may fail verification before it reaches its row.
Refusals(p) ==
    IF row[p] # "none" /\ ~Finished(p) THEN {Replayed(p)}
    ELSE {[WithChallenge(CommerceError("PAYMENT_INVALID")) EXCEPT !.allowance = a] : a \in BOOLEAN}

SettlementRefused ==
    [WithChallenge(CommerceError("PAYMENT_SETTLEMENT_FAILED")) EXCEPT !.status = 402]

\* No verdict: no challenge, and the status that no client pays on.
SettlementUncertain(hash) ==
    [CommerceError("PAYMENT_SETTLEMENT_FAILED") EXCEPT !.uncertain = TRUE, !.hash = hash]

\* The backend failed: after a settlement the error carries the payment and one
\* code, before it the backend's own.
BackendErrors(settled) ==
    IF settled THEN {[CommerceError("BACKEND_ERROR") EXCEPT !.payment = "settled"]}
    ELSE {CommerceError(code) : code \in {"BACKEND_ERROR", "BACKEND_TIMEOUT"}}

-----------------------------------------------------------------------------
(* What a settlement response says: x402/transport.ts.                     *)

SettledFromDetails(err) == err.payment = "settled"

\* errorReason of a failed SettleResponse.
FailureReason(err) ==
    IF err.uncertain THEN IF err.hash THEN "settlement_pending" ELSE "unexpected_settle_error"
    ELSE "refused"

Refused402(err) == err.status = 402 /\ err.challenge

-----------------------------------------------------------------------------
(* The surfaces: status, a challenge the client pays on, the settlement.   *)

Shown(status, challenge, settlement, retryable) ==
    [status |-> status, challenge |-> challenge, settlement |-> settlement, retryable |-> retryable]

\* x402RefusalStatus: Permit2 without an allowance.
RefusalStatus(err) ==
    IF way.rail = "x402" /\ err.code = "PAYMENT_INVALID" /\ err.allowance THEN 412 ELSE err.status

\* sendInvokeError.  A settlement failure has its reason in PAYMENT-RESPONSE and,
\* on x402, no challenge header.
HttpError(err) ==
    LET failed == err.code = "PAYMENT_SETTLEMENT_FAILED"
    IN  Shown(RefusalStatus(err),
              Refused402(err) /\ (way.rail = "x402" => ~failed),
              IF failed THEN FailureReason(err)
              ELSE IF SettledFromDetails(err) THEN "success" ELSE "none",
              err.code \in Retryable)

\* errorResult.  An MPP result has no settlement of its own, but every result
\* repeats the error with its details.
McpError(err) ==
    Shown(err.status, Refused402(err),
          IF way.rail = "x402" /\ err.code = "PAYMENT_SETTLEMENT_FAILED" THEN FailureReason(err)
          ELSE IF SettledFromDetails(err) THEN "success" ELSE "none",
          err.code \in Retryable)

\* Mutant: a failure after a submission is always a failed payment.
A2aErrorAlwaysFailed(err) ==
    Shown(err.status, FALSE, IF proof > 0 THEN FailureReason(err) ELSE "none",
          err.code \in Retryable)

\* failedTask with paymentFailureMetadata: a settled payment is reported as
\* completed; the task is over, so that there is nothing to pay it on.
A2aError(err) ==
    Shown(err.status, FALSE,
          IF SettledFromDetails(err) THEN "success"
          ELSE IF way.rail = "x402" /\ proof > 0 THEN FailureReason(err) ELSE "none",
          err.code \in Retryable)

ErrorAnswer(err) ==
    CASE way.surface = "http" -> HttpError(err)
      [] way.surface = "mcp" -> McpError(err)
      [] way.surface = "a2a" -> A2aError(err)

\* toPaymentRequiredEnvelope: each rail's header, tool metadata, or an open task.
PaymentRequiredAnswer == Shown(402, TRUE, "none", FALSE)

\* PAYMENT-RESPONSE, the tool's metadata or toDeliverySummary, beside the body.
DeliveredAnswer == Shown(200, FALSE, "success", FALSE)

-----------------------------------------------------------------------------
(* Requests.                                                               *)

\* The rail's own header, metadata key or input field, or any other.
Carriers == {"own", "other"}

SurfaceInit ==
    /\ way \in [surface : {"http", "mcp", "a2a"}, rail : {"x402", "mpp"},
                deferred : BOOLEAN, carrier : Carriers]
    /\ proof = 0
    /\ client = "ready"
    /\ row = [p \in Proofs |-> "none"]
    /\ chain = [p \in Proofs |-> "idle"]
    /\ run = [p \in Proofs |-> "idle"]
    /\ answer = Shown(0, FALSE, "none", FALSE)
    /\ verdict = "none"
    /\ late = {} /\ overtaken = {}

\* paymentProof, paymentFromMeta, extractReservedInputFields: a proof in another
\* rail's carrier or an older header is no proof, and the request is unpaid.
ReadProof == IF way.carrier = "own" THEN proof ELSE 0

\* The answer, which is settled when the attempt is looked up or written.
Tell(shown, learned) ==
    /\ answer' = shown
    /\ overtaken' = IF shown.challenge THEN overtaken \cup late ELSE overtaken
    /\ verdict' = learned
    /\ client' = "told"

ClientSends ==
    /\ client = "ready"
    /\ client' = "waiting"
    /\ UNCHANGED <<way, proof, row, chain, run, answer, verdict, late, overtaken>>

RefuseEarly ==
    /\ client = "waiting"
    /\ \E code \in EarlyErrors : Tell(ErrorAnswer(CommerceError(code)), "none")
    /\ UNCHANGED <<way, proof, row, chain, run, late>>

Challenge ==
    /\ client = "waiting"
    /\ ReadProof = 0
    /\ Tell(PaymentRequiredAnswer, "none")
    /\ UNCHANGED <<way, proof, row, chain, run, late>>

RefuseProof(p) ==
    /\ client = "waiting"
    /\ ReadProof = p
    /\ \E err \in Refusals(p) : Tell(ErrorAnswer(err), "none")
    /\ UNCHANGED <<way, proof, row, chain, run, late>>

\* A rejected authorization is reused on x402 only, and only before it is spent.
Claimable(p) == row[p] = "none" \/ (row[p] = "rejected" /\ way.rail = "x402")

RefuseReplay(p) ==
    /\ client = "waiting"
    /\ ReadProof = p
    /\ ~Claimable(p)
    /\ Tell(ErrorAnswer(Replayed(p)), "none")
    /\ UNCHANGED <<way, proof, row, chain, run, late>>

\* reservePaymentAttempt, which ends the awaits of the admission.
ReserveProof(p) ==
    /\ Claimable(p)
    /\ row' = [row EXCEPT ![p] = "reserved"]
    /\ run' = [run EXCEPT ![p] = IF way.deferred THEN "calling" ELSE "settling"]

Admit(p) ==
    /\ client = "waiting"
    /\ ReadProof = p
    /\ ReserveProof(p)
    /\ client' = "attending"
    /\ UNCHANGED <<way, proof, chain, answer, verdict, late, overtaken>>

\* An abandoned request is admitted; its client may have left others behind.
AdmitLate(p) ==
    /\ p \in late
    /\ ReserveProof(p)
    /\ late' \in {late, late \ {p}}
    /\ UNCHANGED <<way, proof, client, chain, answer, verdict, overtaken>>

\* It is refused, and nobody is told.
RefuseLate(p) ==
    /\ p \in late
    /\ late' = late \ {p}
    /\ UNCHANGED <<way, proof, client, row, chain, run, answer, verdict, overtaken>>

\* The run of p ends; nobody may be there to be told.
EndRun(p, shown, learned) ==
    /\ run' = [run EXCEPT ![p] = "idle"]
    /\ IF client = "attending" /\ proof = p THEN Tell(shown, learned)
       ELSE UNCHANGED <<client, answer, verdict, overtaken>>

Settled(p) ==
    /\ run[p] = "settling"
    /\ row' = [row EXCEPT ![p] = "settled"]
    /\ chain' = [chain EXCEPT ![p] = "moved"]
    /\ IF way.deferred THEN EndRun(p, DeliveredAnswer, "settled")
       ELSE /\ run' = [run EXCEPT ![p] = "calling"]
            /\ UNCHANGED <<client, answer, verdict, overtaken>>
    /\ UNCHANGED <<way, proof, late>>

\* A returned refusal, or a throw that names a payment never submitted.
NotSettled(p) ==
    /\ run[p] = "settling"
    /\ row' = [row EXCEPT ![p] = "rejected"]
    /\ \E err \in {SettlementRefused, CommerceError("PAYMENT_PROVIDER_UNAVAILABLE")} :
            EndRun(p, ErrorAnswer(err), "refused")
    /\ UNCHANGED <<way, proof, chain, late>>

Unconfirmed(p) ==
    /\ run[p] = "settling"
    /\ row' = [row EXCEPT ![p] = "settlement-uncertain"]
    /\ chain' = [chain EXCEPT ![p] = "open"]
    /\ \E hash \in BOOLEAN : EndRun(p, ErrorAnswer(SettlementUncertain(hash)), "unknown")
    /\ UNCHANGED <<way, proof, late>>

BackendAnswers(p) ==
    /\ run[p] = "calling"
    /\ IF way.deferred
       THEN /\ run' = [run EXCEPT ![p] = "settling"]
            /\ UNCHANGED <<client, answer, verdict, overtaken>>
       ELSE EndRun(p, DeliveredAnswer, "settled")
    /\ UNCHANGED <<way, proof, row, chain, late>>

BackendFails(p) ==
    /\ run[p] = "calling"
    /\ row' = IF way.deferred THEN [row EXCEPT ![p] = "rejected"] ELSE row
    /\ \E err \in BackendErrors(~way.deferred) :
            EndRun(p, ErrorAnswer(err), IF way.deferred THEN "refused" ELSE "settled")
    /\ UNCHANGED <<way, proof, chain, late>>

-----------------------------------------------------------------------------
(* The client, the chain and reconciliation.                               *)

\* The client stops waiting; neither its request nor its run is cancelled.
GiveUp ==
    /\ client \in {"waiting", "attending"}
    /\ client' = "ready"
    /\ late' = IF client = "waiting" /\ ReadProof > 0 THEN late \cup {proof} ELSE late
    /\ UNCHANGED <<way, proof, row, chain, run, answer, verdict, overtaken>>

\* A challenge is paid with a new proof; a retryable error sends the same again.
ClientActs ==
    /\ client = "told"
    /\ \/ /\ answer.challenge /\ proof < MaxProof
          /\ proof' = proof + 1 /\ client' = "ready"
       \/ /\ ~answer.challenge /\ answer.retryable
          /\ client' = "ready" /\ UNCHANGED proof
       \/ /\ ~answer.challenge /\ ~answer.retryable
          /\ client' = "done" /\ UNCHANGED proof
    /\ UNCHANGED <<way, row, chain, run, answer, verdict, late, overtaken>>

ChainDecides(p) ==
    /\ chain[p] = "open"
    /\ chain' = [chain EXCEPT ![p] = "moved"] \/ chain' = [chain EXCEPT ![p] = "idle"]
    /\ UNCHANGED <<way, proof, client, row, run, answer, verdict, late, overtaken>>

Reconciled(p) ==
    /\ row[p] = "settlement-uncertain"
    /\ chain[p] # "open"
    /\ row' = [row EXCEPT ![p] = IF chain[p] = "moved" THEN "settled" ELSE "rejected"]
    /\ UNCHANGED <<way, proof, client, chain, run, answer, verdict, late, overtaken>>

SurfaceNext ==
    \/ ClientSends \/ RefuseEarly \/ Challenge \/ GiveUp \/ ClientActs
    \/ \E p \in Proofs :
          \/ RefuseProof(p) \/ RefuseReplay(p) \/ Admit(p) \/ AdmitLate(p) \/ RefuseLate(p)
          \/ Settled(p) \/ NotSettled(p) \/ Unconfirmed(p)
          \/ BackendAnswers(p) \/ BackendFails(p)
          \/ ChainDecides(p) \/ Reconciled(p)

SurfaceSpec == SurfaceInit /\ [][SurfaceNext]_surfaceVars

-----------------------------------------------------------------------------
\* Whatever answers it lost and whatever it sent again, a client that pays every
\* challenge it is shown is shown none (sendInvokeError, errorResult,
\* paymentRequiredTask) while an earlier proof of its purchase can still be charged,
\* because its settlement is ahead, under way or unknown.  The one exception is a
\* proof of which an abandoned request had not reached its reservation when the
\* challenge was shown: no lookup can see it, and it may be reserved afterwards.
NoChallengeWhileOpen ==
    client = "told" /\ answer.challenge /\ way.carrier = "own" =>
        \A p \in (1..proof) \ overtaken : row[p] # "reserved" /\ chain[p] # "open"

\* On every surface and rail, an answer reports a settled payment exactly when
\* the run it ends settled one, be the resource delivered or not, and an unknown
\* settlement is never shown as one to retry (settlementResponseFromDetails,
\* paymentFailureMetadata, toDeliverySummary).
SettlementIsTold ==
    client = "told" =>
        /\ answer.settlement = "success" <=> verdict = "settled"
        /\ verdict = "unknown" => ~answer.challenge /\ ~answer.retryable
=============================================================================
