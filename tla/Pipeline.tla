------------------------------ MODULE Pipeline ------------------------------
(***************************************************************************)
(* The execution of paid purchases (src/core/execution/pipeline/): each    *)
(* request verifies a payment, reserves the mandate and then the payment   *)
(* attempt, settles before or after the backend call, finalizes the        *)
(* mandate, records the verdict and answers the buyer.  One action is one  *)
(* await of the handler: between two of them other requests, resolvers, a  *)
(* crash of the gateway, the facilitator and the clock can act.            *)
(*                                                                         *)
(* The chain and the facilitator are external: a submitted authorization   *)
(* may land at any time until it expires, whatever the caller was told,    *)
(* unless the facilitator answered that it did not and will not.           *)
(***************************************************************************)
EXTENDS HoldStore, AttemptStore, TransactionState, Naturals

CONSTANTS
    NoMandate,     \* the order of a resource that requires no authorization
    Orders,        \* the purchases that buyers may attempt
    MaxFaults      \* bound on crashes and failed writes in one behaviour

\* A purchase: the replay key of the signed payment, the mandate presented with
\* it, the provider, and whether settlement follows the backend (metadata
\* settleAfterBackend, the `authorization` payment flow).
Order ==
    [key : Key, mandate : Mandate \cup {NoMandate}, rail : Rail, deferred : BOOLEAN]

ASSUME PipelineConstants ==
    /\ NoMandate \notin Mandate
    /\ Orders \subseteq Order
    /\ MaxFaults \in Nat

VARIABLES
    order,         \* what each request buys
    pc,            \* where each request is in the handler
    verdict,       \* what the settlement of a request came to
    outcome,       \* what the handler returns or throws to the buyer
    journal,       \* the transactions table: one row per reserved attempt
    receipts,      \* the receipts table
    chain,         \* external: the transfer each authorization can make
    expired,       \* authorizations past their last valid moment
    faults         \* crashes and failed writes so far

storeVars == <<attempts, history, holds, journal, receipts>>
flowVars == <<order, pc, verdict, outcome>>
worldVars == <<chain, expired>>
pipelineVars == <<storeVars, flowVars, worldVars, faults>>

\* start .. held: admission; releasing: the reservation failed and the hold is
\* being given back; admitted: reserved; submitted: provider.settle is running;
\* finalizing, journaling, updating: after a verdict; dispatching, calling: the
\* backend; saving, completing: receipt and last journal step.
Active == {"verified", "held", "releasing", "admitted", "settling", "submitted",
           "finalizing", "journaling", "updating", "dispatching", "calling",
           "saving", "completing"}

\* A finished handler answered; a dead one was cut off by a crash.
PC == Active \cup {"start", "done", "dead"}

Verdict == {"none", "settled", "rejected", "not-submitted", "uncertain", "backend-failed"}

Outcome == {"none", "payment-required", "delivered", "challenge", "conflict",
            "nothing-charged", "unconfirmed", "paid-undelivered", "error"}

JournalRow ==
    [hold : HoldState, backend : BackendFact, completed : BOOLEAN]

NoJournal == [hold |-> "absent", backend |-> "none", completed |-> FALSE]

\* by is the request whose submission is open or landed.
Transfer == [st : {"unused", "open", "landed"}, by : Request \cup {NoRequest}]

Unused == [st |-> "unused", by |-> NoRequest]

KeyOf(r) == order[r].key
MandateOf(r) == order[r].mandate
Authorized(r) == MandateOf(r) # NoMandate

\* x402 sets reuseRejectedAuthorization on every requirement; MPP never does.
ReusesRejected(r) == order[r].rail = "x402"

PipelineInit ==
    /\ order \in [Request -> Orders]
    /\ pc = [r \in Request |-> "start"]
    /\ verdict = [r \in Request |-> "none"]
    /\ outcome = [r \in Request |-> "none"]
    /\ journal = [r \in Request |-> NoJournal]
    /\ receipts = [r \in Request |-> "none"]
    /\ chain = [k \in Key |-> Unused]
    /\ expired = {}
    /\ faults = 0
    /\ AttemptInit
    /\ HoldInit

-----------------------------------------------------------------------------
(* Steps of a request.                                                     *)

Goto(r, from, to) == pc[r] = from /\ pc' = [pc EXCEPT ![r] = to]

Answer(r, o) == outcome' = [outcome EXCEPT ![r] = o]

\* A store or provider write that throws; safePersist and finalize log it and
\* the flow goes on.
Fault == faults < MaxFaults /\ faults' = faults + 1

NoFault == UNCHANGED faults

\* Mutant: an uncertain attempt counts as finished.
ReplayAnswerUncertainFinished(k) ==
    IF attempts[k].status = "reserved" THEN "conflict" ELSE "challenge"

\* isFinishedAttempt: a settled or rejected attempt answers a replay with a new
\* challenge; any other one with 409 and no challenge.
ReplayAnswer(k) ==
    IF attempts[k].status \in {"settled", "rejected"} THEN "challenge" ELSE "conflict"

(***************************************************************************)
(* Everything execute and admitPayment refuse before a proof is verified:  *)
(* an unknown resource, invalid input, a missing provider, a request with  *)
(* no payment or with one that names no authorization (402), a facilitator *)
(* that gave no verdict.                                                   *)
(***************************************************************************)
Refuse(r) ==
    /\ Goto(r, "start", "done")
    /\ \E o \in {"error", "payment-required"} : Answer(r, o)
    /\ UNCHANGED <<storeVars, order, verdict, worldVars, faults>>

\* provider.verify accepts: the authorization has not expired.
Verify(r) ==
    /\ Goto(r, "start", "verified")
    /\ KeyOf(r) \notin expired
    /\ UNCHANGED <<storeVars, order, verdict, outcome, worldVars, faults>>

\* provider.verify refuses, and refusalFor looks up the attempt of the key.
VerifyRefused(r) ==
    /\ Goto(r, "start", "done")
    /\ \/ /\ Answer(r, IF attempts[KeyOf(r)].status = "absent" THEN "challenge"
                       ELSE ReplayAnswer(KeyOf(r)))
          /\ NoFault
       \/ Fault /\ Answer(r, "error")
    /\ UNCHANGED <<storeVars, order, verdict, worldVars>>

\* authorizeAndReserve: the mandate, if the resource requires one, is reserved
\* before the payment attempt.
Authorize(r) ==
    /\ Goto(r, "verified", "held")
    /\ IF Authorized(r) THEN ReserveHold(MandateOf(r), r) ELSE UNCHANGED holds
    /\ UNCHANGED <<attempts, history, journal, receipts, order, verdict, outcome,
                   worldVars, faults>>

\* The mandate is missing, invalid, replayed, or its provider is unavailable.
AuthorizeRefused(r) ==
    /\ Authorized(r)
    /\ Goto(r, "verified", "done")
    /\ Answer(r, "error")
    /\ UNCHANGED <<storeVars, order, verdict, worldVars, faults>>

\* reservePaymentAttempt succeeds: the attempt and its journal row commit in
\* one transaction.
Reserve(r) ==
    /\ Goto(r, "held", "admitted")
    /\ ReserveAttempt(r, KeyOf(r), order[r].rail, ReusesRejected(r))
    /\ journal' = [journal EXCEPT ![r].hold = IF Authorized(r) THEN "reserved" ELSE "absent"]
    /\ UNCHANGED <<holds, receipts, order, verdict, outcome, worldVars, faults>>

\* reservePaymentAttempt throws, PAYMENT_REPLAYED or STORAGE_ERROR.
ReserveRefused(r) ==
    /\ Goto(r, "held", "releasing")
    /\ \/ /\ Replayed(KeyOf(r), order[r].rail, ReusesRejected(r))
          /\ Answer(r, ReplayAnswer(KeyOf(r)))
          /\ NoFault
       \/ Fault /\ Answer(r, "error")
    /\ UNCHANGED <<storeVars, order, verdict, worldVars>>

\* hold.finalize('release') of a request that got no attempt.
ReleaseUnused(r) ==
    /\ Goto(r, "releasing", "done")
    /\ \/ /\ IF Authorized(r) THEN TransitionHold(MandateOf(r), "released", r)
             ELSE UNCHANGED holds
          /\ NoFault
       \/ Authorized(r) /\ Fault /\ UNCHANGED holds
    /\ UNCHANGED <<attempts, history, journal, receipts, order, verdict, outcome, worldVars>>

-----------------------------------------------------------------------------
(* Settlement.                                                             *)

\* settle: the settling step is journaled and the authorization goes to the
\* facilitator, before the backend call or after it.
Settle(r) ==
    /\ \/ ~order[r].deferred /\ pc[r] = "admitted"
       \/ pc[r] = "settling"
    /\ pc' = [pc EXCEPT ![r] = "submitted"]
    /\ chain' = IF chain[KeyOf(r)].st = "unused"
                THEN [chain EXCEPT ![KeyOf(r)] = [st |-> "open", by |-> r]]
                ELSE chain
    /\ UNCHANGED <<storeVars, order, verdict, outcome, expired, faults>>

Verdicted(r, v) ==
    /\ Goto(r, "submitted", "finalizing")
    /\ verdict' = [verdict EXCEPT ![r] = v]
    /\ UNCHANGED <<storeVars, order, outcome, expired, faults>>

\* The facilitator confirms the transfer.
AnswerSettled(r) ==
    /\ chain[KeyOf(r)] = [st |-> "landed", by |-> r]
    /\ Verdicted(r, "settled")
    /\ UNCHANGED chain

\* The facilitator proves that nothing moved (a revert, a refusal, or a throw
\* marked settlementNotSubmitted) and that nothing will.
AnswerRefused(r) ==
    /\ chain[KeyOf(r)] # [st |-> "landed", by |-> r]
    /\ \E v \in {"rejected", "not-submitted"} : Verdicted(r, v)
    /\ chain' = IF chain[KeyOf(r)].by = r THEN [chain EXCEPT ![KeyOf(r)] = Unused] ELSE chain

\* provider.settle throws without a verdict; the transfer may have landed, may
\* still land, or may never have been sent.
AnswerLost(r) ==
    /\ Verdicted(r, "uncertain")
    /\ UNCHANGED chain

\* Mutant: a lost answer gives the mandate back.
HoldForLostReleased(v) == IF v = "settled" THEN "consumed" ELSE "released"

\* Mutant: a lost answer consumes the mandate.
HoldForLostConsumed(v) == IF v \in {"settled", "uncertain"} THEN "consumed" ELSE "released"

\* The hold action and the attempt status of each verdict.
HoldFor(v) ==
    CASE v = "settled" -> "consumed"
      [] v = "uncertain" -> "uncertain"
      [] OTHER -> "released"

\* Mutant: a lost answer is recorded as a rejection.
StatusForLostRejected(v) == IF v = "settled" THEN "settled" ELSE "rejected"

\* Mutant: a lost answer is recorded as a settlement.
StatusForLostSettled(v) == IF v \in {"settled", "uncertain"} THEN "settled" ELSE "rejected"

StatusFor(v) ==
    CASE v = "settled" -> "settled"
      [] v = "uncertain" -> "settlement-uncertain"
      [] OTHER -> "rejected"

OutcomeFor(v) ==
    CASE v = "settled" -> "none"
      [] v = "rejected" -> "challenge"
      [] v = "not-submitted" -> "nothing-charged"
      [] v = "uncertain" -> "unconfirmed"
      [] OTHER -> "error"

\* finalizeHold, first half: the authorization provider moves the hold; only
\* an acknowledged move is journaled.
FinalizeHold(r) ==
    /\ pc[r] = "finalizing"
    /\ \/ ~Authorized(r) /\ pc' = [pc EXCEPT ![r] = "updating"] /\ UNCHANGED holds /\ NoFault
       \/ /\ Authorized(r)
          /\ TransitionHold(MandateOf(r), HoldFor(verdict[r]), r)
          /\ pc' = [pc EXCEPT ![r] =
               IF HoldAcknowledged(MandateOf(r), HoldFor(verdict[r]), r)
               THEN "journaling" ELSE "updating"]
          /\ NoFault
       \/ Authorized(r) /\ Fault /\ UNCHANGED holds /\ pc' = [pc EXCEPT ![r] = "updating"]
    /\ UNCHANGED <<attempts, history, journal, receipts, order, verdict, outcome, worldVars>>

\* finalizeHold, second half: the journal's hold step.
JournalHold(r) ==
    /\ Goto(r, "journaling", "updating")
    /\ \/ journal' = [journal EXCEPT ![r].hold = HoldFor(verdict[r])] /\ NoFault
       \/ Fault /\ UNCHANGED journal
    /\ UNCHANGED <<attempts, history, holds, receipts, order, verdict, outcome, worldVars>>

\* updatePaymentAttempt, keyed by the replay key, inside safePersist; then the
\* handler goes on (settled) or throws.
Update(r) ==
    /\ pc[r] = "updating"
    /\ pc' = [pc EXCEPT ![r] =
         IF verdict[r] # "settled" THEN "completing"
         ELSE IF order[r].deferred THEN "saving" ELSE "dispatching"]
    /\ Answer(r, OutcomeFor(verdict[r]))
    /\ \/ UpdateAttempt(KeyOf(r), StatusFor(verdict[r])) /\ NoFault
       \/ ~Updatable(KeyOf(r)) /\ UNCHANGED <<attempts, history>> /\ NoFault
       \/ Fault /\ UNCHANGED <<attempts, history>>
    /\ UNCHANGED <<holds, journal, receipts, order, verdict, worldVars>>

-----------------------------------------------------------------------------
(* Delivery.                                                               *)

\* backend-dispatched is journaled and the call goes out.
Dispatch(r) ==
    /\ \/ order[r].deferred /\ pc[r] = "admitted"
       \/ pc[r] = "dispatching"
    /\ pc' = [pc EXCEPT ![r] = "calling"]
    /\ \/ journal' = [journal EXCEPT ![r].backend = "pending"] /\ NoFault
       \/ Fault /\ UNCHANGED journal
    /\ UNCHANGED <<attempts, history, holds, receipts, order, verdict, outcome, worldVars>>

\* The backend-result step.
RecordResult(r, fact) ==
    \/ journal' = [journal EXCEPT ![r].backend = fact] /\ NoFault
    \/ Fault /\ UNCHANGED journal

\* Mutant: a deferred response is not withheld.
BackendOkNotWithheld(r) ==
    /\ Goto(r, "calling", "saving")
    /\ RecordResult(r, "ok")
    /\ UNCHANGED <<attempts, history, holds, receipts, order, verdict, outcome, worldVars>>

\* A 2xx: under deferred settlement the response is withheld until it settles.
BackendOk(r) ==
    /\ Goto(r, "calling", IF order[r].deferred THEN "settling" ELSE "saving")
    /\ RecordResult(r, "ok")
    /\ UNCHANGED <<attempts, history, holds, receipts, order, verdict, outcome, worldVars>>

\* A failed call: an unsettled payment is abandoned, a settled one keeps its
\* undelivered receipt.
BackendFailed(r) ==
    /\ Goto(r, "calling", IF order[r].deferred THEN "finalizing" ELSE "saving")
    /\ \E fact \in {"error", "zero"} : RecordResult(r, fact)
    /\ verdict' = [verdict EXCEPT ![r] = IF order[r].deferred THEN "backend-failed" ELSE @]
    /\ Answer(r, IF order[r].deferred THEN "none" ELSE "paid-undelivered")
    /\ UNCHANGED <<attempts, history, holds, receipts, order, worldVars>>

\* saveReceipt of a delivered purchase or of a paid and undelivered one.
SaveReceipt(r) ==
    /\ Goto(r, "saving", "completing")
    /\ \/ /\ receipts' = [receipts EXCEPT ![r] =
               IF outcome[r] = "paid-undelivered" THEN "undelivered" ELSE "delivered"]
          /\ NoFault
       \/ Fault /\ UNCHANGED receipts
    /\ Answer(r, IF outcome[r] = "paid-undelivered" THEN "paid-undelivered" ELSE "delivered")
    /\ UNCHANGED <<attempts, history, holds, journal, order, verdict, worldVars>>

\* The finally block: the completed step, then the answer leaves the gateway.
Complete(r) ==
    /\ Goto(r, "completing", "done")
    /\ \/ journal' = [journal EXCEPT ![r].completed = TRUE] /\ NoFault
       \/ Fault /\ UNCHANGED journal
    /\ UNCHANGED <<attempts, history, holds, receipts, order, verdict, outcome, worldVars>>

-----------------------------------------------------------------------------
(* The environment.                                                        *)

\* The gateway process dies: every running handler is lost, the database and
\* whatever reached the facilitator stay.
Crash ==
    /\ \E r \in Request : pc[r] \in Active
    /\ Fault
    /\ pc' = [r \in Request |-> IF pc[r] \in Active THEN "dead" ELSE pc[r]]
    /\ UNCHANGED <<storeVars, order, verdict, outcome, worldVars>>

\* A submitted transfer is included in a block before it expires.
Land(k) ==
    /\ chain[k].st = "open"
    /\ k \notin expired
    /\ chain' = [chain EXCEPT ![k].st = "landed"]
    /\ UNCHANGED <<storeVars, flowVars, expired, faults>>

\* The last valid moment of an authorization passes.
Expire(k) ==
    /\ k \notin expired
    /\ expired' = expired \cup {k}
    /\ UNCHANGED <<storeVars, flowVars, chain, faults>>

RequestStep(r) ==
    \/ Refuse(r) \/ Verify(r) \/ VerifyRefused(r)
    \/ Authorize(r) \/ AuthorizeRefused(r)
    \/ Reserve(r) \/ ReserveRefused(r) \/ ReleaseUnused(r)
    \/ Settle(r) \/ AnswerSettled(r) \/ AnswerRefused(r) \/ AnswerLost(r)
    \/ FinalizeHold(r) \/ JournalHold(r) \/ Update(r)
    \/ Dispatch(r) \/ BackendOk(r) \/ BackendFailed(r)
    \/ SaveReceipt(r) \/ Complete(r)

PipelineNext ==
    \/ \E r \in Request : RequestStep(r)
    \/ Crash
    \/ \E k \in Key : Land(k) \/ Expire(k)

PipelineSpec == PipelineInit /\ [][PipelineNext]_pipelineVars

-----------------------------------------------------------------------------
PipelineTypeOK ==
    /\ AttemptTypeOK
    /\ HoldTypeOK
    /\ order \in [Request -> Order]
    /\ pc \in [Request -> PC]
    /\ verdict \in [Request -> Verdict]
    /\ outcome \in [Request -> Outcome]
    /\ journal \in [Request -> JournalRow]
    /\ receipts \in [Request -> {"none", "delivered", "undelivered"}]
    /\ chain \in [Key -> Transfer]
    /\ expired \subseteq Key
    /\ faults \in 0..MaxFaults
=============================================================================
