--------------------------- MODULE AcpIdempotency ---------------------------
(***************************************************************************)
(* ACP checkout idempotency (src/protocols/acp/adapter.ts `dispatch` over  *)
(* src/storage/receipts/idempotency.ts; the legacy file store applies the  *)
(* same rules).  A POST claims its key before the merchant is called and   *)
(* records the outcome after it.  The merchant's call and the database     *)
(* write are not one transaction, and either side may fail between them.   *)
(*                                                                         *)
(* A row's fingerprint is that of the request that inserted it (`by`); the *)
(* stored response is named by the request whose run produced it.          *)
(***************************************************************************)
EXTENDS Requests, Naturals

CONSTANTS
    Scope,               \* (deployment, endpoint, caller's key)
    Body,                \* request bodies up to their fingerprint
    MerchantIdempotent,  \* protocols.acp.idempotency.merchantIdempotent
    MaxFaults            \* bound on crashes and failed writes

ASSUME AcpConstants == MerchantIdempotent \in BOOLEAN /\ MaxFaults \in Nat

VARIABLES
    asked,     \* what each request asks for
    claims,    \* the idempotency_keys table
    pc,        \* where each request's handler is
    outcome,   \* what runCheckout returned
    replied,   \* what the agent was answered
    lifecycle, \* the adapter's lifecycle
    calls,     \* the merchant's side of each call
    acted,     \* requests whose operation the merchant carried out
    retired,   \* requests whose stored response expired and was swept
    faults

handlerVars == <<pc, outcome, replied, lifecycle>>
merchantVars == <<calls, acted>>
acpVars == <<asked, claims, pc, outcome, replied, lifecycle, calls, acted, retired, faults>>

Claimed ==
    [state : {"absent", "in_flight", "completed", "unresolved"},
     by : Request \cup {NoRequest}, answer : Request \cup {NoRequest}, due : BOOLEAN]

NoClaim == [state |-> "absent", by |-> NoRequest, answer |-> NoRequest, due |-> FALSE]

\* The status is below 500 (`answer`) or not (`failed`); `threw` is no status.
Outcome ==
    [status : {"none", "answer", "failed", "threw"}, reached : {"no", "unknown", "yes"}]

Reply ==
    [kind : {"none", "in-flight", "unresolved", "conflict", "answer", "failed"},
     of : Request \cup {NoRequest}]

\* Handlers that own a claim, and all that a crash cuts off.
Owning == {"claimed", "executing", "calling", "ran"}
Running == Owning \cup {"admitted", "recorded"}
Pc == Running \cup {"new", "done", "unrecorded", "cut"}

AcpInit ==
    /\ asked \in [Request -> [scope : Scope, body : Body]]
    /\ claims = [s \in Scope |-> NoClaim]
    /\ pc = [r \in Request |-> "new"]
    /\ outcome = [r \in Request |-> [status |-> "none", reached |-> "no"]]
    /\ replied = [r \in Request |-> [kind |-> "none", of |-> NoRequest]]
    /\ lifecycle = "running"
    /\ calls = [r \in Request |-> "none"]
    /\ acted = {}
    /\ retired = {}
    /\ faults = 0

Goto(r, label) == pc' = [pc EXCEPT ![r] = label]
AnswerAgent(r, kind, of) == replied' = [replied EXCEPT ![r] = [kind |-> kind, of |-> of]]

Fault ==
    /\ faults < MaxFaults
    /\ faults' = faults + 1

-----------------------------------------------------------------------------
(* The handler, up to the claim.                                           *)

\* The adapter runs and the guards pass; the body is read meanwhile.
PassGuards(r) ==
    /\ pc[r] = "new"
    /\ lifecycle = "running"
    /\ Goto(r, "admitted")
    /\ UNCHANGED <<asked, claims, outcome, replied, lifecycle, merchantVars, retired, faults>>

\* A stopped adapter answers 503 without a claim, also after the guards.
Unavailable(r) ==
    /\ pc[r] \in {"new", "admitted"}
    /\ lifecycle = "stopped"
    /\ Goto(r, "done")
    /\ AnswerAgent(r, "failed", r)
    /\ UNCHANGED <<asked, claims, outcome, lifecycle, merchantVars, retired, faults>>

\* Mutant: the sweep takes every expired row.
ExpiredWhateverState(s) == claims[s].due

Expired(s) == claims[s].state = "completed" /\ claims[s].due

Swept == [s \in Scope |-> IF Expired(s) THEN NoClaim ELSE claims[s]]

\* Mutant: the fingerprint is not compared.
FoundForAnyBody(row, r) ==
    IF row.state = "unresolved" THEN [kind |-> "unresolved", of |-> NoRequest]
    ELSE IF row.state # "completed" THEN [kind |-> "in-flight", of |-> NoRequest]
    ELSE [kind |-> "answer", of |-> row.answer]

\* Fingerprint first: a key used for another body conflicts in any state.
Found(row, r) ==
    IF asked[row.by].body # asked[r].body THEN [kind |-> "conflict", of |-> NoRequest]
    ELSE IF row.state = "unresolved" THEN [kind |-> "unresolved", of |-> NoRequest]
    ELSE IF row.state # "completed" THEN [kind |-> "in-flight", of |-> NoRequest]
    ELSE [kind |-> "answer", of |-> row.answer]

(***************************************************************************)
(* claimIdempotencyKey: one immediate transaction that sweeps the expired  *)
(* answers and then inserts the claim or reports what holds the key.       *)
(***************************************************************************)
Claim(r) ==
    LET s == asked[r].scope
    IN  /\ pc[r] = "admitted"
        /\ lifecycle = "running"
        /\ retired' = retired \cup {claims[t].answer : t \in {t \in Scope : Expired(t)}}
        /\ \/ /\ Swept[s].state = "absent"
              /\ claims' = [Swept EXCEPT ![s] = [state |-> "in_flight", by |-> r,
                                                 answer |-> NoRequest, due |-> FALSE]]
              /\ Goto(r, "claimed")
              /\ UNCHANGED replied
           \/ /\ Swept[s].state # "absent"
              /\ claims' = Swept
              /\ Goto(r, "done")
              /\ replied' = [replied EXCEPT ![r] = Found(Swept[s], r)]
        /\ UNCHANGED <<asked, outcome, lifecycle, merchantVars, faults>>

\* The claim fails with STORAGE_ERROR: 500, and nothing was claimed.
ClaimFails(r) ==
    /\ pc[r] = "admitted"
    /\ lifecycle = "running"
    /\ Fault
    /\ Goto(r, "done")
    /\ AnswerAgent(r, "failed", r)
    /\ UNCHANGED <<asked, claims, outcome, lifecycle, merchantVars, retired>>

-----------------------------------------------------------------------------
(* runCheckout and the merchant.                                           *)

Ran(r, status, reached) ==
    /\ Goto(r, "ran")
    /\ outcome' = [outcome EXCEPT ![r] = [status |-> status, reached |-> reached]]

\* The adapter stopped after the claim, or building the request threw.
NotExecuted(r) ==
    /\ pc[r] = "claimed"
    /\ \/ lifecycle = "stopped" /\ Ran(r, "failed", "no")
       \/ lifecycle = "running" /\ Ran(r, "threw", "unknown")
    /\ UNCHANGED <<asked, claims, replied, lifecycle, merchantVars, retired, faults>>

Execute(r) ==
    /\ pc[r] = "claimed"
    /\ lifecycle = "running"
    /\ Goto(r, "executing")
    /\ UNCHANGED <<asked, claims, outcome, replied, lifecycle, merchantVars, retired, faults>>

\* The pipeline fails before it calls the merchant: with INPUT_INVALID (400), a
\* code of the allowlist or payment-required (5xx), or unexpectedly.
FailsBeforeBackend(r) ==
    /\ pc[r] = "executing"
    /\ \/ Ran(r, "answer", "no")
       \/ Ran(r, "failed", "no")
       \/ Ran(r, "failed", "unknown")
    /\ UNCHANGED <<asked, claims, replied, lifecycle, merchantVars, retired, faults>>

CallMerchant(r) ==
    /\ pc[r] = "executing"
    /\ Goto(r, "calling")
    /\ calls' = [calls EXCEPT ![r] = "open"]
    /\ UNCHANGED <<asked, claims, outcome, replied, lifecycle, acted, retired, faults>>

\* The merchant has the operation of r's derived key on record.
Performed(r) ==
    \E q \in acted : q = r \/ (MerchantIdempotent /\ asked[q].scope = asked[r].scope)

\* The merchant carries the operation out, perhaps after the gateway gave up.
MerchantActs(r) ==
    /\ calls[r] = "open"
    /\ ~Performed(r)
    /\ acted' = acted \cup {r}
    /\ UNCHANGED <<asked, claims, handlerVars, calls, retired, faults>>

Answered(r) ==
    /\ pc[r] = "calling"
    /\ calls' = [calls EXCEPT ![r] = "over"]
    /\ UNCHANGED <<asked, claims, replied, lifecycle, acted, retired, faults>>

\* A success, conformant to ACP or not.
Delivers(r) ==
    /\ Answered(r)
    /\ Performed(r)
    /\ Ran(r, "answer", "yes") \/ Ran(r, "failed", "yes")

\* 400, 404, 405, 409 and 422 are relayed; other errors, and the gateway's own
\* after the call, become a 5xx.
Refuses(r) ==
    /\ Answered(r)
    /\ Ran(r, "answer", "unknown") \/ Ran(r, "failed", "unknown")

\* 429: merchants must send it before side effects.
RateLimits(r) ==
    /\ Answered(r)
    /\ r \notin acted
    /\ Ran(r, "failed", "no")

\* BACKEND_TIMEOUT, or the connection is lost; the merchant may still act.
GivesUp(r) ==
    /\ pc[r] = "calling"
    /\ Ran(r, "failed", "unknown")
    /\ UNCHANGED <<asked, claims, replied, lifecycle, merchantVars, retired, faults>>

-----------------------------------------------------------------------------
(* Recording the outcome, and the answer.                                  *)

\* Mutant: every 5xx frees the key.
VerdictFreesFailures(o) ==
    IF o.status = "answer" THEN "completed"
    ELSE IF o.status = "failed" THEN "released"
    ELSE "unresolved"

Verdict(o) ==
    IF o.status = "answer" THEN "completed"
    ELSE IF o.status = "failed" /\ (o.reached = "no" \/ MerchantIdempotent) THEN "released"
    ELSE "unresolved"

(***************************************************************************)
(* updateIdempotencyKey: by scope alone, whoever holds the row and in      *)
(* whatever state; nothing happens when there is none.                     *)
(***************************************************************************)
Updated(row, r, kind) ==
    IF row.state = "absent" \/ kind = "released" THEN NoClaim
    ELSE IF kind = "completed" THEN [row EXCEPT !.state = "completed", !.answer = r]
    ELSE [row EXCEPT !.state = "unresolved"]

Record(r) ==
    LET s == asked[r].scope
    IN  /\ pc[r] = "ran"
        /\ claims' = [claims EXCEPT ![s] = Updated(claims[s], r, Verdict(outcome[r]))]
        /\ Goto(r, "recorded")
        /\ UNCHANGED <<asked, outcome, replied, lifecycle, merchantVars, retired, faults>>

\* The write fails: 500, and the row stays in flight until the next start.
RecordFails(r) ==
    /\ pc[r] = "ran"
    /\ Fault
    /\ Goto(r, "unrecorded")
    /\ AnswerAgent(r, "failed", r)
    /\ UNCHANGED <<asked, claims, outcome, lifecycle, merchantVars, retired>>

SendResponse(r) ==
    /\ pc[r] = "recorded"
    /\ Goto(r, "done")
    /\ AnswerAgent(r, IF outcome[r].status = "answer" THEN "answer" ELSE "failed", r)
    /\ UNCHANGED <<asked, claims, outcome, lifecycle, merchantVars, retired, faults>>

-----------------------------------------------------------------------------
(* The environment.                                                        *)

\* The row's expires_at passes.
Expire(s) ==
    /\ claims[s].state # "absent"
    /\ ~claims[s].due
    /\ claims' = [claims EXCEPT ![s].due = TRUE]
    /\ UNCHANGED <<asked, handlerVars, merchantVars, retired, faults>>

\* The gateway drains its requests first; an embedder may stop the adapter alone.
Stop ==
    /\ lifecycle = "running"
    /\ lifecycle' = "stopped"
    /\ UNCHANGED <<asked, claims, pc, outcome, replied, merchantVars, retired, faults>>

\* The process ends at any point, after a stop or without one.
Crash ==
    /\ lifecycle # "down"
    /\ Fault
    /\ lifecycle' = "down"
    /\ pc' = [r \in Request |-> IF pc[r] \in Running THEN "cut" ELSE pc[r]]
    /\ UNCHANGED <<asked, claims, outcome, replied, merchantVars, retired>>

\* Mutant: a start recovers nothing.
RecoveredNot(row) == row

\* recoverIdempotencyKeys: what is in flight at start has lost its handler.
Recovered(row) ==
    IF row.state # "in_flight" THEN row
    ELSE IF MerchantIdempotent THEN NoClaim
    ELSE [row EXCEPT !.state = "unresolved"]

Start ==
    /\ lifecycle = "down"
    /\ lifecycle' = "running"
    /\ claims' = [s \in Scope |-> Recovered(claims[s])]
    /\ UNCHANGED <<asked, pc, outcome, replied, merchantVars, retired, faults>>

HandlerStep(r) ==
    \/ PassGuards(r) \/ Unavailable(r) \/ Claim(r) \/ ClaimFails(r)
    \/ NotExecuted(r) \/ Execute(r) \/ FailsBeforeBackend(r) \/ CallMerchant(r)
    \/ Delivers(r) \/ Refuses(r) \/ RateLimits(r) \/ GivesUp(r)
    \/ Record(r) \/ RecordFails(r) \/ SendResponse(r)

AcpNext ==
    \/ \E r \in Request : HandlerStep(r) \/ MerchantActs(r)
    \/ \E s \in Scope : Expire(s)
    \/ Stop \/ Crash \/ Start

AcpSpec == AcpInit /\ [][AcpNext]_acpVars

(***************************************************************************)
(* Handlers run on (a merchant call ends in BACKEND_TIMEOUT at the latest) *)
(* and a gateway that went down is started again.                          *)
(***************************************************************************)
AcpFairness == (\A r \in Request : WF_acpVars(HandlerStep(r))) /\ WF_acpVars(Start)

-----------------------------------------------------------------------------
\* Every variable keeps its type; a row has the states that the schema allows.
AcpTypeOK ==
    /\ asked \in [Request -> [scope : Scope, body : Body]]
    /\ claims \in [Scope -> Claimed]
    /\ pc \in [Request -> Pc]
    /\ outcome \in [Request -> Outcome]
    /\ replied \in [Request -> Reply]
    /\ lifecycle \in {"running", "stopped", "down"}
    /\ calls \in [Request -> {"none", "open", "over"}]
    /\ acted \subseteq Request
    /\ retired \subseteq Request
    /\ faults \in 0..MaxFaults

\* Until a stored answer has expired, the merchant carries out at most one
\* operation under a key (dispatch and recoverIdempotencyKeys), whatever is
\* retried, lost, late or interrupted by a crash.
OneEffectPerKey ==
    \A q, r \in acted :
        asked[q].scope = asked[r].scope /\ q # r => q \in retired \/ r \in retired

\* Until it has expired, the answer to a key is one answer to one body: two
\* requests that are answered (by dispatch's `complete` or a replay) get the
\* response of the same run, and of a run of the body they sent.
OneAnswerPerKey ==
    \A q, r \in Request :
        /\ replied[q].kind = "answer" /\ replied[q].of \notin retired
        /\ replied[r].kind = "answer" /\ replied[r].of \notin retired
        /\ asked[q].scope = asked[r].scope
        => replied[q].of = replied[r].of /\ asked[q].body = asked[r].body

\* While the gateway is up, a key that answers "still being processed" is
\* processed, or its outcome could not be written (claim, recoverIdempotencyKeys
\* and the unconditional updates of updateIdempotencyKey).
InFlightHasHandler ==
    lifecycle # "down" =>
        \A s \in Scope :
            claims[s].state = "in_flight" => pc[claims[s].by] \in Owning \cup {"unrecorded"}

\* No handler, sweep or start changes an unresolved row's state: only an operator
\* clears it ("Only `completed` rows expire", acp/idempotency/store.ts).
UnresolvedIsKept ==
    [][\A s \in Scope :
        claims[s].state = "unresolved" => claims'[s].state = "unresolved"]_acpVars

\* An in-flight key is decided, unless the write of its outcome failed and the
\* gateway has not been started again (dispatch, recoverIdempotencyKeys).
EveryClaimIsDecided ==
    \A s \in Scope :
        claims[s].state = "in_flight" ~>
            \/ claims[s].state # "in_flight"
            \/ pc[claims[s].by] = "unrecorded"
=============================================================================
