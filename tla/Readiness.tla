------------------------------ MODULE Readiness ------------------------------
(***************************************************************************)
(* GET /ready over two caches (src/gateway/readiness.ts over               *)
(* src/payments/x402/provider/health.ts): the gateway memoizes one         *)
(* evaluation of store and providers, the x402 provider one probe of its   *)
(* offers; both let concurrent callers share the one in flight.  Meanwhile *)
(* something a purchase depends on goes down and comes back.  All the      *)
(* calls that a probe makes for an offer are read at one instant.          *)
(***************************************************************************)
EXTENDS Naturals

CONSTANTS
    Offer,
    Family,      \* evm, svm or near
    Local,       \* the offers settled by the local development facilitator
    Permit2,     \* the offers that settle through Permit2
    Outages,     \* bound: the dependencies that may go down
    ReadyTtl,    \* READINESS_TTL_MS
    HealthTtl,   \* HEALTH_CACHE_MS
    ProbeMax,    \* how long a probe may take: the calls for an offer are made one after
                 \* the other, each within HEALTH_TIMEOUT_MS or, for /supported,
                 \* SUPPORTED_TIMEOUT_MS
    Horizon      \* bound: the time at which the clock stops

ASSUME ReadinessConstants ==
    /\ Local \subseteq Offer /\ Permit2 \subseteq Offer
    /\ {ReadyTtl, HealthTtl, ProbeMax, Horizon} \subseteq Nat
    /\ ReadyTtl > 0

VARIABLES
    monotonicMs,  \* the clock
    outage,       \* the dependency that is down, or Nothing
    since,        \* when that last changed
    probing,      \* inFlightHealth
    healthCache,  \* cachedHealth
    evaluating,   \* inFlight of the readiness probe
    readyCache,   \* cached of the readiness probe
    told          \* the answer that /ready gives at this instant

readinessVars == <<monotonicMs, outage, since, probing, healthCache, evaluating, readyCache, told>>

Nothing == <<"nothing">>
Store == <<"store">>
Listing == <<"supported">>
NoProbe == [on |-> FALSE, start |-> 0, read |-> {}, listed |-> FALSE, ok |-> TRUE]
NoEvaluation == [on |-> FALSE, start |-> 0, store |-> TRUE, health |-> "waiting"]
NoCache == [set |-> FALSE, at |-> 0, ok |-> TRUE]
Fresh(cache, ttl) == cache.set /\ monotonicMs - cache.at < ttl

ReadinessInit ==
    /\ monotonicMs = 0
    /\ outage = Nothing
    /\ since = 0
    /\ probing = NoProbe
    /\ healthCache = NoCache
    /\ evaluating = NoEvaluation
    /\ readyCache = NoCache
    /\ told = "none"

-----------------------------------------------------------------------------
(* The provider's health.                                                  *)

\* offerHealth, for an EVM chain.
EvmChecks(o) ==
    {"chain id", "code", "decimals"} \union (IF o \in Permit2 THEN {"permit2"} ELSE {})
        \union (IF o \in Local THEN {"anvil"} ELSE {})

\* svmOfferHealth; without the payee's token account no payment simulates.
SvmChecks == {"peer", "cluster", "mint", "decimals", "token account"}

\* nearOfferHealth; a token without storage management needs no registration.
NearChecks == {"peer", "chain id", "code", "decimals", "storage"}

Checks(o) ==
    CASE Family[o] = "evm" -> EvmChecks(o)
      [] Family[o] = "svm" -> SvmChecks
      [] Family[o] = "near" -> NearChecks

\* What may go down is something that a purchase depends on and a probe looks at.
ASSUME OutagesAreProbed ==
    \A d \in Outages :
        \/ d = Store
        \/ d = Listing /\ ~(Offer \subseteq Local)
        \/ \E o \in Offer : \E k \in Checks(o) : d = <<o, k>>

Passes(o) == outage \notin {<<o, k>> : k \in Checks(o)}

StartedProbe == [NoProbe EXCEPT !.on = TRUE, !.start = monotonicMs]

\* health(), called by a user of the library or by an evaluation.
HealthCalled ==
    probing' = IF Fresh(healthCache, HealthTtl) \/ probing.on THEN probing ELSE StartedProbe

LibraryAsks ==
    /\ HealthCalled
    /\ UNCHANGED <<monotonicMs, outage, since, healthCache, evaluating, readyCache, told>>

ProbeOffer(o) ==
    /\ probing.on /\ o \notin probing.read
    /\ probing' = [probing EXCEPT !.read = @ \union {o}, !.ok = @ /\ Passes(o)]
    /\ UNCHANGED <<monotonicMs, outage, since, healthCache, evaluating, readyCache, told>>

\* kinds: one /supported for all the remote offers of a probe.
ProbeListing ==
    /\ probing.on /\ ~probing.listed /\ Offer \ Local # {}
    /\ probing' = [probing EXCEPT !.listed = TRUE, !.ok = @ /\ outage # Listing]
    /\ UNCHANGED <<monotonicMs, outage, since, healthCache, evaluating, readyCache, told>>

\* computeHealth ends: one failing offer fails the provider.
ProbeEnds ==
    /\ probing.on /\ probing.read = Offer
    /\ Offer \subseteq Local \/ probing.listed
    /\ healthCache' = [set |-> TRUE, at |-> monotonicMs, ok |-> probing.ok]
    /\ probing' = NoProbe
    /\ evaluating' = IF evaluating.on /\ evaluating.health = "waiting"
                     THEN [evaluating EXCEPT !.health = IF probing.ok THEN "pass" ELSE "fail"]
                     ELSE evaluating
    /\ UNCHANGED <<monotonicMs, outage, since, readyCache, told>>

-----------------------------------------------------------------------------
(* GET /ready.                                                             *)

AnswerReady(ready) == told' = IF ready THEN "ready" ELSE "unready"

\* Mutant: an answer from the cache starts its window again.
AnswerCachedSliding ==
    /\ Fresh(readyCache, ReadyTtl)
    /\ AnswerReady(readyCache.ok)
    /\ readyCache' = [readyCache EXCEPT !.at = monotonicMs]
    /\ UNCHANGED <<monotonicMs, outage, since, probing, healthCache, evaluating>>

AnswerCached ==
    /\ Fresh(readyCache, ReadyTtl)
    /\ AnswerReady(readyCache.ok)
    /\ UNCHANGED <<monotonicMs, outage, since, probing, healthCache, evaluating, readyCache>>

\* evaluate: the store answers at once, the provider from its cache or a probe.
Evaluate ==
    /\ ~Fresh(readyCache, ReadyTtl) /\ ~evaluating.on
    /\ HealthCalled
    /\ evaluating' = [on |-> TRUE, start |-> monotonicMs, store |-> outage # Store,
                      health |-> IF ~Fresh(healthCache, HealthTtl) THEN "waiting"
                                 ELSE IF healthCache.ok THEN "pass" ELSE "fail"]
    /\ UNCHANGED <<monotonicMs, outage, since, healthCache, readyCache, told>>

\* The evaluation ends and answers all who wait for it.
AnswerEvaluated ==
    /\ evaluating.on /\ evaluating.health # "waiting"
    /\ LET ready == evaluating.store /\ evaluating.health = "pass"
       IN  /\ readyCache' = [set |-> TRUE, at |-> monotonicMs, ok |-> ready]
           /\ AnswerReady(ready)
    /\ evaluating' = NoEvaluation
    /\ UNCHANGED <<monotonicMs, outage, since, probing, healthCache>>

-----------------------------------------------------------------------------
\* A probe's calls are bounded in number and each has a timeout, so that it ends
\* within ProbeMax, and so does an evaluation, which waits for at most one probe.
Passing ==
    /\ monotonicMs < Horizon
    /\ probing.on => monotonicMs - probing.start < ProbeMax
    /\ evaluating.on => monotonicMs - evaluating.start < ProbeMax
    /\ monotonicMs' = monotonicMs + 1
    /\ told' = "none"
    /\ UNCHANGED <<outage, since, probing, healthCache, evaluating, readyCache>>

WorldChanges ==
    /\ outage' \in (Outages \union {Nothing}) \ {outage}
    /\ since' = monotonicMs
    /\ UNCHANGED <<monotonicMs, probing, healthCache, evaluating, readyCache, told>>

ReadinessNext ==
    \/ LibraryAsks \/ ProbeListing \/ ProbeEnds
    \/ \E o \in Offer : ProbeOffer(o)
    \/ AnswerCached \/ Evaluate \/ AnswerEvaluated
    \/ Passing \/ WorldChanges

ReadinessSpec == ReadinessInit /\ [][ReadinessNext]_readinessVars

-----------------------------------------------------------------------------
\* However the two caches and the two shared flights overlap, /ready follows an
\* outage or a recovery within both windows and the two probes they hold
\* (createReadinessProbe over createHealthCheck).
AnswersAreRecent ==
    LET window == ReadyTtl + HealthTtl + 2 * ProbeMax
    IN  told # "none" /\ monotonicMs - since >= window =>
            (told = "ready" <=> outage = Nothing)

\* src/gateway/readiness.ts of READINESS_TTL_MS: "Short enough that an outage or a
\* recovery shows within one window".  Whatever has been down, or up again, for
\* that long is what /ready answers.
OutageShowsInOneWindow ==
    told # "none" /\ monotonicMs - since >= ReadyTtl => (told = "ready" <=> outage = Nothing)
=============================================================================
