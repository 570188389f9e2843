------------------------------ MODULE Reconcile ------------------------------
(***************************************************************************)
(* Reconciliation (src/core/execution/reconcile.ts) beside a running       *)
(* gateway: `agent-commerce reconcile` runs and manual resolutions read an *)
(* attempt, ask for chain evidence, and write a resolution with a          *)
(* compare-and-set; hold scans read the journal, move the hold at the      *)
(* provider and then journal it; orphan scans release holds that never got *)
(* an attempt.  Each resolver acts on what it read earlier.                *)
(***************************************************************************)
EXTENDS Pipeline

CONSTANTS
    Resolver,  \* concurrent reconcile runs and manual resolutions
    Proves     \* what chain evidence can prove of each authorization: either
               \* verdict on EVM and NEAR, `settled` alone on Solana, and less
               \* where the record is gone or out of the search's reach

ASSUME ProvesAssumption == Proves \in [Key -> SUBSET ResolvedStatus]

VARIABLE resolver  \* what each resolver is doing, and on which snapshot

vars == <<pipelineVars, resolver>>

Idle == [at |-> "idle"]

\* ask, resolve: one payment candidate; reread: the hold of a manual resolution;
\* align, align-journal: a pending hold; orphan: a hold without an attempt.
Task ==
    {Idle}
    \cup [at : {"ask"}, id : Request, expected : OpenStatus]
    \cup [at : {"resolve"}, id : Request, expected : OpenStatus,
          status : ResolvedStatus, method : Method]
    \cup [at : {"reread"}, id : Request]
    \cup [at : {"align", "align-journal"}, id : Request, target : HoldTarget]
    \cup [at : {"orphan"}, id : Request, mandate : Mandate]

Init == PipelineInit /\ resolver = [x \in Resolver |-> Idle]

Do(x, task) == resolver' = [resolver EXCEPT ![x] = task]

\* The journal joins a transaction with its attempt, current or archived.
StatusOf(r) ==
    IF attempts[KeyOf(r)].id = r THEN attempts[KeyOf(r)].status
    ELSE IF \E h \in history : h.row.id = r
         THEN (CHOOSE h \in history : h.row.id = r).row.status
         ELSE "absent"

\* Mutant: attempts that a crash left reserved are not candidates.
UnresolvedUncertainOnly(r) ==
    /\ attempts[KeyOf(r)].id = r
    /\ attempts[KeyOf(r)].resolution = "none"
    /\ attempts[KeyOf(r)].status = "settlement-uncertain"

\* `reserved` and `settlement-uncertain` without a resolution.  --min-age may
\* be zero, so a reserved attempt is a candidate even while its request runs.
Unresolved(r) ==
    /\ attempts[KeyOf(r)].id = r
    /\ attempts[KeyOf(r)].resolution = "none"
    /\ attempts[KeyOf(r)].status \in OpenStatus

\* collectCandidates.
Collect(x) ==
    /\ resolver[x] = Idle
    /\ \E r \in Request :
         /\ Unresolved(r)
         /\ Do(x, [at |-> "ask", id |-> r, expected |-> attempts[KeyOf(r)].status])
    /\ UNCHANGED pipelineVars

\* What became of the authorization.
Truth(k) ==
    CASE chain[k].st = "landed" -> "settled"
      [] k \in expired /\ chain[k].st # "landed" -> "rejected"
      [] OTHER -> "unknown"

\* provider.reconcile: what of it the chain still shows.  A final transfer proves
\* settlement; an authorization that expired unused proves non-settlement, except
\* on Solana; used_without_record, search_window_too_wide, history_too_long and
\* blockhash_expired stay unknown.
Evidence(k) == IF Truth(k) \in Proves[k] THEN Truth(k) ELSE "unknown"

\* ask, and the loop's decision to write.  A provider that throws, or answers
\* with anything but a verdict, counts as unknown.
Ask(x) ==
    /\ resolver[x].at = "ask"
    /\ LET task == resolver[x]
           found == Evidence(KeyOf(task.id))
       IN  \/ /\ found # "unknown"
              /\ NoFault
              /\ Do(x, [at |-> "resolve", id |-> task.id, expected |-> task.expected,
                        status |-> found, method |-> "reconcile"])
           \/ found = "unknown" /\ NoFault /\ Do(x, Idle)
           \/ Fault /\ Do(x, Idle)
    /\ UNCHANGED <<storeVars, flowVars, worldVars>>

\* resolveManually up to its write: the operator's verdict is what the chain
\* shows, `rejected` is refused before the expiry, and a reserved attempt must
\* be 15 minutes old.
ManualVerdict(x) ==
    /\ resolver[x] = Idle
    /\ \E r \in Request, status \in ResolvedStatus :
         /\ Unresolved(r)
         /\ status = "settled" <=> chain[KeyOf(r)].st = "landed"
         /\ status = "rejected" => KeyOf(r) \in expired
         /\ Do(x, [at |-> "resolve", id |-> r, expected |-> attempts[KeyOf(r)].status,
                   status |-> status, method |-> "manual"])
    /\ UNCHANGED pipelineVars

\* Mutant: holds still reserved in the journal are not aligned.
HoldTargetOfUncertainOnly(r) ==
    IF journal[r].hold # "uncertain" THEN "none"
    ELSE CASE StatusOf(r) = "settled" -> "consumed"
           [] StatusOf(r) = "rejected" -> "released"
           [] OTHER -> "none"

\* holdTarget: the hold a resolved payment should have, while the journal says
\* it is reserved or uncertain.
HoldTargetOf(r) ==
    IF journal[r].hold \notin {"reserved", "uncertain"} THEN "none"
    ELSE CASE StatusOf(r) = "settled" -> "consumed"
           [] StatusOf(r) = "rejected" -> "released"
           [] OTHER -> "none"

\* resolvePaymentAttempt.  A manual resolution that was written goes on to its
\* own hold.
Resolve(x) ==
    /\ resolver[x].at = "resolve"
    /\ LET task == resolver[x]
           k == KeyOf(task.id)
       IN  \/ /\ ResolveAttempt(k, task.id, task.expected, task.status, task.method)
              /\ NoFault
              /\ Do(x, IF task.method = "manual" THEN [at |-> "reread", id |-> task.id] ELSE Idle)
           \/ /\ ~Resolvable(k, task.id, task.expected)
              /\ NoFault
              /\ Do(x, Idle)
              /\ UNCHANGED <<attempts, history>>
           \/ Fault /\ Do(x, Idle) /\ UNCHANGED <<attempts, history>>
    /\ UNCHANGED <<holds, journal, receipts, flowVars, worldVars>>

AlignTask(r) == [at |-> "align", id |-> r, target |-> HoldTargetOf(r)]

\* resolveManually reads the transaction again to find what its hold should be.
Reread(x) ==
    /\ resolver[x].at = "reread"
    /\ LET r == resolver[x].id
       IN  Do(x, IF HoldTargetOf(r) = "none" THEN Idle ELSE AlignTask(r))
    /\ UNCHANGED pipelineVars

\* alignPendingHolds picks a transaction whose payment is resolved.
PendingHold(x) ==
    /\ resolver[x] = Idle
    /\ \E r \in Request : HoldTargetOf(r) # "none" /\ Do(x, AlignTask(r))
    /\ UNCHANGED pipelineVars

\* alignHold: the provider first, bound to the reserving request.
Align(x) ==
    /\ resolver[x].at = "align"
    /\ LET task == resolver[x]
           m == MandateOf(task.id)
       IN  \/ /\ TransitionHold(m, task.target, task.id)
              /\ NoFault
              /\ Do(x, IF HoldAcknowledged(m, task.target, task.id)
                       THEN [at |-> "align-journal", id |-> task.id, target |-> task.target]
                       ELSE Idle)
           \/ Fault /\ Do(x, Idle) /\ UNCHANGED holds
    /\ UNCHANGED <<attempts, history, journal, receipts, flowVars, worldVars>>

\* alignHold: then the journal.
AlignJournal(x) ==
    /\ resolver[x].at = "align-journal"
    /\ Do(x, Idle)
    /\ \/ /\ journal' = [journal EXCEPT ![resolver[x].id].hold = resolver[x].target]
          /\ NoFault
       \/ Fault /\ UNCHANGED journal
    /\ UNCHANGED <<attempts, history, holds, receipts, flowVars, worldVars>>

\* The age threshold of the orphan scan, taken as what it is for: a request
\* does not stay between its two reservations for that long.
OlderThanMinAge(r) == pc[r] # "held"

\* ORPHAN_HOLD_WHERE: reserved, old enough, and no attempt of that request.
Orphan(m) ==
    /\ holds[m].state = "reserved"
    /\ OlderThanMinAge(holds[m].req)
    /\ holds[m].req \notin AttemptIds

ListOrphan(x) ==
    /\ resolver[x] = Idle
    /\ \E m \in Mandate :
         /\ Orphan(m)
         /\ Do(x, [at |-> "orphan", id |-> holds[m].req, mandate |-> m])
    /\ UNCHANGED pipelineVars

\* releaseOrphanHolds releases with the request id it listed.
ReleaseOrphan(x) ==
    /\ resolver[x].at = "orphan"
    /\ Do(x, Idle)
    /\ \/ TransitionHold(resolver[x].mandate, "released", resolver[x].id) /\ NoFault
       \/ Fault /\ UNCHANGED holds
    /\ UNCHANGED <<attempts, history, journal, receipts, flowVars, worldVars>>

\* A resolver process dies between two of its steps.
ResolverCrash(x) ==
    /\ resolver[x] # Idle
    /\ Fault
    /\ Do(x, Idle)
    /\ UNCHANGED <<storeVars, flowVars, worldVars>>

ResolverStep(x) ==
    \/ Collect(x) \/ Ask(x) \/ ManualVerdict(x) \/ Resolve(x)
    \/ Reread(x) \/ PendingHold(x) \/ Align(x) \/ AlignJournal(x)
    \/ ListOrphan(x) \/ ReleaseOrphan(x)
    \/ ResolverCrash(x)

Next ==
    \/ PipelineNext /\ UNCHANGED resolver
    \/ \E x \in Resolver : ResolverStep(x)

Spec == Init /\ [][Next]_vars

-----------------------------------------------------------------------------
\* The stores, the flows and every resolver snapshot have their types.
TypeOK ==
    /\ PipelineTypeOK
    /\ resolver \in [Resolver -> Task]

Landed(r) == chain[KeyOf(r)] = [st |-> "landed", by |-> r]

\* The submission of r can still put a transfer on chain.
MayLand(r) == chain[KeyOf(r)] = [st |-> "open", by |-> r] /\ KeyOf(r) \notin expired

Delivered(r) == pc[r] = "done" /\ outcome[r] = "delivered"

\* A row that says `settled` names the attempt whose transfer landed, whoever
\* wrote it: the pipeline, a late update keyed by the replay key, or a resolver.
SettledRowsLanded ==
    \A r \in Request : StatusOf(r) = "settled" => Landed(r)

\* A row that says `rejected`, current or archived, moved no money and never
\* will: neither a reclaim nor a release of its mandate can double a charge.
RejectedRowsMovedNothing ==
    \A r \in Request : StatusOf(r) = "rejected" => ~Landed(r) /\ ~MayLand(r)

\* A mandate stays with the purchase it paid for: while a transfer landed or may
\* land, its hold is neither released nor passed on, so two purchases are never
\* paid on one mandate or on two mandates of one checkout.
PaidMandateIsKept ==
    \A r \in Request :
        (Authorized(r) /\ (Landed(r) \/ MayLand(r))) =>
            holds[MandateOf(r)].req = r /\ LiveHold(MandateOf(r))

\* A consumed mandate paid for something: consume follows a proven transfer.
ConsumedMandateIsPaid ==
    \A m \in Mandate : holds[m].state = "consumed" => Landed(holds[m].req)

\* Nothing submitted under key k can move money any more, and money that moved
\* is recorded as settled.
KeyClosed(k) ==
    /\ \A r \in Request : KeyOf(r) = k => ~MayLand(r)
    /\ chain[k].st = "landed" => attempts[k].status = "settled"

\* The gateway asks for another payment, or says that nothing was charged, only
\* when nothing that was submitted of the presented authorization can still move
\* money unrecorded (replayError, refusalFor, settle's throws).  A copy of the
\* request that is verified and has yet to reserve is not looked for.
RetryInvitedOnlyWhenClosed ==
    [][\A r \in Request :
         (outcome'[r] # outcome[r] /\ outcome'[r] \in {"challenge", "nothing-charged"}) =>
            KeyClosed(KeyOf(r))']_vars

\* The state an operator reads for r, the backend deadline being in the future
\* or not.
StateOf(r, beforeDeadline) ==
    TransactionStateOf(StatusOf(r), journal[r].backend, journal[r].completed, beforeDeadline)

\* What docs/security.md tells an operator: a paid purchase that was not
\* delivered is found among the undelivered receipts or among the unresolved
\* transactions.
PaidUndeliveredIsVisible ==
    \A r \in Request :
        (StatusOf(r) = "settled" /\ pc[r] \in {"done", "dead"} /\ ~Delivered(r)) =>
            \/ receipts[r] = "undelivered"
            \/ StateOf(r, FALSE) \notin ResolvedStates

\* The abstract promise: each authorization is charged once, each checkout once,
\* and only charged requests are served.
Ideal == INSTANCE IdealPurchase WITH
    charged <- [k \in Key |-> IF chain[k].st = "landed" THEN chain[k].by ELSE NoRequest],
    served <- {r \in Request : Delivered(r)}

\* Every step of the gateway, its resolvers and the chain is a step of the ideal
\* purchase or changes nothing that it sees.
RefinesIdeal == Ideal!IdealSpec

-----------------------------------------------------------------------------
(***************************************************************************)
(* Liveness.  The gateway's event loop runs every request that is not cut  *)
(* off, clocks advance, and `reconcile` is run again and again; a run      *)
(* visits every candidate, so no one of them is passed over forever.  What *)
(* a run reports as unknown for good an operator resolves by hand, as      *)
(* docs/payment-flow.md says; a manual verdict that evidence could reach   *)
(* is never relied on.                                                     *)
(***************************************************************************)

Takes(x, r) == resolver[x].at = "idle" /\ resolver'[x].at # "idle" /\ resolver'[x].id = r

\* The attempt of r is beyond what reconcile runs can decide.
NeedsOperator(r) == Truth(KeyOf(r)) \in ResolvedStatus \ Proves[KeyOf(r)]

Fairness ==
    /\ \A r \in Request : WF_vars(RequestStep(r) /\ UNCHANGED resolver)
    /\ \A k \in Key : WF_vars(Expire(k) /\ UNCHANGED resolver)
    /\ \A x \in Resolver :
         /\ WF_vars(\/ Ask(x) \/ Resolve(x) \/ Reread(x)
                   \/ Align(x) \/ AlignJournal(x) \/ ReleaseOrphan(x))
         /\ \A r \in Request :
              /\ SF_vars(Collect(x) /\ Takes(x, r))
              /\ SF_vars(PendingHold(x) /\ Takes(x, r))
              /\ SF_vars(ListOrphan(x) /\ Takes(x, r))
              /\ SF_vars(ManualVerdict(x) /\ Takes(x, r) /\ NeedsOperator(r))

FairSpec == Spec /\ Fairness

\* Every attempt is eventually decided, also after a crash, a lost answer or a
\* failed write: by its request, by a run, or, where evidence proves nothing, by
\* the operator, whose verdict no check of resolveManually keeps out for good.
EveryAttemptIsDecided ==
    \A r \in Request :
        StatusOf(r) \in {"reserved", "settlement-uncertain"} ~>
            StatusOf(r) \in {"settled", "rejected"}

\* Every mandate is eventually consumed or given back: neither a crash between
\* the two reservations nor a failed finalization blocks it once its payment is
\* decided.
EveryHoldIsDecided ==
    \A m \in Mandate :
        holds[m].state \in {"reserved", "uncertain"} ~>
            holds[m].state \in {"consumed", "released"}
=============================================================================
