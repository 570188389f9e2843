------------------------------ MODULE HoldStore ------------------------------
(***************************************************************************)
(* Authorization holds (src/storage/receipts/holds.ts): one row per AP2    *)
(* mandate reference, moved by two IMMEDIATE transactions, `reserve` and   *)
(* `transition`.  Several mandates can bind the same checkout, so a        *)
(* reservation looks at the binding as well as at the reference.  The      *)
(* callers are arbitrary here: any request may present any mandate, and    *)
(* any request may ask for any transition at any time, late or twice.      *)
(***************************************************************************)
EXTENDS Requests

CONSTANTS
    Mandate,       \* mandate references (the primary key of the hold table)
    BindingOf      \* the checkout each mandate is bound to

VARIABLE
    holds          \* the authorization_holds table

HoldState == {"absent", "reserved", "consumed", "released", "uncertain"}

\* The states `transition` accepts as a target.
HoldTarget == {"consumed", "released", "uncertain"}

Hold == [state : HoldState, req : Request \cup {NoRequest}]

NoHold == [state |-> "absent", req |-> NoRequest]

\* A live row blocks its reference and its binding.
LiveHold(m) == holds[m].state \notin {"absent", "released"}

HoldInit == holds = [m \in Mandate |-> NoHold]

\* Mutant: the binding lookup is forgotten.
HoldReplayedByReferenceOnly(m) == LiveHold(m)

\* Mutant: an uncertain hold counts as free.
HoldReplayedUnlessUncertain(m) ==
    \/ LiveHold(m) /\ holds[m].state # "uncertain"
    \/ \E n \in Mandate \ {m} : BindingOf[n] = BindingOf[m] /\ LiveHold(n)

(***************************************************************************)
(* reserve: refused while the reference is live, or another live reference *)
(* has the same binding; otherwise the row is inserted or re-reserved.     *)
(***************************************************************************)
HoldReplayed(m) ==
    \/ LiveHold(m)
    \/ \E n \in Mandate \ {m} : BindingOf[n] = BindingOf[m] /\ LiveHold(n)

ReserveHold(m, r) ==
    /\ ~HoldReplayed(m)
    /\ holds' = [holds EXCEPT ![m] = [state |-> "reserved", req |-> r]]

(***************************************************************************)
(* transition: moves a reserved or uncertain row of the same request.      *)
(* HoldAcknowledged is the boolean the transaction returns: a repeated     *)
(* transition succeeds, and so does the release of a hold that has since   *)
(* been handed to another request.  The statement also moves a row of any  *)
(* request for a caller that names none; every caller in the gateway and   *)
(* in reconcile names its request.                                         *)
(***************************************************************************)
HoldMoves(m, r) ==
    /\ holds[m].state \in {"reserved", "uncertain"}
    /\ holds[m].req = r

TransitionHold(m, to, r) ==
    holds' = IF HoldMoves(m, r) THEN [holds EXCEPT ![m].state = to] ELSE holds

HoldAcknowledged(m, to, r) ==
    \/ HoldMoves(m, r)
    \/ /\ holds[m].state # "absent"
       /\ IF holds[m].req # r THEN to = "released" ELSE holds[m].state = to

HoldNext ==
    \E m \in Mandate, r \in Request :
        \/ ReserveHold(m, r)
        \/ \E to \in HoldTarget : TransitionHold(m, to, r)

HoldSpec == HoldInit /\ [][HoldNext]_holds

-----------------------------------------------------------------------------
\* Every row has a state the table's CHECK constraint allows (holds.ts HoldRow).
HoldTypeOK == holds \in [Mandate -> Hold]

\* Two live holds never share a checkout: a second mandate for a checkout that
\* is being paid, or was paid, is refused (selectLiveBinding in `reserve`),
\* whatever was released and reserved again in between.
OneLiveHoldPerBinding ==
    \A m, n \in Mandate :
        (m # n /\ BindingOf[m] = BindingOf[n]) => ~(LiveHold(m) /\ LiveHold(n))

\* A hold leaves a request only by being released first: no late transition and
\* no reservation can take it over, and a consumed mandate stays consumed.
HoldHandover ==
    [][\A m \in Mandate :
         /\ holds[m].state = "consumed" => holds'[m] = holds[m]
         /\ holds'[m].req # holds[m].req =>
              /\ holds[m].state \in {"absent", "released"}
              /\ holds'[m].state = "reserved"]_holds
=============================================================================
