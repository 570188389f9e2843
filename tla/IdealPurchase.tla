---------------------------- MODULE IdealPurchase ----------------------------
(***************************************************************************)
(* What the gateway promises about money, without stores, facilitators,    *)
(* crashes or retries: a signed authorization is charged at most once, for *)
(* one request; two requests whose mandates are bound to one checkout are  *)
(* never both charged; and a response is served only to the request that   *)
(* was charged for it, once.  docs/payment-flow.md calls these the replay  *)
(* defences; the statement here is taken from what the code keeps.         *)
(***************************************************************************)
EXTENDS Requests

CONSTANTS Key, Mandate, NoMandate, BindingOf

VARIABLES
    order,         \* what each request buys
    charged,       \* the request each authorization was charged for
    served         \* the requests whose response was delivered

idealVars == <<order, charged, served>>

IdealInit ==
    /\ charged = [k \in Key |-> NoRequest]
    /\ served = {}

SameCheckout(q, r) ==
    /\ order[q].mandate # NoMandate
    /\ order[r].mandate # NoMandate
    /\ BindingOf[order[q].mandate] = BindingOf[order[r].mandate]

Charge(r) ==
    /\ charged[order[r].key] = NoRequest
    /\ \A q \in Request \ {r} :
         charged[order[q].key] = q => ~SameCheckout(q, r)
    /\ charged' = [charged EXCEPT ![order[r].key] = r]
    /\ UNCHANGED <<order, served>>

Serve(r) ==
    /\ charged[order[r].key] = r
    /\ r \notin served
    /\ served' = served \cup {r}
    /\ UNCHANGED <<order, charged>>

IdealNext == \E r \in Request : Charge(r) \/ Serve(r)

IdealSpec == IdealInit /\ [][IdealNext]_idealVars
=============================================================================
