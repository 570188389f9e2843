---------------------------- MODULE MCReconcile ----------------------------
(* Instances of Reconcile for TLC.                                         *)
EXTENDS Reconcile, TLC
CONSTANTS k1, k2, m1, m2

\* Both mandates are bound to one checkout.
OneCheckout == (m1 :> "c") @@ (m2 :> "c")

\* One signed authorization presented again and again, on either rail and in
\* either settlement order, without a mandate.
SameAuthorization == [key : {k1}, mandate : {NoMandate}, rail : Rail, deferred : BOOLEAN]

\* The same under the rails' default flows: x402 settles after the backend, MPP
\* before it.
DefaultFlows ==
    {[key |-> k1, mandate |-> NoMandate, rail |-> "x402", deferred |-> TRUE],
     [key |-> k1, mandate |-> NoMandate, rail |-> "mpp", deferred |-> FALSE]}

\* Two mandates of one checkout, each with its own authorization and flow.
SharedCheckout ==
    {[key |-> k1, mandate |-> m1, rail |-> "x402", deferred |-> TRUE],
     [key |-> k2, mandate |-> m2, rail |-> "x402", deferred |-> FALSE]}

\* Chains whose records are all within reach.
AllProven == [k \in Key |-> ResolvedStatus]

\* A Solana authorization, whose transfer can be found and its absence not; and
\* one on an EVM chain whose logs are gone, of which only the unused nonce shows.
HalfProven == (k1 :> {"settled"}) @@ (k2 :> {"rejected"})

\* One mandate and one authorization of either kind.
EitherOrder ==
    {[key |-> k, mandate |-> m1, rail |-> "x402", deferred |-> TRUE] : k \in {k1, k2}}

\* One mandate, one authorization.
OneOrder == {[key |-> k1, mandate |-> m1, rail |-> "x402", deferred |-> TRUE]}

Symmetry == Permutations(Request)
=============================================================================
