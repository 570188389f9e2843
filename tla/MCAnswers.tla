------------------------------ MODULE MCAnswers ------------------------------
(* What clients and operators are told, for TLC: the surfaces of a         *)
(* purchase, the readiness route and the journal's lists.  They share no   *)
(* state, so a behaviour exercises one of the three.                       *)
EXTENDS Surfaces, Readiness, TransactionJournal, TLC
CONSTANTS o1, o2
VARIABLE part

Families == (o1 :> "evm") @@ (o2 :> "svm")
Upstream == {Listing, <<o2, "token account">>}

\* Purchases in one state, for which rows that wait for a deadline are read as
\* well; those not resolved; and those a resolver walks for their holds.
Queries ==
    {[NoFilter EXCEPT !.state = "payment-failed"],
     [NoFilter EXCEPT !.unresolved = TRUE],
     [NoFilter EXCEPT !.pendingHold = TRUE]}

AnswersInit ==
    /\ part \in {"surface", "ready", "journal"}
    /\ SurfaceInit
    /\ ReadinessInit
    /\ Init
    /\ part # "surface" =>
        way = [surface |-> "http", rail |-> "x402", deferred |-> FALSE, carrier |-> "own"]

AnswersNext ==
    /\ \/ part = "surface" /\ SurfaceNext /\ UNCHANGED <<readinessVars, vars>>
       \/ part = "ready" /\ ReadinessNext /\ UNCHANGED <<surfaceVars, vars>>
       \/ part = "journal" /\ Next /\ UNCHANGED <<surfaceVars, readinessVars>>
    /\ UNCHANGED part

AnswersSpec == AnswersInit /\ [][AnswersNext]_<<part, surfaceVars, readinessVars, vars>>
=============================================================================
