-------------------------- MODULE TransactionState --------------------------
(***************************************************************************)
(* The state an operator reads for a journaled purchase: a function of the *)
(* payment status, the recorded backend facts, the completion mark and the *)
(* clock (transactionState in src/core/domain/transaction.ts).             *)
(***************************************************************************)

\* What the journal knows of the backend call: never dispatched, dispatched
\* without a result, ended without a status (0), a 2xx or another status.
BackendFact == {"none", "pending", "zero", "ok", "error"}

TransactionStates ==
    {"payment-pending", "payment-failed", "payment-uncertain", "settled-undelivered",
     "delivery-started", "delivery-unknown", "delivered"}

\* beforeDeadline: the recorded backend deadline is still in the future.
TransactionStateOf(status, backend, completed, beforeDeadline) ==
    LET waiting == backend # "none" /\ ~completed /\ beforeDeadline
    IN  CASE status = "settlement-uncertain" -> "payment-uncertain"
          [] status = "rejected" -> "payment-failed"
          [] status = "reserved" ->
               IF waiting /\ backend = "pending" THEN "delivery-started" ELSE "payment-pending"
          [] status = "settled" /\ backend \in {"none", "error"} -> "settled-undelivered"
          [] status = "settled" /\ backend = "ok" /\ completed -> "delivered"
          [] status = "settled" /\ backend \in {"pending", "ok"} /\ waiting -> "delivery-started"
          [] OTHER -> "delivery-unknown"

\* The states GET /api/transactions?unresolved=true leaves out.
ResolvedStates == {"delivered", "payment-failed"}
=============================================================================
