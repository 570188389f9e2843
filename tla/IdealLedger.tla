----------------------------- MODULE IdealLedger -----------------------------
(***************************************************************************)
(* The life of a payment attempt, without ids, rails, resolvers or         *)
(* crashes: what the status column of payment_attempts                     *)
(* (src/storage/receipts/store.ts) may go through for one authorization.   *)
(* `settled` is the end of it.  A rejected authorization may be claimed    *)
(* again, and a late verdict may reopen it, since updateAttempt goes by    *)
(* the replay key; it never becomes settled without being open in between. *)
(* No row disappears.                                                      *)
(***************************************************************************)

CONSTANT Key

VARIABLE status    \* of each authorization's current attempt

LedgerInit == status = [k \in Key |-> "absent"]

Move(k, from, to) ==
    /\ status[k] \in from
    /\ status' = [status EXCEPT ![k] = to]

Claim(k) == Move(k, {"absent", "rejected"}, "reserved")
Doubt(k) == Move(k, {"reserved", "rejected"}, "settlement-uncertain")
Settle(k) == Move(k, {"reserved", "settlement-uncertain"}, "settled")
Reject(k) == Move(k, {"reserved", "settlement-uncertain"}, "rejected")

LedgerNext == \E k \in Key : Claim(k) \/ Doubt(k) \/ Settle(k) \/ Reject(k)

LedgerSpec == LedgerInit /\ [][LedgerNext]_status
=============================================================================
