---------------------------- MODULE AttemptStore ----------------------------
(***************************************************************************)
(* Payment attempts (src/storage/receipts/store.ts): one current row per   *)
(* replay key (UNIQUE), the rejected rows that a reclaim replaced, and the *)
(* three transactions that change them: `reserve`, `updateAttempt` and     *)
(* `resolveAttempt`.  An attempt id is drawn for each reservation; since a *)
(* request reserves at most once, the request itself names its attempt.    *)
(*                                                                         *)
(* The callers are arbitrary here: the pipeline's updates are keyed by the *)
(* replay key, so they may arrive late; resolvers act on what they read    *)
(* some time before.                                                       *)
(***************************************************************************)
EXTENDS Requests

CONSTANTS
    Key            \* replay keys (one per signed payment authorization)

\* The payment providers that record attempts.
Rail == {"x402", "mpp"}

VARIABLES
    attempts,      \* the payment_attempts table, by replay key
    history        \* the payment_attempt_history table, a set of rows

\* `failed` is a legacy status that no current code path writes.
AttemptStatus == {"reserved", "settled", "rejected", "settlement-uncertain"}

UpdateStatus == AttemptStatus \ {"reserved"}
ResolvedStatus == {"settled", "rejected"}

\* The statuses that a resolver takes up and expects to find again.
OpenStatus == {"reserved", "settlement-uncertain"}
Method == {"reconcile", "manual"}

Row ==
    [id : Request \cup {NoRequest}, rail : Rail,
     status : AttemptStatus \cup {"absent"}, resolution : Method \cup {"none"}]

NoRow == [id |-> NoRequest, rail |-> "x402",
          status |-> "absent", resolution |-> "none"]

Archived == [key : Key, row : Row]

AttemptInit ==
    /\ attempts = [k \in Key |-> NoRow]
    /\ history = {}

AttemptIds ==
    {attempts[k].id : k \in Key} \cup {h.row.id : h \in history}

(***************************************************************************)
(* reserve: with reclaimRejected, a rejected row of the same provider is   *)
(* archived and replaced; otherwise the key must be unused.                *)
(***************************************************************************)
Reclaimable(k, rail, reclaimRejected) ==
    /\ reclaimRejected
    /\ attempts[k].rail = rail
    /\ attempts[k].status = "rejected"

Replayed(k, rail, reclaimRejected) ==
    /\ attempts[k].status # "absent"
    /\ ~Reclaimable(k, rail, reclaimRejected)

ReserveAttempt(r, k, rail, reclaimRejected) ==
    /\ ~Replayed(k, rail, reclaimRejected)
    /\ history' = IF attempts[k].status = "absent" THEN history
                  ELSE history \cup {[key |-> k, row |-> attempts[k]]}
    /\ attempts' = [attempts EXCEPT
         ![k] = [id |-> r, rail |-> rail, status |-> "reserved", resolution |-> "none"]]

\* Mutant: the update no longer asks for an unresolved row.
UpdatableResolved(k) == attempts[k].status # "absent"

(***************************************************************************)
(* updateAttempt: by replay key, on a row that has no resolution.  On any  *)
(* other row nothing changes and the caller gets STORAGE_ERROR.            *)
(***************************************************************************)
Updatable(k) ==
    /\ attempts[k].status # "absent"
    /\ attempts[k].resolution = "none"

UpdateAttempt(k, status) ==
    /\ Updatable(k)
    /\ attempts' = [attempts EXCEPT ![k].status = status]
    /\ UNCHANGED history

(***************************************************************************)
(* resolveAttempt: a compare-and-set on the attempt id, the status that    *)
(* the resolver read, and the absence of a resolution.                     *)
(***************************************************************************)
Resolvable(k, id, expected) ==
    /\ attempts[k].id = id
    /\ attempts[k].status = expected
    /\ attempts[k].resolution = "none"

ResolveAttempt(k, id, expected, status, method) ==
    /\ Resolvable(k, id, expected)
    /\ attempts' = [attempts EXCEPT ![k].status = status, ![k].resolution = method]
    /\ UNCHANGED history

AttemptStep(k) ==
    \/ \E r \in Request \ AttemptIds, rail \in Rail, reclaim \in BOOLEAN :
           ReserveAttempt(r, k, rail, reclaim)
    \/ \E status \in UpdateStatus : UpdateAttempt(k, status)
    \/ \E id \in Request, expected \in OpenStatus,
          status \in ResolvedStatus, method \in Method :
           ResolveAttempt(k, id, expected, status, method)

AttemptNext == \E k \in Key : AttemptStep(k)

AttemptSpec == AttemptInit /\ [][AttemptNext]_<<attempts, history>>

-----------------------------------------------------------------------------
\* Both tables hold rows of the schema's shape (rows.ts PaymentAttemptRow).
AttemptTypeOK ==
    /\ attempts \in [Key -> Row]
    /\ history \subseteq Archived

\* Only a rejected attempt is ever superseded: a reserved, uncertain or settled
\* authorization never reaches the history table, so it can never be claimed by
\* a second purchase (archiveRejectedAttemptStmt, reclaimPaymentAttemptStmt).
SupersededWereRejected ==
    \A h \in history : h.row.status = "rejected"

\* Each reservation has exactly one row, current or archived: no reclaim
\* duplicates or loses an attempt (`reserve` archives and replaces in one
\* transaction), so a journal row's attempt_id always finds its status.
OneRowPerAttempt ==
    \A r \in Request :
        LET current == {k \in Key : attempts[k].id = r}
            past == {h \in history : h.row.id = r}
        IN  /\ \A k \in current : past = {}
            /\ \A k, j \in current : k = j
            /\ \A g, h \in past : g = h

\* A recorded resolution is final: no late pipeline update and no competing
\* resolver changes a resolved attempt; only a reclaim of a rejected one, which
\* archives it unchanged, replaces the row.
ResolutionIsFinal ==
    [][\A k \in Key :
         (attempts[k].resolution # "none" /\ attempts'[k] # attempts[k]) =>
            /\ attempts[k].status = "rejected"
            /\ [key |-> k, row |-> attempts[k]] \in history']_<<attempts, history>>
=============================================================================
