--------------------------- MODULE X402Settlement ---------------------------
(***************************************************************************)
(* One verified x402 payment from settle() on: the call to the             *)
(* facilitator, the chain the transfer may land on, and the verdict the    *)
(* provider draws from the facilitator's answer                            *)
(* (src/payments/x402/provider/settle.ts, provider/reasons.ts,             *)
(* facilitator.ts and local-facilitator.ts; MPP settles through it).       *)
(*                                                                         *)
(* The facilitator's SDK and the chain are external.  Their answers are    *)
(* the ones the code's comments and checks provide for, a broadcast the    *)
(* gateway never hears of included; once the gateway gave up waiting, the  *)
(* facilitator may still go on.  The chain may drop blocks that are not    *)
(* final, and what they held can be mined again.  One authorization is     *)
(* used at most once, by its terms.                                        *)
(***************************************************************************)
EXTENDS Integers, Sequences, FiniteSetsExt

CONSTANTS
    MaxBlock,   \* bound on the chain's height
    MaxTime,    \* bound on block times
    Prefixes,   \* block times of the chain when the attempt is reserved
    ValidAfter, \* the authorization's validAfter
    Limit,      \* its validBefore, deadline or maxBlockHeight, by family
    Margin,     \* CLOCK_MARGIN_SECONDS
    Skews       \* by how much the gateway's clock may be ahead, within the margin

VARIABLES
    family,      \* the offer's family, EVM offers by their transfer method
    times,       \* block times; block n is times[n + 1]
    final,       \* the finalized block
    use,         \* what used the authorization, and in which block
    decoy,       \* block of another transfer between the same two, or NoBlock
    tx,          \* the facilitator's transaction
    txAt,        \* the block it is in, or NoBlock
    call,        \* the provider's call to the facilitator
    attempt,     \* the attempt row: status, reference, createdAt, relayers
    included,    \* history: the facilitator's transfer was on chain
    undone       \* history: the failure that a refusal was drawn from left the chain

chainVars == <<times, final, use, decoy>>
settleVars == <<family, tx, txAt, call, attempt, included, undone>>

Family == {"eip3009", "permit2", "svm", "near"}
Evm(f) == f \in {"eip3009", "permit2"}

NoBlock == -1
Tip == Len(times) - 1
TimeOf(n) == times[n + 1]
Now == TimeOf(Tip)

\* When a chain accepts the signed transfer.
MayLand(t) ==
    CASE family = "eip3009" -> ValidAfter < t /\ t < Limit[family]
      [] family = "permit2" -> ValidAfter <= t /\ t <= Limit[family]
      [] family = "svm"     -> t < Limit[family]
      [] family = "near"    -> t <= Limit[family]

(***************************************************************************)
(* The facilitator's answers.                                              *)
(***************************************************************************)

\* The family's reason for a transaction that failed on chain is also its
\* catch-all for a broadcast that threw; Permit2 appends the thrown message.
TransactionFailedReason == {"transaction_failed", "transaction_failed_message"}
OnChainFailureReason == "transaction_failed"
UnknownOutcomeReason == {"duplicate_settlement"}
NoVerdictReason == {"lookup_failed"}
IsNearVerdict(reason) == reason \in {"transaction_failed", "invalid"}

Throws == [kind : {"throw"}, transport : BOOLEAN]
Reverts == [kind : {"revert"}, transport : BOOLEAN]
Fails(reasons, txs) ==
    [kind : {"fail"}, reason : reasons, message : {""}, tx : txs, transport : BOOLEAN]
Succeeds == [kind : {"success"}, tx : {"hash", "junk", ""}, network : BOOLEAN]

\* An answer as a remote facilitator's 400: a refusal when it names a reason
\* and no transaction.  Any other error of the client is thrown, with the flag.
SettleError(a) ==
    IF a.kind = "fail" /\ a.tx = ""
    THEN [a EXCEPT !.message = "", !.transport = FALSE]
    ELSE [kind |-> "throw", transport |-> TRUE]

\* What the facilitator can answer, by what became of its transaction.
SdkAnswers ==
    LET anytime == Throws \cup Fails(TransactionFailedReason \cup {"settlement_pending"}, {""})
                   \cup (IF family = "near" THEN Fails({"other"}, {""}) ELSE {})
                   \cup (IF family = "svm" THEN Fails(UnknownOutcomeReason, {""}) ELSE {})
        before == Fails({"invalid", "other"} \cup NoVerdictReason, {""})
                  \cup (IF Evm(family) THEN Reverts ELSE {})
        sent == Fails({"settlement_pending", "other"} \cup UnknownOutcomeReason, {"hash"})
                \cup {[a EXCEPT !.message = "settlement_pending"] :
                         a \in Fails(TransactionFailedReason, {"hash"})}
    IN  anytime \cup
        CASE tx = "none"     -> before
          [] tx = "pending"  -> sent
          [] tx = "mined"    -> sent \cup Succeeds
          [] tx = "reverted" -> sent \cup Fails({OnChainFailureReason}, {"hash"})

(***************************************************************************)
(* settle(): what an answer says about the payment.                        *)
(***************************************************************************)

Verdict(status, reference) == [status |-> status, reference |-> reference]
Uncertain(reference) == Verdict("uncertain", reference)

\* The call threw: only a revert in the checks before the broadcast is a refusal.
OnThrow(a) ==
    IF a.kind = "revert" /\ ~a.transport THEN Verdict("rejected", "") ELSE Uncertain("")

\* Mutant: a named transaction with any failure reason is taken as refused.
OnFailureNamed(f, a) ==
    IF a.reason \in TransactionFailedReason /\ a.tx # "hash" THEN Uncertain("")
    ELSE IF a.reason \in UnknownOutcomeReason \cup NoVerdictReason \cup {"settlement_pending"}
         THEN Uncertain(a.tx)
         ELSE Verdict("rejected", a.tx)

\* The facilitator reported a failure: what of it proves that nothing moved.
OnFailure(f, a) ==
    IF a.reason \in TransactionFailedReason /\ a.tx # "hash"
    THEN Uncertain("")
    ELSE IF f = "near" /\ a.reason \in NoVerdictReason /\ a.tx = ""
    THEN Verdict("not-submitted", "")
    ELSE IF \/ "settlement_pending" \in {a.reason, a.message}
            \/ a.reason \in UnknownOutcomeReason \cup NoVerdictReason
            \/ a.transport
    THEN Uncertain(a.tx)
    ELSE IF a.tx # "" /\ a.reason # OnChainFailureReason
    THEN Uncertain(a.tx)
    ELSE IF f = "near" /\ ~IsNearVerdict(a.reason)
    THEN Uncertain("")
    ELSE Verdict("rejected", a.tx)

\* A success counts when it names the offer's network and a transaction.
OnSuccess(a) ==
    IF a.tx = "hash" /\ a.network THEN Verdict("settled", "hash") ELSE Uncertain("")

Classify(f, a) ==
    CASE a.kind \in {"throw", "revert"} -> OnThrow(a)
      [] a.kind = "fail"                -> OnFailure(f, a)
      [] a.kind = "success"             -> OnSuccess(a)

(***************************************************************************)
(* Steps of the provider and the facilitator.                              *)
(***************************************************************************)

\* The attempt is reserved and settle() calls the facilitator.  The gateway's
\* clock is within the margin of the chain's; relayers are known when
\* /supported answered in time.
CallSettle ==
    /\ call = "idle"
    /\ \E skew \in Skews, known \in BOOLEAN :
          /\ known => family = "near"
          /\ attempt' = [status |-> "reserved", reference |-> "",
                         createdAt |-> Now + skew, relayers |-> known]
    /\ call' = "open"
    /\ UNCHANGED <<family, chainVars, tx, txAt, included, undone>>

Broadcast ==
    /\ call \in {"open", "abandoned"}
    /\ tx = "none"
    /\ tx' = "pending"
    /\ UNCHANGED <<family, chainVars, txAt, call, attempt, included, undone>>

\* A facilitator that answered before it sent anything sends nothing later.
Answer(a) ==
    /\ call = "open"
    /\ LET v == Classify(family, a)
       IN  attempt' = [attempt EXCEPT !.status = v.status, !.reference = v.reference]
    /\ call' = IF a.kind = "throw" THEN "abandoned" ELSE "answered"
    /\ UNCHANGED <<family, chainVars, tx, txAt, included, undone>>

(***************************************************************************)
(* The chain.                                                              *)
(***************************************************************************)

\* Who may use the authorization besides the facilitator: its holder submits
\* or cancels it, and a Permit2 transfer may go through another contract.
Others ==
    {"cancel"} \cup (IF family = "svm" THEN {} ELSE {"payer"})
               \cup (IF family = "permit2" THEN {"indirect"} ELSE {})

BlockTimes == IF family = "near" THEN {Tip + 1} ELSE {t \in Now .. Now + 2 : t <= MaxTime}

NewBlock(t) ==
    /\ call # "idle"
    /\ Tip < MaxBlock
    /\ times' = Append(times, t)
    /\ UNCHANGED <<family, final, call, attempt, undone>>

MineEmpty(t) ==
    /\ NewBlock(t)
    /\ UNCHANGED <<use, decoy, tx, txAt, included>>

MineTransfer(t) ==
    /\ NewBlock(t)
    /\ tx = "pending"
    /\ IF use.by = "none" /\ MayLand(t)
       THEN /\ use' = [by |-> "facilitator", at |-> Tip + 1]
            /\ tx' = "mined"
            /\ included' = TRUE
       ELSE tx' = "reverted" /\ UNCHANGED <<use, included>>
    /\ txAt' = Tip + 1
    /\ UNCHANGED decoy

MineOther(t, by) ==
    /\ NewBlock(t)
    /\ use.by = "none"
    /\ by \in Others
    /\ by # "cancel" => MayLand(t)
    /\ use' = [by |-> by, at |-> Tip + 1]
    /\ UNCHANGED <<decoy, tx, txAt, included>>

MineDecoy(t) ==
    /\ NewBlock(t)
    /\ family = "permit2"
    /\ decoy = NoBlock
    /\ decoy' = Tip + 1
    /\ UNCHANGED <<use, tx, txAt, included>>

Finalize ==
    /\ final < Tip
    /\ final' = final + 1
    /\ UNCHANGED <<times, use, decoy, settleVars>>

\* A block replaces the chain's last ones from n + 1 on; their transactions,
\* failed ones too, are pending again.
Reorg(n, t) ==
    /\ n \in final .. Tip - 1
    /\ times' = Append(SubSeq(times, 1, n + 1), IF family = "near" THEN n + 1 ELSE t)
    /\ use' = IF use.at > n THEN [by |-> "none", at |-> NoBlock] ELSE use
    /\ IF txAt > n
       THEN /\ tx' = "pending" /\ txAt' = NoBlock
            /\ undone' = (undone \/ attempt.status = "rejected")
       ELSE UNCHANGED <<tx, txAt, undone>>
    /\ decoy' = IF decoy > n THEN NoBlock ELSE decoy
    /\ UNCHANGED <<family, final, call, attempt, included>>

SettleInit ==
    /\ family \in Family
    /\ times \in Prefixes
    /\ family = "near" => \A i \in DOMAIN times : times[i] = i - 1
    /\ final = 0
    /\ use = [by |-> "none", at |-> NoBlock]
    /\ decoy = NoBlock
    /\ tx = "none" /\ txAt = NoBlock
    /\ call = "idle"
    /\ attempt = [status |-> "none", reference |-> "", createdAt |-> 0, relayers |-> FALSE]
    /\ included = FALSE /\ undone = FALSE

ChainNext ==
    \/ \E t \in BlockTimes :
          \/ MineEmpty(t)
          \/ MineTransfer(t)
          \/ \E by \in Others : MineOther(t, by)
          \/ MineDecoy(t)
          \/ \E n \in 0 .. MaxBlock : Reorg(n, t)
    \/ Finalize

SettleNext ==
    \/ CallSettle
    \/ Broadcast
    \/ \E a \in SdkAnswers : Answer(a) \/ Answer(SettleError(a))
    \/ ChainNext

(***************************************************************************)
(* Properties.                                                             *)
(***************************************************************************)

\* A settlement reported to the pipeline was on chain.  One reported as refused
\* or as never submitted has no transaction that could still land, whatever the
\* facilitator answered and whenever its transaction was mined
\* (settle.ts:112-225); only the loss of the block in which a named transaction
\* failed undoes a refusal.
VerdictIsSound ==
    /\ attempt.status = "settled" => included
    /\ attempt.status \in {"rejected", "not-submitted"} =>
          \/ tx # "pending" /\ use.by # "facilitator"
          \/ undone /\ attempt.reference = "hash"
=============================================================================
