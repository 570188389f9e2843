---------------------------- MODULE ChainEvidence ----------------------------
(***************************************************************************)
(* What a reconcile run reads from the chain about one attempt             *)
(* (src/payments/x402/reconcile/evm.ts, near.ts, svm.ts and                *)
(* provider/reconcile.ts), while the settlement of X402Settlement and the  *)
(* chain go on between its reads.  Every RPC call is a step, save the log  *)
(* queries of one search: they are a single step, because the chain below  *)
(* the finalized block cannot change.                                      *)
(***************************************************************************)
EXTENDS X402Settlement

CONSTANTS
    LogChunkBlocks,   \* LOG_CHUNK_BLOCKS
    MaxWindowBlocks   \* MAX_WINDOW_BLOCKS

\* The gateway's clock is ahead by the margin at most; blocks are in the order
\* of their times.
ASSUME EvidenceAssumption ==
    /\ LogChunkBlocks \in Nat \ {0} /\ MaxWindowBlocks \in Nat \ {0}
    /\ MaxBlock \in Nat /\ MaxTime \in Int /\ ValidAfter \in Int /\ Limit \in [Family -> Int]
    /\ Margin \in Nat /\ \A skew \in Skews : skew \in Int /\ skew <= Margin
    /\ \A chain \in Prefixes :
          /\ chain \in Seq(Int) /\ Len(chain) > 0
          /\ \A i, j \in DOMAIN chain : i <= j => chain[i] <= chain[j]

VARIABLES
    reader   \* the run: its next read, the finalized block it read, the bounds
             \* of its search for a block, the blocks it found, its result

vars == <<chainVars, settleVars, reader>>

\* The reason of an unknown outcome matters when a search found no record.
NoReader ==
    [pc |-> "idle", finalized |-> 0, low |-> 0, high |-> 0, even |-> TRUE, from |-> 0, end |-> 0,
     outcome |-> "none"]

Conclude(outcome) == reader' = [NoReader EXCEPT !.outcome = outcome]

GoOn(pc) == reader' = [reader EXCEPT !.pc = pc]

(***************************************************************************)
(* Reads of the chain.                                                     *)
(***************************************************************************)

\* The first expired time, by the method's own comparison with its limit.
EndsAt == IF family = "permit2" THEN Limit[family] + 1 ELSE Limit[family]

UsedAt(block) == use.by # "none" /\ use.at <= block

\* What the receipts of the two transactions show: the authorization used,
\* a direct call of the x402 proxy, the transfer itself.
Receipt(block, by) ==
    [block |-> block, used |-> by # "decoy", direct |-> by # "indirect",
     moved |-> by # "cancel"]

Receipts == (IF use.by # "none" THEN {Receipt(use.at, use.by)} ELSE {})
            \cup (IF decoy # NoBlock THEN {Receipt(decoy, "decoy")} ELSE {})

\* The logs each method asks for: the authorization's, or the transfers
\* between the two accounts.
CandidatesEip3009(from, to) ==
    {r \in Receipts : r.block \in from .. to /\ r.used /\ r.moved}
CandidatesPermit2(from, to) ==
    {r \in Receipts : r.block \in from .. to /\ r.moved}

CarriesEip3009(r) == r.used /\ r.moved
CarriesPermit2(r) == r.direct /\ r.used /\ r.moved

Found(from, to) ==
    IF family = "eip3009" THEN {r \in CandidatesEip3009(from, to) : CarriesEip3009(r)}
                          ELSE {r \in CandidatesPermit2(from, to) : CarriesPermit2(r)}

\* Consecutive ranges of at most a chunk.
LogRanges(from, to) ==
    {<<s, Min({s + LogChunkBlocks - 1, to})>> :
        s \in {n \in from .. to : (n - from) % LogChunkBlocks = 0}}

\* The next block to look at between two: the interpolated one in every other
\* step.
Middle(seconds, low, high, interpolate) ==
    IF interpolate /\ TimeOf(high) > TimeOf(low)
    THEN LET guess == low + ((seconds - TimeOf(low)) * (high - low))
                              \div (TimeOf(high) - TimeOf(low))
         IN  Min({Max({guess, low + 1}), high - 1})
    ELSE (low + high) \div 2

\* The times between which the authorization can have been used: the search
\* begins at the first block of the one and ends before that of the other.
FromSeconds == Max({ValidAfter, attempt.createdAt - Margin})
Seconds == IF reader.pc = "from" THEN FromSeconds ELSE EndsAt

(***************************************************************************)
(* Steps of a run.                                                         *)
(***************************************************************************)

\* A run starts on an attempt that is not decided; it needs the locator that
\* verify() saved.  EVM reads the finalized head first, NEAR and Solana the
\* recorded transaction.
StartRead ==
    /\ reader.pc = "idle" /\ reader.outcome \notin {"settled", "not-settled"}
    /\ attempt.status \in {"reserved", "uncertain"}
    /\ reader' = [NoReader EXCEPT !.pc = IF Evm(family) THEN "finalized" ELSE "reference"]
    /\ UNCHANGED <<chainVars, settleVars>>

\* Another chain than the locator's, a missing access key or a failed call.
ReadFails ==
    /\ reader.pc # "idle"
    /\ Conclude("unknown")
    /\ UNCHANGED <<chainVars, settleVars>>

ReadFinalized ==
    /\ reader.pc = "finalized"
    /\ reader' = [reader EXCEPT !.finalized = final,
                                !.pc = IF Evm(family) THEN "reference" ELSE "state"]
    /\ UNCHANGED <<chainVars, settleVars>>

\* The recorded transaction is the facilitator's; its receipt is read at the
\* head and compared with the finalized block read before.
ReadReferenceEvm ==
    /\ reader.pc = "reference"
    /\ Evm(family)
    /\ IF attempt.reference = "hash" /\ use.by = "facilitator"
       THEN IF use.at <= reader.finalized
            THEN Conclude("settled")
            ELSE Conclude("unknown")
       ELSE GoOn("state")
    /\ UNCHANGED <<chainVars, settleVars>>

\* The outer transaction contains the delegate, and its transfer succeeded.
CarriesNear == tx = "mined" /\ use.by = "facilitator"

\* NEAR finds the outer transaction by hash and relayer, and reports whether
\* it is final.
ReadReferenceNear ==
    /\ reader.pc = "reference"
    /\ family = "near"
    /\ IF attempt.reference = "hash" /\ attempt.relayers /\ tx \in {"mined", "pending"}
       THEN IF CarriesNear /\ use.at <= final
            THEN Conclude("settled")
            ELSE Conclude("unknown")
       ELSE GoOn("finalized")
    /\ UNCHANGED <<chainVars, settleVars>>

\* Solana answers with finalized transactions only.
ReadReferenceSvm ==
    /\ reader.pc = "reference"
    /\ family = "svm"
    /\ IF attempt.reference = "hash" /\ use.by = "facilitator" /\ use.at <= final
       THEN Conclude("settled")
       ELSE GoOn("history")
    /\ UNCHANGED <<chainVars, settleVars>>

\* Mutant: the expiry is compared with the newest block.
ReadStateEvmAtHead ==
    /\ reader.pc = "state"
    /\ Evm(family)
    /\ IF UsedAt(reader.finalized) THEN GoOn("from")
       ELSE IF Now >= EndsAt THEN Conclude("not-settled")
       ELSE GoOn("latest")
    /\ UNCHANGED <<chainVars, settleVars>>

\* The authorization's state at the finalized block.
ReadStateEvm ==
    /\ reader.pc = "state"
    /\ Evm(family)
    /\ IF UsedAt(reader.finalized) THEN GoOn("from")
       ELSE IF TimeOf(reader.finalized) >= EndsAt
            THEN Conclude("not-settled")
            ELSE GoOn("latest")
    /\ UNCHANGED <<chainVars, settleVars>>

ReadLatest ==
    /\ reader.pc = "latest"
    /\ Conclude("unknown")
    /\ UNCHANGED <<chainVars, settleVars>>

\* The access key's nonce at the final block just read; a nonce at or above
\* the delegate's does not tell which transaction used it.
ReadStateNear ==
    /\ reader.pc = "state"
    /\ family = "near"
    /\ IF UsedAt(reader.finalized) THEN Conclude("used_without_record")
       ELSE IF reader.finalized > Limit[family] THEN Conclude("not-settled")
       ELSE Conclude("unknown")
    /\ UNCHANGED <<chainVars, settleVars>>

\* The first block at a time was found: the window's first, or the one after
\* its last.
Located(block) ==
    reader' = IF reader.pc = "from"
              THEN [reader EXCEPT !.pc = "end", !.from = block, !.low = 0, !.high = 0, !.even = TRUE]
              ELSE [reader EXCEPT !.pc = "logs", !.end = block - 1, !.low = 0, !.high = 0, !.even = TRUE]

\* The search goes on between low and high until they meet.
Between(low, high, even) ==
    IF high - low <= 1 THEN Located(high)
    ELSE reader' = [reader EXCEPT !.low = low, !.high = high, !.even = even]

\* firstBlockAt: the times of the finalized block and of the first one.
ReadFirstBlock ==
    /\ reader.pc \in {"from", "end"}
    /\ reader.high = 0
    /\ IF Seconds > TimeOf(reader.finalized) THEN Located(reader.finalized + 1)
       ELSE IF TimeOf(0) >= Seconds THEN Located(0)
       ELSE Between(0, reader.finalized, TRUE)
    /\ UNCHANGED <<chainVars, settleVars>>

\* Mutant: high is moved below the block that reached the time.
ReadMiddleBlockBelow ==
    /\ reader.pc \in {"from", "end"}
    /\ reader.high # 0
    /\ LET middle == Middle(Seconds, reader.low, reader.high, reader.even)
       IN  IF TimeOf(middle) >= Seconds THEN Between(reader.low, middle - 1, ~reader.even)
                                        ELSE Between(middle, reader.high, ~reader.even)
    /\ UNCHANGED <<chainVars, settleVars>>

\* Low stays before the time, high at or after it.
ReadMiddleBlock ==
    /\ reader.pc \in {"from", "end"}
    /\ reader.high # 0
    /\ LET middle == Middle(Seconds, reader.low, reader.high, reader.even)
       IN  IF TimeOf(middle) >= Seconds THEN Between(reader.low, middle, ~reader.even)
                                        ELSE Between(middle, reader.high, ~reader.even)
    /\ UNCHANGED <<chainVars, settleVars>>

\* Search the logs of the window, or of as much of it as a run covers.
SearchLogs ==
    /\ reader.pc = "logs"
    /\ LET to == Min({reader.end, reader.from + MaxWindowBlocks - 1})
           found == UNION {Found(r[1], r[2]) : r \in LogRanges(reader.from, to)}
       IN  IF found # {}
           THEN Conclude(IF \E r \in found : r.block <= reader.finalized THEN "settled" ELSE "unknown")
           ELSE Conclude(IF to < reader.end THEN "unknown" ELSE "used_without_record")
    /\ UNCHANGED <<chainVars, settleVars>>

\* Logs the RPC no longer serves.
SearchPruned ==
    /\ reader.pc = "logs"
    /\ Conclude("unknown")
    /\ UNCHANGED <<chainVars, settleVars>>

\* Search a known payer's finalized history around createdAt; a payer the
\* facilitator did not name, or too long a history, is not searched.
SearchHistory(known) ==
    /\ reader.pc = "history"
    /\ IF /\ known
          /\ use.by = "facilitator" /\ use.at <= final
          /\ TimeOf(use.at) \in attempt.createdAt - Margin .. attempt.createdAt + Margin
       THEN Conclude("settled")
       ELSE Conclude("unknown")
    /\ UNCHANGED <<chainVars, settleVars>>

Init ==
    /\ SettleInit
    /\ reader = NoReader

Next ==
    \/ SettleNext /\ UNCHANGED reader
    \/ StartRead
    \/ ReadFails
    \/ ReadFinalized
    \/ ReadReferenceEvm \/ ReadReferenceNear \/ ReadReferenceSvm
    \/ ReadStateEvm \/ ReadStateNear
    \/ ReadLatest
    \/ ReadFirstBlock \/ ReadMiddleBlock
    \/ SearchLogs \/ SearchPruned
    \/ \E known \in BOOLEAN : SearchHistory(known)

Spec == Init /\ [][Next]_vars

(***************************************************************************)
(* Properties.                                                             *)
(***************************************************************************)

\* A run's definite answer stays true whatever the chain does afterwards: a
\* settled transfer is in a final block, and one called off never lands, by
\* whoever submits it (evm.ts:170-194, near.ts:90-137, svm.ts:70-90).
EvidenceIsSound ==
    /\ reader.outcome = "settled" => use.by \in {"facilitator", "payer"} /\ use.at <= final
    /\ reader.outcome = "not-settled" => use.by \in {"none", "cancel"}

\* A search that ends without a record on logs that were served leaves out no
\* block the transfer can be in, wherever its two searches for a block looked:
\* the authorization was cancelled or used through another contract
\* (evm.ts:198-217 and 367-392).
SearchFindsTheTransfer ==
    reader.outcome = "used_without_record" /\ Evm(family) => use.by \in {"cancel", "indirect"}

=============================================================================
