--------------------------- MODULE EvidenceProofs ---------------------------
(***************************************************************************)
(* Settlement verdicts and the evidence a reconcile run reads, for any     *)
(* chain, limits, clock skew, chunk and window: what they say holds        *)
(* whatever the facilitator and the chain do afterwards.                   *)
(***************************************************************************)
EXTENDS ChainEvidence, SequenceTheorems, TLAPS

-----------------------------------------------------------------------------
(* The inductive invariant.                                                *)

\* Blocks are in the order of their times, and a NEAR block's time is its height.
ChainOK ==
    /\ family \in Family
    /\ times \in Seq(Int) /\ Len(times) > 0
    /\ final \in Nat /\ final < Len(times)
    /\ \A i, j \in 1 .. Len(times) : i <= j => times[i] <= times[j]
    /\ family = "near" => \A i \in 1 .. Len(times) : times[i] = i - 1

\* An authorization is used once, on chain, while the chain takes it.
UseOK ==
    /\ use = [by |-> use.by, at |-> use.at]
    /\ use.by \in {"none", "facilitator", "payer", "cancel", "indirect"}
    /\ use.by = "none" => use.at = NoBlock
    /\ use.by = "indirect" => family = "permit2"
    /\ use.by # "none" => use.at \in Nat /\ use.at < Len(times)
    /\ use.by \in {"facilitator", "payer", "indirect"} => MayLand(TimeOf(use.at))
    /\ use.by # "none" /\ Evm(family) => TimeOf(use.at) >= attempt.createdAt - Margin

\* A refusal that names a transaction: it failed, or its block was dropped.
Failed(reference) == reference = "hash" /\ (tx = "reverted" \/ undone)

AttemptOK ==
    /\ attempt = [status |-> attempt.status, reference |-> attempt.reference,
                  createdAt |-> attempt.createdAt, relayers |-> attempt.relayers]
    /\ attempt.createdAt \in Int
    /\ call = "idle" => attempt.status = "none" /\ tx = "none" /\ use.by = "none"
    /\ call # "idle" /\ Evm(family) => times[Len(times)] >= attempt.createdAt - Margin
    /\ tx \in {"none", "pending", "mined", "reverted"}
    /\ use.by = "facilitator" <=> tx = "mined"
    /\ tx = "mined" => included
    /\ tx = "mined" => txAt = use.at
    /\ tx \in {"none", "pending"} => txAt = NoBlock
    /\ attempt.status = "settled" => included
    /\ attempt.status = "not-submitted" => call = "answered" /\ tx = "none"
    /\ attempt.status = "rejected" => call = "answered" /\ (tx = "none" \/ Failed(attempt.reference))

\* No block after the finalized one can take the transfer.
Expired == \A t \in Int : t >= TimeOf(final) => ~MayLand(t)

\* What a run has read: its blocks are final.
ReaderOK ==
    /\ reader = [pc |-> reader.pc, finalized |-> reader.finalized, low |-> reader.low,
                 high |-> reader.high, even |-> reader.even, from |-> reader.from,
                 end |-> reader.end, outcome |-> reader.outcome]
    /\ reader.pc # "idle" => call # "idle"
    /\ reader.pc \notin {"from", "end"} => reader.high = 0
    /\ reader.finalized \in Nat /\ reader.finalized <= final
    /\ reader.pc \in {"from", "end", "logs"} => Evm(family) /\ UsedAt(reader.finalized)

\* The loop of firstBlockAt keeps low before the time and high at or after it.
BoundsOK ==
    reader.pc \in {"from", "end"} /\ reader.high # 0 =>
        /\ reader.low \in Nat /\ reader.high \in Nat
        /\ reader.low + 1 < reader.high /\ reader.high <= reader.finalized
        /\ TimeOf(reader.low) < Seconds /\ Seconds <= TimeOf(reader.high)

\* The blocks that were located leave out none that a use can be in.
WindowOK ==
    /\ reader.pc \in {"end", "logs"} =>
          /\ reader.from \in Nat
          /\ \A b \in 0 .. reader.finalized : TimeOf(b) >= FromSeconds => reader.from <= b
    /\ reader.pc = "logs" =>
          /\ reader.end \in Int
          /\ \A b \in 0 .. reader.finalized : TimeOf(b) < EndsAt => b <= reader.end

OutcomeOK ==
    /\ reader.outcome = "settled" => use.by \in {"facilitator", "payer"} /\ use.at <= final
    /\ reader.outcome = "not-settled" => use.by \in {"none", "cancel"} /\ Expired
    /\ reader.outcome = "used_without_record" /\ Evm(family) =>
          use.by \in {"cancel", "indirect"} /\ use.at <= final

SettleInv == ChainOK /\ UseOK /\ AttemptOK
ReadInv == ReaderOK /\ BoundsOK /\ WindowOK /\ OutcomeOK
EvidenceInv == SettleInv /\ ReadInv

-----------------------------------------------------------------------------
(* Arithmetic.                                                             *)

\* The lesser of two integers.
LEMMA MinOfTwo ==
    ASSUME NEW a \in Int, NEW b \in Int
    PROVE  Min({a, b}) = IF a <= b THEN a ELSE b
  BY DEF Min

\* The greater of two integers.
LEMMA MaxOfTwo ==
    ASSUME NEW a \in Int, NEW b \in Int
    PROVE  Max({a, b}) = IF a >= b THEN a ELSE b
  BY DEF Max

\* Blocks count from 0, positions from 1.
LEMMA Positions ==
    ASSUME NEW a \in Nat, NEW b \in Nat, NEW n \in Nat, a <= b, b < n
    PROVE  a + 1 \in 1 .. n /\ b + 1 \in 1 .. n /\ a + 1 <= b + 1
  OBVIOUS

\* The margin is a number.
LEMMA MarginIsInt == Margin \in Nat
  BY EvidenceAssumption

\* The next block to look at lies strictly between the bounds.
LEMMA MiddleIsBetween ==
    ASSUME NEW seconds \in Int, NEW low \in Nat, NEW high \in Nat, low + 1 < high,
           TimeOf(low) \in Int, TimeOf(high) \in Int, NEW even
    PROVE  /\ Middle(seconds, low, high, even) \in Nat
           /\ low < Middle(seconds, low, high, even) /\ Middle(seconds, low, high, even) < high
  <1>1. CASE even /\ TimeOf(high) > TimeOf(low)
    <2> DEFINE guess == low + ((seconds - TimeOf(low)) * (high - low)) \div (TimeOf(high) - TimeOf(low))
    <2>1. guess \in Int
      <3>1. (seconds - TimeOf(low)) * (high - low) \in Int
        OBVIOUS
      <3> DEFINE x == (seconds - TimeOf(low)) * (high - low)
                 y == TimeOf(high) - TimeOf(low)
      <3>2. y \in Int /\ y > 0
        BY <1>1
      <3> HIDE DEF x, y
      <3>3. x \div y \in Int
        BY <3>1, <3>2 DEF x
      <3> QED BY <3>3 DEF x, y
    <2> HIDE DEF guess
    <2>2. Max({guess, low + 1}) \in Int /\ Max({guess, low + 1}) >= low + 1
      BY <2>1, MaxOfTwo
    <2>3. Middle(seconds, low, high, even) = Min({Max({guess, low + 1}), high - 1})
      BY <1>1 DEF Middle, guess
    <2> QED BY <2>2, <2>3, MinOfTwo
  <1>2. CASE ~(even /\ TimeOf(high) > TimeOf(low))
    <2>1. Middle(seconds, low, high, even) = (low + high) \div 2
      BY <1>2 DEF Middle
    <2> QED BY <2>1
  <1> QED BY <1>1, <1>2

\* Every block of a window is in one of its ranges.
LEMMA RangesCover ==
    ASSUME NEW from \in Int, NEW to \in Int, NEW b \in from .. to
    PROVE  \E r \in LogRanges(from, to) : b \in r[1] .. r[2]
  <1> DEFINE c == LogChunkBlocks
             d == b - from
             s == from + c * (d \div c)
  <1>1. c \in Nat /\ c > 0 /\ d \in Nat
    BY EvidenceAssumption
  <1> HIDE DEF c
  <1>2. /\ d \div c \in Nat /\ c * (d \div c) \in Nat /\ d % c \in 0 .. c - 1
        /\ d = c * (d \div c) + (d % c)
    BY <1>1
  <1>3. (c * (d \div c)) % c = 0
    BY <1>1, <1>2
  <1>4. s \in from .. to /\ (s - from) % c = 0 /\ b \in s .. s + c - 1
    BY <1>1, <1>2, <1>3
  <1> HIDE DEF s, d
  <1>5. <<s, Min({s + c - 1, to})>> \in LogRanges(from, to)
    BY <1>4 DEF LogRanges, c
  <1>6. b \in s .. Min({s + c - 1, to})
    BY <1>1, <1>4, MinOfTwo
  <1> QED BY <1>5, <1>6

-----------------------------------------------------------------------------
(* Verdicts.                                                               *)

Definite == {"rejected", "not-submitted"}

\* What an answer of the facilitator may make of the payment.
Sound(a) ==
    LET v == Classify(family, a)
    IN  /\ v.status = "settled" => tx = "mined"
        /\ v.status \in Definite => a.kind # "throw"
        /\ v.status = "not-submitted" => tx = "none"
        /\ v.status = "rejected" => tx = "none" \/ (tx = "reverted" /\ v.reference = "hash")

\* An answer that says nothing about the payment.
LEMMA Undecided ==
    ASSUME NEW a,
           \/ a.kind = "throw"
           \/ /\ a.kind = "fail"
              /\ \/ a.reason \in TransactionFailedReason /\ a.tx # "hash"
                 \/ "settlement_pending" \in {a.reason, a.message} /\ a.reason \notin NoVerdictReason
                 \/ a.reason \in UnknownOutcomeReason
                 \/ a.tx # "" /\ a.reason = "other"
                 \/ family = "near" /\ a.reason = "other"
    PROVE  Sound(a)
  BY DEF Sound, Definite, Classify, OnThrow, OnFailure, Verdict, Uncertain, TransactionFailedReason,
         UnknownOutcomeReason, NoVerdictReason, OnChainFailureReason, IsNearVerdict

\* A refusal counts when nothing was sent, or what was sent failed on chain.
LEMMA Refused ==
    ASSUME NEW a, \/ a.kind \in {"fail", "revert", "throw"} /\ tx = "none"
                  \/ a.kind = "fail" /\ a.tx = "hash" /\ tx = "reverted"
    PROVE  Sound(a)
  <1>1. CASE a.kind \in {"revert", "throw"} /\ tx = "none"
    BY <1>1 DEF Sound, Definite, Classify, OnThrow, Verdict, Uncertain
  <1>2. CASE a.kind = "fail"
    BY <1>2 DEF Sound, Definite, Classify, OnFailure, Verdict, Uncertain
  <1> QED BY <1>1, <1>2

\* A success is sound when the transaction was mined.
LEMMA Succeeded ==
    ASSUME NEW a, a.kind = "success", tx = "mined"
    PROVE  Sound(a)
  BY DEF Sound, Definite, Classify, OnSuccess, Verdict, Uncertain

\* Any of the facilitator's answers, as it is or as a remote one's error.
LEMMA AnswersAreSound ==
    ASSUME NEW a \in SdkAnswers, tx \in {"none", "pending", "mined", "reverted"}
    PROVE  Sound(a) /\ Sound(SettleError(a))
  <1> DEFINE Threw == [kind |-> "throw", transport |-> TRUE]
  <1>0. Sound(Threw)
    BY Undecided
  <1> DEFINE Refuses(b) == b.kind = "fail" /\ b.tx = ""
  <1>a. ASSUME NEW b, b = SettleError(a)
        PROVE  \/ b = Threw
               \/ /\ a.kind = "fail" /\ a.tx = ""
                  /\ b = [a EXCEPT !.message = "", !.transport = FALSE]
    BY <1>a DEF SettleError
  <1>1. CASE a \in Throws
    <2>1. a.kind = "throw"
      BY <1>1 DEF Throws
    <2> QED BY <1>0, <1>a, <2>1, Undecided
  <1>2. CASE a \in Reverts /\ tx = "none"
    <2>1. a.kind = "revert"
      BY <1>2 DEF Reverts
    <2> QED BY <1>0, <1>2, <1>a, <2>1, Refused
  <1>3. CASE a \in Succeeds /\ tx = "mined"
    <2>1. a.kind = "success"
      BY <1>3 DEF Succeeds
    <2> QED BY <1>0, <1>3, <1>a, <2>1, Succeeded
  <1>4. ASSUME NEW reasons, NEW txs, a \in Fails(reasons, txs)
        PROVE  /\ a.kind = "fail" /\ a.reason \in reasons /\ a.tx \in txs
               /\ a = [kind |-> a.kind, reason |-> a.reason, message |-> a.message, tx |-> a.tx,
                       transport |-> a.transport]
    BY <1>4 DEF Fails
  <1>b. ASSUME a.kind = "fail",
               a = [kind |-> a.kind, reason |-> a.reason, message |-> a.message, tx |-> a.tx,
                    transport |-> a.transport]
        PROVE  LET b == SettleError(a)
               IN  b = Threw \/ (b.kind = "fail" /\ b.reason = a.reason /\ b.tx = a.tx)
    <2> DEFINE b == SettleError(a)
    <2>1. CASE b = Threw
      BY <2>1
    <2>2. CASE a.tx = "" /\ b = [a EXCEPT !.message = "", !.transport = FALSE]
      <3> HIDE DEF b
      <3>1. b.kind = "fail" /\ b.reason = a.reason /\ b.tx = a.tx
        BY <1>b, <2>2
      <3> QED BY <3>1 DEF b
    <2> QED BY <1>a, <2>1, <2>2
  <1> HIDE DEF Threw
  <1>5. CASE \E txs : a \in Fails({"invalid", "other"} \cup NoVerdictReason, txs) /\ tx = "none"
    BY <1>0, <1>4, <1>5, <1>b, Refused
  <1>6. CASE a \in Fails({OnChainFailureReason}, {"hash"}) /\ tx = "reverted"
    BY <1>0, <1>4, <1>6, <1>b, Refused
  <1>7. CASE a \in Fails(TransactionFailedReason \cup {"settlement_pending"}, {""})
    <2>1. /\ a.kind = "fail" /\ a.reason \in TransactionFailedReason \cup {"settlement_pending"}
          /\ a.tx = ""
      BY <1>7 DEF Fails
    <2>2. a.reason \notin NoVerdictReason
      BY <2>1 DEF TransactionFailedReason, NoVerdictReason
    <2> QED BY <1>0, <1>4, <1>7, <1>b, <2>1, <2>2, Undecided
  <1>8. CASE a \in Fails({"other"}, {""}) /\ family = "near"
    BY <1>0, <1>4, <1>8, <1>b, Undecided
  <1>9. CASE a \in Fails(UnknownOutcomeReason, {""})
    BY <1>0, <1>4, <1>9, <1>b, Undecided
  <1>10. CASE a \in Fails({"settlement_pending", "other"} \cup UnknownOutcomeReason, {"hash"})
    <2>1. /\ a.kind = "fail" /\ a.tx = "hash" /\ a.reason \notin NoVerdictReason
          /\ a.reason \in {"settlement_pending", "other"} \cup UnknownOutcomeReason
      BY <1>4, <1>10 DEF NoVerdictReason, UnknownOutcomeReason
    <2> QED BY <1>0, <1>4, <1>10, <1>b, <2>1, Undecided
  <1>11. CASE \E x \in Fails(TransactionFailedReason, {"hash"}) :
                 a = [x EXCEPT !.message = "settlement_pending"]
    <2>1. PICK x \in Fails(TransactionFailedReason, {"hash"}) :
             a = [x EXCEPT !.message = "settlement_pending"]
      BY <1>11
    <2>2. /\ a.kind = "fail" /\ a.tx = "hash" /\ a.message = "settlement_pending"
          /\ a.reason \in TransactionFailedReason
      BY <2>1 DEF Fails
    <2>3. a.reason \notin NoVerdictReason
      BY <2>2 DEF TransactionFailedReason, NoVerdictReason
    <2>4. SettleError(a) = Threw
      BY <2>2 DEF SettleError, Threw
    <2> QED BY <1>0, <2>2, <2>3, <2>4, Undecided
  <1> DEFINE anytime == Throws \cup Fails(TransactionFailedReason \cup {"settlement_pending"}, {""})
                   \cup (IF family = "near" THEN Fails({"other"}, {""}) ELSE {})
                   \cup (IF family = "svm" THEN Fails(UnknownOutcomeReason, {""}) ELSE {})
             before == Fails({"invalid", "other"} \cup NoVerdictReason, {""})
                  \cup (IF Evm(family) THEN Reverts ELSE {})
             sent == Fails({"settlement_pending", "other"} \cup UnknownOutcomeReason, {"hash"})
                \cup {[x EXCEPT !.message = "settlement_pending"] :
                         x \in Fails(TransactionFailedReason, {"hash"})}
  <1>12. a \in anytime \/ \/ tx = "none" /\ a \in before
                          \/ a \in sent
                          \/ tx = "mined" /\ a \in Succeeds
                          \/ tx = "reverted" /\ a \in Fails({OnChainFailureReason}, {"hash"})
    BY DEF SdkAnswers
  <1>13. CASE a \in anytime
    BY <1>1, <1>7, <1>8, <1>9, <1>13
  <1>14. CASE tx = "none" /\ a \in before
    BY <1>2, <1>5, <1>14
  <1>15. CASE a \in sent
    BY <1>10, <1>11, <1>15
  <1> QED BY <1>3, <1>6, <1>12, <1>13, <1>14, <1>15

-----------------------------------------------------------------------------
(* The chain.                                                              *)

\* The chain keeps k blocks, the finalized one among them, and gets another.
LEMMA ChainGrows ==
    ASSUME ChainOK, NEW k \in 1 .. Len(times), final < k, NEW x \in Int,
           times' = Append(SubSeq(times, 1, k), x), x >= times[k], family = "near" => x = k,
           UNCHANGED <<family, final>>
    PROVE  /\ ChainOK' /\ Len(times') = k + 1
           /\ \A i \in 1 .. k : times'[i] = times[i]
           /\ times'[k + 1] = x
  <1> DEFINE kept == SubSeq(times, 1, k)
  <1>0. times \in Seq(Int) /\ Len(times) \in Nat /\ k \in Nat
        /\ \A i \in 1 .. Len(times) : times[i] \in Int
    BY DEF ChainOK
  <1>1. /\ kept \in Seq(Int) /\ Len(kept) = k
        /\ \A i \in 1 .. k : kept[i] = times[i]
    <2>1. \A i \in 1 .. k : times[i] \in Int
      BY <1>0
    <2>2. /\ kept \in Seq(Int) /\ Len(kept) = (IF 1 <= k THEN k - 1 + 1 ELSE 0)
          /\ \A i \in 1 .. k - 1 + 1 : kept[i] = times[1 + i - 1]
      BY <1>0, <2>1, SubSeqProperties
    <2> HIDE DEF kept
    <2> QED BY <1>0, <2>2
  <1> HIDE DEF kept
  <1>2. /\ times' \in Seq(Int) /\ Len(times') = k + 1
        /\ \A i \in 1 .. k : times'[i] = times[i]
        /\ times'[k + 1] = x
    <2>1. times' = Append(kept, x)
      BY DEF kept
    <2> QED BY <1>1, <2>1, AppendProperties
  <1>3. \A i, j \in 1 .. k + 1 : i <= j => times'[i] <= times'[j]
    <2> SUFFICES ASSUME NEW i \in 1 .. k + 1, NEW j \in 1 .. k + 1, i <= j
                 PROVE  times'[i] <= times'[j]
      OBVIOUS
    <2>1. CASE j \in 1 .. k
      <3>1. i \in 1 .. k /\ i \in 1 .. Len(times) /\ j \in 1 .. Len(times)
        BY <1>0, <2>1
      <3>2. times[i] <= times[j]
        BY <3>1 DEF ChainOK
      <3> QED BY <1>2, <2>1, <3>1, <3>2
    <2>2. CASE j = k + 1 /\ i \in 1 .. k
      <3>1. times[i] <= times[k] /\ times[i] \in Int /\ times[k] \in Int
        BY <1>0, <2>2 DEF ChainOK
      <3> QED BY <1>0, <1>2, <2>2, <3>1
    <2>3. CASE j = k + 1 /\ i = k + 1
      BY <1>2, <2>3
    <2> QED BY <1>0, <2>1, <2>2, <2>3
  <1>4. family' = "near" => \A i \in 1 .. k + 1 : times'[i] = i - 1
    <2> SUFFICES ASSUME family = "near", NEW i \in 1 .. k + 1 PROVE times'[i] = i - 1
      OBVIOUS
    <2>1. CASE i \in 1 .. k
      <3>1. i \in 1 .. Len(times)
        BY <1>0, <2>1
      <3>2. times[i] = i - 1
        BY <3>1 DEF ChainOK
      <3> QED BY <1>2, <2>1, <3>2
    <2>2. CASE i = k + 1
      BY <1>0, <1>2, <2>2
    <2> QED BY <1>0, <2>1, <2>2
  <1> QED BY <1>0, <1>2, <1>3, <1>4 DEF ChainOK

\* What a run has read stays true while final blocks stay, and an expired
\* authorization is used no more.
LEMMA ReadStays ==
    ASSUME EvidenceInv, ChainOK', UNCHANGED <<family, reader>>, final <= final',
           \A b \in 0 .. final : times'[b + 1] = times[b + 1],
           reader.pc # "idle" => call' # "idle" /\ attempt'.createdAt = attempt.createdAt,
           use.by # "none" /\ use.at <= final => use' = use,
           Expired /\ use.by \in {"none", "cancel"} => use'.by \in {"none", "cancel"}
    PROVE  ReadInv'
  <1> USE DEF EvidenceInv, SettleInv, ReadInv
  <1>0. /\ reader.finalized \in Nat /\ reader.finalized <= final /\ final \in Nat /\ final' \in Nat
        /\ \A b \in 0 .. reader.finalized : TimeOf(b)' = TimeOf(b)
    BY DEF ReaderOK, ChainOK, TimeOf
  <1>1. ReaderOK'
    BY <1>0 DEF ReaderOK, UsedAt, Evm, UseOK
  <1>2. reader.pc # "idle" => Seconds' = Seconds /\ FromSeconds' = FromSeconds /\ EndsAt' = EndsAt
    BY DEF Seconds, FromSeconds, EndsAt
  <1>3. BoundsOK'
    <2> SUFFICES ASSUME reader.pc \in {"from", "end"}, reader.high # 0 PROVE BoundsOK'
      BY DEF BoundsOK
    <2>1. /\ reader.low \in 0 .. reader.finalized /\ reader.high \in 0 .. reader.finalized
      BY <1>0 DEF BoundsOK
    <2>2. TimeOf(reader.low)' = TimeOf(reader.low) /\ TimeOf(reader.high)' = TimeOf(reader.high)
      BY <1>0, <2>1 DEF TimeOf
    <2> QED BY <1>2, <2>2 DEF BoundsOK
  <1>4. WindowOK'
    BY <1>0, <1>2 DEF WindowOK
  <1>5. Expired => Expired'
    <2> SUFFICES ASSUME Expired PROVE Expired'
      OBVIOUS
    <2>1. times'[final + 1] = times[final + 1] /\ times'[final + 1] <= times'[final' + 1]
          /\ times'[final + 1] \in Int /\ times'[final' + 1] \in Int
      <3>1. /\ times' \in Seq(Int) /\ Len(times') \in Nat /\ final' < Len(times')
            /\ \A i, j \in 1 .. Len(times') : i <= j => times'[i] <= times'[j]
        BY DEF ChainOK
      <3>2. final + 1 \in 1 .. Len(times') /\ final' + 1 \in 1 .. Len(times') /\ final + 1 <= final' + 1
        <4>1. Len(times') \in Nat /\ final' < Len(times') /\ final <= final'
          BY <3>1
        <4>2. final \in Nat /\ final' \in Nat
          BY <1>0
        <4> QED BY <4>1, <4>2, Positions
      <3>3. times'[final + 1] = times[final + 1]
        BY <1>0
      <3> QED BY <3>1, <3>2, <3>3
    <2>2. \A t \in Int : t >= times'[final' + 1] => t >= times[final + 1]
      BY <2>1
    <2>3. \A t \in Int : MayLand(t)' <=> MayLand(t)
      BY DEF MayLand
    <2>4. TimeOf(final) = times[final + 1] /\ TimeOf(final)' = times'[final' + 1]
      BY DEF TimeOf
    <2> QED BY <2>2, <2>3, <2>4 DEF Expired
  <1>6. OutcomeOK'
    BY <1>0, <1>5 DEF OutcomeOK, UseOK, Evm
  <1> QED BY <1>1, <1>3, <1>4, <1>6

\* A block with nothing or with something in it.
LEMMA MineKeepsEvidence ==
    ASSUME EvidenceInv, NEW t \in BlockTimes, NewBlock(t), UNCHANGED reader,
           \/ UNCHANGED use
           \/ /\ use.by = "none"
              /\ \E by \in {"facilitator", "payer", "indirect", "cancel"} :
                    /\ use' = [by |-> by, at |-> Tip + 1]
                    /\ by # "cancel" => MayLand(t)
                    /\ by = "indirect" => family = "permit2"
                    /\ by = "facilitator" <=> tx' = "mined",
           tx' \in {"none", "pending", "mined", "reverted"},
           UNCHANGED use => (tx' = "mined" <=> tx = "mined"),
           tx = "none" => tx' = "none", tx = "reverted" => tx' = "reverted",
           tx' = tx => txAt' = txAt,
           tx' # tx => tx = "pending" /\ tx' \in {"mined", "reverted"} /\ txAt' = Tip + 1,
           included => included', tx' = "mined" => included'
    PROVE  EvidenceInv'
  <1> USE DEF EvidenceInv, SettleInv, ReadInv
  <1>k. PICK k \in Nat : k = Len(times)
    BY DEF ChainOK
  <1>0. /\ k > 0 /\ times \in Seq(Int) /\ final < k /\ final \in Nat
        /\ \A i \in 1 .. k : times[i] \in Int
        /\ times' = Append(times, t) /\ call # "idle" /\ UNCHANGED <<family, final, call, attempt>>
    BY <1>k DEF ChainOK, NewBlock
  <1>1. /\ t \in Int /\ t >= times[k] /\ (family = "near" => t = k)
    <2>1. CASE family = "near"
      <3>1. t = k /\ times[k] = k - 1
        BY <1>k, <1>0, <2>1 DEF BlockTimes, Tip, ChainOK
      <3> QED BY <3>1
    <2>2. CASE family # "near"
      <3>1. t \in Now .. Now + 2 /\ Now = times[k]
        BY <1>k, <1>0, <2>2 DEF BlockTimes, Now, TimeOf, Tip
      <3> QED BY <1>0, <2>2, <3>1
    <2> QED BY <2>1, <2>2
  <1>2. /\ ChainOK' /\ Len(times') = k + 1
        /\ \A i \in 1 .. k : times'[i] = times[i]
        /\ times'[k + 1] = t
    <2>1. times = SubSeq(times, 1, k)
      BY <1>k, <1>0, SubSeqFull
    <2>2. times' = Append(SubSeq(times, 1, k), t) /\ k \in 1 .. Len(times)
      BY <1>k, <1>0, <2>1
    <2> QED BY <1>0, <1>1, <2>2, ChainGrows
  <1>3. TimeOf(k)' = t /\ \A b \in 0 .. k - 1 : TimeOf(b)' = TimeOf(b)
    BY <1>0, <1>2 DEF TimeOf
  <1>4. t >= times[k] /\ (Evm(family) => t >= attempt.createdAt - Margin)
    <2>1. Evm(family) => times[k] >= attempt.createdAt - Margin
      BY <1>k, <1>0 DEF AttemptOK
    <2>2. times[k] \in Int /\ attempt.createdAt - Margin \in Int
      BY <1>0, MarginIsInt DEF AttemptOK
    <2> QED BY <1>1, <2>1, <2>2
  <1>5. UseOK'
    <2>1. CASE UNCHANGED use
      <3>1. use.by # "none" => use.at \in 0 .. k - 1
        BY <1>k, <1>0 DEF UseOK
      <3>2. use.by # "none" => TimeOf(use.at)' = TimeOf(use.at)
        BY <1>3, <2>1, <3>1 DEF TimeOf
      <3>3. \A x : MayLand(x)' <=> MayLand(x)
        BY <1>0 DEF MayLand
      <3>4. use.by \in {"facilitator", "payer", "indirect"} => MayLand(TimeOf(use.at))'
        BY <2>1, <3>2, <3>3 DEF UseOK, MayLand
      <3>5. use.by # "none" => use.at \in Nat /\ use.at < Len(times')
        BY <1>0, <1>2, <3>1
      <3> QED BY <1>0, <2>1, <3>2, <3>4, <3>5 DEF UseOK, Evm
    <2>2. CASE \E by \in {"facilitator", "payer", "indirect", "cancel"} :
                  /\ use' = [by |-> by, at |-> Tip + 1] /\ (by # "cancel" => MayLand(t))
                  /\ by = "indirect" => family = "permit2"
      <3>1. PICK by \in {"facilitator", "payer", "indirect", "cancel"} :
               /\ use' = [by |-> by, at |-> k] /\ (by # "cancel" => MayLand(t))
               /\ by = "indirect" => family = "permit2"
        BY <1>k, <1>0, <2>2 DEF Tip
      <3>2. use'.by = by /\ use'.at = k /\ TimeOf(use.at)' = t
        BY <1>2, <3>1 DEF TimeOf
      <3>3. MayLand(TimeOf(use.at))' <=> MayLand(t)
        BY <1>0, <3>2 DEF MayLand
      <3> QED BY <1>0, <1>2, <1>4, <3>1, <3>2, <3>3 DEF UseOK, Evm
    <2> QED BY <2>1, <2>2
  <1>6. AttemptOK'
    <2>1. tx' = "mined" => txAt' = use'.at
      <3>1. CASE UNCHANGED use
        BY <3>1 DEF AttemptOK
      <3>2. CASE \E by : use' = [by |-> by, at |-> Tip + 1] /\ use.by = "none"
        BY <3>2 DEF AttemptOK
      <3> QED BY <3>1, <3>2
    <2>2. tx' \in {"none", "pending"} => txAt' = NoBlock
      BY DEF AttemptOK
    <2>3. undone' = undone
      BY DEF NewBlock
    <2> QED BY <1>0, <1>2, <1>4, <2>1, <2>2, <2>3 DEF AttemptOK, Failed, Evm
  <1>7. ReadInv'
    <2>1. \A b \in 0 .. final : times'[b + 1] = times[b + 1]
      BY <1>0, <1>2
    <2>2. Expired => ~MayLand(t)
      <3>1. times[final + 1] <= times[k] /\ times[final + 1] \in Int /\ times[k] \in Int
        BY <1>k, <1>0 DEF ChainOK
      <3> QED BY <1>1, <3>1 DEF Expired, TimeOf
    <2>3. Expired /\ use.by \in {"none", "cancel"} => use'.by \in {"none", "cancel"}
      BY <2>2
    <2> QED BY <1>0, <1>2, <2>1, <2>3, ReadStays DEF ReaderOK
  <1> QED BY <1>2, <1>5, <1>6, <1>7

\* A reorganisation replaces blocks above the final one.
LEMMA ReorgKeepsEvidence ==
    ASSUME EvidenceInv, NEW t \in BlockTimes, NEW n \in 0 .. MaxBlock, Reorg(n, t), UNCHANGED reader
    PROVE  EvidenceInv'
  <1> USE DEF EvidenceInv, SettleInv, ReadInv
  <1> DEFINE k == n + 1
             x == IF family = "near" THEN n + 1 ELSE t
  <1>0. /\ Len(times) \in Nat /\ times \in Seq(Int) /\ final \in Nat /\ n \in Nat
        /\ \A i \in 1 .. Len(times) : times[i] \in Int
        /\ final <= n /\ n < Len(times) - 1
        /\ times' = Append(SubSeq(times, 1, k), x) /\ UNCHANGED <<family, final, call, attempt, included>>
    BY EvidenceAssumption DEF ChainOK, Reorg, Tip
  <1>1. k \in 1 .. Len(times) /\ k \in Nat /\ final < k
    BY <1>0
  <1>2. /\ x \in Int /\ x >= times[k] /\ (family = "near" => x = k)
        /\ family # "near" => x >= times[Len(times)]
    <2>1. CASE family = "near"
      BY <1>0, <1>1, <2>1 DEF ChainOK
    <2>2. CASE family # "near"
      <3>1. t \in Now .. Now + 2 /\ Now = times[Len(times)]
        BY <1>0, <2>2 DEF BlockTimes, Now, TimeOf, Tip
      <3>2. times[k] <= times[Len(times)] /\ times[k] \in Int /\ times[Len(times)] \in Int
        BY <1>0, <1>1 DEF ChainOK
      <3> QED BY <1>0, <2>2, <3>1, <3>2
    <2> QED BY <2>1, <2>2
  <1>3. /\ ChainOK' /\ Len(times') = k + 1
        /\ \A i \in 1 .. k : times'[i] = times[i]
        /\ times'[k + 1] = x
    BY <1>0, <1>1, <1>2, ChainGrows
  <1>4. /\ use.at > n => use' = [by |-> "none", at |-> NoBlock]
        /\ ~(use.at > n) => use' = use
        /\ txAt > n => /\ tx' = "pending" /\ txAt' = NoBlock
                       /\ undone' = (undone \/ attempt.status = "rejected")
        /\ ~(txAt > n) => UNCHANGED <<tx, txAt, undone>>
    BY DEF Reorg
  <1> HIDE DEF x, k
  <1>5. UseOK'
    <2>1. CASE use.at > n
      BY <1>4, <2>1 DEF UseOK
    <2>2. CASE ~(use.at > n)
      <3>1. use.by # "none" => use.at \in 0 .. n
        BY <1>0, <2>2 DEF UseOK
      <3>2. use.by # "none" => use.at + 1 \in 1 .. k /\ use.at < k + 1
        BY <1>0, <3>1 DEF k
      <3>3. use.by # "none" => TimeOf(use.at)' = TimeOf(use.at)
        BY <1>3, <1>4, <2>2, <3>2 DEF TimeOf
      <3> QED BY <1>0, <1>3, <1>4, <2>2, <3>1, <3>2, <3>3 DEF UseOK, MayLand, Evm
    <2> QED BY <2>1, <2>2
  <1>6. AttemptOK'
    <2>1. call # "idle" /\ Evm(family) => times'[Len(times')] >= attempt.createdAt - Margin
      <3>1. Evm(family) => family # "near"
        BY DEF Evm
      <3>2. times[Len(times)] \in Int /\ attempt.createdAt - Margin \in Int
        BY <1>0, MarginIsInt DEF AttemptOK
      <3> QED BY <1>2, <1>3, <3>1, <3>2 DEF AttemptOK
    <2>2. /\ use'.by = "facilitator" <=> tx' = "mined"
          /\ tx' = "mined" => tx = "mined" /\ txAt' = use'.at
          /\ tx' \in {"none", "pending", "mined", "reverted"}
      <3>1. CASE tx = "mined" /\ txAt > n
        BY <1>4, <3>1 DEF AttemptOK
      <3>2. CASE tx = "mined" /\ ~(txAt > n)
        BY <1>4, <3>2 DEF AttemptOK
      <3>3. CASE tx # "mined"
        BY <1>4, <3>3 DEF AttemptOK
      <3> QED BY <3>1, <3>2, <3>3
    <2>3. /\ tx' \in {"none", "pending"} => txAt' = NoBlock
          /\ tx = "none" => tx' = "none"
          /\ use.by = "none" => use'.by = "none"
      <3>1. tx = "none" => ~(txAt > n)
        BY <1>0 DEF AttemptOK, NoBlock
      <3> QED BY <1>4, <3>1 DEF AttemptOK
    <2>4. attempt.status = "rejected" /\ Failed(attempt.reference) => Failed(attempt.reference)'
      BY <1>0, <1>4 DEF Failed
    <2> QED BY <1>0, <2>1, <2>2, <2>3, <2>4 DEF AttemptOK, Evm
  <1>7. ReadInv'
    <2>1. \A b \in 0 .. final : times'[b + 1] = times[b + 1]
      BY <1>0, <1>1, <1>3
    <2>2. /\ use.by # "none" /\ use.at <= final => use' = use
          /\ use.by \in {"none", "cancel"} => use'.by \in {"none", "cancel"}
      BY <1>0, <1>4 DEF UseOK
    <2>3. final <= final' /\ (reader.pc # "idle" => call' # "idle" /\ attempt' = attempt)
      BY <1>0 DEF ReaderOK
    <2> QED BY <1>0, <1>3, <2>1, <2>2, <2>3, ReadStays
  <1> QED BY <1>3, <1>5, <1>6, <1>7

\* Finality advances.
LEMMA FinalizeKeepsEvidence ==
    ASSUME EvidenceInv, Finalize, UNCHANGED reader
    PROVE  EvidenceInv'
  <1> USE DEF EvidenceInv, SettleInv, ReadInv
  <1>0. /\ final' = final + 1 /\ final < Len(times) - 1
        /\ UNCHANGED <<times, use, decoy, family, tx, txAt, call, attempt, included, undone>>
    BY DEF Finalize, settleVars, Tip
  <1>1. ChainOK'
    BY <1>0 DEF ChainOK
  <1>2. UseOK' /\ AttemptOK'
    BY <1>0 DEF UseOK, AttemptOK, Failed, MayLand, TimeOf, Evm
  <1>3. ReadInv'
    BY <1>0, <1>1, ReadStays DEF ReaderOK, ChainOK
  <1> QED BY <1>1, <1>2, <1>3

\* All that happens on chain.
LEMMA ChainKeepsEvidence ==
    ASSUME EvidenceInv, ChainNext, UNCHANGED reader
    PROVE  EvidenceInv'
  <1>0. /\ tx \in {"none", "pending", "mined", "reverted"} /\ (tx = "mined" => included)
        /\ use.by = "facilitator" <=> tx = "mined"
    BY DEF EvidenceInv, SettleInv, AttemptOK
  <1>1. ASSUME NEW t \in BlockTimes, MineEmpty(t) PROVE EvidenceInv'
    BY <1>0, <1>1, MineKeepsEvidence DEF MineEmpty
  <1>2. ASSUME NEW t \in BlockTimes, MineTransfer(t) PROVE EvidenceInv'
    <2>1. NewBlock(t) /\ tx = "pending"
      BY <1>2 DEF MineTransfer
    <2>2. CASE use.by = "none" /\ MayLand(t)
      BY <1>0, <1>2, <2>1, <2>2, MineKeepsEvidence DEF MineTransfer
    <2>3. CASE ~(use.by = "none" /\ MayLand(t))
      BY <1>0, <1>2, <2>1, <2>3, MineKeepsEvidence DEF MineTransfer
    <2> QED BY <2>2, <2>3
  <1>3. ASSUME NEW t \in BlockTimes, NEW by \in Others, MineOther(t, by) PROVE EvidenceInv'
    <2>1. by \in {"payer", "indirect", "cancel"} /\ (by = "indirect" => family = "permit2")
      BY DEF Others
    <2>2. /\ NewBlock(t) /\ use.by = "none" /\ use' = [by |-> by, at |-> Tip + 1]
          /\ by # "cancel" => MayLand(t)
          /\ UNCHANGED <<tx, txAt, included>>
      BY <1>3 DEF MineOther
    <2>3. use' # use /\ tx # "mined"
      BY <1>0, <2>1, <2>2
    <2> QED BY <1>0, <2>1, <2>2, <2>3, MineKeepsEvidence
  <1>4. ASSUME NEW t \in BlockTimes, MineDecoy(t) PROVE EvidenceInv'
    BY <1>0, <1>4, MineKeepsEvidence DEF MineDecoy
  <1>5. ASSUME NEW t \in BlockTimes, NEW n \in 0 .. MaxBlock, Reorg(n, t) PROVE EvidenceInv'
    BY <1>5, ReorgKeepsEvidence
  <1>6. CASE Finalize
    BY <1>6, FinalizeKeepsEvidence
  <1> QED BY <1>1, <1>2, <1>3, <1>4, <1>5, <1>6 DEF ChainNext

-----------------------------------------------------------------------------
(* The call to the facilitator.                                            *)

\* settle() and the answers it classifies.
LEMMA SettleKeepsEvidence ==
    ASSUME EvidenceInv, SettleNext, UNCHANGED reader
    PROVE  EvidenceInv'
  <1> USE DEF EvidenceInv, SettleInv
  <1>a. UNCHANGED <<family, times, final>> => ChainOK'
    BY DEF ChainOK
  <1>b. /\ UNCHANGED <<family, times, final, use, call>> => (attempt'.createdAt = attempt.createdAt => ReadInv')
        /\ UNCHANGED <<family, times, final, use>> /\ call' # "idle"
           /\ (call # "idle" => attempt'.createdAt = attempt.createdAt) => ReadInv'
    BY <1>a, ReadStays DEF ReadInv, ReaderOK, ChainOK
  <1>1. CASE CallSettle
    <2>1. /\ call = "idle" /\ call' = "open"
          /\ UNCHANGED <<family, times, final, use, tx, txAt, included>>
      BY <1>1 DEF CallSettle, chainVars
    <2>2. PICK skew \in Skews, known \in BOOLEAN :
             attempt' = [status |-> "reserved", reference |-> "", createdAt |-> Now + skew,
                         relayers |-> known]
      BY <1>1 DEF CallSettle
    <2>3. /\ Len(times) \in Nat /\ Now = times[Len(times)] /\ Now \in Int /\ skew \in Int
          /\ skew <= Margin /\ Margin \in Nat
      <3>1. Len(times) \in Nat /\ Len(times) > 0 /\ times[Len(times)] \in Int
        BY DEF ChainOK
      <3>2. Now = times[Len(times)]
        BY <3>1 DEF Now, TimeOf, Tip
      <3> QED BY <3>1, <3>2, EvidenceAssumption
    <2>4. attempt'.createdAt \in Int /\ times[Len(times)] >= attempt'.createdAt - Margin
      <3>1. attempt'.createdAt = Now + skew
        BY <2>2
      <3> QED BY <2>3, <3>1
    <2>5. AttemptOK'
      BY <2>1, <2>2, <2>4 DEF AttemptOK
    <2>6. UseOK'
      BY <2>1 DEF UseOK, AttemptOK
    <2> QED BY <1>a, <1>b, <2>1, <2>5, <2>6
  <1>2. CASE Broadcast
    <2>1. /\ call \in {"open", "abandoned"} /\ tx = "none" /\ tx' = "pending"
          /\ UNCHANGED <<family, times, final, use, txAt, call, attempt, included>>
      BY <1>2 DEF Broadcast, chainVars
    <2>2. UseOK' /\ AttemptOK'
      BY <2>1 DEF UseOK, AttemptOK, MayLand, TimeOf, Evm
    <2> QED BY <1>a, <1>b, <2>1, <2>2
  <1>3. CASE \E a \in SdkAnswers : Answer(a) \/ Answer(SettleError(a))
    <2>1. PICK a : Answer(a) /\ Sound(a)
      BY <1>3, AnswersAreSound DEF AttemptOK
    <2> DEFINE v == Classify(family, a)
    <2>2. /\ call = "open" /\ UNCHANGED <<family, times, final, use, tx, txAt, included>>
          /\ attempt' = [attempt EXCEPT !.status = v.status, !.reference = v.reference]
          /\ call' = IF a.kind = "throw" THEN "abandoned" ELSE "answered"
      BY <2>1 DEF Answer, chainVars
    <2>3. /\ v.status = "settled" => tx = "mined"
          /\ v.status \in Definite => call' = "answered"
          /\ v.status = "not-submitted" => tx = "none"
          /\ v.status = "rejected" => tx = "none" \/ (tx = "reverted" /\ v.reference = "hash")
          /\ call' # "idle"
      BY <2>1, <2>2 DEF Sound
    <2> HIDE DEF v
    <2>4. /\ attempt' = [status |-> v.status, reference |-> v.reference,
                         createdAt |-> attempt.createdAt, relayers |-> attempt.relayers]
      BY <2>2 DEF AttemptOK
    <2>5. AttemptOK'
      BY <2>2, <2>3, <2>4 DEF AttemptOK, Definite, Failed, Evm
    <2>6. UseOK'
      BY <2>2, <2>4 DEF UseOK, MayLand, TimeOf, Evm
    <2> QED BY <1>a, <1>b, <2>2, <2>3, <2>4, <2>5, <2>6
  <1>4. CASE ChainNext
    BY <1>4, ChainKeepsEvidence
  <1> QED BY <1>1, <1>2, <1>3, <1>4 DEF SettleNext

-----------------------------------------------------------------------------
(* The steps of a run.                                                     *)

\* A block is not before the earliest and not after the finalized one.
LEMMA TimesAreOrdered ==
    ASSUME ChainOK
    PROVE  /\ \A b \in 0 .. final : TimeOf(b) \in Int
           /\ \A b, c \in 0 .. Len(times) - 1 : TimeOf(b) \in Int /\ (b <= c => TimeOf(b) <= TimeOf(c))
  <1>1. /\ Len(times) \in Nat /\ final \in Nat /\ final < Len(times)
        /\ \A i \in 1 .. Len(times) : times[i] \in Int
        /\ \A i, j \in 1 .. Len(times) : i <= j => times[i] <= times[j]
    BY DEF ChainOK
  <1>2. \A b \in 0 .. Len(times) - 1 : b + 1 \in 1 .. Len(times)
    BY <1>1
  <1>3. \A b, c \in 0 .. Len(times) - 1 : b <= c => b + 1 <= c + 1
    BY <1>1
  <1>4. \A b \in 0 .. final : b \in 0 .. Len(times) - 1
    BY <1>1
  <1> QED BY <1>1, <1>2, <1>3, <1>4 DEF TimeOf

\* A read leaves chain and settlement as they are.
LEMMA StandsStill ==
    ASSUME EvidenceInv, UNCHANGED <<chainVars, settleVars>>
    PROVE  SettleInv'
  BY DEF EvidenceInv, SettleInv, ChainOK, UseOK, AttemptOK, Failed, MayLand, TimeOf, Evm,
         chainVars, settleVars

\* A run ends with an outcome.
LEMMA ConcludeKeepsEvidence ==
    ASSUME EvidenceInv, UNCHANGED <<chainVars, settleVars>>, NEW o, Conclude(o),
           o = "settled" => use.by \in {"facilitator", "payer"} /\ use.at <= final,
           o = "not-settled" => use.by \in {"none", "cancel"} /\ Expired,
           o = "used_without_record" /\ Evm(family) =>
              use.by \in {"cancel", "indirect"} /\ use.at <= final
    PROVE  EvidenceInv'
  <1>1. reader' = [NoReader EXCEPT !.outcome = o]
    BY DEF Conclude
  <1>2. reader' = [pc |-> "idle", finalized |-> 0, low |-> 0, high |-> 0, even |-> TRUE,
                   from |-> 0, end |-> 0, outcome |-> o]
    BY <1>1 DEF NoReader
  <1>3. ReaderOK' /\ BoundsOK' /\ WindowOK'
    BY <1>2 DEF EvidenceInv, SettleInv, ChainOK, ReaderOK, BoundsOK, WindowOK, chainVars
  <1>4. OutcomeOK'
    BY <1>2 DEF OutcomeOK, Expired, MayLand, TimeOf, Evm, chainVars, settleVars
  <1> QED BY <1>3, <1>4, StandsStill DEF EvidenceInv, ReadInv

\* A run goes on to its next read outside the search for a block.
LEMMA GoOnKeepsEvidence ==
    ASSUME EvidenceInv, UNCHANGED <<chainVars, settleVars>>, NEW f \in Nat, f <= final,
           NEW pc \in {"finalized", "reference", "state", "latest", "history", "from"},
           call # "idle", reader.pc \notin {"from", "end"},
           pc = "from" => Evm(family) /\ UsedAt(f),
           reader' = [reader EXCEPT !.finalized = f, !.pc = pc]
    PROVE  EvidenceInv'
  <1> USE DEF EvidenceInv, ReadInv
  <1>1. reader' = [pc |-> pc, finalized |-> f, low |-> reader.low, high |-> reader.high,
                   even |-> reader.even, from |-> reader.from, end |-> reader.end,
                   outcome |-> reader.outcome]
    BY DEF ReaderOK
  <1>2. reader.high = 0
    BY DEF ReaderOK
  <1>3. ReaderOK' /\ BoundsOK' /\ WindowOK'
    BY <1>1, <1>2 DEF ReaderOK, BoundsOK, WindowOK, UsedAt, Evm, chainVars, settleVars
  <1>4. OutcomeOK'
    BY <1>1 DEF OutcomeOK, Expired, MayLand, TimeOf, Evm, chainVars, settleVars
  <1> QED BY <1>3, <1>4, StandsStill

\* The first block that reaches a time, up to the one after the finalized one.
FirstAt(block, seconds) ==
    /\ block \in Nat
    /\ \A b \in 0 .. reader.finalized :
          (TimeOf(b) >= seconds => block <= b) /\ (TimeOf(b) < seconds => b <= block - 1)

\* firstBlockAt found its block.
LEMMA LocatedKeepsEvidence ==
    ASSUME EvidenceInv, UNCHANGED <<chainVars, settleVars>>, NEW block, FirstAt(block, Seconds),
           reader.pc \in {"from", "end"}, Located(block)
    PROVE  EvidenceInv'
  <1> USE DEF EvidenceInv, ReadInv
  <1>0. reader.finalized \in Nat /\ \A b : TimeOf(b)' = TimeOf(b)
    BY DEF ReaderOK, TimeOf, chainVars
  <1>1. CASE reader.pc = "from"
    <2>1. reader' = [pc |-> "end", finalized |-> reader.finalized, low |-> 0, high |-> 0,
                     even |-> TRUE, from |-> block, end |-> reader.end, outcome |-> reader.outcome]
      BY <1>1 DEF ReaderOK, Located
    <2>2. ReaderOK' /\ BoundsOK'
      BY <1>1, <2>1 DEF ReaderOK, BoundsOK, UsedAt, Evm, chainVars, settleVars
    <2>3. FromSeconds' = FromSeconds /\ Seconds = FromSeconds
      BY <1>1 DEF FromSeconds, Seconds, settleVars
    <2>4. WindowOK'
      BY <1>0, <2>1, <2>3 DEF WindowOK, FirstAt
    <2>5. OutcomeOK'
      BY <2>1 DEF OutcomeOK, Expired, MayLand, TimeOf, Evm, chainVars, settleVars
    <2> QED BY <2>2, <2>4, <2>5, StandsStill
  <1>2. CASE reader.pc = "end"
    <2>1. reader' = [pc |-> "logs", finalized |-> reader.finalized, low |-> 0, high |-> 0,
                     even |-> TRUE, from |-> reader.from, end |-> block - 1,
                     outcome |-> reader.outcome]
      BY <1>2 DEF ReaderOK, Located
    <2>2. ReaderOK' /\ BoundsOK'
      BY <1>2, <2>1 DEF ReaderOK, BoundsOK, UsedAt, Evm, chainVars, settleVars
    <2>3. FromSeconds' = FromSeconds /\ EndsAt' = EndsAt /\ Seconds = EndsAt
      BY <1>2 DEF FromSeconds, EndsAt, Seconds, settleVars
    <2>4. WindowOK'
      BY <1>0, <1>2, <2>1, <2>3 DEF WindowOK, FirstAt
    <2>5. OutcomeOK'
      BY <2>1 DEF OutcomeOK, Expired, MayLand, TimeOf, Evm, chainVars, settleVars
    <2> QED BY <2>2, <2>4, <2>5, StandsStill
  <1> QED BY <1>1, <1>2

\* The time that is looked for is an integer.
LEMMA TargetIsInt ==
    ASSUME SettleInv
    PROVE  Seconds \in Int /\ FromSeconds \in Int /\ EndsAt \in Int
  <1>1. ValidAfter \in Int /\ Limit[family] \in Int /\ attempt.createdAt - Margin \in Int
    BY EvidenceAssumption DEF SettleInv, ChainOK, AttemptOK
  <1>2. FromSeconds \in Int
    BY <1>1, MaxOfTwo DEF FromSeconds
  <1> QED BY <1>1, <1>2 DEF Seconds, EndsAt

\* The loop goes on between bounds that hold the time, or ends at the block.
LEMMA BetweenKeepsEvidence ==
    ASSUME EvidenceInv, UNCHANGED <<chainVars, settleVars>>, reader.pc \in {"from", "end"},
           NEW low \in Nat, NEW high \in Nat, NEW even, low < high, high <= reader.finalized,
           TimeOf(low) < Seconds, Seconds <= TimeOf(high), Between(low, high, even)
    PROVE  EvidenceInv'
  <1> USE DEF EvidenceInv, ReadInv
  <1>0. /\ reader.finalized \in Nat /\ reader.finalized <= final /\ final \in Nat
        /\ Len(times) \in Nat /\ final < Len(times)
    BY DEF ReaderOK, SettleInv, ChainOK
  <1>1. CASE high - low <= 1
    <2>1. low = high - 1
      BY <1>1
    <2>2. FirstAt(high, Seconds)
      <3> SUFFICES ASSUME NEW b \in 0 .. reader.finalized
                   PROVE  (TimeOf(b) >= Seconds => high <= b) /\ (TimeOf(b) < Seconds => b <= high - 1)
        BY DEF FirstAt
      <3>1. /\ b \in 0 .. Len(times) - 1 /\ low \in 0 .. Len(times) - 1
            /\ high \in 0 .. Len(times) - 1 /\ b \in Nat
        BY <1>0
      <3>2. /\ TimeOf(b) \in Int /\ TimeOf(low) \in Int /\ TimeOf(high) \in Int /\ Seconds \in Int
            /\ b <= low => TimeOf(b) <= TimeOf(low)
            /\ high <= b => TimeOf(high) <= TimeOf(b)
        BY <3>1, TimesAreOrdered, TargetIsInt DEF SettleInv
      <3> QED BY <2>1, <3>1, <3>2
    <2>3. Located(high)
      BY <1>1 DEF Between
    <2> QED BY <2>2, <2>3, LocatedKeepsEvidence
  <1>2. CASE ~(high - low <= 1)
    <2>1. reader' = [pc |-> reader.pc, finalized |-> reader.finalized, low |-> low, high |-> high,
                     even |-> even, from |-> reader.from, end |-> reader.end,
                     outcome |-> reader.outcome]
      BY <1>2 DEF ReaderOK, Between
    <2>2. ReaderOK'
      BY <2>1 DEF ReaderOK, UsedAt, Evm, chainVars, settleVars
    <2>3. FromSeconds' = FromSeconds /\ EndsAt' = EndsAt /\ Seconds' = Seconds
      BY <2>1 DEF FromSeconds, EndsAt, Seconds, settleVars
    <2>4. BoundsOK'
      <3>1. TimeOf(reader.low)' = TimeOf(low) /\ TimeOf(reader.high)' = TimeOf(high)
        BY <2>1 DEF TimeOf, chainVars
      <3>2. low + 1 < high
        BY <1>2
      <3> QED BY <2>1, <2>3, <3>1, <3>2 DEF BoundsOK
    <2>5. WindowOK'
      BY <2>1, <2>3 DEF WindowOK, TimeOf, chainVars
    <2>6. OutcomeOK'
      BY <2>1 DEF OutcomeOK, Expired, MayLand, TimeOf, Evm, chainVars, settleVars
    <2> QED BY <2>2, <2>4, <2>5, <2>6, StandsStill
  <1> QED BY <1>1, <1>2

\* firstBlockAt reads the ends of the range.
LEMMA FirstBlockKeepsEvidence ==
    ASSUME EvidenceInv, ReadFirstBlock
    PROVE  EvidenceInv'
  <1> USE DEF EvidenceInv, ReadInv
  <1> DEFINE fin == reader.finalized
  <1>0. /\ fin \in Nat /\ fin <= final /\ final \in Nat /\ Len(times) \in Nat /\ final < Len(times)
        /\ reader.pc \in {"from", "end"} /\ UNCHANGED <<chainVars, settleVars>>
    BY DEF ReaderOK, SettleInv, ChainOK, ReadFirstBlock
  <1>1. /\ Seconds \in Int
        /\ \A b \in 0 .. fin : b \in Nat /\ b <= fin /\ TimeOf(b) \in Int
                               /\ TimeOf(b) <= TimeOf(fin) /\ TimeOf(0) <= TimeOf(b)
    <2>1. \A b \in 0 .. fin : b \in Nat /\ b <= fin /\ b \in 0 .. Len(times) - 1
      BY <1>0
    <2>2. 0 \in 0 .. Len(times) - 1 /\ fin \in 0 .. Len(times) - 1
      BY <1>0
    <2>3. ChainOK /\ \A b \in 0 .. fin : 0 <= b
      BY DEF SettleInv
    <2> QED BY <2>1, <2>2, <2>3, TimesAreOrdered, TargetIsInt
  <1>2. CASE Seconds > TimeOf(fin) /\ Located(fin + 1)
    <2>1. FirstAt(fin + 1, Seconds)
      <3>1. TimeOf(fin) \in Int
        BY <1>0, <1>1
      <3> QED BY <1>0, <1>1, <1>2, <3>1 DEF FirstAt
    <2> QED BY <1>0, <1>2, <2>1, LocatedKeepsEvidence
  <1>3. CASE TimeOf(0) >= Seconds /\ Located(0)
    <2>1. FirstAt(0, Seconds)
      <3>1. TimeOf(0) \in Int
        BY <1>0, <1>1
      <3> QED BY <1>0, <1>1, <1>3, <3>1 DEF FirstAt
    <2> QED BY <1>0, <1>3, <2>1, LocatedKeepsEvidence
  <1>4. CASE ~(Seconds > TimeOf(fin)) /\ ~(TimeOf(0) >= Seconds) /\ Between(0, fin, TRUE)
    <2>1. TimeOf(0) \in Int /\ TimeOf(fin) \in Int
      BY <1>0, <1>1
    <2>2. TimeOf(0) < Seconds /\ Seconds <= TimeOf(fin) /\ fin # 0
      BY <1>1, <1>4, <2>1
    <2>3. 0 < fin /\ 0 \in Nat /\ fin <= fin
      BY <1>0, <2>2
    <2> QED BY <1>0, <1>4, <2>2, <2>3, BetweenKeepsEvidence
  <1> QED BY <1>2, <1>3, <1>4 DEF ReadFirstBlock

\* firstBlockAt halves its range.
LEMMA MiddleBlockKeepsEvidence ==
    ASSUME EvidenceInv, ReadMiddleBlock
    PROVE  EvidenceInv'
  <1> USE DEF EvidenceInv, ReadInv
  <1> DEFINE low == reader.low
             high == reader.high
             middle == Middle(Seconds, low, high, reader.even)
  <1>0. /\ reader.finalized \in Nat /\ reader.finalized <= final /\ final \in Nat
        /\ Len(times) \in Nat /\ final < Len(times)
        /\ reader.pc \in {"from", "end"} /\ UNCHANGED <<chainVars, settleVars>>
    BY DEF ReaderOK, SettleInv, ChainOK, ReadMiddleBlock
  <1>1. /\ low \in Nat /\ high \in Nat /\ low + 1 < high /\ high <= reader.finalized
        /\ TimeOf(low) < Seconds /\ Seconds <= TimeOf(high)
    BY DEF ReadMiddleBlock, BoundsOK
  <1>2. /\ low \in 0 .. Len(times) - 1 /\ high \in 0 .. Len(times) - 1
    BY <1>0, <1>1
  <1>3. Seconds \in Int /\ TimeOf(low) \in Int /\ TimeOf(high) \in Int
    BY <1>2, TimesAreOrdered, TargetIsInt DEF SettleInv
  <1>4. middle \in Nat /\ low < middle /\ middle < high
    BY <1>1, <1>3, MiddleIsBetween
  <1> HIDE DEF middle
  <1>5. TimeOf(middle) \in Int /\ middle <= reader.finalized
    <2>1. middle \in 0 .. Len(times) - 1 /\ middle <= reader.finalized
      BY <1>0, <1>1, <1>4
    <2> QED BY <2>1, TimesAreOrdered DEF SettleInv
  <1>6. CASE TimeOf(middle) >= Seconds /\ Between(low, middle, ~reader.even)
    <2>1. Seconds <= TimeOf(middle)
      BY <1>3, <1>5, <1>6
    <2> QED BY <1>0, <1>1, <1>4, <1>5, <1>6, <2>1, BetweenKeepsEvidence
  <1>7. CASE ~(TimeOf(middle) >= Seconds) /\ Between(middle, high, ~reader.even)
    <2>1. TimeOf(middle) < Seconds
      BY <1>3, <1>5, <1>7
    <2> QED BY <1>0, <1>1, <1>4, <1>7, <2>1, BetweenKeepsEvidence
  <1> QED BY <1>6, <1>7 DEF ReadMiddleBlock, middle

\* Every run starts after settle() called the facilitator.
LEMMA StartKeepsEvidence ==
    ASSUME EvidenceInv, StartRead
    PROVE  EvidenceInv'
  <1> USE DEF EvidenceInv, ReadInv
  <1>1. PICK pc \in {"finalized", "reference"} : reader' = [NoReader EXCEPT !.pc = pc]
    BY DEF StartRead
  <1>2. reader' = [pc |-> pc, finalized |-> 0, low |-> 0, high |-> 0, even |-> TRUE,
                   from |-> 0, end |-> 0, outcome |-> "none"]
    BY <1>1 DEF NoReader
  <1>3. call # "idle" /\ UNCHANGED <<chainVars, settleVars>>
    BY DEF StartRead, SettleInv, AttemptOK
  <1>4. final' \in Nat /\ call' # "idle"
    BY <1>3 DEF SettleInv, ChainOK, chainVars, settleVars
  <1>5. ReaderOK'
    BY <1>2, <1>4 DEF ReaderOK
  <1>6. BoundsOK' /\ WindowOK' /\ OutcomeOK'
    BY <1>2 DEF BoundsOK, WindowOK, OutcomeOK
  <1> QED BY <1>3, <1>5, <1>6, StandsStill

\* A read that fails, or whose answer decides nothing.
LEMMA UnknownKeepsEvidence ==
    ASSUME EvidenceInv, UNCHANGED <<chainVars, settleVars>>, Conclude("unknown")
    PROVE  EvidenceInv'
  BY ConcludeKeepsEvidence

\* The next read, with the finalized block as it was read before.
LEMMA NextReadKeepsEvidence ==
    ASSUME EvidenceInv, UNCHANGED <<chainVars, settleVars>>,
           NEW pc \in {"finalized", "reference", "state", "latest", "history", "from"},
           reader.pc \notin {"idle", "from", "end"}, GoOn(pc),
           pc = "from" => Evm(family) /\ UsedAt(reader.finalized)
    PROVE  EvidenceInv'
  <1>1. reader' = [pc |-> pc, finalized |-> reader.finalized, low |-> reader.low,
                   high |-> reader.high, even |-> reader.even, from |-> reader.from,
                   end |-> reader.end, outcome |-> reader.outcome]
    BY DEF EvidenceInv, ReadInv, ReaderOK, GoOn
  <1>2. ASSUME NEW x, x = [reader EXCEPT !.finalized = reader.finalized, !.pc = pc]
        PROVE  x = [pc |-> pc, finalized |-> reader.finalized, low |-> reader.low,
                   high |-> reader.high, even |-> reader.even, from |-> reader.from,
                   end |-> reader.end, outcome |-> reader.outcome]
    BY <1>2 DEF EvidenceInv, ReadInv, ReaderOK
  <1>3. reader' = [reader EXCEPT !.finalized = reader.finalized, !.pc = pc]
    BY <1>1, <1>2
  <1>4. reader.finalized \in Nat /\ reader.finalized <= final /\ call # "idle"
    BY DEF EvidenceInv, ReadInv, ReaderOK
  <1> QED BY <1>3, <1>4, GoOnKeepsEvidence

\* The recorded transaction, in a final block.
LEMMA ReferenceKeepsEvidence ==
    ASSUME EvidenceInv, ReadReferenceEvm \/ ReadReferenceNear \/ ReadReferenceSvm
    PROVE  EvidenceInv'
  <1>0. UNCHANGED <<chainVars, settleVars>> /\ reader.pc = "reference"
    BY DEF ReadReferenceEvm, ReadReferenceNear, ReadReferenceSvm
  <1>1. reader.finalized \in Nat /\ reader.finalized <= final /\ final \in Nat
        /\ (use.by = "facilitator" => use.at \in Nat)
    BY DEF EvidenceInv, SettleInv, ReadInv, ReaderOK, ChainOK, UseOK
  <1>2. CASE Conclude("settled") /\ use.by = "facilitator" /\ use.at <= final
    BY <1>0, <1>2, ConcludeKeepsEvidence
  <1>3. CASE Conclude("unknown")
    BY <1>0, <1>3, UnknownKeepsEvidence
  <1>4. CASE \E pc \in {"finalized", "state", "history"} : GoOn(pc)
    <2>1. PICK pc \in {"finalized", "state", "history"} : GoOn(pc)
      BY <1>4
    <2> QED BY <1>0, <2>1, NextReadKeepsEvidence
  <1>5. CASE ReadReferenceEvm
    BY <1>1, <1>2, <1>3, <1>4, <1>5 DEF ReadReferenceEvm
  <1>6. CASE ReadReferenceNear
    BY <1>1, <1>2, <1>3, <1>4, <1>6 DEF ReadReferenceNear, CarriesNear
  <1>7. CASE ReadReferenceSvm
    BY <1>1, <1>2, <1>3, <1>4, <1>7 DEF ReadReferenceSvm
  <1> QED BY <1>5, <1>6, <1>7

\* A finalized block at or after the end calls the transfer off: what used the
\* authorization later cannot have moved anything.
LEMMA LateUseMovesNothing ==
    ASSUME SettleInv, NEW f \in Nat, f <= final, ~UsedAt(f),
           \A t \in Int : t >= TimeOf(f) => ~MayLand(t)
    PROVE  use.by \in {"none", "cancel"} /\ Expired
  <1>0. /\ final \in Nat /\ Len(times) \in Nat /\ final < Len(times) /\ ChainOK
        /\ use.by # "none" => use.at \in Nat /\ use.at < Len(times) /\ use.at > f
    BY DEF SettleInv, ChainOK, UseOK, UsedAt
  <1>1. f \in 0 .. Len(times) - 1 /\ final \in 0 .. Len(times) - 1
    BY <1>0
  <1>2. TimeOf(f) \in Int /\ TimeOf(final) \in Int /\ TimeOf(f) <= TimeOf(final)
    BY <1>0, <1>1, TimesAreOrdered
  <1>3. Expired
    BY <1>2 DEF Expired
  <1>4. CASE use.by # "none"
    <2>1. use.at \in 0 .. Len(times) - 1 /\ f <= use.at
      BY <1>0, <1>4
    <2>2. TimeOf(use.at) \in Int /\ TimeOf(use.at) >= TimeOf(f)
      BY <1>0, <1>1, <1>2, <2>1, TimesAreOrdered
    <2>3. ~MayLand(TimeOf(use.at))
      BY <2>2
    <2> QED BY <1>3, <2>3 DEF SettleInv, UseOK
  <1> QED BY <1>3, <1>4

\* The reader asks for the state of the authorization.
LEMMA StateKeepsEvidence ==
    ASSUME EvidenceInv, ReadStateEvm \/ ReadStateNear
    PROVE  EvidenceInv'
  <1> DEFINE f == reader.finalized
  <1>0. /\ UNCHANGED <<chainVars, settleVars>> /\ reader.pc = "state"
        /\ SettleInv /\ ChainOK /\ f \in Nat /\ f <= final /\ final \in Nat
        /\ Len(times) \in Nat /\ final < Len(times) /\ Limit[family] \in Int
    BY EvidenceAssumption DEF ReadStateEvm, ReadStateNear, EvidenceInv, SettleInv, ReadInv, ReaderOK, ChainOK
  <1>a. f \in 0 .. Len(times) - 1 /\ f + 1 \in 1 .. Len(times)
    BY <1>0
  <1>b. TimeOf(f) \in Int /\ (family = "near" => TimeOf(f) = f)
    <2>1. family = "near" => TimeOf(f) = (f + 1) - 1
      BY <1>0, <1>a DEF ChainOK, TimeOf
    <2> QED BY <1>0, <1>a, <2>1, TimesAreOrdered
  <1>1. CASE Conclude("not-settled") /\ ~UsedAt(f) /\ Evm(family) /\ TimeOf(f) >= EndsAt
    <2>1. \A t \in Int : t >= TimeOf(f) => ~MayLand(t)
      <3> TAKE t \in Int
      <3>1. CASE family = "eip3009"
        BY <1>0, <1>b, <1>1, <3>1 DEF MayLand, EndsAt
      <3>2. CASE family = "permit2"
        BY <1>0, <1>b, <1>1, <3>2 DEF MayLand, EndsAt
      <3> QED BY <1>1, <3>1, <3>2 DEF Evm
    <2>2. use.by \in {"none", "cancel"} /\ Expired
      BY <1>0, <1>1, <2>1, LateUseMovesNothing
    <2> QED BY <1>0, <1>1, <2>2, ConcludeKeepsEvidence
  <1>2. CASE Conclude("not-settled") /\ ~UsedAt(f) /\ family = "near" /\ f > Limit[family]
    <2>1. \A t \in Int : t >= TimeOf(f) => ~MayLand(t)
      BY <1>0, <1>b, <1>2 DEF MayLand
    <2>2. use.by \in {"none", "cancel"} /\ Expired
      BY <1>0, <1>2, <2>1, LateUseMovesNothing
    <2> QED BY <1>0, <1>2, <2>2, ConcludeKeepsEvidence
  <1>3. CASE Conclude("used_without_record") /\ family = "near"
    BY <1>0, <1>3, ConcludeKeepsEvidence DEF Evm
  <1>4. CASE Conclude("unknown")
    BY <1>0, <1>4, UnknownKeepsEvidence
  <1>5. CASE GoOn("from") /\ Evm(family) /\ UsedAt(f)
    BY <1>0, <1>5, NextReadKeepsEvidence
  <1>6. CASE GoOn("latest")
    BY <1>0, <1>6, NextReadKeepsEvidence
  <1> HIDE DEF f
  <1>7. CASE ReadStateEvm
    BY <1>1, <1>4, <1>5, <1>6, <1>7 DEF ReadStateEvm, f
  <1>8. CASE ReadStateNear
    BY <1>2, <1>3, <1>4, <1>8 DEF ReadStateNear, f
  <1> QED BY <1>7, <1>8

\* A transfer that a search finds is the authorization's own: the other
\* transfer used nothing, a cancelled one moved nothing, and one through
\* another contract is no direct call.
LEMMA FoundIsTheUse ==
    ASSUME SettleInv, Evm(family), NEW from, NEW to, NEW r \in Found(from, to)
    PROVE  use.by \in {"facilitator", "payer"} /\ r.block = use.at
  <1>1. r \in Receipts /\ r.used /\ r.moved /\ (family = "permit2" => r.direct)
    BY DEF Found, Evm, CandidatesEip3009, CandidatesPermit2, CarriesEip3009, CarriesPermit2
  <1>2. CASE r = Receipt(decoy, "decoy")
    BY <1>1, <1>2 DEF Receipt
  <1>3. CASE use.by # "none" /\ r = Receipt(use.at, use.by)
    <2>1. r.block = use.at /\ (r.direct => use.by # "indirect") /\ use.by # "cancel"
      BY <1>1, <1>3 DEF Receipt
    <2> QED BY <1>1, <1>3, <2>1 DEF SettleInv, UseOK
  <1> QED BY <1>1, <1>2, <1>3 DEF Receipts

\* The transfer is found by the query of a range that holds its block.
LEMMA UseIsFound ==
    ASSUME SettleInv, Evm(family), use.by \in {"facilitator", "payer"}, NEW from, NEW to,
           use.at \in from .. to
    PROVE  Receipt(use.at, use.by) \in Found(from, to)
  <1> DEFINE r == Receipt(use.at, use.by)
  <1>1. r \in Receipts
    BY DEF Receipts
  <1>2. r.block = use.at /\ r.used /\ r.direct /\ r.moved
    BY DEF Receipt
  <1> HIDE DEF r
  <1>3. r \in Found(from, to)
    BY <1>1, <1>2 DEF Found, CandidatesEip3009, CandidatesPermit2, CarriesEip3009, CarriesPermit2
  <1> QED BY <1>3 DEF r

\* The window that a run located holds the transfer.
LEMMA WindowHoldsTheUse ==
    ASSUME EvidenceInv, reader.pc = "logs", use.by \in {"facilitator", "payer"}
    PROVE  use.at \in reader.from .. reader.end
  <1>0. /\ SettleInv /\ Evm(family) /\ UsedAt(reader.finalized) /\ reader.finalized \in Nat
        /\ reader.finalized <= final /\ final \in Nat /\ Len(times) \in Nat /\ final < Len(times)
        /\ reader.from \in Nat /\ reader.end \in Int
        /\ use.at \in Nat /\ MayLand(TimeOf(use.at)) /\ TimeOf(use.at) >= attempt.createdAt - Margin
        /\ attempt.createdAt - Margin \in Int /\ ValidAfter \in Int /\ Limit[family] \in Int
    <2>1. SettleInv /\ ReadInv
      BY DEF EvidenceInv
    <2>2. /\ Evm(family) /\ UsedAt(reader.finalized) /\ reader.finalized \in Nat
          /\ reader.finalized <= final
      BY <2>1 DEF ReadInv, ReaderOK
    <2>3. reader.from \in Nat /\ reader.end \in Int
      BY <2>1 DEF ReadInv, WindowOK
    <2>4. final \in Nat /\ Len(times) \in Nat /\ final < Len(times) /\ family \in Family
      BY <2>1 DEF SettleInv, ChainOK
    <2>5. use.at \in Nat /\ MayLand(TimeOf(use.at)) /\ TimeOf(use.at) >= attempt.createdAt - Margin
      BY <2>1, <2>2 DEF SettleInv, UseOK
    <2>6. attempt.createdAt - Margin \in Int /\ ValidAfter \in Int /\ Limit[family] \in Int
      BY <2>1, <2>4, EvidenceAssumption DEF SettleInv, AttemptOK
    <2> QED BY <2>1, <2>2, <2>3, <2>4, <2>5, <2>6
  <1>1. use.at \in 0 .. reader.finalized
    BY <1>0 DEF UsedAt
  <1>2. TimeOf(use.at) \in Int
    <2>1. use.at \in 0 .. final
      BY <1>0, <1>1
    <2> QED BY <1>0, <2>1, TimesAreOrdered DEF SettleInv
  <1>3. ValidAfter <= TimeOf(use.at) /\ TimeOf(use.at) < EndsAt
    <2>1. CASE family = "eip3009"
      BY <1>0, <1>2, <2>1 DEF MayLand, EndsAt
    <2>2. CASE family = "permit2"
      BY <1>0, <1>2, <2>2 DEF MayLand, EndsAt
    <2> QED BY <1>0, <2>1, <2>2 DEF Evm
  <1>4. TimeOf(use.at) >= FromSeconds
    BY <1>0, <1>2, <1>3, MaxOfTwo DEF FromSeconds
  <1>5. reader.from <= use.at /\ use.at <= reader.end
    BY <1>1, <1>3, <1>4 DEF EvidenceInv, ReadInv, WindowOK
  <1> QED BY <1>0, <1>5

\* The log search finds the transfer or rules it out.
LEMMA LogsKeepEvidence ==
    ASSUME EvidenceInv, SearchLogs
    PROVE  EvidenceInv'
  <1> DEFINE to == Min({reader.end, reader.from + MaxWindowBlocks - 1})
             found == UNION {Found(r[1], r[2]) : r \in LogRanges(reader.from, to)}
  <1>0. /\ UNCHANGED <<chainVars, settleVars>> /\ reader.pc = "logs"
        /\ SettleInv /\ Evm(family) /\ reader.finalized \in Nat /\ reader.finalized <= final
        /\ final \in Nat /\ reader.from \in Nat /\ reader.end \in Int /\ use.at \in Nat
        /\ use.at <= reader.finalized /\ use.by # "none" /\ MaxWindowBlocks \in Nat
        /\ use.by \in {"facilitator", "payer", "cancel", "indirect"}
    <2>1. SettleInv /\ ReadInv /\ reader.pc = "logs" /\ UNCHANGED <<chainVars, settleVars>>
      BY DEF SearchLogs, EvidenceInv
    <2>2. Evm(family) /\ UsedAt(reader.finalized) /\ reader.finalized \in Nat /\ reader.finalized <= final
      BY <2>1 DEF ReadInv, ReaderOK
    <2>3. reader.from \in Nat /\ reader.end \in Int
      BY <2>1 DEF ReadInv, WindowOK
    <2>4. use.by # "none" /\ use.at <= reader.finalized
      BY <2>2 DEF UsedAt
    <2>5. use.at \in Nat /\ use.by \in {"facilitator", "payer", "cancel", "indirect"}
      BY <2>1, <2>4 DEF SettleInv, UseOK
    <2>6. final \in Nat /\ MaxWindowBlocks \in Nat
      BY <2>1, EvidenceAssumption DEF SettleInv, ChainOK
    <2> QED BY <2>1, <2>2, <2>3, <2>4, <2>5, <2>6
  <1>1. to \in Int /\ to <= reader.end
    BY <1>0, MinOfTwo
  <1>a. IF found # {}
        THEN Conclude(IF \E r \in found : r.block <= reader.finalized THEN "settled" ELSE "unknown")
        ELSE Conclude(IF to < reader.end THEN "unknown" ELSE "used_without_record")
    BY DEF SearchLogs
  <1>2. CASE Conclude("settled") /\ \E r \in found : r.block <= reader.finalized
    <2>1. use.by \in {"facilitator", "payer"}
      BY <1>0, <1>2, FoundIsTheUse
    <2>2. use.at <= final
      BY <1>0
    <2> QED BY <1>0, <1>2, <2>1, <2>2, ConcludeKeepsEvidence
  <1>3. CASE Conclude("unknown")
    BY <1>0, <1>3, UnknownKeepsEvidence
  <1>4. CASE Conclude("used_without_record") /\ found = {} /\ ~(to < reader.end)
    <2>1. to = reader.end
      BY <1>0, <1>1, <1>4
    <2>2. use.by \notin {"facilitator", "payer"}
      <3> SUFFICES ASSUME use.by \in {"facilitator", "payer"} PROVE FALSE
        OBVIOUS
      <3>1. use.at \in reader.from .. to
        BY <1>0, <2>1, WindowHoldsTheUse
      <3> HIDE DEF to
      <3>2. PICK r \in LogRanges(reader.from, to) : use.at \in r[1] .. r[2]
        BY <1>0, <1>1, <3>1, RangesCover
      <3>3. Receipt(use.at, use.by) \in Found(r[1], r[2])
        BY <1>0, <3>2, UseIsFound
      <3>4. Found(r[1], r[2]) \subseteq found
        BY <3>2
      <3> QED BY <1>4, <3>3, <3>4
    <2>3. use.by \in {"cancel", "indirect"} /\ use.at <= final
      BY <1>0, <2>2
    <2> QED BY <1>0, <1>4, <2>3, ConcludeKeepsEvidence
  <1> HIDE DEF found, to
  <1> QED BY <1>a, <1>2, <1>3, <1>4

\* The history search of the families without logs.
LEMMA HistoryKeepsEvidence ==
    ASSUME EvidenceInv, NEW known \in BOOLEAN, SearchHistory(known)
    PROVE  EvidenceInv'
  <1>0. UNCHANGED <<chainVars, settleVars>>
    BY DEF SearchHistory
  <1>1. CASE Conclude("settled") /\ use.by = "facilitator" /\ use.at <= final
    BY <1>0, <1>1, ConcludeKeepsEvidence
  <1>2. CASE Conclude("unknown")
    BY <1>0, <1>2, UnknownKeepsEvidence
  <1> QED BY <1>1, <1>2 DEF SearchHistory

\* The reader asks for the finalized block.
LEMMA FinalizedKeepsEvidence ==
    ASSUME EvidenceInv, ReadFinalized
    PROVE  EvidenceInv'
  <1>1. PICK pc \in {"reference", "state"} : reader' = [reader EXCEPT !.finalized = final, !.pc = pc]
    BY DEF ReadFinalized
  <1>2. /\ UNCHANGED <<chainVars, settleVars>> /\ reader.pc = "finalized" /\ final \in Nat
        /\ final <= final /\ call # "idle"
    BY DEF ReadFinalized, EvidenceInv, SettleInv, ReadInv, ChainOK, ReaderOK
  <1> QED BY <1>1, <1>2, GoOnKeepsEvidence

-----------------------------------------------------------------------------
(* The specification.                                                      *)

\* Nothing was submitted or read at first.
LEMMA EvidenceStarts ==
    ASSUME Init
    PROVE  EvidenceInv
  <1> SUFFICES ASSUME SettleInit, reader = NoReader PROVE EvidenceInv
    BY DEF Init
  <1>0. /\ times \in Seq(Int) /\ Len(times) > 0
        /\ \A i, j \in DOMAIN times : i <= j => times[i] <= times[j]
    <2>1. times \in Prefixes
      BY DEF SettleInit
    <2> QED BY <2>1, EvidenceAssumption
  <1>1. DOMAIN times = 1 .. Len(times) /\ Len(times) \in Nat
    BY <1>0
  <1>2. ChainOK
    BY <1>0, <1>1 DEF ChainOK, SettleInit
  <1>3. UseOK
    BY DEF UseOK, SettleInit
  <1>4. AttemptOK
    <2>1. attempt = [status |-> "none", reference |-> "", createdAt |-> 0, relayers |-> FALSE]
      BY DEF SettleInit
    <2>2. attempt.status = "none" /\ attempt.createdAt = 0
      BY <2>1
    <2>3. tx = "none" /\ txAt = NoBlock /\ call = "idle" /\ use.by = "none"
      BY DEF SettleInit
    <2>4. attempt = [status |-> attempt.status, reference |-> attempt.reference,
                     createdAt |-> attempt.createdAt, relayers |-> attempt.relayers]
      BY <2>1
    <2>5. use.by = "facilitator" <=> tx = "mined"
      BY <2>3
    <2>6. attempt.createdAt \in Int /\ attempt.status = "none"
      BY <2>2
    <2> QED BY <2>3, <2>4, <2>5, <2>6 DEF AttemptOK
  <1>5. /\ reader.pc = "idle" /\ reader.outcome = "none" /\ reader.finalized = 0 /\ reader.high = 0
        /\ reader.low = 0 /\ reader.even = TRUE /\ reader.from = 0 /\ reader.end = 0
    BY DEF NoReader
  <1>a. final = 0
    BY DEF SettleInit
  <1>6. ReaderOK
    <2>1. reader = [pc |-> reader.pc, finalized |-> reader.finalized, low |-> reader.low,
                    high |-> reader.high, even |-> reader.even, from |-> reader.from,
                    end |-> reader.end, outcome |-> reader.outcome]
      BY <1>5 DEF NoReader
    <2> QED BY <1>5, <1>a, <2>1 DEF ReaderOK
  <1>7. BoundsOK /\ WindowOK /\ OutcomeOK
    BY <1>5 DEF BoundsOK, WindowOK, OutcomeOK
  <1> QED BY <1>2, <1>3, <1>4, <1>6, <1>7 DEF EvidenceInv, SettleInv, ReadInv

\* Every step keeps the invariant.
LEMMA EvidenceSteps ==
    ASSUME EvidenceInv, [Next]_vars
    PROVE  EvidenceInv'
  <1>1. CASE SettleNext /\ UNCHANGED reader
    BY <1>1, SettleKeepsEvidence
  <1>2. CASE StartRead
    BY <1>2, StartKeepsEvidence
  <1>3. CASE ReadFails \/ ReadLatest \/ SearchPruned
    BY <1>3, UnknownKeepsEvidence DEF ReadFails, ReadLatest, SearchPruned
  <1>4. CASE ReadFinalized
    BY <1>4, FinalizedKeepsEvidence
  <1>5. CASE ReadReferenceEvm \/ ReadReferenceNear \/ ReadReferenceSvm
    BY <1>5, ReferenceKeepsEvidence
  <1>6. CASE ReadStateEvm \/ ReadStateNear
    BY <1>6, StateKeepsEvidence
  <1>7. CASE ReadFirstBlock
    BY <1>7, FirstBlockKeepsEvidence
  <1>8. CASE ReadMiddleBlock
    BY <1>8, MiddleBlockKeepsEvidence
  <1>9. CASE SearchLogs
    BY <1>9, LogsKeepEvidence
  <1>10. CASE \E known \in BOOLEAN : SearchHistory(known)
    BY <1>10, HistoryKeepsEvidence
  <1>11. CASE UNCHANGED vars
    <2>1. UNCHANGED <<chainVars, settleVars>> /\ UNCHANGED reader
      BY <1>11 DEF vars
    <2>2. SettleInv'
      BY <2>1, StandsStill
    <2>3. ReadInv'
      BY <2>1 DEF EvidenceInv, ReadInv, ReaderOK, BoundsOK, WindowOK, OutcomeOK, Expired, MayLand,
                  TimeOf, Evm, UsedAt, Seconds, FromSeconds, EndsAt, chainVars, settleVars
    <2> QED BY <2>2, <2>3 DEF EvidenceInv
  <1> QED BY <1>1, <1>2, <1>3, <1>4, <1>5, <1>6, <1>7, <1>8, <1>9, <1>10, <1>11 DEF Next

\* The invariant holds of every behaviour.
LEMMA EvidenceIsInvariant == Spec => []EvidenceInv
  BY EvidenceStarts, EvidenceSteps, PTL DEF Spec

\* Whatever the facilitator answers and whenever its transaction is mined,
\* fails or is reorganized away, settle() reports a settlement that was on
\* chain, and a refusal only of a transfer that cannot land any more, unless the
\* block of the failure the refusal names is itself dropped (settle.ts:112-225).
THEOREM VerdictTheorem == Spec => []VerdictIsSound
  <1>1. EvidenceInv => VerdictIsSound
    BY DEF EvidenceInv, SettleInv, AttemptOK, Failed, VerdictIsSound
  <1> QED BY <1>1, EvidenceIsInvariant, PTL

\* On any chain that keeps its final blocks, with its blocks in the order of
\* their times, a definite answer of a reconcile run stays true: whichever
\* blocks are added or replaced afterwards, and whoever submits the
\* authorization (evm.ts:170-194, near.ts:90-137, svm.ts:70-90).
THEOREM EvidenceTheorem == Spec => []EvidenceIsSound
  <1>1. EvidenceInv => EvidenceIsSound
    BY DEF EvidenceInv, ReadInv, OutcomeOK, EvidenceIsSound
  <1> QED BY <1>1, EvidenceIsInvariant, PTL

\* With any block times, chunk and window, the two searches of firstBlockAt and
\* the ranges of the log queries leave out no block the transfer can be in, as
\* long as the gateway's clock is ahead by the margin at most
\* (evm.ts:198-217 and 367-392).
THEOREM SearchTheorem == Spec => []SearchFindsTheTransfer
  <1>1. EvidenceInv => SearchFindsTheTransfer
    BY DEF EvidenceInv, ReadInv, OutcomeOK, SearchFindsTheTransfer
  <1> QED BY <1>1, EvidenceIsInvariant, PTL
=============================================================================
