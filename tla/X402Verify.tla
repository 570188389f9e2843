----------------------------- MODULE X402Verify -----------------------------
(***************************************************************************)
(* Challenges and proofs of the x402 and MPP providers: the facilitator's  *)
(* /supported cache and the Solana fee payer a challenge names             *)
(* (provider/fee-payer.ts), the requirement built anew for every request   *)
(* and the offer a proof selects from it (provider/requirement.ts), and    *)
(* the checks of a proof (provider/verify.ts, provider/transfer.ts,        *)
(* payload.ts, near.ts, svm.ts, src/payments/mpp/provider.ts and           *)
(* credential.ts) before and after the facilitator's.                      *)
(*                                                                         *)
(* A proof is what a buyer made of an accepted offer: signed as offered,   *)
(* or altered in one respect.  The facilitator and its fee payers are      *)
(* external.                                                               *)
(***************************************************************************)
EXTENDS Naturals, Sequences, FiniteSets

CONSTANTS
    Request,           \* requests in progress
    FeePayer, NoFee,   \* the facilitator's Solana accounts
    OfferLists,        \* the resource's offers, as sequences of families
    SupportedTtl,      \* SUPPORTED_TTL_MS
    SupportedTimeout,  \* SUPPORTED_TIMEOUT_MS
    ChallengeTtl,      \* challengeTtlSeconds of MPP
    MaxTime            \* bound on the clock

\* A call to /supported ends before its answer is due for a refresh.
ASSUME SupportedAssumption == SupportedTimeout < SupportedTtl

VARIABLES
    offers,     \* the resource's offers
    now,        \* the clock
    listed,     \* the fee payer the facilitator names
    signers,    \* the fee payers it signs with
    snapshot,   \* the last call to /supported: when it was made, its answer
    feePayer,   \* the provider's previous fee payer
    req,        \* requests
    spent,      \* the authorization was used on chain
    retired,    \* the fee payers it signs with no longer
    given,      \* history: fee payers named in challenges
    challenged, \* history: when an MPP challenge was given
    verified    \* history: proofs that were verified

chainVars == <<listed, signers, retired, spent>>
cacheVars == <<snapshot, feePayer>>
history == <<given, challenged, verified>>
vars == <<offers, now, chainVars, cacheVars, req, history>>

Family == {"eip3009", "permit2", "svm", "near", "mpp"}

\* How a proof departs from the offer it accepts: undecodable; of another
\* method; with a second authorization; with malformed fields; another
\* Permit2 spender or asset; another recipient or amount; another network,
\* another echoed term, another resource; for MPP a challenge the gateway
\* did not issue.
Alteration == {"none", "garbled", "shape", "both", "fields", "spender", "to", "value",
               "network", "echo", "url", "foreign"}

\* The accepted offer, its fee payer, when MPP's challenge was issued.
Proof == [family : Family, fee : FeePayer \cup {NoFee}, alter : Alteration, issued : 0 .. MaxTime]
NoProof == [family |-> "none"]

\* Each way to pay is offered once; an MPP resource has its one offer.
ASSUME OfferAssumption ==
    /\ NoFee \notin FeePayer
    /\ \A list \in OfferLists :
          /\ list \in Seq(Family) /\ Len(list) > 0
          /\ \A i, j \in DOMAIN list : list[i] = list[j] => i = j
          /\ \A i \in DOMAIN list : list[i] = "mpp" => list = <<"mpp">>

NoSnapshot == [state |-> "none"]

NoReq == [pc |-> "idle", fee |-> NoFee, proof |-> NoProof,
          answer |-> "none", keyed |-> FALSE]

Init ==
    /\ offers \in OfferLists
    /\ now = 0
    /\ listed \in FeePayer
    /\ signers = {listed}
    /\ retired = {}
    /\ snapshot = NoSnapshot
    /\ feePayer = NoFee
    /\ req = [r \in Request |-> NoReq]
    /\ spent = FALSE
    /\ given = {}
    /\ challenged = {}
    /\ verified = {}

(***************************************************************************)
(* The /supported cache and the fee payer.                                 *)
(***************************************************************************)

Offered(family) == \E i \in DOMAIN offers : offers[i] = family

\* Mutant: every answer of /supported names the fee payer anew.
StillSignsNever(answer) == feePayer = answer.listed

\* The previous fee payer is kept while the facilitator lists it.
StillSigns(answer) ==
    feePayer # NoFee /\ (feePayer = answer.listed \/ feePayer \in answer.signers)

SvmFeePayer(answer) == IF StillSigns(answer) THEN feePayer ELSE answer.listed

Waiting == {r \in Request : req[r].pc = "supported"}

\* The answer says what held when the facilitator received the call.  Every
\* request that awaits it goes on in the same turn of the event loop.
EndCall ==
    /\ snapshot.state = "open"
    /\ snapshot' = [snapshot EXCEPT !.state = "done"]
    /\ feePayer' = SvmFeePayer(snapshot)
    /\ req' = [r \in Request |->
                 IF r \in Waiting THEN [req[r] EXCEPT !.pc = "required", !.fee = feePayer']
                 ELSE req[r]]
    /\ UNCHANGED <<offers, now, chainVars, history>>

\* A failed call is discarded, and the next request tries again.
FailCall ==
    /\ snapshot.state = "open"
    /\ snapshot' = NoSnapshot
    /\ req' = [r \in Request |->
                 IF r \in Waiting THEN [NoReq EXCEPT !.pc = "done", !.answer = "unavailable"]
                 ELSE req[r]]
    /\ UNCHANGED <<offers, now, chainVars, feePayer, history>>

\* A request builds its requirement; a Solana offer needs /supported for it.
\* A proof accepts an offer of a challenge that was given.  A connection is
\* reused once its answer was sent.
Start(r, proof) ==
    /\ req[r].pc \in {"idle", "done"}
    /\ LET Goes(pc, fee) ==
               req' = [req EXCEPT ![r] = [NoReq EXCEPT !.pc = pc, !.proof = proof, !.fee = fee]]
           fresh == snapshot # NoSnapshot /\ now - snapshot.at < SupportedTtl
       IN  \/ /\ ~Offered("svm")
              /\ Goes("required", NoFee)
              /\ UNCHANGED cacheVars
           \/ /\ Offered("svm") /\ fresh /\ snapshot.state = "done"
              /\ feePayer' = SvmFeePayer(snapshot)
              /\ Goes("required", feePayer')
              /\ UNCHANGED snapshot
           \/ /\ Offered("svm") /\ fresh /\ snapshot.state = "open"
              /\ Goes("supported", NoFee)
              /\ UNCHANGED cacheVars
           \/ /\ Offered("svm") /\ ~fresh
              /\ snapshot' = [at |-> now, state |-> "open", listed |-> listed, signers |-> signers]
              /\ Goes("supported", NoFee)
              /\ UNCHANGED feePayer
    /\ UNCHANGED <<offers, now, chainVars, history>>

\* Of an answered request the model keeps the proof that had been verified
\* before.
Answer(r, answer, keyed) ==
    req' = [req EXCEPT ![r] = [pc |-> "done", fee |-> NoFee, answer |-> answer, keyed |-> keyed,
               proof |-> IF req[r].proof \in verified THEN req[r].proof ELSE NoProof]]

\* A request without a proof is answered with the challenge.
Challenge(r) ==
    /\ req[r].pc = "required"
    /\ req[r].proof = NoProof
    /\ given' = given \cup {req[r].fee}
    /\ challenged' = IF Offered("mpp") THEN challenged \cup {now} ELSE {0}
    /\ Answer(r, "challenge", FALSE)
    /\ UNCHANGED <<offers, now, chainVars, cacheVars, verified>>

(***************************************************************************)
(* Checks of a proof against the requirement built for this request.       *)
(***************************************************************************)

Decodes(p) == p.alter # "garbled"

Fee(family, fee) == IF family = "svm" THEN fee ELSE NoFee

\* The echoed terms are the offer's; the fee payer is one of them.
AcceptedMatchesOffer(family, fee, p) ==
    /\ p.family = family
    /\ p.fee = Fee(family, fee)
    /\ p.alter \notin {"network", "echo"}

\* The only offer, or the one offer of several that the echo matches; 0 when
\* there is none.
OfferIndex(fee, p) ==
    LET matches == {i \in DOMAIN offers : Decodes(p) /\ AcceptedMatchesOffer(offers[i], fee, p)}
    IN  IF Len(offers) = 1 THEN 1
        ELSE IF Cardinality(matches) = 1 THEN CHOOSE i \in matches : TRUE
        ELSE 0

\* The payload has one authorization, of the offer's method, with well-formed
\* fields.
IsExactEvmPayload(p) == p.family = "eip3009" /\ p.alter \notin {"shape", "both", "fields"}
IsExactPermit2Payload(p) == p.family = "permit2" /\ p.alter \notin {"shape", "both", "fields"}

\* What the gateway reads of a payload, by family: it knows the payment's
\* identity from here on.
ReadEip3009(p) == IsExactEvmPayload(p)
ReadPermit2(p) == IsExactPermit2Payload(p) /\ p.alter # "spender"
InspectSvm(p) == p.family = "svm" /\ p.alter # "fields"
InspectNear(p) == p.family = "near" /\ p.alter \notin {"fields", "to", "value"}

Readable(family, p) ==
    /\ Decodes(p)
    /\ CASE family = "eip3009" -> ReadEip3009(p)
         [] family = "permit2" -> ReadPermit2(p)
         [] family = "svm"     -> InspectSvm(p)
         [] family = "near"    -> InspectNear(p)

\* Mutant: the authorization's own recipient and amount are not compared.
TermsMatchEchoOnly(family, fee, p) ==
    AcceptedMatchesOffer(family, fee, p) /\ p.alter # "url"

\* The local checks after the identity: echo, resource and, for EVM, terms.
TermsMatch(family, fee, p) ==
    /\ AcceptedMatchesOffer(family, fee, p)
    /\ p.alter # "url"
    /\ family \in {"eip3009", "permit2"} => p.alter \notin {"to", "value"}

\* Mutant: a proof with other terms is refused before its identity counts.
CheckX402Unkeyed(r, p) ==
    LET i == OfferIndex(req[r].fee, p)
    IN  IF i = 0 \/ ~Readable(offers[i], p) \/ ~TermsMatch(offers[i], req[r].fee, p)
        THEN Answer(r, "refused", FALSE)
        ELSE req' = [req EXCEPT ![r].pc = "facilitator"]

CheckX402(r, p) ==
    LET i == OfferIndex(req[r].fee, p)
    IN  IF i = 0 \/ ~Readable(offers[i], p) THEN Answer(r, "refused", FALSE)
        ELSE IF ~TermsMatch(offers[i], req[r].fee, p) THEN Answer(r, "refused", TRUE)
        ELSE req' = [req EXCEPT ![r].pc = "facilitator"]

\* MPP's own checks: the challenge is the gateway's, bound to this request
\* and not expired, and the credential pays it.
BindingMatches(p) == p.alter \notin {"network", "echo", "url"}
DecodeCredential(p) == p.family = "mpp" /\ p.alter # "garbled"
ClaimedReplayKey(p) == p.alter # "fields"
ValidCredential(p) == p.alter \notin {"shape", "both", "fields", "to", "value"}

CheckMpp(r, p) ==
    IF ~DecodeCredential(p) THEN Answer(r, "refused", FALSE)
    ELSE IF \/ p.alter = "foreign"
            \/ ~BindingMatches(p)
            \/ p.issued + ChallengeTtl <= now
            \/ ~ValidCredential(p)
         THEN Answer(r, "refused", ClaimedReplayKey(p))
         ELSE req' = [req EXCEPT ![r].pc = "facilitator"]

Check(r) ==
    /\ req[r].pc = "required"
    /\ req[r].proof # NoProof
    /\ LET p == req[r].proof
       IN  IF offers = <<"mpp">> THEN CheckMpp(r, p) ELSE CheckX402(r, p)
    /\ UNCHANGED <<offers, now, chainVars, cacheVars, history>>

\* The facilitator checks signatures and chain state; of a Solana transaction
\* it checks the transfer as well, and that it signs as its fee payer.
Accepts(p) ==
    /\ ~spent
    /\ p.family = "svm" => p.alter \notin {"to", "value"} /\ p.fee \in signers

VerifyFacilitator(r, verdict) ==
    /\ req[r].pc = "facilitator"
    /\ CASE verdict = "valid"   -> /\ Accepts(req[r].proof)
                                   /\ Answer(r, "verified", TRUE)
                                   /\ verified' = verified \cup {req[r].proof}
         [] verdict = "invalid" -> Answer(r, "refused", TRUE) /\ UNCHANGED verified
         [] verdict = "none"    -> Answer(r, "unavailable", FALSE) /\ UNCHANGED verified
    /\ UNCHANGED <<offers, now, chainVars, cacheVars, given, challenged>>

(***************************************************************************)
(* The surroundings.                                                       *)
(***************************************************************************)

\* The facilitator names another fee payer, and may stop signing with others;
\* one it stopped with is not taken up again.  Only Solana offers name one.
Rotate(f, dropped) ==
    /\ Offered("svm")
    /\ f # listed /\ f \notin dropped \cup retired /\ dropped \subseteq signers
    /\ listed' = f
    /\ signers' = (signers \cup {f}) \ dropped
    /\ retired' = retired \cup dropped
    /\ UNCHANGED <<offers, now, spent, cacheVars, req, history>>

\* The transfer of a verified proof lands.
Land ==
    /\ verified # {} /\ ~spent
    /\ spent' = TRUE
    /\ UNCHANGED <<offers, now, listed, signers, retired, cacheVars, req, history>>

\* A call to /supported is not open beyond its deadline.
Tick ==
    /\ now < MaxTime
    /\ snapshot.state = "open" => now - snapshot.at < SupportedTimeout
    /\ now' = now + 1
    /\ UNCHANGED <<offers, chainVars, cacheVars, req, history>>

\* How a proof of a family can be altered.
Alterations(family) ==
    Alteration \ ((IF family = "mpp" THEN {} ELSE {"foreign"})
                  \cup (IF family = "permit2" THEN {} ELSE {"spender"})
                  \cup (IF family \in {"svm", "near"} THEN {"shape"} ELSE {})
                  \cup (IF family \in {"eip3009", "permit2"} THEN {} ELSE {"both"}))

Proofs ==
    UNION {[family : {f},
            fee    : IF f = "svm" THEN given ELSE {NoFee},
            alter  : Alterations(f),
            issued : IF f = "mpp" THEN challenged ELSE challenged \cap {0}]
           : f \in {offers[i] : i \in DOMAIN offers}}

Next ==
    \/ \E r \in Request :
          \/ \E p \in Proofs \cup verified \cup {NoProof} : Start(r, p)
          \/ Challenge(r)
          \/ Check(r)
          \/ \E v \in {"valid", "invalid", "none"} : VerifyFacilitator(r, v)
    \/ EndCall
    \/ FailCall
    \/ \E f \in FeePayer : \E dropped \in SUBSET signers : Rotate(f, dropped)
    \/ Land
    \/ Tick

Spec == Init /\ [][Next]_vars

(***************************************************************************)
(* Properties.                                                             *)
(***************************************************************************)

\* A verified proof was signed as an offer of this resource states it, in
\* every family and on both rails: what the facilitator will settle is what
\* the gateway checked (verify.ts:84-158, transfer.ts:28-80, near.ts:45-76,
\* mpp/provider.ts:244-306).
VerifiedPaysTheOffer ==
    \A p \in verified : p.alter = "none" /\ Offered(p.family)

\* A proof that was verified before, so that its attempt may be unfinished,
\* is refused later only with its replay key, by which the pipeline finds
\* the attempt: after its transfer landed, its MPP challenge expired or its
\* terms changed (verify.ts:124-127, mpp/provider.ts:159-177).  With several
\* offers a Solana proof whose fee payer the facilitator dropped selects
\* none, and is refused without a key.
RetryIsRecognized ==
    \A r \in Request :
        /\ req[r].answer = "refused"
        /\ req[r].proof \in verified
        => req[r].keyed \/ (Len(offers) > 1 /\ req[r].proof.family = "svm")

\* A buyer who signed a Solana offer as challenged is not refused for its
\* terms as long as the facilitator signs with that fee payer, whatever it
\* names meanwhile and however calls to /supported overlap
\* (fee-payer.ts:24-37 and 62-72).
FeePayerIsStable ==
    \A r \in Request :
        /\ req[r].pc = "required"
        /\ req[r].proof # NoProof /\ req[r].proof.family = "svm" /\ req[r].proof.fee \in signers
        => req[r].fee = req[r].proof.fee
=============================================================================
