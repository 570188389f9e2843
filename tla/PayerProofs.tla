----------------------------- MODULE PayerProofs -----------------------------
(***************************************************************************)
(* What is checked before a payment is taken, for any keys, offers, fee    *)
(* payers, requests, cache limits and clocks: mandates, quotes, proofs and *)
(* backend requests.  Each has an inductive invariant of its own.          *)
(***************************************************************************)
EXTENDS X402Verify, QuoteCache, Ap2Mandate, BackendCall, SequenceTheorems, FiniteSetTheorems, TLAPS

-----------------------------------------------------------------------------
(* Mandates.                                                               *)

\* How far verifyAndReserve got, and what each of its steps has established.
AfterSignature == {"claims", "checkout", "bind", "accepted"}
AfterClaims == {"checkout", "bind", "accepted"}
AfterCheckout == {"bind", "accepted"}

LiveWhenChecked(t) == t = Absent \/ t + ClockSkew > call.checked

CallOK ==
    \/ call = [pc |-> "idle"]
    \/ /\ call = [pc |-> call.pc, pres |-> call.pres, checked |-> call.checked]
       /\ call.pc # "idle"
       /\ call.checked \in Nat /\ call.checked <= clock
       /\ call.pres.token.exp \in Time
       /\ call.pres.mandate.exp \in Time
       /\ call.pres.doc.exp \in Time

SignatureOK ==
    call.pc \in AfterSignature =>
        \E k \in MandateTrust : k.jwk = call.pres.signer /\ call.pres.iss \in {Absent, k.issuer}

ClaimsOK ==
    call.pc \in AfterClaims =>
        /\ call.pres.form = "closed"
        /\ LiveWhenChecked(call.pres.token.exp) /\ LiveWhenChecked(call.pres.mandate.exp)
        /\ policy.expiry => call.pres.token.exp # Absent \/ call.pres.mandate.exp # Absent

CheckoutOK ==
    call.pc \in AfterCheckout =>
        /\ call.pres.hash
        /\ \E k \in CheckoutTrust : k.jwk = call.pres.doc.signer /\ call.pres.doc.iss = k.issuer
        /\ call.pres.doc.exp # Absent /\ LiveWhenChecked(call.pres.doc.exp)

MandateInv ==
    /\ clock \in Nat
    /\ CallOK
    /\ SignatureOK
    /\ ClaimsOK
    /\ CheckoutOK
    /\ MandateCoversThePurchase

\* A resigned document is the same one under another signature.
LEMMA ResignedFields ==
    ASSUME NEW d, NEW e \in Resigned(d)
    PROVE  \E i, n, j : e = SignedAs(d, i, n, j)
  BY DEF Resigned

\* A time claim of a presentation is a time of the clock, missing or malformed.
LEMMA TimesOfPresentations ==
    ASSUME NEW p \in Presentations
    PROVE  p.token.exp \in Time /\ p.mandate.exp \in Time /\ p.doc.exp \in Time
  <1> USE MandateConstants
  <1>1. PICK k \in MandateTrust, m \in CheckoutTrust : p \in Altered(Genuine(k, m))
    BY DEF Presentations
  <1> DEFINE g == Genuine(k, m)
             doc == CheckoutJwt(m)
  <1>2. MandateHorizon \in Time /\ Absent \in Time
    BY DEF Time
  <1>3. /\ doc.exp = MandateHorizon
        /\ doc = [iss |-> doc.iss, kid |-> doc.kid, signer |-> doc.signer, aud |-> doc.aud,
                  exp |-> doc.exp, nbf |-> doc.nbf, iat |-> doc.iat, jti |-> doc.jti,
                  claims |-> doc.claims, coords |-> doc.coords]
    BY DEF CheckoutJwt
  <1>4. /\ g = [form |-> g.form, iss |-> g.iss, kid |-> g.kid, signer |-> g.signer, aud |-> g.aud,
                token |-> g.token, mandate |-> g.mandate, hash |-> g.hash, doc |-> g.doc]
        /\ g.token = [exp |-> MandateHorizon, nbf |-> Absent, iat |-> 0]
        /\ g.mandate = NoTimes /\ g.doc = doc
    BY DEF Genuine, NoTimes
  <1> HIDE DEF g, doc
  <1>5. \A t \in Timed(g.token) \union Timed(NoTimes) : t.exp \in Time
    BY <1>2, <1>4 DEF Timed, NoTimes
  <1>6. \A d \in AlteredDoc(doc) : d.exp \in Time
    <2>1. \A d \in Timed(doc) : d.exp \in Time
      BY <1>2, <1>3 DEF Timed
    <2>2. ASSUME NEW d \in Resigned(doc) PROVE d.exp \in Time
      <3>1. PICK i, n, j : d = SignedAs(doc, i, n, j)
        BY ResignedFields
      <3>2. d.exp = doc.exp
        BY <1>3, <3>1 DEF SignedAs
      <3> QED BY <1>2, <1>3, <3>2
    <2> QED BY <1>2, <1>3, <2>1, <2>2 DEF AlteredDoc
  <1>7. CASE p \in Resigned(g)
    <2>1. PICK i, n, j : p = SignedAs(g, i, n, j)
      BY <1>7, ResignedFields
    <2>2. p.token = g.token /\ p.mandate = g.mandate /\ p.doc = g.doc
      BY <1>4, <2>1 DEF SignedAs
    <2> QED BY <1>2, <1>3, <1>4, <2>2 DEF NoTimes
  <1>8. CASE p \in {[g EXCEPT !.token = t] : t \in Timed(g.token)}
    BY <1>2, <1>3, <1>4, <1>5, <1>8 DEF NoTimes
  <1>9. CASE p \in {[g EXCEPT !.token = NoTimes, !.mandate = t] : t \in Timed(NoTimes)}
    <2>1. PICK t \in Timed(NoTimes) : p = [g EXCEPT !.token = NoTimes, !.mandate = t]
      BY <1>9
    <2>2. p.token = NoTimes /\ p.mandate = t /\ p.doc = g.doc
      BY <1>4, <2>1
    <2> QED BY <1>2, <1>3, <1>4, <1>5, <2>2 DEF NoTimes
  <1>10. CASE p \in {[g EXCEPT !.doc = d] : d \in AlteredDoc(g.doc)}
    BY <1>2, <1>4, <1>6, <1>10 DEF NoTimes
  <1>11. CASE \/ p \in {[g EXCEPT !.form = f] : f \in Form}
              \/ p \in {[g EXCEPT !.aud = a] : a \in {Absent, "other"}}
              \/ p = [g EXCEPT !.hash = FALSE]
    BY <1>2, <1>3, <1>4, <1>11 DEF NoTimes
  <1> QED BY <1>1, <1>7, <1>8, <1>9, <1>10, <1>11 DEF Altered, g

\* A claim that is in time when a step looks at it had not expired when the
\* mandate was looked at: the clock only moves on.
LEMMA InTimeIsLive ==
    ASSUME clock \in Nat, CallOK, call.pc # "idle", NEW d, d.exp \in Time, InTime(d)
    PROVE  LiveWhenChecked(d.exp)
  <1>1. CASE d.exp = Absent
    BY <1>1 DEF LiveWhenChecked
  <1>2. CASE d.exp # Absent
    <2>1. d.exp \in Nat /\ d.exp + ClockSkew > clock
      BY <1>2, MandateConstants DEF InTime, Time
    <2>2. call.checked \in Nat /\ call.checked <= clock
      BY DEF CallOK
    <2> QED BY <2>1, <2>2, MandateConstants DEF LiveWhenChecked
  <1> QED BY <1>1, <1>2

\* A key that the lookup finds is in the trust list.
LEMMA ResolvedIsTrusted ==
    ASSUME NEW trust, NEW d
    PROVE  Resolved(trust, d) \subseteq trust
  BY DEF Resolved

\* No mandate is presented at first.
LEMMA MandateStarts == MandateInit => MandateInv
  BY DEF MandateInit, MandateInv, CallOK, SignatureOK, ClaimsOK, CheckoutOK,
         MandateCoversThePurchase, AfterSignature, AfterClaims, AfterCheckout

\* Each check adds its fact; time only passes.
LEMMA MandateSteps == MandateInv /\ [MandateNext]_mandateVars => MandateInv'
  <1> SUFFICES ASSUME MandateInv, [MandateNext]_mandateVars PROVE MandateInv'
    OBVIOUS
  <1> USE MandateConstants DEF MandateInv, AfterSignature, AfterClaims, AfterCheckout
  <1>a. ASSUME NEW pc, Goto(pc), call.pc # "idle", pc # "idle"
        PROVE  /\ call' = [pc |-> pc, pres |-> call.pres, checked |-> call.checked]
               /\ call'.pc = pc /\ call'.pres = call.pres /\ call'.checked = call.checked
    BY <1>a DEF Goto, CallOK
  <1>b. ASSUME NEW pc, Goto(pc), call.pc # "idle", pc # "idle", clock' = clock PROVE CallOK'
    BY <1>a, <1>b DEF CallOK
  <1>1. ASSUME NEW p \in Presentations, Present(p) PROVE MandateInv'
    <2>1. call' = [pc |-> "mandate", pres |-> p, checked |-> clock] /\ clock' = clock
      BY <1>1 DEF Present, Keep
    <2>2. CallOK'
      BY <2>1, TimesOfPresentations DEF CallOK
    <2> QED BY <2>1, <2>2 DEF SignatureOK, ClaimsOK, CheckoutOK, MandateCoversThePurchase
  <1>2. CASE VerifySignature
    <2>1. clock' = clock /\ call.pc = "mandate"
      BY <1>2 DEF VerifySignature, Keep
    <2>2. CASE Goto("claims") /\ \E k \in Resolved(MandateTrust, call.pres) :
                                     JwtVerify(call.pres, k, call.pres.token)
      <3>1. \E k \in MandateTrust : k.jwk = call.pres.signer /\ call.pres.iss \in {Absent, k.issuer}
        BY <2>2, ResolvedIsTrusted DEF JwtVerify
      <3> QED BY <1>a, <1>b, <2>1, <2>2, <3>1
              DEF SignatureOK, ClaimsOK, CheckoutOK, MandateCoversThePurchase
    <2>3. CASE Goto("refused") \/ Goto("unavailable")
      BY <1>a, <1>b, <2>1, <2>3 DEF SignatureOK, ClaimsOK, CheckoutOK, MandateCoversThePurchase
    <2> QED BY <1>2, <2>2, <2>3 DEF VerifySignature
  <1>3. CASE VerifyClaims
    <2>1. clock' = clock /\ policy' = policy /\ call.pc = "claims"
      BY <1>3 DEF VerifyClaims, Keep
    <2> DEFINE p == call.pres
    <2>a. PICK pc \in {"checkout", "refused"} :
             /\ call' = [call EXCEPT !.pc = pc, !.checked = clock]
             /\ pc = "checkout" => p.form = "closed" /\ Fresh({p.token, p.mandate})
      BY <1>3 DEF VerifyClaims
    <2>b. /\ call' = [pc |-> pc, pres |-> p, checked |-> clock]
          /\ call'.pc = pc /\ call'.pres = p /\ call'.checked = clock
      <3>1. call = [pc |-> call.pc, pres |-> p, checked |-> call.checked]
        BY <2>1 DEF CallOK
      <3> QED BY ONLY <2>a, <3>1
    <2>c. CallOK'
      BY <2>1, <2>b DEF CallOK
    <2>2. CASE pc = "checkout"
      <3>1. /\ InTime(p.token) /\ InTime(p.mandate)
            /\ policy.expiry => p.token.exp # Absent \/ p.mandate.exp # Absent
        BY <2>2, <2>a DEF Fresh
      <3>2. \A t \in {p.token.exp, p.mandate.exp} : t = Absent \/ t + ClockSkew > clock
        BY <3>1 DEF InTime
      <3> QED BY <2>1, <2>2, <2>a, <2>b, <2>c, <3>1, <3>2
              DEF SignatureOK, ClaimsOK, CheckoutOK, MandateCoversThePurchase, LiveWhenChecked
    <2>3. CASE pc = "refused"
      BY <2>1, <2>3, <2>b, <2>c DEF SignatureOK, ClaimsOK, CheckoutOK, MandateCoversThePurchase
    <2> QED BY <2>2, <2>3
  <1>4. CASE VerifyCheckoutJwt
    <2>1. clock' = clock /\ policy' = policy /\ call.pc = "checkout"
      BY <1>4 DEF VerifyCheckoutJwt, Keep
    <2> DEFINE d == call.pres.doc
    <2>2. CASE /\ Goto("bind") /\ call.pres.hash
               /\ \E k \in Resolved(CheckoutTrust, d) : JwtVerify(d, k, d)
               /\ d.iss # Absent /\ d.exp # Absent
      <3>1. PICK k \in CheckoutTrust : JwtVerify(d, k, d)
        BY <2>2, ResolvedIsTrusted
      <3>2. k.jwk = d.signer /\ d.iss = k.issuer /\ InTime(d)
        BY <2>2, <3>1 DEF JwtVerify
      <3>3. LiveWhenChecked(d.exp)
        BY <2>1, <3>2, InTimeIsLive DEF CallOK
      <3> QED BY <1>a, <1>b, <2>1, <2>2, <3>2, <3>3
              DEF SignatureOK, ClaimsOK, CheckoutOK, MandateCoversThePurchase, LiveWhenChecked
    <2>3. CASE Goto("refused") \/ Goto("unavailable")
      BY <1>a, <1>b, <2>1, <2>3 DEF SignatureOK, ClaimsOK, CheckoutOK, MandateCoversThePurchase
    <2> QED BY <1>4, <2>2, <2>3 DEF VerifyCheckoutJwt
  <1>5. CASE BindMandateToPurchase
    <2>1. clock' = clock /\ policy' = policy /\ purchase' = purchase /\ call.pc = "bind"
      BY <1>5 DEF BindMandateToPurchase, Keep
    <2> DEFINE d == call.pres.doc
    <2>2. CASE /\ Goto("accepted")
               /\ \A c \in Claim : d.claims[c] = "same"
               /\ \A c \in Coordinate : SameCoordinate(d.coords[c], c)
      <3>1. \A c \in Coordinate : IF c \in purchase THEN d.coords[c] \in {"v", "V"}
                                  ELSE d.coords[c] = Absent
        BY <2>2 DEF SameCoordinate, Fold, Required
      <3>2. /\ call'.pc = "accepted" /\ call'.pres = call.pres /\ call'.checked = call.checked
            /\ CallOK'
        BY <1>a, <1>b, <2>1, <2>2
      <3>3. SignatureOK' /\ ClaimsOK' /\ CheckoutOK'
        BY <2>1, <3>2 DEF SignatureOK, ClaimsOK, CheckoutOK, LiveWhenChecked
      <3>4. MandateCoversThePurchase'
        BY <2>1, <2>2, <3>1, <3>2
           DEF MandateCoversThePurchase, SignatureOK, ClaimsOK, CheckoutOK, LiveWhenChecked
      <3> QED BY <2>1, <3>2, <3>3, <3>4
    <2>3. CASE Goto("refused")
      BY <1>a, <1>b, <2>1, <2>3 DEF SignatureOK, ClaimsOK, CheckoutOK, MandateCoversThePurchase
    <2> QED BY <1>5, <2>2, <2>3 DEF BindMandateToPurchase
  <1>6. CASE Pass \/ UNCHANGED mandateVars
    <2>1. UNCHANGED <<policy, purchase, call>> /\ clock' \in Nat /\ clock <= clock'
      BY <1>6 DEF Pass, mandateVars
    <2> QED BY <2>1 DEF CallOK, SignatureOK, ClaimsOK, CheckoutOK, MandateCoversThePurchase, LiveWhenChecked
  <1> QED BY <1>1, <1>2, <1>3, <1>4, <1>5, <1>6 DEF MandateNext

(***************************************************************************)
(* verifyAndReserve, for any trust lists, clocks and skew: what reaches    *)
(* the reservation was signed by trusted keys of the right list, names     *)
(* this purchase and had not expired when the request came.                *)
(***************************************************************************)
THEOREM MandateTheorem == MandateSpec => []MandateCoversThePurchase
  <1>1. MandateInv => MandateCoversThePurchase
    BY DEF MandateInv
  <1> QED BY <1>1, MandateStarts, MandateSteps, PTL DEF MandateSpec

-----------------------------------------------------------------------------
(* Challenges and proofs.                                                  *)

AnyProof == [family : Family, fee : FeePayer \cup {NoFee}, alter : Alteration, issued : Nat]
AnyReq == [pc : {"idle", "supported", "required", "facilitator", "done"},
           fee : FeePayer \cup {NoFee}, proof : AnyProof \cup {NoProof},
           answer : {"none", "challenge", "refused", "verified", "unavailable"}, keyed : BOOLEAN]

X402TypeOK ==
    /\ offers \in OfferLists
    /\ now \in Nat
    /\ signers \in SUBSET FeePayer
    /\ feePayer \in FeePayer \cup {NoFee}
    /\ req \in [Request -> AnyReq]
    /\ given \in SUBSET (FeePayer \cup {NoFee})
    /\ challenged \in SUBSET Nat
    /\ verified \in SUBSET AnyProof

\* A proof is made of an offer of this resource and, for Solana, of a fee payer
\* that some challenge named.
MadeOfAnOffer(p) ==
    /\ Offered(p.family)
    /\ p.alter \in Alterations(p.family)
    /\ p.fee \in IF p.family = "svm" THEN given ELSE {NoFee}

\* What the gateway's own checks leave to the facilitator.
LeftToFacilitator(p) == p.alter = "none" \/ (p.family = "svm" /\ p.alter \in {"to", "value"})

\* The facilitator signs with the account it names, and takes up none again.
FacilitatorOK ==
    /\ listed \in signers
    /\ signers \cap retired = {}

SnapshotOK ==
    \/ snapshot = NoSnapshot
    \/ /\ snapshot = [at |-> snapshot.at, state |-> snapshot.state, listed |-> snapshot.listed,
                      signers |-> snapshot.signers]
       /\ snapshot.listed \in snapshot.signers
       /\ snapshot.signers \subseteq FeePayer
       /\ snapshot.signers \subseteq signers \cup retired
       /\ \/ snapshot.state = "done" /\ StillSigns(snapshot)
          \/ snapshot.state = "open" /\ (feePayer \in signers => feePayer \in snapshot.signers)

\* A fee payer that was named is the provider's own as long as the facilitator
\* signs with it.
Named(f) == f # NoFee => f \in signers \cup retired /\ (f \in signers => feePayer = f)

\* What holds of a request in progress, by where it is.
ReqOK(q) ==
    /\ q.proof # NoProof => MadeOfAnOffer(q.proof)
    /\ q.pc = "facilitator" => q.proof # NoProof /\ LeftToFacilitator(q.proof)
    /\ q.answer = "refused" =>
          /\ q.proof \in verified \cup {NoProof}
          /\ q.proof \in verified => q.keyed \/ (Len(offers) > 1 /\ q.proof.family = "svm")
    /\ q.pc = "required" =>
          /\ Named(q.fee)
          /\ q.proof # NoProof /\ q.proof.family = "svm" /\ q.proof.fee \in signers
                => q.fee = q.proof.fee

X402Inv ==
    /\ X402TypeOK
    /\ \A p \in verified : MadeOfAnOffer(p) /\ p.alter = "none"
    /\ FacilitatorOK
    /\ SnapshotOK
    /\ Named(feePayer)
    /\ \A f \in given : Named(f)
    /\ \A r \in Request : ReqOK(req[r])

\* NoProof is no proof.
LEMMA NoProofIsNone == NoProof \notin AnyProof
  BY DEF NoProof, AnyProof, Family

\* The invariant gives the three properties.
LEMMA X402InvImplies ==
    ASSUME X402Inv
    PROVE  VerifiedPaysTheOffer /\ RetryIsRecognized /\ FeePayerIsStable
  BY DEF X402Inv, ReqOK, VerifiedPaysTheOffer, RetryIsRecognized, FeePayerIsStable, MadeOfAnOffer

\* Offers are families, and there is one at least.
LEMMA OffersAreFamilies ==
    ASSUME X402TypeOK
    PROVE  /\ offers \in Seq(Family) /\ Len(offers) > 0 /\ Len(offers) \in Nat
           /\ DOMAIN offers = 1 .. Len(offers)
           /\ \A i \in DOMAIN offers : offers[i] \in Family
           /\ \A i, j \in DOMAIN offers : offers[i] = offers[j] => i = j
           /\ \A i \in DOMAIN offers : offers[i] = "mpp" => offers = <<"mpp">>
  <1>1. offers \in Seq(Family) /\ Len(offers) > 0
    BY OfferAssumption DEF X402TypeOK
  <1>2. /\ \A i, j \in DOMAIN offers : offers[i] = offers[j] => i = j
        /\ \A i \in DOMAIN offers : offers[i] = "mpp" => offers = <<"mpp">>
    BY OfferAssumption DEF X402TypeOK
  <1>3. /\ Len(offers) \in Nat /\ DOMAIN offers = 1 .. Len(offers)
        /\ \A i \in DOMAIN offers : offers[i] \in Family
    BY <1>1
  <1> QED BY <1>1, <1>2, <1>3

\* What clients sign is made of an offer.
LEMMA ProofsAreOfOffers ==
    ASSUME X402TypeOK, NEW p \in Proofs
    PROVE  p \in AnyProof /\ MadeOfAnOffer(p)
  <1>1. PICK i \in DOMAIN offers :
            p \in [family : {offers[i]},
                   fee    : IF offers[i] = "svm" THEN given ELSE {NoFee},
                   alter  : Alterations(offers[i]),
                   issued : IF offers[i] = "mpp" THEN challenged ELSE challenged \cap {0}]
    BY DEF Proofs
  <1>2. offers[i] \in Family /\ Alterations(offers[i]) \subseteq Alteration
    BY OffersAreFamilies DEF Alterations
  <1>3. p \in AnyProof
    BY <1>1, <1>2 DEF AnyProof, X402TypeOK
  <1>4. p.family = offers[i] /\ p.alter \in Alterations(p.family)
        /\ p.fee \in (IF p.family = "svm" THEN given ELSE {NoFee})
    BY <1>1
  <1> QED BY <1>3, <1>4 DEF MadeOfAnOffer, Offered

\* No request and no snapshot at first.
LEMMA X402Starts == Init => X402Inv
  <1> SUFFICES ASSUME Init PROVE X402Inv
    OBVIOUS
  <1>1. X402TypeOK
    BY DEF Init, X402TypeOK, AnyReq, NoReq
  <1>2. FacilitatorOK /\ SnapshotOK /\ Named(feePayer)
    BY DEF Init, FacilitatorOK, SnapshotOK, Named
  <1>3. \A r \in Request : ReqOK(req[r])
    BY DEF Init, ReqOK, NoReq
  <1> QED BY <1>1, <1>2, <1>3 DEF X402Inv, Init

\* A request keeps what holds of it while the facilitator, the fee payer and the
\* offers stay and the histories grow.
LEMMA RequestStays ==
    ASSUME NEW q, ReqOK(q), UNCHANGED <<offers, signers, retired, feePayer>>,
           given \subseteq given', verified \subseteq verified',
           q.answer = "refused" => q.proof \notin verified' \ verified
    PROVE  ReqOK(q)'
  BY DEF ReqOK, MadeOfAnOffer, Offered, LeftToFacilitator, Named

\* A step of one request, the facilitator and the fee payer standing still.
LEMMA RequestStep ==
    ASSUME X402Inv, NEW r \in Request, NEW q \in AnyReq, req' = [req EXCEPT ![r] = q],
           UNCHANGED <<offers, now, chainVars, feePayer, history>>,
           UNCHANGED snapshot \/ SnapshotOK', ReqOK(q)
    PROVE  X402Inv'
  <1> USE DEF X402Inv
  <1>1. X402TypeOK'
    BY DEF X402TypeOK, chainVars, history
  <1>2. \A k \in Request : ReqOK(req[k])'
    BY RequestStays DEF X402TypeOK, ReqOK, MadeOfAnOffer, Offered, LeftToFacilitator, Named,
       chainVars, history
  <1>3. /\ \A p \in verified' : MadeOfAnOffer(p)' /\ p.alter = "none"
        /\ FacilitatorOK' /\ Named(feePayer)' /\ \A f \in given' : Named(f)'
    BY DEF MadeOfAnOffer, Offered, FacilitatorOK, Named, chainVars, history
  <1>4. SnapshotOK'
    BY DEF SnapshotOK, StillSigns, chainVars
  <1> QED BY <1>1, <1>2, <1>3, <1>4

\* An answer ends a request; one that was verified before is refused with a key.
LEMMA AnswerStep ==
    ASSUME X402Inv, NEW r \in Request, NEW k \in BOOLEAN,
           NEW a \in {"challenge", "refused", "verified", "unavailable"}, Answer(r, a, k),
           UNCHANGED <<offers, now, chainVars, cacheVars, history>>,
           a = "refused" /\ req[r].proof \in verified
              => k \/ (Len(offers) > 1 /\ req[r].proof.family = "svm")
    PROVE  X402Inv'
  <1> DEFINE q == [pc |-> "done", fee |-> NoFee, answer |-> a, keyed |-> k,
                   proof |-> IF req[r].proof \in verified THEN req[r].proof ELSE NoProof]
  <1>1. req' = [req EXCEPT ![r] = q]
    BY DEF Answer
  <1>2. q \in AnyReq
    BY DEF X402Inv, X402TypeOK, AnyReq
  <1>3. NoProof \notin verified
    BY NoProofIsNone DEF X402Inv, X402TypeOK
  <1>4. ReqOK(q)
    <2>1. CASE req[r].proof \in verified
      BY <2>1 DEF X402Inv, ReqOK
    <2>2. CASE req[r].proof \notin verified
      BY <1>3, <2>2 DEF ReqOK
    <2> QED BY <2>1, <2>2
  <1> QED BY <1>1, <1>2, <1>4, RequestStep DEF cacheVars

\* The offer a proof selects is one of the resource's.
LEMMA OfferIndexIsOffer ==
    ASSUME X402TypeOK, NEW fee, NEW p, OfferIndex(fee, p) # 0
    PROVE  OfferIndex(fee, p) \in DOMAIN offers
  <1> DEFINE matches == {i \in DOMAIN offers : Decodes(p) /\ AcceptedMatchesOffer(offers[i], fee, p)}
  <1>1. CASE Len(offers) = 1
    BY <1>1, OffersAreFamilies DEF OfferIndex
  <1>2. CASE Len(offers) # 1
    <2>1. Cardinality(matches) = 1 /\ OfferIndex(fee, p) = CHOOSE i \in matches : TRUE
      BY <1>2 DEF OfferIndex
    <2>2. matches # {}
      BY <2>1, FS_EmptySet
    <2> QED BY <2>1, <2>2
  <1> QED BY <1>1, <1>2

\* A proof that was signed as offered, with a fee payer that is still named, is
\* one that the gateway can read and key again.
LEMMA VerifiedIsReadable ==
    ASSUME X402TypeOK, NEW p \in AnyProof, MadeOfAnOffer(p), p.alter = "none",
           offers # <<"mpp">>, NEW fee,
           Len(offers) = 1 \/ p.family # "svm"
    PROVE  /\ OfferIndex(fee, p) # 0
           /\ Readable(offers[OfferIndex(fee, p)], p)
  <1> DEFINE matches == {i \in DOMAIN offers : Decodes(p) /\ AcceptedMatchesOffer(offers[i], fee, p)}
  <1>1. PICK i \in DOMAIN offers : offers[i] = p.family
    BY DEF MadeOfAnOffer, Offered
  <1>2. p.family \in {"eip3009", "permit2", "svm", "near"}
    BY <1>1, OffersAreFamilies DEF AnyProof, Family
  <1>3. Readable(p.family, p)
    BY <1>2 DEF Readable, Decodes, ReadEip3009, ReadPermit2, InspectSvm, InspectNear,
                IsExactEvmPayload, IsExactPermit2Payload
  <1>4. CASE Len(offers) = 1
    <2>1. OfferIndex(fee, p) = 1 /\ i = 1
      BY <1>1, <1>4, OffersAreFamilies DEF OfferIndex
    <2> QED BY <1>1, <1>3, <2>1
  <1>5. CASE Len(offers) # 1
    <2>1. matches = {i}
      BY <1>1, <1>5, OffersAreFamilies DEF Decodes, AcceptedMatchesOffer, Fee, MadeOfAnOffer
    <2>2. Cardinality(matches) = 1
      BY <2>1, FS_Singleton
    <2>3. OfferIndex(fee, p) = i
      BY <1>5, <2>1, <2>2 DEF OfferIndex
    <2> QED BY <1>1, <1>3, <2>3, OffersAreFamilies
  <1> QED BY <1>4, <1>5

\* What passes the gateway's x402 checks departs from its offer in nothing that
\* the gateway can see.
LEMMA CheckedX402 ==
    ASSUME X402TypeOK, NEW p \in AnyProof, MadeOfAnOffer(p), NEW fee,
           offers # <<"mpp">>, OfferIndex(fee, p) # 0,
           Readable(offers[OfferIndex(fee, p)], p), TermsMatch(offers[OfferIndex(fee, p)], fee, p)
    PROVE  LeftToFacilitator(p)
  <1> DEFINE f == offers[OfferIndex(fee, p)]
  <1>1. f = p.family /\ p.alter \notin {"network", "echo", "url", "garbled"}
    BY DEF TermsMatch, AcceptedMatchesOffer, Readable, Decodes
  <1>2. f \in {"eip3009", "permit2", "svm", "near"}
    BY OfferIndexIsOffer, OffersAreFamilies DEF Family
  <1>3. p.alter \in Alterations(f)
    BY <1>1 DEF MadeOfAnOffer
  <1> HIDE DEF f
  <1>4. Readable(f, p) /\ TermsMatch(f, fee, p)
    BY DEF f
  <1>5. CASE f = "eip3009"
    BY <1>1, <1>3, <1>4, <1>5
       DEF Readable, TermsMatch, ReadEip3009, IsExactEvmPayload, Alterations, Alteration,
           LeftToFacilitator
  <1>6. CASE f = "permit2"
    BY <1>1, <1>3, <1>4, <1>6
       DEF Readable, TermsMatch, ReadPermit2, IsExactPermit2Payload, Alterations, Alteration,
           LeftToFacilitator
  <1>7. CASE f = "svm"
    BY <1>1, <1>3, <1>4, <1>7
       DEF Readable, InspectSvm, Alterations, Alteration, LeftToFacilitator
  <1>8. CASE f = "near"
    BY <1>1, <1>3, <1>4, <1>8
       DEF Readable, InspectNear, Alterations, Alteration, LeftToFacilitator
  <1> QED BY <1>2, <1>5, <1>6, <1>7, <1>8

\* The checks of a proof, on either rail.
LEMMA CheckKeepsX402 ==
    ASSUME X402Inv, NEW r \in Request, Check(r)
    PROVE  X402Inv'
  <1> DEFINE p == req[r].proof
             fee == req[r].fee
  <1>1. /\ req[r].pc = "required" /\ p # NoProof
        /\ UNCHANGED <<offers, now, chainVars, cacheVars, history>>
        /\ IF offers = <<"mpp">> THEN CheckMpp(r, p) ELSE CheckX402(r, p)
    BY DEF Check
  <1>2. /\ req[r] \in AnyReq /\ p \in AnyProof /\ MadeOfAnOffer(p) /\ X402TypeOK
        /\ p \in verified => p.alter = "none"
    BY <1>1 DEF X402Inv, X402TypeOK, ReqOK, AnyReq
  <1>3. CASE offers = <<"mpp">>
    <2>1. p.family = "mpp" /\ p.alter \in Alterations("mpp")
      BY <1>2, <1>3 DEF MadeOfAnOffer, Offered
    <2>2. CASE \E k \in BOOLEAN : Answer(r, "refused", k) /\ (p.alter = "none" => k)
      BY <1>1, <1>2, <2>2, AnswerStep
    <2>3. CASE /\ req' = [req EXCEPT ![r].pc = "facilitator"]
               /\ p.alter # "foreign" /\ BindingMatches(p) /\ ValidCredential(p) /\ DecodeCredential(p)
      <3>1. LeftToFacilitator(p)
        BY <2>1, <2>3 DEF BindingMatches, ValidCredential, DecodeCredential, Alterations,
                          Alteration, LeftToFacilitator
      <3> DEFINE q == [req[r] EXCEPT !.pc = "facilitator"]
      <3>2. q \in AnyReq /\ ReqOK(q)
        BY <1>1, <1>2, <3>1 DEF X402Inv, ReqOK, AnyReq
      <3>3. req' = [req EXCEPT ![r] = q]
        BY <2>3
      <3> QED BY <1>1, <3>2, <3>3, RequestStep DEF cacheVars
    <2>4. ClaimedReplayKey(p) \in BOOLEAN
      BY DEF ClaimedReplayKey
    <2> QED BY <1>1, <1>3, <2>1, <2>2, <2>3, <2>4 DEF CheckMpp, DecodeCredential, ClaimedReplayKey
  <1>4. CASE offers # <<"mpp">>
    <2> DEFINE i == OfferIndex(fee, p)
    <2>1. CASE (i = 0 \/ ~Readable(offers[i], p)) /\ Answer(r, "refused", FALSE)
      <3>1. p \in verified => Len(offers) > 1 /\ p.family = "svm"
        <4>1. Len(offers) > 1 \/ Len(offers) = 1
          BY <1>2, OffersAreFamilies
        <4> QED BY <1>2, <1>4, <2>1, <4>1, VerifiedIsReadable
      <3> QED BY <1>1, <2>1, <3>1, AnswerStep
    <2>2. CASE Answer(r, "refused", TRUE)
      BY <1>1, <2>2, AnswerStep
    <2>3. CASE i # 0 /\ Readable(offers[i], p) /\ TermsMatch(offers[i], fee, p)
               /\ req' = [req EXCEPT ![r].pc = "facilitator"]
      <3>1. LeftToFacilitator(p)
        BY <1>2, <1>4, <2>3, CheckedX402
      <3> DEFINE q == [req[r] EXCEPT !.pc = "facilitator"]
      <3>2. q \in AnyReq /\ ReqOK(q)
        BY <1>1, <1>2, <3>1 DEF X402Inv, ReqOK, AnyReq
      <3>3. req' = [req EXCEPT ![r] = q]
        BY <2>3
      <3> QED BY <1>1, <3>2, <3>3, RequestStep DEF cacheVars
    <2> QED BY <1>1, <1>4, <2>1, <2>2, <2>3 DEF CheckX402
  <1> QED BY <1>3, <1>4

\* A challenge is answered.
LEMMA ChallengeKeepsX402 ==
    ASSUME X402Inv, NEW r \in Request, Challenge(r)
    PROVE  X402Inv'
  <1> USE DEF X402Inv
  <1> DEFINE q == [pc |-> "done", fee |-> NoFee, answer |-> "challenge", keyed |-> FALSE,
                   proof |-> NoProof]
  <1>0. /\ req[r].pc = "required" /\ req[r].proof = NoProof /\ given' = given \cup {req[r].fee}
        /\ UNCHANGED <<offers, now, listed, signers, retired, snapshot, feePayer, verified>>
    BY DEF Challenge, chainVars, cacheVars
  <1>1. NoProof \notin verified
    BY NoProofIsNone DEF X402TypeOK
  <1>2. req' = [req EXCEPT ![r] = q]
    BY <1>0, <1>1 DEF Challenge, Answer
  <1>3. X402TypeOK'
    <2>1. q \in AnyReq /\ req[r].fee \in FeePayer \cup {NoFee}
      BY DEF X402TypeOK, AnyReq
    <2>2. challenged' \in SUBSET Nat
      BY DEF X402TypeOK, Challenge
    <2> QED BY <1>0, <1>2, <2>1, <2>2 DEF X402TypeOK
  <1>4. \A k \in Request : ReqOK(req[k])'
    <2>1. \A k \in Request : ReqOK(req[k]) => ReqOK(req[k])' \/ k = r
      BY <1>0, <1>2, RequestStays DEF X402TypeOK
    <2>2. ReqOK(req[r])'
      BY <1>2 DEF ReqOK, X402TypeOK
    <2> QED BY <2>1, <2>2
  <1>5. Named(req[r].fee)
    BY <1>0 DEF ReqOK
  <1>6. /\ \A p \in verified' : MadeOfAnOffer(p)' /\ p.alter = "none"
        /\ FacilitatorOK' /\ Named(feePayer)' /\ \A f \in given' : Named(f)'
    BY <1>0, <1>5 DEF MadeOfAnOffer, Offered, FacilitatorOK, Named
  <1>7. SnapshotOK'
    BY <1>0 DEF SnapshotOK, StillSigns
  <1> QED BY <1>3, <1>4, <1>6, <1>7

\* The facilitator verifies a proof that passed the checks.
LEMMA FacilitatorKeepsX402 ==
    ASSUME X402Inv, NEW r \in Request, NEW v \in {"valid", "invalid", "none"},
           VerifyFacilitator(r, v)
    PROVE  X402Inv'
  <1> USE DEF X402Inv
  <1>0. /\ req[r].pc = "facilitator"
        /\ UNCHANGED <<offers, now, chainVars, cacheVars, given, challenged>>
    BY DEF VerifyFacilitator
  <1>1. CASE v = "invalid"
    BY <1>0, <1>1, AnswerStep DEF VerifyFacilitator, history
  <1>2. CASE v = "none"
    BY <1>0, <1>2, AnswerStep DEF VerifyFacilitator, history
  <1>3. CASE v = "valid"
    <2> DEFINE p == req[r].proof
               q == [pc |-> "done", fee |-> NoFee, answer |-> "verified", keyed |-> TRUE,
                     proof |-> IF p \in verified THEN p ELSE NoProof]
    <2>1. /\ Accepts(p) /\ verified' = verified \cup {p} /\ req' = [req EXCEPT ![r] = q]
      BY <1>3 DEF VerifyFacilitator, Answer
    <2>2. p \in AnyProof /\ MadeOfAnOffer(p) /\ LeftToFacilitator(p)
      BY <1>0 DEF ReqOK, X402TypeOK, AnyReq
    <2>3. p.alter = "none"
      BY <2>1, <2>2 DEF Accepts, LeftToFacilitator
    <2>4. X402TypeOK'
      <3>1. q \in AnyReq
        BY <2>2 DEF AnyReq
      <3> QED BY <1>0, <2>1, <2>2, <3>1 DEF X402TypeOK, chainVars, cacheVars
    <2>5. /\ \A x \in verified' : MadeOfAnOffer(x)' /\ x.alter = "none"
          /\ FacilitatorOK' /\ Named(feePayer)' /\ \A f \in given' : Named(f)'
      BY <1>0, <2>1, <2>2, <2>3 DEF MadeOfAnOffer, Offered, FacilitatorOK, Named, chainVars, cacheVars
    <2>6. SnapshotOK'
      BY <1>0 DEF SnapshotOK, StillSigns, chainVars, cacheVars
    <2>7. \A k \in Request : ReqOK(req[k])'
      <3>1. ASSUME NEW k \in Request, k # r PROVE ReqOK(req[k])'
        <4>1. req'[k] = req[k]
          BY <2>1, <3>1 DEF X402TypeOK
        <4>2. req[k].answer = "refused" => req[k].proof \notin verified' \ verified
          BY <2>1, <2>2, NoProofIsNone DEF ReqOK
        <4> QED BY <1>0, <2>1, <4>1, <4>2, RequestStays DEF chainVars, cacheVars
      <3>2. ReqOK(req[r])'
        <4>1. req'[r] = q
          BY <2>1 DEF X402TypeOK
        <4>2. p \in verified => MadeOfAnOffer(p)'
          BY <2>1, <2>5
        <4> QED BY <4>1, <4>2 DEF ReqOK
      <3> QED BY <3>1, <3>2
    <2> QED BY <2>4, <2>5, <2>6, <2>7
  <1> QED BY <1>1, <1>2, <1>3

\* A call to /supported that ends names the fee payer again, or another when the
\* previous one is signed with no longer.
LEMMA EndCallKeepsX402 ==
    ASSUME X402Inv, EndCall
    PROVE  X402Inv'
  <1> USE OfferAssumption DEF X402Inv
  <1>0. /\ snapshot.state = "open" /\ snapshot # NoSnapshot
        /\ snapshot' = [snapshot EXCEPT !.state = "done"]
        /\ feePayer' = SvmFeePayer(snapshot)
        /\ UNCHANGED <<offers, now, listed, signers, retired, given, challenged, verified>>
    <2>1. snapshot.state = "open"
      BY DEF EndCall
    <2>2. snapshot # NoSnapshot
      BY <2>1 DEF NoSnapshot
    <2> QED BY <2>1, <2>2 DEF EndCall, chainVars, history
  <1>1. /\ snapshot = [at |-> snapshot.at, state |-> snapshot.state, listed |-> snapshot.listed,
                       signers |-> snapshot.signers]
        /\ snapshot.listed \in snapshot.signers
        /\ snapshot.signers \subseteq FeePayer
        /\ snapshot.signers \subseteq signers \cup retired
        /\ feePayer \in signers => feePayer \in snapshot.signers
    BY <1>0 DEF SnapshotOK
  <1>2. /\ feePayer' \in FeePayer /\ feePayer' # NoFee
        /\ feePayer' = snapshot.listed \/ feePayer' \in snapshot.signers
        /\ feePayer' \in signers \cup retired
        /\ feePayer \in signers => feePayer' = feePayer
    BY <1>0, <1>1 DEF SvmFeePayer, StillSigns, X402TypeOK
  <1>3. SnapshotOK'
    BY <1>0, <1>1, <1>2 DEF SnapshotOK, StillSigns
  <1>4. \A f : Named(f) => Named(f)'
    BY <1>0, <1>2 DEF Named
  <1>5. Named(feePayer)'
    BY <1>0, <1>2 DEF Named
  <1> DEFINE Goes(r) == [pc |-> "required", fee |-> feePayer', proof |-> req[r].proof,
                         answer |-> req[r].answer, keyed |-> req[r].keyed]
  <1>a. ASSUME NEW r \in Request, r \in Waiting PROVE req'[r] = Goes(r)
    <2>1. req'[r] = [req[r] EXCEPT !.pc = "required", !.fee = feePayer']
      BY <1>a DEF EndCall
    <2>2. req[r] \in AnyReq
      BY DEF X402TypeOK
    <2> QED BY <2>1, <2>2 DEF AnyReq
  <1>b. ASSUME NEW r \in Request, r \notin Waiting PROVE req'[r] = req[r]
    BY <1>b DEF EndCall
  <1>6. X402TypeOK'
    <2>1. ASSUME NEW r \in Request PROVE req'[r] \in AnyReq
      <3>1. req[r] \in AnyReq
        BY DEF X402TypeOK
      <3>2. CASE r \in Waiting
        <4>1. Goes(r) \in AnyReq
          BY <1>2, <3>1 DEF AnyReq
        <4> HIDE DEF Goes
        <4> QED BY <1>a, <3>2, <4>1
      <3> QED BY <1>b, <3>1, <3>2
    <2>2. DOMAIN req' = Request /\ req' = [r \in Request |-> req'[r]]
      BY DEF EndCall
    <2>3. req' \in [Request -> AnyReq]
      BY <2>1, <2>2
    <2> QED BY <1>0, <1>2, <2>3 DEF X402TypeOK
  <1>7. /\ \A p \in verified' : MadeOfAnOffer(p)' /\ p.alter = "none"
        /\ FacilitatorOK' /\ \A f \in given' : Named(f)'
    BY <1>0, <1>4 DEF MadeOfAnOffer, Offered, FacilitatorOK
  <1>8. ASSUME NEW r \in Request PROVE ReqOK(req[r])'
    <2>1. \A p : MadeOfAnOffer(p) <=> MadeOfAnOffer(p)'
      BY <1>0 DEF MadeOfAnOffer, Offered
    <2>2. CASE r \in Waiting
      <3>1. /\ req'[r].pc = "required" /\ req'[r].fee = feePayer' /\ req'[r].proof = req[r].proof
            /\ req'[r].answer = req[r].answer /\ req'[r].keyed = req[r].keyed
        <4> HIDE DEF Goes
        <4>1. req'[r] = Goes(r)
          BY <1>a, <2>2
        <4> QED BY <4>1 DEF Goes
      <3>2. /\ req[r].proof # NoProof /\ req[r].proof.family = "svm" /\ req[r].proof.fee \in signers
            => feePayer' = req[r].proof.fee
        <4>1. ASSUME req[r].proof # NoProof, req[r].proof.family = "svm", req[r].proof.fee \in signers
              PROVE  feePayer' = req[r].proof.fee
          <5>1. req[r].proof.fee \in given /\ req[r].proof.fee # NoFee
            BY <4>1 DEF ReqOK, MadeOfAnOffer, X402TypeOK
          <5>2. feePayer = req[r].proof.fee
            BY <4>1, <5>1 DEF Named
          <5> QED BY <1>2, <4>1, <5>2
        <4> QED BY <4>1
      <3> QED BY <1>0, <1>5, <2>1, <3>1, <3>2 DEF ReqOK
    <2>3. CASE r \notin Waiting
      <3>1. req'[r] = req[r]
        BY <2>3 DEF EndCall
      <3> QED BY <1>0, <1>4, <2>1, <3>1 DEF ReqOK, LeftToFacilitator
    <2> QED BY <2>2, <2>3
  <1> QED BY <1>3, <1>5, <1>6, <1>7, <1>8

\* A failed call to /supported fails the requests that wait for it.
LEMMA FailCallKeepsX402 ==
    ASSUME X402Inv, FailCall
    PROVE  X402Inv'
  <1> USE DEF X402Inv
  <1> DEFINE q == [pc |-> "done", fee |-> NoFee, proof |-> NoProof, answer |-> "unavailable",
                   keyed |-> FALSE]
  <1>0. /\ snapshot' = NoSnapshot
        /\ UNCHANGED <<offers, now, listed, signers, retired, feePayer, given, challenged, verified>>
    BY DEF FailCall, chainVars, history
  <1>1. \A r \in Request : req'[r] = req[r] \/ req'[r] = q
    BY DEF FailCall, NoReq
  <1>2. q \in AnyReq /\ ReqOK(q)'
    BY <1>0, NoProofIsNone DEF AnyReq, ReqOK, X402TypeOK
  <1> HIDE DEF q
  <1>3. X402TypeOK'
    <2>1. req' = [r \in Request |-> req'[r]]
      BY DEF FailCall
    <2>2. \A r \in Request : req'[r] \in AnyReq
      BY <1>1, <1>2 DEF X402TypeOK
    <2>3. req' \in [Request -> AnyReq]
      BY <2>1, <2>2
    <2> QED BY <1>0, <2>3 DEF X402TypeOK
  <1>4. \A r \in Request : ReqOK(req[r])'
    <2>1. ASSUME NEW r \in Request PROVE ReqOK(req[r])'
      <3>1. CASE req'[r] = q
        BY <1>2, <3>1 DEF ReqOK, MadeOfAnOffer, Offered, LeftToFacilitator, Named
      <3>2. CASE req'[r] = req[r]
        BY <1>0, <3>2, RequestStays
      <3> QED BY <1>1, <3>1, <3>2
    <2> QED BY <2>1
  <1>5. /\ \A p \in verified' : MadeOfAnOffer(p)' /\ p.alter = "none"
        /\ FacilitatorOK' /\ Named(feePayer)' /\ \A f \in given' : Named(f)'
    BY <1>0 DEF MadeOfAnOffer, Offered, FacilitatorOK, Named
  <1>6. SnapshotOK'
    BY <1>0 DEF SnapshotOK
  <1> QED BY <1>3, <1>4, <1>5, <1>6

\* A request arrives, with a proof or without.
LEMMA StartKeepsX402 ==
    ASSUME X402Inv, NEW r \in Request, NEW p \in Proofs \cup verified \cup {NoProof}, Start(r, p)
    PROVE  X402Inv'
  <1> USE OfferAssumption DEF X402Inv
  <1>1. p \in AnyProof \cup {NoProof} /\ (p # NoProof => MadeOfAnOffer(p)) /\ X402TypeOK
    BY ProofsAreOfOffers DEF X402TypeOK
  <1>2. UNCHANGED <<offers, now, chainVars, history>>
    BY DEF Start
  <1> DEFINE Q(pc, fee) == [pc |-> pc, fee |-> fee, proof |-> p, answer |-> "none", keyed |-> FALSE]
  <1>3. Q("supported", NoFee) \in AnyReq /\ ReqOK(Q("supported", NoFee))
    BY <1>1 DEF AnyReq, ReqOK
  <1>4. CASE ~Offered("svm") /\ req' = [req EXCEPT ![r] = Q("required", NoFee)] /\ UNCHANGED cacheVars
    <2>1. p # NoProof => p.family # "svm"
      BY <1>1, <1>4 DEF MadeOfAnOffer
    <2>2. Q("required", NoFee) \in AnyReq /\ ReqOK(Q("required", NoFee))
      BY <1>1, <2>1 DEF AnyReq, ReqOK, Named
    <2> QED BY <1>2, <1>4, <2>2, RequestStep DEF cacheVars
  <1>5. CASE /\ snapshot.state = "done" /\ snapshot # NoSnapshot
             /\ feePayer' = SvmFeePayer(snapshot) /\ UNCHANGED snapshot
             /\ req' = [req EXCEPT ![r] = Q("required", feePayer')]
    <2>1. feePayer' = feePayer
      BY <1>5 DEF SnapshotOK, SvmFeePayer
    <2>2. p # NoProof /\ p.family = "svm" /\ p.fee \in signers => feePayer = p.fee
      <3>1. p # NoProof /\ p.family = "svm" => p.fee \in given
        BY <1>1 DEF MadeOfAnOffer
      <3>2. NoFee \notin signers
        BY DEF X402TypeOK
      <3> QED BY <3>1, <3>2 DEF Named
    <2>3. Q("required", feePayer) \in AnyReq /\ ReqOK(Q("required", feePayer))
      BY <1>1, <2>2 DEF AnyReq, ReqOK, X402TypeOK
    <2> QED BY <1>2, <1>5, <2>1, <2>3, RequestStep
  <1>6. CASE req' = [req EXCEPT ![r] = Q("supported", NoFee)] /\ UNCHANGED cacheVars
    BY <1>2, <1>3, <1>6, RequestStep DEF cacheVars
  <1>7. CASE /\ snapshot' = [at |-> now, state |-> "open", listed |-> listed, signers |-> signers]
             /\ req' = [req EXCEPT ![r] = Q("supported", NoFee)] /\ UNCHANGED feePayer
    <2>1. SnapshotOK'
      BY <1>2, <1>7 DEF SnapshotOK, FacilitatorOK, X402TypeOK, chainVars
    <2> QED BY <1>2, <1>3, <1>7, <2>1, RequestStep
  <1> QED BY <1>4, <1>5, <1>6, <1>7 DEF Start, NoReq

\* The facilitator takes up no fee payer again that it dropped, so none that was
\* named comes back.
LEMMA RotateKeepsX402 ==
    ASSUME X402Inv, NEW f \in FeePayer, NEW dropped \in SUBSET signers, Rotate(f, dropped)
    PROVE  X402Inv'
  <1> USE OfferAssumption DEF X402Inv
  <1>0. /\ UNCHANGED <<offers, now, snapshot, feePayer, req, given, challenged, verified>>
        /\ listed' = f /\ signers' = (signers \cup {f}) \ dropped /\ retired' = retired \cup dropped
        /\ f \notin dropped /\ f \notin retired
    BY DEF Rotate, cacheVars, history
  <1>1. X402TypeOK'
    BY <1>0 DEF X402TypeOK
  <1>2. FacilitatorOK'
    BY <1>0 DEF FacilitatorOK
  <1>3. ASSUME NEW g, Named(g) PROVE Named(g)' /\ (g # NoFee /\ g \in signers' => g \in signers)
    BY <1>0, <1>3 DEF Named
  <1>4. NoFee \notin signers'
    BY <1>1 DEF X402TypeOK
  <1>5. SnapshotOK'
    BY <1>0, <1>3, <1>4 DEF SnapshotOK, StillSigns
  <1>6. ASSUME NEW p, MadeOfAnOffer(p) PROVE MadeOfAnOffer(p)'
    BY <1>0, <1>6 DEF MadeOfAnOffer, Offered
  <1>7. ASSUME NEW r \in Request PROVE ReqOK(req[r])'
    <2> DEFINE q == req[r]
    <2>1. ReqOK(q)
      OBVIOUS
    <2>2. q.pc = "required" /\ q.proof # NoProof /\ q.proof.family = "svm" /\ q.proof.fee \in signers'
             => q.fee = q.proof.fee
      BY <1>3, <1>4, <2>1 DEF ReqOK, MadeOfAnOffer
    <2> QED BY <1>0, <1>3, <1>6, <2>1, <2>2 DEF ReqOK, LeftToFacilitator
  <1> QED BY <1>0, <1>1, <1>2, <1>3, <1>5, <1>6, <1>7

\* Every step keeps the invariant of the proofs.
LEMMA X402Steps == X402Inv /\ [Next]_vars => X402Inv'
  <1> SUFFICES ASSUME X402Inv, [Next]_vars PROVE X402Inv'
    OBVIOUS
  <1>1. CASE \E r \in Request : \E p \in Proofs \cup verified \cup {NoProof} : Start(r, p)
    BY <1>1, StartKeepsX402
  <1>2. CASE \E r \in Request : Challenge(r)
    BY <1>2, ChallengeKeepsX402
  <1>3. CASE \E r \in Request : Check(r)
    BY <1>3, CheckKeepsX402
  <1>4. CASE \E r \in Request : \E v \in {"valid", "invalid", "none"} : VerifyFacilitator(r, v)
    BY <1>4, FacilitatorKeepsX402
  <1>5. CASE EndCall
    BY <1>5, EndCallKeepsX402
  <1>6. CASE FailCall
    BY <1>6, FailCallKeepsX402
  <1>7. CASE \E f \in FeePayer : \E dropped \in SUBSET signers : Rotate(f, dropped)
    BY <1>7, RotateKeepsX402
  <1>8. CASE Land \/ Tick \/ UNCHANGED vars
    <2>1. /\ UNCHANGED <<offers, listed, signers, retired, snapshot, feePayer, req, given, challenged,
                         verified>>
          /\ now' \in Nat
      BY <1>8 DEF Land, Tick, vars, chainVars, cacheVars, history, X402Inv, X402TypeOK
    <2>2. X402TypeOK' /\ FacilitatorOK' /\ SnapshotOK' /\ Named(feePayer)'
      BY <2>1 DEF X402Inv, X402TypeOK, FacilitatorOK, SnapshotOK, StillSigns, Named
    <2>3. /\ \A p \in verified' : MadeOfAnOffer(p)' /\ p.alter = "none"
          /\ \A f \in given' : Named(f)'
      BY <2>1 DEF X402Inv, MadeOfAnOffer, Offered, Named
    <2>4. \A r \in Request : ReqOK(req[r])'
      BY <2>1, RequestStays DEF X402Inv
    <2> QED BY <2>2, <2>3, <2>4 DEF X402Inv
  <1> QED BY <1>1, <1>2, <1>3, <1>4, <1>5, <1>6, <1>7, <1>8 DEF Next

(***************************************************************************)
(* verify and verifyMpp, for any offers, requests and fee payers: a        *)
(* verified proof departs in nothing from an offer of the resource.        *)
(***************************************************************************)
THEOREM VerifiedTheorem == Spec => []VerifiedPaysTheOffer
  BY X402Starts, X402Steps, X402InvImplies, PTL DEF Spec

(***************************************************************************)
(* A proof that was verified before is refused with its replay key, unless *)
(* it is a Solana proof of a resource with several offers.                 *)
(***************************************************************************)
THEOREM RetryTheorem == Spec => []RetryIsRecognized
  BY X402Starts, X402Steps, X402InvImplies, PTL DEF Spec

(***************************************************************************)
(* A Solana proof signed as challenged meets its own fee payer as long as  *)
(* the facilitator signs with it, for any interleaving of requests, calls  *)
(* to /supported and rotations.                                            *)
(***************************************************************************)
THEOREM FeePayerTheorem == Spec => []FeePayerIsStable
  BY X402Starts, X402Steps, X402InvImplies, PTL DEF Spec

-----------------------------------------------------------------------------
(* Price quotes.                                                           *)

Quote == [key : Nat \X (Body \cup {NoBody}), from : Nat, until : Nat]

AnyAsker == [pc : {"idle", "next", "signing", "sent"}, body : Body \cup {NoBody},
             quotes : Seq(Quote), signing : Quote \cup {NoQuote}, asked : Seq(Nat)]

\* One quote per key.
OnePerKey(s) == \A i, j \in 1 .. Len(s) : s[i].key = s[j].key => i = j

\* Entries were made before now.
Past(s) == \A i \in 1 .. Len(s) : s[i].from <= seconds

CacheOK ==
    /\ cache \in Seq(Quote)
    /\ Len(cache) <= QuoteCacheLimit
    /\ OnePerKey(cache)
    /\ Past(cache)

\* A challenge has asked once for each quote it holds and, while it signs one, for
\* that one; what it signs is for the offer after the last.
AskerOK(x) ==
    /\ \A i \in 1 .. Len(x.asked) : x.asked[i] <= seconds
    /\ Len(x.asked) = IF x.pc = "signing" THEN Len(x.quotes) + 1 ELSE Len(x.quotes)
    /\ x.pc = "signing" =>
          /\ x.signing \in Quote
          /\ x.signing.key = <<Len(x.quotes) + 1, x.body>>
          /\ x.signing.from = x.asked[Len(x.quotes) + 1]
          /\ x.signing.until = x.signing.from + 2 * MaxTimeout
    /\ \A i \in 1 .. Len(x.quotes) :
          /\ x.quotes[i].key = <<i, x.body>>
          /\ x.quotes[i].from <= x.asked[i]
          /\ x.quotes[i].until >= x.asked[i] + MaxTimeout

QuoteInv ==
    /\ seconds \in Nat
    /\ CacheOK
    /\ asker \in [Asker -> AnyAsker]
    /\ \A a \in Asker : AskerOK(asker[a])

\* The invariant gives the property.
LEMMA QuoteInvImplies ==
    ASSUME QuoteInv
    PROVE  QuotesCoverThePayment
  <1>1. \A a \in Asker : DOMAIN asker[a].quotes = 1 .. Len(asker[a].quotes)
    BY DEF QuoteInv, AnyAsker
  <1>2. DOMAIN cache = 1 .. Len(cache)
    BY DEF QuoteInv, CacheOK
  <1> QED BY <1>1, <1>2 DEF QuoteInv, AskerOK, CacheOK, OnePerKey, QuotesCoverThePayment

\* Cache and challenges are empty at first.
LEMMA QuoteStarts == QuoteInit => QuoteInv
  <1> SUFFICES ASSUME QuoteInit PROVE QuoteInv
    OBVIOUS
  <1>1. Idle \in AnyAsker /\ AskerOK(Idle)
    BY DEF Idle, AnyAsker, AskerOK
  <1>2. CacheOK
    BY QuoteAssumption DEF QuoteInit, CacheOK, OnePerKey, Past
  <1> QED BY <1>1, <1>2 DEF QuoteInit, QuoteInv

\* A sequence without its i-th entry.
LEMMA RemoveAtProperties ==
    ASSUME NEW S, NEW s \in Seq(S), NEW i \in 1 .. Len(s)
    PROVE  /\ RemoveAt(s, i) \in Seq(S)
           /\ Len(RemoveAt(s, i)) = Len(s) - 1
           /\ \A j \in 1 .. Len(s) - 1 : RemoveAt(s, i)[j] = IF j < i THEN s[j] ELSE s[j + 1]
  <1> DEFINE l == SubSeq(s, 1, i - 1)
             r == SubSeq(s, i + 1, Len(s))
  <1>0. Len(s) \in Nat /\ i \in Nat /\ i - 1 \in Nat /\ 1 <= i /\ i <= Len(s)
    OBVIOUS
  <1>1. /\ l \in Seq(S) /\ Len(l) = i - 1
        /\ \A j \in 1 .. i - 1 : l[j] = s[j]
    <2>1. /\ 1 \in 1 .. Len(s) + 1 /\ i - 1 \in 1 - 1 .. Len(s)
      BY <1>0
    <2>2. /\ l \in Seq(S) /\ Len(l) = (IF 1 <= i - 1 THEN (i - 1) - 1 + 1 ELSE 0)
          /\ \A j \in 1 .. (i - 1) - 1 + 1 : l[j] = s[1 + j - 1]
      BY <2>1, SubSeqProperties
    <2> HIDE DEF l
    <2> QED BY <1>0, <2>2
  <1>2. /\ r \in Seq(S) /\ Len(r) = Len(s) - i
        /\ \A j \in 1 .. Len(s) - i : r[j] = s[i + j]
    <2>1. /\ i + 1 \in 1 .. Len(s) + 1 /\ Len(s) \in (i + 1) - 1 .. Len(s)
      BY <1>0
    <2>2. /\ r \in Seq(S) /\ Len(r) = (IF i + 1 <= Len(s) THEN Len(s) - (i + 1) + 1 ELSE 0)
          /\ \A j \in 1 .. Len(s) - (i + 1) + 1 : r[j] = s[(i + 1) + j - 1]
      BY <2>1, SubSeqProperties
    <2> HIDE DEF r
    <2> QED BY <1>0, <2>2
  <1> HIDE DEF l, r
  <1>3. /\ l \o r \in Seq(S) /\ Len(l \o r) = Len(l) + Len(r)
        /\ \A j \in 1 .. Len(l) + Len(r) : (l \o r)[j] = IF j <= Len(l) THEN l[j] ELSE r[j - Len(l)]
    BY <1>1, <1>2, ConcatProperties
  <1>4. RemoveAt(s, i) = l \o r
    BY DEF RemoveAt, l, r
  <1>5. ASSUME NEW j \in 1 .. Len(s) - 1
        PROVE  (l \o r)[j] = IF j < i THEN s[j] ELSE s[j + 1]
    <2>1. CASE j < i
      BY <1>0, <1>1, <1>2, <1>3, <2>1
    <2>2. CASE ~(j < i)
      <3>1. (l \o r)[j] = r[j - (i - 1)] /\ j - (i - 1) \in 1 .. Len(s) - i
        BY <1>0, <1>1, <1>2, <1>3, <2>2
      <3>2. r[j - (i - 1)] = s[i + (j - (i - 1))] /\ i + (j - (i - 1)) = j + 1
        BY <1>0, <1>2, <3>1
      <3> QED BY <2>2, <3>1, <3>2
    <2> QED BY <2>1, <2>2
  <1> QED BY <1>0, <1>1, <1>2, <1>3, <1>4, <1>5

\* Removal leaves no entry of the key.
LEMMA WithoutKey ==
    ASSUME CacheOK, seconds \in Nat, NEW k
    PROVE  /\ Without(k) \in Seq(Quote) /\ Len(Without(k)) <= Len(cache)
           /\ OnePerKey(Without(k)) /\ Past(Without(k))
           /\ \A i \in 1 .. Len(Without(k)) : Without(k)[i].key # k
  <1>1. cache \in Seq(Quote) /\ Len(cache) \in Nat /\ DOMAIN cache = 1 .. Len(cache)
    BY DEF CacheOK
  <1>2. CASE Cached(k) = {}
    BY <1>1, <1>2 DEF Without, Cached, CacheOK
  <1>3. CASE Cached(k) # {}
    <2>1. PICK i \in 1 .. Len(cache) : cache[i].key = k /\ Without(k) = RemoveAt(cache, i)
      <3>1. (CHOOSE i \in Cached(k) : TRUE) \in Cached(k)
        BY <1>3
      <3> QED BY <1>1, <1>3, <3>1 DEF Without, Cached
    <2> DEFINE w == Without(k)
    <2>2. /\ w \in Seq(Quote) /\ Len(w) = Len(cache) - 1
          /\ \A j \in 1 .. Len(cache) - 1 : w[j] = IF j < i THEN cache[j] ELSE cache[j + 1]
      BY <1>1, <2>1, RemoveAtProperties
    <2> HIDE DEF w
    <2>3. \A j \in 1 .. Len(w) : \E m \in 1 .. Len(cache) :
              /\ m # i /\ w[j] = cache[m]
              /\ m = IF j < i THEN j ELSE j + 1
      BY <1>1, <2>2
    <2>4. \A j \in 1 .. Len(w) : w[j].key # k /\ w[j].from <= seconds
      BY <2>1, <2>3 DEF CacheOK, OnePerKey, Past
    <2>5. OnePerKey(w)
      <3> SUFFICES ASSUME NEW a \in 1 .. Len(w), NEW b \in 1 .. Len(w), w[a].key = w[b].key
                   PROVE  a = b
        BY DEF OnePerKey
      <3>1. PICK m \in 1 .. Len(cache) : w[a] = cache[m] /\ m = IF a < i THEN a ELSE a + 1
        BY <2>3
      <3>2. PICK n \in 1 .. Len(cache) : w[b] = cache[n] /\ n = IF b < i THEN b ELSE b + 1
        BY <2>3
      <3>3. m = n
        BY <3>1, <3>2 DEF CacheOK, OnePerKey
      <3> QED BY <1>1, <2>1, <2>2, <3>1, <3>2, <3>3
    <2> QED BY <1>1, <2>2, <2>4, <2>5 DEF w, Past
  <1> QED BY <1>2, <1>3

\* Whatever is stored, the cache keeps its limit and its keys apart.
LEMMA StoredKeepsCache ==
    ASSUME CacheOK, seconds \in Nat, NEW q \in Quote, q.from <= seconds, cache' = Stored(q),
           UNCHANGED seconds
    PROVE  CacheOK'
  <1> DEFINE w == Without(q.key)
             t == IF Len(w) >= QuoteCacheLimit THEN Tail(w) ELSE w
  <1>1. /\ w \in Seq(Quote) /\ Len(w) \in Nat /\ Len(w) <= QuoteCacheLimit
        /\ OnePerKey(w) /\ Past(w) /\ \A i \in 1 .. Len(w) : w[i].key # q.key
    BY QuoteAssumption, WithoutKey DEF CacheOK
  <1> HIDE DEF w
  <1>2. /\ t \in Seq(Quote) /\ Len(t) \in Nat /\ Len(t) < QuoteCacheLimit
        /\ OnePerKey(t) /\ Past(t) /\ \A i \in 1 .. Len(t) : t[i].key # q.key
    <2>1. CASE Len(w) >= QuoteCacheLimit
      <3>1. w # <<>> /\ t = Tail(w)
        BY <1>1, <2>1, QuoteAssumption
      <3>2. /\ t \in Seq(Quote) /\ Len(t) = Len(w) - 1
            /\ \A i \in 1 .. Len(t) : t[i] = w[i + 1]
        BY <1>1, <3>1, HeadTailProperties
      <3> HIDE DEF t
      <3>3. \A i \in 1 .. Len(t) : i \in Nat /\ i + 1 \in 1 .. Len(w)
        BY <1>1, <3>2
      <3>4. OnePerKey(t)
        BY <1>1, <3>2, <3>3 DEF OnePerKey
      <3>5. Past(t) /\ \A i \in 1 .. Len(t) : t[i].key # q.key
        BY <1>1, <3>2, <3>3 DEF Past
      <3>6. Len(t) \in Nat /\ Len(t) < QuoteCacheLimit
        BY <1>1, <2>1, <3>2, QuoteAssumption
      <3> QED BY <3>2, <3>4, <3>5, <3>6
    <2>2. CASE Len(w) < QuoteCacheLimit
      BY <1>1, <2>2, QuoteAssumption
    <2> QED BY <1>1, <2>1, <2>2, QuoteAssumption
  <1>3. cache' = Append(t, q)
    BY DEF Stored, w
  <1> HIDE DEF t
  <1>4. /\ cache' \in Seq(Quote) /\ Len(cache') = Len(t) + 1
        /\ \A i \in 1 .. Len(t) : cache'[i] = t[i]
        /\ cache'[Len(t) + 1] = q
    BY <1>2, <1>3, AppendProperties
  <1>5. OnePerKey(cache')
    BY <1>2, <1>4 DEF OnePerKey
  <1>6. Past(cache)'
    BY <1>2, <1>4 DEF Past
  <1> QED BY <1>2, <1>4, <1>5, <1>6, QuoteAssumption DEF CacheOK, OnePerKey

\* A challenge holds one quote more, valid when it was asked for.
LEMMA QuotedKeepsAsker ==
    ASSUME NEW a \in Asker, NEW x \in AnyAsker, asker[a].pc \in {"next", "signing"},
           asker[a] \in AnyAsker, AskerOK(asker[a]), seconds \in Nat, NEW q \in Quote,
           NEW asked \in Seq(Nat),
           Len(asked) = Len(asker[a].quotes) + 1,
           \A i \in 1 .. Len(asker[a].quotes) : asked[i] = asker[a].asked[i],
           \A i \in 1 .. Len(asked) : asked[i] <= seconds,
           q.key = KeyOf(a),
           q.from <= asked[Len(asked)], q.until >= asked[Len(asked)] + MaxTimeout,
           x = [Quoted(a, q) EXCEPT !.asked = asked]
    PROVE  AskerOK(x)
  <1> DEFINE y == asker[a]
             quotes == Append(y.quotes, q)
  <1>1. y.quotes \in Seq(Quote) /\ Len(y.quotes) \in Nat
    BY DEF AnyAsker
  <1>2. /\ quotes \in Seq(Quote) /\ Len(quotes) = Len(y.quotes) + 1
        /\ \A i \in 1 .. Len(y.quotes) : quotes[i] = y.quotes[i]
        /\ quotes[Len(y.quotes) + 1] = q
    BY <1>1, AppendProperties
  <1>3. /\ x.quotes = quotes /\ x.asked = asked /\ x.body = y.body /\ x.pc \in {"sent", "next"}
    BY DEF Quoted, AnyAsker
  <1>4. q.key = <<Len(y.quotes) + 1, y.body>>
    BY DEF KeyOf
  <1> HIDE DEF quotes, y
  <1>5. \A i \in 1 .. Len(quotes) : i \in 1 .. Len(y.quotes) \/ i = Len(y.quotes) + 1
    BY <1>1, <1>2
  <1>6. ASSUME NEW i \in 1 .. Len(quotes)
        PROVE  /\ quotes[i].key = <<i, y.body>>
               /\ quotes[i].from <= asked[i]
               /\ quotes[i].until >= asked[i] + MaxTimeout
    BY <1>2, <1>4, <1>5 DEF AskerOK, y
  <1> QED BY <1>2, <1>3, <1>6 DEF AskerOK, y

\* A challenge that begins has asked for nothing.
LEMMA NewAsker ==
    ASSUME NEW pc, NEW body, NEW x, x = [Idle EXCEPT !.pc = pc, !.body = body]
    PROVE  x = [pc |-> pc, body |-> body, quotes |-> <<>>, signing |-> NoQuote, asked |-> <<>>]
  BY DEF Idle

\* A challenge with one more quote is still one.
LEMMA QuotedIsAsker ==
    ASSUME NEW a \in Asker, asker[a] \in AnyAsker, NEW q \in Quote, NEW asked \in Seq(Nat)
    PROVE  /\ [Quoted(a, q) EXCEPT !.asked = asked] \in AnyAsker
           /\ [Quoted(a, q) EXCEPT !.asked = asker[a].asked] = Quoted(a, q)
  <1> DEFINE y == asker[a]
             quotes == Append(y.quotes, q)
             pc == IF Len(quotes) = EvmOffers THEN "sent" ELSE "next"
  <1>1. y = [pc |-> y.pc, body |-> y.body, quotes |-> y.quotes, signing |-> y.signing,
             asked |-> y.asked]
        /\ y.body \in Body \cup {NoBody} /\ y.quotes \in Seq(Quote) /\ y.asked \in Seq(Nat)
    BY DEF AnyAsker
  <1>2. quotes \in Seq(Quote)
    BY <1>1, AppendProperties
  <1>3. Quoted(a, q) = [pc |-> pc, body |-> y.body, quotes |-> quotes, signing |-> NoQuote,
                        asked |-> y.asked]
    <2>1. Quoted(a, q) = [y EXCEPT !.quotes = quotes, !.signing = NoQuote, !.pc = pc]
      BY DEF Quoted
    <2> HIDE DEF pc, quotes, y
    <2> QED BY <1>1, <2>1
  <1>4. pc \in {"idle", "next", "signing", "sent"}
    OBVIOUS
  <1> HIDE DEF pc, quotes, y
  <1>5. /\ [Quoted(a, q) EXCEPT !.asked = asked]
             = [pc |-> pc, body |-> y.body, quotes |-> quotes, signing |-> NoQuote, asked |-> asked]
        /\ [Quoted(a, q) EXCEPT !.asked = y.asked] = Quoted(a, q)
    BY <1>3
  <1> QED BY <1>1, <1>2, <1>4, <1>5 DEF AnyAsker, y

\* Every step keeps the invariant of the quotes.
LEMMA QuoteSteps == QuoteInv /\ [QuoteNext]_quoteVars => QuoteInv'
  <1> SUFFICES ASSUME QuoteInv, [QuoteNext]_quoteVars PROVE QuoteInv'
    OBVIOUS
  <1> USE DEF QuoteInv
  <1>a. ASSUME NEW a \in Asker, NEW x \in AnyAsker, AskerOK(x), asker' = [asker EXCEPT ![a] = x],
               UNCHANGED seconds, CacheOK'
        PROVE  QuoteInv'
    BY <1>a DEF AskerOK
  <1>b. UNCHANGED <<seconds, cache>> => CacheOK'
    BY DEF CacheOK, Past
  <1>1. ASSUME NEW a \in Asker, NEW body \in Body \cup {NoBody}, ExtensionsFor(a, body)
        PROVE  QuoteInv'
    <2> DEFINE pc == IF EvmOffers = 0 \/ body = NoBody THEN "sent" ELSE "next"
               x == [pc |-> pc, body |-> body, quotes |-> <<>>, signing |-> NoQuote, asked |-> <<>>]
    <2>1. x \in AnyAsker
      BY DEF AnyAsker
    <2>2. asker' = [asker EXCEPT ![a] = x] /\ UNCHANGED <<seconds, cache>>
      <3>1. x = [Idle EXCEPT !.pc = pc, !.body = body]
        BY NewAsker
      <3> HIDE DEF x
      <3> QED BY <1>1, <3>1 DEF ExtensionsFor
    <2>3. x.pc # "signing" /\ x.asked = <<>> /\ x.quotes = <<>>
      OBVIOUS
    <2> HIDE DEF x
    <2>4. AskerOK(x)
      BY <2>3 DEF AskerOK
    <2> QED BY <1>a, <1>b, <2>1, <2>2, <2>4
  <1>2. ASSUME NEW a \in Asker, QuoteFor(a) PROVE QuoteInv'
    <2> DEFINE y == asker[a]
               asked == Append(y.asked, seconds)
               reusable == {i \in Cached(KeyOf(a)) : Reusable(cache[i])}
    <2>0. /\ y \in AnyAsker /\ AskerOK(y) /\ y.pc = "next" /\ UNCHANGED <<seconds, cache>>
          /\ KeyOf(a) \in Nat \X (Body \cup {NoBody})
      BY <1>2 DEF QuoteFor, AnyAsker, KeyOf
    <2>1. /\ asked \in Seq(Nat) /\ Len(asked) = Len(y.quotes) + 1 /\ Len(y.asked) = Len(y.quotes)
          /\ \A i \in 1 .. Len(y.quotes) : asked[i] = y.asked[i]
          /\ asked[Len(y.quotes) + 1] = seconds /\ Len(y.quotes) \in Nat
      <3>1. y.asked \in Seq(Nat) /\ y.quotes \in Seq(Quote) /\ Len(y.asked) = Len(y.quotes)
        BY <2>0 DEF AnyAsker, AskerOK
      <3> HIDE DEF y
      <3> QED BY <3>1, AppendProperties
    <2>2. \A i \in 1 .. Len(asked) : asked[i] <= seconds
      <3>1. \A i \in 1 .. Len(asked) : i \in 1 .. Len(y.quotes) \/ i = Len(y.quotes) + 1
        BY <2>1
      <3> QED BY <2>0, <2>1, <3>1 DEF AskerOK
    <2>3. ASSUME NEW i \in reusable,
                 asker' = [asker EXCEPT ![a] = [Quoted(a, cache[i]) EXCEPT !.asked = asked]]
          PROVE  QuoteInv'
      <3> DEFINE x == [Quoted(a, cache[i]) EXCEPT !.asked = asked]
      <3>1. /\ cache[i] \in Quote /\ cache[i].key = KeyOf(a) /\ cache[i].from <= seconds
            /\ cache[i].until >= seconds + MaxTimeout
        BY DEF Cached, Reusable, CacheOK, Past
      <3>2. x \in AnyAsker
        BY <2>0, <2>1, <3>1, QuotedIsAsker
      <3> HIDE DEF asked
      <3>3. AskerOK(x)
        BY <2>0, <2>1, <2>2, <3>1, <3>2, QuotedKeepsAsker
      <3> HIDE DEF x
      <3> QED BY <1>a, <1>b, <2>0, <2>3, <3>2, <3>3 DEF x
    <2>4. ASSUME asker' = [asker EXCEPT ![a] = [@ EXCEPT !.pc = "signing", !.asked = asked,
                              !.signing = [key |-> KeyOf(a), from |-> seconds,
                                           until |-> seconds + 2 * MaxTimeout]]]
          PROVE  QuoteInv'
      <3> DEFINE q == [key |-> KeyOf(a), from |-> seconds, until |-> seconds + 2 * MaxTimeout]
                 x == [y EXCEPT !.pc = "signing", !.asked = asked, !.signing = q]
      <3>1. q \in Quote /\ q.key = <<Len(y.quotes) + 1, y.body>>
        BY <2>0, QuoteAssumption DEF Quote, KeyOf
      <3>2. x \in AnyAsker
        BY <2>0, <2>1, <3>1 DEF AnyAsker
      <3>3. /\ x.pc = "signing" /\ x.quotes = y.quotes /\ x.asked = asked /\ x.signing = q
            /\ x.body = y.body
        BY <2>0 DEF AnyAsker
      <3>4. asker' = [asker EXCEPT ![a] = x]
        BY <2>4
      <3>5. q.from = seconds /\ q.until = q.from + 2 * MaxTimeout
        OBVIOUS
      <3>6. \A i \in 1 .. Len(y.quotes) :
              /\ y.quotes[i].key = <<i, y.body>>
              /\ y.quotes[i].from <= y.asked[i]
              /\ y.quotes[i].until >= y.asked[i] + MaxTimeout
        BY <2>0 DEF AskerOK
      <3> HIDE DEF x, q, y, asked
      <3>7. AskerOK(x)
        BY <2>1, <2>2, <3>1, <3>3, <3>5, <3>6 DEF AskerOK
      <3> QED BY <1>a, <1>b, <2>0, <3>2, <3>4, <3>7
    <2> QED BY <1>2, <2>3, <2>4 DEF QuoteFor
  <1>3. ASSUME NEW a \in Asker, Signed(a) PROVE QuoteInv'
    <2> DEFINE y == asker[a]
               q == y.signing
               x == Quoted(a, q)
    <2>1. /\ y \in AnyAsker /\ AskerOK(y) /\ y.pc = "signing" /\ UNCHANGED seconds
          /\ cache' = Stored(q) /\ asker' = [asker EXCEPT ![a] = x]
      BY <1>3 DEF Signed
    <2>2. /\ y.asked \in Seq(Nat) /\ y.quotes \in Seq(Quote) /\ Len(y.quotes) \in Nat
          /\ Len(y.asked) = Len(y.quotes) + 1
      BY <2>1 DEF AnyAsker, AskerOK
    <2>3. /\ q \in Quote /\ q.key = KeyOf(a) /\ q.from = y.asked[Len(y.asked)]
          /\ q.until = q.from + 2 * MaxTimeout
      BY <2>1, <2>2 DEF AskerOK, KeyOf
    <2>4. q.from <= seconds /\ q.from \in Nat /\ q.until >= y.asked[Len(y.asked)] + MaxTimeout
          /\ q.from <= y.asked[Len(y.asked)]
      <3>1. Len(y.asked) \in 1 .. Len(y.asked)
        BY <2>2
      <3>2. y.asked[Len(y.asked)] \in Nat /\ y.asked[Len(y.asked)] <= seconds
        BY <2>1, <2>2, <3>1 DEF AskerOK
      <3> HIDE DEF q, y
      <3> QED BY <2>3, <3>2, QuoteAssumption
    <2>5. CacheOK'
      BY <2>1, <2>3, <2>4, StoredKeepsCache
    <2>6. x \in AnyAsker /\ x = [x EXCEPT !.asked = y.asked]
      BY <2>1, <2>2, <2>3, QuotedIsAsker
    <2>7. AskerOK(x)
      <3>1. \A i \in 1 .. Len(y.asked) : y.asked[i] <= seconds
        BY <2>1 DEF AskerOK
      <3> QED BY <2>1, <2>2, <2>3, <2>4, <2>6, <3>1, QuotedKeepsAsker
    <2> HIDE DEF x
    <2> QED BY <1>a, <2>1, <2>5, <2>6, <2>7
  <1>4. ASSUME NEW a \in Asker, Renew(a) PROVE QuoteInv'
    <2>1. Idle \in AnyAsker /\ AskerOK(Idle)
      BY DEF Idle, AnyAsker, AskerOK
    <2> QED BY <1>a, <1>b, <1>4, <2>1 DEF Renew
  <1>5. CASE QuoteTick \/ UNCHANGED quoteVars
    <2>1. UNCHANGED <<cache, asker>> /\ seconds' \in Nat /\ seconds <= seconds'
      BY <1>5 DEF QuoteTick, quoteVars
    <2>2. CacheOK'
      <3>1. \A i \in 1 .. Len(cache) : cache[i] \in Quote
        BY DEF CacheOK
      <3>2. \A i \in 1 .. Len(cache) : cache[i].from \in Nat
        BY <3>1 DEF Quote
      <3> QED BY <2>1, <3>2 DEF CacheOK, Past
    <2>3. ASSUME NEW a \in Asker PROVE AskerOK(asker[a])'
      <3>1. \A i \in 1 .. Len(asker[a].asked) : asker[a].asked[i] \in Nat
        BY DEF AnyAsker
      <3> QED BY <2>1, <3>1 DEF AskerOK
    <2> QED BY <2>1, <2>2, <2>3
  <1> QED BY <1>1, <1>2, <1>3, <1>4, <1>5 DEF QuoteNext

(***************************************************************************)
(* quoteFor, for any number of overlapping challenges and any limit of the *)
(* cache: each quote is of its own offer and request and leaves a full     *)
(* payment window from when it was asked for.                              *)
(***************************************************************************)
THEOREM QuoteTheorem == QuoteSpec => []QuotesCoverThePayment
  BY QuoteStarts, QuoteSteps, QuoteInvImplies, PTL DEF QuoteSpec

-----------------------------------------------------------------------------
(* Requests to backends.                                                   *)

\* What the pipeline holds of a caller's input: no reserved name, and for a
\* resource with bindings objects of the declared names only.
InputOK(r, input, P, Q) ==
    /\ Reserved \notin DOMAIN input.fields
    /\ Bound(r) => /\ DOMAIN input.fields \subseteq Group
                   /\ \A g \in DOMAIN input.fields : DOMAIN input.fields[g].fields \subseteq P \cup Q

ResourceOK(P) ==
    resource.state = "loaded" => NormalizeResource(resource.r) /\ resource.r.params \in {{}, P}

\* A request that was admitted keeps what it was admitted with.
VisitOK(P, Q) ==
    /\ visit.pc # "idle" => resource.state = "loaded"
    /\ visit.pc \notin {"idle", "refused"} =>
          /\ visit = [pc |-> visit.pc, input |-> visit.input, forwarded |-> visit.forwarded,
                      key |-> visit.key]
          /\ InputOK(resource.r, visit.input, P, Q)
          /\ ValidateBackendRequestShape(resource.r, visit.input, visit.forwarded)
    /\ visit.pc = "unpaid" => resource.r.sale.price = "fixed"
    /\ sent # NoRequest => visit.pc \notin {"idle", "refused", "unpaid", "call"}

BackendInv(P, Q) == ResourceOK(P) /\ VisitOK(P, Q) /\ PaidRequestIsSendable

\* Nothing is loaded or sent at first.
LEMMA BackendStarts ==
    ASSUME NEW P, NEW Q
    PROVE  BackendInit => BackendInv(P, Q)
  BY DEF BackendInit, BackendInv, ResourceOK, VisitOK, PaidRequestIsSendable

\* Path parameters are the given ones or none.
LEMMA ParametersOf ==
    ASSUME NEW P, NEW Q, NEW r \in Legacy(P, Q) \cup Bindings(P, Q) \cup Unusual(P) \cup Priced
    PROVE  r.params \in {{}, P}
  <1>1. CASE r \in Legacy(P, Q)
    BY <1>1 DEF Legacy, Extend, Shapes
  <1>2. CASE r \in Bindings(P, Q)
    BY <1>2 DEF Bindings, Extend, Shapes
  <1>3. CASE r \in Unusual(P)
    BY <1>3 DEF Unusual, Extend
  <1>4. CASE r \in Priced
    <2>1. PICK s \in Shapes({}, {}) : \E d : r = [Extend(s, Plain({}), NoBindings, NoGroups) EXCEPT !.sale = d]
      BY <1>4 DEF Priced
    <2>2. r.params = s.params
      BY <2>1 DEF Extend
    <2>3. s.params = {}
      BY DEF Shapes
    <2> QED BY <2>2, <2>3
  <1> QED BY <1>1, <1>2, <1>3, <1>4

\* The unusual resources have no input bindings.
LEMMA UnusualIsUnbound ==
    ASSUME NEW P, NEW r \in Unusual(P)
    PROVE  ~Bound(r)
  BY DEF Unusual, Extend, Bound, NoBindings, Location

\* Objects of names in a set hold no other names.
LEMMA ObjectNames ==
    ASSUME NEW S, NEW V, NEW x \in Objects(S, V)
    PROVE  DOMAIN x.fields \subseteq S /\ x.kind = "object"
  BY DEF Objects

\* Stripping removes the reserved field and no other.
LEMMA StrippedInput ==
    ASSUME NEW P, NEW Q, NEW i \in Inputs(P, Q) \cup Objects(P, {"text"}),
           Bound(resource.r) => i \in Inputs(P, Q)
    PROVE  InputOK(resource.r, AsRecord(StripReservedFields(i)), P, Q)
  <1> DEFINE v == StripReservedFields(i)
  <1>1. CASE ~Bound(resource.r)
    <2>1. i = [kind |-> i.kind, fields |-> i.fields]
      BY <1>1 DEF Inputs, Objects, Other
    <2>2. Reserved \notin DOMAIN v.fields
      BY <2>1 DEF StripReservedFields, Restrict
    <2> QED BY <1>1, <2>2 DEF InputOK, AsRecord, Nothing
  <1>2. CASE Bound(resource.r)
    <2>1. PICK D \in SUBSET Group, x \in Objects(P, Scalar) \cup Objects(Q, {"text"}) \cup {Other},
               y \in Objects(Q, {"text"}) \cup {Other}, z \in [kind : {"object"}, fields : [Q -> {"text"}]] :
               i = Grouped(D, x, y, z)
      BY <1>2 DEF Inputs
    <2> DEFINE w == [p |-> x, q |-> y, b |-> z]
    <2>2. /\ DOMAIN x.fields \subseteq P \cup Q /\ DOMAIN y.fields \subseteq P \cup Q
          /\ DOMAIN z.fields \subseteq P \cup Q
      BY ObjectNames DEF Other
    <2>3. \A g \in Group : w[g] \in {x, y, z}
      BY DEF Group
    <2> HIDE DEF w
    <2>4. i.fields = [g \in D |-> w[g]] /\ i.kind = "object"
      BY <2>1 DEF Grouped, Restrict, w
    <2>5. v = [kind |-> "object", fields |-> [g \in D \ {Reserved} |-> w[g]]]
      BY <2>1, <2>4 DEF Grouped, StripReservedFields, Restrict
    <2>6. AsRecord(v) = v
      BY <2>5 DEF AsRecord
    <2> QED BY <2>2, <2>3, <2>5, <2>6 DEF InputOK
  <1> QED BY <1>1, <1>2

\* Config load admits what normalizeResource admits.
LEMMA LoadKeepsBackend ==
    ASSUME NEW P, NEW Q, BackendInv(P, Q),
           NEW r \in Legacy(P, Q) \cup Bindings(P, Q) \cup Unusual(P) \cup Priced, Load(r)
    PROVE  BackendInv(P, Q)'
  <1>1. resource.state = "none" /\ UNCHANGED <<visit, sent>> /\ visit.pc = "idle" /\ sent = NoRequest
    BY DEF Load, BackendInv, VisitOK
  <1>2. ResourceOK(P)'
    BY ParametersOf DEF Load, ResourceOK
  <1> QED BY <1>1, <1>2 DEF BackendInv, VisitOK, PaidRequestIsSendable

\* Arrival: the input is validated, stripped and shaped, or refused.
LEMMA ArriveKeepsBackend ==
    ASSUME NEW P, NEW Q, BackendInv(P, Q), NEW i, NEW f, NEW k, Arrive(i, f, k),
           InputOK(resource.r, AsRecord(StripReservedFields(i)), P, Q)
    PROVE  BackendInv(P, Q)'
  <1> DEFINE r == resource.r
             valid == StripReservedFields(i)
             pc == IF r.sale.price = "fixed" THEN "unpaid" ELSE "call"
             v == [pc |-> pc, input |-> AsRecord(valid), forwarded |-> f, key |-> k]
  <1>1. /\ resource.state = "loaded" /\ visit.pc = "idle" /\ UNCHANGED <<resource, sent>>
        /\ sent = NoRequest
    BY DEF Arrive, BackendInv, VisitOK
  <1>2. \/ visit' = v /\ ValidateBackendRequestShape(r, AsRecord(valid), f)
        \/ visit' = [pc |-> "refused"]
    BY DEF Arrive
  <1>3. ResourceOK(P)'
    BY <1>1 DEF BackendInv, ResourceOK
  <1>4. CASE visit' = [pc |-> "refused"]
    BY <1>1, <1>3, <1>4 DEF BackendInv, VisitOK, PaidRequestIsSendable
  <1>5. CASE visit' = v /\ ValidateBackendRequestShape(r, AsRecord(valid), f)
    <2>1. /\ visit'.pc = pc /\ visit'.input = AsRecord(valid) /\ visit'.forwarded = f /\ visit'.key = k
          /\ visit' = [pc |-> visit'.pc, input |-> visit'.input, forwarded |-> visit'.forwarded,
                       key |-> visit'.key]
      BY <1>5
    <2>2. visit'.pc \in {"unpaid", "call"} /\ (visit'.pc = "unpaid" => r.sale.price = "fixed")
      BY <2>1
    <2>3. InputOK(r, AsRecord(valid), P, Q)
      OBVIOUS
    <2> HIDE DEF pc, v, valid
    <2>4. VisitOK(P, Q)'
      BY <1>1, <1>5, <2>1, <2>2, <2>3
         DEF VisitOK, InputOK, ValidateBackendRequestShape, Buildable, HeadersLegal,
             CheckQueryCollision, QueryNames, ApplyPathTemplate, PathValues, BoundGroup, Bound
    <2>5. visit'.pc = "unpaid" =>
             /\ r.sale.methods \cap Rails # {}
             /\ \A rail \in r.sale.methods \cap Rails : Charges(rail, r.sale)
      BY <1>1, <2>2 DEF BackendInv, ResourceOK, NormalizeResource, NormalizeSale, ValidatePricing
    <2> QED BY <1>1, <1>3, <2>2, <2>4, <2>5 DEF BackendInv, PaidRequestIsSendable
  <1> QED BY <1>2, <1>4, <1>5

\* An admitted request is moved on and nothing else of it changes.
LEMMA MoveKeepsVisit ==
    ASSUME NEW P, NEW Q, BackendInv(P, Q), NEW pc, visit.pc \notin {"idle", "refused"},
           visit' = [visit EXCEPT !.pc = pc], UNCHANGED resource,
           pc \notin {"idle", "refused", "unpaid"}
    PROVE  /\ ResourceOK(P)'
           /\ visit'.pc = pc /\ visit'.input = visit.input
           /\ (sent' # NoRequest => pc # "call") => VisitOK(P, Q)'
  <1>1. visit = [pc |-> visit.pc, input |-> visit.input, forwarded |-> visit.forwarded,
                 key |-> visit.key]
    BY DEF BackendInv, VisitOK
  <1>2. visit' = [pc |-> pc, input |-> visit.input, forwarded |-> visit.forwarded, key |-> visit.key]
    BY <1>1
  <1>3. /\ visit'.pc = pc /\ visit'.input = visit.input /\ visit'.forwarded = visit.forwarded
        /\ visit'.key = visit.key
        /\ visit' = [pc |-> visit'.pc, input |-> visit'.input, forwarded |-> visit'.forwarded,
                     key |-> visit'.key]
    BY <1>2
  <1>4. ResourceOK(P)'
    BY DEF BackendInv, ResourceOK
  <1>5. /\ InputOK(resource.r, visit.input, P, Q)' <=> InputOK(resource.r, visit.input, P, Q)
        /\ ValidateBackendRequestShape(resource.r, visit.input, visit.forwarded)'
              <=> ValidateBackendRequestShape(resource.r, visit.input, visit.forwarded)
    BY <1>3 DEF InputOK, ValidateBackendRequestShape, Buildable, HeadersLegal,
             CheckQueryCollision, QueryNames, ApplyPathTemplate, PathValues, BoundGroup, Bound
  <1>6. (sent' # NoRequest => pc # "call") => VisitOK(P, Q)'
    BY <1>3, <1>5 DEF BackendInv, VisitOK
  <1> QED BY <1>3, <1>4, <1>6

\* The names a request carries.
LEMMA NamesSent ==
    ASSUME NEW P, NEW Q, Reserved \notin P \cup Q, NEW r, NEW input,
           InputOK(r, input, P, Q), r.params \in {{}, P}, NormalizeResource(r), Buildable(r, input)
    PROVE  /\ Reserved \notin r.params \cup QueryNames(r, input) \cup BodyNames(r, input)
           /\ ~Bound(r) =>
                 /\ r.params \cup QueryNames(r, input) \cup BodyNames(r, input) = DOMAIN input.fields
                 /\ r.params \cap QueryNames(r, input) = {} /\ r.params \cap BodyNames(r, input) = {}
                 /\ QueryNames(r, input) \cap BodyNames(r, input) = {}
           /\ BodyNames(r, input) # {} => HasBody(r, input)
  <1>1. DOMAIN Nothing.fields = {}
    BY DEF Nothing
  <1>2. CASE Bound(r)
    <2>1. \A l \in {"query", "body"} : DOMAIN BoundGroup(r, input, l).fields \subseteq P \cup Q
      BY <1>1, <1>2 DEF InputOK, BoundGroup
    <2>2. BodyNames(r, input) # {} => r.bindings["body"] \in DOMAIN input.fields
      BY <1>1, <1>2 DEF BodyNames, BoundGroup
    <2>3. r.bindings["body"] \in DOMAIN input.fields => r.method # "GET"
      <3>1. r.bindings["body"] \in DOMAIN input.fields => r.bindings["body"] # Unbound
        BY <1>2, UnboundAssumption DEF InputOK, Group
      <3> QED BY <1>2, <3>1 DEF NormalizeResource, ValidateInputBindings, Location
    <2> QED BY <1>2, <2>1, <2>2, <2>3 DEF QueryNames, BodyNames, HasBody
  <1>3. CASE ~Bound(r)
    <2>1. r.params \subseteq DOMAIN input.fields
      BY <1>3 DEF Buildable, ApplyPathTemplate, PathValues
    <2> QED BY <1>3, <2>1 DEF QueryNames, BodyNames, HasBody, InputOK
  <1> QED BY <1>2, <1>3

\* The headers a request carries: the operator's stay, save for the key.
LEMMA HeadersSent ==
    ASSUME NEW r, NEW body \in BOOLEAN
    PROVE  /\ \A h \in r.headers \ {"idempotency-key"} : CallHeaders(r, body)[h] = "operator"
           /\ \A h \in DOMAIN CallHeaders(r, body) \cap NeverForwarded :
                 CallHeaders(r, body)[h] # "caller"
  <1> DEFINE own == (IF visit.key THEN {"idempotency-key"} ELSE {})
                    \cup (IF body /\ "content-type" \notin r.headers THEN {"content-type"} ELSE {})
             headers == BuildHeaders(r, visit.forwarded)
  <1>1. /\ DOMAIN headers = r.headers \cup (visit.forwarded \ NeverForwarded)
        /\ \A h \in DOMAIN headers : headers[h] = IF h \in r.headers THEN "operator" ELSE "caller"
    BY DEF BuildHeaders
  <1>2. \A h \in r.headers : h \in own => h = "idempotency-key"
    OBVIOUS
  <1>3. CallHeaders(r, body) = [h \in DOMAIN headers \cup own |->
                                   IF h \in own THEN "gateway" ELSE headers[h]]
    BY DEF CallHeaders
  <1> HIDE DEF own, headers
  <1>4. /\ DOMAIN CallHeaders(r, body) = DOMAIN headers \cup own
        /\ \A h \in DOMAIN headers \cup own :
              CallHeaders(r, body)[h] = IF h \in own THEN "gateway" ELSE headers[h]
    BY <1>3
  <1> QED BY <1>1, <1>2, <1>4

\* Payment, call and fetch: what was admitted is built again.
LEMMA CallKeepsBackend ==
    ASSUME NEW P, NEW Q, Reserved \notin P \cup Q, BackendInv(P, Q), Call
    PROVE  BackendInv(P, Q)'
  <1> DEFINE r == resource.r
             input == visit.input
             query == QueryNames(r, input)
             headers == CallHeaders(r, HasBody(r, input))
  <1>1. /\ visit.pc = "call" /\ UNCHANGED resource /\ resource.state = "loaded"
        /\ InputOK(r, input, P, Q) /\ r.params \in {{}, P} /\ NormalizeResource(r)
        /\ Buildable(r, input) /\ HeadersLegal(r, visit.forwarded) /\ CheckQueryCollision(r, input)
        /\ sent = NoRequest
    BY DEF Call, BackendInv, VisitOK, ResourceOK, ValidateBackendRequestShape
  <1>2. CASE visit' = [visit EXCEPT !.pc = "unbuilt"] /\ UNCHANGED sent
             /\ ~CallBuilds(r, input, visit.forwarded)
    <2>1. r.url \in {"climbs", "userinfo"}
      BY <1>1, <1>2 DEF CallBuilds, NormalizeResource, ValidateBackendUrl
    <2>2. ResourceOK(P)' /\ VisitOK(P, Q)' /\ visit'.pc = "unbuilt"
      BY <1>1, <1>2, MoveKeepsVisit
    <2> QED BY <1>1, <1>2, <2>1, <2>2 DEF BackendInv, PaidRequestIsSendable
  <1>3. CASE /\ sent' = [path |-> r.params, body |-> BodyNames(r, input), hasBody |-> HasBody(r, input),
                         query |-> [n \in r.pinned \cup query |->
                                       IF n \in query THEN "caller" ELSE "operator"],
                         headers |-> headers]
             /\ visit' = [visit EXCEPT !.pc = "fetch"]
    <2>1. ResourceOK(P)' /\ VisitOK(P, Q)' /\ visit'.pc = "fetch" /\ visit'.input = input
      BY <1>1, <1>3, MoveKeepsVisit
    <2>2. /\ sent'.path = r.params /\ sent'.body = BodyNames(r, input)
          /\ sent'.hasBody = HasBody(r, input) /\ sent'.headers = headers
          /\ sent'.query = [n \in r.pinned \cup query |-> IF n \in query THEN "caller" ELSE "operator"]
      BY <1>3
    <2>3. query \cap r.pinned = {}
      BY <1>1 DEF CheckQueryCollision
    <2>4. /\ {n \in DOMAIN sent'.query : sent'.query[n] = "caller"} = query
          /\ \A n \in r.pinned : sent'.query[n] = "operator"
      <3> HIDE DEF query
      <3> QED BY <2>2, <2>3
    <2>5. HasBody(r, input) \in BOOLEAN
      BY DEF HasBody
    <2>6. /\ \A h \in r.headers \ {"idempotency-key"} : headers[h] = "operator"
          /\ \A h \in DOMAIN headers \cap NeverForwarded : headers[h] # "caller"
      BY <2>5, HeadersSent
    <2>7. /\ Reserved \notin r.params \cup query \cup BodyNames(r, input)
          /\ ~Bound(r) =>
                 /\ r.params \cup query \cup BodyNames(r, input) = DOMAIN input.fields
                 /\ r.params \cap query = {} /\ r.params \cap BodyNames(r, input) = {}
                 /\ query \cap BodyNames(r, input) = {}
          /\ BodyNames(r, input) # {} => HasBody(r, input)
      BY <1>1, NamesSent
    <2> HIDE DEF query, headers
    <2>8. PaidRequestIsSendable'
      BY <1>1, <2>1, <2>2, <2>4, <2>6, <2>7 DEF PaidRequestIsSendable, Bound
    <2> QED BY <2>1, <2>8 DEF BackendInv
  <1> QED BY <1>2, <1>3 DEF Call

\* Every step keeps the invariant of the backend request.
LEMMA BackendSteps ==
    ASSUME NEW P, NEW Q, Reserved \notin P \cup Q
    PROVE  BackendInv(P, Q) /\ [BackendNext(P, Q)]_backendVars => BackendInv(P, Q)'
  <1> SUFFICES ASSUME BackendInv(P, Q), [BackendNext(P, Q)]_backendVars PROVE BackendInv(P, Q)'
    OBVIOUS
  <1>1. CASE \E r \in Legacy(P, Q) \cup Bindings(P, Q) \cup Unusual(P) \cup Priced : Load(r)
    BY <1>1, LoadKeepsBackend
  <1>2. CASE \E i \in Inputs(P, Q) : Arrive(i, {}, FALSE)
    BY <1>2, StrippedInput, ArriveKeepsBackend
  <1>3. CASE /\ resource.r \in Unusual(P)
             /\ \E f \in Forwards, k \in BOOLEAN, i \in Objects(P, {"text"}) : Arrive(i, f, k)
    BY <1>3, UnusualIsUnbound, StrippedInput, ArriveKeepsBackend
  <1>4. CASE \E rail \in Rails : Pay(rail)
    <2>1. /\ visit.pc = "unpaid" /\ visit' = [visit EXCEPT !.pc = "call"] /\ UNCHANGED <<resource, sent>>
          /\ sent = NoRequest
      BY <1>4 DEF Pay, BackendInv, VisitOK
    <2>2. ResourceOK(P)' /\ VisitOK(P, Q)' /\ visit'.pc = "call"
      BY <2>1, MoveKeepsVisit
    <2> QED BY <2>1, <2>2 DEF BackendInv, PaidRequestIsSendable
  <1>5. CASE Call
    BY <1>5, CallKeepsBackend
  <1>6. CASE \E s \in {"ok", "timeout", "transport", "redirect", "non2xx", "oversized", "unreadable"} :
                 Fetched(s)
    <2>1. PICK pc \in {"delivered", "BACKEND_TIMEOUT", "BACKEND_ERROR"} :
             /\ visit.pc = "fetch" /\ visit' = [visit EXCEPT !.pc = pc] /\ UNCHANGED <<resource, sent>>
      BY <1>6 DEF Fetched
    <2>2. ResourceOK(P)' /\ VisitOK(P, Q)' /\ visit'.pc = pc /\ visit'.input = visit.input
      BY <2>1, MoveKeepsVisit
    <2> QED BY <2>1, <2>2 DEF BackendInv, PaidRequestIsSendable, Bound
  <1>7. CASE UNCHANGED backendVars
    BY <1>7 DEF backendVars, BackendInv, ResourceOK, VisitOK, PaidRequestIsSendable, InputOK,
        ValidateBackendRequestShape, Buildable, HeadersLegal, CheckQueryCollision, QueryNames,
        ApplyPathTemplate, PathValues, BoundGroup, Bound
  <1> QED BY <1>1, <1>2, <1>3, <1>4, <1>5, <1>6, <1>7 DEF BackendNext

(***************************************************************************)
(* buildBackendRequestParts and the call, for any names of parameters that *)
(* leave out the reserved one: what config load and the pipeline admitted  *)
(* can be charged and sent as admitted.                                    *)
(***************************************************************************)
THEOREM BackendTheorem ==
    ASSUME NEW P, NEW Q, Reserved \notin P \cup Q
    PROVE  BackendSpec(P, Q) => []PaidRequestIsSendable
  <1>1. BackendInit => BackendInv(P, Q)
    BY BackendStarts
  <1>2. BackendInv(P, Q) /\ [BackendNext(P, Q)]_backendVars => BackendInv(P, Q)'
    BY BackendSteps
  <1>3. BackendInv(P, Q) => PaidRequestIsSendable
    BY DEF BackendInv
  <1> QED BY <1>1, <1>2, <1>3, PTL DEF BackendSpec
=============================================================================
