------------------------------ MODULE Ap2Mandate ------------------------------
(***************************************************************************)
(* The verification of an AP2 checkout mandate (src/authorization/ap2): an *)
(* SD-JWT signed by a mandate issuer over a checkout document signed by    *)
(* the merchant, against one purchase.  The steps are the awaits of        *)
(* provider.verifyAndReserve before the hold is reserved, each of which    *)
(* reads the clock anew; the reservation is HoldStore's.                   *)
(*                                                                         *)
(* A presentation is a genuine one, altered in one respect.  A signature   *)
(* verifies under the key that made it; every refusal is one verdict, as   *)
(* the reasons of errors.ts are for the client's information only.         *)
(***************************************************************************)
EXTENDS Naturals, FiniteSets

CONSTANTS
    MandateTrust,   \* trust.mandateIssuers, as keys
    CheckoutTrust,  \* trust.checkoutIssuers, as keys
    OtherKeys,      \* keys of nobody in particular
    Absent,         \* a claim that is not there
    Malformed,      \* a time claim that is no number
    ClockSkew,      \* clockSkewSeconds
    MandateHorizon  \* bound on the clock

\* An issuer list names someone, and an issuer and a key name select one
\* public key.
NormalizeIssuers(trust) ==
    /\ trust # {}
    /\ \A k, l \in trust : k.issuer = l.issuer /\ k.kid = l.kid => k = l

ASSUME TrustAssumption == NormalizeIssuers(MandateTrust) /\ NormalizeIssuers(CheckoutTrust)
ASSUME MandateConstants == ClockSkew \in Nat /\ MandateHorizon \in Nat /\ Absent # "v"

Key == MandateTrust \cup CheckoutTrust \cup OtherKeys

VARIABLES
    policy,    \* requireMandateAudience, requireMandateExpiry
    purchase,  \* the coordinates the payment requirement names
    clock,     \* seconds
    call       \* the request: where it is, what it presents, and (history) when
               \* its mandate was last looked at

mandateVars == <<policy, purchase, clock, call>>

\* Claims of the checkout document: required ones, and those that count when
\* either side names them.
Claim == {"profile", "resource_id", "input_hash", "amount", "currency", "payment_method"}
Coordinate == {"destination", "network", "asset"}

\* What a presentation can be besides a closed mandate: a delegation chain,
\* undecodable, key bound, a single hop of a chain, with a disclosure nobody
\* signed, claims at the top level, none or several mandates, a holder key,
\* another type, constraints.
Form == {"closed", "chain", "garbled", "kbJwt", "hop", "appended", "flat", "many", "cnf",
         "open", "constrained"}

Time == (0 .. MandateHorizon) \cup {Absent, Malformed}
NoTimes == [exp |-> Absent, nbf |-> Absent, iat |-> Absent]

\* The merchant's document, as createCheckoutJwt signs it.
CheckoutJwt(key) ==
    [iss |-> key.issuer, kid |-> key.kid, signer |-> key.jwk, aud |-> "ours",
     exp |-> MandateHorizon, nbf |-> Absent, iat |-> 0, jti |-> "id",
     claims |-> [c \in Claim |-> "same"],
     coords |-> [c \in Coordinate |-> IF c \in purchase THEN "v" ELSE Absent]]

Genuine(key, merchant) ==
    [form |-> "closed", iss |-> key.issuer, kid |-> key.kid, signer |-> key.jwk, aud |-> "ours",
     token |-> [NoTimes EXCEPT !.exp = MandateHorizon, !.iat = 0], mandate |-> NoTimes,
     hash |-> TRUE, doc |-> CheckoutJwt(merchant)]

\* Another issuer, key name or signer than the genuine one.
SignedAs(d, iss, kid, signer) == [d EXCEPT !.iss = iss, !.kid = kid, !.signer = signer]
Resigned(d) ==
    {SignedAs(d, i, k, s) :
        i \in {x.issuer : x \in Key} \cup {Absent}, k \in {x.kid : x \in Key} \cup {Absent},
        s \in {x.jwk : x \in Key}}

Timed(d) == UNION {{[d EXCEPT ![c] = t] : t \in Time} : c \in {"exp", "nbf", "iat"}}

AlteredDoc(d) ==
    UNION {Resigned(d), Timed(d),
           {[d EXCEPT !.aud = a] : a \in {Absent, "other"}},
           {[d EXCEPT !.jti = Absent]},
           {[d EXCEPT !.claims[c] = v] : c \in Claim, v \in {"other", Absent}},
           {[d EXCEPT !.coords[c] = v] : c \in Coordinate, v \in {"v", "w", Absent}},
           {[d EXCEPT !.coords[c] = "V"] : c \in Coordinate \ {"network"}}}

Altered(p) ==
    UNION {Resigned(p),
           {[p EXCEPT !.form = f] : f \in Form},
           {[p EXCEPT !.aud = a] : a \in {Absent, "other"}},
           {[p EXCEPT !.token = t] : t \in Timed(p.token)},
           {[p EXCEPT !.token = NoTimes, !.mandate = t] : t \in Timed(NoTimes)},
           {[p EXCEPT !.hash = FALSE]},
           {[p EXCEPT !.doc = d] : d \in AlteredDoc(p.doc)}}

Presentations == UNION {Altered(Genuine(k, m)) : k \in MandateTrust, m \in CheckoutTrust}

MandateInit ==
    /\ policy \in [audience : BOOLEAN, expiry : BOOLEAN]
    /\ purchase \in {Coordinate, Coordinate \ {"asset"}}
    /\ clock = 0
    /\ call = [pc |-> "idle"]

(***************************************************************************)
(* Trust.                                                                  *)
(***************************************************************************)

\* The configured keys an issuer and a key name select.  Without an issuer
\* the key name selects one, and a name that two issuers share selects none.
Resolved(trust, d) ==
    LET matches == {k \in trust : k.kid = d.kid /\ (d.iss = Absent \/ k.issuer = d.iss)}
    IN  IF Cardinality(matches) = 1 THEN matches ELSE {}

\* jwtVerify: the key made the signature; an issuer and an audience that are
\* stated are the configured ones; the token is in its time.
InTime(d) ==
    /\ d.exp # Absent => d.exp # Malformed /\ d.exp + ClockSkew > clock
    /\ d.nbf # Absent => d.nbf # Malformed /\ d.nbf <= clock + ClockSkew

JwtVerify(d, key, times) ==
    /\ d.signer = key.jwk
    /\ d.iss \in {Absent, key.issuer}
    /\ d.aud \in {Absent, "ours"}
    /\ InTime(times)

(***************************************************************************)
(* The steps of verifyAndReserve.                                          *)
(***************************************************************************)

Goto(pc) == call' = [call EXCEPT !.pc = pc]
Keep == UNCHANGED <<policy, purchase, clock>>

\* A request presents a mandate.
Present(p) ==
    /\ call.pc = "idle"
    /\ call' = [pc |-> "mandate", pres |-> p, checked |-> clock]
    /\ Keep

\* verifyMandate up to the signature.  A configured key may fail to import,
\* which is the merchant's fault and no verdict on the mandate.
VerifySignature ==
    /\ call.pc = "mandate"
    /\ LET p == call.pres
           keys == Resolved(MandateTrust, p)
           sound == /\ p.form \notin {"chain", "garbled", "kbJwt", "hop"}
                    /\ p.aud = Absent => ~policy.audience
                    /\ \E k \in keys : JwtVerify(p, k, p.token)
       IN  \/ Goto(IF sound THEN "claims" ELSE "refused")
           \/ keys # {} /\ Goto("unavailable")
    /\ Keep

\* exp, nbf and iat of the token and of the mandate it discloses.
Fresh(sources) ==
    /\ \A c \in sources :
          InTime(c) /\ (c.iat # Absent => c.iat # Malformed /\ c.iat <= clock + ClockSkew)
    /\ policy.expiry => \E c \in sources : c.exp # Absent

\* The rest of verifyMandate: disclosures against the signed digests, the one
\* mandate they disclose, its type, its freshness.
VerifyClaims ==
    /\ call.pc = "claims"
    /\ LET p == call.pres
           fresh == p.form = "closed" /\ Fresh({p.token, p.mandate})
       IN  call' = [call EXCEPT !.pc = IF fresh THEN "checkout" ELSE "refused", !.checked = clock]
    /\ Keep

\* verifyCheckoutJwt: the document is the one the mandate's hash names, and a
\* merchant signed it for this audience; its issuer, expiry, issue time and
\* id are required.
VerifyCheckoutJwt ==
    /\ call.pc = "checkout"
    /\ LET d == call.pres.doc
           keys == Resolved(CheckoutTrust, d)
           sound == /\ call.pres.hash
                    /\ \E k \in keys : JwtVerify(d, k, d)
                    /\ d.iss # Absent /\ d.aud # Absent
                    /\ d.exp # Absent /\ d.jti # Absent /\ d.iat \notin {Absent, Malformed}
                    /\ d.iat <= clock + ClockSkew
       IN  \/ Goto(IF sound THEN "bind" ELSE "refused")
           \/ call.pres.hash /\ keys # {} /\ Goto("unavailable")
    /\ Keep

\* "V" spells the EVM address "v" in another case.
Fold(v) == IF v = "V" THEN "v" ELSE v
Required(c) == IF c \in purchase THEN "v" ELSE Absent

\* Mutant: a coordinate counts only when the mandate states it.
SameCoordinateIfDeclared(declared, c) == declared = Absent \/ Fold(declared) = Required(c)

\* A coordinate that either side names is the same on both.
SameCoordinate(declared, c) == Fold(declared) = Required(c)

\* bindMandateToPurchase, before anything is reserved.
BindMandateToPurchase ==
    /\ call.pc = "bind"
    /\ LET d == call.pres.doc
           same == /\ \A c \in Claim : d.claims[c] = "same"
                   /\ \A c \in Coordinate : SameCoordinate(d.coords[c], c)
       IN  Goto(IF same THEN "accepted" ELSE "refused")
    /\ Keep

Pass ==
    /\ clock < MandateHorizon + ClockSkew + 1
    /\ clock' = clock + 1
    /\ UNCHANGED <<policy, purchase, call>>

MandateNext ==
    \/ call.pc = "idle" /\ \E p \in Presentations : Present(p)
    \/ VerifySignature
    \/ VerifyClaims
    \/ VerifyCheckoutJwt
    \/ BindMandateToPurchase
    \/ Pass

MandateSpec == MandateInit /\ [][MandateNext]_mandateVars

\* A mandate that reaches the reservation was signed by a trusted mandate
\* issuer, under that issuer's name, over a document that a trusted merchant
\* key signed, and which names this purchase in every claim and every payment
\* coordinate.  Each step reads the clock anew, and yet there was one instant of
\* this request, that of requireFreshness, at which neither the mandate nor the
\* document had expired.  No key of one trust list stands in for the other
\* (verifier.ts:37-73, sd-jwt.ts:56-160, checkout-jwt.ts:26-85,
\* profile.ts:73-118).
MandateCoversThePurchase ==
    call.pc = "accepted" =>
        LET p == call.pres
            Live(c) == c.exp = Absent \/ c.exp + ClockSkew > call.checked
        IN  /\ p.form = "closed"
            /\ \E k \in MandateTrust : k.jwk = p.signer /\ p.iss \in {Absent, k.issuer}
            /\ \E k \in CheckoutTrust : k.jwk = p.doc.signer /\ p.doc.iss = k.issuer
            /\ p.hash
            /\ \A c \in Claim : p.doc.claims[c] = "same"
            /\ \A c \in Coordinate :
                  IF c \in purchase THEN p.doc.coords[c] \in {"v", "V"}
                  ELSE p.doc.coords[c] = Absent
            /\ p.doc.exp # Absent /\ Live(p.doc) /\ Live(p.token) /\ Live(p.mandate)
            /\ policy.expiry => p.token.exp # Absent \/ p.mandate.exp # Absent
=============================================================================
