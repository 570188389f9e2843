---------------------------- MODULE MCPayerChecks ----------------------------
(* Challenges and proofs, price quotes, mandates and backend requests for  *)
(* TLC.  They share no state, so a behaviour exercises one of them.        *)
EXTENDS X402Verify, QuoteCache, Ap2Mandate, BackendCall, TLC
CONSTANTS PathField, QueryField
VARIABLE part

Resources ==
    {<<"eip3009">>, <<"svm">>, <<"near">>, <<"mpp">>, <<"eip3009", "permit2">>, <<"near", "svm">>}

\* Two wallets' issuers, which share a key name, and a merchant.
TrustedKey(i, k, j) == [issuer |-> i, kid |-> k, jwk |-> j]
Wallets == {TrustedKey("A", "k1", "a1"), TrustedKey("A", "k2", "a2"), TrustedKey("B", "k2", "b2")}
Merchants == {TrustedKey("M", "k1", "m1")}
Strangers == {TrustedKey("X", "k1", "x1")}

ChecksInit ==
    /\ part \in {"checks", "quotes", "mandate", "backend"}
    /\ Init
    /\ QuoteInit
    /\ MandateInit
    /\ BackendInit
    /\ part # "checks" => offers = <<"near">>
    /\ part # "mandate" => policy = [audience |-> TRUE, expiry |-> TRUE] /\ purchase = Coordinate

ChecksNext ==
    /\ \/ part = "checks" /\ Next /\ UNCHANGED <<quoteVars, mandateVars, backendVars>>
       \/ part = "quotes" /\ QuoteNext /\ UNCHANGED <<vars, mandateVars, backendVars>>
       \/ part = "mandate" /\ MandateNext /\ UNCHANGED <<vars, quoteVars, backendVars>>
       \/ /\ part = "backend"
          /\ BackendNext({PathField}, {QueryField})
          /\ UNCHANGED <<vars, quoteVars, mandateVars>>
    /\ UNCHANGED part

ChecksSpec == ChecksInit /\ [][ChecksNext]_<<part, vars, quoteVars, mandateVars, backendVars>>

Symmetry ==
    UNION {Permutations(Request), Permutations(FeePayer), Permutations(Asker), Permutations(Body)}
=============================================================================
