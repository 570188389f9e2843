----------------------------- MODULE QuoteCache -----------------------------
(***************************************************************************)
(* Signed price quotes in challenges (src/payments/x402/provider/quote.ts).*)
(* A challenge carries one quote per EVM offer, taken from a bounded cache *)
(* while a full payment window is left, signed anew otherwise.  Signing is *)
(* an await: challenges for the same and for other requests overlap there. *)
(***************************************************************************)
EXTENDS Naturals, Sequences, SequencesExt

CONSTANTS
    Asker,            \* requests that build a challenge
    Body, NoBody,     \* canonical requests; one that cannot be canonicalized
    EvmOffers,        \* the resource's EVM offers
    MaxTimeout,       \* maxTimeoutSeconds
    QuoteCacheLimit,  \* QUOTE_CACHE_LIMIT
    QuoteHorizon      \* bound on the clock

ASSUME QuoteAssumption ==
    /\ MaxTimeout \in Nat \ {0} /\ QuoteCacheLimit \in Nat \ {0}
    /\ EvmOffers \in Nat /\ QuoteHorizon \in Nat

VARIABLES
    seconds,  \* the clock
    cache,    \* the cache, oldest entry first: <<[key, from, until], ...>>
    asker     \* challenges: body, quotes so far, the quote being signed

quoteVars == <<seconds, cache, asker>>

NoQuote == [key |-> <<>>, from |-> 0, until |-> 0]
Idle == [pc |-> "idle", body |-> NoBody, quotes |-> <<>>, signing |-> NoQuote, asked |-> <<>>]

QuoteInit ==
    /\ seconds = 0
    /\ cache = <<>>
    /\ asker = [a \in Asker |-> Idle]

\* A request without a canonical form gets its challenge without quotes.
ExtensionsFor(a, body) ==
    /\ asker[a].pc = "idle"
    /\ asker' = [asker EXCEPT ![a] = [Idle EXCEPT
                    !.pc = IF EvmOffers = 0 \/ body = NoBody THEN "sent" ELSE "next",
                    !.body = body]]
    /\ UNCHANGED <<seconds, cache>>

\* Mutant: a quote is reused until it expires.
ReusableUnexpired(quote) == quote.until > seconds

Reusable(quote) == quote.until >= seconds + MaxTimeout

\* The key is the offer's terms and the request's hash.
KeyOf(a) == <<Len(asker[a].quotes) + 1, asker[a].body>>

Quoted(a, quote) ==
    LET quotes == Append(asker[a].quotes, quote)
    IN  [asker[a] EXCEPT !.quotes = quotes, !.signing = NoQuote,
                         !.pc = IF Len(quotes) = EvmOffers THEN "sent" ELSE "next"]

\* Where the cache holds a quote for a key.
Cached(key) == {i \in DOMAIN cache : cache[i].key = key}

\* quoteFor up to its await: the clock is read once, for a cached quote that
\* still leaves a full window or for the one to be signed.
QuoteFor(a) ==
    /\ asker[a].pc = "next"
    /\ LET asked == Append(asker[a].asked, seconds)
           reusable == {i \in Cached(KeyOf(a)) : Reusable(cache[i])}
       IN  \/ \E i \in reusable :
                 asker' = [asker EXCEPT ![a] = [Quoted(a, cache[i]) EXCEPT !.asked = asked]]
           \/ /\ reusable = {}
              /\ asker' = [asker EXCEPT ![a] = [@ EXCEPT !.pc = "signing", !.asked = asked,
                              !.signing = [key |-> KeyOf(a), from |-> seconds,
                                           until |-> seconds + 2 * MaxTimeout]]]
    /\ UNCHANGED <<seconds, cache>>

\* The cache without the entry of a key.
Without(key) ==
    IF Cached(key) = {} THEN cache ELSE RemoveAt(cache, CHOOSE i \in Cached(key) : TRUE)

\* The entry moves to the end; at the limit the oldest other entry goes.
Stored(quote) ==
    LET others == Without(quote.key)
    IN  Append(IF Len(others) >= QuoteCacheLimit THEN Tail(others) ELSE others, quote)

Signed(a) ==
    /\ asker[a].pc = "signing"
    /\ cache' = Stored(asker[a].signing)
    /\ asker' = [asker EXCEPT ![a] = Quoted(a, asker[a].signing)]
    /\ UNCHANGED seconds

\* The next challenge on this connection.
Renew(a) ==
    /\ asker[a].pc = "sent"
    /\ asker' = [asker EXCEPT ![a] = Idle]
    /\ UNCHANGED <<seconds, cache>>

QuoteTick ==
    /\ seconds < QuoteHorizon
    /\ seconds' = seconds + 1
    /\ UNCHANGED <<cache, asker>>

QuoteNext ==
    \/ \E a \in Asker :
          \/ \E body \in Body \cup {NoBody} : ExtensionsFor(a, body)
          \/ QuoteFor(a) \/ Signed(a) \/ Renew(a)
    \/ QuoteTick

QuoteSpec == QuoteInit /\ [][QuoteNext]_quoteVars

\* However challenges overlap at the cache's limit, each quote in one is for
\* its own offer and request, was valid when the challenge asked for it, and
\* left the buyer a full payment window from then on; the cache stays within
\* its limit, one quote per key (quote.ts:165-216).
QuotesCoverThePayment ==
    /\ \A a \in Asker : \A i \in DOMAIN asker[a].quotes :
          LET quote == asker[a].quotes[i]
          IN  /\ quote.key = <<i, asker[a].body>>
              /\ quote.from <= asker[a].asked[i]
              /\ quote.until >= asker[a].asked[i] + MaxTimeout
    /\ Len(cache) <= QuoteCacheLimit
    /\ \A i, j \in DOMAIN cache : cache[i].key = cache[j].key => i = j
=============================================================================
