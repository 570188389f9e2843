------------------------------ MODULE BackendCall ------------------------------
(***************************************************************************)
(* From a resource's configuration to the request its backend receives:    *)
(* what config load accepts (src/config/schema/backend.ts,                 *)
(* resource-schema.ts), what the pipeline admits before it asks for        *)
(* payment (src/core/execution/validation.ts, backend-request.ts), and     *)
(* what the backend call builds and answers after it (backend-http.ts).    *)
(*                                                                         *)
(* A schema node is its type, properties and required names; a value is an *)
(* object of named scalars, or anything else.  A URL is its path           *)
(* parameters, its query names and how it departs from a plain one.        *)
(***************************************************************************)
EXTENDS Naturals, FiniteSets, Functions

CONSTANTS
    Field,      \* names of scalar inputs
    Reserved,   \* the one of them the gateway reserves
    Unbound,    \* a location without an input binding
    Rails       \* payment rails that are configured and enabled

ASSUME UnboundAssumption == Unbound \notin {"p", "q", "b"}

\* Groups of parameters that input bindings name.
Group == {"p", "q", "b"}
Location == {"path", "query", "body"}

VARIABLES
    resource,  \* the configured resource
    visit,     \* the request: where it is, what it carries
    sent       \* what the backend received

backendVars == <<resource, visit, sent>>

NoRequest == [path |-> {}]

(***************************************************************************)
(* Config load.                                                            *)
(***************************************************************************)

\* type, properties, required, additionalProperties ("absent" is closed by
\* defaultClosedObjectSchema).
Node(types, props, required, extras) ==
    [type : types, props : SUBSET props, required : SUBSET required, extra : extras]

IsObjectSchemaNode(n) ==
    \/ n.type \in {"object", "nullable"}
    \/ n.type = "untyped" /\ n.props \cup n.required # {}

ValidateResourceSchemaKeywords(n) ==
    /\ n.type = "scalar" => n.props \cup n.required = {}
    /\ IsObjectSchemaNode(n) /\ n.extra = "absent" => n.required \subseteq n.props

Templated(r) == r.params # {}
Bound(r) == \E l \in Location : r.bindings[l] # Unbound

ValidateInputBindings(r) ==
    LET used == {l \in Location : r.bindings[l] # Unbound}
    IN  /\ r.method = "GET" => "body" \notin used
        /\ Templated(r) => "path" \in used /\ r.bindings["path"] \in r.top.required
        /\ \A l, m \in used : r.bindings[l] = r.bindings[m] => l = m
        /\ \A l \in used :
              /\ r.bindings[l] \in r.top.props
              /\ l # "body" => IsObjectSchemaNode(r.groups[r.bindings[l]])

\* The schema node that must declare the path parameters.
PathScope(r) == IF Bound(r) THEN r.groups[r.bindings["path"]] ELSE r.top

ValidatePathParametersDeclared(r) ==
    /\ r.url # "stray"
    /\ Templated(r) => /\ r.url \notin {"host", "userinfo"}
                       /\ r.params \subseteq PathScope(r).props \cap PathScope(r).required

ValidateBackendUrl(r) == r.url \notin {"unparseable", "scheme"}
ValidateBackendHeaders(r) == "illegal" \notin r.headers

\* A plain positive decimal of no more digits than the token has.
ValidatePricingAmount(sale) == sale.amount \notin {"malformed", "zero", "fine"}

\* What a rail can charge: both settle in USDC, x402 for a price in dollars
\* as well.
Charges(rail, sale) ==
    /\ ValidatePricingAmount(sale)
    /\ sale.currency \in (IF rail = "x402" THEN {"USD", "USDC"} ELSE {"USDC"})

\* A price is one that every enabled rail the resource names can charge, and
\* at least one is enabled.
ValidatePricing(sale) ==
    /\ sale.methods \subseteq {"x402", "mpp"}
    /\ sale.methods \cap Rails # {}
    /\ \A rail \in sale.methods \cap Rails : Charges(rail, sale)

\* A mandate is required only by a method that is there, for a fixed price.
NormalizeResourceAuthorization(sale) ==
    sale.authorization # "none" => sale.authorization = "ap2" /\ sale.price = "fixed"

\* Payment options are for priced resources.
NormalizeSale(sale) ==
    /\ sale.price # "dynamic"
    /\ sale.price = "fixed" => ValidatePricing(sale)
    /\ {"accepts", "mimeType"} \cap sale.options # {} => sale.price = "fixed" /\ "x402" \in sale.methods
    /\ "paymentFlow" \in sale.options => sale.price = "fixed"
    /\ NormalizeResourceAuthorization(sale)

NormalizeResource(r) ==
    /\ NormalizeSale(r.sale)
    /\ ValidateResourceSchemaKeywords(r.top)
    /\ \A g \in r.top.props \cap Group : ValidateResourceSchemaKeywords(r.groups[g])
    /\ Reserved \notin r.top.props
    /\ ValidateBackendUrl(r)
    /\ ValidateBackendHeaders(r)
    /\ Bound(r) => ValidateInputBindings(r)
    /\ ValidatePathParametersDeclared(r)

(***************************************************************************)
(* Input validation.                                                       *)
(***************************************************************************)

MatchesType(n, v) ==
    /\ n.type = "object" => v.kind = "object"
    /\ n.type = "scalar" => v.kind = "other"

ValidateObject(n, names) ==
    n.required \subseteq names /\ (n.extra = "absent" => names \subseteq n.props)

ValidateNode(n, v) ==
    /\ MatchesType(n, v)
    /\ IsObjectSchemaNode(n) /\ v.kind = "object" => ValidateObject(n, DOMAIN v.fields)

ValidInput(r, input) ==
    /\ ValidateNode(r.top, input)
    /\ \A g \in DOMAIN input.fields \cap Group \cap r.top.props :
          ValidateNode(r.groups[g], input.fields[g])

\* Reserved names are stripped before anything reads the input.
StripReservedFields(input) ==
    [input EXCEPT !.fields = Restrict(input.fields, DOMAIN input.fields \ {Reserved})]

(***************************************************************************)
(* The request an input describes.                                         *)
(***************************************************************************)

Nothing == [kind |-> "object", fields |-> <<>>]

\* The group bound to a location, empty when the input leaves it out.
BoundGroup(r, input, l) ==
    IF r.bindings[l] \in DOMAIN input.fields THEN input.fields[r.bindings[l]] ELSE Nothing

PathValues(r, input) == IF Bound(r) THEN BoundGroup(r, input, "path") ELSE input

\* Names in the query and in the JSON body; a request may have no body.
QueryNames(r, input) ==
    IF Bound(r) THEN DOMAIN BoundGroup(r, input, "query").fields
    ELSE IF r.method = "GET" THEN DOMAIN input.fields \ r.params ELSE {}

BodyNames(r, input) ==
    IF Bound(r) THEN DOMAIN BoundGroup(r, input, "body").fields
    ELSE IF r.method = "GET" THEN {} ELSE DOMAIN input.fields \ r.params

HasBody(r, input) ==
    r.method # "GET" /\ (Bound(r) => r.bindings["body"] \in DOMAIN input.fields)

\* Every path parameter is there and is a segment of its own: not empty, "."
\* or "..", and well-formed Unicode.
ApplyPathTemplate(r, values) ==
    /\ r.params \subseteq DOMAIN values
    /\ \A f \in r.params : values[f] = "text"

\* buildBackendRequestParts does not throw.
Buildable(r, input) ==
    /\ \A l \in {"path", "query"} :
          Bound(r) => BoundGroup(r, input, l).kind = "object"
    /\ ApplyPathTemplate(r, PathValues(r, input).fields)

NeverForwarded == {"cookie", "content-type", "idempotency-key"}

\* Configured headers win over forwarded ones.
BuildHeaders(r, forwarded) ==
    [h \in r.headers \cup (forwarded \ NeverForwarded) |->
        IF h \in r.headers THEN "operator" ELSE "caller"]

HeadersLegal(r, forwarded) == "illegal" \notin r.headers \cup (forwarded \ NeverForwarded)

CheckQueryCollision(r, input) == QueryNames(r, input) \cap r.pinned = {}

\* Mutant: the shape check leaves the query to the call.
ValidateBackendRequestShapeWithoutQuery(r, input, forwarded) ==
    Buildable(r, input) /\ HeadersLegal(r, forwarded)

ValidateBackendRequestShape(r, input, forwarded) ==
    /\ Buildable(r, input)
    /\ HeadersLegal(r, forwarded)
    /\ CheckQueryCollision(r, input)

(***************************************************************************)
(* Actions.                                                                *)
(***************************************************************************)

BackendInit ==
    /\ resource = [state |-> "none"]
    /\ visit = [pc |-> "idle"]
    /\ sent = NoRequest

Load(r) ==
    /\ resource.state = "none"
    /\ resource' = IF NormalizeResource(r) THEN [state |-> "loaded", r |-> r] ELSE [state |-> "refused"]
    /\ UNCHANGED <<visit, sent>>

AsRecord(input) == IF input.kind = "object" THEN input ELSE Nothing

\* The pipeline's first steps: strip, validate, check the shape, and ask for
\* payment.
Arrive(input, forwarded, key) ==
    /\ resource.state = "loaded" /\ visit.pc = "idle"
    /\ LET r == resource.r
           valid == StripReservedFields(input)
           admitted == ValidInput(r, valid) /\ ValidateBackendRequestShape(r, AsRecord(valid), forwarded)
       IN  visit' = IF admitted
                    THEN [pc |-> IF r.sale.price = "fixed" THEN "unpaid" ELSE "call", input |-> AsRecord(valid), forwarded |-> forwarded, key |-> key]
                    ELSE [pc |-> "refused"]
    /\ UNCHANGED <<resource, sent>>

\* The payment settles on a rail the resource names.
Pay(rail) ==
    /\ visit.pc = "unpaid"
    /\ rail \in resource.r.sale.methods
    /\ visit' = [visit EXCEPT !.pc = "call"]
    /\ UNCHANGED <<resource, sent>>

\* The call builds the request again; besides the shape, the parameters must
\* stay below the URL's literal prefix, and fetch takes no URL with user
\* information.
CallBuilds(r, input, forwarded) ==
    /\ Buildable(r, input)
    /\ r.url \notin {"unparseable", "userinfo"}
    /\ ~(Templated(r) /\ r.url = "climbs")
    /\ HeadersLegal(r, forwarded)
    /\ CheckQueryCollision(r, input)

\* An idempotency key replaces a configured one; a configured content type
\* stays.
CallHeaders(r, body) ==
    LET own == (IF visit.key THEN {"idempotency-key"} ELSE {})
               \cup (IF body /\ "content-type" \notin r.headers THEN {"content-type"} ELSE {})
        headers == BuildHeaders(r, visit.forwarded)
    IN  [h \in DOMAIN headers \cup own |-> IF h \in own THEN "gateway" ELSE headers[h]]

Call ==
    /\ visit.pc = "call"
    /\ LET r == resource.r
           input == visit.input
       IN  IF CallBuilds(r, input, visit.forwarded)
           THEN /\ sent' = [path |-> r.params, body |-> BodyNames(r, input), hasBody |-> HasBody(r, input),
                            query |-> [n \in r.pinned \cup QueryNames(r, input) |->
                                          IF n \in QueryNames(r, input) THEN "caller" ELSE "operator"],
                            headers |-> CallHeaders(r, HasBody(r, input))]
                /\ visit' = [visit EXCEPT !.pc = "fetch"]
           ELSE /\ visit' = [visit EXCEPT !.pc = "unbuilt"]
                /\ UNCHANGED sent
    /\ UNCHANGED resource

\* What the fetch comes to: only a 2xx whose body was read in full is a
\* response; a redirect is not followed.
Fetched(result) ==
    /\ visit.pc = "fetch"
    /\ visit' = [visit EXCEPT !.pc =
                   CASE result = "ok"      -> "delivered"
                     [] result = "timeout" -> "BACKEND_TIMEOUT"
                     [] result \in {"transport", "redirect", "non2xx", "oversized", "unreadable"}
                                           -> "BACKEND_ERROR"]
    /\ UNCHANGED <<resource, sent>>

(***************************************************************************)
(* Resources and requests.                                                 *)
(***************************************************************************)

Scalar == {"text", "dots", "unpaired"}
Objects(S, values) == UNION {[kind : {"object"}, fields : [D -> values]] : D \in SUBSET S}
Other == [kind |-> "other", fields |-> <<>>]

NoBindings == [l \in Location |-> Unbound]
NoGroups == [g \in Group |-> [type |-> "untyped", props |-> {}, required |-> {}, extra |-> "absent"]]
AnyType == {"object", "nullable", "untyped", "scalar"}

\* One path parameter at most, and one query name in the URL.
Shapes(P, Q) ==
    [method : {"GET", "POST"}, url : {"plain"}, params : {{}, P}, pinned : {{}, Q}, headers : {{}}]

Sold == [price |-> "fixed", amount |-> "exact", methods |-> {"x402"}, currency |-> "USD",
         options |-> {}, authorization |-> "none"]

Extend(shape, top, bindings, groups) ==
    [sale |-> Sold, method |-> shape.method, url |-> shape.url, params |-> shape.params, pinned |-> shape.pinned,
     headers |-> shape.headers, top |-> top, bindings |-> bindings, groups |-> groups]

\* Resources without bindings; with bindings; with other URLs and headers.
Legacy(P, Q) ==
    {Extend(s, t, NoBindings, NoGroups) :
        s \in Shapes(P, Q), t \in Node(AnyType, Field, P \cup Q, {"absent", "open"})}

Bindings(P, Q) ==
    {Extend(s, [type |-> "object", props |-> d, required |-> n, extra |-> "absent"],
            b, [p |-> t, q |-> u, b |-> u]) :
        s \in Shapes(P, Q), d \in {Group, Group \ {"p"}, Group \ {"b"}}, n \in {{"p"}, {}},
        b \in [path : {Unbound, "p", "q"}, query : {Unbound, "q"}, body : {Unbound, "b"}],
        t \in Node(AnyType, P, P, {"absent", "open"}),
        u \in {[type |-> "nullable", props |-> Q, required |-> {}, extra |-> "absent"], NoGroups["q"]}}

Plain(P) == [type |-> "object", props |-> P, required |-> P, extra |-> "absent"]

Unusual(P) ==
    {r \in {Extend(s, Plain(P), NoBindings, NoGroups) :
               s \in [method : {"GET", "POST"}, params : {{}, P}, pinned : {{}},
                      url : {"plain", "unparseable", "scheme", "stray", "host", "climbs", "userinfo"},
                      headers : {{}, {"apikey"}, {"content-type", "idempotency-key"}, {"illegal"}}]} :
        r.url \in {"host", "climbs"} => Templated(r)}

\* Resources at other prices, on other rails.
Priced ==
    {[Extend(s, Plain({}), NoBindings, NoGroups) EXCEPT !.sale = d] :
        s \in Shapes({}, {}),
        d \in [price : {"free", "fixed", "dynamic"}, amount : {"exact", "fine", "zero", "malformed"},
               methods : SUBSET {"x402", "mpp", "other"}, currency : {"USD", "USDC", "EUR"},
               options : {{}, {"accepts"}, {"paymentFlow"}}, authorization : {"none", "ap2", "other"}]}

Grouped(D, x, y, z) == [kind |-> "object", fields |-> Restrict([p |-> x, q |-> y, b |-> z], D)]

Inputs(P, Q) ==
    IF Bound(resource.r)
    THEN {Grouped(D, x, y, z) :
             D \in SUBSET Group, x \in Objects(P, Scalar) \cup Objects(Q, {"text"}) \cup {Other},
             y \in Objects(Q, {"text"}) \cup {Other}, z \in [kind : {"object"}, fields : [Q -> {"text"}]]}
    ELSE Objects(P \cup {Reserved}, Scalar) \cup Objects(Field, {"text"}) \cup {Other}

Forwards == {{}, {"apikey", "cookie"}, {"idempotency-key", "trace"}, {"illegal"}}

BackendNext(P, Q) ==
    \/ resource.state = "none" /\ \E r \in Legacy(P, Q) \cup Bindings(P, Q) \cup Unusual(P) \cup Priced : Load(r)
    \/ /\ resource.state = "loaded" /\ visit.pc = "idle"
       /\ \/ \E i \in Inputs(P, Q) : Arrive(i, {}, FALSE)
          \/ /\ resource.r \in Unusual(P)
             /\ \E f \in Forwards, k \in BOOLEAN, i \in Objects(P, {"text"}) : Arrive(i, f, k)
    \/ \E rail \in Rails : Pay(rail)
    \/ Call
    \/ \E s \in {"ok", "timeout", "transport", "redirect", "non2xx", "oversized", "unreadable"} : Fetched(s)

BackendSpec(P, Q) == BackendInit /\ [][BackendNext(P, Q)]_backendVars

(***************************************************************************)
(* Properties.                                                             *)
(***************************************************************************)

\* A resource that loaded with a price can be paid, exactly, on every rail
\* that may be asked.  A request that was paid for can be sent, whatever
\* configuration loaded and whatever input was admitted, save for a template
\* that climbs out of its own prefix and a URL with user information, which
\* only the call meets.
\* What is sent is what was admitted: without bindings each name is in the
\* path, the query or the body and in one of them only; names the operator
\* pinned in the URL and headers the operator set are the operator's; nothing
\* the gateway reserves or never forwards comes from the caller
\* (backend-request.ts:52-119, backend-http.ts:63-115, config/schema/backend.ts).
PaidRequestIsSendable ==
    /\ visit.pc = "unpaid" =>
          LET rails == resource.r.sale.methods \cap Rails
          IN  rails # {} /\ \A rail \in rails : Charges(rail, resource.r.sale)
    /\ visit.pc = "unbuilt" => resource.r.url \in {"climbs", "userinfo"}
    /\ sent # NoRequest =>
          LET r == resource.r
              caller == {n \in DOMAIN sent.query : sent.query[n] = "caller"}
          IN  /\ \A n \in r.pinned : sent.query[n] = "operator"
              /\ Reserved \notin sent.path \cup caller \cup sent.body
              /\ ~Bound(r) => /\ sent.path \cup caller \cup sent.body = DOMAIN visit.input.fields
                              /\ {} = UNION {sent.path \cap caller, sent.path \cap sent.body, caller \cap sent.body}
              /\ sent.body # {} => sent.hasBody
              /\ \A h \in r.headers \ {"idempotency-key"} : sent.headers[h] = "operator"
              /\ \A h \in DOMAIN sent.headers \cap NeverForwarded : sent.headers[h] # "caller"
=============================================================================
