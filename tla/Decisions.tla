----------------------------- MODULE Decisions -----------------------------
(***************************************************************************)
(* What a protected application decides of one request from the request    *)
(* and its gateway alone: the client's address, CORS, the version, the     *)
(* validation of the request, the encoding of the response, the headers    *)
(* and the problem an exception becomes (teaf/_internal/api/middleware,    *)
(* api/cors, api/versioning, api/validation, api/compression, middleware). *)
(*                                                                         *)
(* A request has the fields that these read. An origin is a scheme with    *)
(* the labels of a host; a qvalue is in tenths; header names are written   *)
(* in lower case; a size is compared with its limit only.                  *)
(***************************************************************************)
EXTENDS Protection, FiniteSets

-----------------------------------------------------------------------------
(* The client's address.                                                   *)

Trusts(proxies, address) ==
    \E i \in DOMAIN proxies : address \in Network[proxies[i]]

\* Mutant: the chain is read from the side the client writes.
FirstNotTrusted(chain, proxies) ==
    LET open == {i \in DOMAIN chain : ~Trusts(proxies, chain[i])}
    IN  IF open = {} THEN None ELSE chain[CHOOSE i \in open : \A j \in open : i <= j]

\* From the right, where our proxies write: the first entry that is not ours.
ClientFromChain(chain, proxies) ==
    LET open == {i \in DOMAIN chain : ~Trusts(proxies, chain[i])}
    IN  IF open = {} THEN None ELSE chain[CHOOSE i \in open : \A j \in open : j <= i]

ResolveClientIp(gateway, request) ==
    LET forwarded == ClientFromChain(request.chain, gateway.proxies)
    IN  IF gateway.proxies # <<>>
        THEN IF ~Trusts(gateway.proxies, request.connection) \/ forwarded = None
             THEN request.connection ELSE forwarded
        ELSE IF gateway.trustForwarded /\ request.chain # <<>> THEN request.chain[1]
        ELSE request.connection

-----------------------------------------------------------------------------
(* CORS.                                                                   *)

\* "*", the origin itself, or any host below a domain.
OriginMatches(pattern, origin) ==
    \/ pattern.form = "any"
    \/ pattern.form = "exact" /\ pattern.scheme = origin.scheme /\ pattern.host = origin.host
    \/ /\ pattern.form = "below" /\ pattern.scheme = origin.scheme
       /\ IsSuffix(pattern.host, origin.host) /\ origin.host # pattern.host

IsOriginAllowed(gateway, origin) ==
    \E pattern \in gateway.origins : OriginMatches(pattern, origin)

SimpleHeaders == {"accept", "accept-language", "content-language", "content-type"}
AreHeadersAllowed(gateway, headers) ==
    "*" \in gateway.headers \/ headers \subseteq gateway.headers \cup SimpleHeaders

Everyone == [scheme |-> "*", host |-> <<"*">>]

AllowOriginValue(gateway, origin) ==
    IF gateway.anyOrigin /\ ~gateway.credentials THEN Everyone ELSE origin

NoGrant == [to |-> None, credentials |-> FALSE, vary |-> {}]

\* Mutant: a response that varies with the origin does not say so.
GrantWithoutVary(gateway, origin) ==
    [to |-> AllowOriginValue(gateway, origin), credentials |-> gateway.credentials,
     vary |-> {}]

Grant(gateway, origin) ==
    [to |-> AllowOriginValue(gateway, origin), credentials |-> gateway.credentials,
     vary |-> {"origin"}]

\* response_headers
GrantOf(gateway, origin) ==
    IF IsOriginAllowed(gateway, origin) THEN Grant(gateway, origin) ELSE NoGrant

\* preflight_headers: None is a refusal.
Preflight(gateway, request) ==
    IF /\ IsOriginAllowed(gateway, request.origin)
       /\ "*" \in gateway.methods \/ request.wants \in gateway.methods
       /\ AreHeadersAllowed(gateway, request.asks)
    THEN Grant(gateway, request.origin) ELSE None

IsPreflight(gateway, request) ==
    /\ "cors" \in gateway.parts /\ request.origin # None
    /\ request.method = "OPTIONS" /\ request.wants # None

-----------------------------------------------------------------------------
(* The version.                                                            *)

\* _extract: the first strategy that finds something; an empty text is none.
Extract(gateway, request) ==
    LET text(i) == request.version[gateway.strategies[i]]
        found == {i \in 1 .. Len(gateway.strategies) : text(i) # ""}
    IN  IF found = {} THEN "" ELSE text(CHOOSE i \in found : \A j \in found : i <= j)

Unsupported == [version |-> None, isDefault |-> FALSE]

\* Mutant: the policy is always lenient.
NegotiateLeniently(gateway, request) ==
    LET text == Extract(gateway, request)
    IN  IF text \in DOMAIN ParsedVersion /\ ParsedVersion[text] \in gateway.supported
        THEN [version |-> ParsedVersion[text], isDefault |-> FALSE]
        ELSE [version |-> gateway.default, isDefault |-> TRUE]

\* What cannot be served is refused by a strict policy, else the default is.
Negotiate(gateway, request) ==
    LET text == Extract(gateway, request)
    IN  IF text \in DOMAIN ParsedVersion /\ ParsedVersion[text] \in gateway.supported
        THEN [version |-> ParsedVersion[text], isDefault |-> FALSE]
        ELSE IF text = "" \/ ~gateway.strict
        THEN [version |-> gateway.default, isDefault |-> TRUE]
        ELSE Unsupported

-----------------------------------------------------------------------------
(* The request's form.                                                     *)

BodylessMethods == {"GET", "HEAD", "DELETE", "OPTIONS", "TRACE"}

AgentAllowed(gateway, agent) ==
    IF agent = None THEN ~gateway.requireAgent
    ELSE /\ agent \notin gateway.blockedAgents
         /\ gateway.allowedAgents = {} \/ agent \in gateway.allowedAgents

ContentTypeAllowed(gateway, request) ==
    \/ gateway.contentTypes = {} \/ request.method \in BodylessMethods
    \/ request.body = "empty" \/ request.type \in gateway.contentTypes

\* validate_request: the first check that fails, or None.
InvalidBy(gateway, request) ==
    LET failed == SelectSeq(
          <<<<request.url = "long", "InvalidRequestException">>,
            <<request.body = "huge", "RequestTooLargeException">>,
            <<~(gateway.requiredHeaders \subseteq request.headers), "InvalidRequestException">>,
            <<~ContentTypeAllowed(gateway, request), "UnsupportedContentTypeException">>,
            <<~AgentAllowed(gateway, request.agent), "InvalidRequestException">>>>,
          LAMBDA check : check[1])
    IN  IF failed = <<>> THEN None ELSE failed[1][2]

-----------------------------------------------------------------------------
(* The encoding.                                                           *)

\* parse_accept_encoding: the positions it keeps, and their order.
Kept(accept) == {i \in DOMAIN accept : accept[i].q > 0}
Before(accept, i, j) ==
    accept[i].q > accept[j].q \/ (accept[i].q = accept[j].q /\ i <= j)

\* The first token in the order of preference that names a provider; "*" is
\* the server's first.
Select(gateway, accept) ==
    LET known == {i \in Kept(accept) : accept[i].token \in ToSet(gateway.providers) \cup {"*"}}
    IN  IF gateway.providers = <<>> \/ known = {} THEN None
        ELSE LET first == CHOOSE i \in known : \A j \in known : Before(accept, i, j)
             IN  IF accept[first].token = "*" THEN gateway.providers[1] ELSE accept[first].token

\* CompressionMiddleware: large enough, of a compressible type, not encoded
\* by the endpoint, and smaller when compressed.
Encoding(gateway, request, page) ==
    IF "compression" \in gateway.parts /\ page.compressible /\ page.encoding = None
    THEN Select(gateway, request.accept) ELSE page.encoding

-----------------------------------------------------------------------------
(* Exceptions and headers.                                                 *)

\* http_status, of the classes that set one (api/exceptions.py).
ExceptionStatus ==
    [ApiProtectionException |-> 400, RateLimitExceededException |-> 429,
     QuotaExceededException |-> 429, RequestTooLargeException |-> 413,
     ResponseTooLargeException |-> 500, UnsupportedContentTypeException |-> 415,
     InvalidRequestException |-> 400, UnsupportedApiVersionException |-> 400,
     IdempotencyConflictException |-> 409]

\* The classes of core/exceptions.py below ApplicationException.
StatusByExceptionType ==
    [ValidationException |-> 422, BusinessException |-> 409,
     AuthenticationException |-> 401, AuthorizationException |-> 403]

\* The status of a problem: of the class itself, of a base of it, or 500.
ResolveStatus(exception) ==
    IF exception \in DOMAIN ExceptionStatus THEN ExceptionStatus[exception]
    ELSE IF exception \in DOMAIN StatusByExceptionType
    THEN StatusByExceptionType[exception] ELSE 500

\* SecurityHeadersMiddleware.headers_for: names, those the page has set kept.
SecurityHeaders(request) ==
    {"x-content-type-options", "x-frame-options"} \cup
    (IF request.secure THEN {"strict-transport-security"} ELSE {}) \cup
    (IF request.url = "docs" THEN {} ELSE {"content-security-policy"})
=============================================================================
