------------------------------ MODULE Policies ------------------------------
(***************************************************************************)
(* An application protected by ApiProtectionModule, from the values it is  *)
(* configured with to its responses: every stage of the gateway that       *)
(* decides by the request alone, in the order of install(), within the     *)
(* middlewares of create_app. What depends on the requests before (rate    *)
(* limit, quotas, idempotency, audit) is in modules of its own.            *)
(***************************************************************************)
EXTENDS Decisions, Certification

CONSTANTS
    Address,      \* addresses of clients and proxies, and what senders write for one
    Deployment,   \* the mappings of values an application may be configured with
    Traffic,      \* the requests that may arrive
    Page          \* what the endpoint may do: a response, or an exception

\* A browser names the scheme and the host of a page, or no origin.
Origin == [scheme : STRING, host : Seq(STRING)] \ {Everyone}

HttpRequest ==
    [method : STRING, url : {"short", "long", "docs"}, body : {"empty", "small", "huge"},
     type : STRING \cup {None}, agent : STRING \cup {None}, headers : SUBSET STRING,
     secure : BOOLEAN, origin : Origin \cup {None}, wants : STRING \cup {None},
     asks : SUBSET STRING, version : [VersioningStrategy -> STRING],
     accept : Seq([token : STRING, q : 0 .. 10]),
     connection : Address, chain : Seq(Address)]

\* The module that instantiates this one assumes it.
PoliciesAssumption ==
    /\ None \notin Address
    /\ None \notin Traffic
    /\ Traffic \subseteq HttpRequest

VARIABLES
    values,       \* the values of the configuration
    state,        \* "new", "failed" or "serving"
    gateway,      \* the gateway, once built
    request,      \* the request being answered
    page,         \* what the endpoint does with it
    reply         \* the response to it

vars == <<values, state, gateway, request, page, reply>>

NoReply == [status |-> 0, version |-> None, encoding |-> None, grant |-> NoGrant,
            vary |-> {}, headers |-> {}, client |-> None]

Configured(part) == part \in gateway.parts

-----------------------------------------------------------------------------
(* A response.                                                             *)

\* build_problem_response and the handler of ApplicationException.
Problem(exception) == [NoReply EXCEPT !.status = ResolveStatus(exception)]

\* The handler of every other exception, outside of all middlewares.
Unhandled == [NoReply EXCEPT !.status = 500]

Negotiated(q) ==
    IF Configured("versioning") /\ gateway.strategies # <<>>
    THEN Negotiate(gateway, q) ELSE [version |-> None, isDefault |-> TRUE]

\* The exception a request is rejected with, or None.
Rejected(q) == IF Configured("validation") THEN InvalidBy(gateway, q) ELSE None

\* The endpoint, behind the stages that may refuse.
Inner(q, p) ==
    LET stamped(answer) == [answer EXCEPT !.version = Negotiated(q).version]
    IN  IF Negotiated(q) = Unsupported THEN Problem("UnsupportedApiVersionException")
        ELSE IF Rejected(q) # None THEN stamped(Problem(Rejected(q)))
        ELSE IF p.raises # None THEN stamped(Problem(p.raises))
        ELSE stamped([NoReply EXCEPT !.status = 200, !.encoding = p.encoding])

\* Then compression (problems are too small for it), and CORS, which
\* replaces Vary.
Outer(q, p) ==
    LET inner == Inner(q, p)
        coded == IF inner.status = 200 THEN Encoding(gateway, q, p) ELSE None
        grant == IF Configured("cors") /\ q.origin # None
                 THEN GrantOf(gateway, q.origin) ELSE NoGrant
    IN  [inner EXCEPT !.encoding = coded, !.grant = grant,
             !.vary = IF grant # NoGrant THEN grant.vary
                      ELSE IF coded # inner.encoding THEN {"accept-encoding"} ELSE {}]

\* _handle_preflight
Preflighted(q) ==
    LET granted == Preflight(gateway, q)
    IN  IF granted = None THEN [NoReply EXCEPT !.status = 403]
        ELSE [NoReply EXCEPT !.status = 204, !.grant = granted, !.vary = granted.vary]

\* The middlewares of create_app are around those of the gateway. An endpoint
\* is reached by what no stage answers itself.
Respond(q, p) ==
    LET reached == /\ ~IsPreflight(gateway, q)
                   /\ Negotiated(q) # Unsupported /\ Rejected(q) = None
        protected == IF IsPreflight(gateway, q) THEN Preflighted(q) ELSE Outer(q, p)
    IN  IF reached /\ p.raises = "Exception" THEN Unhandled
        ELSE [protected EXCEPT !.headers = SecurityHeaders(q),
                               !.client = ResolveClientIp(gateway, q)]

-----------------------------------------------------------------------------
Init ==
    /\ values \in Deployment
    /\ state = "new"
    /\ gateway = None /\ request = None /\ page = None
    /\ reply = NoReply

\* ApiProtectionModule(ApiProtectionConfiguration.from_mapping(values))
Build ==
    /\ state = "new"
    /\ LET config == FromMapping(values)
       IN  IF Raises(config)
           THEN state' = "failed" /\ UNCHANGED gateway
           ELSE state' = "serving" /\ gateway' = ApiGateway(config)
    /\ UNCHANGED <<values, request, page, reply>>

Ask ==
    /\ state = "serving" /\ request = None
    /\ \E q \in Traffic, p \in Page :
         request' = q /\ page' = p /\ reply' = Respond(q, p)
    /\ UNCHANGED <<values, state, gateway>>

Answered ==
    /\ request # None
    /\ request' = None /\ page' = None /\ reply' = NoReply
    /\ UNCHANGED <<values, state, gateway>>

\* An application that did not start is deployed again, with other values.
Redeploy ==
    /\ state = "failed"
    /\ state' = "new"
    /\ values' \in Deployment
    /\ gateway' = None /\ request' = None /\ page' = None
    /\ reply' = NoReply

Next == Build \/ Ask \/ Answered \/ Redeploy

Spec == Init /\ [][Next]_vars

-----------------------------------------------------------------------------
(* Properties.                                                             *)

\* Whatever the values, the module is built into what the rest assumes: rules
\* of distinct names and positive limits with the concurrency rule last (so
\* that no request is refused after it took a slot), a version to serve, one
\* contract for each subsystem that can work and for no other, and a manifest
\* that the SDK certifies.
BuiltAsAssumed ==
    (state = "serving" /\ request = None) =>
      /\ \A i, j \in DOMAIN gateway.quotaRules :
            LET rule == gateway.quotaRules[i]
            IN  /\ rule.limit > 0
                /\ i # j => rule.name # gateway.quotaRules[j].name
                /\ rule.kind = "concurrent" => j <= i
      /\ gateway.supported # {}
      /\ Certified(BuildManifest(gateway))
      /\ Len(Services(gateway)) =
           1 + Cardinality(gateway.parts \ ({"cors", "versioning"} \cup
                   IF gateway.providers = <<>> THEN {"compression"} ELSE {}))

\* With trusted proxies, a client is who our proxies say: every hop between
\* its address and the application is one of them, and nothing that it writes
\* in front of the chain makes it another client.
ClientIsVouchedFor ==
    (state = "serving" /\ reply.client # None /\ gateway.proxies # <<>>) =>
      LET hops == Append(request.chain, request.connection)
          foreign == {i \in DOMAIN hops : ~Trusts(gateway.proxies, hops[i])}
      IN  /\ \E i \in DOMAIN hops :
               /\ reply.client = hops[i]
               /\ \A j \in i + 1 .. Len(hops) : j \notin foreign
          /\ foreign # {} =>
               \A q \in Traffic :
                  ResolveClientIp(gateway, [request EXCEPT !.chain = q.chain \o @])
                    = reply.client

\* What is negotiated is what was asked. Under a strict policy a response of
\* the endpoint is of the version the request names; and an encoding the
\* gateway adds is one the client names and prefers, unless it takes any.
NegotiatedAsAsked ==
    /\ (reply.status = 200 /\ Configured("versioning") /\ gateway.strict) =>
         LET text(i) == request.version[gateway.strategies[i]]
             found == {i \in 1 .. Len(gateway.strategies) : text(i) # ""}
         IN  \A i \in found :
               (\A j \in found : text(j) = text(i)) =>
                  /\ text(i) \in DOMAIN ParsedVersion
                  /\ reply.version = ParsedVersion[text(i)]
    /\ (reply.encoding # None /\ reply.encoding # page.encoding) =>
         LET offered(token) == {i \in DOMAIN request.accept :
                                  request.accept[i].token = token /\ request.accept[i].q > 0}
         IN  \/ offered("*") # {}
             \/ \E i \in offered(reply.encoding) :
                  \A token \in ToSet(gateway.providers) : \A j \in offered(token) :
                     request.accept[j].q <= request.accept[i].q

\* A grant is of its origin and of no other: credentials are never granted to
\* everyone, a cache that keeps a response with its Vary gives it to no other
\* origin, and what a preflight granted is granted when the request comes.
GrantsStayWithTheirOrigin ==
    reply.grant # NoGrant =>
      /\ reply.grant.credentials => reply.grant.to # Everyone
      /\ \A q \in Traffic :
           (q.origin # None /\ ("origin" \in reply.vary => q.origin = request.origin)) =>
               reply.grant.to \in {Everyone, q.origin}
      /\ reply.status = 204 =>
           \A q \in Traffic, p \in Page :
              (q.origin = request.origin /\ q.method = request.wants /\ q.wants = None) =>
                 LET actual == Respond(q, p)
                 IN  actual = Unhandled \/ actual.grant = reply.grant
=============================================================================
