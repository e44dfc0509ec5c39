---------------------------- MODULE MCProtection ----------------------------
(***************************************************************************)
(* Instances of Idempotency and Policies. r1, r2 and r3 retry requests of  *)
(* two keys, and the request other reuses the key of r1 with another body. *)
(* The deployments vary one part of the configuration at a time, and the   *)
(* traffic what it decides by. A behaviour is about one of the two.        *)
(***************************************************************************)
EXTENDS Responses, TLC

CONSTANTS r1, r2, r3, other, p1, p2, k1, k2, f1, f2,
          proxy1, proxy2, client1, client2, junk

VARIABLE about

TwoKeys == [r \in Request |-> IF r = r3 THEN k2 ELSE k1]
Bodies == [r \in Request |-> IF r = other THEN f2 ELSE f1]

-----------------------------------------------------------------------------

Parsed == ("v1" :> 1) @@ ("1" :> 1) @@ ("v2" :> 2) @@ ("2.0" :> 2) @@ ("v3" :> 3)

Networks == ("ours" :> {proxy1, proxy2}) @@ ("one" :> {proxy1})

App == [scheme |-> "https", host |-> <<"app", "torus", "com">>]
Domain == [scheme |-> "https", host |-> <<"torus", "com">>]
Plain == [scheme |-> "http", host |-> <<"app", "torus", "com">>]

Everywhere == [form |-> "any", scheme |-> "", host |-> <<>>]
Exact(origin) == [form |-> "exact"] @@ origin
Below(origin) == [form |-> "below"] @@ origin

Set(field, value) == <<"", field>> :> value
Prefixed(field, value) == <<"api_", field>> :> value

QuotaFields == {"quota_requests_per_minute", "quota_requests_per_hour",
                "quota_requests_per_day", "quota_requests_per_month",
                "quota_bandwidth_bytes_per_day", "quota_max_payload_bytes",
                "quota_max_concurrent_requests"}

Defaulted == <<>>

\* Each set is about one part of the configuration.
Few(fields) == {some \in SUBSET fields : Cardinality(some) <= 2}

Switched == {[f \in {<<"", field>> : field \in off} |-> "no"] :
               off \in Few({"rate_limit_enabled", "validation_enabled",
                               "versioning_enabled", "audit_enabled",
                               "compression_enabled", "compression_gzip_enabled"})}

Quotas == {Set("quotas_enabled", "yes") @@
             [f \in {<<"", field>> : field \in fields} |-> 2] : fields \in Few(QuotaFields)}
          \cup {Set("quota_max_payload_bytes", Malformed),
                Set("rate_limit_requests", 0) @@ Set("rate_limit_algorithm", "junk"),
                Set("rate_limit_requests", 5) @@ Prefixed("rate_limit_requests", 7)
                  @@ Set("rate_limit_burst", 9) @@ Set("rate_limit_scope", "planet"),
                Set("quotas_enabled", "yes") @@ Set("quota_scope", "user")
                  @@ Set("idempotency_enabled", "on")}

Proxied == {Set("trusted_proxies", entries) @@ Set("trust_forwarded_headers", trust) :
              entries \in {<<>>, <<"ours">>, <<"one", Blank>>, <<"typo">>, <<"typo", "one">>},
              trust \in {"true", "false"}}

CrossOrigin == {Set("cors_allow_origins", exact) @@ Set("cors_allow_origin_patterns", patterns)
             @@ Set("cors_allow_credentials", credentials) @@ Set("cors_allow_headers", headers) :
             exact \in {<<>>, <<Everywhere>>, <<Exact(App)>>, <<Everywhere, Exact(App)>>},
             patterns \in {<<>>, <<Below(Domain)>>, <<Everywhere>>},
             credentials \in {"true", "false"}, headers \in {<<>>, <<"x-teaf">>, <<"*">>}}

Versioned == {Set("versioning_supported", supported) @@ Set("versioning_strict", strict)
                @@ Set("versioning_strategies", strategies) @@ Set("versioning_default", "v2") :
                supported \in {<<"v1">>, <<"v1", "2.0", "junk">>, <<"junk">>},
                strict \in {"true", "false"},
                strategies \in {<<>>, <<"header", "uri">>, <<"media_type", "junk">>}}

Checked == {Set("validation_allowed_content_types", <<"json">>)
              @@ Set("validation_required_headers", <<"x-teaf">>),
            Set("validation_blocked_user_agents", <<"bot">>)
              @@ Set("validation_require_user_agent", "1"),
            Set("validation_allowed_user_agents", <<"browser">>)}

Process == INSTANCE Settings

\* The settings of each environment, with and without variables of the process.
FromSettings == {Process!GetSettings(environment, variables) :
                  environment \in Process!Environment,
                  variables \in {<<>>, Prefixed("quotas_enabled", "true")
                                       @@ Prefixed("quota_requests_per_day", 2)}}

Deployments == {Defaulted} \cup FromSettings \cup Switched \cup Quotas \cup Proxied \cup CrossOrigin
               \cup Versioned \cup Checked

-----------------------------------------------------------------------------
NoVersion == [uri |-> "", header |-> "", media_type |-> ""]

Visit == [method |-> "GET", url |-> "short", body |-> "empty", type |-> None, agent |-> "browser",
          headers |-> {"x-teaf"}, secure |-> TRUE, origin |-> None, wants |-> None, asks |-> {},
          version |-> NoVersion, accept |-> <<>>, connection |-> client1, chain |-> <<>>]

Chains == UNION {[1 .. n -> {client1, client2, proxy1, proxy2, junk}] : n \in 0 .. 2}

Coding(token, q) == [token |-> token, q |-> q]

Requests ==
    {[Visit EXCEPT !.connection = c, !.chain = chain] :
        c \in {client1, proxy1, proxy2}, chain \in Chains} \cup
    {[Visit EXCEPT !.origin = o, !.method = m] : o \in {App, Domain, Plain}, m \in {"GET", "PUT"}} \cup
    {[Visit EXCEPT !.origin = o, !.method = "OPTIONS", !.wants = m, !.asks = hs] :
        o \in {App, Domain, Plain}, m \in {"GET", "PUT", "PURGE"},
        hs \in {{}, {"accept"}, {"x-teaf"}}} \cup
    {[Visit EXCEPT !.version = [uri |-> u, header |-> h, media_type |-> t]] :
        u \in {"", "1"}, h \in {"", "v2", "v3", "junk"}, t \in {"", "1", "2.0"}} \cup
    {[Visit EXCEPT !.accept = <<Coding(a, i), Coding(b, j)>>] :
        a, b \in {"gzip", "br", "*"}, i, j \in {0, 5, 10}} \cup
    {[Visit EXCEPT !.method = "POST", !.body = size, !.type = type, !.headers = hs] :
        size \in {"small", "huge"}, type \in {None, "json", "text"}, hs \in {{}, {"x-teaf"}}} \cup
    {[Visit EXCEPT !.agent = "bot"], [Visit EXCEPT !.agent = None],
     [Visit EXCEPT !.url = "long"], [Visit EXCEPT !.url = "docs", !.secure = FALSE]}

Fine == [raises |-> None, compressible |-> TRUE, encoding |-> None]
Pages == {Fine, [Fine EXCEPT !.compressible = FALSE], [Fine EXCEPT !.encoding = "br"]} \cup
         {[Fine EXCEPT !.raises = exception] :
            exception \in {"BusinessException", "InfrastructureException", "Exception"}}

-----------------------------------------------------------------------------
MCInit ==
    /\ about \in {"retries", "policies"}
    /\ Init
    /\ Policy!Init
    /\ about = "retries" => values = Defaulted

MCNext ==
    /\ UNCHANGED about
    /\ \/ about = "retries" /\ Next /\ UNCHANGED policyVars
       \/ about = "policies" /\ Policy!Next /\ UNCHANGED vars

MCSpec == MCInit /\ [][MCNext]_<<about, vars, policyVars>>
=============================================================================
