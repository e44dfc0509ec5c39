---------------------------- MODULE MCFramework ----------------------------
(***************************************************************************)
(* Instance of Framework: every order of up to three of the bundled        *)
(* modules as they come, each of them configured in the ways that change   *)
(* what it does, next to a cache and to a module of a third party, and     *)
(* configured from the settings of an environment; by create_app and by    *)
(* Runtimes of several versions.                                           *)
(***************************************************************************)
EXTENDS Framework

Bare(field, value) == <<"", field>> :> value
Named(prefix, field, value) == <<prefix, field>> :> value

Given(id, values, exporters) == [id |-> id, values |-> values, exporters |-> exporters]
AsItComes(id) == Given(id, <<>>, <<>>)

Orders == {o \in UNION {[1 .. n -> BundledModules] : n \in 1 .. 3} : IsInjective(o)}

Varied ==
    {Given("database", values, <<>>) : values \in
        {Bare("dialect", "postgresql"), Bare("dialect", "postgresql") @@ Bare("pool_size", Malformed),
         Bare("dialect", "sqlserver"), Bare("dialect", "oracle"), Bare("database", "app.db")}} \cup
    {Given("cache", values, <<>>) : values \in
        {Bare("backend", "redis"), Named("cache_", "backend", "redis") @@ Bare("backend", "memory"),
         Bare("backend", "memcached"), Bare("backend", "redis") @@ Bare("redis_url", "http"),
         Bare("backend", "redis") @@ Bare("max_connections", Malformed),
         Named("cache_", "backend", "") @@ Bare("max_connections", 0),
         Bare("backend", "redis") @@ Named("cache_", "max_connections", 0)}} \cup
    {Given("observability", values, exporters) : exporters \in {<<>>, <<"jaeger">>}, values \in
        {<<>>, Bare("sampling_ratio", 200), Bare("otlp_timeout_seconds", Malformed),
         Bare("otlp_exporter_enabled", "yes") @@ Bare("prometheus_exporter_enabled", "1"),
         Bare("console_exporter_enabled", "no"),
         Bare("tracing_enabled", "no") @@ Bare("metrics_enabled", "no")}} \cup
    {Given("security", values, <<>>) : values \in
        {Bare("jwt_secret", 20), Bare("jwt_algorithm", "HS512"), Bare("password_hasher", "bcrypt"),
         Bare("jwt_secret", 64) @@ Bare("jwt_algorithm", "HS512"),
         Bare("jwt_secret", 8) @@ Bare("jwt_algorithm", "RS256")}} \cup
    {Given("api-protection", values, <<>>) : values \in
        {[f \in {<<"", part>> : part \in {"rate_limit_enabled", "versioning_enabled",
              "validation_enabled", "compression_enabled", "audit_enabled"}} |-> "no"],
         Bare("quotas_enabled", "yes") @@ Bare("idempotency_enabled", "on"),
         Bare("rate_limit_requests", Malformed)}}

Needs(op, version) == [runtime |-> [op |-> op, version |-> version]]

Custom ==
    {Given("custom", declared, <<>>) : declared \in
        {[capabilities |-> <<"custom", "cache.health">>, services |-> <<"CacheProvider">>],
         [capabilities |-> <<"custom">>, services |-> <<"CacheProvider", "Custom">>,
          checks |-> <<"custom.ping">>],
         [capabilities |-> <<"custom", "custom">>], [dependencies |-> <<"custom">>]}
        \cup {Needs(op, version) : op \in {"==", ">=", "<=", ">", "<", "~="},
                                   version \in {<<0, 10>>, <<0, 10, 3>>, <<0, 11, 0>>, <<1>>}}}

Settled == {GetSettings(environment, variables) :
              environment \in Environment,
              variables \in {<<>>, Named("cache_", "backend", "redis"),
                             Named("api_", "quotas_enabled", "true")}}
AloneAsItComes ==
    [host |-> "runtime", version |-> None, extras |-> {}, given |-> <<AsItComes("cache")>>]

\* create_app, and a Runtime that is built by hand with no version or with that of
\* tests/integration/test_database_module_bootstrap.py and examples/basic-module.
Hosts == {<<"application", None>>} \cup ({"runtime"} \X {None, <<0, 5, 0>>, <<0, 6, 1>>})

Combinations ==
    {[k \in DOMAIN o |-> AsItComes(o[k])] : o \in Orders}
    \cup {<<x, AsItComes("cache")>> : x \in Varied \cup Custom}
    \cup {<<AsItComes("cache"), x>> : x \in Varied \cup Custom}
    \cup {<<Given(id, values, <<>>)>> : values \in Settled, id \in {"cache", "api-protection"}}

Installations ==
    {[host |-> h[1], version |-> h[2], extras |-> e, given |-> g] :
       h \in Hosts, e \in {{}, {"redis"}}, g \in Combinations}

\* Security and observability from settings with one changed field.
FromSettings ==
    [host : {"application"}, version : {None}, extras : {{}},
     given : {<<Given(id, GetSettings("production", changed), <<>>)>> :
                id \in {"security", "observability"},
                changed \in {Named("jwt_", "access_token_ttl_seconds", 60),
                             Named("observability_", "otlp_exporter_enabled", "true")}}]

OneDatabase ==
    [host : {"application"}, version : {None}, extras : {{}},
     given : {<<AsItComes("database")>>}]

Parsed == ("v1" :> 1)
NoNetwork == <<>>
Drivers == {"aiosqlite", "asyncpg"}
=============================================================================
