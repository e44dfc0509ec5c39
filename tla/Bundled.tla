------------------------------ MODULE Bundled ------------------------------
(***************************************************************************)
(* The modules that come with TEAF (teaf/_internal/modules and, for        *)
(* api-protection, Protection): the configuration each reads from a        *)
(* mapping, what keeps it from being built, and its manifest; and how the  *)
(* SDK checks a manifest against the versions it runs with.                *)
(*                                                                         *)
(* A mapping is as in Settings. A URL is its scheme, a ratio a percentage, *)
(* a version the sequence of its numbers.                                  *)
(***************************************************************************)
EXTENDS Protection, Certification, FiniteSetsExt

CONSTANT Importable   \* the database drivers that are installed

-----------------------------------------------------------------------------
(* The configurations: the fields and their defaults.                      *)

DatabaseConfiguration ==
    [dialect |-> "sqlite", database |-> ":memory:", host |-> None, port |-> None,
     username |-> None, password |-> None, pool_size |-> 5, max_overflow |-> 10,
     echo |-> "false"]

CacheConfiguration ==
    [enabled |-> "false", backend |-> "memory", redis_url |-> "redis",
     key_prefix |-> "teaf", connect_timeout_seconds |-> 5,
     operation_timeout_seconds |-> 5, max_connections |-> 10, tls_verify |-> "true"]

ObservabilityConfiguration ==
    [service_name |-> "teaf", service_version |-> "0.0.0", environment |-> "development",
     tracing_enabled |-> "true", metrics_enabled |-> "true", sampling_ratio |-> 100,
     console_exporter_enabled |-> "true", otlp_exporter_enabled |-> "false",
     otlp_traces_endpoint |-> None, otlp_metrics_endpoint |-> None,
     otlp_timeout_seconds |-> None, prometheus_exporter_enabled |-> "false",
     prometheus_prefix |-> "", metrics_export_interval_millis |-> 60000]

\* The secret generated by default is token_urlsafe(32): 43 bytes.
SecurityConfiguration ==
    [jwt_secret |-> 43, jwt_algorithm |-> "HS256", jwt_issuer |-> "teaf",
     jwt_audience |-> "teaf", access_token_ttl_seconds |-> 900,
     refresh_token_ttl_seconds |-> 1209600, clock_skew_seconds |-> 30,
     api_key_hash_secret |-> None, api_key_header |-> "X-API-Key",
     api_key_query_param |-> "api_key", password_hasher |-> "argon2"]

\* from_mapping: a field that is given replaces its default.
Assigned(values, defaults) ==
    [f \in DOMAIN defaults |->
        IF <<"", f>> \in DOMAIN values /\ values[<<"", f>>] # None
        THEN values[<<"", f>>] ELSE defaults[f]]

DatabaseFromMapping(values) == Assigned(values, DatabaseConfiguration)
ObservabilityFromMapping(values) == Assigned(values, ObservabilityConfiguration)
SecurityFromMapping(values) == Assigned(values, SecurityConfiguration)

\* The cache looks a field up with its prefix first, and takes the default for
\* a name that is empty and for a number that is not one.
CacheFromMapping(values) ==
    [f \in DOMAIN CacheConfiguration |->
        LET prefix == IF <<"cache_", f>> \in DOMAIN values THEN "cache_" ELSE ""
            value == ValueAt(values, <<prefix, f>>)
            blank == IF f \in {"backend", "redis_url", "key_prefix"} THEN {None, ""}
                     ELSE {None, Malformed}
        IN  IF value \in blank THEN CacheConfiguration[f] ELSE value]

Configuration(module, values) ==
    CASE module = "database" -> DatabaseFromMapping(values)
      [] module = "cache" -> CacheFromMapping(values)
      [] module = "observability" -> ObservabilityFromMapping(values)
      [] module = "security" -> SecurityFromMapping(values)
      [] module = "api-protection" -> FromMapping(values)

Dialect == {"sqlite", "postgresql", "sqlserver"}
CacheBackend == {"memory", "redis"}

\* from_mapping raises.
Unreadable(module, config) ==
    \/ module \notin {"cache", "api-protection"} /\ \E f \in DOMAIN config : config[f] = Malformed
    \/ module = "api-protection" /\ Raises(config)
    \/ module = "database" /\ config.dialect \notin Dialect
    \/ module = "cache" /\ config.backend \notin CacheBackend

-----------------------------------------------------------------------------
(* The constructors.                                                       *)

\* build_database_url and the import of its driver by create_async_engine.
Driver(dialect) ==
    [sqlite |-> "aiosqlite", postgresql |-> "asyncpg", sqlserver |-> "aioodbc"][dialect]

\* One connection for the whole process: the database is its memory.
IsInMemorySqlite(config) ==
    config.dialect = "sqlite" /\ config.database \in {"", ":memory:"}

\* RedisCacheConfiguration.validated
RedisIsValid(config) ==
    config.redis_url \in {"redis", "rediss", "unix"} /\ config.max_connections >= 1

\* Exporters of Jaeger, Zipkin... that raise as soon as they are configured;
\* they come after the ones of the configuration.
Prepared == {"jaeger", "zipkin", "dynatrace", "elastic", "azure-monitor", "grafana",
             "datadog", "new-relic", "splunk"}

Exporters(config, extra) ==
    When(CoerceBool(config.console_exporter_enabled), "console")
    \o When(CoerceBool(config.otlp_exporter_enabled), "otlp")
    \o When(CoerceBool(config.prometheus_exporter_enabled), "prometheus") \o extra

\* create_engine
DriverIsMissing(config) == Driver(config.dialect) \notin Importable

\* create_cache_provider
CacheIsInvalid(config) == config.backend = "redis" /\ ~RedisIsValid(config)

\* The sampler, and the exporters as far as they are configured.
TelemetryIsInvalid(config, extra) ==
    \/ config.sampling_ratio \notin 0 .. 100
    \/ /\ CoerceBool(config.tracing_enabled) \/ CoerceBool(config.metrics_enabled)
       /\ Prepared \cap ToSet(Exporters(config, extra)) # {}

\* The constructor raises.
Unbuildable(module, config, extra) ==
    CASE module = "database" -> DriverIsMissing(config)
      [] module = "cache" -> CacheIsInvalid(config)
      [] module = "observability" -> TelemetryIsInvalid(config, extra)
      [] module = "security" -> SecretIsWeak(config.jwt_secret, config.jwt_algorithm)
      [] module = "api-protection" -> FALSE

\* The store outside of the process that the module's provider connects to.
Store(module, config) ==
    CASE module = "database" /\ ~IsInMemorySqlite(config) -> "database"
      [] module = "cache" /\ config.backend = "redis" -> "redis"
      [] OTHER -> None

\* What refresh() finds: an answer of the store, or something to work with.
StoreHealth(reachable) == IF reachable THEN "healthy" ELSE "unhealthy"

ObservabilityHealth(config, extra) ==
    IF Exporters(config, extra) = <<>> THEN "degraded" ELSE "healthy"

\* The provider registry has the anonymous and the JWT provider at least.
SecurityHealth == "healthy"

Refreshed(module, config, extra, reachable) ==
    CASE module \in {"database", "cache"} -> StoreHealth(reachable)
      [] module = "observability" -> ObservabilityHealth(config, extra)
      [] module = "security" -> SecurityHealth
      [] module = "api-protection" -> Health(ApiGateway(config))

-----------------------------------------------------------------------------
(* Versions.                                                               *)

FRAMEWORK_VERSION == <<0, 10, 3>>
SDK_VERSION == <<1, 0, 0>>

AnyVersion == [op |-> "*", version |-> <<>>]
AtLeast(version) == [op |-> ">=", version |-> version]

Padded(version, n) == [i \in 1 .. n |-> IF i <= Len(version) THEN version[i] ELSE 0]

\* Order of tuples of one length.
Precedes(v, w) ==
    \E i \in DOMAIN v : v[i] < w[i] /\ \A j \in 1 .. i - 1 : v[j] = w[j]

\* _satisfies_constraint
Satisfies(version, constraint) ==
    LET n == Max({Len(version), Len(constraint.version)})
        actual == Padded(version, n)
        required == Padded(constraint.version, n)
    IN  CASE constraint.op = "*" -> TRUE
          [] constraint.op = "==" -> actual = required
          [] constraint.op = ">=" -> ~Precedes(actual, required)
          [] constraint.op = "<=" -> ~Precedes(required, actual)
          [] constraint.op = ">" -> Precedes(required, actual)
          [] constraint.op = "<" -> Precedes(actual, required)
          [] constraint.op = "~=" -> Front(actual) = Front(required) /\ ~Precedes(actual, required)

\* What _COMPATIBILITY_PATTERN takes: two or three numbers.
WellWritten(constraint) == constraint.op = "*" \/ Len(constraint.version) \in {2, 3}

-----------------------------------------------------------------------------
(* The manifests.                                                          *)

\* ModuleBuilder: what is declared, and its defaults for the rest.
Built(id, declared) ==
    LET Of(field, default) == IF field \in DOMAIN declared THEN declared[field] ELSE default
        runtime == Of("runtime", AnyVersion)
        sdk == Of("sdk", AnyVersion)
    IN  [id |-> id, slug |-> Of("slug", TRUE), version |-> Of("version", TRUE),
         documented |-> Of("documented", TRUE), dependencies |-> Of("dependencies", <<>>),
         capabilities |-> Of("capabilities", <<>>), configuration |-> Of("configuration", <<>>),
         services |-> Of("services", <<>>), checks |-> Of("checks", <<>>),
         events |-> Of("events", <<>>), runtime |-> runtime, sdk |-> sdk,
         compatible |-> WellWritten(runtime) /\ WellWritten(sdk)]

DatabaseManifest ==
    Built("database",
      [capabilities |-> <<"database", "database.connection", "database.repository",
                          "database.transactions", "database.migration", "database.health">>,
       configuration |-> <<"dialect", "database", "host", "port", "username", "password",
                           "pool_size">>,
       services |-> <<"DatabaseProvider", "UnitOfWork", "DatabaseInstaller">>,
       checks |-> <<"database.ping">>,
       events |-> <<"database.connected", "database.disconnected">>,
       runtime |-> AtLeast(<<0, 5, 0>>), sdk |-> AtLeast(<<1, 0, 0>>)])

CacheManifest ==
    Built("cache",
      [capabilities |-> <<"cache", "cache.connection", "cache.health">>,
       configuration |-> <<"backend", "redis_url", "key_prefix", "max_connections">>,
       services |-> <<"CacheProvider">>, checks |-> <<"cache.ping">>, events |-> <<>>,
       runtime |-> AtLeast(<<0, 5, 0>>), sdk |-> AtLeast(<<1, 0, 0>>)])

\* Mutant: the module also declares the capability of the health of caches.
ObservabilityManifestOfCaches ==
    Built("observability",
      [capabilities |-> <<"observability", "observability.tracing", "cache.health">>,
       services |-> <<"Tracer", "Meter">>, checks |-> <<"observability.ping">>])

ObservabilityManifest ==
    Built("observability",
      [capabilities |-> <<"observability", "observability.tracing", "observability.metrics",
                          "observability.health">>,
       configuration |-> <<"service_name", "sampling_ratio", "console_exporter_enabled",
                           "otlp_exporter_enabled", "prometheus_exporter_enabled">>,
       services |-> <<"Tracer", "Meter">>, checks |-> <<"observability.ping">>,
       events |-> <<"trace.started", "trace.finished", "metric.recorded", "health.changed",
                    "export.completed", "diagnostic.generated">>,
       runtime |-> AtLeast(<<0, 6, 0>>), sdk |-> AtLeast(<<1, 0, 0>>)])

SecurityManifest ==
    Built("security",
      [capabilities |-> <<"security", "security.authentication", "security.authorization",
                          "security.tokens", "security.crypto">>,
       configuration |-> <<"jwt_secret", "jwt_algorithm", "access_token_ttl_seconds",
                           "refresh_token_ttl_seconds", "password_hasher">>,
       services |-> <<"IdentityProviderRegistry", "PasswordHasher", "CryptoProvider">>,
       checks |-> <<"security.ping">>,
       events |-> <<"authentication.started", "authentication.succeeded",
                    "authentication.failed", "authorization.started",
                    "authorization.succeeded", "authorization.failed", "token.created",
                    "token.refreshed", "token.revoked", "apikey.validated", "ldap.login",
                    "azuread.login">>,
       runtime |-> AtLeast(<<0, 6, 0>>), sdk |-> AtLeast(<<1, 0, 0>>)])

ManifestOf(module, config) ==
    CASE module = "database" -> DatabaseManifest
      [] module = "cache" -> CacheManifest
      [] module = "observability" -> ObservabilityManifest
      [] module = "security" -> SecurityManifest
      [] module = "api-protection" ->
           LET declared == BuildManifest(ApiGateway(config))
           IN  Built(module,
                 [capabilities |-> declared.capabilities,
                  configuration |-> declared.configuration, services |-> declared.services,
                  checks |-> declared.checks, events |-> declared.events,
                  runtime |-> AtLeast(<<0, 6, 0>>), sdk |-> AtLeast(<<1, 0, 0>>)])
=============================================================================
