----------------------------- MODULE Protection -----------------------------
(***************************************************************************)
(* What ApiProtectionModule is built from, and what it is built into: the  *)
(* configuration read from a mapping of values, the rules, the gateway and *)
(* the manifest (teaf/_internal/api/module, api/gateway).                  *)
(*                                                                         *)
(* A value is what it reads as: the text of a flag or a name, a number or  *)
(* Malformed, a sequence with its blank parts. Fields that only set a size *)
(* or a header's name are left out.                                        *)
(***************************************************************************)
EXTENDS Settings, Sequences, SequencesExt

CONSTANTS
    Malformed, Blank,    \* what is no number, and a part with nothing in it
    ParsedVersion,       \* ApiVersion.parse: a function of the texts it reads
    Network,             \* a function: the addresses of each entry ip_network reads
    BrotliInstalled      \* one of the brotli libraries can be imported

ProtectionScope == {"global", "user", "api_key", "tenant", "ip", "endpoint", "role"}
RateLimitAlgorithm == {"fixed_window", "sliding_window", "token_bucket", "leaky_bucket"}
VersioningStrategy == {"uri", "header", "media_type"}

-----------------------------------------------------------------------------
(* The configuration.                                                      *)

\* Fields of ApiProtectionConfiguration and their defaults, by type.
Flags ==
    [rate_limit_enabled |-> TRUE, quotas_enabled |-> FALSE,
     cors_allow_credentials |-> FALSE, versioning_enabled |-> TRUE,
     versioning_strict |-> TRUE, validation_enabled |-> TRUE,
     validation_require_user_agent |-> FALSE, compression_enabled |-> TRUE,
     compression_gzip_enabled |-> TRUE, compression_brotli_enabled |-> TRUE,
     idempotency_enabled |-> FALSE, audit_enabled |-> TRUE,
     audit_memory_sink_enabled |-> TRUE, audit_logging_sink_enabled |-> FALSE,
     trust_forwarded_headers |-> TRUE]

Numbers ==
    [rate_limit_requests |-> 1000, rate_limit_burst |-> 0,
     quota_requests_per_minute |-> 0, quota_requests_per_hour |-> 0,
     quota_requests_per_day |-> 0, quota_requests_per_month |-> 0,
     quota_bandwidth_bytes_per_day |-> 0, quota_max_payload_bytes |-> 0,
     quota_max_concurrent_requests |-> 0]

Names ==
    [rate_limit_algorithm |-> "fixed_window", rate_limit_scope |-> "ip",
     quota_scope |-> "tenant", versioning_default |-> "v1"]

Lists ==
    [cors_allow_origins |-> <<>>, cors_allow_origin_patterns |-> <<>>,
     cors_allow_headers |-> <<>>, cors_allow_methods |->
         <<"GET", "HEAD", "POST", "PUT", "PATCH", "DELETE", "OPTIONS">>,
     versioning_supported |-> <<"v1">>,
     versioning_strategies |-> <<"uri", "header", "media_type">>,
     validation_allowed_content_types |-> <<>>, validation_required_headers |-> <<>>,
     validation_blocked_user_agents |-> <<>>, validation_allowed_user_agents |-> <<>>,
     trusted_proxies |-> <<>>]

\* values.get(), and the value of a field: the one with the prefix counts when
\* there are both.
ValueAt(values, name) == IF name \in DOMAIN values THEN values[name] ELSE None
Lookup(values, field) ==
    LET prefixed == ValueAt(values, <<"api_", field>>)
    IN  IF prefixed # None THEN prefixed ELSE ValueAt(values, <<"", field>>)

OrDefault(value, default) == IF value = None THEN default ELSE value
CoerceBool(text) == text \in {"1", "true", "yes", "on"}
CoerceTuple(parts) == SelectSeq(parts, LAMBDA part : part # Blank)

\* A member that is appended on a condition.
When(condition, member) == IF condition THEN <<member>> ELSE <<>>

\* A number that is not one raises out of from_mapping: it stays Malformed.
FromMapping(values) ==
    [f \in UNION {DOMAIN Flags, DOMAIN Numbers, DOMAIN Names, DOMAIN Lists} |->
        LET value == Lookup(values, f)
        IN  CASE f \in DOMAIN Flags -> IF value = None THEN Flags[f] ELSE CoerceBool(value)
              [] f \in DOMAIN Numbers -> OrDefault(value, Numbers[f])
              [] f \in DOMAIN Names -> OrDefault(value, Names[f])
              [] f \in DOMAIN Lists -> CoerceTuple(OrDefault(value, Lists[f]))]

Raises(config) == \E f \in DOMAIN Numbers : config[f] = Malformed

\* An unknown name falls back.
OneOf(name, known, fallback) == IF name \in known THEN name ELSE fallback
Algorithm(config) == OneOf(config.rate_limit_algorithm, RateLimitAlgorithm, "fixed_window")
Scope(config) == OneOf(config.rate_limit_scope, ProtectionScope, "ip")
QuotaScope(config) == OneOf(config.quota_scope, ProtectionScope, "tenant")
Strategies(config) ==
    SelectSeq(config.versioning_strategies, LAMBDA s : s \in VersioningStrategy)

\* What is no version is dropped.
SupportedVersions(config) ==
    LET readable == ToSet(config.versioning_supported) \cap DOMAIN ParsedVersion
    IN  IF readable = {} THEN {1} ELSE {ParsedVersion[text] : text \in readable}

DefaultVersion(config) ==
    LET readable == SelectSeq(config.versioning_supported,
                              LAMBDA text : text \in DOMAIN ParsedVersion)
    IN  IF config.versioning_default \in DOMAIN ParsedVersion
        THEN ParsedVersion[config.versioning_default]
        ELSE IF readable # <<>> THEN ParsedVersion[readable[1]] ELSE 1

-----------------------------------------------------------------------------
(* The rules.                                                              *)

BuildRateLimitRules(config) ==
    IF config.rate_limit_enabled /\ config.rate_limit_requests > 0
    THEN <<[name |-> "default", limit |-> config.rate_limit_requests,
            algorithm |-> Algorithm(config), scope |-> Scope(config),
            capacity |-> IF config.rate_limit_burst = 0 THEN config.rate_limit_requests
                         ELSE config.rate_limit_burst]>>
    ELSE <<>>

\* A limit of zero is no rule.
QuotaRule(config, name, kind, field, period) ==
    When(config[field] > 0,
         [name |-> name, kind |-> kind, limit |-> config[field], period |-> period,
          scope |-> QuotaScope(config)])

\* Mutant: the most restrictive rule is built first.
BuildQuotaRulesConcurrentFirst(config) ==
    LET Of(n, k, f, p) == QuotaRule(config, n, k, f, p)
    IN  IF ~config.quotas_enabled THEN <<>>
        ELSE Of("max-concurrent", "concurrent", "quota_max_concurrent_requests", "minute")
             \o Of("requests-per-minute", "requests", "quota_requests_per_minute", "minute")
             \o Of("requests-per-day", "requests", "quota_requests_per_day", "day")

BuildQuotaRules(config) ==
    LET Of(n, k, f, p) == QuotaRule(config, n, k, f, p)
    IN  IF ~config.quotas_enabled THEN <<>>
        ELSE Of("requests-per-minute", "requests", "quota_requests_per_minute", "minute")
             \o Of("requests-per-hour", "requests", "quota_requests_per_hour", "hour")
             \o Of("requests-per-day", "requests", "quota_requests_per_day", "day")
             \o Of("requests-per-month", "requests", "quota_requests_per_month", "month")
             \o Of("bandwidth-per-day", "bandwidth", "quota_bandwidth_bytes_per_day", "day")
             \o Of("max-payload", "payload", "quota_max_payload_bytes", "day")
             \o Of("max-concurrent", "concurrent", "quota_max_concurrent_requests", "minute")

-----------------------------------------------------------------------------
(* ApiProtectionModule and ApiGateway.                                     *)

MIDDLEWARE_ORDER == <<"cors", "audit", "compression", "versioning", "validation",
                      "rate_limit", "quota", "idempotency">>

\* The server's order of preference; a provider without its library is dropped.
CompressionProviders(config) ==
    When(config.compression_brotli_enabled /\ BrotliInstalled, "br")
    \o When(config.compression_gzip_enabled, "gzip")

AuditSinks(config) ==
    When(config.audit_memory_sink_enabled, "memory")
    \o When(config.audit_logging_sink_enabled, "logging")

\* TrustedProxies.parse: what is no network is dropped.
TrustedProxies(config) ==
    SelectSeq(config.trusted_proxies, LAMBDA entry : entry \in DOMAIN Network)

\* Subsystems that the gateway is given.
Parts(config) ==
    {part \in ToSet(MIDDLEWARE_ORDER) :
        CASE part = "cors" -> config.cors_allow_origins # <<>>
                              \/ config.cors_allow_origin_patterns # <<>>
          [] part = "audit" -> config.audit_enabled
          [] part = "compression" -> config.compression_enabled
          [] part = "versioning" -> config.versioning_enabled
          [] part = "validation" -> config.validation_enabled
          [] part = "rate_limit" -> config.rate_limit_enabled
          [] part = "quota" -> config.quotas_enabled
          [] part = "idempotency" -> config.idempotency_enabled}

ApiGateway(config) ==
    [parts |-> Parts(config),
     rateLimitRules |-> BuildRateLimitRules(config),
     quotaRules |-> BuildQuotaRules(config),
     origins |-> ToSet(config.cors_allow_origins) \cup ToSet(config.cors_allow_origin_patterns),
     anyOrigin |-> \E o \in ToSet(config.cors_allow_origins) : o.form = "any",
     methods |-> ToSet(config.cors_allow_methods),
     headers |-> ToSet(config.cors_allow_headers),
     credentials |-> config.cors_allow_credentials,
     supported |-> SupportedVersions(config), default |-> DefaultVersion(config),
     strategies |-> Strategies(config), strict |-> config.versioning_strict,
     providers |-> CompressionProviders(config),
     sinks |-> AuditSinks(config),
     contentTypes |-> ToSet(config.validation_allowed_content_types),
     requiredHeaders |-> ToSet(config.validation_required_headers),
     blockedAgents |-> ToSet(config.validation_blocked_user_agents),
     allowedAgents |-> ToSet(config.validation_allowed_user_agents),
     requireAgent |-> config.validation_require_user_agent,
     proxies |-> TrustedProxies(config),
     trustForwarded |-> config.trust_forwarded_headers]

\* install(): the middlewares, from the outermost to the innermost.
EnabledMiddlewares(gateway) ==
    SelectSeq(MIDDLEWARE_ORDER, LAMBDA name : name \in gateway.parts)

\* The stages that read the client's address, when any sender may name one.
WarnsOf(gateway) ==
    IF gateway.proxies # <<>> \/ ~gateway.trustForwarded THEN {}
    ELSE {"rate_limit", "quota", "audit"} \cap gateway.parts

\* refresh()
Health(gateway) ==
    IF EnabledMiddlewares(gateway) = <<>> THEN "degraded" ELSE "healthy"

-----------------------------------------------------------------------------
(* The manifest.                                                           *)

API_PROTECTION_EVENTS ==
    <<"request.accepted", "request.rejected", "rate.limit.exceeded", "quota.exceeded",
      "idempotency.detected", "request.compressed", "audit.recorded", "version.negotiated">>

\* The contracts registered in the container, of the parts that can work.
Services(gateway) ==
    LET Of(part, contract) == When(part \in gateway.parts, contract)
    IN  <<"ApiGateway">> \o Of("rate_limit", "RateLimiter") \o Of("quota", "QuotaManager")
        \o Of("audit", "ApiAudit") \o Of("validation", "RequestValidator")
        \o Of("idempotency", "IdempotencyManager")
        \o When("compression" \in gateway.parts /\ gateway.providers # <<>>,
                "CompressionProvider")

BuildManifest(gateway) ==
    [id |-> "api-protection", slug |-> TRUE, version |-> TRUE, compatible |-> TRUE,
     dependencies |-> <<>>, documented |-> TRUE,
     capabilities |-> <<"api.protection", "api.rate-limit", "api.quota", "api.cors",
                        "api.versioning", "api.validation", "api.compression",
                        "api.idempotency", "api.audit">>,
     configuration |-> <<"rate_limit_enabled", "rate_limit_requests", "rate_limit_algorithm",
                         "quotas_enabled", "cors_allow_origins", "versioning_supported",
                         "compression_enabled", "idempotency_enabled", "audit_enabled">>,
     services |-> Services(gateway), checks |-> <<"api.protection.ping">>,
     events |-> API_PROTECTION_EVENTS]
=============================================================================
