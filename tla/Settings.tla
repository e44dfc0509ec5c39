------------------------------ MODULE Settings ------------------------------
(***************************************************************************)
(* The settings of an application (teaf/_internal/config) and the policy   *)
(* of its secrets (security/tokens/jwt_policy.py).                         *)
(*                                                                         *)
(* Settings are a function of their names; a name is a prefix and the      *)
(* field it qualifies, as from_mapping of the modules takes them apart. A  *)
(* value is what it reads as: the text of a flag or a name, a number, the  *)
(* parts of a list, or None; a secret is its length in bytes.              *)
(***************************************************************************)
EXTENDS Integers, TLC

CONSTANT None

Environment == {"development", "testing", "staging", "production"}

\* The environment that ENVIRONMENT names (stripped and in lower case), or
\* None: get_environment raises.
GetEnvironment(raw) ==
    CASE raw = None -> "development"
      [] raw \in Environment -> raw
      [] OTHER -> None

MINIMUM_SECRET_BYTES == [HS256 |-> 32, HS384 |-> 48, HS512 |-> 64]

\* Any other algorithm signs with a key that has no length to measure.
MinimumSecretBytes(algorithm) ==
    IF algorithm \in DOMAIN MINIMUM_SECRET_BYTES THEN MINIMUM_SECRET_BYTES[algorithm] ELSE 0

\* describe_secret_violation
SecretIsWeak(secret, algorithm) ==
    secret # None /\ secret < MinimumSecretBytes(algorithm)

-----------------------------------------------------------------------------
(* The fields of Settings and their defaults, by the part they are for.    *)

Under(prefix, fields) ==
    [name \in {<<prefix, f>> : f \in DOMAIN fields} |-> fields[name[2]]]

ServerFields ==
    Under("", [app_name |-> "TEAF", environment |-> "development", debug |-> "false",
               host |-> "0.0.0.0", port |-> 8000, log_level |-> "INFO",
               log_format |-> "console", log_file |-> None, docs_enabled |-> "true"])

SecurityFields ==
    Under("jwt_", [access_token_ttl_seconds |-> 900, refresh_token_ttl_seconds |-> 1209600,
                   clock_skew_seconds |-> 30]) @@
    Under("", [jwt_secret |-> None, jwt_algorithm |-> "HS256", jwt_issuer |-> "teaf",
               jwt_audience |-> "teaf", api_key_header |-> "X-API-Key",
               api_key_query_param |-> "api_key", api_key_hash_secret |-> None,
               password_hasher |-> "argon2", password_min_length |-> 12,
               argon2_time_cost |-> 3, argon2_memory_cost |-> 65536,
               argon2_parallelism |-> 4, bcrypt_rounds |-> 12,
               secret_rotation_enabled |-> "false"])

HeaderFields ==
    Under("security_", [headers_enabled |-> "true", hsts_max_age_seconds |-> 31536000,
                        frame_options |-> "DENY", content_security_policy |-> "none"])

CacheFields ==
    Under("cache_", [enabled |-> "false", backend |-> "memory", redis_url |-> "redis",
                     key_prefix |-> "teaf", connect_timeout_seconds |-> 5,
                     operation_timeout_seconds |-> 5, max_connections |-> 10,
                     tls_verify |-> "true"])

\* A ratio is a percentage.
ObservabilityFields ==
    Under("observability_",
          [service_version |-> "0.0.0", tracing_enabled |-> "true",
           metrics_enabled |-> "true", sampling_ratio |-> 100,
           console_exporter_enabled |-> "true", otlp_exporter_enabled |-> "false",
           otlp_traces_endpoint |-> None, otlp_metrics_endpoint |-> None,
           otlp_timeout_seconds |-> None, prometheus_exporter_enabled |-> "false",
           prometheus_prefix |-> "", metrics_export_interval_millis |-> 60000])

ApiFields ==
    Under("api_",
          [rate_limit_enabled |-> "true", rate_limit_requests |-> 1000,
           rate_limit_algorithm |-> "fixed_window", rate_limit_scope |-> "ip",
           rate_limit_burst |-> 0, quotas_enabled |-> "false", quota_scope |-> "tenant",
           quota_requests_per_minute |-> 0, quota_requests_per_hour |-> 0,
           quota_requests_per_day |-> 0, quota_requests_per_month |-> 0,
           quota_bandwidth_bytes_per_day |-> 0, quota_max_payload_bytes |-> 0,
           quota_max_concurrent_requests |-> 0,
           cors_allow_origins |-> <<>>, cors_allow_origin_patterns |-> <<>>,
           cors_allow_methods |-> <<"GET", "HEAD", "POST", "PUT", "PATCH", "DELETE", "OPTIONS">>,
           cors_allow_headers |-> <<>>, cors_allow_credentials |-> "false",
           versioning_enabled |-> "true", versioning_supported |-> <<"v1">>,
           versioning_default |-> "v1",
           versioning_strategies |-> <<"uri", "header", "media_type">>,
           versioning_strict |-> "true", validation_enabled |-> "true",
           validation_allowed_content_types |-> <<>>, validation_required_headers |-> <<>>,
           validation_blocked_user_agents |-> <<>>, validation_allowed_user_agents |-> <<>>,
           validation_require_user_agent |-> "false", compression_enabled |-> "true",
           compression_gzip_enabled |-> "true", compression_brotli_enabled |-> "true",
           idempotency_enabled |-> "false", audit_enabled |-> "true",
           audit_memory_sink_enabled |-> "true", audit_logging_sink_enabled |-> "false",
           trust_forwarded_headers |-> "true", trusted_proxies |-> <<>>])

Fields ==
    ServerFields @@ SecurityFields @@ HeaderFields @@ CacheFields
    @@ ObservabilityFields @@ ApiFields

\* What the class of each environment sets otherwise.
OfEnvironment(environment) ==
    CASE environment = "development" ->
           Under("", [debug |-> "true", log_level |-> "DEBUG"])
      [] environment = "testing" ->
           Under("", [environment |-> "testing", debug |-> "true", log_level |-> "WARNING",
                      argon2_time_cost |-> 1, argon2_memory_cost |-> 8,
                      argon2_parallelism |-> 1, bcrypt_rounds |-> 4])
      [] environment = "staging" ->
           Under("", [environment |-> "staging", log_format |-> "json"])
      [] environment = "production" ->
           Under("", [environment |-> "production", log_format |-> "json",
                      docs_enabled |-> "false", secret_rotation_enabled |-> "true"]) @@
           Under("api_", [audit_logging_sink_enabled |-> "true"])

\* get_settings(): the variables of the process count before the classes.
\* None: the environment is unknown or the secret is too short, and it raises.
GetSettings(raw, variables) ==
    LET environment == GetEnvironment(raw)
        settings == variables @@ OfEnvironment(environment) @@ Fields
    IN  IF environment = None \/ SecretIsWeak(settings[<<"", "jwt_secret">>],
                                              settings[<<"", "jwt_algorithm">>])
        THEN None ELSE settings
=============================================================================
