----------------------------- MODULE Framework -----------------------------
(***************************************************************************)
(* The bundled modules, and one of a third party, in one runtime: they are *)
(* built from their mappings, then bootstrapped in order by the lifespan   *)
(* of create_app or against a bare Runtime, and stopped in reverse order.  *)
(* Lifespan has the stages and hooks of modules in general; here are the   *)
(* configurations, manifests, versions, registries and stores of these.    *)
(*                                                                         *)
(* Each store that a module connects to may stop and return at any time.   *)
(* The health of a module is what its start saw: /health, /ready and the   *)
(* diagnostic report read what refresh() kept.                             *)
(***************************************************************************)
EXTENDS Bundled

CONSTANTS
    Installation,   \* [host, version, given, extras]: who bootstraps, with which
                    \* framework_version (None if it says none), the sequence of
                    \* modules, and the optional libraries that are installed
    MaxChanges      \* bound on how often a store stops or returns

\* _INFRASTRUCTURE_MODULES: registered by create_app, without dependencies
\* but the one of ai.
InfrastructureModules == {"database", "storage", "ai", "scheduler", "notification"}

BundledModules == {"database", "cache", "observability", "security", "api-protection"}

\* Modules are the bundled ones and any of third parties, whose manifests list
\* what they declare; the driver of the default database is a dependency of
\* TEAF; and no default is what is no number.
FrameworkAssumption ==
    /\ None \notin {"database", "redis", "invalid", "incompatible", "registered"}
    /\ "aiosqlite" \in Importable
    /\ \A defaults \in {DatabaseConfiguration, ObservabilityConfiguration,
                        SecurityConfiguration, Numbers} :
         \A f \in DOMAIN defaults : defaults[f] # Malformed
    /\ \A x \in Installation :
         /\ x.extras \subseteq {"redis"}
         /\ x.given \in Seq(ToSet(x.given))
         /\ \A module \in ToSet(x.given) :
              /\ module.id \in BundledModules \cup {"custom"}
              /\ module.id = "custom" =>
                   \A f \in {"capabilities", "services"} \cap DOMAIN module.values :
                     module.values[f] \in Seq(ToSet(module.values[f]))

VARIABLES
    installation,  \* the host, its version, and the modules given to it
    pc, at,        \* what runs next, and the module it is about
    cause,         \* why the start failed
    registry,      \* names in the ModuleRegistry
    owner,         \* owner[c]: the module that registered capability c
    provider,      \* provider[s]: the module whose factory builds contract s
    connected,     \* modules whose provider is connected
    known,         \* known[i]: last_known of module i
    down,          \* the stores that do not answer
    changes        \* bounded counter: stops and returns of stores

vars == <<installation, pc, at, cause, registry, owner, provider, connected, known,
          down, changes>>

given == installation.given
Modules == DOMAIN given

\* A module of a third party comes with its manifest; the others read their values.
Config(i) == Configuration(given[i].id, given[i].values)
Manifest(i) ==
    IF given[i].id = "custom" THEN Built("custom", given[i].values)
    ELSE ManifestOf(given[i].id, Config(i))
Backing(i) == IF given[i].id = "custom" THEN None ELSE Store(given[i].id, Config(i))

\* Runtime.framework_version: create_app passes its own; one who builds a Runtime
\* by hand may pass any, and it is 0.0.0 if none is passed.
RuntimeVersion ==
    IF installation.host = "application" THEN FRAMEWORK_VERSION
    ELSE IF installation.version = None THEN <<0, 0, 0>> ELSE installation.version

-----------------------------------------------------------------------------
Init ==
    /\ installation \in Installation
    /\ pc = "construct" /\ at = 1
    /\ cause = None
    /\ registry = {}
    /\ owner = <<>> /\ provider = <<>>
    /\ connected = {}
    /\ known = [i \in Modules |-> "unknown"]
    /\ down \in SUBSET {"database", "redis"} /\ changes = 0

\* An exception leaves the start: nothing of what was done is undone.
Fail(why) ==
    /\ pc' = "failed" /\ cause' = why
    /\ UNCHANGED at

\* The application builds each module before the runtime exists.
Construct ==
    /\ pc = "construct" /\ at \in Modules
    /\ IF given[at].id # "custom"
          /\ \/ Unreadable(given[at].id, Config(at))
             \/ Unbuildable(given[at].id, Config(at), given[at].exporters)
       THEN Fail("configuration") ELSE at' = at + 1 /\ UNCHANGED <<pc, cause>>
    /\ UNCHANGED <<installation, registry, owner, provider, connected, known, down, changes>>

\* create_app, or Runtime(registry=ModuleRegistry(), framework_version=...).
Begin ==
    /\ pc = "construct" /\ at \notin Modules
    /\ pc' = "check" /\ at' = 1
    /\ registry' = IF installation.host = "application" THEN InfrastructureModules ELSE {}
    /\ UNCHANGED <<installation, cause, owner, provider, connected, known, down, changes>>

\* ModuleRegistry.register and CapabilityRegistry.register refuse what is there.
Registered(module) == module \in registry
Provided(capability) == capability \in DOMAIN owner

\* ServiceBinder.bind: a contract that is registered already is replaced.
Bound(i) ==
    LET services == ToSet(Manifest(i).services)
    IN  [s \in services \cup DOMAIN provider |-> IF s \in services THEN i ELSE provider[s]]

\* validate_or_raise, _check_compatibility and register_module.
Check ==
    LET manifest == Manifest(at)
        problem == CASE Errors(manifest) # {} -> "invalid"
                     [] ~Satisfies(RuntimeVersion, manifest.runtime)
                        \/ ~Satisfies(SDK_VERSION, manifest.sdk) -> "incompatible"
                     [] Registered(manifest.id) -> "registered"
                     [] OTHER -> None
    IN  /\ pc = "check" /\ at \in Modules
        /\ IF problem # None THEN Fail(problem) /\ UNCHANGED registry
           ELSE /\ registry' = registry \cup {manifest.id}
                /\ pc' = "bind" /\ UNCHANGED <<at, cause>>
        /\ UNCHANGED <<installation, owner, provider, connected, known, down, changes>>

\* The services, then the capabilities as far as the first that exists.
Bind ==
    LET manifest == Manifest(at)
        taken == {k \in DOMAIN manifest.capabilities : Provided(manifest.capabilities[k])}
        bound == SubSeq(manifest.capabilities, 1,
                        IF taken = {} THEN Len(manifest.capabilities) ELSE Min(taken) - 1)
    IN  /\ pc = "bind"
        /\ provider' = Bound(at)
        /\ owner' = [c \in ToSet(bound) \cup DOMAIN owner |->
                        IF c \in ToSet(bound) THEN at ELSE owner[c]]
        /\ IF taken # {} THEN Fail("capability")
           ELSE pc' = "connect" /\ UNCHANGED <<at, cause>>
        /\ UNCHANGED <<installation, registry, connected, known, down, changes>>

\* connect() of the provider: a database is asked; the pool of Redis is lazy,
\* but its library may be missing.
Unanswered(i) == Backing(i) = "database" /\ "database" \in down
Lacking(i) == Backing(i) = "redis" /\ "redis" \notin installation.extras

\* start
Connect ==
    /\ pc = "connect"
    /\ IF Lacking(at) \/ Unanswered(at)
       THEN Fail(IF Lacking(at) THEN "library" ELSE "store") /\ UNCHANGED connected
       ELSE /\ connected' = IF given[at].id \in {"database", "cache"}
                            THEN connected \cup {at} ELSE connected
            /\ pc' = "refresh" /\ UNCHANGED <<at, cause>>
    /\ UNCHANGED <<installation, registry, owner, provider, known, down, changes>>

\* start: health.refresh(); then ready.
Refresh ==
    /\ pc = "refresh"
    /\ IF given[at].id = "custom" THEN UNCHANGED known
       ELSE known' = [known EXCEPT ![at] =
                Refreshed(given[at].id, Config(at), given[at].exporters, Backing(at) \notin down)]
    /\ pc' = "check" /\ at' = at + 1
    /\ UNCHANGED <<installation, cause, registry, owner, provider, connected, down, changes>>

Serve ==
    /\ pc = "check" /\ at \notin Modules
    /\ pc' = "serving" /\ at' = 0
    /\ UNCHANGED <<installation, cause, registry, owner, provider, connected, known,
                   down, changes>>

StoreStops ==
    /\ changes < MaxChanges
    /\ \E s \in {Backing(i) : i \in Modules} \ ({None} \cup down) : down' = down \cup {s}
    /\ changes' = changes + 1
    /\ UNCHANGED <<installation, pc, at, cause, registry, owner, provider, connected, known>>

StoreReturns ==
    /\ changes < MaxChanges
    /\ \E s \in down : down' = down \ {s}
    /\ changes' = changes + 1
    /\ UNCHANGED <<installation, pc, at, cause, registry, owner, provider, connected, known>>

Stop ==
    /\ pc = "serving"
    /\ pc' = "stop" /\ at' = Len(given)
    /\ UNCHANGED <<installation, cause, registry, owner, provider, connected, known,
                   down, changes>>

\* shutdown of a module: disconnect() closes what connect() opened.
Dispose ==
    /\ pc = "stop"
    /\ connected' = connected \ {at}
    /\ IF at > 1 THEN at' = at - 1 /\ UNCHANGED pc ELSE pc' = "stopped" /\ at' = 0
    /\ UNCHANGED <<installation, cause, registry, owner, provider, known, down, changes>>

Next ==
    \/ Construct \/ Begin \/ Check \/ Bind \/ Connect \/ Refresh \/ Serve
    \/ StoreStops \/ StoreReturns \/ Stop \/ Dispose

Spec == Init /\ [][Next]_vars

-----------------------------------------------------------------------------
(* What the application answers about its health.                          *)

\* From the most severe on.
SeverityOrder == <<"unhealthy", "degraded", "unknown", "healthy">>

\* CompositeHealthChecker.from_modules(bootstrapped).check_all(): every check
\* counts, and without any the result is healthy.
Reported == {known[i] : i \in {j \in Modules : Manifest(j).checks # <<>>}}

Overall ==
    IF Reported = {} THEN "healthy"
    ELSE SeverityOrder[Min({k \in 1 .. 4 : SeverityOrder[k] \in Reported})]

\* /ready, and /health, which never fails.
ReadyStatus == IF Overall = "unhealthy" THEN 503 ELSE 200
HealthStatus == IF Overall = "unhealthy" THEN "degraded" ELSE "ok"

-----------------------------------------------------------------------------
(* Properties.                                                             *)

\* Modules of one runtime fit together. A start fails only for a configuration
\* that somebody changed, a store or a library that is missing, an id that is
\* taken, a Runtime built by hand that is older than a module asks, or what a
\* third party declares: two bundled modules never stand in each other's way,
\* and create_app never refuses one for its manifest or its versions. Once it
\* serves, each capability is of a module that declares it and each contract
\* of the last module to; a module that is not ready for its store makes the
\* application not ready, and nothing else does; and when it has stopped,
\* nothing is connected.
ModulesCompose ==
    /\ pc = "failed" =>
         LET ofThirdParty == \E i \in 1 .. at : given[i].id = "custom"
         IN  CASE cause = "configuration" -> given[at].values # <<>> \/ given[at].exporters # <<>>
               [] cause = "registered" ->
                    \/ installation.host = "application" /\ given[at].id \in InfrastructureModules
                    \/ \E j \in 1 .. at - 1 : given[j].id = given[at].id
               [] cause = "store" -> given[at].id = "database" /\ given[at].values # <<>>
               [] cause = "library" -> Backing(at) = "redis" /\ installation.extras = {}
               [] cause = "invalid" -> given[at].id = "custom"
               [] cause = "incompatible" ->
                    \/ given[at].id = "custom"
                    \/ installation.host # "application"
                         /\ ~Satisfies(RuntimeVersion, Manifest(at).runtime)
               [] cause = "capability" -> ofThirdParty
    /\ pc \in {"serving", "stop", "stopped"} =>
         /\ \A i \in Modules :
              /\ \A c \in ToSet(Manifest(i).capabilities) : owner[c] = i
              /\ \A s \in ToSet(Manifest(i).services) :
                   provider[s] = Max({j \in Modules : s \in ToSet(Manifest(j).services)})
         /\ ReadyStatus = 503 <=>
              \E i \in Modules : known[i] = "unhealthy" /\ Backing(i) # None
         /\ ReadyStatus = 503 <=> HealthStatus = "degraded"
    /\ pc = "stopped" => connected = {}

-----------------------------------------------------------------------------
(* What the comments of the code promise and the code does not do.         *)

\* core/application.py:65-74: a subsystem leaves the placeholders as soon as it
\* has a module of its own, so that the two do not collide. Here: the module
\* of a subsystem never fails because its name is taken, unless it is given twice.
PlaceholdersGiveWay ==
    cause = "registered" => \E j \in 1 .. at - 1 : given[j].id = given[at].id

\* config/settings.py:49-56 and 178-183: an application may build the
\* configurations of security and of observability from the settings. Here:
\* a field of the settings for a module is what the module is built with.
SectionOf(module) ==
    CASE module = "security" -> "jwt_" [] module = "observability" -> "observability_"
      [] module = "cache" -> "cache_" [] OTHER -> None

SettingsAreHonoured ==
    pc = "serving" =>
      \A i \in Modules \ {j \in Modules : given[j].id = "custom"} :
        \A f \in DOMAIN Config(i) :
          <<SectionOf(given[i].id), f>> \in DOMAIN given[i].values =>
             Config(i)[f] = given[i].values[<<SectionOf(given[i].id), f>>]
=============================================================================
