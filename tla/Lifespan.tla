------------------------------ MODULE Lifespan ------------------------------
(***************************************************************************)
(* The life of one TEAF application: the ASGI lifespan of create_app, the  *)
(* start-up and shutdown of its Runtime (stage hooks, configuration        *)
(* validators, dependency graph, pipelines, events) and the bootstrap and  *)
(* shutdown of its modules (ModuleBase).                                   *)
(*                                                                         *)
(* pc names what runs next. Hooks, validators, pipeline steps and event    *)
(* handlers are code of the application: each may raise where Faulty says  *)
(* so. An exception leaves the lifespan from wherever it was raised, except *)
(* that one raised while serving runs the finally of _lifespan, as the     *)
(* server's request to stop does. The lifespan of one application may be   *)
(* entered again.                                                          *)
(*                                                                         *)
(* Modules are numbered in the order they are given to the application, so *)
(* pending_modules is 1 .. pending and the list of bootstrapped modules is *)
(* 1 .. booted. Step k of the shutdown pipeline releases what step k of    *)
(* the startup pipeline acquires, as RUNTIME.md, section 10, asks; a       *)
(* module releases in Closes[m] what its start acquired.                   *)
(***************************************************************************)
EXTENDS Integers, Sequences, FiniteSets, SequencesExt

CONSTANTS
    Name,           \* module ids
    Placeholder,    \* ids create_app registers: _INFRASTRUCTURE_MODULES
    Modules,        \* number of module instances the application may be given
    Given,          \* number of them given before the first start
    Id,             \* Id[m]: manifest.descriptor.id of instance m
    Deps,           \* Deps[n]: declared dependencies of id n
    Capability,     \* capability ids
    Provides,       \* Provides[m]: the capabilities m's manifest declares
    Closes,         \* Closes[m]: the stage whose hook releases m's resource
    Steps,          \* number of steps in each pipeline
    Faulty,         \* places where code of the application may raise
    MaxStarts       \* bound on the number of times the lifespan is entered

Mod == 1 .. Modules
Step == 1 .. Steps
Canonical == <<"created", "initialized", "configured", "registered",
               "started", "ready", "stopped", "disposed">>
ModuleState == {Canonical[i] : i \in 1 .. Len(Canonical)} \union {"failed"}
HookStage == {Canonical[i] : i \in 2 .. Len(Canonical)}
LifecycleStage == {"BOOTSTRAP", "STARTUP", "RUNNING", "SHUTDOWN", "STOPPED"}
RuntimePlace ==
    LifecycleStage \union {"validate", "graph", "acquire", "announce",
                           "manifest", "release", "farewell"}
ModulePlace == HookStage \union {"check", "bind"}
Rest == {"down", "serving", "ended", "aborted"}
Place == RuntimePlace \union ModulePlace \union Rest

ASSUME LifespanAssumption ==
    /\ IsFiniteSet(Name) /\ IsFiniteSet(Capability)
    /\ Placeholder \subseteq Name
    /\ Modules \in Nat /\ Given \in 0 .. Modules
    /\ Id \in [Mod -> Name]
    /\ Deps \in [Name -> SUBSET Name]
    /\ Provides \in [Mod -> SUBSET Capability]
    /\ Closes \in [Mod -> {"stopped", "disposed"}]
    /\ Steps \in Nat
    /\ Faulty \subseteq (RuntimePlace \ {"graph"}) \union ModulePlace
    /\ MaxStarts \in Nat

VARIABLES
    pc,         \* what runs next
    at,         \* the module or pipeline step it concerns
    starts,     \* how often the lifespan was entered
    pending,    \* app.state.pending_modules is 1 .. pending
    booted,     \* this lifespan's bootstrapped list is 1 .. booted
    lifecycle,  \* lifecycle[m].state: ModuleLifecycle of instance m
    registry,   \* names in the ModuleRegistry
    owner,      \* owner[c]: instance that registered c, 0 if none
    runtime,    \* Runtime.state
    stage,      \* LifecycleManager.current_stage
    held        \* history: what was acquired and not released, in order

vars == <<pc, at, starts, pending, booted, lifecycle, registry, owner,
          runtime, stage, held>>

-----------------------------------------------------------------------------
(* Helpers.                                                                *)

Rank(s) == CHOOSE i \in 1 .. Len(Canonical) : Canonical[i] = s

\* ModuleLifecycle.advance accepts s.
CanAdvance(m, s) == lifecycle[m] # "failed" /\ Rank(lifecycle[m]) < Rank(s)

\* DependencyGraph.detect_cycle: dependencies on absent modules are ignored.
\* A finite graph has a cycle iff each node of some set of nodes has an edge into it.
Cyclic(nodes) ==
    \E S \in SUBSET nodes : S # {} /\ \A n \in S : Deps[n] \intersect S # {}

StepItem(k) == <<"step", k>>
ModuleItem(m) == <<"module", m>>
Held(x) == \E i \in 1 .. Len(held) : held[i] = x
Acquire(x) == IF Held(x) THEN held ELSE Append(held, x)
Release(x) == RemoveFirst(held, x)

\* Runtime.state is assigned on the way to the hooks of RUNNING and STOPPED.
Goto(p) ==
    /\ pc' = p
    /\ runtime' = CASE p = "RUNNING" -> "running"
                    [] p = "STOPPED" -> "stopped"
                    [] OTHER -> runtime

\* The for loop of _bootstrap_pending_modules reads the live list.
NextModule(done) ==
    /\ booted' = done
    /\ IF done < pending THEN Goto("check") /\ at' = done + 1
                         ELSE Goto("manifest") /\ at' = 0

\* The for loop of _shutdown_bootstrapped_modules, over the reversed list.
PreviousModule(m) ==
    IF m > 1 THEN Goto("stopped") /\ at' = m - 1
             ELSE Goto("release") /\ at' = Steps

Init ==
    /\ pc = "down" /\ at = 0 /\ starts = 0
    /\ pending = Given /\ booted = 0
    /\ lifecycle = [m \in Mod |-> "created"]
    /\ registry = Placeholder
    /\ owner = [c \in Capability |-> 0]
    /\ runtime = "bootstrapping" /\ stage = "none"
    /\ held = <<>>

-----------------------------------------------------------------------------
(* Runtime.startup and Runtime.shutdown.                                   *)

Begin ==
    /\ pc \in {"down", "ended", "aborted"} /\ starts < MaxStarts
    /\ Goto("BOOTSTRAP") /\ starts' = starts + 1
    /\ booted' = 0 /\ at' = 0
    /\ UNCHANGED <<pending, lifecycle, registry, owner, stage, held>>

\* LifecycleManager.run_stage: every hook returned.
RunStage ==
    /\ pc \in LifecycleStage
    /\ stage' = pc
    /\ Goto([BOOTSTRAP |-> "validate", STARTUP |-> "acquire",
             RUNNING |-> "announce", SHUTDOWN |-> "STOPPED",
             STOPPED |-> "farewell"][pc])
    /\ UNCHANGED <<at, starts, pending, booted, lifecycle, registry, owner, held>>

ValidateAll ==
    /\ pc = "validate"
    /\ Goto("graph")
    /\ UNCHANGED <<at, starts, pending, booted, lifecycle, registry, owner,
                   stage, held>>

\* topological_order raises when the registered modules form a cycle.
CheckGraph ==
    /\ pc = "graph"
    /\ IF Cyclic(registry) THEN Goto("aborted") ELSE Goto("STARTUP")
    /\ UNCHANGED <<at, starts, pending, booted, lifecycle, registry, owner,
                   stage, held>>

\* StartupPipeline.run, one step, or none left.
StartupStep ==
    /\ pc = "acquire"
    /\ IF at < Steps
       THEN held' = Acquire(StepItem(at + 1)) /\ at' = at + 1 /\ Goto("acquire")
       ELSE Goto("RUNNING") /\ at' = 0 /\ UNCHANGED held
    /\ UNCHANGED <<starts, pending, booted, lifecycle, registry, owner, stage>>

\* The events framework.started and framework.startup.completed.
Announce ==
    /\ pc = "announce"
    /\ NextModule(0)
    /\ UNCHANGED <<starts, pending, lifecycle, registry, owner, stage, held>>

\* Mutant: the shutdown pipeline runs in the order of registration.
ShutdownStepInOrder ==
    /\ pc = "release"
    /\ IF at > 0
       THEN held' = Release(StepItem(Steps - at + 1)) /\ at' = at - 1 /\ Goto("release")
       ELSE Goto("SHUTDOWN") /\ UNCHANGED <<at, held>>
    /\ UNCHANGED <<starts, pending, booted, lifecycle, registry, owner, stage>>

\* Mutant: the first step of the pipeline is forgotten.
ShutdownStepButFirst ==
    /\ pc = "release"
    /\ IF at > 1
       THEN held' = Release(StepItem(at)) /\ at' = at - 1 /\ Goto("release")
       ELSE Goto("SHUTDOWN") /\ UNCHANGED <<at, held>>
    /\ UNCHANGED <<starts, pending, booted, lifecycle, registry, owner, stage>>

\* ShutdownPipeline.run, one step of the reversed sequence, or none left.
ShutdownStep ==
    /\ pc = "release"
    /\ IF at > 0
       THEN held' = Release(StepItem(at)) /\ at' = at - 1 /\ Goto("release")
       ELSE Goto("SHUTDOWN") /\ UNCHANGED <<at, held>>
    /\ UNCHANGED <<starts, pending, booted, lifecycle, registry, owner, stage>>

\* The events framework.stopped and framework.shutdown.completed.
Farewell ==
    /\ pc = "farewell"
    /\ Goto("ended")
    /\ UNCHANGED <<at, starts, pending, booted, lifecycle, registry, owner,
                   stage, held>>

\* A hook, validator, step or handler raises, or write_manifest raises
\* something other than OSError.
RaiseInRuntime ==
    /\ pc \in Faulty \intersect RuntimePlace
    /\ Goto("aborted")
    /\ UNCHANGED <<at, starts, pending, booted, lifecycle, registry, owner,
                   stage, held>>

-----------------------------------------------------------------------------
(* ModuleBase.bootstrap and ModuleBase.shutdown of module at.              *)

\* Manifest, compatibility and registration succeed.
Check ==
    /\ pc = "check"
    /\ Id[at] \notin registry
    /\ registry' = registry \union {Id[at]}
    /\ Goto("initialized")
    /\ UNCHANGED <<at, starts, pending, booted, lifecycle, owner, stage, held>>

\* One of them raises; a handler of module.registered raises after the fact.
RaiseInCheck ==
    /\ pc = "check"
    /\ \/ Id[at] \in registry /\ UNCHANGED registry
       \/ "check" \in Faulty /\ registry' \in {registry, registry \union {Id[at]}}
    /\ lifecycle' = [lifecycle EXCEPT ![at] = "failed"]
    /\ Goto("aborted")
    /\ UNCHANGED <<at, starts, pending, booted, owner, stage, held>>

\* _run_stage: the hook that leads to stage pc returns, and advance accepts it.
Hook ==
    /\ pc \in HookStage /\ CanAdvance(at, pc)
    /\ lifecycle' = [lifecycle EXCEPT ![at] = pc]
    /\ held' = CASE pc = "started" -> Acquire(ModuleItem(at))
                 [] pc = Closes[at] -> Release(ModuleItem(at))
                 [] OTHER -> held
    /\ CASE pc = "ready" -> NextModule(at)
         [] pc = "disposed" -> PreviousModule(at) /\ UNCHANGED booted
         [] OTHER -> /\ Goto([initialized |-> "configured", configured |-> "bind",
                              registered |-> "started", started |-> "ready",
                              stopped |-> "disposed"][pc])
                     /\ UNCHANGED <<at, booted>>
    /\ UNCHANGED <<starts, pending, registry, owner, stage>>

\* Mutant: what advance raises is lost.
RaiseInHookOnly ==
    /\ pc \in HookStage \intersect Faulty
    /\ lifecycle' = [lifecycle EXCEPT ![at] = "failed"]
    /\ UNCHANGED <<at, starts, pending, booted, registry, owner, stage, held>>
    /\ Goto("aborted")

\* The hook raises, start possibly after it acquired its resource; or it
\* returns and advance raises, which marks nothing.
RaiseInHook ==
    /\ pc \in HookStage
    /\ \/ /\ pc \in Faulty
          /\ lifecycle' = [lifecycle EXCEPT ![at] = "failed"]
          /\ held' \in {held} \union
                 IF pc = "started" THEN {Acquire(ModuleItem(at))} ELSE {}
       \/ ~CanAdvance(at, pc) /\ UNCHANGED <<lifecycle, held>>
    /\ Goto("aborted")
    /\ UNCHANGED <<at, starts, pending, booted, registry, owner, stage>>

\* ServiceBinder and CapabilityBinder.
Bind ==
    /\ pc = "bind"
    /\ \A c \in Provides[at] : owner[c] = 0
    /\ owner' = [c \in Capability |-> IF c \in Provides[at] THEN at ELSE owner[c]]
    /\ Goto("registered")
    /\ UNCHANGED <<at, starts, pending, booted, lifecycle, registry, stage, held>>

\* Mutant: a capability that cannot be registered is passed over.
RaiseInBindPassedOver ==
    /\ pc = "bind"
    /\ "bind" \in Faulty \/ \E c \in Provides[at] : owner[c] # 0
    /\ \E done \in SUBSET {c \in Provides[at] : owner[c] = 0} :
          owner' = [c \in Capability |-> IF c \in done THEN at ELSE owner[c]]
    /\ Goto("registered")
    /\ UNCHANGED <<at, starts, pending, booted, lifecycle, registry, stage, held>>

\* A capability is taken or a handler raises, after some were registered;
\* nothing marks the module as failed.
RaiseInBind ==
    /\ pc = "bind"
    /\ "bind" \in Faulty \/ \E c \in Provides[at] : owner[c] # 0
    /\ \E done \in SUBSET {c \in Provides[at] : owner[c] = 0} :
          owner' = [c \in Capability |-> IF c \in done THEN at ELSE owner[c]]
    /\ Goto("aborted")
    /\ UNCHANGED <<at, starts, pending, booted, lifecycle, registry, stage, held>>

-----------------------------------------------------------------------------
(* _lifespan and Application.add_module.                                   *)

\* The manifest file is written, or writing it raised OSError.
WriteManifest ==
    /\ pc = "manifest"
    /\ Goto("serving")
    /\ UNCHANGED <<at, starts, pending, booted, lifecycle, registry, owner,
                   stage, held>>

\* The server stops, or raises into the lifespan: the finally begins.
Exit ==
    /\ pc = "serving"
    /\ PreviousModule(booted + 1)
    /\ UNCHANGED <<starts, pending, booted, lifecycle, registry, owner, stage, held>>

AddModule ==
    /\ pending < Modules
    /\ pending' = pending + 1
    /\ UNCHANGED <<pc, at, starts, booted, lifecycle, registry, owner, runtime,
                   stage, held>>

\* Runtime.unregister_module, by the application between two lifespans.
Unregister(m) ==
    /\ pc \in {"ended", "aborted"} /\ starts < MaxStarts
    /\ Id[m] \in registry
    /\ registry' = registry \ {Id[m]}
    /\ UNCHANGED <<pc, at, starts, pending, booted, lifecycle, owner, runtime,
                   stage, held>>

Running ==
    \/ RunStage \/ ValidateAll \/ CheckGraph \/ StartupStep \/ Announce
    \/ ShutdownStep \/ Farewell \/ RaiseInRuntime
    \/ Check \/ RaiseInCheck \/ Hook \/ RaiseInHook \/ Bind \/ RaiseInBind
    \/ WriteManifest

Next == Begin \/ Running \/ Exit \/ AddModule \/ \E m \in Mod : Unregister(m)

\* Hooks, steps and handlers return or raise; servers need not start or stop.
Spec == Init /\ [][Next]_vars /\ WF_vars(Running)

-----------------------------------------------------------------------------
(* Properties.                                                             *)

Items == {StepItem(k) : k \in Step} \union {ModuleItem(m) : m \in Mod}

\* Every variable stays in its range.
TypeOK ==
    /\ pc \in Place
    /\ at \in 0 .. Modules + Steps
    /\ starts \in 0 .. MaxStarts
    /\ pending \in 0 .. Modules /\ booted \in 0 .. pending
    /\ lifecycle \in [Mod -> ModuleState]
    /\ registry \subseteq Name
    /\ owner \in [Capability -> 0 .. Modules]
    /\ runtime \in {"bootstrapping", "running", "stopped"}
    /\ stage \in LifecycleStage \union {"none"}
    /\ held \in Seq(Items)

\* The application serves only with every bootstrapped module ready, holding
\* its resource and owning its capabilities, every pipeline step done and the
\* Runtime at RUNNING, whatever failed in an earlier start (_lifespan).
ServingIsComplete ==
    pc = "serving" =>
        /\ \A m \in 1 .. booted :
              /\ lifecycle[m] = "ready" /\ Held(ModuleItem(m))
              /\ \A c \in Provides[m] : owner[c] = m
        /\ \A k \in Step : Held(StepItem(k))
        /\ runtime = "running" /\ stage = "RUNNING"

\* A lifespan that runs to its end leaves nothing acquired by a module or by a
\* pipeline step, now or by an earlier start that was aborted.
EndHoldsNothing == pc = "ended" => held = <<>> /\ runtime = "stopped"

\* Whatever is released was the last thing acquired: modules go down in the
\* reverse of the order they came up, and before the pipeline steps they may
\* rely on (_shutdown_bootstrapped_modules, ShutdownPipeline.steps).
ReleasedInReverse ==
    [][Len(held') < Len(held) =>
         held' = SubSeq(held, 1, Len(held) - 1)]_vars

\* A start ends up serving or aborted, and a shutdown ended or aborted: no
\* failure leaves the lifespan halfway.
LifespanSettles == [](pc \notin Rest => <>(pc \in Rest))

=============================================================================
