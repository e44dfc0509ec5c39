------------------------------ MODULE Runtime ------------------------------
(***************************************************************************)
(* The registries of one Runtime: Container, which resolves services, and  *)
(* Platform, which publishes what is registered, loaded and enabled; and   *)
(* Resolver, which orders the modules before they are registered. The      *)
(* events say nothing of the instances, Platform takes the services as     *)
(* names and the resolver works on manifests: they share no state.         *)
(***************************************************************************)
EXTENDS Container

CONSTANTS Module, Capability, Service, Plugin, Feature, Provides, Handler,
          Watched, HistoryLimit, MaxEvents, MaxSubscribed,
          ModuleId, Catalogues, NoPin

VARIABLES active, subscribers, history, publications, raising, published, removed,
          catalogue, resolution, colour, path, inDegree, ready, order

Bus == INSTANCE Platform WITH stack <- publications

busVars == <<active, subscribers, history, publications, raising, published, removed>>

Sdk == INSTANCE Resolver WITH Module <- ModuleId, phase <- resolution

sdkVars == <<catalogue, resolution, colour, path, inDegree, ready, order>>

ASSUME BusAssumption == Bus!PlatformAssumption
ASSUME SdkAssumption == Sdk!ResolverAssumption

-----------------------------------------------------------------------------
(* The properties of Platform and Resolver, which see.                     *)

\* Every handler subscribed when a publication began is called, in order.
HandlersHeardOnce == Bus!HandlersHeardOnce

\* The history tells what is registered, loaded and enabled.
HistoryTellsState == Bus!HistoryTellsState

\* A plugin that counts as loaded has registered all its services.
LoadedPluginsAreWhole == Bus!LoadedPluginsAreWhole

\* An order has every module once, after its dependencies; a cycle is one.
CataloguesAreResolved == Sdk!ResolutionIsSound
=============================================================================
